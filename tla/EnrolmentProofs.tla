--------------------------- MODULE EnrolmentProofs ---------------------------
(***************************************************************************)
(* Theorems about PINs, credentials and the credential check, and about the*)
(* devices that use them, for every field, every key and every random draw.*)
(***************************************************************************)
EXTENDS Enrolment, SumProofs, TLAPS
-----------------------------------------------------------------------------
(* The field                                                               *)

\* The axioms of the scalars as facts for one, two and three of them.
LEMMA FieldOne ==
  ASSUME NEW a \in Scalar
  PROVE  /\ Neg(a) \in Scalar /\ Inv(a) \in Scalar
         /\ Plus(a, Zero) = a /\ Plus(a, Neg(a)) = Zero
         /\ Times(a, One) = a /\ Times(a, Zero) = Zero
         /\ a # Zero => Times(a, Inv(a)) = One
  BY FieldAssumption

LEMMA FieldTwo ==
  ASSUME NEW a \in Scalar, NEW b \in Scalar
  PROVE  /\ Plus(a, b) \in Scalar /\ Times(a, b) \in Scalar
         /\ Plus(a, b) = Plus(b, a) /\ Times(a, b) = Times(b, a)
  BY FieldAssumption

LEMMA FieldThree ==
  ASSUME NEW a \in Scalar, NEW b \in Scalar, NEW c \in Scalar
  PROVE  /\ Plus(a, Plus(b, c)) = Plus(Plus(a, b), c)
         /\ Times(a, Times(b, c)) = Times(Times(a, b), c)
         /\ Times(a, Plus(b, c)) = Plus(Times(a, b), Times(a, c))
  BY FieldAssumption

LEMMA ZeroOne == Zero \in Scalar /\ One \in Scalar /\ Zero # One
  BY FieldAssumption

\* A sum determines its second summand.
LEMMA PlusCancels ==
  ASSUME NEW a \in Scalar, NEW b \in Scalar, NEW c \in Scalar,
         Plus(a, b) = Plus(a, c)
  PROVE  b = c
<1>1. ASSUME NEW d \in Scalar
      PROVE  Plus(Neg(a), Plus(a, d)) = d
  <2>1. Neg(a) \in Scalar /\ Plus(a, Neg(a)) = Zero /\ Plus(d, Zero) = d
    BY FieldOne
  <2>2. Plus(Neg(a), Plus(a, d)) = Plus(Plus(Neg(a), a), d)
    BY <2>1, FieldThree
  <2>3. Plus(Neg(a), a) = Zero /\ Plus(Zero, d) = Plus(d, Zero)
    BY <2>1, FieldTwo, ZeroOne
  <2> QED BY <2>1, <2>2, <2>3
<1> QED BY <1>1

\* Subtracting what was added.
LEMMA MinusPlus ==
  ASSUME NEW a \in Scalar, NEW b \in Scalar
  PROVE  /\ Minus(a, b) \in Scalar
         /\ Minus(Plus(a, b), b) = a
         /\ Plus(Minus(a, b), b) = a
<1>1. Neg(b) \in Scalar /\ Plus(b, Neg(b)) = Zero /\ Plus(a, Zero) = a
  BY FieldOne
<1>2. Minus(a, b) \in Scalar
  BY <1>1, FieldTwo DEF Minus
<1>3. Plus(Plus(a, b), Neg(b)) = Plus(a, Plus(b, Neg(b)))
  BY <1>1, FieldThree
<1>4. Plus(Plus(a, Neg(b)), b) = Plus(a, Plus(Neg(b), b))
  BY <1>1, FieldThree
<1>5. Plus(Neg(b), b) = Zero
  BY <1>1, FieldTwo
<1> QED BY <1>1, <1>2, <1>3, <1>4, <1>5 DEF Minus

\* The product with -1, by which points are subtracted, is the negative.
LEMMA TimesMinusOne ==
  ASSUME NEW a \in Scalar
  PROVE  Times(a, Neg(One)) = Neg(a)
<1>1. /\ Neg(One) \in Scalar /\ Plus(One, Neg(One)) = Zero
      /\ Neg(a) \in Scalar /\ Plus(a, Neg(a)) = Zero
      /\ Times(a, One) = a /\ Times(a, Zero) = Zero
  BY FieldOne, ZeroOne
<1>2. Times(a, Plus(One, Neg(One))) = Plus(Times(a, One), Times(a, Neg(One)))
  BY <1>1, ZeroOne, FieldThree
<1>3. Times(a, Neg(One)) \in Scalar
  BY <1>1, FieldTwo
<1> QED BY <1>1, <1>2, <1>3, PlusCancels

\* A difference is zero only between equals.
LEMMA MinusZero ==
  ASSUME NEW a \in Scalar, NEW b \in Scalar
  PROVE  Minus(a, b) = Zero <=> a = b
<1>1. Plus(a, Neg(a)) = Zero /\ Neg(b) \in Scalar /\ Plus(b, Neg(b)) = Zero
  BY FieldOne
<1>2. ASSUME Plus(a, Neg(b)) = Zero PROVE a = b
  <2>1. Plus(Neg(b), a) = Plus(Neg(b), b)
    BY <1>1, <1>2, FieldTwo
  <2> QED BY <1>1, <2>1, PlusCancels
<1> QED BY <1>1, <1>2 DEF Minus
-----------------------------------------------------------------------------
(* PINs                                                                    *)

LEMMA PinValueIsUserPin ==
  ASSUME NEW mask \in Scalar
  PROVE  PinValue(mask) \in UserPin /\ FromPin(PinValue(mask)) \in Scalar
<1>1. HighBytes(mask) \in Nat /\ MAX_PIN \in Nat \ {0}
  BY PinAssumption
<1>2. HighBytes(mask) % MAX_PIN \in 0..(MAX_PIN - 1)
  BY <1>1
<1> QED BY <1>2, PinAssumption DEF PinValue

\* The device recovers x from the typed number exactly if it is the PIN of
\* the mask, and then it recovers the mask, too.
THEOREM PinOpensX ==
  ASSUME NEW pin \in PIN, NEW n \in UserPin
  PROVE  /\ ToPin(ToMasked(pin), n).x \in Scalar
         /\ ToPin(ToMasked(pin), n).x = pin.x <=> n = PinValue(pin.mask)
         /\ n = PinValue(pin.mask) => ToPin(ToMasked(pin), n) = pin
<1> DEFINE f == FromPin(PinValue(pin.mask))
           partial == Minus(pin.mask, f)
           mask == Plus(partial, FromPin(n))
           total == Plus(pin.x, pin.mask)
<1>1. pin.x \in Scalar /\ pin.mask \in Scalar /\ pin = [x |-> pin.x, mask |-> pin.mask]
  BY DEF PIN
<1>2. f \in Scalar /\ FromPin(n) \in Scalar /\ PinValue(pin.mask) \in UserPin
  BY <1>1, PinValueIsUserPin, PinAssumption
<1>3. ToPin(ToMasked(pin), n) = [x |-> Minus(total, mask), mask |-> mask]
  BY DEF ToPin, ToMasked
<1> HIDE DEF f
<1>4. partial \in Scalar /\ Plus(partial, f) = pin.mask
  BY <1>1, <1>2, MinusPlus
<1> HIDE DEF partial
<1>5. mask \in Scalar /\ total \in Scalar
  BY <1>1, <1>2, <1>4, FieldTwo
<1>6. mask = pin.mask <=> FromPin(n) = f
  BY <1>2, <1>4, PlusCancels
<1>7. FromPin(n) = f <=> n = PinValue(pin.mask)
  BY <1>2, PinAssumption DEF f
<1> HIDE DEF mask
<1>8. Minus(total, mask) \in Scalar /\ Plus(Minus(total, mask), mask) = total
  BY <1>5, MinusPlus
<1>9. mask = pin.mask => Minus(total, mask) = pin.x
  BY <1>1, MinusPlus
<1>10. Minus(total, mask) = pin.x => mask = pin.mask
  BY <1>1, <1>5, <1>8, PlusCancels
<1> HIDE DEF total
<1> QED BY <1>1, <1>3, <1>6, <1>7, <1>8, <1>9, <1>10
-----------------------------------------------------------------------------
(* Points, signatures and the credential check                             *)

LEMMA ZeroTimes ==
  ASSUME NEW a \in Scalar
  PROVE  /\ Times(Zero, a) = Zero /\ Times(One, a) = a /\ Plus(Zero, a) = a
  BY FieldOne, FieldTwo, ZeroOne

\* The last two of three summands change places.
LEMMA PlusSwap ==
  ASSUME NEW a \in Scalar, NEW b \in Scalar, NEW c \in Scalar
  PROVE  Plus(Plus(a, b), c) = Plus(Plus(a, c), b)
<1>1. Plus(Plus(a, b), c) = Plus(a, Plus(b, c)) /\ Plus(Plus(a, c), b) = Plus(a, Plus(c, b))
  BY FieldThree
<1>2. Plus(b, c) = Plus(c, b)
  BY FieldTwo
<1> QED BY <1>1, <1>2

LEMMA PointOps ==
  ASSUME NEW P \in Point, NEW Q \in Point, NEW s \in Scalar
  PROVE  Add(P, Q) \in Point /\ Mul(P, s) \in Point /\ Sub(P, Q) \in Point
<1>1. /\ P.g1 \in Scalar /\ P.g3 \in Scalar /\ P.o \in Scalar
      /\ Q.g1 \in Scalar /\ Q.g3 \in Scalar /\ Q.o \in Scalar
  BY DEF Point
<1>2. Neg(One) \in Scalar
  BY FieldOne, ZeroOne
<1>3. /\ Times(Q.g1, Neg(One)) \in Scalar /\ Times(Q.g3, Neg(One)) \in Scalar
      /\ Times(Q.o, Neg(One)) \in Scalar
  BY <1>1, <1>2, FieldTwo
<1> QED BY <1>1, <1>3, FieldTwo DEF Add, Mul, Sub, Point

LEMMA Generators == G1 \in Point /\ G3 \in Point /\ O \in Point /\ Identity \in Point
  BY ZeroOne DEF G1, G3, O, Identity, Point

LEMMA AddIdentity ==
  ASSUME NEW P \in Point
  PROVE  Add(Identity, P) = P
<1>1. /\ P.g1 \in Scalar /\ P.g3 \in Scalar /\ P.o \in Scalar
      /\ P = [g1 |-> P.g1, g3 |-> P.g3, o |-> P.o]
  BY DEF Point
<1> QED BY <1>1, ZeroTimes DEF Add, Identity

\* The coordinates of a signature on x with key y.
LEMMA SignaturePoint ==
  ASSUME NEW x \in Scalar, NEW y \in Scalar, NEW r \in Scalar
  PROVE  LET inv == Inv(Plus(r, y)) IN
           /\ inv \in Scalar
           /\ RTSignature(y, x, r) = [A |-> [g1 |-> inv, g3 |-> Times(x, inv), o |-> Zero],
                                      r |-> r]
           /\ RTSignature(y, x, r).A \in Point
<1> DEFINE inv == Inv(Plus(r, y))
<1>1. inv \in Scalar
  BY FieldOne, FieldTwo
<1>2. Message(x) = [g1 |-> One, g3 |-> x, o |-> Zero]
  <2>1. /\ Times(Zero, x) = Zero /\ Times(One, x) = x /\ Plus(Zero, x) = x
        /\ Plus(One, Zero) = One /\ Plus(Zero, Zero) = Zero
    BY ZeroTimes, FieldOne, ZeroOne
  <2> QED BY <2>1 DEF Message, Add, Mul, G1, G3, Identity
<1> HIDE DEF inv
<1>3. Mul(Message(x), inv) = [g1 |-> inv, g3 |-> Times(x, inv), o |-> Zero]
  BY <1>1, <1>2, ZeroTimes DEF Mul
<1>4. Times(x, inv) \in Scalar
  BY <1>1, FieldTwo
<1>5. RTSignature(y, x, r) = [A |-> Mul(Message(x), inv), r |-> r]
  BY DEF RTSignature, inv
<1> QED BY <1>1, <1>3, <1>4, <1>5, ZeroOne DEF Point, inv

\* What the check computes for a signature (A, r), the x of the ballot and
\* the key of the counting teller.
LEMMA CheckPoint ==
  ASSUME NEW A \in Point, NEW r \in Scalar, NEW x \in Scalar, NEW y \in Scalar,
         NEW auth, auth.A_enc.pt = A, auth.Ar_enc.pt = Mul(A, r),
         auth.g3x_enc.pt = Mul(G3, x)
  PROVE  CredentialCheck(auth, y) =
           [g1 |-> Minus(Times(A.g1, Plus(r, y)), One),
            g3 |-> Minus(Times(A.g3, Plus(r, y)), x),
            o  |-> Times(A.o, Plus(r, y))]
<1>1. A.g1 \in Scalar /\ A.g3 \in Scalar /\ A.o \in Scalar
  BY DEF Point
<1>2. /\ Neg(One) \in Scalar /\ Neg(x) \in Scalar
      /\ Times(Zero, x) = Zero /\ Times(One, x) = x /\ Times(Zero, Neg(One)) = Zero
      /\ Times(One, Neg(One)) = Neg(One) /\ Times(x, Neg(One)) = Neg(x)
  BY ZeroTimes, FieldOne, ZeroOne, TimesMinusOne
<1>3. ASSUME NEW a \in Scalar
      PROVE  /\ Times(a, r) \in Scalar /\ Times(a, y) \in Scalar
             /\ Plus(Times(a, r), Times(a, y)) = Times(a, Plus(r, y))
             /\ Plus(Times(a, r), Zero) = Times(a, r)
  BY FieldTwo, FieldThree, FieldOne
<1>4. CredentialCheck(auth, y) =
        [g1 |-> Plus(Plus(Plus(Times(A.g1, r), Neg(One)), Zero), Times(A.g1, y)),
         g3 |-> Plus(Plus(Plus(Times(A.g3, r), Zero), Neg(x)), Times(A.g3, y)),
         o  |-> Plus(Plus(Plus(Times(A.o, r), Zero), Zero), Times(A.o, y))]
  BY <1>2 DEF CredentialCheck, Add, Sub, Mul, G1, G3, Identity
<1>5. Plus(Plus(Plus(Times(A.g1, r), Neg(One)), Zero), Times(A.g1, y))
        = Minus(Times(A.g1, Plus(r, y)), One)
  <2>1. Plus(Times(A.g1, r), Neg(One)) \in Scalar
    BY <1>1, <1>2, <1>3, FieldTwo
  <2>2. Plus(Plus(Times(A.g1, r), Neg(One)), Zero) = Plus(Times(A.g1, r), Neg(One))
    BY <2>1, FieldOne
  <2>3. Plus(Plus(Times(A.g1, r), Neg(One)), Times(A.g1, y))
          = Plus(Plus(Times(A.g1, r), Times(A.g1, y)), Neg(One))
    BY <1>1, <1>2, <1>3, PlusSwap
  <2> QED BY <1>1, <1>3, <2>2, <2>3 DEF Minus
<1>6. Plus(Plus(Plus(Times(A.g3, r), Zero), Neg(x)), Times(A.g3, y))
        = Minus(Times(A.g3, Plus(r, y)), x)
  <2>1. Plus(Plus(Times(A.g3, r), Neg(x)), Times(A.g3, y))
          = Plus(Plus(Times(A.g3, r), Times(A.g3, y)), Neg(x))
    BY <1>1, <1>2, <1>3, PlusSwap
  <2> QED BY <1>1, <1>3, <2>1 DEF Minus
<1>7. Plus(Plus(Plus(Times(A.o, r), Zero), Zero), Times(A.o, y)) = Times(A.o, Plus(r, y))
  BY <1>1, <1>3
<1> QED BY <1>4, <1>5, <1>6, <1>7

\* A product with an inverse tells which scalar was inverted.
LEMMA InverseDetermines ==
  ASSUME NEW k \in Scalar, NEW l \in Scalar, k # Zero
  PROVE  Times(Inv(k), l) = One <=> l = k
<1>1. Inv(k) \in Scalar /\ Times(k, Inv(k)) = One
  BY FieldOne
<1>2. Times(Inv(k), k) = One
  BY <1>1, FieldTwo
<1>3. ASSUME Times(Inv(k), l) = One PROVE l = k
  <2>1. Times(k, Times(Inv(k), l)) = Times(Times(k, Inv(k)), l)
    BY <1>1, FieldThree
  <2>2. Times(One, l) = l /\ Times(k, One) = k
    BY ZeroTimes, FieldOne
  <2> QED BY <1>1, <1>3, <2>1, <2>2
<1> QED BY <1>2, <1>3

\* The credential check is the identity exactly if the counting teller is the
\* one that signed and the ballot was made with the signed x.
THEOREM CheckIsExact ==
  ASSUME NEW x \in Scalar, NEW y \in Scalar, NEW r \in Scalar, Plus(r, y) # Zero,
         NEW x_cast \in Scalar, NEW y_count \in Scalar,
         NEW auth,
         auth.A_enc.pt = RTSignature(y, x, r).A,
         auth.Ar_enc.pt = Mul(RTSignature(y, x, r).A, r),
         auth.g3x_enc.pt = Mul(G3, x_cast)
  PROVE  CredentialCheck(auth, y_count) = Identity <=> y_count = y /\ x_cast = x
<1> DEFINE inv == Inv(Plus(r, y))
           k == Plus(r, y_count)
           A == RTSignature(y, x, r).A
<1>1. /\ inv \in Scalar /\ k \in Scalar /\ Plus(r, y) \in Scalar /\ A \in Point
      /\ A.g1 = inv /\ A.g3 = Times(x, inv) /\ A.o = Zero
  <2>1. /\ inv \in Scalar /\ A \in Point
        /\ RTSignature(y, x, r) = [A |-> [g1 |-> inv, g3 |-> Times(x, inv), o |-> Zero], r |-> r]
    BY SignaturePoint
  <2>2. k \in Scalar /\ Plus(r, y) \in Scalar
    BY FieldTwo
  <2> QED BY <2>1, <2>2
<1>2. CredentialCheck(auth, y_count) =
        [g1 |-> Minus(Times(A.g1, k), One), g3 |-> Minus(Times(A.g3, k), x_cast),
         o |-> Times(A.o, k)]
  BY <1>1, CheckPoint
<1>3. Times(inv, k) = One <=> y_count = y
  <2>1. Times(inv, k) = One <=> k = Plus(r, y)
    <3>1. \A l \in Scalar : Times(Inv(Plus(r, y)), l) = One <=> l = Plus(r, y)
      BY <1>1, InverseDetermines
    <3> QED BY <1>1, <3>1
  <2>2. k = Plus(r, y) <=> y_count = y
    BY PlusCancels
  <2> QED BY <2>1, <2>2
<1>4. Times(Times(x, inv), k) = Times(x, Times(inv, k)) /\ Times(x, One) = x
      /\ Times(Zero, k) = Zero
  BY <1>1, FieldThree, FieldOne, ZeroTimes
<1>5. Times(inv, k) \in Scalar /\ Times(Times(x, inv), k) \in Scalar
  BY <1>1, FieldTwo
<1> HIDE DEF inv, k, A
<1>6. CredentialCheck(auth, y_count) = Identity <=>
        Minus(Times(inv, k), One) = Zero /\ Minus(Times(Times(x, inv), k), x_cast) = Zero
  BY <1>1, <1>2, <1>4 DEF Identity
<1>7. CredentialCheck(auth, y_count) = Identity <=>
        Times(inv, k) = One /\ Times(Times(x, inv), k) = x_cast
  BY <1>5, <1>6, MinusZero, ZeroOne
<1> QED BY <1>3, <1>4, <1>7
-----------------------------------------------------------------------------
(* The PIN check                                                           *)

LEMMA MinusMoves ==
  ASSUME NEW a \in Scalar, NEW b \in Scalar, NEW c \in Scalar
  PROVE  Minus(a, b) = c <=> Plus(b, c) = a
<1>1. Plus(Minus(a, b), b) = a /\ Minus(Plus(c, b), b) = c
  BY MinusPlus
<1>2. Plus(b, c) = Plus(c, b)
  BY FieldTwo
<1> QED BY <1>1, <1>2

\* The claim of a credential with the signature of key y on x, for a number
\* that opens X.
LEMMA ClaimedPoint ==
  ASSUME NEW x \in Scalar, NEW y \in Scalar, NEW r \in Scalar,
         NEW X \in Scalar, NEW credential, NEW n,
         credential.sign = RTSignature(y, x, r), GetX(credential, n) = X
  PROVE  LET inv == Inv(Plus(r, y)) IN
           Claimed(credential, n) =
             [g1 |-> Minus(One, Times(inv, r)),
              g3 |-> Minus(X, Times(Times(x, inv), r)),
              o  |-> Zero]
<1> DEFINE inv == Inv(Plus(r, y))
<1>1. /\ inv \in Scalar
      /\ RTSignature(y, x, r) = [A |-> [g1 |-> inv, g3 |-> Times(x, inv), o |-> Zero], r |-> r]
  BY SignaturePoint
<1> HIDE DEF inv
<1>2. /\ Times(x, inv) \in Scalar /\ Times(inv, r) \in Scalar
      /\ Times(Times(x, inv), r) \in Scalar
  BY <1>1, FieldTwo
<1>3. Mul(credential.sign.A, credential.sign.r) =
        [g1 |-> Times(inv, r), g3 |-> Times(Times(x, inv), r), o |-> Zero]
  BY <1>1, ZeroTimes DEF Mul
<1>4. Message(X) = [g1 |-> One, g3 |-> X, o |-> Zero]
  <2>1. /\ Times(Zero, X) = Zero /\ Times(One, X) = X /\ Plus(Zero, X) = X
        /\ Plus(One, Zero) = One /\ Plus(Zero, Zero) = Zero
    BY ZeroTimes, FieldOne, ZeroOne
  <2> QED BY <2>1 DEF Message, Add, Mul, G1, G3, Identity
<1>5. /\ Times(Times(inv, r), Neg(One)) = Neg(Times(inv, r))
      /\ Times(Times(Times(x, inv), r), Neg(One)) = Neg(Times(Times(x, inv), r))
      /\ Plus(Zero, Times(Zero, Neg(One))) = Zero
  BY <1>2, TimesMinusOne, ZeroTimes, ZeroOne, FieldOne
<1> QED BY <1>3, <1>4, <1>5 DEF Claimed, Sub, Add, Mul, Minus, inv

\* The claim is A to the power of a key exactly if the key is the one that
\* signed and the number opens the signed x.
THEOREM ClaimIsExact ==
  ASSUME NEW x \in Scalar, NEW y \in Scalar, NEW r \in Scalar, Plus(r, y) # Zero,
         NEW X \in Scalar, NEW y_claim \in Scalar, NEW credential, NEW n,
         credential.sign = RTSignature(y, x, r), GetX(credential, n) = X
  PROVE  Mul(credential.sign.A, y_claim) = Claimed(credential, n) <=> y_claim = y /\ X = x
<1> DEFINE inv == Inv(Plus(r, y))
           k == Plus(r, y_claim)
<1>1. /\ inv \in Scalar /\ Times(x, inv) \in Scalar
      /\ RTSignature(y, x, r) = [A |-> [g1 |-> inv, g3 |-> Times(x, inv), o |-> Zero], r |-> r]
  BY SignaturePoint, FieldTwo
<1>2. Claimed(credential, n) = [g1 |-> Minus(One, Times(inv, r)),
                                g3 |-> Minus(X, Times(Times(x, inv), r)),
                                o  |-> Zero]
  BY ClaimedPoint
<1>3. k \in Scalar /\ Plus(r, y) \in Scalar
  BY FieldTwo
<1>4. Times(inv, k) = One <=> y_claim = y
  <2>1. \A l \in Scalar : Times(Inv(Plus(r, y)), l) = One <=> l = Plus(r, y)
    BY <1>3, InverseDetermines
  <2>2. k = Plus(r, y) <=> y_claim = y
    BY PlusCancels
  <2> QED BY <1>3, <2>1, <2>2
<1> HIDE DEF inv
<1>5. Mul(credential.sign.A, y_claim) =
        [g1 |-> Times(inv, y_claim), g3 |-> Times(Times(x, inv), y_claim), o |-> Zero]
  BY <1>1, ZeroTimes DEF Mul
<1>6. ASSUME NEW a \in Scalar, NEW b \in Scalar
      PROVE  Minus(b, Times(a, r)) = Times(a, y_claim) <=> Times(a, k) = b
  <2>1. Times(a, r) \in Scalar /\ Times(a, y_claim) \in Scalar
    BY FieldTwo
  <2>2. Plus(Times(a, r), Times(a, y_claim)) = Times(a, k)
    BY FieldThree
  <2> QED BY <2>1, <2>2, MinusMoves
<1>7. Mul(credential.sign.A, y_claim) = Claimed(credential, n) <=>
        Times(inv, k) = One /\ Times(Times(x, inv), k) = X
  BY <1>1, <1>2, <1>5, <1>6, ZeroOne
<1>8. Times(Times(x, inv), k) = Times(x, Times(inv, k)) /\ Times(x, One) = x
  BY <1>1, <1>3, FieldThree, FieldOne
<1> QED BY <1>4, <1>7, <1>8

\* Of a signature on x, two numbers make the same claim exactly if they open
\* the same value.
LEMMA ClaimsDiffer ==
  ASSUME NEW x \in Scalar, NEW y \in Scalar, NEW r \in Scalar,
         NEW credential, NEW m, NEW n,
         credential.sign = RTSignature(y, x, r),
         GetX(credential, m) \in Scalar, GetX(credential, n) \in Scalar
  PROVE  Claimed(credential, m) = Claimed(credential, n) <=>
           GetX(credential, m) = GetX(credential, n)
<1> DEFINE t == Times(Times(x, Inv(Plus(r, y))), r)
<1>1. t \in Scalar
  BY FieldOne, FieldTwo
<1>2. /\ Claimed(credential, m).g3 = Minus(GetX(credential, m), t)
      /\ Claimed(credential, n).g3 = Minus(GetX(credential, n), t)
  BY ClaimedPoint
<1> HIDE DEF t
<1>3. /\ Plus(Minus(GetX(credential, m), t), t) = GetX(credential, m)
      /\ Plus(Minus(GetX(credential, n), t), t) = GetX(credential, n)
  BY <1>1, MinusPlus
<1>4. GetX(credential, m) = GetX(credential, n) => Claimed(credential, m) = Claimed(credential, n)
  BY DEF Claimed
<1> QED BY <1>2, <1>3, <1>4

\* Different numbers open different values.
LEMMA NumbersDiffer ==
  ASSUME NEW masked \in MaskedPIN, NEW m \in UserPin, NEW n \in UserPin
  PROVE  /\ ToPin(masked, n).x \in Scalar
         /\ ToPin(masked, m).x = ToPin(masked, n).x <=> m = n
<1>1. /\ masked.masked_x \in Scalar /\ masked.partial_mask \in Scalar
      /\ FromPin(m) \in Scalar /\ FromPin(n) \in Scalar
  BY PinAssumption DEF MaskedPIN
<1> DEFINE a == Plus(masked.partial_mask, FromPin(m))
           b == Plus(masked.partial_mask, FromPin(n))
<1>2. a \in Scalar /\ b \in Scalar
  BY <1>1, FieldTwo
<1>3. a = b <=> m = n
  BY <1>1, PlusCancels, PinAssumption
<1>4. ToPin(masked, m).x = Minus(masked.masked_x, a) /\ ToPin(masked, n).x = Minus(masked.masked_x, b)
  BY DEF ToPin
<1> HIDE DEF a, b
<1>5. ASSUME Minus(masked.masked_x, a) = Minus(masked.masked_x, b) PROVE a = b
  <2> DEFINE d == Minus(masked.masked_x, a)
  <2>1. d \in Scalar /\ Plus(d, a) = masked.masked_x /\ Plus(d, b) = masked.masked_x
    BY <1>1, <1>2, <1>5, MinusPlus
  <2> HIDE DEF d
  <2> QED BY <1>2, <2>1, PlusCancels
<1>6. Minus(masked.masked_x, b) \in Scalar
  BY <1>1, <1>2, MinusPlus
<1> QED BY <1>3, <1>4, <1>5, <1>6
-----------------------------------------------------------------------------
(***************************************************************************)
(* The PIN check of the voter's device and the credential check of a count *)
(* are exact, for every field, any number of elections, voters, builders   *)
(* and ballots, and every sequence of the calls a device allows.           *)
(*                                                                         *)
(* Neither property is inductive: both speak of what a device or a ballot  *)
(* opens, and follow from where its parts came from. The inductive         *)
(* invariant follows the parts: builders, devices, ballots, verdicts.      *)
(***************************************************************************)

IsSeq(s) == \E S : s \in Seq(S)

IssuedSet == {Issued(k, t) : k \in DOMAIN Draws, t \in Teller}

\* What a device holds, with the builder it goes back to.
HoldsBuilder(v, e, a) ==
  /\ device[v] = [kind |-> "builder", election |-> e, builder |-> issued[a].builder]
  /\ origin[v] = [kind |-> "builder", acc |-> a]

HoldsFinalized(v, e, a, rt, key) ==
  /\ device[v] = [kind |-> "voter", election |-> e,
                  credential |-> Finalize(issued[a].builder, RTKey[rt], key)]
  /\ origin[v] = [kind |-> "finalized", acc |-> a, rt |-> rt, key |-> key]

HoldsSimulated(v, e, a, n) ==
  /\ device[v] = [kind |-> "voter", election |-> e,
                  credential |-> Simulate(issued[a].builder, RegistrationPk(KeyOf(e)),
                                          n, VoterKey[v])]
  /\ origin[v] = [kind |-> "simulated", acc |-> a, pin |-> n]

DeviceInv ==
  /\ DOMAIN device = Voter /\ DOMAIN origin = Voter
  /\ \A v \in Voter :
       \/ device[v] = NoDevice
       \/ \E e \in Election, a \in DOMAIN issued :
            \/ HoldsBuilder(v, e, a)
            \/ \E rt \in Teller, key \in Scalar : HoldsFinalized(v, e, a, rt, key)
            \/ \E n \in UserPin : HoldsSimulated(v, e, a, n)

\* The authentication values of a ballot are those of one of the casts.
AuthOfCast(b, c) ==
  \E s \in Scalar :
    b.auth = EncrAuthValues(issued[casts[c].acc].builder, casts[c].pin, s, c)

BallotInv ==
  /\ IsSeq(ballots) /\ IsSeq(casts) /\ Len(casts) = Len(ballots)
  /\ \A c \in DOMAIN casts : casts[c].acc \in DOMAIN issued /\ casts[c].pin \in UserPin
  /\ \A k \in DOMAIN ballots :
       /\ "auth" \in DOMAIN ballots[k]
       /\ \E c \in DOMAIN casts : AuthOfCast(ballots[k], c)

VerdictInv ==
  \A k \in DOMAIN verdict :
    /\ k \in DOMAIN ballots
    /\ verdict[k].election \in Election
    /\ verdict[k].counts = CheckPasses(verdict[k].election, ballots[k], k)

EnrolmentInv ==
  /\ issued \in Seq(IssuedSet)
  /\ DeviceInv /\ BallotInv /\ VerdictInv
-----------------------------------------------------------------------------
(* Sequences                                                               *)

LEMMA SeqFacts ==
  ASSUME NEW s, IsSeq(s)
  PROVE  Len(s) \in Nat /\ DOMAIN s = 1..Len(s)
<1>1. PICK S : s \in Seq(S)
  BY DEF IsSeq
<1> QED BY <1>1

LEMMA SeqGrows ==
  ASSUME NEW S, NEW T, S \subseteq T, NEW s \in Seq(S)
  PROVE  s \in Seq(T)
<1>1. Len(s) \in Nat /\ s \in [1..Len(s) -> S]
  OBVIOUS
<1>2. s \in [1..Len(s) -> T]
  BY <1>1
<1> QED BY <1>1, <1>2

LEMMA AppendFacts ==
  ASSUME NEW s, IsSeq(s), NEW e
  PROVE  /\ IsSeq(Append(s, e)) /\ Len(Append(s, e)) = Len(s) + 1
         /\ DOMAIN Append(s, e) = DOMAIN s \cup {Len(s) + 1}
         /\ \A k \in DOMAIN s : Append(s, e)[k] = s[k]
         /\ Append(s, e)[Len(s) + 1] = e
<1>1. PICK S : s \in Seq(S)
  BY DEF IsSeq
<1> DEFINE T == S \cup {e}
<1>2. s \in Seq(T) /\ e \in T
  BY <1>1, SeqGrows
<1> HIDE DEF T
<1>3. Append(s, e) \in Seq(T)
  BY <1>2
<1> QED BY <1>2, <1>3 DEF IsSeq

LEMMA UpdateFacts ==
  ASSUME NEW s, IsSeq(s), NEW k \in DOMAIN s, NEW e
  PROVE  /\ IsSeq([s EXCEPT ![k] = e]) /\ Len([s EXCEPT ![k] = e]) = Len(s)
         /\ DOMAIN [s EXCEPT ![k] = e] = DOMAIN s
<1>1. PICK S : s \in Seq(S)
  BY DEF IsSeq
<1> DEFINE T == S \cup {e}
           u == [s EXCEPT ![k] = e]
<1>2. s \in Seq(T) /\ e \in T
  BY <1>1, SeqGrows
<1> HIDE DEF T
<1>3. u \in Seq(T) /\ Len(u) = Len(s) /\ DOMAIN u = DOMAIN s
  BY <1>2
<1> QED BY <1>3 DEF IsSeq
-----------------------------------------------------------------------------
(* Builders                                                                *)

\* What was issued, spelled out.
LEMMA IssuedFacts ==
  ASSUME issued \in Seq(IssuedSet), NEW a \in DOMAIN issued
  PROVE  \E k \in DOMAIN Draws, t \in Teller :
           /\ issued[a].rt = t
           /\ issued[a].pin = PinValue(Draws[k].pin.mask)
           /\ issued[a].builder =
                [sign       |-> RTSignature(RTKey[t], Draws[k].pin.x, Draws[k].r),
                 masked_pin |-> ToMasked(Draws[k].pin)]
<1>1. issued[a] \in IssuedSet
  OBVIOUS
<1>2. PICK k \in DOMAIN Draws, t \in Teller : issued[a] = Issued(k, t)
  BY <1>1 DEF IssuedSet
<1> QED BY <1>2 DEF Issued, Builder

LEMMA KeyFacts ==
  /\ \A t \in Teller : RTKey[t] \in Scalar
  /\ \A t, u \in Teller : RTKey[t] = RTKey[u] => t = u
  /\ \A e \in Election : TellerOf[e] \in Teller /\ KeyOf(e) = RTKey[TellerOf[e]]
  /\ \A e \in Election : KeyOf(e) \in Scalar
  /\ \A v \in Voter : VoterKey[v] \in Scalar /\ ({VoterKey[v]} \cup OtherKeys) \subseteq Scalar
  BY KeyAssumption DEF KeyOf

LEMMA DrawFacts ==
  ASSUME NEW k \in DOMAIN Draws, NEW t \in Teller
  PROVE  /\ Draws[k].pin \in PIN /\ Draws[k].pin.x \in Scalar /\ Draws[k].pin.mask \in Scalar
         /\ Draws[k].r \in Scalar /\ Plus(Draws[k].r, RTKey[t]) # Zero
  BY DrawAssumption DEF PIN
-----------------------------------------------------------------------------
(* The steps                                                               *)

LEMMA InitInv == Init => EnrolmentInv
<1> SUFFICES ASSUME Init PROVE EnrolmentInv
  OBVIOUS
<1>1. issued \in Seq(IssuedSet) /\ DeviceInv
  BY DEF Init, DeviceInv
<1>2. IsSeq(ballots) /\ IsSeq(casts) /\ Len(casts) = Len(ballots)
      /\ DOMAIN casts = {} /\ DOMAIN ballots = {} /\ DOMAIN verdict = {}
  <2>1. <<>> \in Seq({})
    OBVIOUS
  <2> QED BY <2>1 DEF Init, IsSeq
<1> QED BY <1>1, <1>2 DEF EnrolmentInv, BallotInv, VerdictInv

\* The actions by what they change.
GenStep == \E t \in Teller : GenBuilder(t)

DeviceStep(v) ==
  \/ \E e \in Election, i \in DOMAIN issued : NewVoterBuilder(v, e, i)
  \/ \E t \in Teller, i \in DOMAIN issued, key \in {VoterKey[v]} \cup OtherKeys :
       FinalizeVoter(v, t, i, key)
  \/ \E n \in UserPin : SimulateVoter(v, n)
  \/ VoterToBuilder(v)

VoteStep ==
  \E v \in Voter, n \in UserPin, c \in ChoiceValue, s \in Blinding : Vote(v, n, c, s)

DamageStep == \E k, l \in DOMAIN ballots, parts \in Damages : Damage(k, l, parts)

RedirectStep == \E k \in DOMAIN ballots, e \in Election : Redirect(k, e)

CountStep == \E e \in Election : Count(e)

LEMMA Steps ==
  [Next]_vars =>
    \/ GenStep \/ (\E v \in Voter : DeviceStep(v)) \/ VoteStep \/ DamageStep \/ RedirectStep
    \/ CountStep \/ UNCHANGED vars
<1> SUFFICES ASSUME Next
             PROVE  GenStep \/ (\E v \in Voter : DeviceStep(v)) \/ VoteStep \/ DamageStep
                      \/ RedirectStep \/ CountStep
  OBVIOUS
<1>1. CASE (\E t \in Teller : GenBuilder(t)) \/ (\E e \in Election : Count(e))
  BY <1>1 DEF GenStep, CountStep
<1>2. ASSUME NEW v \in Voter,
             \/ \E e \in Election, i \in DOMAIN issued : NewVoterBuilder(v, e, i)
             \/ \E t \in Teller, i \in DOMAIN issued, key \in {VoterKey[v]} \cup OtherKeys :
                  FinalizeVoter(v, t, i, key)
             \/ \E n \in UserPin : SimulateVoter(v, n)
             \/ VoterToBuilder(v)
      PROVE  DeviceStep(v)
  BY <1>2 DEF DeviceStep
<1>3. ASSUME NEW v \in Voter, NEW n \in UserPin, NEW c \in ChoiceValue, NEW s \in Blinding,
             Vote(v, n, c, s)
      PROVE  VoteStep
  BY <1>3 DEF VoteStep
<1>4. ASSUME NEW k \in DOMAIN ballots, NEW l \in DOMAIN ballots, NEW parts \in Damages,
             Damage(k, l, parts)
      PROVE  DamageStep
  BY <1>4 DEF DamageStep
<1>5. ASSUME NEW k \in DOMAIN ballots, NEW e \in Election, Redirect(k, e)
      PROVE  RedirectStep
  BY <1>5 DEF RedirectStep
<1> QED BY <1>1, <1>2, <1>3, <1>4, <1>5 DEF Next

\* What was issued stays as it is.
LEMMA IssuedStep ==
  ASSUME EnrolmentInv, [Next]_vars
  PROVE  /\ issued' \in Seq(IssuedSet)
         /\ \A a \in DOMAIN issued : a \in DOMAIN issued' /\ issued'[a] = issued[a]
<1>0. issued \in Seq(IssuedSet)
  BY DEF EnrolmentInv
<1>1. CASE GenStep
  <2>1. PICK t \in Teller : GenBuilder(t)
    BY <1>1 DEF GenStep
  <2> DEFINE b == Issued(Len(issued) + 1, t)
  <2>2. issued' = Append(issued, b) /\ b \in IssuedSet
    BY <2>1 DEF GenBuilder, IssuedSet
  <2> HIDE DEF b
  <2> QED BY <1>0, <2>2
<1>2. CASE UNCHANGED issued
  BY <1>0, <1>2
<1>3. GenStep \/ UNCHANGED issued
  BY Steps DEF DeviceStep, VoteStep, DamageStep, RedirectStep, CountStep, NewVoterBuilder, FinalizeVoter,
               SimulateVoter, VoterToBuilder, Vote, Damage, Redirect, Count, vars
<1> QED BY <1>1, <1>2, <1>3

\* A builder is the record of its two fields.
LEMMA BuilderIsRecord ==
  ASSUME issued \in Seq(IssuedSet), NEW a \in DOMAIN issued
  PROVE  issued[a].builder = [sign       |-> issued[a].builder.sign,
                              masked_pin |-> issued[a].builder.masked_pin]
<1>1. PICK k \in DOMAIN Draws, t \in Teller :
        issued[a].builder = [sign       |-> RTSignature(RTKey[t], Draws[k].pin.x, Draws[k].r),
                             masked_pin |-> ToMasked(Draws[k].pin)]
  BY IssuedFacts
<1> QED BY <1>1

\* A device with a credential can go back to the builder it came from.
LEMMA CredentialParts ==
  ASSUME EnrolmentInv, NEW v \in Voter, device[v].kind = "voter"
  PROVE  \E e \in Election, a \in DOMAIN issued :
           /\ device[v].election = e /\ origin[v].acc = a
           /\ device[v].credential.sign = issued[a].builder.sign
           /\ device[v].credential.masked_pin = issued[a].builder.masked_pin
<1>1. PICK e \in Election, a \in DOMAIN issued :
        \/ \E rt \in Teller, key \in Scalar : HoldsFinalized(v, e, a, rt, key)
        \/ \E n \in UserPin : HoldsSimulated(v, e, a, n)
  BY DEF EnrolmentInv, DeviceInv, NoDevice, HoldsBuilder
<1>2. CASE \E rt \in Teller, key \in Scalar : HoldsFinalized(v, e, a, rt, key)
  <2>1. PICK rt \in Teller, key \in Scalar : HoldsFinalized(v, e, a, rt, key)
    BY <1>2
  <2> QED BY <2>1 DEF HoldsFinalized, Finalize, WithProof
<1>3. CASE \E n \in UserPin : HoldsSimulated(v, e, a, n)
  <2>1. PICK n \in UserPin : HoldsSimulated(v, e, a, n)
    BY <1>3
  <2> QED BY <2>1 DEF HoldsSimulated, Simulate, WithProof
<1> QED BY <1>1, <1>2, <1>3

LEMMA DeviceInvStep ==
  ASSUME EnrolmentInv, [Next]_vars
  PROVE  DeviceInv'
<1>0. /\ DeviceInv /\ issued \in Seq(IssuedSet)
  BY DEF EnrolmentInv
<1>i. \A a \in DOMAIN issued : a \in DOMAIN issued' /\ issued'[a] = issued[a]
  BY IssuedStep
<1> DEFINE Holds(v) ==
             \/ device[v] = NoDevice
             \/ \E e \in Election, a \in DOMAIN issued :
                  \/ HoldsBuilder(v, e, a)
                  \/ \E rt \in Teller, key \in Scalar : HoldsFinalized(v, e, a, rt, key)
                  \/ \E n \in UserPin : HoldsSimulated(v, e, a, n)
<1>1. ASSUME NEW v \in Voter, device'[v] = device[v], origin'[v] = origin[v]
      PROVE  Holds(v)'
  <2>1. CASE device[v] = NoDevice
    BY <1>1, <2>1
  <2>2. ASSUME NEW e \in Election, NEW a \in DOMAIN issued
        PROVE  /\ a \in DOMAIN issued'
               /\ HoldsBuilder(v, e, a) => HoldsBuilder(v, e, a)'
               /\ \A rt \in Teller, key \in Scalar :
                    HoldsFinalized(v, e, a, rt, key) => HoldsFinalized(v, e, a, rt, key)'
               /\ \A n \in UserPin : HoldsSimulated(v, e, a, n) => HoldsSimulated(v, e, a, n)'
    BY <1>1, <1>i DEF HoldsBuilder, HoldsFinalized, HoldsSimulated
  <2>3. Holds(v)
    BY <1>0 DEF DeviceInv
  <2> QED BY <2>1, <2>2, <2>3
<1>2. CASE UNCHANGED <<device, origin>>
  BY <1>0, <1>1, <1>2 DEF DeviceInv
<1>3. ASSUME NEW v \in Voter, DeviceStep(v) PROVE DeviceInv'
  <2>1. CASE \E e \in Election, i \in DOMAIN issued : NewVoterBuilder(v, e, i)
    <3>1. PICK e \in Election, i \in DOMAIN issued : NewVoterBuilder(v, e, i)
      BY <2>1
    <3>2. HoldsBuilder(v, e, i)' /\ i \in DOMAIN issued'
      BY <1>0, <1>i, <3>1 DEF NewVoterBuilder, HoldsBuilder, DeviceInv
    <3>3. \A w \in Voter \ {v} : device'[w] = device[w] /\ origin'[w] = origin[w]
      BY <1>0, <3>1 DEF NewVoterBuilder, DeviceInv
    <3>4. DOMAIN device' = Voter /\ DOMAIN origin' = Voter
      BY <1>0, <3>1 DEF NewVoterBuilder, DeviceInv
    <3> QED BY <1>1, <3>2, <3>3, <3>4 DEF DeviceInv
  <2>2. CASE \E t \in Teller, i \in DOMAIN issued, key \in {VoterKey[v]} \cup OtherKeys :
               FinalizeVoter(v, t, i, key)
    <3>1. PICK rt \in Teller, i \in DOMAIN issued, key \in {VoterKey[v]} \cup OtherKeys :
            FinalizeVoter(v, rt, i, key)
      BY <2>2
    <3>2. device[v].kind = "builder" /\ key \in Scalar
      BY <3>1, KeyFacts DEF FinalizeVoter
    <3>3. PICK e \in Election : device[v].election = e
      BY <1>0, <3>2 DEF DeviceInv, NoDevice, HoldsBuilder, HoldsFinalized, HoldsSimulated
    <3>4. HoldsFinalized(v, e, i, rt, key)' /\ i \in DOMAIN issued'
      BY <1>0, <1>i, <3>1, <3>3 DEF FinalizeVoter, HoldsFinalized, DeviceInv
    <3>5. \A w \in Voter \ {v} : device'[w] = device[w] /\ origin'[w] = origin[w]
      BY <1>0, <3>1 DEF FinalizeVoter, DeviceInv
    <3>6. DOMAIN device' = Voter /\ DOMAIN origin' = Voter
      BY <1>0, <3>1 DEF FinalizeVoter, DeviceInv
    <3> QED BY <1>1, <3>2, <3>4, <3>5, <3>6 DEF DeviceInv
  <2>3. CASE \E n \in UserPin : SimulateVoter(v, n)
    <3>1. PICK n \in UserPin : SimulateVoter(v, n)
      BY <2>3
    <3>2. PICK e \in Election, a \in DOMAIN issued : HoldsBuilder(v, e, a)
      BY <1>0, <3>1 DEF SimulateVoter, DeviceInv, NoDevice, HoldsFinalized, HoldsSimulated
    <3>3. HoldsSimulated(v, e, a, n)' /\ a \in DOMAIN issued'
      BY <1>0, <1>i, <3>1, <3>2 DEF SimulateVoter, HoldsSimulated, HoldsBuilder, DeviceInv
    <3>4. \A w \in Voter \ {v} : device'[w] = device[w] /\ origin'[w] = origin[w]
      BY <1>0, <3>1 DEF SimulateVoter, DeviceInv
    <3>5. DOMAIN device' = Voter /\ DOMAIN origin' = Voter
      BY <1>0, <3>1 DEF SimulateVoter, DeviceInv
    <3> QED BY <1>1, <3>3, <3>4, <3>5 DEF DeviceInv
  <2>4. CASE VoterToBuilder(v)
    <3>1. PICK e \in Election, a \in DOMAIN issued :
            /\ device[v].election = e /\ origin[v].acc = a
            /\ device[v].credential.sign = issued[a].builder.sign
            /\ device[v].credential.masked_pin = issued[a].builder.masked_pin
      BY <2>4, CredentialParts DEF VoterToBuilder
    <3>2. ToBuilder(device[v].credential) = issued[a].builder
      BY <1>0, <3>1, BuilderIsRecord DEF ToBuilder
    <3>3. HoldsBuilder(v, e, a)' /\ a \in DOMAIN issued'
      BY <1>0, <1>i, <2>4, <3>1, <3>2 DEF VoterToBuilder, HoldsBuilder, DeviceInv
    <3>4. \A w \in Voter \ {v} : device'[w] = device[w] /\ origin'[w] = origin[w]
      BY <1>0, <2>4 DEF VoterToBuilder, DeviceInv
    <3>5. DOMAIN device' = Voter /\ DOMAIN origin' = Voter
      BY <1>0, <2>4 DEF VoterToBuilder, DeviceInv
    <3> QED BY <1>1, <3>3, <3>4, <3>5 DEF DeviceInv
  <2> QED BY <1>3, <2>1, <2>2, <2>3, <2>4 DEF DeviceStep
<1>4. (\E v \in Voter : DeviceStep(v)) \/ UNCHANGED <<device, origin>>
  BY Steps DEF GenStep, VoteStep, DamageStep, RedirectStep, CountStep, GenBuilder, Vote, Damage, Redirect, Count, vars
<1> QED BY <1>2, <1>3, <1>4

\* Only the signature and the masked PIN of a credential reach a ballot.
LEMMA AuthFromParts ==
  ASSUME NEW c, NEW b, c.sign = b.sign, c.masked_pin = b.masked_pin, NEW n, NEW s, NEW id
  PROVE  EncrAuthValues(c, n, s, id) = EncrAuthValues(b, n, s, id)
  BY DEF EncrAuthValues, GetX

LEMMA BallotInvStep ==
  ASSUME EnrolmentInv, [Next]_vars
  PROVE  BallotInv'
<1>0. BallotInv /\ issued \in Seq(IssuedSet)
  BY DEF EnrolmentInv
<1>i. \A a \in DOMAIN issued : a \in DOMAIN issued' /\ issued'[a] = issued[a]
  BY IssuedStep
<1>s. /\ Len(ballots) \in Nat /\ DOMAIN ballots = 1..Len(ballots)
      /\ Len(casts) \in Nat /\ DOMAIN casts = 1..Len(casts)
  BY <1>0, SeqFacts DEF BallotInv
<1>1. CASE UNCHANGED <<ballots, casts>>
  <2>1. ASSUME NEW k \in DOMAIN ballots PROVE \E c \in DOMAIN casts : AuthOfCast(ballots[k], c)'
    BY <1>0, <1>1, <1>i DEF BallotInv, AuthOfCast
  <2> QED BY <1>0, <1>1, <1>i, <2>1 DEF BallotInv
<1>2. CASE VoteStep
  <2>1. PICK v \in Voter, n \in UserPin, c \in ChoiceValue, s \in Blinding : Vote(v, n, c, s)
    BY <1>2 DEF VoteStep
  <2> DEFINE id == Len(ballots) + 1
             b == VerVote(device[v].election, device[v].credential, n, c, s, id)
             d == [acc |-> origin[v].acc, pin |-> n, choice |-> c, s |-> s,
                   election |-> device[v].election]
  <2>2. /\ ballots' = Append(ballots, b) /\ casts' = Append(casts, d)
        /\ issued' = issued /\ device[v].kind = "voter"
    BY <2>1 DEF Vote
  <2>3. PICK a \in DOMAIN issued :
          /\ origin[v].acc = a
          /\ device[v].credential.sign = issued[a].builder.sign
          /\ device[v].credential.masked_pin = issued[a].builder.masked_pin
    BY <2>2, CredentialParts
  <2>4. /\ "auth" \in DOMAIN b
        /\ b.auth = EncrAuthValues(issued[a].builder, n, s, id)
    BY <2>3, AuthFromParts DEF VerVote
  <2>5. d.acc = a /\ d.pin = n /\ s \in Scalar
    BY <2>3, DrawAssumption
  <2> HIDE DEF b, d
  <2>6. /\ IsSeq(ballots)' /\ IsSeq(casts)' /\ Len(casts') = Len(ballots')
        /\ DOMAIN ballots' = DOMAIN ballots \cup {id} /\ DOMAIN casts' = DOMAIN casts \cup {id}
        /\ \A k \in DOMAIN ballots : ballots'[k] = ballots[k]
        /\ \A k \in DOMAIN casts : casts'[k] = casts[k]
        /\ ballots'[id] = b /\ casts'[id] = d
    BY <1>0, <2>2, AppendFacts DEF BallotInv
  <2>7. \A e \in DOMAIN casts' : casts'[e].acc \in DOMAIN issued' /\ casts'[e].pin \in UserPin
    BY <1>0, <2>2, <2>5, <2>6 DEF BallotInv
  <2>8. ASSUME NEW k \in DOMAIN ballots
        PROVE  \E e \in DOMAIN casts' : AuthOfCast(ballots[k], e)'
    <3>1. PICK e \in DOMAIN casts : AuthOfCast(ballots[k], e)
      BY <1>0 DEF BallotInv
    <3> QED BY <2>2, <2>6, <3>1 DEF AuthOfCast
  <2>9. ASSUME NEW k, k = id
        PROVE  k \in DOMAIN casts' /\ "auth" \in DOMAIN ballots'[k] /\ AuthOfCast(ballots[k], k)'
    BY <2>2, <2>4, <2>5, <2>6, <2>9 DEF AuthOfCast
  <2> HIDE DEF id
  <2> QED BY <1>0, <2>4, <2>6, <2>7, <2>8, <2>9 DEF BallotInv
<1>3. CASE DamageStep
  <2>1. PICK k \in DOMAIN ballots, l \in DOMAIN ballots, parts \in Damages : Damage(k, l, parts)
    BY <1>3 DEF DamageStep
  <2> DEFINE b == [f \in DOMAIN ballots[k] |-> IF f \in parts THEN ballots[l][f] ELSE ballots[k][f]]
  <2>2. ballots' = [ballots EXCEPT ![k] = b] /\ casts' = casts /\ issued' = issued
    BY <2>1 DEF Damage
  <2>3. "auth" \in DOMAIN ballots[k] /\ "auth" \in DOMAIN ballots[l]
    BY <1>0 DEF BallotInv
  <2>4. "auth" \in DOMAIN b /\ (b.auth = ballots[k].auth \/ b.auth = ballots[l].auth)
    BY <2>3
  <2> HIDE DEF b
  <2>5. /\ IsSeq(ballots)' /\ Len(ballots') = Len(ballots) /\ DOMAIN ballots' = DOMAIN ballots
    BY <1>0, <2>2, UpdateFacts DEF BallotInv
  <2>6. /\ ballots'[k] = b /\ \A m \in DOMAIN ballots \ {k} : ballots'[m] = ballots[m]
    BY <2>2
  <2>7. ASSUME NEW m \in DOMAIN ballots, NEW e \in DOMAIN casts,
               NEW g, g.auth = ballots[m].auth, AuthOfCast(ballots[m], e)
        PROVE  AuthOfCast(g, e)
    BY <2>7 DEF AuthOfCast
  <2>8. \E e \in DOMAIN casts : AuthOfCast(b, e)
    BY <1>0, <2>1, <2>4, <2>7 DEF BallotInv
  <2>9. ASSUME NEW m \in DOMAIN ballots'
        PROVE  "auth" \in DOMAIN ballots'[m] /\ \E e \in DOMAIN casts' : AuthOfCast(ballots[m], e)'
    <3>1. /\ "auth" \in DOMAIN ballots'[m]
          /\ \E e \in DOMAIN casts : AuthOfCast(ballots'[m], e)
      BY <1>0, <2>4, <2>5, <2>6, <2>8, <2>9 DEF BallotInv
    <3>2. PICK e \in DOMAIN casts : AuthOfCast(ballots'[m], e)
      BY <3>1
    <3>3. AuthOfCast(ballots[m], e)'
      BY <2>2, <3>2 DEF AuthOfCast
    <3> QED BY <2>2, <3>1, <3>3
  <2> QED BY <1>0, <2>2, <2>5, <2>9 DEF BallotInv
<1>5. CASE RedirectStep
  <2>1. PICK k \in DOMAIN ballots, e \in Election : Redirect(k, e)
    BY <1>5 DEF RedirectStep
  <2> DEFINE b == [ballots[k] EXCEPT !.election_ctx = e]
  <2>2. ballots' = [ballots EXCEPT ![k] = b] /\ casts' = casts /\ issued' = issued
    BY <2>1 DEF Redirect
  <2>3. "auth" \in DOMAIN ballots[k]
    BY <1>0 DEF BallotInv
  <2>4. "auth" \in DOMAIN b /\ b.auth = ballots[k].auth
    BY <2>3
  <2> HIDE DEF b
  <2>5. /\ IsSeq(ballots)' /\ Len(ballots') = Len(ballots) /\ DOMAIN ballots' = DOMAIN ballots
    BY <1>0, <2>2, UpdateFacts DEF BallotInv
  <2>6. \A m \in DOMAIN ballots : ballots'[m] = IF m = k THEN b ELSE ballots[m]
    BY <2>2
  <2>7. ASSUME NEW m \in DOMAIN ballots'
        PROVE  "auth" \in DOMAIN ballots'[m] /\ \E c \in DOMAIN casts' : AuthOfCast(ballots[m], c)'
    <3>1. "auth" \in DOMAIN ballots'[m] /\ ballots'[m].auth = ballots[m].auth
      BY <1>0, <2>4, <2>5, <2>6 DEF BallotInv
    <3>2. PICK c \in DOMAIN casts : AuthOfCast(ballots[m], c)
      BY <1>0, <2>5 DEF BallotInv
    <3>3. AuthOfCast(ballots[m], c)'
      BY <2>2, <3>1, <3>2 DEF AuthOfCast
    <3> QED BY <2>2, <3>1, <3>3
  <2> QED BY <1>0, <2>2, <2>5, <2>7 DEF BallotInv
<1>4. VoteStep \/ DamageStep \/ RedirectStep \/ UNCHANGED <<ballots, casts>>
  BY Steps DEF GenStep, DeviceStep, CountStep, NewVoterBuilder, FinalizeVoter, SimulateVoter,
               VoterToBuilder, GenBuilder, Count, vars
<1> QED BY <1>1, <1>2, <1>3, <1>4, <1>5

LEMMA VerdictInvStep ==
  ASSUME EnrolmentInv, [Next]_vars
  PROVE  VerdictInv'
<1>0. VerdictInv
  BY DEF EnrolmentInv
<1>1. CASE UNCHANGED <<ballots, verdict>>
  BY <1>0, <1>1 DEF VerdictInv, CheckPasses
<1>2. CASE verdict' = <<>>
  <2>1. DOMAIN verdict' = {}
    BY <1>2
  <2> QED BY <2>1 DEF VerdictInv
<1>3. CASE CountStep
  <2>1. PICK e \in Election : Count(e)
    BY <1>3 DEF CountStep
  <2>2. /\ ballots' = ballots
        /\ verdict' = [k \in DOMAIN ballots |->
             [election |-> e,
              verifies |-> BallotVerifies(e, ballots[k]),
              counts   |-> CheckPasses(e, ballots[k], k)]]
    BY <2>1 DEF Count
  <2>3. ASSUME NEW k \in DOMAIN verdict'
        PROVE  /\ k \in DOMAIN ballots /\ verdict'[k].election = e
               /\ verdict'[k].counts = CheckPasses(e, ballots[k], k)
    BY <2>2
  <2>4. ASSUME NEW k \in DOMAIN verdict'
        PROVE  (verdict[k].counts = CheckPasses(verdict[k].election, ballots[k], k))'
    BY <2>2, <2>3 DEF CheckPasses
  <2> QED BY <2>2, <2>3, <2>4 DEF VerdictInv
<1>4. \/ UNCHANGED <<ballots, verdict>> \/ verdict' = <<>> \/ CountStep
  BY Steps DEF GenStep, DeviceStep, VoteStep, DamageStep, RedirectStep, NewVoterBuilder, FinalizeVoter,
               SimulateVoter, VoterToBuilder, GenBuilder, Vote, Damage, Redirect, vars
<1> QED BY <1>1, <1>2, <1>3, <1>4
-----------------------------------------------------------------------------
(* The theorems                                                            *)

\* Wherever the parts of a device's credential, of a ballot and of a verdict
\* are, they are those of a builder that a teller issued (gen_builder), of a
\* cast (Voter::vote) and of the credential check of a count.
THEOREM EnrolmentInvariant == Spec => []EnrolmentInv
<1>1. Init => EnrolmentInv
  BY InitInv
<1>2. EnrolmentInv /\ [Next]_vars => EnrolmentInv'
  BY IssuedStep, DeviceInvStep, BallotInvStep, VerdictInvStep DEF EnrolmentInv
<1> QED BY <1>1, <1>2, PTL DEF Spec

\* Re-encryption leaves the points of the authentication values as they are.
LEMMA ReEncryptedPoints ==
  ASSUME NEW A \in Point, NEW r \in Scalar, NEW x \in Scalar, NEW auth, NEW k,
         auth.A_enc.pt = A, auth.Ar_enc.pt = Mul(A, r), auth.g3x_enc.pt = Mul(G3, x)
  PROVE  LET short == ReEncryptAuth(ToShort(auth), k) IN
           short.A_enc.pt = A /\ short.Ar_enc.pt = Mul(A, r) /\ short.g3x_enc.pt = Mul(G3, x)
<1>1. Mul(A, r) \in Point /\ Mul(G3, x) \in Point
  BY PointOps, Generators
<1>2. Add(Identity, A) = A /\ Add(Identity, Mul(A, r)) = Mul(A, r)
      /\ Add(Identity, Mul(G3, x)) = Mul(G3, x)
  BY <1>1, AddIdentity
<1> QED BY <1>2 DEF ReEncryptAuth, ToShort, Encrypt

LEMMA RightPinFromInv == EnrolmentInv => RightPinCounts
<1> SUFFICES ASSUME EnrolmentInv, NEW k \in DOMAIN verdict
             PROVE  LET cast == casts[ballots[k].auth.A_enc.id]
                        acc == issued[cast.acc]
                    IN verdict[k].counts <=>
                         acc.rt = TellerOf[verdict[k].election] /\ cast.pin = acc.pin
  BY DEF RightPinCounts
<1>1. /\ k \in DOMAIN ballots /\ verdict[k].election \in Election
      /\ verdict[k].counts = CheckPasses(verdict[k].election, ballots[k], k)
  BY DEF EnrolmentInv, VerdictInv
<1>2. PICK c \in DOMAIN casts : AuthOfCast(ballots[k], c)
  BY <1>1 DEF EnrolmentInv, BallotInv
<1>3. PICK a \in DOMAIN issued, n \in UserPin, e \in Election :
        casts[c].acc = a /\ casts[c].pin = n /\ verdict[k].election = e
  BY <1>1 DEF EnrolmentInv, BallotInv
<1>4. PICK s \in Scalar : ballots[k].auth = EncrAuthValues(issued[a].builder, n, s, c)
  BY <1>2, <1>3 DEF AuthOfCast
<1>5. PICK d \in DOMAIN Draws, f \in Teller :
        /\ issued[a].rt = f
        /\ issued[a].pin = PinValue(Draws[d].pin.mask)
        /\ issued[a].builder = [sign       |-> RTSignature(RTKey[f], Draws[d].pin.x, Draws[d].r),
                                masked_pin |-> ToMasked(Draws[d].pin)]
  BY IssuedFacts DEF EnrolmentInv
<1> DEFINE pin == Draws[d].pin
           r == Draws[d].r
           A == RTSignature(RTKey[f], pin.x, r).A
           X == GetX(issued[a].builder, n)
           auth == ballots[k].auth
           short == ReEncryptAuth(ToShort(auth), k)
<1>6. /\ pin \in PIN /\ pin.x \in Scalar /\ r \in Scalar
      /\ Plus(r, RTKey[f]) # Zero /\ RTKey[f] \in Scalar /\ KeyOf(e) \in Scalar
  BY DrawFacts, KeyFacts
<1>7. issued[a].builder.sign.A = A /\ issued[a].builder.sign.r = r /\ A \in Point
  <2>1. A \in Point
    BY <1>6, SignaturePoint
  <2>2. issued[a].builder.sign = RTSignature(RTKey[f], pin.x, r)
    BY <1>5
  <2>3. issued[a].builder.sign.r = r
    BY <2>2 DEF RTSignature
  <2> QED BY <2>1, <2>2, <2>3
<1>8. X \in Scalar /\ (X = pin.x <=> n = issued[a].pin)
  BY <1>5, <1>6, PinOpensX DEF GetX
<1>9. /\ auth.A_enc.pt = A /\ auth.Ar_enc.pt = Mul(A, r)
      /\ auth.g3x_enc.pt = Mul(G3, X) /\ auth.A_enc.id = c
  BY <1>4, <1>7 DEF EncrAuthValues, Encrypt
<1>10. CredentialCheck(short, KeyOf(e)) = Identity <=> KeyOf(e) = RTKey[f] /\ X = pin.x
  <2> HIDE DEF X
  <2>1. short.A_enc.pt = A /\ short.Ar_enc.pt = Mul(A, r) /\ short.g3x_enc.pt = Mul(G3, X)
    BY <1>6, <1>7, <1>8, <1>9, ReEncryptedPoints
  <2> HIDE DEF short, pin, r
  <2> QED BY <1>6, <1>8, <2>1, CheckIsExact
<1>11. KeyOf(e) = RTKey[f] <=> f = TellerOf[e]
  BY KeyFacts
<1>12. verdict[k].counts <=> issued[a].rt = TellerOf[e] /\ n = issued[a].pin
  BY <1>1, <1>3, <1>5, <1>8, <1>10, <1>11 DEF CheckPasses
<1> QED BY <1>3, <1>9, <1>12

\* ElectionPublicKey::gen_credential_check passes for exactly the ballots cast
\* with the PIN and for the teller of the credential: RightPinCounts.
THEOREM RightPinCountsAlways == Spec => []RightPinCounts
  BY EnrolmentInvariant, RightPinFromInv, PTL
-----------------------------------------------------------------------------
(* The PIN check                                                           *)

\* A teller's public key determines the teller.
LEMMA RegistrationPkInjective ==
  ASSUME NEW t \in Teller, NEW u \in Teller
  PROVE  RegistrationPk(RTKey[t]) = RegistrationPk(RTKey[u]) <=> t = u
<1>1. ASSUME NEW y \in Scalar PROVE RegistrationPk(y).g3 = y
  BY ZeroTimes DEF RegistrationPk, Mul, G3, Identity
<1> QED BY <1>1, KeyFacts

\* What the device reads of its credential.
LEMMA ClaimedFromParts ==
  ASSUME NEW c, NEW b, c.sign = b.sign, c.masked_pin = b.masked_pin, NEW n
  PROVE  Claimed(c, n) = Claimed(b, n) /\ GetX(c, n) = GetX(b, n)
  BY DEF Claimed, GetX

LEMMA DvStatements ==
  ASSUME NEW A, NEW p, NEW q, NEW reg, NEW reg2, NEW key, NEW key2
  PROVE  DvStatement(A, p, reg, key) = DvStatement(A, q, reg2, key2)
           <=> p = q /\ reg = reg2 /\ key = key2
<1>1. /\ DvStatement(A, p, reg, key).p1a = p /\ DvStatement(A, q, reg2, key2).p1a = q
      /\ DvStatement(A, p, reg, key).reg = reg /\ DvStatement(A, q, reg2, key2).reg = reg2
      /\ DvStatement(A, p, reg, key).dv_pk = key /\ DvStatement(A, q, reg2, key2).dv_pk = key2
  BY DEF DvStatement
<1> QED BY <1>1

LEMMA FinalizedCheck ==
  ASSUME NEW b, NEW y, NEW key, NEW reg, NEW n, NEW own
  PROVE  VerifyPin(Finalize(b, y, key), reg, n, own) <=>
           /\ Mul(b.sign.A, y) = Claimed(b, n)
           /\ RegistrationPk(y) = reg
           /\ key = own
<1> DEFINE c == Finalize(b, y, key)
<1>1. /\ c.sign = b.sign /\ c.masked_pin = b.masked_pin
      /\ c.dvnizkp.statement = DvStatement(b.sign.A, Mul(b.sign.A, y), RegistrationPk(y), key)
      /\ c.dvnizkp.witness = [log |-> TRUE, key |-> y]
  BY DEF Finalize, WithProof, DvProve
<1>2. Claimed(c, n) = Claimed(b, n)
  BY <1>1, ClaimedFromParts
<1>3. DvWitnessOk(c.dvnizkp)
  BY <1>1 DEF DvWitnessOk, DvStatement, RegistrationPk
<1> HIDE DEF c
<1>4. VerifyPin(c, reg, n, own) <=>
        DvStatement(b.sign.A, Mul(b.sign.A, y), RegistrationPk(y), key)
          = DvStatement(b.sign.A, Claimed(b, n), reg, own)
  BY <1>1, <1>2, <1>3 DEF VerifyPin, DvVerifies
<1>5. DvStatement(b.sign.A, Mul(b.sign.A, y), RegistrationPk(y), key)
          = DvStatement(b.sign.A, Claimed(b, n), reg, own)
        <=> Mul(b.sign.A, y) = Claimed(b, n) /\ RegistrationPk(y) = reg /\ key = own
  BY DvStatements
<1> QED BY <1>4, <1>5 DEF c

LEMMA SimulatedCheck ==
  ASSUME NEW b, NEW reg, NEW m, NEW n, NEW own
  PROVE  VerifyPin(Simulate(b, reg, m, own), reg, n, own) <=> Claimed(b, m) = Claimed(b, n)
<1> DEFINE c == Simulate(b, reg, m, own)
<1>1. /\ c.sign = b.sign /\ c.masked_pin = b.masked_pin
      /\ c.dvnizkp.statement = DvStatement(b.sign.A, Claimed(b, m), reg, own)
      /\ c.dvnizkp.witness = [log |-> FALSE, key |-> own]
  BY DEF Simulate, WithProof, DvProve
<1>2. Claimed(c, n) = Claimed(b, n)
  BY <1>1, ClaimedFromParts
<1>3. DvWitnessOk(c.dvnizkp)
  BY <1>1 DEF DvWitnessOk, DvStatement
<1> HIDE DEF c
<1>4. VerifyPin(c, reg, n, own) <=>
        DvStatement(b.sign.A, Claimed(b, m), reg, own)
          = DvStatement(b.sign.A, Claimed(b, n), reg, own)
  BY <1>1, <1>2, <1>3 DEF VerifyPin, DvVerifies
<1>5. DvStatement(b.sign.A, Claimed(b, m), reg, own)
          = DvStatement(b.sign.A, Claimed(b, n), reg, own)
        <=> Claimed(b, m) = Claimed(b, n)
  BY DvStatements
<1> QED BY <1>4, <1>5 DEF c

\* The numbers that an issued builder tells apart.
LEMMA BuilderClaims ==
  ASSUME EnrolmentInv, NEW a \in DOMAIN issued, NEW n \in UserPin
  PROVE  /\ \A rt \in Teller :
              Mul(issued[a].builder.sign.A, RTKey[rt]) = Claimed(issued[a].builder, n)
                <=> rt = issued[a].rt /\ n = issued[a].pin
         /\ \A m \in UserPin :
              Claimed(issued[a].builder, m) = Claimed(issued[a].builder, n) <=> m = n
<1>1. PICK d \in DOMAIN Draws, f \in Teller :
        /\ issued[a].rt = f
        /\ issued[a].pin = PinValue(Draws[d].pin.mask)
        /\ issued[a].builder = [sign       |-> RTSignature(RTKey[f], Draws[d].pin.x, Draws[d].r),
                                masked_pin |-> ToMasked(Draws[d].pin)]
  BY IssuedFacts DEF EnrolmentInv
<1> DEFINE pin == Draws[d].pin
           r == Draws[d].r
           b == issued[a].builder
<1>2. /\ pin \in PIN /\ pin.x \in Scalar /\ pin.mask \in Scalar /\ r \in Scalar
      /\ Plus(r, RTKey[f]) # Zero /\ RTKey[f] \in Scalar
  BY DrawFacts, KeyFacts
<1>3. b.sign = RTSignature(RTKey[f], pin.x, r) /\ b.masked_pin = ToMasked(pin)
  BY <1>1
<1>4. ToMasked(pin) \in MaskedPIN
  <2>1. Plus(pin.x, pin.mask) \in Scalar /\ Minus(pin.mask, FromPin(PinValue(pin.mask))) \in Scalar
    BY <1>2, FieldTwo, MinusPlus, PinValueIsUserPin
  <2> QED BY <2>1 DEF ToMasked, MaskedPIN
<1>5. \A m \in UserPin : GetX(b, m) \in Scalar /\ (GetX(b, m) = pin.x <=> m = issued[a].pin)
  BY <1>1, <1>2, PinOpensX DEF GetX
<1>6. \A m \in UserPin : GetX(b, m) = GetX(b, n) <=> m = n
  BY <1>3, <1>4, NumbersDiffer DEF GetX
<1> HIDE DEF b, pin, r
<1>7. ASSUME NEW rt \in Teller
      PROVE  Mul(b.sign.A, RTKey[rt]) = Claimed(b, n) <=> rt = f /\ n = issued[a].pin
  <2>1. RTKey[rt] \in Scalar /\ (RTKey[rt] = RTKey[f] <=> rt = f)
    BY KeyFacts
  <2> DEFINE X == GetX(b, n)
  <2>2. X \in Scalar /\ (X = pin.x <=> n = issued[a].pin)
    BY <1>5
  <2>3. GetX(b, n) = X
    OBVIOUS
  <2> HIDE DEF X
  <2>4. Mul(b.sign.A, RTKey[rt]) = Claimed(b, n) <=> RTKey[rt] = RTKey[f] /\ X = pin.x
    BY <1>2, <1>3, <2>1, <2>2, <2>3, ClaimIsExact
  <2> QED BY <2>1, <2>2, <2>4
<1>8. ASSUME NEW m \in UserPin
      PROVE  Claimed(b, m) = Claimed(b, n) <=> m = n
  <2>1. GetX(b, m) \in Scalar /\ GetX(b, n) \in Scalar
    BY <1>5
  <2>2. Claimed(b, m) = Claimed(b, n) <=> GetX(b, m) = GetX(b, n)
    BY <1>2, <1>3, <2>1, ClaimsDiffer
  <2> QED BY <1>6, <2>2
<1> QED BY <1>1, <1>7, <1>8 DEF b

LEMMA PinCheckFromInv == EnrolmentInv => PinCheckIsExact
<1> DEFINE Right(v, n) ==
      \/ /\ origin[v].kind = "finalized"
         /\ origin[v].rt = TellerOf[device[v].election]
         /\ issued[origin[v].acc].rt = TellerOf[device[v].election]
         /\ origin[v].key = VoterKey[v]
         /\ n = issued[origin[v].acc].pin
      \/ origin[v].kind = "simulated" /\ n = origin[v].pin
<1> SUFFICES ASSUME EnrolmentInv, NEW v \in Voter, device[v].kind = "voter", NEW n \in UserPin
             PROVE  PinVerifies(v, n) <=> Right(v, n)
  BY DEF PinCheckIsExact
<1>1. PICK e \in Election, a \in DOMAIN issued :
        \/ \E rt \in Teller, key \in Scalar : HoldsFinalized(v, e, a, rt, key)
        \/ \E m \in UserPin : HoldsSimulated(v, e, a, m)
  BY DEF EnrolmentInv, DeviceInv, NoDevice, HoldsBuilder
<1> DEFINE b == issued[a].builder
<1>2. ASSUME NEW rt \in Teller, NEW key \in Scalar, HoldsFinalized(v, e, a, rt, key)
      PROVE  PinVerifies(v, n) <=> Right(v, n)
  <2>1. /\ device[v].election = e /\ device[v].credential = Finalize(b, RTKey[rt], key)
        /\ origin[v].kind = "finalized" /\ origin[v].rt = rt /\ origin[v].acc = a
        /\ origin[v].key = key
    BY <1>2 DEF HoldsFinalized
  <2>2. PinVerifies(v, n) <=>
          VerifyPin(Finalize(b, RTKey[rt], key), RegistrationPk(KeyOf(e)), n, VoterKey[v])
    BY <2>1 DEF PinVerifies
  <2>3. VerifyPin(Finalize(b, RTKey[rt], key), RegistrationPk(KeyOf(e)), n, VoterKey[v]) <=>
          /\ Mul(b.sign.A, RTKey[rt]) = Claimed(b, n)
          /\ RegistrationPk(RTKey[rt]) = RegistrationPk(KeyOf(e))
          /\ key = VoterKey[v]
    BY FinalizedCheck
  <2>4. Mul(b.sign.A, RTKey[rt]) = Claimed(b, n) <=> rt = issued[a].rt /\ n = issued[a].pin
    BY BuilderClaims
  <2>5. RegistrationPk(RTKey[rt]) = RegistrationPk(KeyOf(e)) <=> rt = TellerOf[e]
    BY KeyFacts, RegistrationPkInjective
  <2> HIDE DEF b
  <2>6. PinVerifies(v, n) <=>
          /\ rt = issued[a].rt /\ n = issued[a].pin
          /\ rt = TellerOf[e] /\ key = VoterKey[v]
    BY <2>2, <2>3, <2>4, <2>5
  <2> QED BY <2>1, <2>6
<1>3. ASSUME NEW m \in UserPin, HoldsSimulated(v, e, a, m)
      PROVE  PinVerifies(v, n) <=> Right(v, n)
  <2> DEFINE reg == RegistrationPk(KeyOf(e))
  <2>1. /\ device[v].election = e
        /\ device[v].credential = Simulate(b, reg, m, VoterKey[v])
        /\ origin[v].kind = "simulated" /\ origin[v].pin = m
    BY <1>3 DEF HoldsSimulated
  <2>2. PinVerifies(v, n) <=> VerifyPin(Simulate(b, reg, m, VoterKey[v]), reg, n, VoterKey[v])
    BY <2>1 DEF PinVerifies
  <2>3. VerifyPin(Simulate(b, reg, m, VoterKey[v]), reg, n, VoterKey[v])
          <=> Claimed(b, m) = Claimed(b, n)
    BY SimulatedCheck
  <2>4. Claimed(b, m) = Claimed(b, n) <=> m = n
    BY BuilderClaims
  <2> HIDE DEF b
  <2> QED BY <2>1, <2>2, <2>3, <2>4
<1> QED BY <1>1, <1>2, <1>3

\* Voter::verify_pin accepts the PIN of the credential and no other, whatever
\* finalize and simulate were called with before: PinCheckIsExact.
THEOREM PinCheckAlwaysExact == Spec => []PinCheckIsExact
  BY EnrolmentInvariant, PinCheckFromInv, PTL
-----------------------------------------------------------------------------
(***************************************************************************)
(* Two facts about the order of the calls: the k-th builder was made with  *)
(* the k-th draw, and a count gives every ballot a verdict. With the       *)
(* inductive invariant they give the types of everything a device holds    *)
(* and what a published handle encrypts.                                   *)
(***************************************************************************)

HistoryInv ==
  /\ \A k \in DOMAIN issued : k \in DOMAIN Draws /\ \E t \in Teller : issued[k] = Issued(k, t)
  /\ verdict = <<>> \/ DOMAIN verdict = DOMAIN ballots

LEMMA HistoryIssued ==
  ASSUME EnrolmentInv, HistoryInv, [Next]_vars, NEW k \in DOMAIN issued'
  PROVE  k \in DOMAIN Draws /\ \E t \in Teller : issued'[k] = Issued(k, t)
<1>0. /\ issued \in Seq(IssuedSet)
      /\ \A j \in DOMAIN issued : j \in DOMAIN Draws /\ \E t \in Teller : issued[j] = Issued(j, t)
  BY DEF EnrolmentInv, HistoryInv
<1>1. CASE GenStep
  <2>1. PICK t \in Teller : GenBuilder(t)
    BY <1>1 DEF GenStep
  <2> DEFINE n == Len(issued) + 1
             b == Issued(n, t)
  <2>2. issued' = Append(issued, b) /\ n \in DOMAIN Draws
    BY <2>1 DEF GenBuilder
  <2>3. IsSeq(issued)
    BY <1>0 DEF IsSeq
  <2>4. b = Issued(n, t)
    OBVIOUS
  <2> HIDE DEF b
  <2>5. /\ DOMAIN issued' = DOMAIN issued \cup {n} /\ issued'[n] = b
        /\ \A j \in DOMAIN issued : issued'[j] = issued[j]
    BY <2>2, <2>3, AppendFacts
  <2> HIDE DEF n
  <2> QED BY <1>0, <2>2, <2>4, <2>5
<1>2. CASE UNCHANGED issued
  BY <1>0, <1>2
<1>3. GenStep \/ UNCHANGED issued
  BY Steps DEF DeviceStep, VoteStep, DamageStep, RedirectStep, CountStep, NewVoterBuilder, FinalizeVoter,
               SimulateVoter, VoterToBuilder, Vote, Damage, Redirect, Count, vars
<1> QED BY <1>1, <1>2, <1>3

LEMMA HistoryVerdict ==
  ASSUME HistoryInv, [Next]_vars
  PROVE  verdict' = <<>> \/ DOMAIN verdict' = DOMAIN ballots'
<1>1. CASE CountStep
  <2>1. PICK e \in Election : Count(e)
    BY <1>1 DEF CountStep
  <2> QED BY <2>1 DEF Count
<1>2. CASE UNCHANGED <<ballots, verdict>>
  BY <1>2 DEF HistoryInv
<1>3. CASE verdict = <<>> /\ verdict' = verdict
  BY <1>3
<1>4. CountStep \/ UNCHANGED <<ballots, verdict>> \/ (verdict = <<>> /\ verdict' = verdict)
  BY Steps DEF GenStep, DeviceStep, VoteStep, DamageStep, RedirectStep, NewVoterBuilder, FinalizeVoter,
               SimulateVoter, VoterToBuilder, GenBuilder, Vote, Damage, Redirect, vars
<1> QED BY <1>1, <1>2, <1>3, <1>4

LEMMA HistoryAlways == Spec => [](EnrolmentInv /\ HistoryInv)
<1>1. Init => EnrolmentInv /\ HistoryInv
  <2>1. Init => DOMAIN issued = {} /\ verdict = <<>>
    BY DEF Init
  <2> QED BY <2>1, InitInv DEF HistoryInv
<1>2. EnrolmentInv /\ HistoryInv /\ [Next]_vars => (EnrolmentInv /\ HistoryInv)'
  <2> SUFFICES ASSUME EnrolmentInv, HistoryInv, [Next]_vars
               PROVE  EnrolmentInv' /\ HistoryInv'
    OBVIOUS
  <2>1. EnrolmentInv'
    BY IssuedStep, DeviceInvStep, BallotInvStep, VerdictInvStep DEF EnrolmentInv
  <2>2. HistoryInv'
    BY HistoryIssued, HistoryVerdict DEF HistoryInv
  <2> QED BY <2>1, <2>2
<1> QED BY <1>1, <1>2, PTL DEF Spec
-----------------------------------------------------------------------------
(* Types                                                                   *)

LEMMA BuilderTypes ==
  ASSUME issued \in Seq(IssuedSet), NEW a \in DOMAIN issued
  PROVE  issued[a].builder \in BuilderRecord /\ issued[a].pin \in UserPin
<1>1. PICK d \in DOMAIN Draws, f \in Teller :
        /\ issued[a].pin = PinValue(Draws[d].pin.mask)
        /\ issued[a].builder = [sign       |-> RTSignature(RTKey[f], Draws[d].pin.x, Draws[d].r),
                                masked_pin |-> ToMasked(Draws[d].pin)]
  BY IssuedFacts
<1> DEFINE pin == Draws[d].pin
           r == Draws[d].r
           sign == RTSignature(RTKey[f], pin.x, r)
<1>2. pin.x \in Scalar /\ pin.mask \in Scalar /\ r \in Scalar /\ RTKey[f] \in Scalar
  BY DrawFacts, KeyFacts
<1>3. sign \in [A : Point, r : Scalar]
  <2>1. sign.A \in Point
    BY <1>2, SignaturePoint
  <2>2. sign = [A |-> sign.A, r |-> r]
    BY DEF RTSignature
  <2> HIDE DEF sign
  <2> QED BY <1>2, <2>1, <2>2
<1>4. ToMasked(pin) \in MaskedPIN
  <2>1. Plus(pin.x, pin.mask) \in Scalar /\ Minus(pin.mask, FromPin(PinValue(pin.mask))) \in Scalar
    BY <1>2, FieldTwo, MinusPlus, PinValueIsUserPin
  <2> QED BY <2>1 DEF ToMasked, MaskedPIN
<1>5. issued[a].pin \in UserPin
  BY <1>1, <1>2, PinValueIsUserPin
<1> QED BY <1>1, <1>3, <1>4, <1>5 DEF BuilderRecord

\* What a builder's claim for a typed number is.
LEMMA ClaimTypes ==
  ASSUME NEW b \in BuilderRecord, NEW n \in UserPin
  PROVE  Claimed(b, n) \in Point
<1>1. b.sign.A \in Point /\ b.sign.r \in Scalar /\ b.masked_pin \in MaskedPIN
  BY DEF BuilderRecord
<1>2. GetX(b, n) \in Scalar
  BY <1>1, NumbersDiffer DEF GetX
<1>3. Message(GetX(b, n)) \in Point /\ Mul(b.sign.A, b.sign.r) \in Point
  BY <1>1, <1>2, PointOps, Generators DEF Message
<1> QED BY <1>3, PointOps, ZeroOne DEF Claimed

LEMMA ProofTypes ==
  ASSUME NEW b \in BuilderRecord, NEW p \in Point, NEW reg \in Point, NEW key \in Scalar,
         NEW log \in BOOLEAN, NEW w \in Scalar
  PROVE  WithProof(b, DvProve(DvStatement(b.sign.A, p, reg, key), [log |-> log, key |-> w]))
           \in CredentialRecord
  BY DEF BuilderRecord, CredentialRecord, DvProofs, WithProof, DvProve, DvStatement

LEMMA CredentialTypes ==
  ASSUME NEW b \in BuilderRecord
  PROVE  /\ \A y \in Scalar, key \in Scalar : Finalize(b, y, key) \in CredentialRecord
         /\ \A y \in Scalar, n \in UserPin, key \in Scalar :
              Simulate(b, RegistrationPk(y), n, key) \in CredentialRecord
<1>1. \A y \in Scalar : RegistrationPk(y) \in Point /\ Mul(b.sign.A, y) \in Point
  BY PointOps, Generators DEF RegistrationPk, BuilderRecord
<1>2. ASSUME NEW y \in Scalar, NEW key \in Scalar
      PROVE  Finalize(b, y, key) \in CredentialRecord
  BY <1>1, ProofTypes DEF Finalize
<1>3. ASSUME NEW y \in Scalar, NEW n \in UserPin, NEW key \in Scalar
      PROVE  Simulate(b, RegistrationPk(y), n, key) \in CredentialRecord
  BY <1>1, ClaimTypes, ProofTypes DEF Simulate
<1> QED BY <1>2, <1>3

LEMMA TypesFromInv == EnrolmentInv /\ HistoryInv => TypeOK
<1> SUFFICES ASSUME EnrolmentInv, HistoryInv PROVE TypeOK
  OBVIOUS
<1>0. issued \in Seq(IssuedSet)
  BY DEF EnrolmentInv
<1>1. \A i \in DOMAIN issued : issued[i].builder \in BuilderRecord /\ issued[i].pin \in UserPin
  BY <1>0, BuilderTypes
<1>2. ASSUME NEW v \in Voter, device[v] # NoDevice
      PROVE  \/ device[v] \in [kind : {"builder"}, election : Election, builder : BuilderRecord]
             \/ device[v] \in [kind : {"voter"}, election : Election,
                               credential : CredentialRecord]
  <2>1. PICK e \in Election, a \in DOMAIN issued :
          \/ HoldsBuilder(v, e, a)
          \/ \E rt \in Teller, key \in Scalar : HoldsFinalized(v, e, a, rt, key)
          \/ \E n \in UserPin : HoldsSimulated(v, e, a, n)
    BY <1>2 DEF EnrolmentInv, DeviceInv
  <2>2. issued[a].builder \in BuilderRecord
    BY <1>1
  <2>3. CASE HoldsBuilder(v, e, a)
    BY <2>2, <2>3 DEF HoldsBuilder
  <2>4. ASSUME NEW rt \in Teller, NEW key \in Scalar, HoldsFinalized(v, e, a, rt, key)
        PROVE  device[v] \in [kind : {"voter"}, election : Election,
                              credential : CredentialRecord]
    <3>1. Finalize(issued[a].builder, RTKey[rt], key) \in CredentialRecord
      BY <2>2, CredentialTypes, KeyFacts
    <3> QED BY <2>4, <3>1 DEF HoldsFinalized
  <2>5. ASSUME NEW n \in UserPin, HoldsSimulated(v, e, a, n)
        PROVE  device[v] \in [kind : {"voter"}, election : Election,
                              credential : CredentialRecord]
    <3>1. Simulate(issued[a].builder, RegistrationPk(KeyOf(e)), n, VoterKey[v])
            \in CredentialRecord
      BY <2>2, CredentialTypes, KeyFacts
    <3> QED BY <2>5, <3>1 DEF HoldsSimulated
  <2> QED BY <2>1, <2>3, <2>4, <2>5
<1>3. DOMAIN casts = DOMAIN ballots
  BY SeqFacts DEF EnrolmentInv, BallotInv
<1> QED BY <1>1, <1>2, <1>3 DEF TypeOK, HistoryInv

\* Whatever the calls, a device is empty, holds a builder or holds a
\* credential with its proof (VoterBuilder, Voter), all of them made of
\* scalars and points, and a count leaves no ballot without a verdict.
THEOREM EnrolmentTypes == Spec => []TypeOK
  BY HistoryAlways, TypesFromInv, PTL
-----------------------------------------------------------------------------
(* The register                                                            *)

\* A difference of points is the identity only between equals.
LEMMA SubIdentity ==
  ASSUME NEW P \in Point, NEW R \in Point
  PROVE  Sub(P, R) = Identity <=> P = R
<1>1. /\ P.g1 \in Scalar /\ P.g3 \in Scalar /\ P.o \in Scalar
      /\ R.g1 \in Scalar /\ R.g3 \in Scalar /\ R.o \in Scalar
      /\ P = [g1 |-> P.g1, g3 |-> P.g3, o |-> P.o]
      /\ R = [g1 |-> R.g1, g3 |-> R.g3, o |-> R.o]
  BY DEF Point
<1>2. Sub(P, R) = [g1 |-> Minus(P.g1, R.g1), g3 |-> Minus(P.g3, R.g3), o |-> Minus(P.o, R.o)]
  BY <1>1, TimesMinusOne DEF Sub, Add, Mul, Minus
<1>3. Sub(P, R) = Identity <=>
        Minus(P.g1, R.g1) = Zero /\ Minus(P.g3, R.g3) = Zero /\ Minus(P.o, R.o) = Zero
  BY <1>2 DEF Identity
<1> QED BY <1>1, <1>3, MinusZero

\* The handle of a credential determines the secret it was signed for.
LEMMA HandleDetermines ==
  ASSUME NEW x \in Scalar, NEW y \in Scalar, NEW r \in Scalar, Plus(r, y) # Zero,
         NEW z \in Scalar, NEW w \in Scalar, NEW s \in Scalar,
         RTSignature(y, x, r).A = RTSignature(w, z, s).A
  PROVE  x = z
<1> DEFINE inv == Inv(Plus(r, y))
           other == Inv(Plus(s, w))
<1>1. Plus(r, y) \in Scalar /\ inv \in Scalar /\ Times(Plus(r, y), inv) = One
  BY FieldOne, FieldTwo
<1>2. /\ RTSignature(y, x, r).A.g1 = inv /\ RTSignature(y, x, r).A.g3 = Times(x, inv)
      /\ RTSignature(w, z, s).A.g1 = other /\ RTSignature(w, z, s).A.g3 = Times(z, other)
  BY SignaturePoint
<1> DEFINE k == Plus(r, y)
<1>3. k \in Scalar /\ inv \in Scalar /\ Times(k, inv) = One /\ Times(x, inv) = Times(z, inv)
  BY <1>1, <1>2
<1> HIDE DEF inv, k, other
<1>4. ASSUME NEW a \in Scalar PROVE Times(Times(a, inv), k) = a
  <2>1. Times(Times(a, inv), k) = Times(a, Times(inv, k)) /\ Times(inv, k) = Times(k, inv)
    BY <1>3, FieldTwo, FieldThree
  <2> QED BY <1>3, <2>1, FieldOne
<1> QED BY <1>3, <1>4

LEMMA RegisterFromInv == EnrolmentInv /\ HistoryInv => RegisterIsIssued
<1> SUFFICES ASSUME EnrolmentInv, HistoryInv,
                    NEW i \in DOMAIN issued, NEW j \in DOMAIN issued, NEW k \in DOMAIN issued,
                    NEW l \in DOMAIN issued
             PROVE  PublicACCVerifies(PublishedACC(i, j, k, l)) <=> i = j /\ j = k
  BY DEF RegisterIsIssued
<1> DEFINE A(n) == issued[n].builder.sign.A
<1>1. ASSUME NEW n \in DOMAIN issued
      PROVE  /\ A(n) \in Point
             /\ issued[n].acc = PublicACC(issued[n].builder.sign, Encrypt(A(n), n),
                                          Encrypt(Message(Draws[n].pin.x), n))
             /\ n \in DOMAIN Draws
             /\ \E t \in Teller :
                  A(n) = RTSignature(RTKey[t], Draws[n].pin.x, Draws[n].r).A
  <2>1. n \in DOMAIN Draws
    BY DEF HistoryInv
  <2>2. PICK t \in Teller : issued[n] = Issued(n, t)
    BY DEF HistoryInv
  <2>3. A(n) \in Point
    BY BuilderTypes DEF EnrolmentInv, BuilderRecord
  <2> QED BY <2>1, <2>2, <2>3 DEF Issued, Builder
<1>2. PublicACCVerifies(PublishedACC(i, j, k, l)) <=>
        /\ Encrypt(Sub(A(k), A(k)), k) = Encrypt(Sub(A(j), A(i)), j)
        /\ Sub(A(k), A(k)) = Identity
  <2> HIDE DEF A
  <2>1. /\ PublishedACC(i, j, k, l).sign.A = A(i)
        /\ PublishedACC(i, j, k, l).enc_A = Encrypt(A(j), j)
        /\ PublishedACC(i, j, k, l).proof = Encrypt(Sub(A(k), A(k)), k)
    <3>1. ASSUME NEW n \in DOMAIN issued
          PROVE  /\ issued[n].acc.sign = issued[n].builder.sign
                 /\ issued[n].acc.enc_A = Encrypt(A(n), n)
                 /\ issued[n].acc.proof = Encrypt(Sub(A(n), A(n)), n)
      <4>1. issued[n].acc = PublicACC(issued[n].builder.sign, Encrypt(A(n), n),
                                      Encrypt(Message(Draws[n].pin.x), n))
        BY <1>1
      <4>2. Encrypt(A(n), n).pt = A(n) /\ Encrypt(A(n), n).id = n
        BY DEF Encrypt
      <4>3. issued[n].builder.sign.A = A(n)
        BY DEF A
      <4> QED BY <4>1, <4>2, <4>3 DEF PublicACC, ZeroStatement
    <3>2. issued[i].builder.sign.A = A(i)
      BY DEF A
    <3> QED BY <3>1, <3>2 DEF PublishedACC
  <2> QED BY <2>1 DEF PublicACCVerifies, ZeroStatement, Encrypt
<1>3. Sub(A(k), A(k)) = Identity /\ (Sub(A(j), A(i)) = Identity <=> A(j) = A(i))
  BY <1>1, SubIdentity
<1>4. A(j) = A(i) => i = j
  <2> SUFFICES ASSUME A(j) = A(i) PROVE i = j
    OBVIOUS
  <2>1. PICK t \in Teller : A(i) = RTSignature(RTKey[t], Draws[i].pin.x, Draws[i].r).A
    BY <1>1
  <2>2. PICK f \in Teller : A(j) = RTSignature(RTKey[f], Draws[j].pin.x, Draws[j].r).A
    BY <1>1
  <2>3. /\ RTKey[t] \in Scalar /\ Draws[i].pin.x \in Scalar /\ Draws[i].r \in Scalar
        /\ Plus(Draws[i].r, RTKey[t]) # Zero
        /\ RTKey[f] \in Scalar /\ Draws[j].pin.x \in Scalar /\ Draws[j].r \in Scalar
    BY <1>1, KeyFacts, DrawFacts
  <2>4. Draws[i].pin.x = Draws[j].pin.x
    BY <2>1, <2>2, <2>3, HandleDetermines
  <2> QED BY <1>1, <2>4, DrawAssumption
<1> HIDE DEF A
<1> QED BY <1>2, <1>3, <1>4 DEF Encrypt

\* RegistrationTeller::short_public_acc takes every handle that gen_builder
\* made and no mixture of several, whichever tellers made them:
\* RegisterIsIssued.
THEOREM RegisterAlwaysIssued == Spec => []RegisterIsIssued
  BY HistoryAlways, RegisterFromInv, PTL
-----------------------------------------------------------------------------
(***************************************************************************)
(* The leaves of a ballot's proof, for lists of every length: each of the  *)
(* three loops names every leaf once, and the same leaves in the same      *)
(* order.                                                                  *)
(***************************************************************************)

Has(s, x) == \E k \in DOMAIN s : s[k] = x

OneToOne(s) == \A j, k \in DOMAIN s : s[j] = s[k] => j = k

LEMMA ConcatFacts ==
  ASSUME NEW s, IsSeq(s), NEW t, IsSeq(t)
  PROVE  /\ IsSeq(s \o t) /\ Len(s \o t) = Len(s) + Len(t)
         /\ DOMAIN (s \o t) = 1..(Len(s) + Len(t))
         /\ \A k \in 1..Len(s) : (s \o t)[k] = s[k]
         /\ \A k \in 1..Len(t) : (s \o t)[Len(s) + k] = t[k]
<1>1. PICK S, T : s \in Seq(S) /\ t \in Seq(T)
  BY DEF IsSeq
<1> DEFINE U == S \cup T
<1>2. s \in Seq(U) /\ t \in Seq(U)
  BY <1>1, SeqGrows
<1> HIDE DEF U
<1>3. s \o t \in Seq(U) /\ Len(s \o t) = Len(s) + Len(t)
  BY <1>2
<1> QED BY <1>2, <1>3 DEF IsSeq

LEMMA ConcatAt ==
  ASSUME NEW s, IsSeq(s), NEW t, IsSeq(t), NEW k \in 1..Len(t), NEW n, n = Len(s) + k
  PROVE  (s \o t)[n] = t[k]
  BY ConcatFacts

LEMMA ListIsSeq ==
  ASSUME NEW n \in Nat, NEW f, f = [k \in 1..n |-> f[k]]
  PROVE  IsSeq(f) /\ Len(f) = n /\ DOMAIN f = 1..n
<1>1. f \in Seq({f[k] : k \in 1..n})
  <2>1. f \in [1..n -> {f[k] : k \in 1..n}]
    BY SMT
  <2> QED BY <2>1
<1>2. DOMAIN f = 1..n
  BY SMT
<1>3. Len(f) \in Nat /\ DOMAIN f = 1..Len(f)
  BY <1>1
<1>4. Len(f) = n
  BY <1>2, <1>3
<1> QED BY <1>1, <1>2, <1>4 DEF IsSeq

LEMMA ConcatOneToOne ==
  ASSUME NEW s, IsSeq(s), NEW t, IsSeq(t), OneToOne(s), OneToOne(t),
         \A x : ~ (Has(s, x) /\ Has(t, x))
  PROVE  OneToOne(s \o t) /\ \A x : Has(s \o t, x) <=> Has(s, x) \/ Has(t, x)
<1> DEFINE u == s \o t
<1>1. /\ DOMAIN u = 1..(Len(s) + Len(t))
      /\ \A k \in 1..Len(s) : u[k] = s[k]
      /\ \A k \in 1..Len(t) : u[Len(s) + k] = t[k]
  BY ConcatFacts
<1>2. /\ Len(s) \in Nat /\ DOMAIN s = 1..Len(s)
      /\ Len(t) \in Nat /\ DOMAIN t = 1..Len(t)
  BY SeqFacts
<1> HIDE DEF u
<1>3. ASSUME NEW k \in DOMAIN u
      PROVE  \/ k \in DOMAIN s /\ u[k] = s[k]
             \/ k - Len(s) \in DOMAIN t /\ u[k] = t[k - Len(s)]
  <2>1. CASE k \in 1..Len(s)
    BY <1>1, <1>2, <2>1
  <2>2. CASE k - Len(s) \in 1..Len(t)
    <3>1. k = Len(s) + (k - Len(s))
      BY <1>1, <1>2
    <3> QED BY <1>1, <1>2, <2>2, <3>1
  <2>3. k \in 1..Len(s) \/ k - Len(s) \in 1..Len(t)
    BY <1>1, <1>2
  <2> QED BY <2>1, <2>2, <2>3
<1>4. ASSUME NEW j \in DOMAIN u, NEW k \in DOMAIN u, u[j] = u[k] PROVE j = k
  <2>1. CASE j \in DOMAIN s /\ u[j] = s[j] /\ k \in DOMAIN s /\ u[k] = s[k]
    BY <1>4, <2>1 DEF OneToOne
  <2>2. CASE /\ j - Len(s) \in DOMAIN t /\ u[j] = t[j - Len(s)]
             /\ k - Len(s) \in DOMAIN t /\ u[k] = t[k - Len(s)]
    <3>1. j - Len(s) = k - Len(s)
      BY <1>4, <2>2 DEF OneToOne
    <3>2. j \in Nat /\ k \in Nat
      BY <1>1, <1>2
    <3> QED BY <1>2, <3>1, <3>2
  <2>3. ~ (Has(s, u[j]) /\ Has(t, u[j]))
    OBVIOUS
  <2>4. ~ (j \in DOMAIN s /\ u[j] = s[j] /\ k - Len(s) \in DOMAIN t /\ u[k] = t[k - Len(s)])
        /\ ~ (k \in DOMAIN s /\ u[k] = s[k] /\ j - Len(s) \in DOMAIN t /\ u[j] = t[j - Len(s)])
    BY <1>4, <2>3 DEF Has
  <2> QED BY <1>3, <2>1, <2>2, <2>4
<1>5. ASSUME NEW x PROVE Has(u, x) <=> Has(s, x) \/ Has(t, x)
  <2>1. Has(u, x) => Has(s, x) \/ Has(t, x)
    BY <1>3 DEF Has
  <2>2. Has(s, x) => Has(u, x)
    BY <1>1, <1>2 DEF Has
  <2>3. ASSUME NEW k \in DOMAIN t PROVE Len(s) + k \in DOMAIN u /\ u[Len(s) + k] = t[k]
    BY <1>1, <1>2
  <2>4. Has(t, x) => Has(u, x)
    BY <2>3 DEF Has
  <2> QED BY <2>1, <2>2, <2>4
<1>6. OneToOne(u)
  BY <1>4 DEF OneToOne
<1> QED BY <1>5, <1>6 DEF u

\* The leaves of a party, and of the parties before the n-th.
PartyLeaves(ln2, i) ==
  CandidateLeaves(i, ln2[i]) \o <<<<"l1_01", i>>, <<"l1_eq_sum_l2", i>>>>

LeafOf(leaf, ln2, i) ==
  \/ leaf = <<"l1_01", i>> \/ leaf = <<"l1_eq_sum_l2", i>>
  \/ \E j \in Upto(ln2[i]) : leaf = <<"l2_01", i, j>>

LeafBefore(leaf, ln2, n) == leaf = <<"one_l1">> \/ \E i \in Upto(n) : LeafOf(leaf, ln2, i)

LEMMA LeafParts ==
  ASSUME NEW leaf, NEW ln2, NEW i, LeafOf(leaf, ln2, i)
  PROVE  leaf[2] = i /\ leaf[1] \in {"l1_01", "l1_eq_sum_l2", "l2_01"} /\ leaf # <<"one_l1">>
<1>1. CASE leaf = <<"l1_01", i>>
  BY <1>1
<1>2. CASE leaf = <<"l1_eq_sum_l2", i>>
  BY <1>2
<1>3. CASE \E j \in Upto(ln2[i]) : leaf = <<"l2_01", i, j>>
  BY <1>3
<1> QED BY <1>1, <1>2, <1>3 DEF LeafOf

LEMMA PartyLeavesFacts ==
  ASSUME NEW ln2, NEW i, ln2[i] \in Nat
  PROVE  /\ IsSeq(PartyLeaves(ln2, i)) /\ OneToOne(PartyLeaves(ln2, i))
         /\ \A leaf : Has(PartyLeaves(ln2, i), leaf) <=> LeafOf(leaf, ln2, i)
<1> DEFINE s == CandidateLeaves(i, ln2[i])
           t == <<<<"l1_01", i>>, <<"l1_eq_sum_l2", i>>>>
           n == ln2[i]
<1>1. n \in Nat /\ s = [j \in 1..n |-> <<"l2_01", i, j - 1>>]
  BY DEF CandidateLeaves
<1> HIDE DEF n, s
<1>2. IsSeq(s) /\ DOMAIN s = 1..n /\ \A j \in 1..n : s[j] = <<"l2_01", i, j - 1>>
  <2>1. s = [j \in 1..n |-> s[j]]
    BY <1>1
  <2>2. IsSeq(s) /\ DOMAIN s = 1..n
    BY <1>1, <2>1, ListIsSeq
  <2> QED BY <1>1, <2>2
<1>3. OneToOne(s)
  <2>1. ASSUME NEW j \in 1..n, NEW k \in 1..n, s[j] = s[k] PROVE j = k
    <3>1. <<"l2_01", i, j - 1>>[3] = <<"l2_01", i, k - 1>>[3]
      BY <1>2, <2>1
    <3>2. j - 1 = k - 1
      BY <3>1
    <3> QED BY <1>1, <3>2
  <2> QED BY <1>2, <2>1 DEF OneToOne
<1>4. ASSUME NEW leaf PROVE Has(s, leaf) <=> \E j \in Upto(n) : leaf = <<"l2_01", i, j>>
  <2>1. ASSUME NEW j \in 1..n PROVE j - 1 \in Upto(n)
    BY <1>1 DEF Upto
  <2>2. ASSUME NEW j \in Upto(n) PROVE j + 1 \in 1..n /\ s[j + 1] = <<"l2_01", i, j>>
    <3>1. j + 1 \in 1..n /\ (j + 1) - 1 = j
      BY <1>1 DEF Upto
    <3> QED BY <1>2, <3>1
  <2> QED BY <1>2, <2>1, <2>2 DEF Has
<1>5. /\ IsSeq(t) /\ DOMAIN t = 1..2
      /\ t[1] = <<"l1_01", i>> /\ t[2] = <<"l1_eq_sum_l2", i>>
  <2>1. t \in Seq({<<"l1_01", i>>, <<"l1_eq_sum_l2", i>>}) /\ DOMAIN t = 1..2
    OBVIOUS
  <2> QED BY <2>1 DEF IsSeq
<1> HIDE DEF t
<1>6. \A k \in 1..2 : k = 1 \/ k = 2
  OBVIOUS
<1>7. \A leaf : Has(t, leaf) <=> leaf = <<"l1_01", i>> \/ leaf = <<"l1_eq_sum_l2", i>>
  BY <1>5, <1>6 DEF Has
<1>8. OneToOne(t)
  <2>1. t[1] # t[2]
    <3>1. <<"l1_01", i>>[1] # <<"l1_eq_sum_l2", i>>[1]
      OBVIOUS
    <3> QED BY <1>5, <3>1
  <2> QED BY <1>5, <1>6, <2>1 DEF OneToOne
<1>9. ASSUME NEW x PROVE ~ (Has(s, x) /\ Has(t, x))
  <2>1. Has(s, x) => x[1] = "l2_01"
    BY <1>4
  <2>2. Has(t, x) => x[1] \in {"l1_01", "l1_eq_sum_l2"}
    BY <1>7
  <2> QED BY <2>1, <2>2
<1>10. /\ IsSeq(s \o t) /\ OneToOne(s \o t)
       /\ \A x : Has(s \o t, x) <=> Has(s, x) \/ Has(t, x)
  BY <1>2, <1>3, <1>5, <1>8, <1>9, ConcatFacts, ConcatOneToOne
<1> QED BY <1>4, <1>7, <1>10 DEF PartyLeaves, LeafOf, s, t, n

\* The function g is the loop over the first N parties.
LoopIs(g, ln2, N) ==
  g = [n \in 0..N |-> IF n = 0 THEN <<<<"one_l1">>>> ELSE g[n - 1] \o PartyLeaves(ln2, n - 1)]

LEMMA LoopExists ==
  ASSUME NEW ln2, NEW N \in Nat
  PROVE  \E g : LoopIs(g, ln2, N)
<1> DEFINE P == {n \in Nat : \E g : LoopIs(g, ln2, n)}
<1>1. 0 \in P
  <2>1. LoopIs([n \in 0..0 |-> <<<<"one_l1">>>>], ln2, 0)
    BY DEF LoopIs
  <2> QED BY <2>1
<1>2. ASSUME NEW m \in P PROVE m + 1 \in P
  <2>1. PICK g : LoopIs(g, ln2, m)
    OBVIOUS
  <2> DEFINE h == [n \in 0..(m + 1) |->
                     IF n = 0 THEN <<<<"one_l1">>>> ELSE g[n - 1] \o PartyLeaves(ln2, n - 1)]
  <2>2. m \in Nat
    OBVIOUS
  <2>3. \A n \in 0..m : h[n] = g[n]
    BY <2>1, <2>2 DEF LoopIs
  <2>4. \A n \in 1..(m + 1) : n - 1 \in 0..m
    BY <2>2
  <2>5. h = [n \in 0..(m + 1) |->
               IF n = 0 THEN <<<<"one_l1">>>> ELSE h[n - 1] \o PartyLeaves(ln2, n - 1)]
    <3>1. ASSUME NEW n \in 0..(m + 1)
          PROVE  (IF n = 0 THEN <<<<"one_l1">>>> ELSE g[n - 1] \o PartyLeaves(ln2, n - 1))
               = (IF n = 0 THEN <<<<"one_l1">>>> ELSE h[n - 1] \o PartyLeaves(ln2, n - 1))
      <4>1. n # 0 => n - 1 \in 0..m
        BY <2>2
      <4>2. n # 0 => h[n - 1] = g[n - 1]
        BY <2>3, <4>1
      <4> HIDE DEF h
      <4> QED BY <4>2
    <3> QED BY <3>1, Zenon
  <2>6. LoopIs(h, ln2, m + 1)
    <3> HIDE DEF h
    <3> QED BY <2>5 DEF LoopIs
  <2> HIDE DEF h
  <2> QED BY <2>2, <2>6
<1>3. P = Nat
  <2> HIDE DEF P
  <2>1. P \in SUBSET Nat
    BY DEF P
  <2> QED BY <1>1, <1>2, <2>1, NumberInduction
<1> QED BY <1>3

LeavesBefore(q, ln2, n) ==
  /\ IsSeq(q) /\ Len(q) >= 1 /\ q[1] = <<"one_l1">> /\ OneToOne(q)
  /\ \A leaf : Has(q, leaf) <=> LeafBefore(leaf, ln2, n)

LEMMA FirstLeaf ==
  ASSUME NEW ln2
  PROVE  LeavesBefore(<<<<"one_l1">>>>, ln2, 0)
<1> DEFINE q == <<<<"one_l1">>>>
<1>1. q \in Seq({<<"one_l1">>}) /\ DOMAIN q = {1} /\ Len(q) = 1 /\ q[1] = <<"one_l1">>
  OBVIOUS
<1>2. Upto(0) = {}
  BY DEF Upto
<1> HIDE DEF q
<1>3. IsSeq(q)
  BY <1>1 DEF IsSeq
<1> QED BY <1>1, <1>2, <1>3 DEF LeavesBefore, OneToOne, Has, LeafBefore, q

LEMMA LeavesGrow ==
  ASSUME NEW n \in Nat, NEW ln2, ln2[n] \in Nat, NEW q, LeavesBefore(q, ln2, n)
  PROVE  LeavesBefore(q \o PartyLeaves(ln2, n), ln2, n + 1)
<1> DEFINE t == PartyLeaves(ln2, n)
<1>1. IsSeq(t) /\ OneToOne(t) /\ \A leaf : Has(t, leaf) <=> LeafOf(leaf, ln2, n)
  BY PartyLeavesFacts
<1>2. /\ IsSeq(q) /\ Len(q) >= 1 /\ q[1] = <<"one_l1">> /\ OneToOne(q)
      /\ \A leaf : Has(q, leaf) <=> LeafBefore(leaf, ln2, n)
  BY DEF LeavesBefore
<1> HIDE DEF t
<1>3. ASSUME NEW x PROVE ~ (Has(q, x) /\ Has(t, x))
  <2>1. SUFFICES ASSUME LeafBefore(x, ln2, n), LeafOf(x, ln2, n) PROVE FALSE
    BY <1>1, <1>2
  <2>2. x[2] = n /\ x # <<"one_l1">>
    BY <2>1, LeafParts
  <2>3. PICK i \in Upto(n) : LeafOf(x, ln2, i)
    BY <2>1, <2>2 DEF LeafBefore
  <2>4. x[2] = i
    BY <2>3, LeafParts
  <2> QED BY <2>2, <2>3, <2>4 DEF Upto
<1>4. /\ IsSeq(q \o t) /\ OneToOne(q \o t)
      /\ \A x : Has(q \o t, x) <=> Has(q, x) \/ Has(t, x)
  BY <1>1, <1>2, <1>3, ConcatFacts, ConcatOneToOne
<1>5. Len(q \o t) >= 1 /\ (q \o t)[1] = <<"one_l1">>
  <2>1. Len(q) \in Nat /\ Len(t) \in Nat
    BY <1>1, <1>2, SeqFacts
  <2>2. Len(q \o t) = Len(q) + Len(t) /\ \A k \in 1..Len(q) : (q \o t)[k] = q[k]
    BY <1>1, <1>2, ConcatFacts
  <2>3. 1 \in 1..Len(q)
    BY <1>2, <2>1
  <2> QED BY <1>2, <2>1, <2>2, <2>3
<1>6. \A i : i \in Upto(n + 1) <=> i \in Upto(n) \/ i = n
  BY DEF Upto
<1>7. \A x : LeafBefore(x, ln2, n + 1) <=> LeafBefore(x, ln2, n) \/ LeafOf(x, ln2, n)
  BY <1>6 DEF LeafBefore
<1> QED BY <1>1, <1>2, <1>4, <1>5, <1>7 DEF LeavesBefore, t

\* What the three loops of the prover, the replay and the check have.
LEMMA ChoiceLeaves ==
  ASSUME NEW ln2, IsList(ln2)
  PROVE  /\ LeavesBefore(ChoiceProved(ln2), ln2, Cardinality(DOMAIN ln2))
         /\ ChoiceReplayed(ln2) = ChoiceProved(ln2)
         /\ ChoiceRelations(ln2) = ChoiceProved(ln2)
<1> DEFINE N == Cardinality(DOMAIN ln2)
           L == (CHOOSE g : LoopIs(g, ln2, N))[N]
<1>1. ChoiceProved(ln2) = L
  BY DEF ChoiceProved, OverParties, LoopIs, PartyLeaves
<1>2. ChoiceReplayed(ln2) = L
  BY DEF ChoiceReplayed, OverParties, LoopIs, PartyLeaves
<1>3. ChoiceRelations(ln2) = L
  BY DEF ChoiceRelations, OverParties, LoopIs, PartyLeaves
<1>4. N \in Nat /\ \A n \in Nat : n + 1 <= N => ln2[n] \in Nat
  <2>1. N \in Nat /\ DOMAIN ln2 = Upto(N) /\ \A i \in DOMAIN ln2 : ln2[i] \in Nat
    BY ListFacts
  <2> HIDE DEF N
  <2> QED BY <2>1 DEF Upto
<1>5. PICK g : LoopIs(g, ln2, N) /\ L = g[N]
  <2>1. \E g : LoopIs(g, ln2, N)
    BY <1>4, LoopExists
  <2> QED BY <2>1
<1> HIDE DEF N, L
<1>6. g[0] = <<<<"one_l1">>>>
      /\ \A n \in Nat : n + 1 <= N => g[n + 1] = g[n] \o PartyLeaves(ln2, n)
  <2>1. g[0] = <<<<"one_l1">>>>
    BY <1>4, <1>5 DEF LoopIs
  <2>2. ASSUME NEW n \in Nat, n + 1 <= N PROVE g[n + 1] = g[n] \o PartyLeaves(ln2, n)
    <3>1. n + 1 \in 0..N /\ n + 1 # 0 /\ (n + 1) - 1 = n
      BY <1>4, <2>2
    <3> QED BY <1>5, <3>1 DEF LoopIs
  <2> QED BY <2>1, <2>2
<1> DEFINE P == {n \in Nat : n <= N => LeavesBefore(g[n], ln2, n)}
<1>7. 0 \in P
  BY <1>6, FirstLeaf
<1>8. ASSUME NEW n \in P PROVE n + 1 \in P
  <2>1. n \in Nat /\ (n + 1 <= N => n <= N)
    BY <1>4
  <2>2. n + 1 <= N => LeavesBefore(g[n], ln2, n)
    BY <2>1
  <2>3. n + 1 <= N => LeavesBefore(g[n + 1], ln2, n + 1)
    BY <1>4, <1>6, <2>1, <2>2, LeavesGrow
  <2> QED BY <2>1, <2>3
<1>9. P = Nat
  <2> HIDE DEF P
  <2>1. P \in SUBSET Nat
    BY DEF P
  <2> QED BY <1>7, <1>8, <2>1, NumberInduction
<1>10. N \in P /\ N <= N
  BY <1>4, <1>9
<1>11. LeavesBefore(L, ln2, N)
  BY <1>5, <1>10
<1> QED BY <1>1, <1>2, <1>3, <1>11 DEF N
-----------------------------------------------------------------------------
(***************************************************************************)
(* What a prover makes verifies: the replay absorbs what the prover did.   *)
(***************************************************************************)

\* The lists of a proof are the lists it was made for.
LEMMA RowsOfProof ==
  ASSUME NEW ln2, IsList(ln2), NEW proof,
         \A x : x \in DOMAIN proof <=> Has(ChoiceProved(ln2), x)
  PROVE  Rows(proof) = ln2
<1> DEFINE N == Cardinality(DOMAIN ln2)
<1>1. N \in Nat /\ DOMAIN ln2 = Upto(N) /\ \A i \in DOMAIN ln2 : ln2[i] \in Nat
  BY ListFacts
<1> HIDE DEF N
<1>2. \A x : x \in DOMAIN proof <=> LeafBefore(x, ln2, N)
  BY ChoiceLeaves DEF LeavesBefore, N
<1> DEFINE parties == {leaf[2] : leaf \in {l \in DOMAIN proof : l[1] = "l1_01"}}
           cells(i) == {l \in DOMAIN proof : l[1] = "l2_01" /\ l[2] = i}
<1>3. ASSUME NEW x \in DOMAIN proof, x[1] = "l1_01" PROVE x[2] \in Upto(N)
  <2>1. x # <<"one_l1">>
    BY <1>3
  <2>2. PICK i \in Upto(N) : LeafOf(x, ln2, i)
    BY <1>2, <2>1 DEF LeafBefore
  <2> QED BY <2>2, LeafParts
<1>4. ASSUME NEW i \in Upto(N)
      PROVE  <<"l1_01", i>> \in DOMAIN proof
  BY <1>2 DEF LeafBefore, LeafOf
<1>5. parties = Upto(N)
  <2>1. \A i \in Upto(N) : <<"l1_01", i>>[1] = "l1_01" /\ <<"l1_01", i>>[2] = i
    OBVIOUS
  <2>2. Upto(N) \subseteq parties
    BY <1>4, <2>1
  <2> QED BY <1>3, <2>2
<1>6. ASSUME NEW i \in Upto(N) PROVE Cardinality(cells(i)) = ln2[i]
  <2>1. ln2[i] \in Nat
    BY <1>1
  <2>2. IsFiniteSet(Upto(ln2[i])) /\ Cardinality(Upto(ln2[i])) = ln2[i]
    BY <2>1, UptoFacts
  <2> DEFINE f == [j \in Upto(ln2[i]) |-> <<"l2_01", i, j>>]
  <2>3. ASSUME NEW j \in Upto(ln2[i]) PROVE <<"l2_01", i, j>> \in cells(i)
    <3>1. LeafOf(<<"l2_01", i, j>>, ln2, i)
      BY DEF LeafOf
    <3>2. <<"l2_01", i, j>> \in DOMAIN proof
      BY <1>2, <3>1 DEF LeafBefore
    <3> QED BY <3>2
  <2>4. ASSUME NEW x \in cells(i) PROVE \E j \in Upto(ln2[i]) : x = <<"l2_01", i, j>>
    <3>1. x \in DOMAIN proof /\ x[1] = "l2_01" /\ x[2] = i
      OBVIOUS
    <3>2. x # <<"one_l1">> /\ x # <<"l1_01", i>> /\ x # <<"l1_eq_sum_l2", i>>
      BY <3>1
    <3>3. PICK m \in Upto(N) : LeafOf(x, ln2, m)
      BY <1>2, <3>1, <3>2 DEF LeafBefore
    <3>4. m = i
      BY <3>1, <3>3, LeafParts
    <3> QED BY <3>2, <3>3, <3>4 DEF LeafOf
  <2>5. f \in [Upto(ln2[i]) -> cells(i)]
    BY <2>3
  <2>6. \A j, k \in Upto(ln2[i]) : f[j] = f[k] => j = k
    <3>1. ASSUME NEW j \in Upto(ln2[i]), NEW k \in Upto(ln2[i]), f[j] = f[k] PROVE j = k
      <4>1. <<"l2_01", i, j>>[3] = <<"l2_01", i, k>>[3]
        BY <3>1
      <4> QED BY <4>1
    <3> QED BY <3>1
  <2>7. \A x \in cells(i) : \E j \in Upto(ln2[i]) : f[j] = x
    BY <2>4
  <2> HIDE DEF f, cells
  <2>8. f \in Bijection(Upto(ln2[i]), cells(i))
    BY <2>5, <2>6, <2>7 DEF Bijection, Injection, Surjection, IsInjective
  <2> QED BY <2>2, <2>8, FS_Bijection DEF ExistsBijection
<1>7. Rows(proof) = [i \in parties |-> Cardinality(cells(i))]
  BY DEF Rows
<1>8. ln2 = [i \in Upto(N) |-> ln2[i]]
  BY <1>1 DEF IsList
<1> HIDE DEF parties, cells
<1> QED BY <1>5, <1>6, <1>7, <1>8

Leaves(public) == WithChoice(ChoiceProved(public.params))

LEMMA PartLeaves ==
  ASSUME NEW public, IsList(public.params), NEW part \in Parts
  PROVE  /\ IsSeq(Leaves(public)[part]) /\ OneToOne(Leaves(public)[part])
         /\ Len(Leaves(public)[part]) >= 1
         /\ Leaves(public)["choice"][1] = <<"one_l1">>
<1>1. /\ IsSeq(Leaves(public)["choice"]) /\ OneToOne(Leaves(public)["choice"])
      /\ Len(Leaves(public)["choice"]) >= 1
      /\ Leaves(public)["choice"][1] = <<"one_l1">>
  <2> DEFINE s == ChoiceProved(public.params)
  <2>1. Leaves(public)["choice"] = s
    BY DEF Leaves, WithChoice
  <2>2. LeavesBefore(s, public.params, Cardinality(DOMAIN public.params))
    BY ChoiceLeaves
  <2> HIDE DEF s
  <2>3. IsSeq(s) /\ OneToOne(s) /\ Len(s) >= 1 /\ s[1] = <<"one_l1">>
    BY <2>2 DEF LeavesBefore
  <2> QED BY <2>1, <2>3
<1>2. IsSeq(CAILeaves) /\ OneToOne(CAILeaves) /\ Len(CAILeaves) = 2
  <2> DEFINE S == {<<"l1_codesum">>, <<"l2_codesum">>}
  <2>1. CAILeaves \in Seq(S) /\ Len(CAILeaves) = 2 /\ DOMAIN CAILeaves = {1, 2}
        /\ CAILeaves[1] = <<"l1_codesum">> /\ CAILeaves[2] = <<"l2_codesum">>
    BY DEF CAILeaves
  <2>2. <<"l1_codesum">>[1] # <<"l2_codesum">>[1]
    OBVIOUS
  <2>3. OneToOne(CAILeaves)
    BY <2>1, <2>2 DEF OneToOne
  <2> QED BY <2>1, <2>3 DEF IsSeq
<1>3. IsSeq(AuthLeaves) /\ OneToOne(AuthLeaves) /\ Len(AuthLeaves) = 4
  <2> DEFINE S == {<<"A_pt">>, <<"Ar_pt">>, <<"A_notid">>, <<"g3x_ox">>}
  <2>1. AuthLeaves \in Seq(S) /\ Len(AuthLeaves) = 4 /\ DOMAIN AuthLeaves = {1, 2, 3, 4}
        /\ AuthLeaves[1] = <<"A_pt">> /\ AuthLeaves[2] = <<"Ar_pt">>
        /\ AuthLeaves[3] = <<"A_notid">> /\ AuthLeaves[4] = <<"g3x_ox">>
    BY DEF AuthLeaves
  <2>2. /\ AuthLeaves[1][1] = "A_pt" /\ AuthLeaves[2][1] = "Ar_pt"
        /\ AuthLeaves[3][1] = "A_notid" /\ AuthLeaves[4][1] = "g3x_ox"
    BY <2>1
  <2>3. OneToOne(AuthLeaves)
    BY <2>1, <2>2 DEF OneToOne
  <2> QED BY <2>1, <2>3 DEF IsSeq
<1>4. Leaves(public)["cai"] = CAILeaves /\ Leaves(public)["auth"] = AuthLeaves
  BY DEF Leaves, WithChoice
<1>5. part \in {"choice", "cai", "auth"}
  BY DEF Parts
<1> DEFINE Fine(s) == IsSeq(s) /\ OneToOne(s) /\ Len(s) >= 1
<1>6. Fine(Leaves(public)["choice"])
  BY <1>1
<1>7. Fine(Leaves(public)["cai"])
  <2>1. Fine(CAILeaves)
    BY <1>2
  <2> QED BY <1>4, <2>1
<1>8. Fine(Leaves(public)["auth"])
  <2>1. Fine(AuthLeaves)
    BY <1>3
  <2> QED BY <1>4, <2>1
<1>9. Fine(Leaves(public)[part])
  <2> HIDE DEF Fine
  <2> QED BY <1>5, <1>6, <1>7, <1>8
<1> QED BY <1>1, <1>9

Fresh(public, id) ==
  [part \in Parts |-> [leaf \in ToSet(Leaves(public)[part]) |-> <<id, leaf>>]]

Committed(public, id) == Absorb(AbsorbPublic(public), Leaves(public), Fresh(public, id))

Drawn(public, id) == Challenges(Committed(public, id), Leaves(public))

ProvedAt(public, wit, id, part, k) ==
  [statement  |-> Statement(public, Leaves(public)[part][k]),
   witnessed  |-> Witnessed(public, Leaves(public)[part][k], wit),
   commitment |-> Fresh(public, id)[part][Leaves(public)[part][k]],
   challenge  |-> Drawn(public, id)[part][k]]

PlaceOf(s, leaf) == CHOOSE k \in DOMAIN s : s[k] = leaf

LEMMA ProveIs ==
  ASSUME NEW public, NEW wit, NEW id, NEW part \in Parts
  PROVE  Prove(public, wit, id)[part] =
           [leaf \in ToSet(Leaves(public)[part]) |->
              ProvedAt(public, wit, id, part, PlaceOf(Leaves(public)[part], leaf))]
  BY DEF Prove, Leaves, Fresh, Committed, Drawn, ProvedAt, PlaceOf

\* The proof of each leaf, by its place.
LEMMA ProvedLeaf ==
  ASSUME NEW public, IsList(public.params), NEW wit, NEW id, NEW part \in Parts
  PROVE  /\ DOMAIN Prove(public, wit, id)[part] = ToSet(Leaves(public)[part])
         /\ \A k \in DOMAIN Leaves(public)[part] :
              LET leaf == Leaves(public)[part][k]
                  proof == Prove(public, wit, id)[part] IN
                /\ leaf \in DOMAIN proof
                /\ proof[leaf].statement = Statement(public, leaf)
                /\ proof[leaf].witnessed = Witnessed(public, leaf, wit)
                /\ proof[leaf].commitment = <<id, leaf>>
                /\ proof[leaf].challenge = Drawn(public, id)[part][k]
<1> DEFINE s == Leaves(public)[part]
           proof == Prove(public, wit, id)[part]
<1>1. proof = [leaf \in ToSet(s) |-> ProvedAt(public, wit, id, part, PlaceOf(s, leaf))]
  BY ProveIs
<1>2. OneToOne(s)
  BY PartLeaves
<1> HIDE DEF proof
<1>3. ASSUME NEW k \in DOMAIN s
      PROVE  s[k] \in ToSet(s) /\ PlaceOf(s, s[k]) = k
  <2> HIDE DEF s
  <2>1. PlaceOf(s, s[k]) \in DOMAIN s /\ s[PlaceOf(s, s[k])] = s[k]
    BY DEF PlaceOf
  <2>2. PlaceOf(s, s[k]) = k
    BY <1>2, <2>1 DEF OneToOne
  <2> QED BY <2>2 DEF ToSet
<1>4. ASSUME NEW k \in DOMAIN s
      PROVE  /\ s[k] \in DOMAIN proof
             /\ proof[s[k]] = ProvedAt(public, wit, id, part, k)
  <2> HIDE DEF s
  <2> QED BY <1>1, <1>3
<1>5. ASSUME NEW k \in DOMAIN s
      PROVE  Fresh(public, id)[part][s[k]] = <<id, s[k]>>
  BY <1>3 DEF Fresh
<1>6. DOMAIN proof = ToSet(s)
  BY <1>1
<1>7. ASSUME NEW k \in DOMAIN s
      PROVE  /\ proof[s[k]].statement = Statement(public, s[k])
             /\ proof[s[k]].witnessed = Witnessed(public, s[k], wit)
             /\ proof[s[k]].commitment = Fresh(public, id)[part][s[k]]
             /\ proof[s[k]].challenge = Drawn(public, id)[part][k]
  <2>1. /\ ProvedAt(public, wit, id, part, k).statement = Statement(public, s[k])
        /\ ProvedAt(public, wit, id, part, k).witnessed = Witnessed(public, s[k], wit)
        /\ ProvedAt(public, wit, id, part, k).commitment = Fresh(public, id)[part][s[k]]
        /\ ProvedAt(public, wit, id, part, k).challenge = Drawn(public, id)[part][k]
    BY DEF ProvedAt
  <2> HIDE DEF s
  <2> QED BY <1>4, <2>1
<1> QED BY <1>4, <1>5, <1>6, <1>7 DEF proof

\* Three parts of one proof.
ThreeParts(p, q, r) == [choice |-> p["choice"], cai |-> q["cai"], auth |-> r["auth"]]

LEMMA HonestVerifies ==
  ASSUME NEW public, IsList(public.params), NEW wit, NEW id,
         \A part \in Parts : \A k \in DOMAIN Leaves(public)[part] :
           Witnessed(public, Leaves(public)[part][k], wit)
  PROVE  LET p == Prove(public, wit, id) IN ProofVerifies(public, ThreeParts(p, p, p))
<1> DEFINE p == Prove(public, wit, id)
           proof == ThreeParts(p, p, p)
           L == Leaves(public)
<1>1. \A part \in Parts : proof[part] = p[part]
  BY DEF ThreeParts, Parts
<1>2. ASSUME NEW part \in Parts
      PROVE  /\ DOMAIN proof[part] = ToSet(L[part])
             /\ \A k \in DOMAIN L[part] :
                  /\ L[part][k] \in DOMAIN proof[part]
                  /\ proof[part][L[part][k]].statement = Statement(public, L[part][k])
                  /\ proof[part][L[part][k]].witnessed
                  /\ proof[part][L[part][k]].commitment = <<id, L[part][k]>>
                  /\ proof[part][L[part][k]].challenge = Drawn(public, id)[part][k]
  <2> HIDE DEF p, proof
  <2>1. p[part] = proof[part]
    BY <1>1
  <2> QED BY <2>1, ProvedLeaf DEF p
<1> HIDE DEF p, proof
<1>3. Rows(proof["choice"]) = public.params
  <2>1. "choice" \in Parts /\ L["choice"] = ChoiceProved(public.params)
    BY DEF Parts, Leaves, WithChoice
  <2>2. \A x : x \in DOMAIN proof["choice"] <=> Has(ChoiceProved(public.params), x)
    BY <1>2, <2>1 DEF ToSet, Has
  <2> QED BY <2>2, RowsOfProof
<1>4. /\ WithChoice(ChoiceReplayed(Rows(proof["choice"]))) = L
      /\ WithChoice(ChoiceRelations(public.params)) = L
  BY <1>3, ChoiceLeaves DEF Leaves
<1>5. [part \in Parts |-> [leaf \in DOMAIN proof[part] |-> proof[part][leaf].commitment]]
        = Fresh(public, id)
  <2>1. ASSUME NEW part \in Parts
        PROVE  [leaf \in DOMAIN proof[part] |-> proof[part][leaf].commitment]
                 = [leaf \in ToSet(L[part]) |-> <<id, leaf>>]
    <3>1. \A leaf \in ToSet(L[part]) : proof[part][leaf].commitment = <<id, leaf>>
      BY <1>2 DEF ToSet
    <3> QED BY <1>2, <3>1
  <2> QED BY <2>1 DEF Fresh
<1>6. UpdateTranscript(AbsorbPublic(public), proof) = Committed(public, id)
  BY <1>4, <1>5 DEF UpdateTranscript, Committed
<1>7. VerifyRelation(public, proof, Committed(public, id))
  <2>1. ASSUME NEW part \in Parts, NEW k \in DOMAIN L[part]
        PROVE  LeafVerifies(public, proof[part], L[part][k], Drawn(public, id)[part][k])
    BY <1>2 DEF LeafVerifies
  <2> QED BY <1>4, <2>1 DEF VerifyRelation, Drawn
<1> QED BY <1>6, <1>7 DEF ProofVerifies, proof, p
-----------------------------------------------------------------------------
(***************************************************************************)
(* What a transcript tells of the statement and of the commitments it was  *)
(* started with: the public key is its third element, the parameters are   *)
(* its fifth, the commitment of the first leaf is its ninth. Every later   *)
(* one keeps them in their places.                                         *)
(***************************************************************************)

Starts(tr, public, commitment) ==
  /\ IsSeq(tr) /\ Len(tr) >= 9
  /\ tr[3] = <<"pk", public.pk>> /\ tr[5] = <<"PARAM", public.params>>
  /\ tr[9] = <<"commitment", commitment>>

LEMMA StartsAppend ==
  ASSUME NEW tr, NEW public, NEW cm, Starts(tr, public, cm), NEW x
  PROVE  Starts(Append(tr, x), public, cm)
<1>1. IsSeq(tr) /\ Len(tr) >= 9 /\ Len(tr) \in Nat /\ DOMAIN tr = 1..Len(tr)
  BY SeqFacts DEF Starts
<1>2. 3 \in DOMAIN tr /\ 5 \in DOMAIN tr /\ 9 \in DOMAIN tr
  BY <1>1
<1>3. /\ IsSeq(Append(tr, x)) /\ Len(Append(tr, x)) = Len(tr) + 1
      /\ \A k \in DOMAIN tr : Append(tr, x)[k] = tr[k]
  BY <1>1, AppendFacts
<1>4. Append(tr, x)[3] = tr[3] /\ Append(tr, x)[5] = tr[5] /\ Append(tr, x)[9] = tr[9]
      /\ Len(Append(tr, x)) >= 9
  BY <1>1, <1>2, <1>3
<1> QED BY <1>3, <1>4 DEF Starts

LEMMA StartsConcat ==
  ASSUME NEW tr, NEW public, NEW cm, Starts(tr, public, cm), NEW t, IsSeq(t)
  PROVE  Starts(tr \o t, public, cm)
<1>1. IsSeq(tr) /\ Len(tr) >= 9 /\ Len(tr) \in Nat /\ Len(t) \in Nat
  BY SeqFacts DEF Starts
<1>2. 3 \in 1..Len(tr) /\ 5 \in 1..Len(tr) /\ 9 \in 1..Len(tr)
  BY <1>1
<1>3. /\ IsSeq(tr \o t) /\ Len(tr \o t) = Len(tr) + Len(t)
      /\ \A k \in 1..Len(tr) : (tr \o t)[k] = tr[k]
  BY <1>1, ConcatFacts
<1>4. /\ (tr \o t)[3] = tr[3] /\ (tr \o t)[5] = tr[5] /\ (tr \o t)[9] = tr[9]
      /\ Len(tr \o t) >= 9
  BY <1>1, <1>2, <1>3
<1> QED BY <1>3, <1>4 DEF Starts

AbsorbedPart(leaves, cm, part) ==
  <<Label(part)>> \o [k \in DOMAIN leaves[part] |-> <<"commitment", cm[part][leaves[part][k]]>>]

LEMMA AbsorbIs ==
  ASSUME NEW tr, NEW leaves, NEW cm
  PROVE  Absorb(tr, leaves, cm) =
           tr \o AbsorbedPart(leaves, cm, "choice") \o AbsorbedPart(leaves, cm, "cai")
              \o AbsorbedPart(leaves, cm, "auth")
  BY DEF Absorb, AbsorbedPart

LEMMA AbsorbedPartFacts ==
  ASSUME NEW leaves, NEW cm, NEW part, IsSeq(leaves[part])
  PROVE  /\ IsSeq(AbsorbedPart(leaves, cm, part))
         /\ Len(AbsorbedPart(leaves, cm, part)) = Len(leaves[part]) + 1
         /\ Len(leaves[part]) >= 1 =>
              AbsorbedPart(leaves, cm, part)[2] = <<"commitment", cm[part][leaves[part][1]]>>
<1> DEFINE s == leaves[part]
           h == <<Label(part)>>
           t == [k \in DOMAIN s |-> <<"commitment", cm[part][s[k]]>>]
<1>1. Len(s) \in Nat /\ DOMAIN s = 1..Len(s)
  BY SeqFacts
<1>2. h \in Seq({Label(part)}) /\ Len(h) = 1
  OBVIOUS
<1>3. IsSeq(h)
  BY <1>2 DEF IsSeq
<1>4. IsSeq(t) /\ Len(t) = Len(s)
  <2>1. t = [k \in 1..Len(s) |-> t[k]]
    BY <1>1
  <2> HIDE DEF t, s
  <2> QED BY <1>1, <2>1, ListIsSeq
<1>5. Len(s) >= 1 => t[1] = <<"commitment", cm[part][s[1]]>>
  <2>1. Len(s) >= 1 => 1 \in DOMAIN s
    BY <1>1
  <2> QED BY <2>1
<1>6. AbsorbedPart(leaves, cm, part) = h \o t
  BY DEF AbsorbedPart
<1> HIDE DEF s, h, t
<1>7. IsSeq(h \o t) /\ Len(h \o t) = 1 + Len(s)
  <2>1. IsSeq(h \o t) /\ Len(h \o t) = Len(h) + Len(t)
    BY <1>3, <1>4, ConcatFacts
  <2> QED BY <1>2, <1>4, <2>1
<1>8. Len(s) >= 1 => (h \o t)[2] = t[1]
  <2>1. Len(s) >= 1 => 1 \in 1..Len(t) /\ 2 = Len(h) + 1
    BY <1>1, <1>2, <1>4
  <2> QED BY <1>3, <1>4, <2>1, ConcatAt
<1> QED BY <1>1, <1>5, <1>6, <1>7, <1>8 DEF s

AreLeaves(leaves) ==
  /\ IsSeq(leaves["choice"]) /\ IsSeq(leaves["cai"]) /\ IsSeq(leaves["auth"])
  /\ Len(leaves["choice"]) >= 1 /\ Len(leaves["auth"]) >= 1

LEMMA AbsorbStarts ==
  ASSUME NEW public, NEW leaves, NEW cm, AreLeaves(leaves)
  PROVE  Starts(Absorb(AbsorbPublic(public), leaves, cm), public,
                cm["choice"][leaves["choice"][1]])
<1> DEFINE tr == AbsorbPublic(public)
           c == AbsorbedPart(leaves, cm, "choice")
           d == AbsorbedPart(leaves, cm, "cai")
           a == AbsorbedPart(leaves, cm, "auth")
           first == cm["choice"][leaves["choice"][1]]
<1>1. /\ IsSeq(tr) /\ Len(tr) = 7
      /\ tr[3] = <<"pk", public.pk>> /\ tr[5] = <<"PARAM", public.params>>
  <2>1. /\ tr \in Seq({tr[k] : k \in 1..7}) /\ Len(tr) = 7
        /\ tr[3] = <<"pk", public.pk>> /\ tr[5] = <<"PARAM", public.params>>
    BY DEF AbsorbPublic
  <2> HIDE DEF tr
  <2> QED BY <2>1 DEF IsSeq
<1>2. /\ IsSeq(c) /\ Len(c) = Len(leaves["choice"]) + 1 /\ c[2] = <<"commitment", first>>
      /\ IsSeq(d) /\ IsSeq(a) /\ Len(leaves["choice"]) \in Nat /\ Len(leaves["choice"]) >= 1
  BY AbsorbedPartFacts, SeqFacts DEF AreLeaves
<1> HIDE DEF tr, c, d, a, first
<1>3. Starts(tr \o c, public, first)
  <2>0. IsSeq(tr) /\ IsSeq(c)
    BY <1>1, <1>2
  <2>1. /\ IsSeq(tr \o c) /\ Len(tr \o c) = Len(tr) + Len(c)
        /\ \A k \in 1..Len(tr) : (tr \o c)[k] = tr[k]
    BY <2>0, ConcatFacts
  <2>2. 3 \in 1..Len(tr) /\ 5 \in 1..Len(tr) /\ 2 \in 1..Len(c) /\ 9 = Len(tr) + 2
        /\ Len(tr \o c) >= 9
    BY <1>1, <1>2, <2>1
  <2>3. (tr \o c)[3] = tr[3] /\ (tr \o c)[5] = tr[5]
    BY <2>1, <2>2
  <2>4. (tr \o c)[9] = c[2]
    BY <2>0, <2>2, ConcatAt
  <2> QED BY <1>1, <1>2, <2>1, <2>2, <2>3, <2>4 DEF Starts
<1>4. Starts((tr \o c) \o d, public, first)
  BY <1>2, <1>3, StartsConcat
<1>5. Starts(((tr \o c) \o d) \o a, public, first)
  BY <1>2, <1>4, StartsConcat
<1> QED BY <1>5, AbsorbIs DEF tr, c, d, a, first

\* The first challenge of the authentication protocol.
LEMMA AuthChallenge ==
  ASSUME NEW tr, NEW public, NEW cm, Starts(tr, public, cm), NEW leaves, AreLeaves(leaves)
  PROVE  Starts(Challenges(tr, leaves)["auth"][1], public, cm)
<1> DEFINE draws(n) == [j \in 1..n |-> <<"drawn">>]
           nc == Len(leaves["choice"])
           nd == Len(leaves["cai"])
           na == Len(leaves["auth"])
           choice == Append(tr, Label("choice"))
           cai == Append(choice \o draws(nc), Label("cai"))
           auth == Append(cai \o draws(nd), Label("auth"))
<1>1. nc \in Nat /\ nd \in Nat /\ na \in Nat /\ na >= 1
  BY SeqFacts DEF AreLeaves
<1>2. ASSUME NEW n \in Nat PROVE IsSeq(draws(n))
  <2>1. draws(n) = [j \in 1..n |-> draws(n)[j]]
    OBVIOUS
  <2> HIDE DEF draws
  <2> QED BY <2>1, ListIsSeq
<1>3. Challenges(tr, leaves)["auth"] = ChallengesOf(auth, na)
  BY DEF Challenges, Parts
<1>4. 1 \in 1..na /\ 1 - 1 = 0
  BY <1>1
<1>5. ChallengesOf(auth, na)[1] = auth \o draws(0)
  <2> HIDE DEF auth, na
  <2> QED BY <1>4 DEF ChallengesOf
<1> HIDE DEF draws, nc, nd, na
<1>6. Starts(choice, public, cm)
  BY StartsAppend
<1>7. Starts(cai, public, cm)
  <2> HIDE DEF choice
  <2>1. Starts(choice \o draws(nc), public, cm)
    BY <1>1, <1>2, <1>6, StartsConcat
  <2> QED BY <2>1, StartsAppend
<1>8. Starts(auth, public, cm)
  <2> HIDE DEF cai
  <2>1. Starts(cai \o draws(nd), public, cm)
    BY <1>1, <1>2, <1>7, StartsConcat
  <2> QED BY <2>1, StartsAppend
<1>9. Starts(auth \o draws(0), public, cm)
  <2> HIDE DEF auth
  <2> QED BY <1>2, <1>8, StartsConcat
<1> QED BY <1>3, <1>5, <1>9
-----------------------------------------------------------------------------
(***************************************************************************)
(* What verifies was made for the ballot it comes with: three leaves name  *)
(* the choice, the cast-as-intended value and the authentication values,   *)
(* and the challenge of a fourth names the key and the parameters of the   *)
(* election and the proof of the choice.                                   *)
(***************************************************************************)

\* Parameters determine the leaves, and four of them are these.
LEMMA NamedLeaves ==
  ASSUME NEW public, IsList(public.params)
  PROVE  /\ AreLeaves(Leaves(public))
         /\ 1 \in DOMAIN Leaves(public)["choice"] /\ Leaves(public)["choice"][1] = <<"one_l1">>
         /\ 1 \in DOMAIN Leaves(public)["cai"] /\ Leaves(public)["cai"][1] = <<"l1_codesum">>
         /\ 1 \in DOMAIN Leaves(public)["auth"] /\ Leaves(public)["auth"][1] = <<"A_pt">>
<1>1. "choice" \in Parts /\ "cai" \in Parts /\ "auth" \in Parts
  BY DEF Parts
<1>2. /\ IsSeq(Leaves(public)["choice"]) /\ Len(Leaves(public)["choice"]) >= 1
      /\ Leaves(public)["choice"][1] = <<"one_l1">>
      /\ IsSeq(Leaves(public)["cai"]) /\ Len(Leaves(public)["cai"]) >= 1
      /\ IsSeq(Leaves(public)["auth"]) /\ Len(Leaves(public)["auth"]) >= 1
  BY <1>1, PartLeaves
<1>3. ASSUME NEW s, IsSeq(s), Len(s) >= 1 PROVE 1 \in DOMAIN s
  BY <1>3, SeqFacts
<1>4. Leaves(public)["cai"] = CAILeaves /\ Leaves(public)["auth"] = AuthLeaves
  BY DEF Leaves, WithChoice
<1>5. CAILeaves[1] = <<"l1_codesum">> /\ AuthLeaves[1] = <<"A_pt">>
  BY DEF CAILeaves, AuthLeaves
<1>6. AreLeaves(Leaves(public))
  BY <1>2 DEF AreLeaves
<1>7. /\ 1 \in DOMAIN Leaves(public)["choice"] /\ 1 \in DOMAIN Leaves(public)["cai"]
      /\ 1 \in DOMAIN Leaves(public)["auth"]
  BY <1>2, <1>3
<1> QED BY <1>2, <1>4, <1>5, <1>6, <1>7

\* What these leaves state.
LEMMA Statements ==
  ASSUME NEW public
  PROVE  /\ Statement(public, <<"one_l1">>) = <<<<"one_l1">>, public.choice>>
         /\ Statement(public, <<"l1_codesum">>) =
              <<<<"l1_codesum">>, public.cai, public.choice>>
         /\ Statement(public, <<"A_pt">>) = <<<<"A_pt">>, public.auth.A_enc, public.auth.B>>
<1>1. \A x, y : x # y => <<x>> # <<y>>
  <2>1. ASSUME NEW x, NEW y, <<x>> = <<y>> PROVE x = y
    <3>1. <<x>>[1] = <<y>>[1]
      BY <2>1
    <3> QED BY <3>1
  <2> QED BY <2>1
<1> DEFINE one == <<"one_l1">>
           code == <<"l1_codesum">>
           A == <<"A_pt">>
<1>2. /\ one # A /\ one # <<"Ar_pt">> /\ one # <<"A_notid">> /\ one # <<"g3x_ox">>
      /\ code # A /\ code # <<"Ar_pt">> /\ code # <<"A_notid">> /\ code # <<"g3x_ox">>
      /\ A # <<"Ar_pt">> /\ A # <<"A_notid">> /\ A # <<"g3x_ox">>
      /\ one # code /\ one # <<"l2_codesum">> /\ A # code /\ A # <<"l2_codesum">>
  BY <1>1
<1>3. ToSet(CAILeaves) = {code, <<"l2_codesum">>}
  <2>1. DOMAIN CAILeaves = {1, 2} /\ CAILeaves[1] = code /\ CAILeaves[2] = <<"l2_codesum">>
    BY DEF CAILeaves
  <2> QED BY <2>1 DEF ToSet
<1> HIDE DEF one, code, A
<1>4. one \notin ToSet(CAILeaves) /\ code \in ToSet(CAILeaves) /\ A \notin ToSet(CAILeaves)
  BY <1>2, <1>3
<1>5. Statement(public, A) = <<A, public.auth.A_enc, public.auth.B>>
  BY <1>2, <1>4 DEF Statement, A
<1>6. Statement(public, code) = <<code, public.cai, public.choice>>
  BY <1>2, <1>4 DEF Statement, A
<1>7. Statement(public, one) = <<one, public.choice>>
  BY <1>2, <1>4 DEF Statement, A
<1> QED BY <1>5, <1>6, <1>7 DEF one, code, A

LEMMA VerifiedIsOne ==
  ASSUME NEW public, NEW pc, NEW pd, NEW pa, NEW wc, NEW wd, NEW wa, NEW c, NEW d, NEW a,
         IsList(public.params), IsList(pc.params), IsList(pd.params), IsList(pa.params),
         ProofVerifies(public, ThreeParts(Prove(pc, wc, c), Prove(pd, wd, d), Prove(pa, wa, a)))
  PROVE  /\ pc.choice = public.choice
         /\ pd.cai = public.cai /\ pd.choice = public.choice
         /\ pa.auth.A_enc = public.auth.A_enc
         /\ pa.pk = public.pk /\ pa.params = public.params /\ a = c
<1> DEFINE Pc == Prove(pc, wc, c)
           Pd == Prove(pd, wd, d)
           Pa == Prove(pa, wa, a)
           proof == ThreeParts(Pc, Pd, Pa)
           tr == UpdateTranscript(AbsorbPublic(public), proof)
           one == <<"one_l1">>
           code == <<"l1_codesum">>
           A == <<"A_pt">>
<1>1. proof["choice"] = Pc["choice"] /\ proof["cai"] = Pd["cai"] /\ proof["auth"] = Pa["auth"]
  BY DEF ThreeParts
<1>2. "choice" \in Parts /\ "cai" \in Parts /\ "auth" \in Parts
  BY DEF Parts
<1>3. WithChoice(ChoiceRelations(public.params)) = Leaves(public)
  BY ChoiceLeaves DEF Leaves
<1>4. ASSUME NEW part \in Parts, NEW k \in DOMAIN Leaves(public)[part]
      PROVE  LeafVerifies(public, proof[part], Leaves(public)[part][k],
                          Challenges(tr, Leaves(public))[part][k])
  BY <1>3 DEF ProofVerifies, VerifyRelation
<1> HIDE DEF tr
<1>5. /\ LeafVerifies(public, Pc["choice"], one, Challenges(tr, Leaves(public))["choice"][1])
      /\ LeafVerifies(public, Pd["cai"], code, Challenges(tr, Leaves(public))["cai"][1])
      /\ LeafVerifies(public, Pa["auth"], A, Challenges(tr, Leaves(public))["auth"][1])
  <2> HIDE DEF Pc, Pd, Pa, proof
  <2> QED BY <1>1, <1>2, <1>4, NamedLeaves
<1>6. /\ Pc["choice"][one].statement = Statement(pc, one)
      /\ Pc["choice"][one].commitment = <<c, one>>
      /\ \A x : x \in DOMAIN Pc["choice"] <=> Has(Leaves(pc)["choice"], x)
  <2>1. 1 \in DOMAIN Leaves(pc)["choice"] /\ Leaves(pc)["choice"][1] = one
    BY NamedLeaves
  <2>2. DOMAIN Pc["choice"] = ToSet(Leaves(pc)["choice"])
        /\ Pc["choice"][one].statement = Statement(pc, one)
        /\ Pc["choice"][one].commitment = <<c, one>>
    BY <1>2, <2>1, ProvedLeaf
  <2> HIDE DEF Pc
  <2> QED BY <2>2 DEF ToSet, Has
<1>7. Pd["cai"][code].statement = Statement(pd, code)
  <2>1. 1 \in DOMAIN Leaves(pd)["cai"] /\ Leaves(pd)["cai"][1] = code
    BY NamedLeaves
  <2> QED BY <1>2, <2>1, ProvedLeaf
<1>8. /\ Pa["auth"][A].statement = Statement(pa, A)
      /\ Pa["auth"][A].challenge = Drawn(pa, a)["auth"][1]
  <2>1. 1 \in DOMAIN Leaves(pa)["auth"] /\ Leaves(pa)["auth"][1] = A
    BY NamedLeaves
  <2> QED BY <1>2, <2>1, ProvedLeaf
<1>9. one \in DOMAIN Pc["choice"]
  BY <1>5 DEF LeafVerifies
<1> DEFINE cm == [part \in Parts |-> [leaf \in DOMAIN proof[part] |-> proof[part][leaf].commitment]]
<1>10. tr = Absorb(AbsorbPublic(public), Leaves(pc), cm)
  <2>1. Rows(proof["choice"]) = pc.params
    <3>1. Leaves(pc)["choice"] = ChoiceProved(pc.params)
      BY DEF Leaves, WithChoice
    <3> HIDE DEF Pc, proof
    <3> QED BY <1>1, <1>6, <3>1, RowsOfProof
  <2>2. WithChoice(ChoiceReplayed(pc.params)) = Leaves(pc)
    BY ChoiceLeaves DEF Leaves
  <2> HIDE DEF proof
  <2> QED BY <2>1, <2>2 DEF UpdateTranscript, tr
<1>11. cm["choice"][one] = <<c, one>>
  <2> HIDE DEF Pc, proof
  <2>1. cm["choice"] = [leaf \in DOMAIN proof["choice"] |-> proof["choice"][leaf].commitment]
    BY <1>2
  <2> QED BY <1>1, <1>6, <1>9, <2>1
<1> HIDE DEF Pc, Pd, Pa, proof, cm
<1>12. Starts(tr, public, <<c, one>>)
  BY <1>10, <1>11, NamedLeaves, AbsorbStarts
<1>13. Starts(Challenges(tr, Leaves(public))["auth"][1], public, <<c, one>>)
  BY <1>12, NamedLeaves, AuthChallenge
<1>14. Fresh(pa, a)["choice"][one] = <<a, one>>
  <2>1. one \in ToSet(Leaves(pa)["choice"])
    BY NamedLeaves DEF ToSet
  <2> QED BY <1>2, <2>1 DEF Fresh
<1>15. Starts(Drawn(pa, a)["auth"][1], pa, <<a, one>>)
  <2>1. Starts(Committed(pa, a), pa, <<a, one>>)
    BY <1>14, NamedLeaves, AbsorbStarts DEF Committed
  <2> QED BY <2>1, NamedLeaves, AuthChallenge DEF Drawn
<1>16. Challenges(tr, Leaves(public))["auth"][1] = Drawn(pa, a)["auth"][1]
  BY <1>5, <1>8 DEF LeafVerifies
<1>17. /\ <<"pk", pa.pk>> = <<"pk", public.pk>>
       /\ <<"PARAM", pa.params>> = <<"PARAM", public.params>>
       /\ <<"commitment", <<a, one>>>> = <<"commitment", <<c, one>>>>
  BY <1>13, <1>15, <1>16 DEF Starts
<1>18. pa.pk = public.pk /\ pa.params = public.params /\ a = c
  <2>1. /\ <<"pk", pa.pk>>[2] = <<"pk", public.pk>>[2]
        /\ <<"PARAM", pa.params>>[2] = <<"PARAM", public.params>>[2]
        /\ <<"commitment", <<a, one>>>>[2][1] = <<"commitment", <<c, one>>>>[2][1]
    BY <1>17
  <2> QED BY <2>1
<1>19. /\ Statement(pc, one) = Statement(public, one)
       /\ Statement(pd, code) = Statement(public, code)
       /\ Statement(pa, A) = Statement(public, A)
  BY <1>5, <1>6, <1>7, <1>8 DEF LeafVerifies
<1>20. /\ <<one, pc.choice>> = <<one, public.choice>>
       /\ <<code, pd.cai, pd.choice>> = <<code, public.cai, public.choice>>
       /\ <<A, pa.auth.A_enc, pa.auth.B>> = <<A, public.auth.A_enc, public.auth.B>>
  BY <1>19, Statements
<1>21. /\ pc.choice = public.choice
       /\ pd.cai = public.cai /\ pd.choice = public.choice
       /\ pa.auth.A_enc = public.auth.A_enc
  <2>1. /\ <<one, pc.choice>>[2] = <<one, public.choice>>[2]
        /\ <<code, pd.cai, pd.choice>>[2] = <<code, public.cai, public.choice>>[2]
        /\ <<code, pd.cai, pd.choice>>[3] = <<code, public.cai, public.choice>>[3]
        /\ <<A, pa.auth.A_enc, pa.auth.B>>[2] = <<A, public.auth.A_enc, public.auth.B>>[2]
    BY <1>20
  <2> QED BY <2>1
<1> QED BY <1>18, <1>21
-----------------------------------------------------------------------------
(***************************************************************************)
(* What a device makes satisfies the relations of the leaves, whatever PIN *)
(* was typed and whoever signed its credential.                            *)
(***************************************************************************)

LEMMA BlindedPoint ==
  ASSUME NEW A \in Point, NEW r \in Scalar, NEW s \in Scalar, s # Zero
  PROVE  /\ A = Mul(Mul(A, s), Inv(s))
         /\ Mul(A, r) = Mul(Mul(A, s), Times(r, Inv(s)))
<1>1. /\ A.g1 \in Scalar /\ A.g3 \in Scalar /\ A.o \in Scalar
      /\ A = [g1 |-> A.g1, g3 |-> A.g3, o |-> A.o]
  BY DEF Point
<1>2. Inv(s) \in Scalar /\ Times(s, Inv(s)) = One /\ Times(r, One) = r
  BY FieldOne
<1>3. Times(r, Inv(s)) \in Scalar
  BY <1>2, FieldTwo
<1>4. Times(s, Times(r, Inv(s))) = r
  <2>1. Times(s, Times(r, Inv(s))) = Times(Times(s, r), Inv(s))
    BY <1>2, FieldThree
  <2>2. Times(s, r) = Times(r, s)
    BY FieldTwo
  <2>3. Times(Times(r, s), Inv(s)) = Times(r, Times(s, Inv(s)))
    BY <1>2, FieldThree
  <2> QED BY <1>2, <2>1, <2>2, <2>3
<1>5. ASSUME NEW a \in Scalar
      PROVE  Times(Times(a, s), Inv(s)) = a /\ Times(Times(a, s), Times(r, Inv(s))) = Times(a, r)
  <2>1. Times(Times(a, s), Inv(s)) = Times(a, Times(s, Inv(s))) /\ Times(a, One) = a
    BY <1>2, FieldOne, FieldThree
  <2>2. Times(Times(a, s), Times(r, Inv(s))) = Times(a, Times(s, Times(r, Inv(s))))
    BY <1>3, FieldThree
  <2> QED BY <1>2, <1>4, <2>1, <2>2
<1> QED BY <1>1, <1>5 DEF Mul

LEMMA SignatureIsNotIdentity ==
  ASSUME NEW x \in Scalar, NEW y \in Scalar, NEW r \in Scalar, Plus(r, y) # Zero
  PROVE  RTSignature(y, x, r).A # Identity
<1> DEFINE k == Plus(r, y)
<1>1. k \in Scalar /\ Times(k, Inv(k)) = One /\ Times(k, Zero) = Zero /\ Zero # One
  BY FieldOne, FieldTwo, ZeroOne
<1>2. Inv(k) # Zero
  BY <1>1
<1>3. RTSignature(y, x, r).A.g1 = Inv(k)
  BY SignaturePoint
<1> QED BY <1>2, <1>3 DEF Identity

LEMMA DeviceHasWitness ==
  ASSUME NEW public, NEW credential, NEW n, NEW s \in Scalar, s # Zero, NEW id,
         public.auth = EncrAuthValues(credential, n, s, id),
         NEW x \in Scalar, NEW y \in Scalar, NEW r \in Scalar, Plus(r, y) # Zero,
         credential.sign = RTSignature(y, x, r),
         NEW leaf
  PROVE  Witnessed(public, leaf, AuthWitness(credential, n, s))
<1> DEFINE A == credential.sign.A
           auth == public.auth
           wit == AuthWitness(credential, n, s)
<1>1. A \in Point /\ A # Identity /\ credential.sign.r = r
  <2>1. A = RTSignature(y, x, r).A
    OBVIOUS
  <2>2. RTSignature(y, x, r).A \in Point /\ RTSignature(y, x, r).r = r
    BY SignaturePoint DEF RTSignature
  <2>3. RTSignature(y, x, r).A # Identity
    BY SignatureIsNotIdentity
  <2> QED BY <2>1, <2>2, <2>3
<1>2. /\ auth.A_enc.pt = A /\ auth.Ar_enc.pt = Mul(A, r) /\ auth.B = Mul(A, s)
      /\ auth.g3x_enc.pt = Mul(G3, wit.x) /\ auth.ox_enc.pt = Mul(O, wit.x)
      /\ wit.A_pt = Inv(s) /\ wit.Ar_pt = Times(r, Inv(s))
  BY <1>1 DEF EncrAuthValues, Encrypt, AuthWitness
<1>3. A = Mul(Mul(A, s), Inv(s)) /\ Mul(A, r) = Mul(Mul(A, s), Times(r, Inv(s)))
  <2> HIDE DEF A
  <2> QED BY <1>1, BlindedPoint
<1> HIDE DEF A, auth, wit
<1>4. auth.A_enc.pt = Mul(auth.B, wit.A_pt) /\ auth.Ar_enc.pt = Mul(auth.B, wit.Ar_pt)
  BY <1>2, <1>3
<1>5. /\ <<"A_pt">>[1] = "A_pt" /\ <<"Ar_pt">>[1] = "Ar_pt" /\ <<"A_notid">>[1] = "A_notid"
      /\ <<"g3x_ox">>[1] = "g3x_ox"
  OBVIOUS
<1>6. CASE leaf = <<"A_pt">>
  BY <1>4, <1>5, <1>6 DEF Witnessed, auth, wit
<1>7. CASE leaf = <<"Ar_pt">>
  BY <1>4, <1>5, <1>7 DEF Witnessed, auth, wit
<1>8. CASE leaf = <<"A_notid">>
  BY <1>1, <1>2, <1>5, <1>8 DEF Witnessed, auth
<1>9. CASE leaf = <<"g3x_ox">>
  BY <1>2, <1>5, <1>9 DEF Witnessed, auth, wit
<1>10. CASE leaf \notin {<<"A_pt">>, <<"Ar_pt">>, <<"A_notid">>, <<"g3x_ox">>}
  BY <1>10 DEF Witnessed
<1> QED BY <1>6, <1>7, <1>8, <1>9, <1>10 DEF wit
-----------------------------------------------------------------------------
(***************************************************************************)
(* Where the fields of a ballot come from: each is that of a cast, the one *)
(* this ballot was made by or, after its parts were exchanged, another.    *)
(***************************************************************************)

BallotFields ==
  {"election_ctx", "choice", "cai", "auth", "choice_proof", "cai_proof", "auth_proof"}

\* The fields that are exchanged for those of another ballot; the hash of a
\* context can also be that of a context nobody cast for.
ProvedFields == BallotFields \ {"election_ctx"}

\* The ballot of the c-th cast, as Voter::vote made it.
Cast(c) ==
  VerVote(casts[c].election, issued[casts[c].acc].builder, casts[c].pin,
          casts[c].choice, casts[c].s, c)

CastsMade ==
  \A c \in DOMAIN casts : casts[c].election \in Election /\ casts[c].s \in Blinding

FieldsMade ==
  \A k \in DOMAIN ballots :
    /\ DOMAIN ballots[k] = BallotFields
    /\ \A f \in ProvedFields : \E c \in DOMAIN casts : ballots[k][f] = Cast(c)[f]

VerdictsMade ==
  \A k \in DOMAIN verdict :
    verdict[k].verifies = BallotVerifies(verdict[k].election, ballots[k])

MadeInv == CastsMade /\ FieldsMade /\ VerdictsMade

\* Only the signature and the masked PIN of a credential reach a ballot.
LEMMA VoteFromParts ==
  ASSUME NEW c, NEW b, c.sign = b.sign, c.masked_pin = b.masked_pin,
         NEW e, NEW n, NEW ch, NEW s, NEW id
  PROVE  VerVote(e, c, n, ch, s, id) = VerVote(e, b, n, ch, s, id)
<1>1. EncrAuthValues(c, n, s, id) = EncrAuthValues(b, n, s, id)
  BY AuthFromParts
<1>2. AuthWitness(c, n, s) = AuthWitness(b, n, s)
  BY DEF AuthWitness, GetX
<1> QED BY <1>1, <1>2, Zenon DEF VerVote

LEMMA VoteFields ==
  ASSUME NEW e, NEW b, NEW n, NEW ch, NEW s, NEW id
  PROVE  DOMAIN VerVote(e, b, n, ch, s, id) = BallotFields
  BY DEF VerVote, BallotFields

\* What was cast stays as it was.
LEMMA CastStays ==
  ASSUME EnrolmentInv, [Next]_vars, NEW c \in DOMAIN casts,
         c \in DOMAIN casts', casts'[c] = casts[c]
  PROVE  Cast(c)' = Cast(c)
<1>1. casts[c].acc \in DOMAIN issued
  BY DEF EnrolmentInv, BallotInv
<1>2. issued'[casts[c].acc] = issued[casts[c].acc]
  BY <1>1, IssuedStep
<1> QED BY <1>2, Zenon DEF Cast, VerVote, Public

LEMMA MadeInit == Init => MadeInv
<1> SUFFICES ASSUME Init PROVE MadeInv
  OBVIOUS
<1>1. DOMAIN casts = {} /\ DOMAIN ballots = {} /\ DOMAIN verdict = {}
  BY DEF Init
<1> QED BY <1>1 DEF MadeInv, CastsMade, FieldsMade, VerdictsMade

LEMMA MadeByVote ==
  ASSUME EnrolmentInv, MadeInv, [Next]_vars, VoteStep
  PROVE  CastsMade' /\ FieldsMade'
<1>0. BallotInv /\ CastsMade /\ FieldsMade
  BY DEF EnrolmentInv, MadeInv
<1>1. PICK v \in Voter, n \in UserPin, ch \in ChoiceValue, s \in Blinding : Vote(v, n, ch, s)
  BY DEF VoteStep
<1>i. PICK id : id = Len(ballots) + 1
  OBVIOUS
<1> DEFINE b == VerVote(device[v].election, device[v].credential, n, ch, s, id)
           d == [acc |-> origin[v].acc, pin |-> n, choice |-> ch, s |-> s,
                 election |-> device[v].election]
<1>2. /\ ballots' = Append(ballots, b) /\ casts' = Append(casts, d)
      /\ issued' = issued /\ device[v].kind = "voter"
  BY <1>1, <1>i DEF Vote
<1>3. PICK a \in DOMAIN issued :
        /\ device[v].election \in Election
        /\ origin[v].acc = a
        /\ device[v].credential.sign = issued[a].builder.sign
        /\ device[v].credential.masked_pin = issued[a].builder.masked_pin
  BY <1>2, CredentialParts
<1>4. b = VerVote(d.election, issued[d.acc].builder, d.pin, d.choice, d.s, id)
  <2>1. d.election = device[v].election /\ d.acc = a /\ d.pin = n /\ d.choice = ch /\ d.s = s
    BY <1>3
  <2> HIDE DEF d
  <2> QED BY <1>3, <2>1, VoteFromParts
<1>5. d.election \in Election /\ d.s \in Blinding
  BY <1>3
<1>6. DOMAIN b = BallotFields
  BY VoteFields
<1> HIDE DEF b, d
<1>7. /\ DOMAIN ballots' = DOMAIN ballots \cup {id} /\ DOMAIN casts' = DOMAIN casts \cup {id}
      /\ \A k \in DOMAIN ballots : ballots'[k] = ballots[k]
      /\ \A k \in DOMAIN casts : casts'[k] = casts[k]
      /\ ballots'[id] = b /\ casts'[id] = d
  BY <1>0, <1>2, <1>i, AppendFacts DEF BallotInv
<1>8. CastsMade'
  BY <1>0, <1>5, <1>7 DEF CastsMade
<1>9. Cast(id)' = b
  BY <1>2, <1>4, <1>7 DEF Cast
<1>10. ASSUME NEW k \in DOMAIN ballots, NEW f \in ProvedFields
       PROVE  \E c \in DOMAIN casts' : ballots'[k][f] = Cast(c)'[f]
  <2>1. PICK c \in DOMAIN casts : ballots[k][f] = Cast(c)[f]
    BY <1>0 DEF FieldsMade
  <2>2. Cast(c)' = Cast(c)
    BY <1>7, CastStays
  <2> QED BY <1>7, <2>1, <2>2
<1>11. ASSUME NEW f \in ProvedFields
       PROVE  \E c \in DOMAIN casts' : ballots'[id][f] = Cast(c)'[f]
  BY <1>7, <1>9
<1>12. \A k \in DOMAIN ballots' : DOMAIN ballots'[k] = BallotFields
  BY <1>0, <1>6, <1>7 DEF FieldsMade
<1>13. FieldsMade'
  BY <1>7, <1>10, <1>11, <1>12 DEF FieldsMade
<1> QED BY <1>8, <1>13

LEMMA MadeByDamage ==
  ASSUME EnrolmentInv, MadeInv, [Next]_vars, DamageStep
  PROVE  CastsMade' /\ FieldsMade'
<1>0. CastsMade /\ FieldsMade
  BY DEF MadeInv
<1>1. PICK k \in DOMAIN ballots, l \in DOMAIN ballots, parts \in Damages : Damage(k, l, parts)
  BY DEF DamageStep
<1> DEFINE b == [f \in DOMAIN ballots[k] |-> IF f \in parts THEN ballots[l][f] ELSE ballots[k][f]]
<1>2. ballots' = [ballots EXCEPT ![k] = b] /\ casts' = casts
  BY <1>1 DEF Damage
<1>3. DOMAIN b = BallotFields
      /\ \A f \in BallotFields : b[f] = ballots[k][f] \/ b[f] = ballots[l][f]
  BY <1>0 DEF FieldsMade
<1> HIDE DEF b
<1>4. DOMAIN ballots' = DOMAIN ballots /\ ballots'[k] = b
      /\ \A m \in DOMAIN ballots \ {k} : ballots'[m] = ballots[m]
  BY <1>2
<1>5. CastsMade'
  BY <1>0, <1>2 DEF CastsMade
<1>6. ASSUME NEW m \in DOMAIN ballots', NEW f \in ProvedFields
      PROVE  \E c \in DOMAIN casts' : ballots'[m][f] = Cast(c)'[f]
  <2>1. PICK i \in DOMAIN ballots : ballots'[m][f] = ballots[i][f]
    BY <1>3, <1>4 DEF ProvedFields
  <2>2. PICK c \in DOMAIN casts : ballots[i][f] = Cast(c)[f]
    BY <1>0 DEF FieldsMade
  <2>3. Cast(c)' = Cast(c)
    BY <1>2, CastStays
  <2> QED BY <1>2, <2>1, <2>2, <2>3
<1>7. \A m \in DOMAIN ballots' : DOMAIN ballots'[m] = BallotFields
  BY <1>0, <1>3, <1>4 DEF FieldsMade
<1>8. FieldsMade'
  BY <1>6, <1>7 DEF FieldsMade
<1> QED BY <1>5, <1>8

LEMMA MadeByRedirect ==
  ASSUME EnrolmentInv, MadeInv, [Next]_vars, RedirectStep
  PROVE  CastsMade' /\ FieldsMade'
<1>0. CastsMade /\ FieldsMade
  BY DEF MadeInv
<1>1. PICK k \in DOMAIN ballots, e \in Election : Redirect(k, e)
  BY DEF RedirectStep
<1>2. ballots' = [ballots EXCEPT ![k] = [ballots[k] EXCEPT !.election_ctx = e]]
      /\ casts' = casts
  BY <1>1 DEF Redirect
<1>3. DOMAIN ballots' = DOMAIN ballots
      /\ \A m \in DOMAIN ballots : DOMAIN ballots'[m] = DOMAIN ballots[m]
  BY <1>2
<1>4. CastsMade'
  BY <1>0, <1>2 DEF CastsMade
<1>5. ASSUME NEW m \in DOMAIN ballots', NEW f \in ProvedFields
      PROVE  \E c \in DOMAIN casts' : ballots'[m][f] = Cast(c)'[f]
  <2>1. ballots'[m][f] = ballots[m][f] /\ m \in DOMAIN ballots
    BY <1>0, <1>2, <1>3 DEF FieldsMade, ProvedFields
  <2>2. PICK c \in DOMAIN casts : ballots[m][f] = Cast(c)[f]
    BY <1>0, <2>1 DEF FieldsMade
  <2>3. Cast(c)' = Cast(c)
    BY <1>2, CastStays
  <2> QED BY <1>2, <2>1, <2>2, <2>3
<1>6. FieldsMade'
  BY <1>0, <1>3, <1>5 DEF FieldsMade
<1> QED BY <1>4, <1>6

LEMMA MadeStays ==
  ASSUME EnrolmentInv, MadeInv, [Next]_vars, UNCHANGED <<ballots, casts>>
  PROVE  CastsMade' /\ FieldsMade'
<1>0. CastsMade /\ FieldsMade
  BY DEF MadeInv
<1>1. CastsMade'
  BY <1>0 DEF CastsMade
<1>2. \A c \in DOMAIN casts : Cast(c)' = Cast(c)
  BY CastStays
<1>3. FieldsMade'
  <2>1. ASSUME NEW k \in DOMAIN ballots, NEW f \in ProvedFields
        PROVE  \E c \in DOMAIN casts : ballots[k][f] = Cast(c)'[f]
    BY <1>0, <1>2 DEF FieldsMade
  <2> QED BY <1>0, <2>1 DEF FieldsMade
<1> QED BY <1>1, <1>3

LEMMA VerdictsMadeStep ==
  ASSUME MadeInv, [Next]_vars
  PROVE  VerdictsMade'
<1>0. VerdictsMade
  BY DEF MadeInv
<1>1. CASE UNCHANGED <<ballots, verdict>>
  BY <1>0, <1>1 DEF VerdictsMade
<1>2. CASE verdict' = <<>>
  <2>1. DOMAIN verdict' = {}
    BY <1>2
  <2> QED BY <2>1 DEF VerdictsMade
<1>3. CASE CountStep
  <2>1. PICK e \in Election : Count(e)
    BY <1>3 DEF CountStep
  <2>2. /\ ballots' = ballots
        /\ verdict' = [k \in DOMAIN ballots |->
             [election |-> e,
              verifies |-> BallotVerifies(e, ballots[k]),
              counts   |-> CheckPasses(e, ballots[k], k)]]
    BY <2>1 DEF Count
  <2>3. ASSUME NEW k \in DOMAIN verdict'
        PROVE  /\ verdict'[k].election = e
               /\ verdict'[k].verifies = BallotVerifies(e, ballots[k])
    BY <2>2
  <2> QED BY <2>2, <2>3 DEF VerdictsMade
<1>4. \/ UNCHANGED <<ballots, verdict>> \/ verdict' = <<>> \/ CountStep
  BY Steps DEF GenStep, DeviceStep, VoteStep, DamageStep, RedirectStep, NewVoterBuilder,
               FinalizeVoter, SimulateVoter, VoterToBuilder, GenBuilder, Vote, Damage, Redirect,
               vars
<1> QED BY <1>1, <1>2, <1>3, <1>4

LEMMA MadeAlways == Spec => [](EnrolmentInv /\ MadeInv)
<1>1. Init => EnrolmentInv /\ MadeInv
  BY InitInv, MadeInit
<1>2. EnrolmentInv /\ MadeInv /\ [Next]_vars => (EnrolmentInv /\ MadeInv)'
  <2> SUFFICES ASSUME EnrolmentInv, MadeInv, [Next]_vars
               PROVE  EnrolmentInv' /\ MadeInv'
    OBVIOUS
  <2>1. EnrolmentInv'
    BY IssuedStep, DeviceInvStep, BallotInvStep, VerdictInvStep DEF EnrolmentInv
  <2>2. VoteStep \/ DamageStep \/ RedirectStep \/ UNCHANGED <<ballots, casts>>
    BY Steps DEF GenStep, DeviceStep, CountStep, NewVoterBuilder, FinalizeVoter, SimulateVoter,
                 VoterToBuilder, GenBuilder, Count, vars
  <2>3. CastsMade' /\ FieldsMade'
    BY <2>2, MadeByVote, MadeByDamage, MadeByRedirect, MadeStays
  <2>4. VerdictsMade'
    BY VerdictsMadeStep
  <2> QED BY <2>1, <2>3, <2>4 DEF MadeInv
<1> QED BY <1>1, <1>2, PTL DEF Spec
-----------------------------------------------------------------------------
CastAuth(c) ==
  EncrAuthValues(issued[casts[c].acc].builder, casts[c].pin, casts[c].s, c)

CastWitness(c) == AuthWitness(issued[casts[c].acc].builder, casts[c].pin, casts[c].s)

CastPublic(c) ==
  [pk |-> RegistrationPk(KeyOf(casts[c].election)), params |-> Params[casts[c].election],
   choice |-> <<casts[c].choice, c>>, cai |-> c, auth |-> CastAuth(c)]

CastProof(c) == [public |-> CastPublic(c), wit |-> CastWitness(c), id |-> c]

LEMMA CastFields ==
  ASSUME NEW c
  PROVE  /\ Cast(c).election_ctx = casts[c].election
         /\ Cast(c).choice = <<casts[c].choice, c>> /\ Cast(c).cai = c
         /\ Cast(c).auth = CastAuth(c)
         /\ Cast(c).choice_proof = CastProof(c) /\ Cast(c).cai_proof = CastProof(c)
         /\ Cast(c).auth_proof = CastProof(c)
<1> DEFINE e == casts[c].election
           values == [choice |-> <<casts[c].choice, c>>, cai |-> c, auth |-> CastAuth(c)]
           made == [public |-> Public(e, values), wit |-> CastWitness(c), id |-> c]
<1>1. Cast(c) = [election_ctx |-> e, choice |-> values.choice, cai |-> values.cai,
                 auth |-> values.auth,
                 choice_proof |-> made, cai_proof |-> made, auth_proof |-> made]
  BY Zenon DEF Cast, VerVote, CastAuth, CastWitness
<1>2. values.choice = <<casts[c].choice, c>> /\ values.cai = c /\ values.auth = CastAuth(c)
  OBVIOUS
<1>3. Public(e, values) = CastPublic(c)
  BY <1>2 DEF Public, CastPublic
<1>4. made = CastProof(c)
  BY <1>3 DEF CastProof
<1> HIDE DEF e, values, made
<1> QED BY <1>1, <1>2, <1>4 DEF e

LEMMA CastVerifies ==
  ASSUME EnrolmentInv, MadeInv, NEW c \in DOMAIN casts
  PROVE  LET p == Prove(CastPublic(c), CastWitness(c), c)
         IN ProofVerifies(CastPublic(c), ThreeParts(p, p, p))
<1>1. casts[c].election \in Election /\ casts[c].s \in Scalar /\ casts[c].s # Zero
  BY DrawAssumption DEF MadeInv, CastsMade
<1>2. PICK a \in DOMAIN issued : casts[c].acc = a
  BY DEF EnrolmentInv, BallotInv
<1>3. PICK d \in DOMAIN Draws, f \in Teller :
        issued[a].builder = [sign       |-> RTSignature(RTKey[f], Draws[d].pin.x, Draws[d].r),
                             masked_pin |-> ToMasked(Draws[d].pin)]
  BY IssuedFacts DEF EnrolmentInv
<1>4. /\ Draws[d].pin.x \in Scalar /\ Draws[d].r \in Scalar /\ RTKey[f] \in Scalar
      /\ Plus(Draws[d].r, RTKey[f]) # Zero
  BY DrawFacts, KeyFacts
<1>5. issued[a].builder.sign = RTSignature(RTKey[f], Draws[d].pin.x, Draws[d].r)
  BY <1>3
<1>6. CastPublic(c).params = Params[casts[c].election] /\ CastPublic(c).auth = CastAuth(c)
  BY DEF CastPublic
<1>7. IsList(CastPublic(c).params)
  BY <1>1, <1>6, ParamsAssumption
<1>8. ASSUME NEW leaf PROVE Witnessed(CastPublic(c), leaf, CastWitness(c))
  <2>1. CastPublic(c).auth = EncrAuthValues(issued[a].builder, casts[c].pin, casts[c].s, c)
        /\ CastWitness(c) = AuthWitness(issued[a].builder, casts[c].pin, casts[c].s)
    BY <1>2, <1>6 DEF CastAuth, CastWitness
  <2> QED BY <1>1, <1>4, <1>5, <2>1, DeviceHasWitness
<1> QED BY <1>7, <1>8, HonestVerifies

LEMMA VerifyAsCastFromInv == EnrolmentInv /\ MadeInv => BallotsVerifyAsCast
<1> SUFFICES ASSUME EnrolmentInv, MadeInv, NEW k \in DOMAIN verdict
             PROVE  verdict[k].verifies <=>
                      \E c \in DOMAIN casts :
                        /\ CastsOf(ballots[k]) = {c}
                        /\ ballots[k].election_ctx = verdict[k].election
                        /\ TellerOf[casts[c].election] = TellerOf[verdict[k].election]
                        /\ Params[casts[c].election] = Params[verdict[k].election]
  BY DEF BallotsVerifyAsCast
<1>0. PICK e \in Election : verdict[k].election = e
  BY DEF EnrolmentInv, VerdictInv
<1> DEFINE b == ballots[k]
<1>1. /\ verdict[k].election = e /\ ballots[k] = b /\ k \in DOMAIN ballots
      /\ verdict[k].verifies = BallotVerifies(e, b)
  BY <1>0 DEF EnrolmentInv, VerdictInv, MadeInv, VerdictsMade
<1> HIDE DEF b
<1>2. \A f \in ProvedFields : \E c \in DOMAIN casts : b[f] = Cast(c)[f]
  BY <1>1 DEF MadeInv, FieldsMade
<1>3. PICK c1 \in DOMAIN casts : b.choice = <<casts[c1].choice, c1>>
  BY <1>2, CastFields DEF BallotFields, ProvedFields
<1>4. PICK c2 \in DOMAIN casts : b.cai = c2
  BY <1>2, CastFields DEF BallotFields, ProvedFields
<1>5. PICK c3 \in DOMAIN casts : b.auth = CastAuth(c3)
  BY <1>2, CastFields DEF BallotFields, ProvedFields
<1>6. PICK c4 \in DOMAIN casts : b.choice_proof = CastProof(c4)
  BY <1>2, CastFields DEF BallotFields, ProvedFields
<1>7. PICK c5 \in DOMAIN casts : b.cai_proof = CastProof(c5)
  BY <1>2, CastFields DEF BallotFields, ProvedFields
<1>8. PICK c6 \in DOMAIN casts : b.auth_proof = CastProof(c6)
  BY <1>2, CastFields DEF BallotFields, ProvedFields
<1>9. ASSUME NEW c PROVE CastAuth(c).A_enc.id = c
  BY DEF CastAuth, EncrAuthValues, Encrypt
<1>10. CastsOf(b) = {c1, c2, c3, c4, c5, c6}
  <2>1. b.choice[2] = c1 /\ b.cai = c2 /\ b.auth.A_enc.id = c3
    BY <1>3, <1>4, <1>5, <1>9
  <2>2. b.choice_proof.id = c4 /\ b.cai_proof.id = c5 /\ b.auth_proof.id = c6
    BY <1>6, <1>7, <1>8 DEF CastProof
  <2> QED BY <2>1, <2>2 DEF CastsOf
<1> DEFINE public == Public(e, b)
           P(c) == Prove(CastPublic(c), CastWitness(c), c)
<1>11. BallotVerifies(e, b) <=>
         b.election_ctx = e /\ ProofVerifies(public, ThreeParts(P(c4), P(c5), P(c6)))
  <2>1. /\ ProofPart(b.choice_proof, "choice") = P(c4)["choice"]
        /\ ProofPart(b.cai_proof, "cai") = P(c5)["cai"]
        /\ ProofPart(b.auth_proof, "auth") = P(c6)["auth"]
    BY <1>6, <1>7, <1>8 DEF ProofPart, CastProof
  <2> HIDE DEF P
  <2> QED BY <2>1 DEF BallotVerifies, ThreeParts
<1>12. /\ public.pk = RegistrationPk(KeyOf(e)) /\ public.params = Params[e]
       /\ public.choice = b.choice /\ public.cai = b.cai /\ public.auth = b.auth
       /\ public = [pk |-> RegistrationPk(KeyOf(e)), params |-> Params[e],
                    choice |-> b.choice, cai |-> b.cai, auth |-> b.auth]
  BY DEF Public
<1>13. ASSUME NEW c \in DOMAIN casts
       PROVE  /\ casts[c].election \in Election /\ IsList(CastPublic(c).params)
              /\ CastPublic(c).pk = RegistrationPk(KeyOf(casts[c].election))
              /\ CastPublic(c).params = Params[casts[c].election]
              /\ CastPublic(c).choice = <<casts[c].choice, c>>
              /\ CastPublic(c).cai = c /\ CastPublic(c).auth = CastAuth(c)
  BY ParamsAssumption DEF MadeInv, CastsMade, CastPublic
<1>14. IsList(public.params)
  BY <1>12, ParamsAssumption
<1> HIDE DEF public, P
<1>15. ASSUME b.election_ctx = e, ProofVerifies(public, ThreeParts(P(c4), P(c5), P(c6)))
       PROVE  \E c \in DOMAIN casts :
                /\ CastsOf(b) = {c}
                /\ TellerOf[casts[c].election] = TellerOf[e] /\ Params[casts[c].election] = Params[e]
  <2>1. /\ CastPublic(c4).choice = public.choice
        /\ CastPublic(c5).cai = public.cai /\ CastPublic(c5).choice = public.choice
        /\ CastPublic(c6).auth.A_enc = public.auth.A_enc
        /\ CastPublic(c6).pk = public.pk /\ CastPublic(c6).params = public.params
        /\ c6 = c4
    BY <1>13, <1>14, <1>15, VerifiedIsOne DEF P
  <2>2. c4 = c1 /\ c5 = c2 /\ c5 = c1
    <3>1. /\ <<casts[c4].choice, c4>> = <<casts[c1].choice, c1>>
          /\ <<casts[c5].choice, c5>> = <<casts[c1].choice, c1>> /\ c5 = c2
      BY <1>3, <1>4, <1>12, <1>13, <2>1
    <3>2. /\ <<casts[c4].choice, c4>>[2] = <<casts[c1].choice, c1>>[2]
          /\ <<casts[c5].choice, c5>>[2] = <<casts[c1].choice, c1>>[2]
      BY <3>1
    <3> QED BY <3>1, <3>2
  <2>3. c6 = c3
    BY <1>5, <1>9, <1>12, <1>13, <2>1
  <2>4. TellerOf[casts[c6].election] = TellerOf[e] /\ Params[casts[c6].election] = Params[e]
    <3>1. RegistrationPk(KeyOf(casts[c6].election)) = RegistrationPk(KeyOf(e))
      BY <1>12, <1>13, <2>1
    <3>2. Params[casts[c6].election] = Params[e]
      BY <1>12, <1>13, <2>1
    <3> QED BY <1>13, <3>1, <3>2, KeyFacts, RegistrationPkInjective
  <2>5. /\ CastsOf(b) = {c1}
        /\ TellerOf[casts[c1].election] = TellerOf[e] /\ Params[casts[c1].election] = Params[e]
    BY <1>10, <2>1, <2>2, <2>3, <2>4
  <2> QED BY <2>5
<1>16. ASSUME NEW c \in DOMAIN casts, CastsOf(b) = {c},
              TellerOf[casts[c].election] = TellerOf[e], Params[casts[c].election] = Params[e]
       PROVE  ProofVerifies(public, ThreeParts(P(c4), P(c5), P(c6)))
  <2>1. c1 = c /\ c2 = c /\ c3 = c /\ c4 = c /\ c5 = c /\ c6 = c
    BY <1>10, <1>16
  <2>2. public = CastPublic(c)
    BY <1>3, <1>4, <1>5, <1>12, <1>16, <2>1 DEF CastPublic, KeyOf
  <2>3. ProofVerifies(CastPublic(c), ThreeParts(P(c), P(c), P(c)))
    BY CastVerifies DEF P
  <2> QED BY <2>1, <2>2, <2>3
<1> QED BY <1>1, <1>11, <1>15, <1>16

\* Ballot::verify accepts exactly the ballots that name the context and whose
\* other parts are as they were cast with its key and its parameters:
\* BallotsVerifyAsCast. For any number of contexts under one key, and for
\* every list of parties, because the three loops over the cells of a choice
\* agree and what the transcript starts with is part of every challenge.
THEOREM BallotsAlwaysVerifyAsCast == Spec => []BallotsVerifyAsCast
  BY MadeAlways, VerifyAsCastFromInv, PTL
==============================================================================
