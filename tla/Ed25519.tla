------------------------------ MODULE Ed25519 ------------------------------
(***************************************************************************)
(* The pure-Python Ed25519 of the browser node                             *)
(* (node_agent/_ed25519_pure.py) over a curve small enough to enumerate:   *)
(* the field has P elements with P % 8 = 5, the curve is                   *)
(* -x^2 + y^2 = 1 + D x^2 y^2, and the base point has prime order L and    *)
(* cofactor 8, as there.  SHA-512 is a parameter: the scalars it yields    *)
(* are arguments.  Below the code's operators stands the textbook          *)
(* definition they are compared with.                                      *)
(***************************************************************************)
EXTENDS Integers, Sequences

CONSTANTS P, D, L, BaseY

ASSUME CurveAssumption ==
    /\ P \in Nat /\ P % 8 = 5
    /\ L \in Nat \ {0}
    /\ D \in 1 .. P - 1 /\ BaseY \in 0 .. P - 1

Field == 0 .. P - 1
NotAPoint == <<>>

(* pow(b, e, P) *)
Power[b \in Int, e \in Nat] == IF e = 0 THEN 1 ELSE (b * Power[b, e - 1]) % P
Invert(z) == Power[z, P - 2]

(* The x of a point with this y, of the parity asked for if there is a choice. *)
XRecover(y, sign) ==
    LET xx == ((y * y - 1) * Invert(D * y * y + 1)) % P
        guess == Power[xx, (P + 3) \div 8]
        x == IF (guess * guess - xx) % P = 0 THEN guess
             ELSE (guess * Power[2, (P - 1) \div 4]) % P
    IN  IF x % 2 # sign THEN (P - x) % P ELSE x

(* Extended homogeneous coordinates. *)
Points == Field \X Field \X Field \X Field
Extended(x, y) == <<x, y, 1, (x * y) % P>>
Identity == Extended(0, 1)
Base == Extended(XRecover(BaseY, 0), BaseY)

Edwards(p1, p2) ==
    LET a == ((p1[2] - p1[1]) * (p2[2] - p2[1])) % P
        b == ((p1[2] + p1[1]) * (p2[2] + p2[1])) % P
        c == (p1[4] * 2 * D * p2[4]) % P
        d == (p1[3] * 2 * p2[3]) % P
    IN  <<((b - a) * (d - c)) % P, ((d + c) * (b + a)) % P,
          ((d - c) * (d + c)) % P, ((b - a) * (b + a)) % P>>

(* Double and add, from the low bit of the scalar up: <<result, addend, e>>. *)
DoubleAndAdd[loop \in Points \X Points \X Nat] ==
    IF loop[3] = 0 THEN loop[1]
    ELSE DoubleAndAdd[<<IF loop[3] % 2 = 1 THEN Edwards(loop[1], loop[2]) ELSE loop[1],
                        Edwards(loop[2], loop[2]), loop[3] \div 2>>]

ScalarMult(point, e) == DoubleAndAdd[<<Identity, point, e>>]

(* A point travels as its y and the parity of its x. *)
EncodePoint(pt) ==
    LET z == Invert(pt[3]) IN <<(pt[2] * z) % P, ((pt[1] * z) % P) % 2>>

DecodePoint(enc) ==
    LET y == enc[1]
        x == XRecover(y, enc[2])
    IN  IF y >= P \/ (-x * x + y * y - 1 - D * x * x * y * y) % P # 0
        THEN NotAPoint ELSE Extended(x, y)

(* _expand: the low three bits cleared, the top bit set; six bits here. *)
Clamp(h) == 32 + ((h % 32) - (h % 8))
PublicKey(a) == EncodePoint(ScalarMult(Base, a))

(* Mutated form: s is not reduced. *)
SignUnreduced(a, r, k) == <<EncodePoint(ScalarMult(Base, r % L)), k * a + (r % L)>>

(* r and k stand for the hashes of (prefix, message) and (R, key, message). *)
SignWith(a, r, k) == <<EncodePoint(ScalarMult(Base, r % L)), (k * a + (r % L)) % L>>

Verify(pub, sig, k) ==
    LET r_point == DecodePoint(sig[1])
        a_point == DecodePoint(pub)
    IN  /\ r_point # NotAPoint /\ a_point # NotAPoint
        /\ sig[2] < L
        /\ EncodePoint(ScalarMult(Base, sig[2]))
                = EncodePoint(Edwards(r_point, ScalarMult(a_point, k % L)))

----------------------------------------------------------------------------
(* The textbook: affine points, the complete addition law, multiplication as *)
(* repeated addition.                                                        *)
OnCurve(p) == (-p[1] * p[1] + p[2] * p[2] - 1 - D * p[1] * p[1] * p[2] * p[2]) % P = 0
Curve == {p \in Field \X Field : OnCurve(p)}

Quotient(n, m) == CHOOSE q \in Field : (q * m - n) % P = 0

AffineAdd(p1, p2) ==
    LET t == D * p1[1] * p2[1] * p1[2] * p2[2]
    IN  <<Quotient(p1[1] * p2[2] + p1[2] * p2[1], 1 + t),
          Quotient(p1[2] * p2[2] + p1[1] * p2[1], 1 - t)>>

Neutral == <<0, 1>>

Times(n, p) ==
    LET multiple[m \in Nat] == IF m = 0 THEN Neutral ELSE AffineAdd(multiple[m - 1], p)
    IN  multiple[n]

BasePoint == CHOOSE p \in Curve : p[2] = BaseY /\ p[1] % 2 = 0
Compressed(p) == <<p[2], p[1] % 2>>
PointOf(enc) == CHOOSE p \in Curve : Compressed(p) = enc

(* The extended coordinates of an affine point. *)
CoordinatesOf(p) == {<<(p[1] * z) % P, (p[2] * z) % P, z, (p[1] * p[2] * z) % P>> : z \in 1 .. P - 1}

(* What the mathematics of the curve guarantees; the rest is the algorithm.   *)
(* The addition law is associative and has a neutral element ...              *)
ASSUME GroupAssumption ==
    /\ Neutral \in Curve
    /\ \A p, q \in Curve : AffineAdd(p, q) \in Curve
    /\ \A p \in Curve : AffineAdd(p, Neutral) = p /\ AffineAdd(Neutral, p) = p
    /\ \A p, q, r \in Curve : AffineAdd(AffineAdd(p, q), r) = AffineAdd(p, AffineAdd(q, r))

(* ... the base point has the order L ...                                     *)
ASSUME BaseAssumption ==
    /\ <<XRecover(BaseY, 0), BaseY>> \in Curve /\ XRecover(BaseY, 0) % 2 = 0
    /\ Times(L, BasePoint) = Neutral
    /\ \A n \in 1 .. L - 1 : Times(n, BasePoint) # Neutral

(* ... and the formulas of the code for one addition, one point encoded and   *)
(* one decoded are those of the affine curve, whatever coordinates a point    *)
(* has.                                                                       *)
ASSUME CoordinatesAssumption ==
    \A p \in Curve :
        /\ \A u \in CoordinatesOf(p) : EncodePoint(u) = Compressed(p)
        /\ DecodePoint(Compressed(p)) = Extended(p[1], p[2])
        /\ \A q \in Curve :
            LET sums == CoordinatesOf(AffineAdd(p, q))
            IN  \A u \in CoordinatesOf(p), v \in CoordinatesOf(q) : Edwards(u, v) \in sums
=============================================================================
