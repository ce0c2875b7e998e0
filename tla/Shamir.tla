------------------------------- MODULE Shamir -------------------------------
(***************************************************************************)
(* common/shamir: a secret is split into n shares of which any k restore   *)
(* it, byte by byte over GF(256).  A byte is the set of its bits that are  *)
(* 1, so ^ is the symmetric difference.  A secret is a sequence of bytes.  *)
(* The text form of a share carries its fields unchanged, but its length,  *)
(* which decodeShare takes from y.  A for loop is a function from the      *)
(* number of turns to what it has computed after them.                     *)
(***************************************************************************)
EXTENDS Integers, Sequences, FiniteSets, SequencesExt

Byte  == SUBSET (0..7)
Zero  == {}
One   == {0}
a ^^ b == (a \ b) \cup (b \ a)

MAX_SHARES == 255
PLACES     == <<1, 2, 4, 8, 16, 32, 64, 128>>
bits(n)    == {i \in 0..7 : (n \div PLACES[i + 1]) % 2 = 1}
---------------------------------------------------------------------------
(* EXP and LOG for the generator 3 modulo 0x11b                            *)

Reduced(d) == IF 8 \in d THEN d ^^ {0, 1, 3, 4, 8} ELSE d
times2(x)  == Reduced({i + 1 : i \in x})
times3     == [x \in Byte |-> times2(x) ^^ x]

(* EXP[i] is the power i of the generator; the table of the source repeats *)
(* itself from 255 on, here the exponent is taken modulo 255.  The loop    *)
(* multiplies by 3 at each turn.  So does this, but it looks back over 16  *)
(* turns at once where it can: the recursion is 30 deep, and not 254.      *)
Twice(f)   == [x \in Byte |-> f[f[x]]]
times3To16 == Twice(Twice(Twice(Twice(times3))))

EXP[i \in 0..254] ==
  IF i = 0 THEN One
  ELSE IF i % 16 = 0 THEN times3To16[EXP[i - 16]] ELSE times3[EXP[i - 1]]

LOG == [x \in Byte \ {Zero} |-> CHOOSE i \in 0..254 : EXP[i] = x]

(* What the source makes sure of when it is loaded: the powers are all     *)
(* bytes but 0, each once.  So each table undoes the other.                *)
ASSUME TableAssumption ==
  /\ EXP \in [0..254 -> Byte \ {Zero}] /\ LOG \in [Byte \ {Zero} -> 0..254]
  /\ \A x \in Byte \ {Zero} : EXP[LOG[x]] = x
  /\ \A i \in 0..254 : LOG[EXP[i]] = i

mul(a, b) == IF a = Zero \/ b = Zero THEN Zero ELSE EXP[(LOG[a] + LOG[b]) % 255]
div(a, b) == IF a = Zero THEN Zero ELSE EXP[(LOG[a] + 255 - LOG[b]) % 255]
---------------------------------------------------------------------------
(* split.  The polynomial of a byte has the byte as its constant term and  *)
(* k - 1 random coefficients, here coeffs[1] for x and so on upwards.      *)

(* checksumOf: four bytes of a digest, taken as the secret they stand for  *)
checksumOf(secret) == secret

Splittable(secret, n, k) == secret # <<>> /\ 2 <= k /\ k <= n /\ n <= MAX_SHARES

(* After d turns acc has taken in the last d coefficients.                 *)
HornerTurns(coeffs, x) ==
  LET acc[d \in 0..Len(coeffs)] ==
        IF d = 0 THEN Zero ELSE mul(acc[d - 1], x) ^^ coeffs[Len(coeffs) - d + 1]
  IN  acc

Horner(coeffs, x, byte) == mul(HornerTurns(coeffs, x)[Len(coeffs)], x) ^^ byte

split(secret, n, k, coeffs) ==
  [i \in 1..n |-> [x |-> i, threshold |-> k, checksum |-> checksumOf(secret),
                   y |-> [pos \in DOMAIN secret |->
                            Horner(coeffs[pos], bits(i), secret[pos])]]]
---------------------------------------------------------------------------
(* combine                                                                 *)

Error == <<>>   \* no secret is empty

(* acc and basis: what a loop over 1..n has made of f, which may skip some *)
XorTurns(f, n) ==
  LET acc[m \in 0..n] ==
        IF m = 0 THEN Zero ELSE IF m \in DOMAIN f THEN acc[m - 1] ^^ f[m] ELSE acc[m - 1]
  IN  acc

MulTurns(f, n) ==
  LET basis[m \in 0..n] ==
        IF m = 0 THEN One ELSE IF m \in DOMAIN f THEN mul(basis[m - 1], f[m]) ELSE basis[m - 1]
  IN  basis

(* L_i(0), the product over the other shares of x_j / (x_j - x_i)          *)
BasisAll(xs, i) ==   \* as if minus were not ^
  MulTurns([j \in (DOMAIN xs) \ {i} |-> div(xs[j], xs[j])], Len(xs))[Len(xs)]

Basis(xs, i) ==
  MulTurns([j \in (DOMAIN xs) \ {i} |-> div(xs[j], xs[i] ^^ xs[j])], Len(xs))[Len(xs)]

interpolate(use) ==
  [pos \in DOMAIN use[1].y |->
     LET xs == [i \in DOMAIN use |-> bits(use[i].x)]
     IN  XorTurns([i \in DOMAIN use |-> mul(use[i].y[pos], Basis(xs, i))], Len(use))[Len(use)]]

OfOneSplit(shares) ==
  \A i \in DOMAIN shares :
    /\ shares[i].threshold = shares[1].threshold
    /\ shares[i].checksum = shares[1].checksum
    /\ Len(shares[i].y) = Len(shares[1].y)
    /\ shares[i].x \in 1..MAX_SHARES

DifferentX(shares) == \A i, j \in DOMAIN shares : shares[i].x = shares[j].x => i = j

(* The digest of the result is compared last.                              *)
ChecksumUnchecked(secret, checksum) == TRUE
ChecksumRight(secret, checksum)     == checksumOf(secret) = checksum

combine(shares) ==
  IF \/ shares = <<>>
     \/ ~OfOneSplit(shares)
     \/ ~DifferentX(shares)
     \/ Len(shares) < shares[1].threshold
  THEN Error
  ELSE LET out == interpolate(SubSeq(shares, 1, shares[1].threshold)) IN
       IF ChecksumRight(out, shares[1].checksum) THEN out ELSE Error

(* decodeShare of a line somebody typed                                    *)
Decodes(line) ==
  /\ DOMAIN line = {"x", "threshold", "checksum", "y"}
  /\ line.threshold >= 2 /\ line.x \in 1..MAX_SHARES /\ line.y # <<>>
=============================================================================
