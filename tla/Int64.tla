------------------------------- MODULE Int64 -------------------------------
(***************************************************************************)
(* The division of klib/src/int64.c, which gcc calls for 64-bit integers   *)
(* on a 32-bit target: __udivmoddi4 and the functions around it, with      *)
(* words of W bits in the place of 32 and double words of 2 W bits.        *)
(***************************************************************************)
EXTENDS Integers

CONSTANT W     \* n_uword_bits: a power of two, four at least

ASSUME WAssumption == \E k \in 2 .. 5 : W = 2^k

Word  == 0 .. 2^W - 1
Dword == 0 .. 2^(2 * W) - 1

-----------------------------------------------------------------------------
Shl(x, k) == (x * 2^k) % 2^W
Shr(x, k) == x \div 2^k
IsPowerOf2(x) == \E k \in 0 .. W - 1 : x = 2^k

High(x) == x \div 2^W
Low(x)  == x % 2^W
All(high, low) == high * 2^W + low

(* __clzsi2 and __ctzsi2 halve the word until two bits are left.           *)
Clz(x) ==
  LET half[h \in 1 .. W, y \in Word, r \in 0 .. W] ==
        IF h = 1 THEN r + (IF y < 2 THEN 2 - y ELSE 0)
        ELSE LET t == IF y < 2^h THEN h ELSE 0
             IN  half[h \div 2, Shr(y, h - t), r + t]
  IN  half[W \div 2, x, 0]

Ctz(x) ==
  LET half[h \in 1 .. W, y \in Word, r \in 0 .. W] ==
        IF h = 1 THEN r + (IF y % 2 = 0 THEN 2 - (y % 4) \div 2 ELSE 0)
        ELSE LET t == IF y % 2^h = 0 THEN h ELSE 0
             IN  half[h \div 2, Shr(y, t), r + t]
  IN  half[W \div 2, x, 0]

-----------------------------------------------------------------------------
(* One bit of the quotient: r:q moves to the left, and d is taken from r   *)
(* if it fits, which the sign of d - r - 1 says without a branch.          *)
NotLess(r, d) == (d - r - 1) % 2^(2 * W) >= 2^(2 * W - 1)

(* Mutant: the quotient's new bit is not carried into the next round.      *)
MutRound(s, d) ==
  LET r == (2 * s.r + High(s.q) \div 2^(W - 1)) % 2^(2 * W)
      c == IF NotLess(r, d) THEN 1 ELSE 0
  IN  [r |-> r - c * d, q |-> (2 * s.q) % 2^(2 * W), carry |-> c]

Round(s, d) ==
  LET r == (2 * s.r + High(s.q) \div 2^(W - 1)) % 2^(2 * W)
      c == IF NotLess(r, d) THEN 1 ELSE 0
  IN  [r |-> r - c * d, q |-> (2 * s.q + s.carry) % 2^(2 * W), carry |-> c]

(* The loop, sr times, from r = n >> sr and q = n << (2 W - sr).           *)
Loop(q, r, d, sr) ==
  LET s[i \in 0 .. 2 * W] == IF i = 0 THEN [q |-> q, r |-> r, carry |-> 0]
                             ELSE Round(s[i - 1], d)
  IN  [q |-> (2 * s[sr].q + s[sr].carry) % 2^(2 * W), r |-> s[sr].r]

(* How r and q are set up where sr is below W, W, or above.                *)
Start(n, d, sr) ==
  LET hi == High(n)  lo == Low(n) IN
  IF sr < W
    THEN Loop(All(Shl(lo, W - sr), 0),
              All(Shr(hi, sr), Shl(hi, W - sr) + Shr(lo, sr)), d, sr)
  ELSE IF sr = W THEN Loop(All(lo, 0), hi, d, sr)
  ELSE Loop(All(Shl(hi, 2 * W - sr) + Shr(lo, sr - W), Shl(lo, 2 * W - sr)),
            Shr(hi, sr - W), d, sr)

UDivMod(n, d) ==
  LET nh == High(n)  nl == Low(n)  dh == High(d)  dl == Low(d)
      shift == Clz(dh) - Clz(nh)        \* unsigned: large if negative
      large == [q |-> 0, r |-> n]
  IN  IF nh = 0
        THEN IF dh = 0 THEN [q |-> nl \div dl, r |-> nl % dl] ELSE large
      ELSE IF dl = 0
        THEN IF nl = 0 THEN [q |-> nh \div dh, r |-> All(nh % dh, 0)]
             ELSE IF IsPowerOf2(dh) THEN [q |-> Shr(nh, Ctz(dh)), r |-> All(nh % dh, nl)]
             ELSE IF shift \notin 0 .. W - 2 THEN large
             ELSE Start(n, d, shift + 1)
      ELSE IF dh = 0
        THEN IF IsPowerOf2(dl)
               THEN [r |-> nl % dl,
                     q |-> IF dl = 1 THEN n
                           ELSE All(Shr(nh, Ctz(dl)),
                                    Shl(nh, W - Ctz(dl)) + Shr(nl, Ctz(dl)))]
             ELSE Start(n, d, 1 + W + Clz(dl) - Clz(nh))
      ELSE IF shift \notin 0 .. W - 1 THEN large
      ELSE Start(n, d, shift + 1)

-----------------------------------------------------------------------------
(* Signed integers, as double words.                                       *)
IsNeg(x)  == x >= 2^(2 * W - 1)
Neg(x)    == (-x) % 2^(2 * W)
Abs(x)    == IF IsNeg(x) THEN Neg(x) ELSE x
Signed(x) == IF IsNeg(x) THEN x - 2^(2 * W) ELSE x

DivDi3(x, y) == LET q == UDivMod(Abs(x), Abs(y)).q
                IN  IF IsNeg(x) # IsNeg(y) THEN Neg(q) ELSE q

(* Mutant: the remainder gets the sign of the quotient.                    *)
MutModDi3(x, y) == LET r == UDivMod(Abs(x), Abs(y)).r
                   IN  IF IsNeg(x) # IsNeg(y) THEN Neg(r) ELSE r

ModDi3(x, y) == LET r == UDivMod(Abs(x), Abs(y)).r
                IN  IF IsNeg(x) THEN Neg(r) ELSE r

DivModDi4Rem(x, y) == (x - DivDi3(x, y) * y) % 2^(2 * W)
=============================================================================
