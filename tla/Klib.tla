-------------------------------- MODULE Klib --------------------------------
(***************************************************************************)
(* klib, the C library of the programs that run on abstract-machine: the   *)
(* functions of string.c on a small memory, and the conversions of stdio.c *)
(* and stdlib.c.  A call is legal if the standard gives it a meaning; each *)
(* is made once, on every input, and what it left is compared with what    *)
(* the standard says.                                                      *)
(*                                                                         *)
(* A string in memory ends at the byte 0; a text that is printed is a      *)
(* sequence of characters.                                                 *)
(***************************************************************************)
EXTENDS Int64, Sequences, SequencesExt

CONSTANTS
  N,          \* the memory has the addresses 0 .. N - 1
  Byte,       \* what a byte may be
  Bits,       \* the width of an int
  MinText,    \* the digits that int_to_str has for INT32_MIN
  Ints, Uints, \* the numbers passed for %d and %u
  Formats,    \* the format strings, as sequences of directives
  RawFormats  \* the format strings, as they are

ASSUME NAssumption == N \in Nat \ {0}
ASSUME ByteAssumption == 0 \in Byte /\ Byte \subseteq Nat
ASSUME RawAssumption == RawFormats \subseteq Seq(STRING)
ASSUME BitsAssumption ==
  /\ Bits \in Nat \ {0}
  /\ Ints \subseteq -(2^(Bits - 1)) .. 2^(Bits - 1) - 1
  /\ Uints \subseteq 0 .. 2^Bits - 1

Addr   == 0 .. N - 1
Memory == [Addr -> Byte]
IntMin == -(2^(Bits - 1))

VARIABLES
  call,   \* the function and its arguments
  ret     \* <<what it returned, or the memory it left>>; <<>> before that

vars == <<call, ret>>

-----------------------------------------------------------------------------
(* string.c.  A loop is a function of the number of its rounds.            *)
StrLen(m, s) == CHOOSE i \in 0 .. N - 1 - s :
                  m[s + i] = 0 /\ \A j \in 0 .. i - 1 : m[s + j] # 0

Upward(m, d, s, n) ==
  LET round[i \in 0 .. n] ==
        IF i = 0 THEN m
        ELSE [round[i - 1] EXCEPT ![d + i - 1] = round[i - 1][s + i - 1]]
  IN  round[n]

Downward(m, d, s, n) ==
  LET round[i \in 0 .. n] ==
        IF i = 0 THEN m
        ELSE [round[i - 1] EXCEPT ![d + n - i] = round[i - 1][s + n - i]]
  IN  round[n]

Fill(m, d, c, n) == [a \in Addr |-> IF a \in d .. d + n - 1 THEN c ELSE m[a]]

MemSet(m, d, c, n) == Fill(m, d, c, n)
MemCpy(m, d, s, n) == Upward(m, d, s, n)

(* Mutant: always from the first byte to the last.                         *)
MutMemMove(m, d, s, n) == Upward(m, d, s, n)

MemMove(m, d, s, n) ==
  IF d < s THEN Upward(m, d, s, n) ELSE Downward(m, d, s, n)

StrCpy(m, d, s) == LET len == StrLen(m, s)
                   IN  [Upward(m, d, s, len) EXCEPT ![d + len] = 0]

StrNCpy(m, d, s, n) ==
  LET i == IF \E k \in 0 .. n - 1 : m[s + k] = 0 THEN StrLen(m, s) ELSE n
  IN  Fill(Upward(m, d, s, i), d + i, 0, n - i)

StrCat(m, d, s) == StrCpy(m, d + StrLen(m, d), s)

(* The place below n where a comparing loop stops, n if there is none.     *)
FirstAt(n, Stops(_)) ==
  CHOOSE i \in 0 .. n : (i = n \/ Stops(i)) /\ \A j \in 0 .. i - 1 : ~Stops(j)

MemCmp(m, s1, s2, n) ==
  LET i == FirstAt(n, LAMBDA j : m[s1 + j] # m[s2 + j])
  IN  IF i = n THEN 0 ELSE m[s1 + i] - m[s2 + i]

(* Mutant: the end of s1 is looked for before the bytes are compared.      *)
MutStrNCmp(m, s1, s2, n) ==
  LET i == FirstAt(n, LAMBDA j : m[s1 + j] # m[s2 + j] \/ m[s1 + j] = 0)
  IN  IF i = n \/ m[s1 + i] = 0 THEN 0 ELSE m[s1 + i] - m[s2 + i]

StrNCmp(m, s1, s2, n) ==
  LET i == FirstAt(n, LAMBDA j : m[s1 + j] # m[s2 + j] \/ m[s1 + j] = 0)
  IN  IF i = n THEN 0 ELSE m[s1 + i] - m[s2 + i]

StrCmp(m, s1, s2) == StrNCmp(m, s1, s2, StrLen(m, s1) + 1)

-----------------------------------------------------------------------------
(* stdio.c and stdlib.c.                                                   *)
Numeral == <<"0", "1", "2", "3", "4", "5", "6", "7", "8", "9">>
Char(digit) == Numeral[digit + 1]                       \* digit + '0'
Value(c)    == CHOOSE v \in 0 .. 9 : Char(v) = c        \* c - '0'

(* Mutant: *nptr < '9'.                                                    *)
MutIsDigit(c) == \E v \in 0 .. 8 : Char(v) = c

IsDigit(c) == \E v \in 0 .. 9 : Char(v) = c

SwapStr(str, l, r) ==
  [i \in DOMAIN str |-> IF i \in l .. r THEN str[l + r - i] ELSE str[i]]

(* The digits of num, the last one first; none for 0.                      *)
DigitsUp(num) ==
  LET digits[n \in 0 .. num] ==
        IF n = 0 THEN <<>> ELSE <<Char(n % 10)>> \o digits[n \div 10]
  IN  digits[num]

UintToStr(num) ==
  IF num = 0 THEN <<"0">>
  ELSE LET str == DigitsUp(num) IN SwapStr(str, 1, Len(str))

IntToStr(num) ==
  IF num = IntMin THEN <<"-">> \o MinText
  ELSE LET l   == IF num < 0 THEN 1 ELSE 0
           str == (IF num < 0 THEN <<"-">> ELSE <<>>)
                  \o (IF num = 0 THEN <<"0">> ELSE DigitsUp(IF num < 0 THEN -num ELSE num))
       IN  SwapStr(str, l + 1, Len(str))

(* Mutant: the argument is fetched as 64 bits and printed so.              *)
MutUnsigned(slot) == slot

(* va_arg(ap, uint64_t), passed to uint_to_str as an unsigned int.         *)
Unsigned(slot) == slot % 2^Bits

(* How RV64 passes an unsigned int: sign-extended to a register.           *)
Slot(u) == IF u >= 2^(Bits - 1) THEN u + 2^(2 * Bits) - 2^Bits ELSE u

(* Mutant: the character behind % is put out, but not skipped.             *)
MutBehind(i) == i + 1

(* The place behind a directive: fmt++ is executed twice.                  *)
Behind(i) == i + 2

(* vsprintf from the character i of fmt and the argument k: the text, and  *)
(* whether the loop went past the 0 at the end of fmt.  k <= i, as a       *)
(* conversion has two characters and takes one argument.                   *)
VSPrintf(fmt, args) ==
  LET then(text, rest) == [rest EXCEPT !.text = text \o @]
      from[p \in {p \in (1 .. Len(fmt) + 1) \X (1 .. Len(fmt) + 1) : p[2] <= p[1]}] ==
        LET i == p[1]  k == p[2] IN
        IF i > Len(fmt) THEN [text |-> <<>>, past |-> FALSE]
        ELSE IF fmt[i] # "%" THEN then(<<fmt[i]>>, from[<<i + 1, k>>])
        ELSE IF i = Len(fmt) THEN [text |-> <<>>, past |-> TRUE]
        ELSE CASE fmt[i + 1] = "d" ->
                    then(IntToStr(args[k]), from[<<Behind(i), k + 1>>])
               [] fmt[i + 1] = "u" ->
                    then(UintToStr(Unsigned(args[k])), from[<<Behind(i), k + 1>>])
               [] fmt[i + 1] = "s" -> then(args[k], from[<<Behind(i), k + 1>>])
               [] OTHER -> then(<<fmt[i + 1]>>, from[<<Behind(i), k>>])
  IN  from[<<1, 1>>]

(* Stands for what C gives no meaning to: an int that gets too large.      *)
Overflow == -1

(* atoi of a text: blanks, then digits, into the int x from the character  *)
(* i on.  It knows no sign.                                                *)
Atoi(str) ==
  LET from[p \in (1 .. Len(str) + 1) \X Nat] ==
        LET i == p[1]  x == p[2] IN
        IF i > Len(str) \/ ~IsDigit(str[i]) THEN x
        ELSE LET y == x * 10 + Value(str[i])
             IN  IF y >= 2^(Bits - 1) THEN Overflow ELSE from[<<i + 1, y>>]
      blanks == CHOOSE b \in 0 .. Len(str) :
                  /\ \A j \in 1 .. b : str[j] = " "
                  /\ b < Len(str) => str[b + 1] # " "
  IN  from[<<blanks + 1, 0>>]

-----------------------------------------------------------------------------
(* The calls.  String arguments are terminated, nothing reaches outside of *)
(* the memory, and regions overlap only where the standard allows it.      *)
Ended(m, s)  == \E a \in s .. N - 1 : m[a] = 0
Fits(d, n)   == d + n <= N
Apart(d, n, s, k) == d + n <= s \/ s + k <= d

(* The bytes from s on up to a 0, at most n.                               *)
Text(m, s, n) ==
  LET len == CHOOSE i \in 0 .. n : /\ i = n \/ m[s + i] = 0
                                   /\ \A j \in 0 .. i - 1 : m[s + j] # 0
  IN  [i \in 1 .. len |-> m[s + i - 1]]
StringAt(m, s) == Text(m, s, N - s)

(* The arguments that each function may be called with.                    *)
Allowed(op, m, d, s, n) ==
  CASE op = "memmove" -> Fits(d, n) /\ Fits(s, n)
    [] op = "memcpy"  -> Fits(d, n) /\ Fits(s, n) /\ Apart(d, n, s, n)
    [] op = "memset"  -> Fits(d, n) /\ s \in Byte
    [] op = "strcpy"  -> /\ n = 0 /\ Ended(m, s)
                         /\ LET k == Len(StringAt(m, s)) + 1
                            IN  Fits(d, k) /\ Apart(d, k, s, k)
    [] op = "strncpy" -> /\ Fits(d, n) /\ (Fits(s, n) \/ Ended(m, s))
                         /\ Apart(d, n, s, Len(Text(m, s, n)) + 1)
    [] op = "strcat"  -> /\ n = 0 /\ Ended(m, s) /\ Ended(m, d)
                         /\ LET k == Len(StringAt(m, s)) + 1
                                j == Len(StringAt(m, d))
                            IN  Fits(d, j + k) /\ Apart(d, j + k, s, k)
    [] op = "strcmp"  -> n = 0 /\ Ended(m, s) /\ Ended(m, d)
    [] op = "strncmp" -> (Fits(d, n) /\ Fits(s, n)) \/ (Ended(m, s) /\ Ended(m, d))
    [] op = "memcmp"  -> Fits(d, n) /\ Fits(s, n)

Memory2(op) ==
  \E m \in Memory, d, s \in Addr, n \in 0 .. N :
    /\ call = [op |-> op, m |-> m, d |-> d, s |-> s, n |-> n]
    /\ Allowed(op, m, d, s, n)

(* A format and its arguments from directives: a character, a conversion   *)
(* with its value, or %%.                                                  *)
FmtOf(dirs) ==
  FlattenSeq([i \in DOMAIN dirs |->
    CASE dirs[i].kind = "lit" -> <<dirs[i].v>>
      [] dirs[i].kind = "%%"  -> <<"%", "%">>
      [] OTHER -> <<"%", dirs[i].kind>>])

ArgsOf(dirs) ==
  LET conv == SelectSeq(dirs, LAMBDA d : d.kind \in {"d", "u", "s"})
  IN  [i \in DOMAIN conv |-> IF conv[i].kind = "u" THEN Slot(conv[i].v) ELSE conv[i].v]

Init ==
  /\ ret = <<>>
  /\ \/ \E op \in {"memmove", "memcpy", "memset", "strcpy", "strncpy", "strcat",
                    "strcmp", "strncmp", "memcmp"} : Memory2(op)
     \/ \E dirs \in Formats : call = [op |-> "vsprintf", dirs |-> dirs]
     \/ \E raw \in RawFormats : call = [op |-> "format", raw |-> raw]
     \/ \E u \in Uints, b \in 0 .. 2 :
          /\ u < 2^(Bits - 1)
          /\ call = [op |-> "atoi", u |-> u, b |-> b]
     \/ \E x \in Dword, y \in Dword \ {0} : call = [op |-> "divide", x |-> x, y |-> y]

Blanks(b) == [i \in 1 .. b |-> " "]

Result ==
  CASE call.op = "memmove" -> MemMove(call.m, call.d, call.s, call.n)
    [] call.op = "memcpy"  -> MemCpy(call.m, call.d, call.s, call.n)
    [] call.op = "memset"  -> MemSet(call.m, call.d, call.s, call.n)
    [] call.op = "strcpy"  -> StrCpy(call.m, call.d, call.s)
    [] call.op = "strncpy" -> StrNCpy(call.m, call.d, call.s, call.n)
    [] call.op = "strcat"  -> StrCat(call.m, call.d, call.s)
    [] call.op = "strcmp"  -> StrCmp(call.m, call.d, call.s)
    [] call.op = "strncmp" -> StrNCmp(call.m, call.d, call.s, call.n)
    [] call.op = "memcmp"  -> MemCmp(call.m, call.d, call.s, call.n)
    [] call.op = "vsprintf" -> VSPrintf(FmtOf(call.dirs), ArgsOf(call.dirs))
    [] call.op = "format"  -> VSPrintf(call.raw, <<>>)
    [] call.op = "atoi"    -> Atoi(Blanks(call.b) \o UintToStr(call.u) \o <<"x">>)
    [] call.op = "divide" ->
         [unsigned |-> UDivMod(call.x, call.y), div |-> DivDi3(call.x, call.y),
          mod |-> ModDi3(call.x, call.y), rem |-> DivModDi4Rem(call.x, call.y)]

Return ==
  /\ ret = <<>>
  /\ ret' = <<Result>>
  /\ UNCHANGED call

Next == Return

Spec == Init /\ [][Next]_vars

-----------------------------------------------------------------------------
Done(op) == ret # <<>> /\ call.op = op

(* The memory after the call: what is written at d, and nothing else.      *)
Wrote(bytes) ==
  ret[1] = [a \in Addr |-> IF a - call.d + 1 \in DOMAIN bytes
                            THEN bytes[a - call.d + 1] ELSE call.m[a]]

Bytes(m, s, n) == [i \in 1 .. n |-> m[s + i - 1]]

(* The functions that write memory leave what the standard says, and       *)
(* nothing around it: memmove for every overlap, strncpy padded to n.      *)
WritesCorrect ==
  LET m == call.m  d == call.d  s == call.s  n == call.n
  IN  /\ Done("memmove") \/ Done("memcpy") => Wrote(Bytes(m, s, n))
      /\ Done("memset") => Wrote([i \in 1 .. n |-> s])
      /\ Done("strcpy") => Wrote(StringAt(m, s) \o <<0>>)
      /\ Done("strcat") => Wrote(StringAt(m, d) \o StringAt(m, s) \o <<0>>)
      /\ Done("strncpy") =>
           LET text == Text(m, s, n)
           IN  Wrote(text \o [i \in 1 .. n - Len(text) |-> 0])

(* One sequence comes before the other in the order of a dictionary.       *)
Before(p, q) ==
  \/ IsStrictPrefix(p, q)
  \/ \E i \in DOMAIN p \cap DOMAIN q :
       p[i] < q[i] /\ \A j \in 1 .. i - 1 : p[j] = q[j]

Orders(p, q) == /\ ret[1] < 0 <=> Before(p, q)
                /\ ret[1] > 0 <=> Before(q, p)

(* strcmp, strncmp and memcmp order strings as a dictionary does, bytes    *)
(* being unsigned as char is on RISC-V.                                    *)
ComparesCorrect ==
  LET m == call.m  d == call.d  s == call.s  n == call.n
  IN  /\ Done("strcmp") => Orders(StringAt(m, d), StringAt(m, s))
      /\ Done("memcmp") => Orders(Bytes(m, d, n), Bytes(m, s, n))
      /\ Done("strncmp") => Orders(Text(m, d, n), Text(m, s, n))

(* The decimal notation of a number, digit by digit.                       *)
Digits(v) ==
  LET k == CHOOSE k \in 1 .. 2 * Bits : v < 10^k /\ (k = 1 \/ v >= 10^(k - 1))
  IN  [i \in 1 .. k |-> Char((v \div 10^(k - i)) % 10)]

Shown(dir) ==
  CASE dir.kind = "d"  -> IF dir.v < 0 THEN <<"-">> \o Digits(-dir.v) ELSE Digits(dir.v)
    [] dir.kind = "u"  -> Digits(dir.v)
    [] dir.kind = "s"  -> dir.v
    [] dir.kind = "%%" -> <<"%">>
    [] OTHER -> <<dir.v>>

(* printf shows what its directives say, each with its own argument, for   *)
(* the conversions it knows: the least int too, and an unsigned int whose  *)
(* register is sign-extended.                                              *)
PrintfCorrect ==
  Done("vsprintf") =>
    ret[1].text = FlattenSeq([i \in DOMAIN call.dirs |-> Shown(call.dirs[i])])

(* vsprintf reads past the end of a format exactly if that ends in a % of  *)
(* its own: it skips the 0 as if it were the letter of a conversion.       *)
ReadsPast ==
  Done("format") =>
    LET raw == call.raw
        tail == {i \in DOMAIN raw : \A j \in i .. Len(raw) : raw[j] = "%"}
    IN  ret[1].past <=> Cardinality(tail) % 2 = 1

(* atoi reads back what printf shows of every int that is not negative,    *)
(* behind blanks and up to the first other character, and no step on the   *)
(* way there overflows.  A larger unsigned int is not asked of it.         *)
AtoiReadsBack == Done("atoi") => ret[1] = call.u

(* __udivmoddi4 (and __udivdi3, __umoddi3) give the quotient and the       *)
(* remainder of every two numbers, in each of the cases the code tells     *)
(* apart.                                                                  *)
UnsignedCorrect ==
  Done("divide") => LET u == ret[1].unsigned
                    IN  u.q * call.y + u.r = call.x /\ u.r \in 0 .. call.y - 1

(* __divdi3, __moddi3 and __divmoddi4 round to zero, the remainder has the *)
(* sign of the dividend, and the least number divided by -1 is itself.     *)
SignedCorrect ==
  Done("divide") =>
    LET x == Signed(call.x)  y == Signed(call.y)
        q == Signed(ret[1].div)  r == Signed(ret[1].mod)
    IN  /\ ret[1].mod = ret[1].rem
        /\ IF x = -(2^(2 * W - 1)) /\ y = -1 THEN q = x /\ r = 0
           ELSE /\ q * y + r = x
                /\ Signed(Abs(ret[1].mod)) < (IF y < 0 THEN -y ELSE y)
                /\ r # 0 => (r < 0 <=> x < 0)
=============================================================================
