------------------------------- MODULE Formats ------------------------------
(***************************************************************************)
(* Values and their texts, in three parts: the conversions of numbers, the *)
(* printf family and the scanf family.  The module has no state:           *)
(* MCFormatted has the program that calls it.                              *)
(***************************************************************************)
EXTENDS Integers, Sequences, FiniteSets, SequencesExt

-----------------------------------------------------------------------------
(***************************************************************************)
(* Numbers and their text: strtol.c, strtod.c and the decimal expansion of *)
(* vfprintf.c (struct dec).  Integers and floating-point formats have      *)
(* small widths, named by the constants; strtod's big integers are         *)
(* naturals, printf's limbs are kept, in a small base.  A text is a        *)
(* sequence of one-letter strings.                                         *)
(***************************************************************************)

CONSTANTS
    MaxBits,             \* the width of uintmax_t, unsigned long long and unsigned long
    MAX_DIGITS,          \* decimal digits kept exactly
    HexBits,             \* bits of a hexadecimal significand kept exactly (124)
    ExpMax,              \* bounds on a hexadecimal exponent (100000) ...
    ExpDigits,           \* ... and on an exponent as it is read (100000000)
    FLT, DBL, LDBL,      \* the formats: records [p, emin, emax, dmax, dmin]
    FastDigits, FastExp, \* one IEEE operation is exact up to here (15, 22)
    MidDigits, MidExp,   \* and one of the wider format up to here (19, 27)
    TopN, TopD,          \* leading bits of the quotient's estimate (128, 64)
    LimbDigits,          \* decimal digits of a limb (9)
    TwoChunk, FiveChunk  \* powers of two and five multiplied in at once (29, 13)

At(s, i) == IF i <= Len(s) THEN s[i] ELSE ""
FirstOf(S) == CHOOSE e \in S : \A d \in S : e <= d
Span(s, i, P(_)) == IF i > Len(s) THEN i
                    ELSE FirstOf({k \in i..(Len(s) + 1) : k > Len(s) \/ ~P(s[k])})
Numerals == <<"0", "1", "2", "3", "4", "5", "6", "7", "8", "9", "a", "b", "c", "d", "e", "f", "g", "h", "i",
              "j", "k", "l", "m", "n", "o", "p", "q", "r", "s", "t", "u", "v", "w", "x", "y", "z">>
digit_val(c) == IF c \in Range(Numerals) THEN FirstOf({k \in DOMAIN Numerals : Numerals[k] = c}) - 1 ELSE 99
IsDigit(c) == digit_val(c) < 10
IsHex(c) == digit_val(c) < 16
isspace(c) == c \in {" ", "NL"}

-----------------------------------------------------------------------------
(* strtol.c *)

\* [v, end, err]: end is the place past the number, 1 when there is none
strtox(s, base0, signed, max) ==
    LET b == Span(s, 1, isspace)
        neg == At(s, b) = "-"
        d == IF At(s, b) \in {"+", "-"} THEN b + 1 ELSE b
        hex == base0 \in {0, 16} /\ At(s, d) = "0" /\ At(s, d + 1) = "x" /\ IsHex(At(s, d + 2))
        base == IF hex THEN 16 ELSE IF base0 # 0 THEN base0 ELSE IF At(s, d) = "0" THEN 8 ELSE 10
        start == IF hex THEN d + 2 ELSE d
        e == Span(s, start, LAMBDA c : digit_val(c) < base)
        \* the accumulator wraps and remembers that it did
        step(a, c) == LET n == a.acc * base + digit_val(c)
                      IN [acc |-> n % 2^MaxBits, ovf |-> a.ovf \/ n >= 2^MaxBits]
        a == FoldLeft(step, [acc |-> 0, ovf |-> FALSE], SubSeq(s, start, e - 1))
        lim == IF signed /\ neg THEN max + 1 ELSE max
    IN IF base0 = 1 \/ base0 > 36 THEN [v |-> 0, end |-> 1, err |-> "EINVAL"]
       ELSE IF e = start THEN [v |-> 0, end |-> 1, err |-> ""]
       ELSE IF a.ovf \/ a.acc > lim
       THEN [v |-> IF signed /\ neg THEN -max - 1 ELSE max, end |-> e, err |-> "ERANGE"]
       ELSE [v |-> IF ~neg THEN a.acc ELSE IF signed THEN -a.acc ELSE (-a.acc) % 2^MaxBits,
             end |-> e, err |-> ""]

SignedMax(bits) == 2^(bits - 1) - 1
strtoimax(s, base) == strtox(s, base, TRUE, SignedMax(MaxBits))
strtoumax(s, base) == strtox(s, base, FALSE, 2^MaxBits - 1)
atoi(s, intbits) == LET v == strtoimax(s, 10).v
                    IN IF v > SignedMax(intbits) THEN SignedMax(intbits)
                       ELSE IF v < -SignedMax(intbits) - 1 THEN -SignedMax(intbits) - 1 ELSE v
strtonum(s, lo, hi) ==
    LET r == strtoimax(s, 10)
        bad(e) == [v |-> 0, err |-> e]
    IN IF lo > hi \/ r.end <= Len(s) \/ r.end = 1 THEN bad("invalid")
       ELSE IF (r.v < 0 /\ r.err = "ERANGE") \/ r.v < lo THEN bad("too small")
       ELSE IF (r.v > 0 /\ r.err = "ERANGE") \/ r.v > hi THEN bad("too large")
       ELSE [v |-> r.v, err |-> ""]

-----------------------------------------------------------------------------
(* strtod.c: a floating-point value is [kind, m, e, neg], m * 2^e when finite *)

RECURSIVE BitLen(_)
BitLen(n) == IF n = 0 THEN 0 ELSE 1 + BitLen(n \div 2)
Shift(n, k) == IF k >= 0 THEN n * 2^k ELSE n \div 2^(-k)
Finite(m, e, neg, err) == [kind |-> "finite", m |-> m, e |-> IF m = 0 THEN 0 ELSE e, neg |-> neg, err |-> err]
Inf(neg, err) == [kind |-> "inf", m |-> 0, e |-> 0, neg |-> neg, err |-> err]
NaN(neg) == [kind |-> "nan", m |-> 0, e |-> 0, neg |-> neg, err |-> ""]

\* Q * 2^E, and a sticky amount below Q's last bit, rounded to format F
round_to(Q, E, sticky, F, neg) ==
    LET drop0 == BitLen(Q) - F.p
        drop == IF E + drop0 < F.emin THEN F.emin - E ELSE drop0
        k == Q \div 2^drop
        rem == Q % 2^drop
        half == 2^(drop - 1)
        up == rem > half \/ (rem = half /\ (sticky \/ k % 2 = 1))
        k1 == IF up THEN k + 1 ELSE k
        carry == k1 >= 2^F.p
        keep == IF drop <= 0 THEN Shift(Q, -drop) ELSE IF carry THEN k1 \div 2 ELSE k1
        ex == E + drop + (IF drop > 0 /\ carry THEN 1 ELSE 0)
        inexact == sticky \/ (drop > 0 /\ rem > 0)
    IN IF Q = 0 THEN Finite(0, 0, neg, "")
       ELSE IF keep > 0 /\ ex > F.emax THEN Inf(neg, "ERANGE")
       ELSE Finite(keep, ex, neg, IF inexact /\ keep < 2^(F.p - 1) THEN "ERANGE" ELSE "")

\* An IEEE operation: num / den rounded to the nearest value of F (external: the FPU).
IEEE(num, den, F, neg) ==
    LET k == BitLen(num) - BitLen(den)      \* num / den lies between 2^(k-1) and 2^(k+1)
        small == Shift(num, IF k < 0 THEN -k ELSE 0) < Shift(den, IF k > 0 THEN k ELSE 0)
        e0 == IF small THEN k - F.p ELSE k - F.p + 1
        e == IF e0 < F.emin THEN F.emin ELSE e0
        n == Shift(num, IF e < 0 THEN -e ELSE 0)
        d == den * 2^(IF e < 0 THEN 0 ELSE e)
        q == n \div d
        up == 2 * (n % d) > d \/ (2 * (n % d) = d /\ q % 2 = 1)
        m == IF up THEN q + 1 ELSE q
        top == m = 2^F.p
        ex == IF top THEN e + 1 ELSE e
        keep == IF top THEN m \div 2 ELSE m
    IN IF keep > 0 /\ ex > F.emax THEN Inf(neg, "ERANGE")
       ELSE Finite(keep, ex, neg, IF n % d > 0 /\ keep < 2^(F.p - 1) THEN "ERANGE" ELSE "")

\* The leading want bits of b, and the shift that was dropped.
big_top(b, want) == [v |-> Shift(b, want - BitLen(b)), shift |-> BitLen(b) - want]

\* The quotient by estimate and correction: an estimate above it would never come down.
QuotientTop(num, den) ==
    LET N == big_top(num, TopN)
        D == big_top(den, TopD)
        q == Shift(N.v \div D.v, N.shift - D.shift)
        rest == num - q * den
    IN IF rest < 0 THEN [q |-> q, rest |-> 1]
       ELSE [q |-> q + rest \div den, rest |-> rest % den]
Quotient(num, den) ==
    LET N == big_top(num, TopN)
        D == big_top(den, TopD)
        q == Shift(N.v \div (D.v + 1), N.shift - D.shift)
        rest == num - q * den
    IN IF rest < 0 THEN [q |-> q, rest |-> 1]
       ELSE [q |-> q + rest \div den, rest |-> rest % den]

Value(digits) == FoldLeft(LAMBDA n, c : n * 10 + digit_val(c), 0, digits)
Num(digits, q) == Value(digits) * 10^(IF q > 0 THEN q ELSE 0)
Den(q) == 10^(IF q < 0 THEN -q ELSE 0)
decimal(digits, q, sticky, F, neg) ==
    LET nd == Len(digits)
        num == Num(digits, q)
        den == Den(q)
        wide == IEEE(num, den, LDBL, neg)
        drop == LDBL.p - F.p
        X == wide.e + BitLen(wide.m) - 1
        e == BitLen(num) - BitLen(den) - F.p - 2
        x == Quotient(Shift(num, IF e < 0 THEN -e ELSE 0), Shift(den, IF e < 0 THEN 0 ELSE e))
        exact == round_to(x.q, e, sticky \/ x.rest > 0, F, neg)
    IN CASE nd = 0 -> Finite(0, 0, neg, "")
         [] nd > 0 /\ q + nd > F.dmax -> Inf(neg, "ERANGE")
         [] nd > 0 /\ q + nd < F.dmin -> Finite(0, 0, neg, "ERANGE")
         [] OTHER -> IF F = DBL /\ ~sticky /\ nd <= FastDigits /\ q \in -FastExp..FastExp
                     THEN [IEEE(num, den, F, neg) EXCEPT !.err = ""]
                     ELSE IF F # LDBL /\ ~sticky /\ nd <= MidDigits /\ q \in -MidExp..MidExp
                             /\ Shift(wide.m, LDBL.p - BitLen(wide.m)) % 2^drop # 2^(drop - 1)
                             /\ X \in (F.emin + F.p - 1)..(F.emax + F.p - 1)
                     THEN [round_to(wide.m, wide.e, FALSE, F, neg) EXCEPT !.err = ""]
                     ELSE exact

\* strtod's parser.  An exponent is read up to ExpDigits, its letter being mark.
Exponent(s, i, mark) ==
    LET d == IF At(s, i + 1) \in {"+", "-"} THEN i + 2 ELSE i + 1
        e == Span(s, d, IsDigit)
        x == FoldLeft(LAMBDA n, c : IF n < ExpDigits THEN n * 10 + digit_val(c) ELSE n, 0, SubSeq(s, d, e - 1))
    IN IF At(s, i) = mark /\ e > d THEN [v |-> IF At(s, i + 1) = "-" THEN -x ELSE x, end |-> e]
       ELSE [v |-> 0, end |-> i]

\* the digits of a significand from i to its end, with at most one dot
Significand(s, i, P(_)) ==
    LET d == Span(s, i, P)
    IN IF At(s, d) # "." THEN [end |-> d, int |-> SubSeq(s, i, d - 1), frac |-> <<>>]
       ELSE LET e == Span(s, d + 1, P)
            IN [end |-> e, int |-> SubSeq(s, i, d - 1), frac |-> SubSeq(s, d + 1, e - 1)]

Hexadecimal(s, i, F, neg) ==
    LET g == Significand(s, i, IsHex)
        step(a, x) == LET v == digit_val(x[1]) IN
            CASE a.Q = 0 /\ v = 0 -> [a EXCEPT !.e = IF x[2] THEN @ - 4 ELSE @]
              [] a.bits < HexBits /\ (a.Q > 0 \/ v > 0) ->
                   [a EXCEPT !.Q = @ * 16 + v, !.bits = @ + 4, !.e = IF x[2] THEN @ - 4 ELSE @]
              [] OTHER -> [a EXCEPT !.sticky = @ \/ v > 0, !.e = IF x[2] THEN @ ELSE @ + 4]
        a == FoldLeft(step, [Q |-> 0, bits |-> 0, sticky |-> FALSE, e |-> 0],
                      [k \in DOMAIN g.int |-> <<g.int[k], FALSE>>] \o [k \in DOMAIN g.frac |-> <<g.frac[k], TRUE>>])
        x == Exponent(s, g.end, "p")
        e == a.e + x.v
        r == IF e > ExpMax THEN IF a.Q = 0 THEN Finite(0, 0, neg, "") ELSE Inf(neg, "ERANGE")
             ELSE IF e < -ExpMax THEN Finite(0, 0, neg, IF a.Q = 0 THEN "" ELSE "ERANGE")
             ELSE round_to(a.Q, e, a.sticky, F, neg)
    IN [f |-> r, end |-> x.end]

Decimal(s, i, F, neg) ==
    LET g == Significand(s, i, IsDigit)
        step(a, x) == CASE x[1] = "0" /\ a.digits = <<>> -> [a EXCEPT !.q = IF x[2] THEN @ - 1 ELSE @]
                        [] Len(a.digits) < MAX_DIGITS /\ (a.digits # <<>> \/ x[1] # "0") ->
                             [a EXCEPT !.digits = Append(@, x[1]), !.q = IF x[2] THEN @ - 1 ELSE @]
                        [] OTHER -> [a EXCEPT !.sticky = @ \/ x[1] # "0", !.q = IF x[2] THEN @ ELSE @ + 1]
        a == FoldLeft(step, [digits |-> <<>>, sticky |-> FALSE, q |-> 0],
                      [k \in DOMAIN g.int |-> <<g.int[k], FALSE>>] \o [k \in DOMAIN g.frac |-> <<g.frac[k], TRUE>>])
        x == Exponent(s, g.end, "e")
        nz == {k \in DOMAIN a.digits : a.digits[k] # "0"}
        last == IF nz = {} THEN 0 ELSE CHOOSE k \in nz : \A j \in nz : j <= k
    IN IF g.int = <<>> /\ g.frac = <<>> THEN [f |-> Finite(0, 0, FALSE, ""), end |-> 1]
       ELSE [f |-> decimal(SubSeq(a.digits, 1, last), a.q + x.v + Len(a.digits) - last, a.sticky, F, neg),
             end |-> x.end]

Word(s, i, w) == IF i + Len(w) - 1 <= Len(s) /\ SubSeq(s, i, i + Len(w) - 1) = w THEN Len(w) ELSE 0
parse(s, F) ==
    LET b == Span(s, 1, isspace)
        neg == At(s, b) = "-"
        i == IF At(s, b) \in {"+", "-"} THEN b + 1 ELSE b
        inf == Word(s, i, <<"i", "n", "f">>)
        nan == Word(s, i, <<"n", "a", "n">>)
        p == Span(s, i + 4, LAMBDA c : digit_val(c) < 36)
    IN IF inf > 0 THEN [f |-> Inf(neg, ""), end |-> i + 3 + Word(s, i + 3, <<"i", "n", "i", "t", "y">>)]
       ELSE IF nan > 0
       THEN [f |-> NaN(neg), end |-> IF At(s, i + 3) = "(" /\ At(s, p) = ")" THEN p + 1 ELSE i + 3]
       ELSE IF At(s, i) = "0" /\ At(s, i + 1) = "x"
               /\ (IsHex(At(s, i + 2)) \/ (At(s, i + 2) = "." /\ IsHex(At(s, i + 3))))
       THEN Hexadecimal(s, i + 2, F, neg)
       ELSE Decimal(s, i, F, neg)

-----------------------------------------------------------------------------
(* vfprintf.c: the exact decimal digits of m * 2^e, and their rounding *)

LIMB == 10^LimbDigits
RECURSIVE big_mul(_, _, _)
big_mul(L, m, carry) ==   \* the limbs L, least significant first, times m plus carry
    IF L = <<>> THEN IF carry = 0 THEN <<>> ELSE <<carry % LIMB>> \o big_mul(<<>>, m, carry \div LIMB)
    ELSE LET t == Head(L) * m + carry IN <<t % LIMB>> \o big_mul(Tail(L), m, t \div LIMB)
RECURSIVE Times(_, _, _, _)
Times(L, b, k, chunk) ==  \* times b^k, chunk factors at a time
    IF k >= chunk THEN Times(big_mul(L, b^chunk, 0), b, k - chunk, chunk)
    ELSE IF k = 0 THEN L ELSE big_mul(L, b^k, 0)
RECURSIVE Ctz(_)
Ctz(m) == IF m % 2 = 1 THEN 0 ELSE 1 + Ctz(m \div 2)

dec_init(m0, e0) ==
    LET tz == Ctz(m0)
        m == m0 \div 2^tz
        e == e0 + tz
        L == IF e >= 0 THEN Times(big_mul(<<>>, 1, m), 2, e, TwoChunk) ELSE Times(big_mul(<<>>, 1, m), 5, -e, FiveChunk)
        top == FirstOf({t \in 1..LimbDigits : t = LimbDigits \/ L[Len(L)] < 10^t})
        nd == top + LimbDigits * (Len(L) - 1)
        E == nd + (IF e < 0 THEN e ELSE 0)
    IN IF m0 = 0 THEN [L |-> <<0>>, nd |-> 1, E0 |-> 1, E |-> 1, K |-> 1, r |-> -1, carry |-> FALSE]
       ELSE [L |-> L, nd |-> nd, E0 |-> E, E |-> E, K |-> nd, r |-> -1, carry |-> FALSE]

dig(d, i) ==
    LET j == d.nd - 1 - i
    IN IF i < 0 \/ i >= d.nd THEN 0 ELSE (d.L[(j \div LimbDigits) + 1] \div 10^(j % LimbDigits)) % 10

\* keep K significant digits, to nearest, ties to even
dec_roundUp(d, K) ==
    LET low == {i \in 0..(K - 1) : dig(d, i) # 9}
        base == [d EXCEPT !.K = K, !.r = -1, !.carry = FALSE, !.E = d.E0]
    IN IF K >= d.nd \/ K < 0 \/ dig(d, K) < 5 THEN base
       ELSE IF low = {} THEN [base EXCEPT !.carry = TRUE, !.E = @ + 1]
       ELSE [base EXCEPT !.r = CHOOSE i \in low : \A j \in low : j <= i]
dec_round(d, K) ==
    LET h == dig(d, K)
        sticky == \E k \in (K + 1)..(d.nd - 1) : dig(d, k) # 0
        up == h > 5 \/ (h = 5 /\ (sticky \/ (K > 0 /\ dig(d, K - 1) % 2 = 1)))
        low == {i \in 0..(K - 1) : dig(d, i) # 9}
        base == [d EXCEPT !.K = K, !.r = -1, !.carry = FALSE, !.E = d.E0]
    IN IF K >= d.nd \/ K < 0 \/ ~up THEN base
       ELSE IF low = {} THEN [base EXCEPT !.carry = TRUE, !.E = @ + 1]
       ELSE [base EXCEPT !.r = CHOOSE i \in low : \A j \in low : j <= i]

rdig(d, i) ==
    IF d.carry THEN IF i = 0 THEN 1 ELSE 0
    ELSE IF i < 0 \/ i >= d.K THEN 0
    ELSE IF d.r >= 0 /\ i >= d.r THEN IF i = d.r THEN dig(d, i) + 1 ELSE 0
    ELSE dig(d, i)

-----------------------------------------------------------------------------
(***************************************************************************)
(* Formatted output: vfprintf.c, vfwprintf.c and printf.c.  An argument    *)
(* list is a sequence of records [i, f, s]: the caller passes what the     *)
(* conversion asks for, an integer, a floating-point value or a string.    *)
(***************************************************************************)

CONSTANTS
    IntBits, ShortBits, CharBits, \* the widths of int, short and char
    NL_ARGMAX,                    \* the largest position of %n$ (9)
    ErrorText                     \* strerror(errno), for %m

INT_MAX == SignedMax(IntBits)
NULL == <<"NULL">>

\* An argument as it is fetched at a type: an integer is kept as a uintmax_t.
Signed(i, bits) == LET u == i % 2^bits IN IF u > SignedMax(bits) THEN u - 2^bits ELSE u
Width(type) == CASE type \in {"int", "uint"} -> IntBits
                 [] type \in {"short", "ushort"} -> ShortBits
                 [] type \in {"char", "uchar"} -> CharBits
                 [] OTHER -> MaxBits
pop_arg(a, type) ==
    IF type \in {"int", "short", "char", "long", "imax", "pdiff"}
    THEN [a EXCEPT !.i = Signed(@, Width(type)) % 2^MaxBits]
    ELSE [a EXCEPT !.i = @ % 2^Width(type)]

-----------------------------------------------------------------------------
(* Fields *)

Fill(c, n) == [k \in 1..n |-> c]
Larger(a, b) == IF a > b THEN a ELSE b
\* emit_field and the layout that fmt_hex and fmt_fp repeat
emit_field(fl, w, pre, body) ==
    LET fill == Larger(w - Len(pre \o body), 0)
    IN IF "left" \in fl THEN pre \o body \o Fill(" ", fill)
       ELSE IF "zero" \in fl THEN pre \o Fill("0", fill) \o body
       ELSE Fill(" ", fill) \o pre \o body

RECURSIVE fmt_u(_, _)
fmt_u(x, base) == (IF x < base THEN <<>> ELSE fmt_u(x \div base, base)) \o <<Numerals[(x % base) + 1]>>
Digits(x, p, base) == IF p = 0 /\ x = 0 THEN <<>> ELSE fmt_u(x, base)

Sign(neg, fl) == IF neg THEN <<"-">> ELSE IF "plus" \in fl THEN <<"+">> ELSE IF "space" \in fl THEN <<" ">> ELSE <<>>

\* the label integer: the field of the digits d
integer(c, fl, w, p, pre, d) ==
    emit_field(IF p >= 0 /\ c # "o" THEN fl \ {"zero"} ELSE fl, w, pre, Fill("0", Larger(p - Len(d), 0)) \o d)

Integer(c, fl, w, p, u) ==
    LET v == Signed(u, MaxBits)
        oct == Digits(u, p, 8)
        alt == "alt" \in fl /\ (oct = <<>> \/ Head(oct) # "0") /\ p < Len(oct) + 1
    IN CASE c = "d" -> integer(c, fl, w, p, Sign(v < 0, fl), Digits(IF v < 0 THEN (-v) % 2^MaxBits ELSE v, p, 10))
         [] c = "u" -> integer(c, fl, w, p, <<>>, Digits(u, p, 10))
         [] c = "o" -> integer(c, IF p >= 0 THEN fl \ {"zero"} ELSE fl, w, IF alt THEN Len(oct) + 1 ELSE p, <<>>, oct)
         [] c = "x" -> integer(c, fl, w, p, IF "alt" \in fl /\ u # 0 THEN <<"0", "x">> ELSE <<>>, Digits(u, p, 16))

exp_str(x, letter, min) ==
    LET d == fmt_u(IF x < 0 THEN -x ELSE x, 10)
    IN <<letter, IF x < 0 THEN "-" ELSE "+">> \o Fill("0", Larger(min - Len(d), 0)) \o d

\* %a: one digit, the fraction's bits four at a time, rounded half to even at p digits
fmt_hex(v, w, p, fl, pre) ==
    LET B == LDBL.p
        N == B \div 4
        m == Shift(v.m, B - BitLen(v.m))
        X == IF v.m = 0 THEN 0 ELSE v.e + BitLen(v.m) - 1
        frac == (m * 2) % 2^B
        lead == IF v.m = 0 THEN 0 ELSE 1
        drop == B - 4 * p
        keep == frac \div 2^drop
        rem == frac % 2^drop
        half == 2^(drop - 1)
        up == rem > half \/ (rem = half /\ (IF p > 0 THEN keep ELSE lead) % 2 = 1)
        carry == up /\ (p = 0 \/ keep + 1 >= 2^(4 * p))
        rounds == p >= 0 /\ p < N
        lead1 == IF rounds /\ carry THEN lead + 1 ELSE lead
        frac1 == IF ~rounds THEN frac ELSE IF carry THEN 0 ELSE (IF up THEN keep + 1 ELSE keep) * 2^drop
        digit(i) == (frac1 \div 2^(B - 4 * i)) % 16
        used == {i \in 1..N : digit(i) # 0}
        p1 == IF p >= 0 THEN p ELSE IF used = {} THEN 0 ELSE CHOOSE i \in used : \A j \in used : j <= i
        body == <<Numerals[(IF lead1 = 2 THEN 1 ELSE lead1) + 1]>> \o (IF p1 > 0 \/ "alt" \in fl THEN <<".">> ELSE <<>>)
                \o [i \in 1..p1 |-> IF i <= N THEN Numerals[digit(i) + 1] ELSE "0"]
                \o exp_str(IF v.m = 0 THEN 0 ELSE IF lead1 = 2 THEN X + 1 ELSE X, "p", 1)
    IN emit_field(fl, w, pre \o <<"0", "x">>, body)

Numeral(n) == Numerals[n + 1]
Point(nfrac, fl) == IF nfrac > 0 \/ "alt" \in fl THEN <<".">> ELSE <<>>
\* trailing zeros of the fraction go when %g strips them; digit(i) is its i-th digit
Strip(strip, p, digit(_)) ==
    LET nz == {i \in 1..p : digit(i) # 0}
    IN IF ~strip THEN p ELSE IF nz = {} THEN 0 ELSE CHOOSE i \in nz : \A j \in nz : j <= i

fmt_e(d0, zero, w, p, fl, pre, strip) ==
    LET d == dec_round(d0, p + 1)
        nfrac == Strip(strip, p, LAMBDA i : rdig(d, i))
    IN emit_field(fl, w, pre, <<Numeral(rdig(d, 0))>> \o Point(nfrac, fl) \o [i \in 1..nfrac |-> Numeral(rdig(d, i))]
                              \o exp_str(IF zero THEN 0 ELSE d.E - 1, "e", 2))
fmt_f(d0, zero, w, p, fl, pre, strip) ==
    LET d == IF zero \/ d0.E0 + p < 0 THEN dec_round(d0, -1) ELSE dec_round(d0, d0.E0 + p)
        nfrac == Strip(strip, p, LAMBDA i : rdig(d, d.E + i - 1))
    IN emit_field(fl, w, pre, (IF d.E > 0 THEN [i \in 1..d.E |-> Numeral(rdig(d, i - 1))] ELSE <<"0">>)
                              \o Point(nfrac, fl) \o [i \in 1..nfrac |-> Numeral(rdig(d, d.E + i - 1))])
fmt_fp(v, w, p0, fl, t) ==
    LET pre == Sign(v.neg, fl)
        p == IF p0 < 0 THEN 6 ELSE p0
        d == dec_init(v.m, v.e)
        P == IF p = 0 THEN 1 ELSE p
        X == IF v.m = 0 THEN 0 ELSE dec_round(d, P).E - 1
        strip == "alt" \notin fl
    IN CASE v.kind # "finite" -> emit_field(fl \ {"zero"}, w, pre, IF v.kind = "nan" THEN <<"n", "a", "n">> ELSE <<"i", "n", "f">>)
         [] v.kind = "finite" /\ t = "a" -> fmt_hex(v, w, p0, fl, pre)
         [] v.kind = "finite" /\ t = "e" -> fmt_e(d, v.m = 0, w, p, fl, pre, FALSE)
         [] v.kind = "finite" /\ t = "f" -> fmt_f(d, v.m = 0, w, p, fl, pre, FALSE)
         [] v.kind = "finite" /\ t = "g" -> IF P > X /\ X >= -4 THEN fmt_f(d, v.m = 0, w, P - 1 - X, fl, pre, strip)
                                            ELSE fmt_e(d, v.m = 0, w, P - 1, fl, pre, strip)

\* A wide character's bytes; "W" needs two, "BAD" has no encoding.
utf8(c) == CASE c = "W" -> <<"w1", "w2">> [] c = "BAD" -> <<>> [] OTHER -> <<c>>
\* The whole wide characters of ws that fit in p bytes; [ok, t].
RECURSIVE Measure(_, _)
Measure(ws, p) ==
    IF ws = <<>> THEN [ok |-> TRUE, t |-> <<>>]
    ELSE LET k == utf8(Head(ws)) IN
         IF k = <<>> THEN [ok |-> FALSE, t |-> <<>>]
         ELSE IF p >= 0 /\ Len(k) > p THEN [ok |-> TRUE, t |-> <<>>]
         ELSE LET r == Measure(Tail(ws), IF p < 0 THEN p ELSE p - Len(k)) IN [r EXCEPT !.t = k \o @]
\* A multibyte string's wide characters, at most max of them (max < 0: all); [ok, t].
RECURSIVE mbs_count(_, _)
mbs_count(s, max) ==
    IF s = <<>> \/ max = 0 THEN [ok |-> TRUE, t |-> <<>>]
    ELSE LET two == Head(s) = "w1" /\ Len(s) > 1 /\ s[2] = "w2"
             r == mbs_count(SubSeq(s, IF two THEN 3 ELSE 2, Len(s)), max - 1)
         IN IF ~two /\ Head(s) \in {"w1", "w2"} THEN [ok |-> FALSE, t |-> <<>>]
            ELSE [r EXCEPT !.t = <<IF two THEN "W" ELSE Head(s)>> \o @]
Cut(t, p) == IF p >= 0 /\ p < Len(t) THEN SubSeq(t, 1, p) ELSE t

-----------------------------------------------------------------------------
(* The format interpreter: a call K = [s, wide, bytes, scan, args, nl, accept] *)
(* and its progress st.  accept is what the stream takes before a write fails, *)
(* bytes says that a wide character is encoded on the way.                 *)

getint(s, i) ==
    LET e == Span(s, i, IsDigit)
        step(n, c) == IF n > (INT_MAX - digit_val(c)) \div 10 THEN -1 ELSE IF n >= 0 THEN 10 * n + digit_val(c) ELSE n
    IN [n |-> FoldLeft(step, 0, SubSeq(s, i, e - 1)), end |-> e]
wgetint(s, i) ==
    LET e == Span(s, i, IsDigit)
        step(n, c) == IF n > (INT_MAX - 9) \div 10 THEN -1 ELSE IF n >= 0 THEN 10 * n + digit_val(c) ELSE n
    IN [n |-> FoldLeft(step, 0, SubSeq(s, i, e - 1)), end |-> e]
ReadInt(K, i) == IF K.wide THEN wgetint(K.s, i) ELSE getint(K.s, i)

Stop(st, r) == [st EXCEPT !.res = r]
NextArg(K, st) == K.args[((st.ap - 1) % Len(K.args)) + 1]
\* the text t goes out, up to the stream's failure
OutBytes(K, st, t) ==
    IF K.scan \/ st.err THEN st
    ELSE IF Len(st.out) + Len(t) <= K.accept THEN [st EXCEPT !.out = @ \o t]
    ELSE [st EXCEPT !.out = SubSeq(@ \o t, 1, K.accept), !.err = TRUE]
\* wide characters go out one by one, and a stream of bytes refuses the ones that have no encoding
putn(K, st, t) ==
    LET bad == K.bytes /\ "BAD" \in Range(t)
        e == Span(t, 1, LAMBDA c : c # "BAD")
    IN IF K.scan \/ st.err \/ ~bad THEN OutBytes(K, st, t) ELSE [OutBytes(K, st, SubSeq(t, 1, e - 1)) EXCEPT !.err = TRUE]
Out(K, st, t) == IF K.wide THEN putn(K, st, t) ELSE OutBytes(K, st, t)
FitsAlone(st, n) == n <= INT_MAX
Fits(st, n) == n <= INT_MAX - st.cnt
\* FITS, the output and ADD
Emit(K, st, t) == IF ~Fits(st, Len(t)) THEN Stop(st, "EOVERFLOW") ELSE [Out(K, st, t) EXCEPT !.cnt = @ + Len(t)]

Position(K, st) ==
    LET r == ReadInt(K, st.i)
    IN IF ~IsDigit(At(K.s, st.i)) \/ At(K.s, r.end) # "$" THEN [st EXCEPT !.pos = -1]
       ELSE IF r.n <= 0 \/ r.n > NL_ARGMAX THEN Stop(st, "EINVAL")
       ELSE [st EXCEPT !.pos = r.n, !.i = r.end + 1]

FlagOf(c) == CASE c = "-" -> "left" [] c = "+" -> "plus" [] c = " " -> "space" [] c = "#" -> "alt"
               [] c = "0" -> "zero" [] c = "'" -> "none"
Flags(K, st) ==
    LET e == Span(K.s, st.i, LAMBDA c : c \in {"-", "+", " ", "#", "0", "'"})
    IN [st EXCEPT !.fl = {FlagOf(K.s[k]) : k \in st.i..(e - 1)}, !.i = e]

\* a width or a precision taken from an argument, "*" or "*n$": it ends up in st.v
Star(K, st) ==
    LET r == ReadInt(K, st.i)
        arg == NextArg(K, st)
    IN IF IsDigit(At(K.s, st.i))
       THEN IF At(K.s, r.end) # "$" \/ r.n <= 0 \/ r.n > NL_ARGMAX \/ st.mix < 0 THEN Stop(st, "EINVAL")
            ELSE IF K.scan THEN [st EXCEPT !.mix = 1, !.i = r.end + 1, !.types[r.n] = "int", !.v = 0]
            ELSE IF r.n \notin DOMAIN K.nl THEN Stop(st, "undefined")
            ELSE [st EXCEPT !.mix = 1, !.i = r.end + 1, !.v = Signed(K.nl[r.n].i, IntBits)]
       ELSE IF st.mix > 0 THEN Stop(st, "EINVAL")
       ELSE IF K.scan THEN Stop(st, "seq")
       ELSE [st EXCEPT !.mix = -1, !.v = Signed(arg.i, IntBits), !.ap = @ + 1]

FieldWidth(K, st) ==
    LET r == ReadInt(K, st.i)
        x == Star(K, [st EXCEPT !.i = @ + 1])
    IN IF st.res # "go" THEN st
       ELSE IF At(K.s, st.i) # "*" THEN IF r.n < 0 THEN Stop(st, "EOVERFLOW") ELSE [st EXCEPT !.w = r.n, !.i = r.end]
       ELSE IF x.res # "go" THEN x
       ELSE IF x.v = -INT_MAX - 1 THEN Stop(x, "EOVERFLOW")
       ELSE IF x.v < 0 THEN [x EXCEPT !.w = -x.v, !.fl = @ \cup {"left"}]
       ELSE [x EXCEPT !.w = x.v]

Precision(K, st) ==
    LET r == ReadInt(K, st.i + 1)
        x == Star(K, [st EXCEPT !.i = @ + 2, !.v = -1])
    IN IF st.res # "go" THEN st
       ELSE IF At(K.s, st.i) # "." THEN [st EXCEPT !.p = -1]
       ELSE IF At(K.s, st.i + 1) # "*" THEN IF r.n < 0 THEN Stop(st, "EOVERFLOW") ELSE [st EXCEPT !.p = r.n, !.i = r.end]
       ELSE IF x.res # "go" THEN x
       ELSE [x EXCEPT !.p = IF x.v < 0 THEN -1 ELSE x.v]

Type(c, lm) ==
    CASE c = "d" /\ lm # "L" -> CASE lm = "hh" -> "char" [] lm = "h" -> "short" [] lm = "" -> "int"
                                  [] lm = "z" -> "size" [] lm = "t" -> "pdiff" [] lm = "j" -> "imax" [] OTHER -> "long"
      [] c \in {"o", "u", "x"} /\ lm # "L" -> CASE lm = "hh" -> "uchar" [] lm = "h" -> "ushort" [] lm = "" -> "uint"
                                  [] lm = "z" -> "size" [] lm = "t" -> "pdiff" [] lm = "j" -> "umax" [] OTHER -> "ulong"
      [] c \in {"f", "e", "g", "a"} /\ lm \in {"", "l", "L"} -> IF lm = "L" THEN "ldbl" ELSE "dbl"
      [] c = "c" /\ lm \in {"", "l"} -> IF lm = "l" THEN "uint" ELSE "int"
      [] (c \in {"s", "S", "p"} /\ lm = "") \/ (c = "s" /\ lm = "l") -> "ptr"
      [] c = "C" /\ lm = "" -> "uint"
      [] c \in {"m", "%"} /\ lm = "" -> "-"
      [] OTHER -> "none"
Conversion(K, st) ==
    LET a == At(K.s, st.i)
        dbl == a \in {"h", "l"} /\ At(K.s, st.i + 1) = a
        lm == CASE dbl -> IF a = "h" THEN "hh" ELSE "ll" [] a = "q" -> "ll"
                [] ~dbl /\ a \in {"h", "l", "j", "z", "t", "L"} -> a [] OTHER -> ""
        e == st.i + (IF dbl THEN 2 ELSE IF lm # "" THEN 1 ELSE 0)
        c == IF At(K.s, e) = "i" THEN "d" ELSE At(K.s, e)
    IN IF st.res # "go" THEN st
       ELSE IF c = "n" THEN Stop(st, "fatal")
       ELSE IF Type(c, lm) = "none" THEN Stop(st, "EINVAL")
       ELSE [st EXCEPT !.lm = lm, !.c = c, !.type = Type(c, lm), !.i = e + 1]

Fetch(K, st) ==
    IF st.res # "go" THEN st
    ELSE IF st.type = "-" THEN IF st.pos > 0 THEN Stop(st, "EINVAL") ELSE st
    ELSE IF st.pos > 0
    THEN IF st.mix < 0 \/ (K.scan /\ st.types[st.pos] \notin {"", st.type}) THEN Stop(st, "EINVAL")
         ELSE IF K.scan THEN [st EXCEPT !.mix = 1, !.types[st.pos] = st.type]
         ELSE IF st.pos \notin DOMAIN K.nl THEN Stop(st, "undefined")
         ELSE [st EXCEPT !.mix = 1, !.arg = K.nl[st.pos]]
    ELSE IF st.mix > 0 THEN Stop(st, "EINVAL")
    ELSE IF K.scan THEN Stop(st, "seq")
    ELSE [st EXCEPT !.mix = -1, !.arg = pop_arg(NextArg(K, st), st.type), !.ap = @ + 1]

NullText == <<"(", "n", "u", "l", "l", ")">>
CharText(u) == IF u % 2^CharBits <= SignedMax(CharBits) THEN <<"c">> ELSE <<"C8">>
\* The conversion's field, [ok, t]; ok is false for a character that has no encoding.
Field(st) ==
    LET text(t) == [ok |-> TRUE, t |-> emit_field(st.fl \ {"zero"}, st.w, <<>>, t)]
        s == IF st.arg.s # NULL THEN st.arg.s ELSE IF st.p >= 0 /\ st.p < 6 THEN <<>> ELSE NullText
        ws == Measure(IF st.arg.s = NULL THEN NullText ELSE st.arg.s, st.p)
        lc == st.arg.i % 2^IntBits
    IN CASE st.c \in {"d", "u", "o", "x"} -> [ok |-> TRUE, t |-> Integer(st.c, st.fl, st.w, st.p, st.arg.i)]
         [] st.c = "p" -> IF st.arg.i = 0 THEN text(<<"(", "n", "i", "l", ")">>)
                          ELSE [ok |-> TRUE, t |-> integer("p", st.fl, st.w, st.p, <<"0", "x">>, fmt_u(st.arg.i, 16))]
         [] st.c = "c" /\ st.lm = "" -> text(CharText(st.arg.i))
         [] st.c = "C" \/ (st.c = "c" /\ st.lm = "l") ->
              IF lc > 2^IntBits - 4 THEN [ok |-> FALSE, t |-> <<>>] ELSE text(utf8(IF lc > INT_MAX THEN "W" ELSE "c"))
         [] st.c = "m" -> text(Cut(ErrorText, st.p))
         [] st.c = "s" /\ st.lm = "" -> text(Cut(s, st.p))
         [] st.c = "S" \/ (st.c = "s" /\ st.lm = "l") -> IF ws.ok THEN text(ws.t) ELSE ws
         [] OTHER -> [ok |-> TRUE, t |-> fmt_fp(st.arg.f, st.w, st.p, st.fl, st.c)]

\* numbers come from the byte engine, through a stream that widens what it writes
narrow_conv(st) == Field(st)
\* the same field in wide characters
WideField(st) ==
    LET text(t) == [ok |-> TRUE, t |-> emit_field(st.fl \ {"zero"}, st.w, <<>>, t)]
        s == IF st.arg.s # NULL THEN st.arg.s ELSE IF st.p >= 0 /\ st.p < 6 THEN <<>> ELSE NullText
        ms == mbs_count(IF st.c = "m" THEN ErrorText ELSE s, st.p)
        lc == st.arg.i % 2^IntBits
    IN CASE st.c = "c" /\ st.lm = "" -> IF CharText(st.arg.i) = <<"C8">> THEN [ok |-> FALSE, t |-> <<>>] ELSE text(<<"c">>)
         [] st.c = "C" \/ (st.c = "c" /\ st.lm = "l") -> text(<<IF lc > 2^IntBits - 4 THEN "BAD" ELSE IF lc > INT_MAX THEN "W" ELSE "c">>)
         [] st.c = "m" \/ (st.c = "s" /\ st.lm = "") -> IF ms.ok THEN text(ms.t) ELSE ms
         [] st.c = "S" \/ (st.c = "s" /\ st.lm = "l") -> text(Cut(s, st.p))
         [] OTHER -> narrow_conv(st)

\* One turn of the loop: the literal text, then a conversion.
Convert(K, st) ==
    LET f == IF K.wide THEN WideField(st) ELSE Field(st)
        number == st.c \notin {"c", "C", "s", "S", "m"}
    IN IF st.res # "go" \/ K.scan THEN st
       ELSE IF st.c = "%" THEN IF K.wide THEN Emit(K, st, <<"%">>)
                               ELSE LET o == Out(K, st, <<"%">>)
                                    IN IF Fits(st, 1) THEN [o EXCEPT !.cnt = @ + 1] ELSE Stop(o, "EOVERFLOW")
       ELSE IF ~f.ok THEN Stop(st, "EILSEQ")
       ELSE IF K.wide /\ number /\ Len(f.t) <= INT_MAX /\ ~Fits(st, Len(f.t)) THEN Stop(Out(K, st, f.t), "EOVERFLOW")
       ELSE Emit(K, st, f.t)
Turn(K, st) ==
    LET e == Span(K.s, st.i, LAMBDA c : c # "%")
        pct == At(K.s, e) = "%" /\ At(K.s, e + 1) = "%"
        lit == Emit(K, st, SubSeq(K.s, st.i, IF pct THEN e ELSE e - 1))
        go == [lit EXCEPT !.i = e + (IF pct THEN 2 ELSE 1)]
    IN IF lit.res # "go" THEN lit
       ELSE IF pct THEN go
       ELSE IF e > Len(K.s) THEN Stop(lit, "end")
       ELSE LET h == Position(K, go)
            IN IF h.res # "go" THEN h
               ELSE Convert(K, Fetch(K, Conversion(K, Precision(K, FieldWidth(K, Flags(K, h))))))
RECURSIVE Turns(_, _)
Turns(K, st) == IF st.res # "go" THEN st ELSE Turns(K, Turn(K, st))

Fresh(K) == [i |-> 1, cnt |-> 0, mix |-> 0, types |-> [k \in 1..NL_ARGMAX |-> ""], ap |-> 1, out |-> <<>>, err |-> FALSE,
             res |-> "go", pos |-> -1, fl |-> {}, w |-> 0, p |-> -1, v |-> 0, lm |-> "", c |-> "", type |-> "",
             arg |-> K.args[1]]

\* The scanning pass ends by fetching the positional arguments in order.
Scanned(K, st) ==
    LET gap == {k \in 1..NL_ARGMAX : st.types[k] = ""}
        n == IF gap = {} THEN NL_ARGMAX ELSE FirstOf(gap) - 1
    IN IF st.res = "seq" \/ (st.res = "end" /\ st.mix <= 0) THEN [res |-> "ok", nl |-> <<>>]
       ELSE IF st.res # "end" THEN [res |-> st.res, nl |-> <<>>]
       ELSE IF \E k \in (n + 1)..NL_ARGMAX : st.types[k] # "" THEN [res |-> "EINVAL", nl |-> <<>>]
       ELSE [res |-> "ok", nl |-> [k \in 1..n |-> pop_arg(NextArg(K, [st EXCEPT !.ap = k]), st.types[k])]]
printf_core(K) == Turns(K, Fresh(K))
\* The same loop over wide characters: getint, the fields and what is counted before it is written differ.
wprintf_core(K) == Turns([K EXCEPT !.wide = TRUE], Fresh(K))

\* Both passes: [ret, out, err]; ret is -1 after an error.
Passes(K) ==
    LET scan == [K EXCEPT !.scan = TRUE]
        core(k) == IF K.wide THEN wprintf_core(k) ELSE printf_core(k)
        one == Scanned(scan, core(scan))
        two == core([K EXCEPT !.nl = one.nl])
    IN IF one.res # "ok" THEN [ret |-> -1, out |-> <<>>, err |-> one.res]
       ELSE IF two.res # "end" THEN [ret |-> -1, out |-> two.out, err |-> two.res]
       ELSE [ret |-> IF two.err THEN -1 ELSE two.cnt, out |-> two.out, err |-> IF two.err THEN "EIO" ELSE ""]
Call(s, wide, bytes, args, accept) ==
    Passes([s |-> s, wide |-> wide, bytes |-> bytes, scan |-> FALSE, args |-> args, nl |-> <<>>, accept |-> accept])

Everything == 10 * INT_MAX
vfprintf(s, args, accept) == Call(s, FALSE, FALSE, args, accept)
\* sn_write keeps what fits in n - 1 characters and counts the rest; the terminator always follows
vsnprintf(n, s, args) ==
    LET r == Call(s, FALSE, FALSE, args, Everything)
    IN [ret |-> r.ret, buf |-> Cut(r.out, Larger(n - 1, 0)), err |-> r.err]
vasprintf(s, args, memory) ==
    LET l == vsnprintf(0, s, args).ret
        r == vsnprintf(l + 1, s, args)
    IN IF l < 0 \/ ~memory \/ r.ret # l THEN [ret |-> -1, buf |-> NULL] ELSE [ret |-> l, buf |-> r.buf]
__vsprintf_chk(slen, s, args) ==
    LET r == vsnprintf(slen, s, args)
    IN IF slen = 0 \/ r.ret >= slen THEN [r EXCEPT !.err = "fatal"] ELSE r
vfwprintf(s, args, accept) == Call(s, TRUE, TRUE, args, accept)
vswprintf(n, s, args) ==
    LET r == Call(s, TRUE, FALSE, args, Everything)
    IN IF n = 0 THEN [ret |-> -1, buf |-> <<>>, err |-> "EOVERFLOW"]
       ELSE IF r.ret >= n THEN [ret |-> -1, buf |-> Cut(r.out, n - 1), err |-> "EOVERFLOW"]
       ELSE [ret |-> r.ret, buf |-> Cut(r.out, n - 1), err |-> r.err]

-----------------------------------------------------------------------------
(***************************************************************************)
(* Formatted input: vfscanf.c and vfwscanf.c.  Reading is a place in the   *)
(* input: a character that is read and given back is one the place has not *)
(* passed.  Destinations are the positions of the arguments.               *)
(***************************************************************************)

CONSTANTS Chunk,     \* elements of the first block of an allocated field (32)
          Small      \* bytes of a numeric field that need no allocation (128)

Ascii == <<"NL", " ", "%", "(", ")", "*", "+", "-", ".">> \o SubSeq(Numerals, 1, 10) \o <<"[", "]", "^", "_">>
         \o SubSeq(Numerals, 11, 36) \o <<"w1", "w2", "W">>
Ord(c) == FirstOf({k \in DOMAIN Ascii : Ascii[k] = c})
Unlimited == 1000
Smaller(a, b) == IF a < b THEN a ELSE b

\* A buffer doubles until n elements and one more fit; room is the largest block that malloc gives.
RECURSIVE Grown(_, _)
Grown(cap, n) == IF n < cap THEN cap ELSE Grown(2 * cap, n)
\* Mutant: a short number is allocated too.
cb_putAlways(room, n) == Grown(Small, n) <= room
cb_put(room, n) == n < Small \/ Grown(Small, n) <= room

\* From place i, at most w characters; [end, base], base -1 when they are no number.
scan_intPast(s, i, w, base0) ==
    LET i1 == IF At(s, i) \in {"+", "-"} /\ w > 0 THEN i + 1 ELSE i
        z == base0 \in {0, 16} /\ At(s, i1) = "0"
        i2 == IF z THEN i1 + 1 ELSE i1
        x == z /\ At(s, i2) = "x"
        i3 == IF x THEN i2 + 1 ELSE i2
        base == IF x THEN 16 ELSE IF base0 # 0 THEN base0 ELSE IF z THEN 8 ELSE 10
        e == Smaller(Span(s, i3, LAMBDA c : digit_val(c) < base), i3 + w)
    IN [end |-> e, base |-> IF x \/ z \/ e > i3 THEN base ELSE -1]
scan_int(s, i, w, base0) ==
    LET i1 == IF At(s, i) \in {"+", "-"} /\ w > 0 THEN i + 1 ELSE i
        z == base0 \in {0, 16} /\ At(s, i1) = "0" /\ i1 < i + w
        i2 == IF z THEN i1 + 1 ELSE i1
        x == z /\ At(s, i2) = "x" /\ i2 < i + w
        i3 == IF x THEN i2 + 1 ELSE i2
        base == IF x THEN 16 ELSE IF base0 # 0 THEN base0 ELSE IF z THEN 8 ELSE 10
        e == Smaller(Span(s, i3, LAMBDA c : digit_val(c) < base), i + w)
    IN [end |-> e, base |-> IF x \/ z \/ e > i3 THEN base ELSE -1]

\* How many letters of word follow place i, w characters at most.
match_word(s, i, w, word) ==
    FirstOf({k \in 0..Len(word) : k = Len(word) \/ k >= w \/ At(s, i + k) # word[k + 1]})

\* [end, ok]
scan_float(s, i, w) ==
    LET lim == i + w                       \* the first place past the field
        i1 == IF At(s, i) \in {"+", "-"} /\ w > 0 THEN i + 1 ELSE i
        c == IF i1 < lim THEN At(s, i1) ELSE ""
        word(k, t) == match_word(s, k, Larger(lim - k, 0), t)
        inf == word(i1 + 1, <<"n", "f">>)
        inity == word(i1 + 4, <<"n", "i", "t", "y">>)
        nan == word(i1 + 1, <<"a", "n">>)
        p == Smaller(Span(s, i1 + 4, LAMBDA d : digit_val(d) < 36 \/ d = "_"), lim)
        z == c = "0"
        x == z /\ i1 + 1 < lim /\ At(s, i1 + 1) = "x"
        d0 == IF x THEN i1 + 2 ELSE IF z THEN i1 + 1 ELSE i1
        g == Significand(s, d0, LAMBDA d : IF x THEN IsHex(d) ELSE IsDigit(d))
        e == Smaller(g.end, lim)
        digits == (z /\ ~x) \/ \E k \in d0..(e - 1) : s[k] # "."
        marked == e < lim /\ At(s, e) = (IF x THEN "p" ELSE "e")
        e1 == IF e + 1 < lim /\ At(s, e + 1) \in {"+", "-"} THEN e + 2 ELSE e + 1
    IN CASE c = "i" -> IF inf < 2 THEN [end |-> i1 + 1 + inf, ok |-> FALSE]
                       ELSE IF i1 + 3 >= lim \/ At(s, i1 + 3) # "i" THEN [end |-> i1 + 3, ok |-> TRUE]
                       ELSE [end |-> i1 + 4 + inity, ok |-> inity = 4]
         [] c = "n" -> IF nan < 2 THEN [end |-> i1 + 1 + nan, ok |-> FALSE]
                       ELSE IF i1 + 3 >= lim \/ At(s, i1 + 3) # "(" THEN [end |-> i1 + 3, ok |-> TRUE]
                       ELSE [end |-> IF p < lim /\ At(s, p) = ")" THEN p + 1 ELSE p, ok |-> TRUE]
         [] OTHER -> IF ~digits THEN [end |-> e, ok |-> x /\ e >= lim]
                     ELSE IF ~marked THEN [end |-> e, ok |-> TRUE]
                     ELSE [end |-> Smaller(Span(s, e1, IsDigit), Larger(lim, e1)), ok |-> TRUE]

\* vfwscanf.c has these three again for wide characters: only ASCII ones are digits, signs or letters of a word
wcb_put(room, n) == cb_put(room, n)
wscan_int(s, i, w, base0) == scan_int(s, i, w, base0)
wscan_float(s, i, w) == scan_float(s, i, w)

-----------------------------------------------------------------------------
(* Scansets: [ok, end, has(c)], end being the place of the closing bracket *)

RECURSIVE SetItems(_, _)
SetItems(s, p) ==        \* the byte engine: a range goes on from the character before the dash
    LET c == At(s, p)
        rest(k, new) == LET r == SetItems(s, k) IN [r EXCEPT !.set = @ \cup new]
    IN IF c = "]" THEN [ok |-> TRUE, end |-> p, set |-> {}]
       ELSE IF c = "" THEN [ok |-> FALSE, end |-> p, set |-> {}]
       ELSE IF c = "-" /\ At(s, p + 1) # "]" /\ s[p - 1] \notin {"[", "^"}
       THEN IF At(s, p + 1) = "" THEN [ok |-> FALSE, end |-> 0, set |-> {}]    \* reads on past the format's end
            ELSE rest(p + 2, {Ascii[k] : k \in Ord(s[p - 1])..Ord(s[p + 1])} \cup {s[p + 1]})
       ELSE rest(p + 1, {c})
scanset(s, p0) ==
    LET invert == At(s, p0) = "^"
        p == IF invert THEN p0 + 1 ELSE p0
        r == IF At(s, p) = "]" THEN SetItems(s, p + 1) ELSE SetItems(s, p)
        set == IF At(s, p) = "]" THEN r.set \cup {"]"} ELSE r.set
    IN [ok |-> r.ok, end |-> r.end, set |-> IF invert THEN Range(Ascii) \ set ELSE set]

RECURSIVE in_set(_)
in_set(t) ==             \* the wide engine: a range is three characters, whatever came before
    IF t = <<>> THEN {}
    ELSE IF Len(t) > 2 /\ t[2] = "-" THEN {Ascii[k] : k \in Ord(t[1])..Ord(t[3])} \cup in_set(SubSeq(t, 4, Len(t)))
    ELSE {t[1]} \cup in_set(Tail(t))
wscanset(s, p0) ==
    LET invert == At(s, p0) = "^"
        p == IF invert THEN p0 + 1 ELSE p0
        e == Span(s, IF At(s, p) = "]" THEN p + 1 ELSE p, LAMBDA c : c # "]")
        set == in_set(SubSeq(s, p, e - 1))
    IN [ok |-> e <= Len(s), end |-> e, set |-> IF invert THEN Range(Ascii) \ set ELSE set]

-----------------------------------------------------------------------------
(* The format: a call K = [s, in, wide, room] and its progress st *)

SkipSpace(K, i) == Span(K.in, i, isspace)
Ends(st, r) == [st EXCEPT !.res = r]

\* What the bytes of s from place i decode to, those after the first being taken while they are ok
sd_byte(s, i, ok) ==      \* [n, c, res]
    IF s[i] = "w2" THEN [n |-> 1, c |-> "", res |-> "bad"]
    ELSE IF s[i] # "w1" THEN [n |-> 1, c |-> s[i], res |-> "ok"]
    ELSE IF At(s, i + 1) \notin ok \/ At(s, i + 1) = "" THEN [n |-> 1, c |-> "", res |-> "half"]
    ELSE [n |-> 2, c |-> "W", res |-> IF s[i + 1] = "w2" THEN "ok" ELSE "bad"]
\* %s, %c and %[: width counts whole characters, decoded or not
RECURSIVE Collect(_, _, _, _, _)
Collect(s, i, width, ok, decode) ==      \* [end, t, got, res]
    LET c == IF decode THEN sd_byte(s, i, ok) ELSE [n |-> 1, c |-> s[i], res |-> "ok"]
        r == Collect(s, i + c.n, width - 1, ok, decode)
        stop(k, res) == [end |-> k, t |-> <<>>, got |-> 0, res |-> res]
    IN IF width = 0 \/ At(s, i) = "" \/ At(s, i) \notin ok THEN stop(i, "ok")
       ELSE IF c.res # "ok" THEN stop(i + c.n, c.res)
       ELSE [r EXCEPT !.t = <<c.c>> \o @, !.got = @ + 1]

Store(st, v) == IF st.dest = 0 THEN st ELSE [st EXCEPT !.stored = @ \cup {<<st.dest, v>>}, !.matches = @ + 1]

\* 'm': does a block for n elements come from malloc?  The terminator is one of them.
sd_put(room, n) == Grown(Chunk, n) <= room
sd_room(room, n) == Grown(Chunk, n) <= room
\* the elements that characters take in a wide or a multibyte destination
wsd_put(t, wide) == IF wide THEN t ELSE FlattenSeq([k \in DOMAIN t |-> utf8(t[k])])
NoField(K, st) == Ends(st, IF At(K.in, st.i) = "" THEN "input" ELSE "done")
\* Mutant: a field that found no memory is left out.
FieldEndSkips(K, st, r, nul) ==
    IF r.res = "bad" THEN Ends(st, "EILSEQ")
    ELSE IF r.res = "half" THEN Ends(st, "done")
    ELSE IF r.got = 0 THEN NoField(K, st)
    ELSE IF st.alloc /\ st.dest # 0 /\ ~sd_put(K.room, Len(r.t) + nul) THEN st
    ELSE Store(st, r.t)
\* The end of a field of characters r, with a terminator or without.
FieldEnd(K, st, r, nul) ==
    IF r.res = "bad" THEN Ends(st, "EILSEQ")
    ELSE IF r.res = "half" THEN Ends(st, "done")
    ELSE IF r.got = 0 THEN NoField(K, st)
    ELSE IF st.alloc /\ st.dest # 0 /\ ~sd_put(K.room, Len(r.t) + nul) THEN Ends(st, "ENOMEM")
    ELSE Store(st, r.t)
WideFieldEnd(K, st, r, nul, wide) ==
    LET t == wsd_put(r.t, wide)
    IN IF r.got = 0 THEN NoField(K, st)
       ELSE IF st.alloc /\ st.dest # 0 /\ ~sd_room(K.room, Len(t) + nul) THEN Ends(st, "ENOMEM")
       ELSE Store(st, t)

Characters(K, st, t) ==
    LET wide == st.size = "l" \/ t \in {"C", "S"}
        set == IF K.wide THEN wscanset(K.s, st.p + 1) ELSE scanset(K.s, st.p + 1)
        ok == IF t = "[" THEN set.set ELSE IF t \in {"s", "S"} THEN {c \in Range(Ascii) : ~isspace(c)} ELSE Range(Ascii)
        is_c == t \in {"c", "C"}
        width == IF st.width >= 0 THEN st.width ELSE IF is_c THEN 1 ELSE Unlimited
        r == Collect(K.in, st.i, width, ok, wide /\ ~K.wide)
        at == [st EXCEPT !.i = r.end, !.p = IF t = "[" THEN set.end ELSE @]
        nul == IF is_c THEN 0 ELSE 1
    IN IF t = "[" /\ ~set.ok THEN Ends(st, IF set.end = 0 THEN "undefined" ELSE "EINVAL")
       ELSE IF K.wide THEN WideFieldEnd(K, at, r, nul, wide)
       ELSE FieldEnd(K, at, r, nul)

Bits(size) == CASE size = "hh" -> CharBits [] size = "h" -> ShortBits [] size = "" -> IntBits [] OTHER -> MaxBits
store_int(size, v) == Signed(v, Bits(size))
FieldLimit(st) == IF st.width >= 0 THEN st.width ELSE Unlimited
BaseOf(t) == CASE t \in {"d", "u"} -> 10 [] t = "o" -> 8 [] t = "i" -> 0 [] OTHER -> 16
\* A number of which n or f is what was found, collected if room allows it.
Converted(K, st, t, n, f, wide) ==
    LET int == SubSeq(K.in, st.i, n.end - 1)
        v == IF t \in {"d", "i"} THEN strtoimax(int, n.base).v ELSE strtoumax(int, n.base).v
        F == CASE st.size = "L" -> LDBL [] st.size = "l" -> DBL [] OTHER -> FLT
        ends(e, ok, value) ==
            IF ~ok THEN Ends([st EXCEPT !.i = e], "done")
            ELSE IF ~(IF wide THEN wcb_put(K.room, e - st.i) ELSE cb_put(K.room, e - st.i)) THEN Ends([st EXCEPT !.i = e], "ENOMEM")
            ELSE Store([st EXCEPT !.i = e], value)
    IN CASE t \in {"d", "i", "u", "o", "x", "p"} -> ends(n.end, n.base >= 0, IF t = "p" THEN v ELSE store_int(st.size, v))
         [] t \in {"a", "e", "f", "g"} -> ends(f.end, f.ok, [parse(SubSeq(K.in, st.i, f.end - 1), F).f EXCEPT !.err = ""])
         [] OTHER -> Ends(st, "EINVAL")
Numeric(K, st, t) ==
    Converted(K, st, t, scan_int(K.in, st.i, FieldLimit(st), BaseOf(t)), scan_float(K.in, st.i, FieldLimit(st)), FALSE)
WideNumeric(K, st, t) ==
    Converted(K, st, t, wscan_int(K.in, st.i, FieldLimit(st), BaseOf(t)), wscan_float(K.in, st.i, FieldLimit(st)), TRUE)

\* A conversion specification, its % at st.p.
Specification(K, st) ==
    LET s == K.s
        sup == At(s, st.p + 1) = "*"
        p1 == IF sup THEN st.p + 2 ELSE st.p + 1
        q == Span(s, p1, IsDigit)
        pos == ~sup /\ q > p1 /\ At(s, q) = "$"
        n == Value(SubSeq(s, p1, q - 1))
        p2 == IF pos THEN q + 1 ELSE p1
        p3 == Span(s, p2, IsDigit)
        width == IF p3 > p2 THEN Value(SubSeq(s, p2, p3 - 1)) ELSE -1
        alloc == At(s, p3) = "m"
        p4 == IF alloc THEN p3 + 1 ELSE p3
        a == At(s, p4)
        dbl == a \in {"h", "l"} /\ At(s, p4 + 1) = a
        size == CASE dbl -> IF a = "h" THEN "hh" ELSE "ll" [] a = "q" -> "ll" [] a \in {"j", "z", "t"} -> "l"
                  [] ~dbl /\ a \in {"h", "l", "L"} -> a [] OTHER -> ""
        p5 == p4 + (IF dbl THEN 2 ELSE IF size # "" THEN 1 ELSE 0)
        t == At(s, p5)
        dest == IF sup \/ (t = "%" /\ ~pos) THEN 0 ELSE IF pos THEN n ELSE st.seq
        i == IF t \in {"[", "c", "n", "C"} THEN st.i ELSE SkipSpace(K, st.i)
        st1 == [st EXCEPT !.p = p5, !.width = width, !.size = size, !.dest = dest, !.i = i, !.alloc = alloc,
                          !.positional = IF pos THEN 1 ELSE IF sup \/ t = "%" THEN @ ELSE -1,
                          !.seq = IF sup \/ pos \/ t = "%" THEN @ ELSE @ + 1]
    IN IF (pos /\ (n = 0 \/ st.positional < 0)) \/ width = 0 \/ t = "" THEN Ends(st, "EINVAL")
       ELSE IF ~sup /\ ~pos /\ t # "%" /\ st.positional > 0 THEN Ends(st, "EINVAL")
       ELSE IF alloc /\ t \notin {"s", "c", "["} /\ ~(K.wide /\ t \in {"S", "C"}) THEN Ends(st1, "EINVAL")
       ELSE IF t \notin {"[", "c", "n", "C"} /\ At(K.in, i) = "" THEN Ends(st1, "input")
       ELSE IF t = "n" THEN IF dest = 0 THEN st1 ELSE [st1 EXCEPT !.stored = @ \cup {<<dest, store_int(size, st.i - 1)>>}]
       ELSE IF t \in {"c", "C", "s", "S", "["} THEN Characters(K, st1, t)
       ELSE IF K.wide THEN WideNumeric(K, st1, t)
       ELSE Numeric(K, st1, t)

ScanTurn(K, st) ==
    LET c == At(K.s, st.p)
        pct == c = "%" /\ At(K.s, st.p + 1) = "%"
        i == IF pct THEN SkipSpace(K, st.i) ELSE st.i
        r == Specification(K, st)
    IN IF c = "" THEN Ends(st, "done")
       ELSE IF isspace(c) THEN [st EXCEPT !.p = Span(K.s, @, isspace), !.i = SkipSpace(K, @)]
       ELSE IF c = "%" /\ ~pct THEN [r EXCEPT !.p = @ + 1]
       ELSE IF At(K.in, i) = c THEN [st EXCEPT !.p = @ + (IF pct THEN 2 ELSE 1), !.i = i + 1]
       ELSE Ends([st EXCEPT !.i = i], IF At(K.in, i) = "" THEN "input" ELSE "done")
RECURSIVE ScanTurns(_, _)
ScanTurns(K, st) == IF st.res # "go" THEN st ELSE ScanTurns(K, ScanTurn(K, st))

EOF == -1
\* [ret, stored, rest, err]: rest is the place the input is left at
Scan(K) ==
    LET st == ScanTurns(K, [p |-> 1, i |-> 1, matches |-> 0, positional |-> 0, seq |-> 1, stored |-> {}, dest |-> 0,
                            width |-> -1, size |-> "", alloc |-> FALSE, res |-> "go"])
    IN [ret |-> IF st.res \in {"input", "EINVAL"} /\ st.matches = 0 THEN EOF ELSE st.matches,
        stored |-> st.stored, rest |-> st.i, err |-> st.res]
vfscanf(in, s, room) == Scan([s |-> s, in |-> in, wide |-> FALSE, room |-> room])
\* vfwscanf.c's own loop takes the same turns over wide characters: K.wide marks where it differs.
scan(K) == Scan([K EXCEPT !.wide = TRUE])
vfwscanf(in, s, room) == scan([s |-> s, in |-> in, wide |-> TRUE, room |-> room])
=============================================================================
