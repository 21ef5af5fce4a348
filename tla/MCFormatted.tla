----------------------------- MODULE MCFormatted ----------------------------
(***************************************************************************)
(* The conversions between values and texts, side by side: printf, scanf   *)
(* and the number parsers, the character sets, and calendars with their    *)
(* time zones.  A behaviour uses one of them, sys, and leaves the          *)
(* variables of the others Unused.                                         *)
(*                                                                         *)
(* Formats has small widths.  char, short, int and long have 4, 5, 7 and   *)
(* 8 bits; float, double and long double 3, 4 and 8 bits of precision.     *)
(* double's exponents are wide enough that, as with the real ones, nothing *)
(* strtod's fast and middle paths compute overflows it; float's are not.   *)
(***************************************************************************)
EXTENDS Formats

-----------------------------------------------------------------------------
(***************************************************************************)
(* A program that converts between values and text: it writes a format, an *)
(* argument list and an input piece by piece and calls the printf, strto   *)
(* and scanf families on them.                                             *)
(***************************************************************************)

CONSTANTS
    Linked(_, _), \* the modules' larger functions, by name and arguments
    Tasks    \* what the program may write: by name, records of the pieces of a format and how many, the argument
             \* lists and what the stream takes before a write fails, or the pieces of an input, how many
             \* and how long, and the scanf formats to read it with

VARIABLES
    job,     \* the name of one of Tasks
    fmt,     \* the format
    text,    \* the input
    count,   \* pieces written
    call     \* the last call and its results
fmtVars == <<job, fmt, text, count, call>>

Job == Tasks[job]
NoCall == [op |-> "none"]
Init == job \in DOMAIN Tasks /\ fmt = <<>> /\ text = <<>> /\ count = 0 /\ call = NoCall

Write(d) ==
    /\ Job.kind = "print" /\ count < Job.max /\ call = NoCall
    /\ fmt' = fmt \o d /\ count' = count + 1 /\ UNCHANGED <<job, text, call>>
Enter(p) ==
    /\ Job.kind = "read" /\ count < Job.max /\ call = NoCall /\ Len(text) + Len(p) <= Job.length
    /\ text' = text \o p /\ count' = count + 1 /\ UNCHANGED <<job, fmt, call>>

Prints(args, accept) ==
    /\ fmt # <<>> /\ call = NoCall
    /\ call' = [op |-> "printf", args |-> args, accept |-> accept, r |-> Linked("vfprintf", <<fmt, args, accept>>),
                w |-> Linked("vfwprintf", <<fmt, args, accept>>)]
    /\ UNCHANGED <<job, fmt, text, count>>
Parses ==
    /\ text # <<>> /\ Job.formats = {} /\ call = NoCall
    /\ call' = [op |-> "strto", int |-> [b \in {0, 8, 10, 16} |-> Linked("strtoimax", <<text, b>>)], u |-> Linked("strtoumax", <<text, 0>>),
                num |-> Linked("strtonum", <<text, -3, 5>>), atoi |-> Linked("atoi", <<text, IntBits>>), flt |-> Linked("parse", <<text, FLT>>), dbl |-> Linked("parse", <<text, DBL>>),
                ldbl |-> Linked("parse", <<text, LDBL>>)]
    /\ UNCHANGED <<job, fmt, text, count>>
\* what malloc may have left, when the call may ask for some
Left(c) == {Unlimited} \cup (IF "m" \in Range(c) THEN {0, 2 * Chunk} ELSE IF Len(c) = 2 /\ Len(text) >= Small THEN {0} ELSE {})
Scans(c, room) ==
    /\ text # <<>> /\ call = NoCall
    /\ call' = [op |-> "scanf", c |-> c, room |-> room, r |-> Linked("vfscanf", <<text, c, room>>), w |-> Linked("vfwscanf", <<text, c, room>>)]
    /\ UNCHANGED <<job, fmt, text, count>>

Next ==
    \/ \E d \in Job.pieces : Write(d) \/ Enter(d)
    \/ Job.kind = "print" /\ \E args \in Job.args, a \in Job.accepts : Prints(args, a)
    \/ Job.kind = "read" /\ Parses
    \/ Job.kind = "read" /\ \E c \in Job.formats : \E room \in Left(c) : Scans(c, room)
Spec == Init /\ [][Next]_fmtVars

-----------------------------------------------------------------------------
(* Reference definitions *)

\* The only conversion of a format that is one directive, as the interpreter reads it.
Only(f, args) ==
    LET K == [s |-> f, wide |-> FALSE, bytes |-> FALSE, scan |-> TRUE, args |-> args, nl |-> <<>>, accept |-> Everything]
        st == [Fresh(K) EXCEPT !.i = 2]
    IN Conversion(K, Precision(K, FieldWidth(K, Flags(K, Position(K, st)))))
Plain == count = 1 /\ fmt[1] = "%" /\ "*" \notin Range(fmt) /\ "$" \notin Range(fmt)
\* A field without its padding: a left-aligned field is padded after, another before.
Bare(t, st) ==
    LET b == Span(t, 1, LAMBDA c : c = " ")
        sign == IF "space" \in st.fl /\ st.c \in {"d", "f", "e", "g", "a"} /\ b > 1 /\ At(t, b) # "-" THEN b - 1 ELSE b
        e == {k \in 1..Len(t) : t[k] # " "}
    IN IF e = {} THEN IF "space" \in st.fl THEN <<" ">> ELSE <<>>
       ELSE SubSeq(t, IF "left" \in st.fl THEN 1 ELSE sign, CHOOSE k \in e : \A j \in e : j <= k)
RoundHalfEven(a, b) == LET q == a \div b IN IF 2 * (a % b) > b \/ (2 * (a % b) = b /\ q % 2 = 1) THEN q + 1 ELSE q
\* m * 2^e * 10^k as a fraction
Above(v, k) == v.m * 2^(IF v.e > 0 THEN v.e ELSE 0) * 10^(IF k > 0 THEN k ELSE 0)
Below(v, k) == 2^(IF v.e < 0 THEN -v.e ELSE 0) * 10^(IF k < 0 THEN -k ELSE 0)
Rounded(v, k) == RoundHalfEven(Above(v, k), Below(v, k))
Padded(d, k) == Fill("0", Larger(k - Len(d), 0)) \o d
Dotted(d, p, alt) == IF p = 0 THEN d \o (IF alt THEN <<".">> ELSE <<>>)
                     ELSE SubSeq(d, 1, Len(d) - p) \o <<".">> \o SubSeq(d, Len(d) - p + 1, Len(d))
Decade(v) == CHOOSE k \in -3..4 : Above(v, -k) >= Below(v, -k) /\ Above(v, -k - 1) < Below(v, -k - 1)
InStyleF(v, p, alt) == Dotted(Padded(fmt_u(Rounded(v, p), 10), p + 1), p, alt)
ExponentE(v, p) == IF v.m = 0 THEN 0 ELSE LET k == Decade(v) IN IF Rounded(v, p - k) = 10^(p + 1) THEN k + 1 ELSE k
DigitsE(v, p) == IF v.m = 0 THEN Fill("0", p + 1)
                 ELSE LET r == Rounded(v, p - Decade(v)) IN fmt_u(IF r = 10^(p + 1) THEN r \div 10 ELSE r, 10)
InStyleE(v, p, alt) == Dotted(DigitsE(v, p), p, alt) \o exp_str(ExponentE(v, p), "e", 2)

StripZeros(t) == LET nz == {k \in DOMAIN t : t[k] # "0"}
                     e == CHOOSE k \in nz : \A j \in nz : j <= k
                 IN IF "." \notin Range(t) THEN t ELSE SubSeq(t, 1, IF t[e] = "." THEN e - 1 ELSE e)
InStyleG(v, p, alt) ==
    LET P == IF p = 0 THEN 1 ELSE p
        X == ExponentE(v, P - 1)
        f == InStyleF(v, P - 1 - X, TRUE)
        e == Dotted(DigitsE(v, P - 1), P - 1, TRUE)
    IN IF P > X /\ X >= -4 THEN IF alt THEN f ELSE StripZeros(f)
       ELSE (IF alt THEN e ELSE StripZeros(e)) \o exp_str(X, "e", 2)
FloatBody(v, st) ==
    LET p == IF st.p < 0 THEN 6 ELSE st.p
    IN CASE st.c = "f" -> InStyleF(v, p, "alt" \in st.fl)
         [] st.c = "e" -> InStyleE(v, p, "alt" \in st.fl)
         [] st.c = "g" -> InStyleG(v, p, "alt" \in st.fl)
\* Do m1 * 2^e1 and m2 * 2^e2 agree?
SameValue(m1, e1, m2, e2) == Shift(m1, IF e1 > e2 THEN e1 - e2 ELSE 0) = Shift(m2, IF e2 > e1 THEN e2 - e1 ELSE 0)
HexTrue(t, v, st) ==
    LET r == Linked("parse", <<Bare(t, st), LDBL>>).f
        X == v.e + BitLen(v.m) - 1
        k == 4 * st.p - X          \* v * 2^k is rounded to an integer
        R == RoundHalfEven(v.m * 2^Larger(v.e + k, 0), 2^Larger(-v.e - k, 0))
    IN IF v.m = 0 THEN r.m = 0
       ELSE IF st.p < 0 THEN SameValue(r.m, r.e, v.m, v.e)
       ELSE SameValue(r.m, r.e, R, -k)

Base(c) == CASE c \in {"d", "u"} -> 10 [] c = "o" -> 8 [] c = "x" -> 16
IntegerTrue(t, st) ==
    LET u == pop_arg(call.args[1], st.type).i
        v == IF st.c = "d" THEN Signed(u, MaxBits) ELSE u
        b == Bare(t, st)
        d == SelectSeq(b, LAMBDA c : c \notin {"+", "-", " "})
        digits == IF st.c = "x" /\ At(d, 2) = "x" THEN SubSeq(d, 3, Len(d)) ELSE d
        least == Larger(st.p, IF st.p = 0 /\ v = 0 THEN 0 ELSE Len(fmt_u(IF v < 0 THEN -v ELSE v, Base(st.c))))
        zeros == "zero" \in st.fl /\ "left" \notin st.fl /\ st.p < 0
        back == Linked("vfscanf", <<t, <<"%">> \o (IF st.lm = "" THEN <<>> ELSE IF st.lm = "hh" THEN <<"h", "h">> ELSE <<st.lm>>) \o <<st.c>>, Unlimited>>)
    IN /\ Len(t) >= st.w
       /\ Len(t) > st.w => t = b
       /\ v < 0 <=> (b # <<>> /\ "-" \in Range(b))
       /\ st.c = "d" /\ "plus" \in st.fl /\ v >= 0 => At(b, 1) = "+"
       /\ Len(digits) >= least
       /\ ~zeros => Len(digits) = least \/ (st.c = "o" /\ "alt" \in st.fl /\ Len(digits) = least + 1)
       /\ st.c = "o" /\ "alt" \in st.fl => digits[1] = "0"
       /\ st.c = "x" /\ "alt" \in st.fl => (At(d, 2) = "x" <=> v # 0)
       /\ least > 0 => /\ back.ret = 1
                       /\ back.stored = {<<1, store_int(st.lm, u)>>}
                       /\ Linked("strtox", <<b, Base(st.c), v < 0, 2^MaxBits - 1>>).v = v

(* A printed number is the number: an integer field has the width, sign, precision and alternative    *)
(* form its directive asks for and reads back, through strtol and scanf, as the argument; a decimal    *)
(* floating-point field is the exact value rounded to nearest, ties to even, at the last digit printed *)
(* (vfprintf.c's limbs, carries and %g's choice of style); a hexadecimal one is the value rounded at   *)
(* its last digit.                                                                                      *)
PrintedTrue ==
    call.op = "printf" /\ Plain /\ call.r.ret >= 0 =>
        LET st == Linked("Only", <<fmt, call.args>>)
            v == call.args[1].f
            t == call.r.out
        IN CASE st.c \in {"d", "u", "o", "x"} -> IntegerTrue(t, st)
             [] st.c \in {"f", "e", "g"} /\ v.kind = "finite" -> t = emit_field(st.fl, st.w, Sign(v.neg, st.fl), Linked("FloatBody", <<v, st>>))
             [] st.c = "a" /\ v.kind = "finite" -> HexTrue(t, v, st)
             [] OTHER -> TRUE

SameInts == \A i \in DOMAIN fmt : IsDigit(fmt[i]) => getint(fmt, i).n = wgetint(fmt, i).n
Ascii7(t) == Range(t) \cap {"w1", "w2", "W", "C8", "BAD"} = {}
(* printf's count is true and its two passes agree: a call that succeeds returns the length of what it *)
(* wrote; a positional argument is read only if the first pass fetched it; a format with positions     *)
(* that is refused writes nothing; a field that would take the count past INT_MAX is not started;      *)
(* snprintf returns the same count whatever its buffer and keeps a prefix, asprintf's two calls agree, *)
(* the fortified call ends the process exactly when the text does not fit, swprintf fails exactly then, *)
(* and the wide engine writes the same ASCII text with the same count.                                  *)
CountsTrue ==
    call.op = "printf" =>
        LET r == call.r
            full == Linked("vsnprintf", <<Everything, fmt, call.args>>)
            pos == Position([s |-> fmt, wide |-> FALSE], [i |-> 2, pos |-> 0, res |-> "go"])
        IN /\ r.err # "undefined"
           /\ r.ret >= 0 => r.ret = Len(r.out) /\ r.ret <= INT_MAX
           /\ r.ret < 0 => r.err # ""
           /\ r.err = "EIO" <=> Len(full.buf) > call.accept /\ full.err = ""
           /\ r.err = "EOVERFLOW" => Len(r.out) <= INT_MAX
           /\ r.err = "EINVAL" /\ fmt[1] = "%" /\ pos.pos > 0 => r.out = <<>>
           /\ \A k \in {0, 1, 3} : /\ Linked("vsnprintf", <<k, fmt, call.args>>).ret = full.ret
                                   /\ Linked("vsnprintf", <<k, fmt, call.args>>).buf = Cut(full.buf, Larger(k - 1, 0))
           /\ Linked("vasprintf", <<fmt, call.args, TRUE>>) = IF full.ret < 0 THEN [ret |-> -1, buf |-> NULL] ELSE [ret |-> full.ret, buf |-> full.buf]
           /\ full.ret >= 0 => \A k \in {0, 2} : (Linked("__vsprintf_chk", <<k, fmt, call.args>>).err = "fatal") <=> full.ret >= k
           /\ call.w.ret >= 0 => \A k \in {0, 2} : (Linked("vswprintf", <<k, fmt, call.args>>).ret >= 0) <=> Len(call.w.out) < k
           /\ SameInts /\ r.err \in {"", "EINVAL"} /\ Ascii7(r.out) => call.w = r

-----------------------------------------------------------------------------
(* The grammar of numbers, apart from the code that reads them *)

AllOf(t, P(_)) == \A k \in DOMAIN t : P(t[k])
Dots(t) == Cardinality({k \in DOMAIN t : t[k] = "."})
Mantissa(t, P(_)) == Dots(t) <= 1 /\ AllOf(t, LAMBDA c : P(c) \/ c = ".")
Power(t, mark) == \/ t = <<>>
                  \/ /\ t[1] = mark /\ Len(t) > 1
                     /\ LET d == SubSeq(t, IF t[2] \in {"+", "-"} THEN 3 ELSE 2, Len(t)) IN d # <<>> /\ AllOf(d, IsDigit)
\* where the mantissa of t ends, 0 when t is no number in this base
MantissaEnd(t, P(_), mark) ==
    LET S == {k \in 1..Len(t) : /\ Mantissa(SubSeq(t, 1, k), P) /\ \E j \in 1..k : t[j] # "."
                                /\ Power(SubSeq(t, k + 1, Len(t)), mark)}
    IN IF S = {} THEN 0 ELSE CHOOSE k \in S : \A j \in S : j <= k
HexPart(t) == IF Len(t) > 2 /\ t[1] = "0" /\ t[2] = "x" THEN SubSeq(t, 3, Len(t)) ELSE <<>>
Infinity == <<"i", "n", "f", "i", "n", "i", "t", "y">>
IsNaN(t) == Len(t) >= 3 /\ SubSeq(t, 1, 3) = <<"n", "a", "n">>
            /\ (Len(t) = 3 \/ (t[4] = "(" /\ t[Len(t)] = ")" /\ Len(t) > 4 /\ AllOf(SubSeq(t, 5, Len(t) - 1), LAMBDA c : digit_val(c) < 36)))
IsFloat(t) == t # <<>> /\ \/ MantissaEnd(t, IsDigit, "e") > 0
                          \/ HexPart(t) # <<>> /\ MantissaEnd(HexPart(t), IsHex, "p") > 0
                          \/ t \in {SubSeq(Infinity, 1, 3), Infinity} \/ IsNaN(t)
Start(t) == Span(t, 1, isspace)
AfterSign(t) == IF At(t, Start(t)) \in {"+", "-"} THEN Start(t) + 1 ELSE Start(t)
\* the place past the longest number at the start of t; 1 when there is none
FloatEnd(t) == LET S == {k \in AfterSign(t)..Len(t) : IsFloat(SubSeq(t, AfterSign(t), k))}
               IN IF S = {} THEN 1 ELSE (CHOOSE k \in S : \A j \in S : j <= k) + 1
NoDot(t) == SelectSeq(t, LAMBDA c : c # ".")
FracLen(t) == IF "." \notin Range(t) THEN 0 ELSE Len(t) - (CHOOSE k \in DOMAIN t : t[k] = ".")
PowerOf(t) == IF t = <<>> THEN 0 ELSE IF t[2] = "-" THEN -Value(SubSeq(t, 3, Len(t)))
              ELSE Value(SubSeq(t, IF t[2] = "+" THEN 3 ELSE 2, Len(t)))
ValueIn(t, base) == FoldLeft(LAMBDA a, c : a * base + digit_val(c), 0, t)
\* the nearest value of F to the number t, and whether strtod must say ERANGE
NearestTo(t, F, neg) ==
    LET h == HexPart(t)
        d == MantissaEnd(t, IsDigit, "e")
        k == MantissaEnd(h, IsHex, "p")
        m == Value(NoDot(SubSeq(t, 1, d)))
        q == PowerOf(SubSeq(t, d + 1, Len(t))) - FracLen(SubSeq(t, 1, d))
        hm == ValueIn(NoDot(SubSeq(h, 1, k)), 16)
        hq == PowerOf(SubSeq(h, k + 1, Len(h))) - 4 * FracLen(SubSeq(h, 1, k))
    IN CASE At(t, 1) = "i" -> Inf(neg, "")
         [] At(t, 1) = "n" -> NaN(neg)
         [] d > 0 -> IF m = 0 THEN Finite(0, 0, neg, "") ELSE IF q + Len(fmt_u(m, 10)) > 6 THEN Inf(neg, "ERANGE")
                     ELSE IF q + Len(fmt_u(m, 10)) < -3 THEN Finite(0, 0, neg, "ERANGE")
                     ELSE IEEE(m * 10^Larger(q, 0), 10^Larger(-q, 0), F, neg)
         [] OTHER -> IF hm = 0 THEN Finite(0, 0, neg, "") ELSE IF hq + BitLen(hm) > 25 THEN Inf(neg, "ERANGE")
                     ELSE IF hq + BitLen(hm) < -15 THEN Finite(0, 0, neg, "ERANGE")
                     ELSE IEEE(hm * 2^Larger(hq, 0), 2^Larger(-hq, 0), F, neg)
FloatTrue(r, F, erange) ==
    LET e == Linked("FloatEnd", <<text>>)
        want == Linked("NearestTo", <<SubSeq(text, AfterSign(text), e - 1), F, At(text, Start(text)) = "-">>)
        digits == Cardinality({k \in 1..(e - 1) : IsDigit(text[k])})
    IN /\ r.end = e
       /\ e > 1 /\ (F = LDBL => digits <= MAX_DIGITS) =>
            IF erange THEN r.f.kind = want.kind => r.f.err = want.err
            ELSE [r.f EXCEPT !.err = ""] = [want EXCEPT !.err = ""]

IntEnd(t, base) ==       \* [start, end, base] of the digits of t's number
    LET i == AfterSign(t)
        hex == base \in {0, 16} /\ At(t, i) = "0" /\ At(t, i + 1) = "x" /\ IsHex(At(t, i + 2))
        b == IF hex THEN 16 ELSE IF base # 0 THEN base ELSE IF At(t, i) = "0" THEN 8 ELSE 10
        j == IF hex THEN i + 2 ELSE i
    IN [start |-> j, end |-> Span(t, j, LAMBDA c : digit_val(c) < b), base |-> b]
IntegerParsed(r, base) ==
    LET g == Linked("IntEnd", <<text, base>>)
        v == ValueIn(SubSeq(text, g.start, g.end - 1), g.base) * (IF At(text, Start(text)) = "-" THEN -1 ELSE 1)
        max == SignedMax(MaxBits)
    IN IF g.end = g.start THEN r = [v |-> 0, end |-> 1, err |-> ""]
       ELSE r = [v |-> IF v > max THEN max ELSE IF v < -max - 1 THEN -max - 1 ELSE v, end |-> g.end,
                 err |-> IF v > max \/ v < -max - 1 THEN "ERANGE" ELSE ""]
(* strtod and strtol are right: they stop at the end of the longest number the text begins with,      *)
(* strtol's value is the number's or saturates with ERANGE, atoi saturates, strtonum accepts exactly a whole number in *)
(* its range, and strtof, strtod and strtold return the nearest value of their format, ties to even,   *)
(* whichever of the three paths of strtod.c computes it; strtod and strtold say ERANGE exactly when    *)
(* the result overflows or is tiny and inexact.                                                        *)
ParsedTrue ==
    call.op = "strto" =>
        /\ FloatTrue(call.flt, FLT, FALSE) /\ FloatTrue(call.dbl, DBL, FALSE) /\ FloatTrue(call.ldbl, LDBL, FALSE)
        /\ FloatTrue(call.dbl, DBL, TRUE) /\ FloatTrue(call.ldbl, LDBL, TRUE)
        /\ \A b \in DOMAIN call.int : IntegerParsed(call.int[b], b)
        /\ call.atoi = IF call.int[10].v > INT_MAX THEN INT_MAX
                       ELSE IF call.int[10].v < -INT_MAX - 1 THEN -INT_MAX - 1 ELSE call.int[10].v
        /\ call.num.err = "" <=> /\ call.int[10].end > 1 /\ call.int[10].end = Len(text) + 1
                                 /\ call.int[10].v \in -3..5 /\ call.int[10].err = ""

(* strtof says ERANGE exactly when its result overflows or is tiny and inexact (strtod.c's round_to:  *)
(* "set errno on overflow or inexact underflow").                                                      *)
StrtofRange == call.op = "strto" => FloatTrue(call.flt, FLT, TRUE)

-----------------------------------------------------------------------------
(* What a numeric conversion of scanf may consume *)

IntPrefix(t, base) ==     \* t begins some number in this base
    LET u == IF At(t, 1) \in {"+", "-"} THEN Tail(t) ELSE t
        hex == base \in {0, 16} /\ At(u, 1) = "0" /\ At(u, 2) = "x"
        b == IF base # 0 THEN base ELSE IF At(u, 1) = "0" THEN 8 ELSE 10
    IN IF hex THEN AllOf(SubSeq(u, 3, Len(u)), IsHex) ELSE AllOf(u, LAMBDA c : digit_val(c) < b)
PartialPower(t, mark) ==
    t = <<>> \/ (t[1] = mark /\ AllOf(SubSeq(t, IF At(t, 2) \in {"+", "-"} THEN 3 ELSE 2, Len(t)), IsDigit))
Partial(t, P(_), mark) ==
    \E k \in 0..Len(t) : /\ Mantissa(SubSeq(t, 1, k), P) /\ PartialPower(SubSeq(t, k + 1, Len(t)), mark)
                         /\ k < Len(t) => \E j \in 1..k : t[j] # "."
FloatPrefix(t) ==
    LET u == IF At(t, 1) \in {"+", "-"} THEN Tail(t) ELSE t
    IN \/ Partial(u, IsDigit, "e")
       \/ Len(u) >= 2 /\ u[1] = "0" /\ u[2] = "x" /\ Partial(SubSeq(u, 3, Len(u)), IsHex, "p")
       \/ IsPrefix(u, Infinity) \/ IsPrefix(u, <<"n", "a", "n", "(">>) \/ IsNaN(u)
       \/ IsPrefix(<<"n", "a", "n", "(">>, u) /\ AllOf(SubSeq(u, 5, Len(u)), LAMBDA c : digit_val(c) < 36)
\* the place past the longest prefix, of w characters at most, of the text from i that satisfies P
Longest(i, w, P(_)) ==
    LET S == {k \in i..Smaller(Len(text) + 1, i + w) : P(SubSeq(text, i, k - 1))}
    IN CHOOSE k \in S : \A j \in S : j <= k
NumericSpec(c) ==         \* [w, t] of a format that is one numeric conversion
    LET e == Span(c, 2, IsDigit)
    IN [w |-> IF e > 2 THEN Value(SubSeq(c, 2, e - 1)) ELSE Unlimited, t |-> c[Len(c)], size |-> SubSeq(c, e, Len(c) - 1)]

\* a scanset whose ranges the two engines read alike: no dash next to another range or to [ or ^
PlainSet(c) == \A k \in DOMAIN c : c[k] = "-" => Len(c) >= k + 2 /\ c[k + 2] = "]"
(* scanf's numbers: a numeric conversion consumes exactly the longest prefix, within its width, that   *)
(* begins a number of its kind, however much of it is later unusable, stores what strtol or strtod     *)
(* reads in that prefix and gives the rest back (vfscanf.c: at most one character is pushed back); it   *)
(* fails only on a prefix in which there is no number or which breaks off inside "infinity" or "0x".    *)
(* The wide engine does the same to ASCII input, whatever the format.  A call that malloc fails ends at *)
(* the field it had no memory for and keeps what it stored before; a number of fewer than Small         *)
(* characters never needs memory.                                                                       *)
ScannedTrue ==
    call.op = "scanf" =>
        LET r == call.r
            q == NumericSpec(call.c)
            i == Start(text)
            base == CASE q.t \in {"d", "u"} -> 10 [] q.t = "o" -> 8 [] q.t = "i" -> 0 [] OTHER -> 16
            F == IF q.size = <<"l">> THEN DBL ELSE FLT
            e == IF q.t = "f" THEN Longest(i, q.w, FloatPrefix) ELSE Longest(i, q.w, LAMBDA t : IntPrefix(t, base))
            read == SubSeq(text, i, e - 1)
            full == Linked("vfscanf", <<text, call.c, Unlimited>>)
        IN /\ r.err # "undefined"
           /\ IF r.err # "ENOMEM" THEN r = full
              ELSE /\ call.room < Unlimited /\ r.ret <= Larger(full.ret, 0) /\ r.rest <= full.rest /\ r.stored \subseteq full.stored
                   /\ \A x \in full.stored \ r.stored, y \in r.stored : y[1] < x[1]
                   /\ "m" \in Range(call.c) \/ r.rest > Small
           /\ Ascii7(text) /\ PlainSet(call.c) => call.w = r
           /\ r.ret > 0 => Cardinality(r.stored) >= r.ret
           /\ r.err # "ENOMEM" /\ call.c[1] = "%" /\ q.t \in {"d", "i", "u", "x", "f"} /\ AllOf(SubSeq(call.c, 2, Len(call.c) - 1), LAMBDA c : IsDigit(c) \/ c = "l") =>
                IF i > Len(text) THEN r.ret = EOF
                ELSE /\ r.rest = e
                     /\ r.ret = 1 => IF q.t = "f" THEN r.stored = {<<1, [Linked("parse", <<read, F>>).f EXCEPT !.err = ""]>>}
                                     ELSE \E b \in {base, 16, 8} : r.stored = {<<1, store_int(q.size, Linked("strtox", <<read, b, q.t \in {"d", "i"},
                                                IF q.t \in {"d", "i"} THEN SignedMax(MaxBits) ELSE 2^MaxBits - 1>>).v)>>}
                     /\ r.ret = 0 => IF q.t = "f" THEN \/ Linked("parse", <<read, F>>).end = 1 \/ "i" \in Range(read) \/ "x" \in Range(read)
                                     ELSE Linked("strtox", <<read, base, TRUE, 1>>).end = 1

-----------------------------------------------------------------------------
Unused == 0

Float == [p |-> 3, emin |-> -2, emax |-> 3, dmax |-> 2, dmin |-> 0]
Double == [p |-> 4, emin |-> -3, emax |-> 10, dmax |-> 5, dmin |-> -1]
LongDouble == [p |-> 8, emin |-> -12, emax |-> 11, dmax |-> 6, dmin |-> -3]
Strerror == <<"e">>

Cat(A, B) == {a \o b : a \in A, b \in B}
Each(S) == {<<c>> : c \in S}
Zero == [kind |-> "finite", m |-> 0, e |-> 0, neg |-> FALSE, err |-> ""]
Arg(i, f, s) == [i |-> i, f |-> f, s |-> s]
Printing(pieces, max, args, accepts) == [kind |-> "print", pieces |-> pieces, max |-> max, args |-> args, accepts |-> accepts]
Reading(pieces, max, length, formats) == [kind |-> "read", pieces |-> pieces, max |-> max, length |-> length, formats |-> formats]

\* one integer directive: flags, width, precision, length modifier and conversion
Integers1 == Cat(Cat(Cat(Cat({<<"%">>}, {<<>>, <<"-", "0">>, <<"0">>, <<"#", "0">>, <<"+">>}),
                         {<<>>, <<"5">>}), {<<>>, <<".">>, <<".", "3">>}),
                 {<<"d">>, <<"o">>, <<"x">>, <<"h", "h", "d">>, <<"h", "u">>, <<"l", "d">>})
IntegerArgs == {<<Arg(i, Zero, NULL)>> : i \in {0, -1, 9, -128}}

\* one floating-point directive
Floats1 == Cat(Cat(Cat({<<"%">>}, {<<>>, <<"0", "9">>, <<"#">>}), {<<>>, <<".">>, <<".", "1">>, <<".", "2">>}),
               Each({"f", "e", "g", "a"}))
FloatArgs == {<<Arg(0, [kind |-> "finite", m |-> m, e |-> e, neg |-> m = 3, err |-> ""], NULL)>> :
                 m \in {0, 3, 19, 25, 255}, e \in {-5, 0, 3}}

\* several directives: positions, arguments for widths, limits, text
Mixed == {<<"%", "d">>, <<"%", "1", "$", "d">>, <<"%", "2", "$", "s">>, <<"%", "1", "$", "*", "2", "$", "d">>,
          <<"%", "*", "d">>, <<"x">>, <<"%", "3", "$", "d">>, <<"%", "5", "9", "d">>, <<"%", "9", "9", "d">>,
          <<"%", ".", "*", "s">>, <<"%", "c">>, <<"%", "l", "s">>, <<"%", "m">>, <<"%">>, <<"%", "n">>}
MixedArgs == {<<a, Arg(4, Zero, <<"z">>), Arg(0, Zero, NULL)>> : a \in {Arg(3, Zero, NULL), Arg(-64, Zero, <<"w1", "w2", "b", "W">>)}}

Numbers1 == {<<"0">>, <<"1">>, <<"7", "5">>, <<".">>, <<"e">>, <<"-">>, <<"0", "x">>, <<"p">>, <<" ">>}

Inputs == {<<"0">>, <<"1", "9">>, <<".">>, <<"e">>, <<"-">>, <<"0", "x">>, <<" ">>, <<"i", "n", "f">>, <<"n", "i", "t", "y">>,
           <<"n", "a", "n">>, <<"(">>, <<"w1">>}
ScanFormats == {<<"%", "d">>, <<"%", "i">>, <<"%", "2", "i">>, <<"%", "3", "x">>, <<"%", "f">>, <<"%", "4", "l", "f">>,
                <<"%", "s", "%", "n">>, <<"%", "[", "a", "1", "-", "]", "%", "d">>, <<"%", "*", "d", " ", "e", "%", "2", "$", "i">>,
                <<"%", "2", "l", "s">>, <<"%", "[", "^", "]", "e", "]">>, <<"%", "d", "%", "2", "$", "c">>, <<"%", "%", "%", "d">>,
                <<"%", "m", "s", "%", "0", "d">>, <<"%", "2", "m", "s", "%", "d">>, <<"0", "%", "d">>, <<"%", "[", "a">>}

AllJobs == [integers |-> Printing(Integers1, 1, IntegerArgs, {Everything}), floats |-> Printing(Floats1, 1, FloatArgs, {Everything}),
            mixed |-> Printing(Mixed, 2, MixedArgs, {2, Everything}), numbers |-> Reading(Numbers1, 4, 6, {}),
            input |-> Reading(Inputs, 3, 8, ScanFormats)]
StrtofJobs == [numbers |-> Reading(Numbers1 \cup {<<"6">>}, 3, 7, {})]

-----------------------------------------------------------------------------
(* Character sets *)

Converter(from, to, flags, bom, bad) == [op |-> "iconv", from |-> from, to |-> to, flags |-> flags, bom |-> bom, bad |-> bad]
Conversions == {Converter("UTF8", "UTF16", {}, "", <<255>>), Converter("UTF16", "UTF8", {}, "be", <<>>),
    Converter("UTF16", "UTF32", {}, "le", <<>>), Converter("UTF8", "LATIN9", {"IGNORE"}, "", <<193>>),
    Converter("UTF8", "ASCII", {"TRANSLIT"}, "", <<>>), Converter("CP1252", "UTF8", {}, "", <<129>>),
    Converter("UTF32", "CP1252", {"TRANSLIT"}, "be", <<>>), Converter("UTF16LE", "UCS2BE", {"TRANSLIT"}, "", <<>>),
    Converter("LATIN9", "UTF16", {}, "", <<>>)}
Bytes == {0, 65, 128, 143, 144, 159, 160, 191, 193, 194, 223, 224, 237, 239, 240, 244, 245}
Points == {65, 164, 8364, 65279, 128512}
MaxChunk == 2
MaxPoints == 2
Rooms == {1, 4}

-----------------------------------------------------------------------------
(* Calendars and time zones *)

Zones == [New_York |-> <<"EST", "5", "EDT">>,
    South |-> <<"ABC", "3", "ABD", ",", "M", "1", "0", ".", "3", ".", "0", "/", "0", ",", "M", "2", ".", "3", ".", "0", "/", "0">>,
    Dublin |-> <<"IST", "-", "1", "GMT", "0", ",", "M", "1", "0", ".", "5", ".", "0", ",", "M", "3", ".", "5", ".", "0", "/", "1">>,
    Howe |-> <<"LHS", "-", "1", "0", ":", "3", "0", "LHD", "-", "1", "1", ",", "M", "1", "0", ".", "1", ".", "0", ",", "M", "4", ".", "1", ".", "0">>,
    Julian |-> <<"<", "+03", ">", "-", "3", "DST", ",", "J", "6", "0", "/", "0", ",", "3", "0", "0", "/", "2", "5">>,
    File |-> <<"City">>, Absolute |-> <<":", "/", "home">>, Up |-> <<":", "..", "/", "home">>,
    Bogus |-> <<"EST", "9", "9", "9">>, Empty |-> <<>>, None |-> <<"\\001unset">>]
Ttinfo(off, isdst, abbr) == [off |-> off, isdst |-> isdst, abbr |-> abbr]
Block(times, idx, types) == [fits |-> TRUE, times |-> times, idx |-> idx, types |-> types]
CityFile == [whole |-> TRUE, footer |-> <<"CET", "-", "1">>,
    blocks |-> <<Block(<<>>, <<>>, <<Ttinfo(0, 0, "LMT")>>),
                 Block(<<1000000, 1679792400, 1698541200, 1700000000>>, <<2, 3, 2, 4>>,
                       <<Ttinfo(7200, 1, "XXT"), Ttinfo(3600, 0, "CET"), Ttinfo(7200, 1, "CES"), Ttinfo(0, 0, "WET")>>)>>]
HomeFile == [whole |-> TRUE, footer |-> <<>>, blocks |-> <<Block(<<5>>, <<1>>, <<Ttinfo(-7200, 0, "HOM")>>)>>]
\* the last one is damaged: its times are not in order
Files == <<"/", "zoneinfo", "/", "City">> :> CityFile @@ <<"/", "home">> :> HomeFile
         @@ <<"/", "localtime">> :> [CityFile EXCEPT !.blocks[2].times[2] = 4]
ZoneNames == {"EST", "EDT", "ABC", "ABD", "IST", "GMT", "LHS", "LHD", "DST", "CET", "XXT", "CES", "WET", "HOM", "LMT"}
KeyMax == 255
YearMax == 400
TimeMax == 2000000000
MAX_TIMES == 5
\* around the transitions of the zones above
Instants == {b + k : b \in {1678604400, 1699164000, 1697338800, 1679792400, 1698541200, 1700000000, 1709240400},
                     k \in {-1, 0}} \cup {-1, 0, 1735689540}
Shifts == {0, 1800, -5400}
\* day by day across the turn of a century: into 1900, 2000 and 2100
Walks == {[left |-> 0, day |-> 0, y |-> 1970, m |-> 1, d |-> 1, wday |-> 4, yday |-> 0],
          [left |-> 400, day |-> -25598, y |-> 1899, m |-> 12, d |-> 1, wday |-> 5, yday |-> 334],
          [left |-> 400, day |-> 10926, y |-> 1999, m |-> 12, d |-> 1, wday |-> 3, yday |-> 334],
          [left |-> 400, day |-> 47451, y |-> 2099, m |-> 12, d |-> 1, wday |-> 2, yday |-> 334]}
Formats == {<<"%", "c">>, <<"%", "D", " ", "%", "r">>, <<"%", "F", "T", "%", "T", "%", "z">>, <<"%", "C", "%", "y", "%", "j">>,
            <<"%", "A", "%", "B", " ", "%", "e", "%", "Z">>, <<"%", "s">>, <<"%", "p", "%", "l", " ", "%", "u">>, <<"%", "5", "Y", "%", "%">>}
Buffers == {12}

-----------------------------------------------------------------------------

VARIABLES sys, st, seen, out,          \* the charset; job and call are shared
          TZ, secure, Z, today         \* the calendar

Cha == INSTANCE Charset
Cal == INSTANCE Calendar

\* The functions behind the constant Linked: a program calls them through it, so that TLC
\* does not unfold them at every place of a call.
Linkage(f, a) ==
    LET value == CASE f = "vfprintf" -> vfprintf(a[1], a[2], a[3])
                   [] f = "vfwprintf" -> vfwprintf(a[1], a[2], a[3])
                   [] f = "vsnprintf" -> vsnprintf(a[1], a[2], a[3])
                   [] f = "vasprintf" -> vasprintf(a[1], a[2], a[3])
                   [] f = "__vsprintf_chk" -> __vsprintf_chk(a[1], a[2], a[3])
                   [] f = "vswprintf" -> vswprintf(a[1], a[2], a[3])
                   [] f = "vfscanf" -> vfscanf(a[1], a[2], a[3])
                   [] f = "vfwscanf" -> vfwscanf(a[1], a[2], a[3])
                   [] f = "strtox" -> strtox(a[1], a[2], a[3], a[4])
                   [] f = "strtoimax" -> strtoimax(a[1], a[2])
                   [] f = "strtoumax" -> strtoumax(a[1], a[2])
                   [] f = "strtonum" -> strtonum(a[1], a[2], a[3])
                   [] f = "atoi" -> atoi(a[1], a[2])
                   [] f = "parse" -> parse(a[1], a[2])
                   [] f = "Only" -> Only(a[1], a[2])
                   [] f = "FloatBody" -> FloatBody(a[1], a[2])
                   [] f = "FloatEnd" -> FloatEnd(a[1])
                   [] f = "NearestTo" -> NearestTo(a[1], a[2], a[3])
                   [] f = "IntEnd" -> IntEnd(a[1], a[2])
                   [] f = "mbrtowc" -> Cha!mbrtowc(a[1], a[2])
                   [] f = "mbsrtowcs" -> Cha!mbsrtowcs(a[1], a[2], a[3], a[4])
                   [] f = "wcsrtombs" -> Cha!wcsrtombs(a[1], a[2], a[3])
                   [] f = "mbrtoc16" -> Cha!mbrtoc16(a[1], a[2])
                   [] f = "mbrtoc8" -> Cha!mbrtoc8(a[1], a[2])
                   [] f = "c16rtomb" -> Cha!c16rtomb(a[1], a[2])
                   [] f = "c8rtomb" -> Cha!c8rtomb(a[1], a[2])
                   [] f = "iconv" -> Cha!iconv(a[1], a[2], a[3])
                   [] f = "Source" -> Cha!Source(a[1], a[2])
                   [] f = "Item" -> Cha!Item(a[1], a[2])
                   [] f = "Stops" -> Cha!Stops(a[1], a[2])
                   [] f = "Representable" -> Cha!Representable(a[1], a[2])
                   [] f = "DateTm" -> Cal!DateTm(a[1], a[2])
                   [] f = "secs_to_tm" -> Cal!secs_to_tm(a[1])
                   [] f = "timegm" -> Cal!timegm(a[1])
                   [] f = "Load" -> Cal!Load(a[1], a[2])
                   [] f = "localtime_r" -> Cal!localtime_r(a[1], a[2])
                   [] f = "mktime" -> Cal!mktime(a[1], a[2])
                   [] f = "strftime" -> Cal!strftime(a[1], a[2], a[3], a[4])
                   [] f = "strptime" -> Cal!strptime(a[1], a[2], a[3], a[4], a[5])
                   [] f = "InForce" -> Cal!InForce(a[1], a[2])
                   [] f = "Readings" -> Cal!Readings(a[1], a[2])
    IN value

NoFormatted == fmt = Unused /\ text = Unused /\ count = Unused
NoCharset == st = Unused /\ seen = Unused /\ out = Unused
NoCalendar == TZ = Unused /\ secure = Unused /\ Z = Unused /\ today = Unused
ConversionsInit == \/ sys = "formatted" /\ Init /\ NoCharset /\ NoCalendar
                   \/ sys = "charset" /\ Cha!Init /\ NoFormatted /\ NoCalendar
                   \/ sys = "calendar" /\ Cal!Init /\ NoFormatted /\ NoCharset /\ job = Unused

formatted == <<fmt, text, count>>
charset == <<st, seen, out>>
calendar == <<TZ, secure, Z, today>>
ConversionsNext == \/ sys = "formatted" /\ Next /\ UNCHANGED <<sys, charset, calendar>>
                   \/ sys = "charset" /\ Cha!Next /\ UNCHANGED <<sys, formatted, calendar>>
                   \/ sys = "calendar" /\ Cal!Next /\ UNCHANGED <<sys, formatted, charset, job>>
conversions == <<sys, job, call, formatted, charset, calendar>>
ConversionsSpec == ConversionsInit /\ [][ConversionsNext]_conversions
\* printf, scanf and their relatives alone
FormattedSpec == ConversionsInit /\ sys = "formatted" /\ [][ConversionsNext]_conversions

-----------------------------------------------------------------------------
(* Properties: each is stated in the module of its part.                   *)

\* Each field printf writes is the text of its argument, and printf's counts are true
\* in every variant of the call.
PrintfTrue == sys = "formatted" => PrintedTrue /\ CountsTrue

\* strtol and strtod read the longest number and its nearest value; scanf consumes the
\* longest prefix of one and stores what they read in it.
ScanfTrue == sys = "formatted" => ParsedTrue /\ ScannedTrue

\* The multibyte functions and iconv, fed in pieces and with little room, convert what
\* the whole input says.
CharsetTrue == sys = "charset" => Cha!DecodesTrue /\ Cha!RoundTrips /\ Cha!ConvertsTrue

\* gmtime_r and timegm follow the calendar, strptime reads what strftime wrote,
\* localtime_r applies the rule or file TZ names now, and mktime undoes it.
CalendarTrue == sys = "calendar" => Cal!CalendarTrue /\ Cal!TextTrue /\ Cal!ZoneTrue /\ Cal!MktimeTrue
=============================================================================
