------------------------------- MODULE Charset ------------------------------
(***************************************************************************)
(* Character encodings: multibyte.c (UTF-8, incrementally), uchar.c        *)
(* (UTF-16 and UTF-8 units over it) and iconv.c.  Bytes, units and code    *)
(* points have their real values; a conversion state keeps its fields      *)
(* apart instead of packed into __st and __n.                              *)
(***************************************************************************)
EXTENDS Integers, Sequences, FiniteSets, SequencesExt

CONSTANTS
    Bytes,        \* the bytes a caller feeds to mbrtowc
    MaxChunk,     \* and how many at once
    Points,       \* code points converted by the other calls
    MaxPoints,    \* how many of them
    Conversions,  \* what iconv_open is asked for: [op |-> "iconv", from, to, flags, bom, bad]
    Rooms,        \* output bytes offered to one call
    Linked(_, _)  \* the module's larger functions, by name and arguments

VARIABLES job, st, seen, out, call
vars == <<job, st, seen, out, call>>

ILSEQ == -1
INCOMPLETE == -2
Between(x, lo, hi) == lo <= x /\ x <= hi
Surrogate(c) == Between(c, 55296, 57343)
Two6 == 64

-----------------------------------------------------------------------------
(* multibyte.c *)

Initial == [kind |-> "", c |-> 0, need |-> 0, lead |-> 0, units |-> <<>>]

\* Mutant: any continuation byte will do.
second_okAny(lead, b) == Between(b, 128, 191)
second_ok(lead, b) == CASE lead = 224 -> Between(b, 160, 191)
                        [] lead = 237 -> Between(b, 128, 159)
                        [] lead = 240 -> Between(b, 144, 191)
                        [] lead = 244 -> Between(b, 128, 143)
                        [] OTHER -> Between(b, 128, 191)

\* The continuation bytes: m has read i bytes of s
RECURSIVE Continue(_, _, _)
Continue(m, s, i) ==
    LET b == s[i + 1]
        ok == IF m.lead # 0 THEN second_ok(m.lead, b) ELSE Between(b, 128, 191)
    IN IF m.need = 0 THEN [r |-> i, wc |-> m.c, st |-> Initial]
       ELSE IF i = Len(s) THEN [r |-> INCOMPLETE, wc |-> -1, st |-> m]
       ELSE IF ~ok THEN [r |-> ILSEQ, wc |-> -1, st |-> Initial]
       ELSE Continue([m EXCEPT !.lead = 0, !.c = @ * Two6 + (b % Two6), !.need = @ - 1], s, i + 1)

\* mbrtowc with a string of Len(s) bytes: [r, wc, st]
mbrtowc(m, s) ==
    LET b == s[1]
        lead(c, need) == Continue([m EXCEPT !.c = c, !.need = need, !.lead = b], s, 1)
    IN IF s = <<>> THEN [r |-> INCOMPLETE, wc |-> -1, st |-> m]
       ELSE IF m.need > 0 THEN Continue(m, s, 0)
       ELSE IF b < 128 THEN [r |-> IF b = 0 THEN 0 ELSE 1, wc |-> b, st |-> m]
       ELSE IF Between(b, 194, 223) THEN lead(b % 32, 1)
       ELSE IF Between(b, 224, 239) THEN lead(b % 16, 2)
       ELSE IF Between(b, 240, 244) THEN lead(b % 8, 3)
       ELSE [r |-> ILSEQ, wc |-> -1, st |-> Initial]
mbsinit(m) == m.need = 0 /\ m.kind = ""

\* The bytes of c, <<>> when it has none
wcrtomb(c) ==
    CASE Between(c, 0, 127) -> <<c>>
      [] Between(c, 128, 2047) -> <<192 + (c \div 64), 128 + (c % 64)>>
      [] Between(c, 2048, 65535) /\ ~Surrogate(c) -> <<224 + (c \div 4096), 128 + ((c \div 64) % 64), 128 + (c % 64)>>
      [] Between(c, 65536, 1114111) -> <<240 + (c \div 262144), 128 + ((c \div 4096) % 64), 128 + ((c \div 64) % 64), 128 + (c % 64)>>
      [] OTHER -> <<>>

\* A string s[i..] (0 ends it) to at most n wide characters: [r, ws, src, st], src = 0 at its end
RECURSIVE mbsrtowcs(_, _, _, _)
mbsrtowcs(m, s, i, n) ==
    LET r == mbrtowc(m, SubSeq(s, i, IF Len(s) < i + 3 THEN Len(s) ELSE i + 3))
        rest == mbsrtowcs(r.st, s, i + r.r, n - 1)
    IN IF n = 0 THEN [r |-> 0, ws |-> <<>>, src |-> i, st |-> m]
       ELSE IF r.r < 0 THEN [r |-> ILSEQ, ws |-> <<>>, src |-> i, st |-> r.st]
       ELSE IF r.wc = 0 THEN [r |-> 0, ws |-> <<0>>, src |-> 0, st |-> r.st]
       ELSE [rest EXCEPT !.r = IF @ = ILSEQ THEN @ ELSE @ + 1, !.ws = <<r.wc>> \o @]

\* A wide string w[i..] to at most n bytes: [r, s, src]
RECURSIVE wcsrtombs(_, _, _)
wcsrtombs(w, i, n) ==
    LET b == wcrtomb(w[i])
        rest == wcsrtombs(w, i + 1, n - Len(b))
    IN IF b = <<>> THEN [r |-> ILSEQ, s |-> <<>>, src |-> i]
       ELSE IF Len(b) > n THEN [r |-> 0, s |-> <<>>, src |-> i]
       ELSE IF w[i] = 0 THEN [r |-> 0, s |-> <<0>>, src |-> 0]
       ELSE [rest EXCEPT !.r = IF @ = ILSEQ THEN @ ELSE @ + Len(b), !.s = b \o @]

-----------------------------------------------------------------------------
(* uchar.c: [r, unit, st]; a return of -3 takes no input *)

High(c) == 55296 + ((c - 65536) \div 1024)
Low(c) == 56320 + (c % 1024)
mbrtoc16(m, s) ==
    LET r == mbrtowc(m, s)
    IN IF m.kind = "low" THEN [r |-> -3, unit |-> m.c, st |-> Initial]
       ELSE IF r.r < 0 THEN [r |-> r.r, unit |-> -1, st |-> r.st]
       ELSE IF r.wc >= 65536
       THEN [r |-> r.r, unit |-> High(r.wc), st |-> [Initial EXCEPT !.kind = "low", !.c = Low(r.wc)]]
       ELSE [r |-> r.r, unit |-> r.wc, st |-> r.st]
\* [r, s, st]
c16rtomb(m, c) ==
    LET bad == [r |-> ILSEQ, s |-> <<>>, st |-> Initial]
        bytes(v) == [r |-> Len(wcrtomb(v)), s |-> wcrtomb(v), st |-> Initial]
    IN IF m.kind = "high"
       THEN IF ~Between(c, 56320, 57343) THEN bad ELSE bytes(65536 + (m.c - 55296) * 1024 + (c - 56320))
       ELSE IF Between(c, 55296, 56319) THEN [r |-> 0, s |-> <<>>, st |-> [Initial EXCEPT !.kind = "high", !.c = c]]
       ELSE IF Between(c, 56320, 57343) THEN [bad EXCEPT !.st = m]
       ELSE [bytes(c) EXCEPT !.st = m]

mbrtoc8(m, s) ==
    LET r == mbrtowc(m, s)
        b == wcrtomb(r.wc)
    IN IF m.kind = "c8out"
       THEN [r |-> -3, unit |-> Head(m.units),
             st |-> IF Len(m.units) = 1 THEN Initial ELSE [m EXCEPT !.units = Tail(@)]]
       ELSE IF r.r < 0 THEN [r |-> r.r, unit |-> -1, st |-> r.st]
       ELSE [r |-> r.r, unit |-> b[1],
             st |-> IF Len(b) > 1 THEN [r.st EXCEPT !.kind = "c8out", !.units = Tail(b)] ELSE r.st]
c8rtomb(m, c) ==
    LET b == Append(m.units, c)
        need == IF b[1] < 224 THEN 2 ELSE IF b[1] < 240 THEN 3 ELSE 4
        r == mbrtowc(Initial, b)
    IN IF m.kind # "c8in"
       THEN IF c < 128 THEN [r |-> 1, s |-> <<c>>, st |-> m]
            ELSE IF c < 194 \/ c > 244 THEN [r |-> ILSEQ, s |-> <<>>, st |-> m]
            ELSE [r |-> 0, s |-> <<>>, st |-> [Initial EXCEPT !.kind = "c8in", !.units = <<c>>]]
       ELSE IF r.r = ILSEQ THEN [r |-> ILSEQ, s |-> <<>>, st |-> Initial]
       ELSE IF Len(b) < need THEN [r |-> 0, s |-> <<>>, st |-> [m EXCEPT !.units = b]]
       ELSE [r |-> need, s |-> b, st |-> Initial]

-----------------------------------------------------------------------------
(* iconv.c *)

Sixteen == {"UTF16", "UTF16LE", "UTF16BE", "UCS2", "UCS2LE", "UCS2BE"}
Ucs2 == {"UCS2", "UCS2LE", "UCS2BE"}
EightBit == {"ASCII", "LATIN1", "LATIN9", "CP1252"}
iconv_open(j) == [from |-> j.from, to |-> j.to, flags |-> j.flags, in_be |-> FALSE, in_bom_done |-> FALSE, out_bom_done |-> FALSE]

\* the code points of the bytes 128..159, 0 for none; the bytes that LATIN9 has of its own
cp1252_hi == <<8364, 0, 8218, 402, 8222, 8230, 8224, 8225, 710, 8240, 352, 8249, 338, 0, 381, 0,
               0, 8216, 8217, 8220, 8221, 8226, 8211, 8212, 732, 8482, 353, 8250, 339, 0, 382, 376>>
latin9 == {<<164, 8364>>, <<166, 352>>, <<168, 353>>, <<180, 381>>, <<184, 382>>, <<188, 338>>, <<189, 339>>, <<190, 376>>}
\* A few of the table's rows, of one, two and three characters
tr == (8364 :> <<69, 85, 82>>) @@ (8216 :> <<39>>) @@ (338 :> <<79, 69>>) @@ (171 :> <<60, 60>>)
In9(u) == {r \in latin9 : r[2] = u}
Of9(b) == {r \in latin9 : r[1] = b}
In1252(u) == {k + 127 : k \in {k \in 1..32 : cp1252_hi[k] = u}}

get16(p, le) == IF le THEN p[1] + p[2] * 256 ELSE p[1] * 256 + p[2]
put16(v, le) == IF le THEN <<v % 256, v \div 256>> ELSE <<v \div 256, v % 256>>
\* 32-bit units as their two halves, most significant first; only those below 2^16 units are legal
get32(p, le) == IF le THEN <<get16(SubSeq(p, 3, 4), TRUE), get16(p, TRUE)>> ELSE <<get16(p, FALSE), get16(SubSeq(p, 3, 4), FALSE)>>
put32(v, le) == IF le THEN put16(v % 65536, TRUE) \o put16(v \div 65536, TRUE)
                ELSE put16(v \div 65536, FALSE) \o put16(v % 65536, FALSE)

RECURSIVE Utf8(_, _, _, _)
\* decode's UTF-8 loop: k bytes in all, i read so far
Utf8(s, k, i, v) ==
    IF i = k
    THEN IF (k = 3 /\ v < 2048) \/ (k = 4 /\ ~Between(v, 65536, 1114111)) \/ Surrogate(v) THEN <<-1, 0>> ELSE <<k, v>>
    ELSE IF i >= Len(s) THEN <<-2, 0>>
    ELSE IF ~Between(s[i + 1], 128, 191) THEN <<-1, 0>>
    ELSE Utf8(s, k, i + 1, v * Two6 + (s[i + 1] % Two6))

\* The code point of a byte of an 8-bit page, -1 for none
eight(from, b) ==
    CASE b < 128 \/ from = "LATIN1" -> b
      [] from = "ASCII" -> -1
      [] from = "LATIN9" -> IF Of9(b) = {} THEN b ELSE (CHOOSE r \in Of9(b) : TRUE)[2]
      [] OTHER -> IF b > 159 THEN b ELSE IF cp1252_hi[b - 127] = 0 THEN -1 ELSE cp1252_hi[b - 127]
\* [k, u, cd]: k bytes used, 0 for a byte order mark, -1 illegal, -2 incomplete
decode(c, s) ==
    LET b == s[1]
        got(k, u) == [k |-> k, u |-> u, cd |-> c]
        k8 == IF b >= 240 THEN 4 ELSE IF b >= 224 THEN 3 ELSE IF b >= 194 THEN 2 ELSE 0
        r8 == Utf8(s, k8, 1, b % (2^(7 - k8)))
        le == c.from \in {"UTF16LE", "UCS2LE", "UCS2", "UTF32LE", "UCS4LE", "WCHAR"} \/ (c.from \in {"UTF16", "UTF32"} /\ ~c.in_be)
        first == c.from \in {"UTF16", "UTF32"} /\ ~c.in_bom_done
        c1 == [c EXCEPT !.in_bom_done = @ \/ c.from \in {"UTF16", "UTF32"}]
        done(k, u) == [k |-> k, u |-> u, cd |-> c1]
        u == get16(s, le)
        l == get16(SubSeq(s, 3, 4), le)
        w == get32(s, le)
    IN CASE c.from = "UTF8" -> IF b < 128 THEN got(1, b) ELSE IF k8 = 0 \/ b > 244 THEN got(-1, 0) ELSE got(r8[1], r8[2])
         [] c.from \in EightBit -> IF eight(c.from, b) < 0 THEN got(-1, 0) ELSE got(1, eight(c.from, b))
         [] c.from \in Sixteen ->
              IF Len(s) < 2 THEN got(-2, 0)
              ELSE IF first /\ u = 65279 THEN done(0, 0)
              ELSE IF first /\ u = 65534 THEN [k |-> 0, u |-> 0, cd |-> [c1 EXCEPT !.in_be = TRUE]]
              ELSE IF c.from \in Ucs2 THEN IF Surrogate(u) THEN done(-1, 0) ELSE done(2, u)
              ELSE IF Between(u, 56320, 57343) THEN done(-1, 0)
              ELSE IF ~Between(u, 55296, 56319) THEN done(2, u)
              ELSE IF Len(s) < 4 THEN done(-2, 0)
              ELSE IF ~Between(l, 56320, 57343) THEN done(-1, 0)
              ELSE done(4, 65536 + (u - 55296) * 1024 + (l - 56320))
         [] OTHER ->
              IF Len(s) < 4 THEN got(-2, 0)
              ELSE IF first /\ w = <<0, 65279>> THEN done(0, 0)
              ELSE IF first /\ w = <<65534, 0>> THEN [k |-> 0, u |-> 0, cd |-> [c1 EXCEPT !.in_be = TRUE]]
              ELSE IF w[1] > 16 \/ (w[1] = 0 /\ Surrogate(w[2])) THEN done(-1, 0)
              ELSE done(4, w[1] * 65536 + w[2])

\* Mutant: the byte order mark counts as written before there is room.
encodeMarks(c, u, n) ==
    LET fits(o) == IF Len(o) > n THEN [w |-> -2, o |-> <<>>, cd |-> c] ELSE [w |-> Len(o), o |-> o, cd |-> c]
        none == [w |-> -1, o |-> <<>>, cd |-> c]
        page == CASE c.to = "ASCII" -> IF u < 128 THEN {u} ELSE {}
                  [] c.to = "LATIN1" -> IF u < 256 THEN {u} ELSE {}
                  [] c.to = "LATIN9" -> IF In9(u) # {} THEN {r[1] : r \in In9(u)} ELSE IF u < 256 /\ Of9(u) = {} THEN {u} ELSE {}
                  [] OTHER -> IF u < 128 \/ Between(u, 160, 255) THEN {u} ELSE In1252(u)
        le == c.to \notin {"UTF16BE", "UCS2BE", "UTF32BE", "UCS4"}
        unit(v) == IF c.to \in Sixteen THEN put16(v, le) ELSE put32(v, le)
        bom == IF c.to \in {"UTF16", "UTF32"} /\ ~c.out_bom_done THEN unit(65279) ELSE <<>>
        body == IF c.to \in Sixteen /\ u > 65535 THEN put16(High(u), le) \o put16(Low(u), le) ELSE unit(u)
        wide == fits(bom \o body)
    IN CASE c.to = "UTF8" -> fits(wcrtomb(u))
         [] c.to \in EightBit -> IF page = {} THEN none ELSE fits(<<CHOOSE b \in page : TRUE>>)
         [] c.to \in Ucs2 /\ u > 65535 -> none
         [] OTHER -> [wide EXCEPT !.cd.out_bom_done = @ \/ bom # <<>>]
\* [w, o, cd]: w bytes o written, -1 unrepresentable, -2 no room
encode(c, u, n) ==
    LET fits(o) == IF Len(o) > n THEN [w |-> -2, o |-> <<>>, cd |-> c] ELSE [w |-> Len(o), o |-> o, cd |-> c]
        none == [w |-> -1, o |-> <<>>, cd |-> c]
        page == CASE c.to = "ASCII" -> IF u < 128 THEN {u} ELSE {}
                  [] c.to = "LATIN1" -> IF u < 256 THEN {u} ELSE {}
                  [] c.to = "LATIN9" -> IF In9(u) # {} THEN {r[1] : r \in In9(u)} ELSE IF u < 256 /\ Of9(u) = {} THEN {u} ELSE {}
                  [] OTHER -> IF u < 128 \/ Between(u, 160, 255) THEN {u} ELSE In1252(u)
        le == c.to \notin {"UTF16BE", "UCS2BE", "UTF32BE", "UCS4"}
        unit(v) == IF c.to \in Sixteen THEN put16(v, le) ELSE put32(v, le)
        bom == IF c.to \in {"UTF16", "UTF32"} /\ ~c.out_bom_done THEN unit(65279) ELSE <<>>
        body == IF c.to \in Sixteen /\ u > 65535 THEN put16(High(u), le) \o put16(Low(u), le) ELSE unit(u)
        wide == fits(bom \o body)
    IN CASE c.to = "UTF8" -> fits(wcrtomb(u))
         [] c.to \in EightBit -> IF page = {} THEN none ELSE fits(<<CHOOSE b \in page : TRUE>>)
         [] c.to \in Ucs2 /\ u > 65535 -> none
         [] OTHER -> IF wide.w < 0 THEN wide ELSE [wide EXCEPT !.cd.out_bom_done = @ \/ bom # <<>>]

RECURSIVE EncodeAll(_, _, _)
EncodeAll(c, us, n) ==
    LET a == encode(c, Head(us), n)
        b == EncodeAll(a.cd, Tail(us), n - a.w)
    IN IF us = <<>> THEN [w |-> 0, o |-> <<>>, cd |-> c]
       ELSE IF a.w < 0 THEN a
       ELSE IF b.w < 0 THEN b
       ELSE [w |-> a.w + b.w, o |-> a.o \o b.o, cd |-> b.cd]
translit(c, u, n) ==
    LET r == EncodeAll(c, IF u \in DOMAIN tr THEN tr[u] ELSE <<63>>, n)
    IN IF r.w >= 0 THEN r ELSE IF r.w = -2 THEN [r EXCEPT !.cd = c] ELSE encode(c, 63, n)

\* One call with the input s and n bytes of room: [r, cd, used, o, irreversible]
RECURSIVE Loop(_, _, _, _, _)
Loop(c, s, n, irreversible, ignored) ==
    LET d == decode(c, s)
        e0 == encode(d.cd, d.u, n)
        lost == e0.w = -1
        e == IF lost /\ "TRANSLIT" \in c.flags THEN translit(d.cd, d.u, n) ELSE e0
        irr == irreversible + (IF lost THEN 1 ELSE 0)
        ends(r, cd) == [r |-> r, cd |-> cd, used |-> 0, o |-> <<>>]
        goes(cd, used, o, i, g) == LET x == Loop(cd, SubSeq(s, used + 1, Len(s)), n - Len(o), i, g)
                                   IN [x EXCEPT !.used = @ + used, !.o = o \o @]
    IN IF s = <<>> THEN IF ignored THEN ends("EILSEQ", c) ELSE ends(ToString(irreversible), c)
       ELSE IF d.k = -2 THEN ends("EINVAL", d.cd)
       ELSE IF d.k = -1 THEN IF "IGNORE" \in c.flags THEN goes(d.cd, 1, <<>>, irreversible, TRUE) ELSE ends("EILSEQ", d.cd)
       ELSE IF d.k = 0 THEN goes(d.cd, IF c.from \in Sixteen THEN 2 ELSE 4, <<>>, irreversible, ignored)
       ELSE IF lost /\ "TRANSLIT" \notin c.flags
       THEN IF "IGNORE" \in c.flags THEN goes(d.cd, d.k, <<>>, irr, TRUE) ELSE ends("EILSEQ", d.cd)
       ELSE IF e.w = -2 THEN ends("E2BIG", e.cd)
       ELSE goes(e.cd, d.k, e.o, irr, ignored)
iconv(c, s, n) == Loop(c, s, n, 0, FALSE)

-----------------------------------------------------------------------------
(* Callers, one job each: bytes fed to mbrtowc as they come; strings       *)
(* converted some characters at a time; UTF-8 taken apart into units and   *)
(* put together again; a text converted with bounded buffers.              *)

Jobs == {[op |-> "mb"], [op |-> "wide"], [op |-> "bytes"], [op |-> "c16"], [op |-> "c8"]} \cup Conversions
NoCall == [op |-> "none"]

\* The bytes of a code point, by encoding; an 8-bit page is what decode makes of its bytes
Page(from, u) == {b \in (IF u < 128 THEN {u} ELSE 128..255) : eight(from, b) = u}
Representable(to, u) == CASE to \in EightBit -> Page(to, u) # {} [] to \in Ucs2 -> u < 65536 [] OTHER -> TRUE
Spell(to, u) ==
    LET le == to \notin {"UTF16BE", "UCS2BE", "UTF32BE", "UCS4"}
    IN CASE to \in EightBit -> <<CHOOSE b \in Page(to, u) : TRUE>>
         [] to = "UTF8" -> wcrtomb(u)
         [] to \in Sixteen -> IF u > 65535 THEN put16(High(u), le) \o put16(Low(u), le) ELSE put16(u, le)
         [] OTHER -> put32(u, le)
Bad == -1      \* stands for job.bad, bytes that are no character
Source(j, text) ==
    LET from == IF j.bom = "be" THEN j.from \o "BE" ELSE j.from
        item(u) == IF u = Bad THEN j.bad ELSE Spell(from, u)
    IN (IF j.bom = "" THEN <<>> ELSE Spell(from, 65279)) \o FlattenSeq([k \in DOMAIN text |-> item(text[k])])
AllBytes(text) == FlattenSeq([k \in DOMAIN text |-> wcrtomb(text[k])])

Init == /\ job \in Jobs /\ seen = <<>> /\ out = <<>> /\ call = NoCall
        /\ st = IF job.op = "iconv" THEN [cd |-> iconv_open(job), at |-> 1, offered |-> 1, open |-> TRUE]
                ELSE IF job.op = "mb" THEN Initial
                ELSE [at |-> 1, from |-> Initial, to |-> Initial, open |-> TRUE]

\* mbrtowc: seen holds the bytes of an unfinished character
Feed(s) == LET r == Linked("mbrtowc", <<st, s>>)
           IN /\ st' = r.st /\ call' = [op |-> "mb", pend |-> seen, s |-> s, r |-> r.r, wc |-> r.wc]
              /\ seen' = IF r.r = INCOMPLETE THEN seen \o s ELSE <<>>
              /\ UNCHANGED <<job, out>>
Return == job.op = "mb" /\ call # NoCall /\ call' = NoCall /\ UNCHANGED <<job, st, seen, out>>
Write(u) == /\ job.op # "mb" /\ st.open /\ Len(seen) < MaxPoints
            /\ u = Bad => job.op = "iconv" /\ job.bad # <<>>
            /\ job.op = "iconv" /\ u # Bad => Linked("Representable", <<job.from, u>>)
            /\ seen' = Append(seen, u) /\ UNCHANGED <<job, st, out, call>>
Start == /\ job.op # "mb" /\ st.open /\ st' = [st EXCEPT !.open = FALSE] /\ UNCHANGED <<job, seen, out, call>>

\* at is the place the next call starts, 0 once the string is converted
Widen(n) == LET r == Linked("mbsrtowcs", <<st.from, Append(AllBytes(seen), 0), st.at, n>>)
            IN /\ job.op = "wide" /\ ~st.open /\ st.at # 0
               /\ st' = [st EXCEPT !.at = r.src, !.from = r.st] /\ out' = out \o r.ws
               /\ call' = [op |-> "wide", r |-> r.r, n |-> n, new |-> Len(r.ws)] /\ UNCHANGED <<job, seen>>
Narrow(n) == LET r == Linked("wcsrtombs", <<Append(seen, 0), st.at, n>>)
             IN /\ job.op = "bytes" /\ ~st.open /\ st.at # 0
                /\ st' = [st EXCEPT !.at = r.src] /\ out' = out \o r.s
                /\ call' = [op |-> "bytes", r |-> r.r, n |-> n, new |-> Len(r.s)] /\ UNCHANGED <<job, seen>>
\* n more bytes to mbrtoc16 or mbrtoc8, and the unit it gives to the inverse
Unit(n) ==
    LET b == AllBytes(seen)
        s == IF st.at + n - 1 <= Len(b) THEN SubSeq(b, st.at, st.at + n - 1) ELSE <<>>
        pending == st.from.kind # ""
        r == Linked(IF job.op = "c16" THEN "mbrtoc16" ELSE "mbrtoc8", <<st.from, s>>)
        w == Linked(IF job.op = "c16" THEN "c16rtomb" ELSE "c8rtomb", <<st.to, r.unit>>)
        used == IF r.r = -3 THEN 0 ELSE IF r.r = INCOMPLETE THEN n ELSE r.r
    IN /\ job.op \in {"c16", "c8"} /\ ~st.open /\ (pending \/ st.at + n - 1 <= Len(b))
       /\ st' = [st EXCEPT !.at = @ + used, !.from = r.st, !.to = IF r.r = INCOMPLETE THEN @ ELSE w.st]
       /\ out' = IF r.r = INCOMPLETE THEN out ELSE out \o w.s
       /\ call' = [op |-> job.op, r |-> r.r, w |-> IF r.r = INCOMPLETE THEN 0 ELSE w.r]
       /\ UNCHANGED <<job, seen>>
\* iconv with the input up to some byte and n bytes of room; the caller stops at an error that
\* more input or more room does not cure
Convert(upto, n) ==
    LET b == Linked("Source", <<job, seen>>)
        r == Linked("iconv", <<st.cd, SubSeq(b, st.at, upto), n>>)
    IN /\ st.at <= upto
       /\ (call # NoCall /\ call.r = "EILSEQ") => "IGNORE" \in job.flags
       /\ st' = [st EXCEPT !.cd = r.cd, !.at = @ + r.used, !.offered = upto] /\ out' = out \o r.o
       /\ call' = [op |-> "iconv", r |-> r.r, n |-> n, new |-> Len(r.o)] /\ UNCHANGED <<job, seen>>
\* iconv with no input: back to the initial state, for another text
Reset == /\ job.op = "iconv" /\ ~st.open /\ st.at = Len(Linked("Source", <<job, seen>>)) + 1 /\ call # NoCall
         /\ st' = [st EXCEPT !.cd = [@ EXCEPT !.in_be = FALSE, !.in_bom_done = FALSE, !.out_bom_done = FALSE], !.at = 1, !.offered = 1]
         /\ out' = <<>> /\ call' = NoCall /\ UNCHANGED <<job, seen>>

Chunks == UNION {[1..n -> Bytes] : n \in 1..MaxChunk}
Next == \/ job.op = "mb" /\ call = NoCall /\ (\E s \in Chunks : Feed(s))
        \/ Return
        \/ \E u \in Points \cup {Bad} : Write(u)
        \/ Start
        \/ \E n \in 1..2 : Widen(n)
        \/ \E n \in Rooms : Narrow(n)
        \/ \E n \in 1..4 : Unit(n)
        \/ job.op = "iconv" /\ ~st.open /\ (\E upto \in st.offered..Len(Linked("Source", <<job, seen>>)), n \in Rooms : Convert(upto, n))
        \/ Reset
Spec == Init /\ [][Next]_vars

-----------------------------------------------------------------------------
(* What the standards promise *)

Value(b) == CASE Len(b) = 1 -> b[1]
              [] Len(b) = 2 -> (b[1] - 192) * 64 + (b[2] - 128)
              [] Len(b) = 3 -> (b[1] - 224) * 4096 + (b[2] - 128) * 64 + (b[3] - 128)
              [] OTHER -> (b[1] - 240) * 262144 + (b[2] - 128) * 4096 + (b[3] - 128) * 64 + (b[4] - 128)
IsEncoding(b) == Len(b) \in 1..4 /\ wcrtomb(Value(b)) = b
\* Continuation bytes at the edges of every range the standard's table has
Edges == {128, 143, 144, 159, 160, 191}
Completes(b) == \E n \in 0..3 : \E x \in [1..n -> Edges] : IsEncoding(b \o x)
\* However the bytes are cut into calls, mbrtowc recognises exactly the shortest well-formed UTF-8
\* sequence (no overlong form, no surrogate, nothing past U+10FFFF), says "incomplete" only while one
\* can still come, and "illegal" as soon as none can.
DecodesTrue ==
    call.op = "mb" =>
       LET all == call.pend \o call.s
           ks == {k \in 1..Len(all) : IsEncoding(SubSeq(all, 1, k))}
           k == CHOOSE x \in ks : TRUE
       IN IF ks # {} THEN /\ call.wc = Value(SubSeq(all, 1, k)) /\ mbsinit(st)
                          /\ call.r = IF call.wc = 0 THEN 0 ELSE k - Len(call.pend)
          ELSE call.r = IF Completes(all) THEN INCOMPLETE ELSE ILSEQ
\* A string converted a few elements at a time, with a restart at whatever src was left at, comes out
\* whole and in order, and a call stops early only at its end or when the next character does not
\* fit; UTF-8 taken apart by mbrtoc16 or mbrtoc8 and handed unit by unit to the inverse is itself.
RoundTrips ==
    LET b == AllBytes(seen)
        whole == IF job.op = "wide" THEN Append(seen, 0) ELSE IF job.op = "bytes" THEN Append(b, 0) ELSE b
        left == call.n - call.new
    IN job.op \in {"wide", "bytes", "c16", "c8"} =>
       /\ IsPrefix(out, whole)
       /\ job.op \in {"wide", "bytes"} =>
             /\ (st.at = 0) <=> (out = whole)
             /\ (call # NoCall /\ st.at # 0) => left < (IF job.op = "wide" THEN 1 ELSE Len(wcrtomb(Append(seen, 0)[st.at])))
             /\ call # NoCall => call.r = call.new - (IF st.at = 0 THEN 1 ELSE 0)
       /\ job.op \in {"c16", "c8"} =>
             /\ call # NoCall => call.r # ILSEQ /\ call.w # ILSEQ
             /\ (st.at = Len(b) + 1 /\ mbsinit(st.from)) => out = whole /\ mbsinit(st.to)
\* What one item of a text becomes; <<>> when it is dropped
Item(j, u) == IF u = Bad THEN <<>>
              ELSE IF Representable(j.to, u) THEN Spell(j.to, u)
              ELSE IF "TRANSLIT" \in j.flags
              THEN FlattenSeq([k \in DOMAIN (IF u \in DOMAIN tr THEN tr[u] ELSE <<63>>) |-> Spell(j.to, (IF u \in DOMAIN tr THEN tr[u] ELSE <<63>>)[k])])
              ELSE <<>>
Stops(j, u) == "IGNORE" \notin j.flags /\ (u = Bad \/ (~Representable(j.to, u) /\ "TRANSLIT" \notin j.flags))
\* However input and room are rationed out, iconv produces the text item by item: never a byte twice
\* or out of order after E2BIG or EINVAL, one byte order mark in all, EILSEQ exactly at the first item
\* that has no counterpart, E2BIG only when the next item really does not fit.
ConvertsTrue ==
    job.op = "iconv" =>
       LET marks == IF job.to \in {"UTF16", "UTF32"} THEN Spell(job.to, 65279) ELSE <<>>
           stop == {k \in DOMAIN seen : Linked("Stops", <<job, seen[k]>>)}
           good == IF stop = {} THEN Len(seen) ELSE (CHOOSE k \in stop : \A x \in stop : k <= x) - 1
           items == [x \in 1..good |-> Linked("Item", <<job, seen[x]>>)]
           upto(k) == LET o == FlattenSeq(SubSeq(items, 1, k)) IN IF o = <<>> THEN o ELSE marks \o o
           from == [k \in 0..Len(seen) |-> Len(Linked("Source", <<job, SubSeq(seen, 1, k)>>)) + 1]
       IN /\ IsPrefix(out, upto(good))
          /\ st.at = from[Len(seen)] => out = upto(good) /\ good = Len(seen)
          /\ call # NoCall =>
               /\ call.new <= call.n
               /\ call.r = "EILSEQ" /\ "IGNORE" \notin job.flags => st.at = from[good] /\ out = upto(good)
               /\ call.r = "E2BIG" => \E k \in 1..good : /\ st.at = from[k - 1] /\ out = upto(k - 1)
                                                       /\ Len(upto(k)) > Len(out) + call.n - call.new
               /\ call.r = "EINVAL" => \E k \in 0..Len(seen) : st.at = (IF k = 0 THEN 1 ELSE from[k - 1]) /\ st.offered < from[k] - 1
               /\ call.r \notin {"EILSEQ", "E2BIG", "EINVAL"} => st.at = st.offered + 1
=============================================================================
