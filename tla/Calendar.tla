------------------------------ MODULE Calendar ------------------------------
(***************************************************************************)
(* Broken-down time and time zones: timeconv.c and tz.c.  Instants are     *)
(* seconds, days count from 1970-01-01.  A text is a sequence of tokens:   *)
(* one character each, except that the name of a day or a month is its     *)
(* abbreviation and the rest, and the name of a zone is one token.  Letter *)
(* case is left out (strftime's ^ flag; strptime ignores case).            *)
(***************************************************************************)
EXTENDS Integers, Sequences, FiniteSets, SequencesExt

CONSTANTS
    Zones,        \* the values TZ takes: name -> text, Unset for none
    Files,        \* path -> the TZif file found there
    ZoneNames,    \* tokens a POSIX rule may use unquoted: 3 to 15 letters
    KeyMax,       \* the tokens of TZ that Z.key keeps (255 characters)
    YearMax,      \* INT_MAX, for tm_year
    TimeMax,      \* localtime_r refuses instants beyond this (2^60)
    MAX_TIMES,    \* transitions a file may have
    Instants,     \* the instants looked up
    Shifts,       \* the seconds added to a broken-down time before mktime
    Walks,        \* days a walk over the calendar starts at: {[left, day, y, m, d, wday, yday]}
    Formats,      \* strftime and strptime formats
    Buffers,      \* buffer sizes given to strftime
    Linked(_, _)  \* the module's larger functions, by name and arguments

VARIABLES TZ, secure, Z, today, call
vars == <<TZ, secure, Z, today, call>>

Unset == <<"\\001unset">>
At(s, i) == IF i <= Len(s) THEN s[i] ELSE ""
FirstOf(S) == CHOOSE e \in S : \A d \in S : e <= d
Span(s, i, P(_)) == FirstOf({k \in i..(Len(s) + 1) : k > Len(s) \/ ~P(s[k])} \cup (IF i > Len(s) THEN {i} ELSE {}))
Figures == <<"0", "1", "2", "3", "4", "5", "6", "7", "8", "9">>
IsDigit(c) == c \in ToSet(Figures)
Value(s) == FoldLeft(LAMBDA n, c : 10 * n + (CHOOSE k \in 0..9 : Figures[k + 1] = c), 0, s)
RECURSIVE Digits(_)
Digits(u) == IF u < 10 THEN <<Figures[u + 1]>> ELSE Append(Digits(u \div 10), Figures[(u % 10) + 1])
isspace(c) == c \in {" ", "NL", "TAB"}

\* C's division and remainder, which truncate
Quot(a, b) == IF a >= 0 THEN a \div b ELSE -((-a) \div b)
Rem(a, b) == a - b * Quot(a, b)

-----------------------------------------------------------------------------
(* The calendar *)

__is_leap(y) == (y % 4 = 0 /\ y % 100 # 0) \/ y % 400 = 0
__days_from_civil(y0, m, d) ==
    LET y == IF m <= 2 THEN y0 - 1 ELSE y0
        era == Quot(IF y >= 0 THEN y ELSE y - 399, 400)
        yoe == y - era * 400
        doy == ((153 * (m + (IF m > 2 THEN -3 ELSE 9)) + 2) \div 5) + d - 1
    IN era * 146097 + yoe * 365 + (yoe \div 4) - (yoe \div 100) + doy - 719468

\* secs_to_tm's date, [y, m, d], of a day
Civil(days) ==
    LET z == days + 719468
        era == Quot(IF z >= 0 THEN z ELSE z - 146096, 146097)
        doe == z - era * 146097
        yoe == (doe - (doe \div 1460) + (doe \div 36524) - (doe \div 146096)) \div 365
        doy == doe - (365 * yoe + (yoe \div 4) - (yoe \div 100))
        mp == (5 * doy + 2) \div 153
        m == IF mp < 10 THEN mp + 3 ELSE mp - 9
    IN [y |-> yoe + era * 400 + (IF m <= 2 THEN 1 ELSE 0), m |-> m, d |-> doy - ((153 * mp + 2) \div 5) + 1]

\* A broken-down time, or err = "EOVERFLOW"
DateTm(days, rem) ==
    LET c == Civil(days)
    IN [err |-> IF c.y - 1900 \in (-YearMax - 1)..YearMax THEN "" ELSE "EOVERFLOW",
        year |-> c.y - 1900, mon |-> c.m - 1, mday |-> c.d,
        yday |-> days - __days_from_civil(c.y, 1, 1), wday |-> (Rem(days, 7) + 11) % 7,
        hour |-> rem \div 3600, min |-> (rem \div 60) % 60, sec |-> rem % 60]
secs_to_tm(t) ==
    LET r == Rem(t, 86400)
    IN IF r < 0 THEN DateTm(Quot(t, 86400) - 1, r + 86400) ELSE DateTm(Quot(t, 86400), r)

Zoned(tm, isdst, off, zone) == [isdst |-> isdst, gmtoff |-> off, zone |-> zone] @@ tm
gmtime_r(t) == Zoned(secs_to_tm(t), 0, 0, "GMT")

\* The fields read as UTC and normalised: [ok, t]
tm_to_secs(tm) ==
    LET mon == Rem(tm.mon, 12)
        y == tm.year + 1900 + Quot(tm.mon, 12)
        days == IF mon < 0 THEN __days_from_civil(y - 1, mon + 13, 1) ELSE __days_from_civil(y, mon + 1, 1)
    IN (days + tm.mday - 1) * 86400 + tm.hour * 3600 + tm.min * 60 + tm.sec
timegm(tm) == LET t == tm_to_secs(tm) IN IF gmtime_r(t).err # "" THEN [err |-> "EOVERFLOW", t |-> -1]
                                         ELSE [err |-> "", t |-> t, tm |-> gmtime_r(t)]

-----------------------------------------------------------------------------
(* POSIX TZ strings: a parser takes (s, i) to [ok, v, end] *)

Bad == [ok |-> FALSE]
Good(v, end) == [ok |-> TRUE, v |-> v, end |-> end]

parse_name(s, i) ==
    IF At(s, i) = "<"
    THEN LET e == Span(s, i + 1, LAMBDA c : c # ">")
         IN IF e = i + 2 /\ At(s, e) = ">" /\ Len(s[i + 1]) \in 3..15 THEN Good(s[i + 1], e + 1) ELSE Bad
    ELSE IF At(s, i) \in ZoneNames THEN Good(s[i], i + 1) ELSE Bad

\* A run of digits, or -1 where there is none
Count(s, i, e) == IF e > i THEN Value(SubSeq(s, i, e - 1)) ELSE -1
parse_hms(s, i0) ==
    LET i == IF At(s, i0) \in {"+", "-"} THEN i0 + 1 ELSE i0
        e1 == Span(s, i, IsDigit)
        m == At(s, e1) = ":"
        e2 == IF m THEN Span(s, e1 + 1, IsDigit) ELSE e1
        x == m /\ e2 > e1 + 1 /\ At(s, e2) = ":"
        e3 == IF x THEN Span(s, e2 + 1, IsDigit) ELSE e2
        hh == Count(s, i, e1)
        mm == IF m THEN Count(s, e1 + 1, e2) ELSE 0
        ss == IF x THEN Count(s, e2 + 1, e3) ELSE 0
    IN IF hh \notin 0..167 \/ mm \notin 0..59 \/ ss \notin 0..59 THEN Bad
       ELSE Good((hh * 3600 + mm * 60 + ss) * (IF At(s, i0) = "-" THEN -1 ELSE 1), e3)

parse_num(s, i, lo, hi) ==
    LET e == Span(s, i, IsDigit) IN IF Count(s, i, e) \in lo..hi THEN Good(Count(s, i, e), e) ELSE Bad

Numbered(kind, p) == [ok |-> p.ok, v |-> IF p.ok THEN [kind |-> kind, n |-> p.v] ELSE <<>>, end |-> IF p.ok THEN p.end ELSE 0]
MonthWeekDay(s, i) ==
    LET m == parse_num(s, i, 1, 12)
        w == IF m.ok /\ At(s, m.end) = "." THEN parse_num(s, m.end + 1, 1, 5) ELSE Bad
        d == IF w.ok /\ At(s, w.end) = "." THEN parse_num(s, w.end + 1, 0, 6) ELSE Bad
    IN IF d.ok THEN Good([kind |-> "M", m |-> m.v, w |-> w.v, d |-> d.v], d.end) ELSE Bad
parse_date(s, i) ==
    LET date == CASE At(s, i) = "J" -> Numbered("J", parse_num(s, i + 1, 1, 365))
                  [] At(s, i) = "M" -> MonthWeekDay(s, i + 1)
                  [] OTHER -> Numbered("D", parse_num(s, i, 0, 365))
        time == IF date.ok /\ At(s, date.end) = "/" THEN parse_hms(s, date.end + 1) ELSE Good(7200, 0)
        end == IF At(s, date.end) = "/" THEN time.end ELSE date.end
    IN IF date.ok /\ time.ok THEN Good([secs |-> time.v] @@ date.v, end) ELSE Bad

US(m, w) == [kind |-> "M", m |-> m, w |-> w, d |-> 0, secs |-> 7200]
Within24(p) == p.ok /\ p.v \in (-24 * 3600)..(24 * 3600)
NoRule == [valid |-> FALSE]
parse_posix(s) ==
    LET std == parse_name(s, 1)
        off == IF std.ok THEN parse_hms(s, std.end) ELSE Bad
        one == [valid |-> TRUE, std |-> std.v, std_off |-> -off.v, has_dst |-> FALSE]
        dst == parse_name(s, off.end)
        plain == At(s, dst.end) \in {"", ","}
        off2 == IF plain THEN Good(off.v - 3600, dst.end) ELSE parse_hms(s, dst.end)
        start == parse_date(s, off2.end + 1)
        end == IF start.ok /\ At(s, start.end) = "," THEN parse_date(s, start.end + 1) ELSE Bad
        two(from, to) == [has_dst |-> TRUE, dst |-> dst.v, dst_off |-> -off2.v, start |-> from, end |-> to] @@ one
    IN IF ~std.ok \/ ~Within24(off) THEN NoRule
       ELSE IF off.end > Len(s) THEN one
       ELSE IF ~dst.ok \/ (~plain /\ ~Within24(off2)) THEN NoRule
       ELSE IF off2.end > Len(s) THEN two(US(3, 2), US(11, 1))
       ELSE IF At(s, off2.end) # "," \/ ~end.ok \/ end.end <= Len(s) THEN NoRule
       ELSE two(start.v, end.v)

MonthLength(m, y) == IF m = 2 /\ __is_leap(y) THEN 29 ELSE <<31, 28, 31, 30, 31, 30, 31, 31, 30, 31, 30, 31>>[m]
\* Mutant: Jn does not skip 29 February.
rule_timePlain(y, d) ==
    LET first == __days_from_civil(y, d.m, 1)
        delta == (d.d - ((Rem(first, 7) + 11) % 7) + 7) % 7
        last == CHOOSE k \in 0..(d.w - 1) : /\ 1 + delta + 7 * k <= MonthLength(d.m, y)
                                           /\ (k = d.w - 1 \/ 1 + delta + 7 * (k + 1) > MonthLength(d.m, y))
        day == CASE d.kind = "J" -> d.n - 1
                 [] d.kind = "D" -> d.n
                 [] OTHER -> first - __days_from_civil(y, 1, 1) + delta + 7 * last
    IN day * 86400 + d.secs
rule_time(y, d) ==
    LET first == __days_from_civil(y, d.m, 1)
        delta == (d.d - ((Rem(first, 7) + 11) % 7) + 7) % 7
        last == CHOOSE k \in 0..(d.w - 1) : /\ 1 + delta + 7 * k <= MonthLength(d.m, y)
                                           /\ (k = d.w - 1 \/ 1 + delta + 7 * (k + 1) > MonthLength(d.m, y))
        day == CASE d.kind = "J" -> d.n - 1 + (IF __is_leap(y) /\ d.n >= 60 THEN 1 ELSE 0)
                 [] d.kind = "D" -> d.n
                 [] OTHER -> first - __days_from_civil(y, 1, 1) + delta + 7 * last
    IN day * 86400 + d.secs

\* [off, isdst, name] at t under a rule
rule_lookup(r, t) ==
    LET days == (t + r.std_off) \div 86400
        near == 1970 + Quot(IF days >= 0 THEN days * 400 ELSE days * 400 - 146096, 146097)
        year == CHOOSE y \in (near - 1)..(near + 1) : __days_from_civil(y, 1, 1) <= days
                                                   /\ days < __days_from_civil(y + 1, 1, 1)
        pre == year < 1970
        y == IF pre THEN 1970 ELSE year
        y0 == __days_from_civil(y, 1, 1) * 86400
        start == y0 + rule_time(y, r.start) - r.std_off
        end == y0 + rule_time(y, r.end) - r.dst_off
        in_dst == IF pre THEN start > end
                  ELSE IF start < end THEN start <= t /\ t < end ELSE ~(end <= t /\ t < start)
    IN IF r.has_dst /\ in_dst THEN [off |-> r.dst_off, isdst |-> 1, name |-> r.dst]
       ELSE [off |-> r.std_off, isdst |-> 0, name |-> r.std]

-----------------------------------------------------------------------------
(* The loaded zone Z: times, idx and types of a file, and a rule *)

UTC == [valid |-> TRUE, std |-> "UTC", std_off |-> 0, has_dst |-> FALSE]
Loaded(times, idx, types, rule) == [ok |-> TRUE, times |-> times, idx |-> idx, types |-> types, rule |-> rule]
set_utc == Loaded(<<>>, <<>>, <<>>, UTC)

\* A file is [whole, blocks, footer]: one block in version 1, two from version 2 on, and a
\* block [fits, times, idx, types].
load_tzif(path) ==
    LET f == Files[path]
        b == f.blocks[Len(f.blocks)]
        BlockOk(k) == k.fits /\ Len(k.times) <= MAX_TIMES /\ Len(k.types) > 0
    IN IF path \notin DOMAIN Files THEN [ok |-> FALSE]
       ELSE IF /\ f.whole
               /\ \A k \in DOMAIN f.blocks : BlockOk(f.blocks[k])
               /\ \A k \in DOMAIN b.idx : b.idx[k] \in DOMAIN b.types
               /\ \A k \in DOMAIN b.types : b.types[k].off \in (-25 * 3600)..(26 * 3600)
               /\ \A k \in 2..Len(b.times) : b.times[k - 1] < b.times[k]
       THEN Loaded(b.times, b.idx, b.types, IF Len(f.blocks) = 2 THEN parse_posix(f.footer) ELSE NoRule)
       ELSE [ok |-> FALSE]

safe_name(name, suid) == ~suid \/ (At(name, 1) # "/" /\ ".." \notin ToSet(name))

Zoneinfo == <<"/", "zoneinfo", "/">>
\* The zone a value of TZ names, to a set-user-ID program or to another
Load(tz, suid) ==
    LET rule == parse_posix(tz)
        name == IF tz = Unset THEN <<"/", "localtime">> ELSE IF tz[1] = ":" THEN Tail(tz) ELSE tz
        file == IF tz # Unset /\ ~safe_name(name, suid) THEN [ok |-> FALSE]
                ELSE load_tzif(IF At(name, 1) = "/" THEN name ELSE Zoneinfo \o name)
    IN IF tz = <<>> THEN set_utc
       ELSE IF tz # Unset /\ tz[1] # ":" /\ rule.valid THEN Loaded(<<>>, <<>>, <<>>, rule)
       ELSE IF file.ok THEN file ELSE set_utc

\* tzname, timezone and daylight of a zone: the types in transition order
Globals(z) ==
    LET types == <<z.types[1]>> \o [k \in DOMAIN z.idx |-> z.types[z.idx[k]]]
        step(g, ty) == IF ty.isdst = 1 THEN [g EXCEPT !.tzname[2] = ty.abbr, !.daylight = 1]
                       ELSE [g EXCEPT !.tzname[1] = ty.abbr, !.timezone = -ty.off]
        g == FoldLeft(step, [tzname |-> <<types[1].abbr, types[1].abbr>>, timezone |-> -types[1].off, daylight |-> 0], types)
    IN IF z.types # <<>> THEN IF g.daylight = 1 THEN g ELSE [g EXCEPT !.tzname[2] = g.tzname[1]]
       ELSE [tzname |-> <<z.rule.std, IF z.rule.has_dst THEN z.rule.dst ELSE z.rule.std>>,
             timezone |-> -z.rule.std_off, daylight |-> IF z.rule.has_dst THEN 1 ELSE 0]

\* Mutant: the zone is loaded once, whatever becomes of TZ.
do_tzsetOnce == LET tz == Zones[TZ]
                zone == Linked("Load", <<Zones[TZ], secure>>)
            IN IF Z.loaded THEN Z
               ELSE [loaded |-> TRUE, key |-> SubSeq(tz, 1, IF Len(tz) < KeyMax THEN Len(tz) ELSE KeyMax),
                     zone |-> zone, globals |-> Globals(zone)]
do_tzset == LET tz == Zones[TZ]
                zone == Linked("Load", <<Zones[TZ], secure>>)
            IN IF Z.loaded /\ Z.key = tz THEN Z
               ELSE [loaded |-> TRUE, key |-> SubSeq(tz, 1, IF Len(tz) < KeyMax THEN Len(tz) ELSE KeyMax),
                     zone |-> zone, globals |-> Globals(zone)]

\* The local time type in force at t in the zone z; the zone is the one do_tzset leaves
\* loaded, throughout a call
__tz_lookup(z, t) ==
    LET of(ty) == [off |-> ty.off, isdst |-> ty.isdst, name |-> ty.abbr]
        std == {k \in DOMAIN z.types : z.types[k].isdst = 0}
        n == Len(z.times)
        lo == CHOOSE k \in 1..n : z.times[k] <= t /\ (k = n \/ t < z.times[k + 1])
    IN IF n > 0 /\ (t < z.times[n] \/ ~z.rule.valid)
       THEN IF t < z.times[1] THEN of(z.types[IF std = {} THEN 1 ELSE FirstOf(std)]) ELSE of(z.types[z.idx[lo]])
       ELSE IF z.rule.valid THEN rule_lookup(z.rule, t)
       ELSE of(z.types[1])

localtime_r(z, t) ==
    LET l == __tz_lookup(z, t)
    IN IF t \notin (-TimeMax)..TimeMax THEN [err |-> "EOVERFLOW"]
       ELSE Zoned(secs_to_tm(t + l.off), l.isdst, l.off, l.name)

\* The first offset of the wanted kind, probing outward from t: [ok, off]
find_kind(z, t, want) ==
    LET probe == [k \in 0..49 |-> __tz_lookup(z, t + (IF k % 2 = 0 THEN -1 ELSE 1) * 15 * 86400 * (k \div 2))]
        hits == {k \in 0..49 : probe[k].isdst = want}
    IN IF hits = {} THEN [ok |-> FALSE] ELSE [ok |-> TRUE, off |-> probe[FirstOf(hits)].off]

\* The local time types within two days of L, in the order met: sequences of [off, isdst]
Types(z, L) ==
    LET ty == [k \in 1..5 |-> LET l == __tz_lookup(z, L + (k - 3) * 86400) IN [off |-> l.off, isdst |-> l.isdst]]
    IN FoldLeft(LAMBDA q, t : IF t \in ToSet(q) THEN q ELSE Append(q, t), <<>>, ty)
Consistent(z, L, off) == __tz_lookup(z, L - off).off = off

\* mktime's offset for the local time L when the caller says which kind it is ...
KindOffset(z, L, want) ==
    LET ty == Types(z, L)
        kind == {k \in DOMAIN ty : ty[k].isdst = want}
        good == {k \in kind : Consistent(z, L, ty[k].off)}
        l == __tz_lookup(z, L - ty[1].off)
        f == find_kind(z, L - l.off, want)
    IN IF good # {} THEN ty[FirstOf(good)].off
       ELSE IF kind # {} THEN ty[FirstOf(kind)].off
       ELSE IF f.ok THEN f.off
       ELSE l.off + (IF l.isdst = want THEN 0 ELSE IF want = 1 THEN 3600 ELSE -3600)
\* ... and when it does not (tm_isdst < 0)
AnyOffset(z, L) ==
    LET ty == Types(z, L)
        good == {k \in DOMAIN ty : Consistent(z, L, ty[k].off)}
        std == {k \in good : ty[k].isdst = 0}
    IN IF std # {} THEN ty[FirstOf(std)].off
       ELSE IF good # {} THEN ty[FirstOf(good)].off
       ELSE FirstOf({ty[k].off : k \in DOMAIN ty})
mktime(z, tm) ==
    LET L == tm_to_secs(tm)
        tt == L - (IF tm.isdst >= 0 THEN KindOffset(z, L, IF tm.isdst > 0 THEN 1 ELSE 0) ELSE AnyOffset(z, L))
        n == localtime_r(z, tt)
    IN IF n.err # "" THEN [err |-> "EOVERFLOW", t |-> -1] ELSE [err |-> "", t |-> tt, tm |-> n]

-----------------------------------------------------------------------------
(* strftime *)

wday_name == << <<"Sun", "day">>, <<"Mon", "day">>, <<"Tue", "sday">>, <<"Wed", "nesday">>, <<"Thu", "rsday">>,
                <<"Fri", "day">>, <<"Sat", "urday">> >>
mon_name == << <<"Jan", "uary">>, <<"Feb", "ruary">>, <<"Mar", "ch">>, <<"Apr", "il">>, <<"May">>, <<"Jun", "e">>,
               <<"Jul", "y">>, <<"Aug", "ust">>, <<"Sep", "tember">>, <<"Oct", "ober">>, <<"Nov", "ember">>, <<"Dec", "ember">> >>
NameTokens == UNION {ToSet(n) : n \in ToSet(wday_name) \cup ToSet(mon_name)}
Chars(text) == FoldLeft(LAMBDA n, c : n + (IF c \in {"NL", "TAB"} THEN 1 ELSE Len(c)), 0, text)

\* Mutant: every 53rd week belongs to its year.
iso_weekLong(tm) ==
    LET y == tm.year + 1900
        wday == (tm.wday + 6) % 7
        len(yr) == IF __is_leap(yr) THEN 366 ELSE 365
        week == Quot(tm.yday - wday + 10, 7)
    IN IF week < 1 THEN [week |-> Quot(tm.yday + len(y - 1) - wday + 10, 7), year |-> y - 1]
       ELSE [week |-> week, year |-> y]
\* [week, year] of ISO 8601
iso_week(tm) ==
    LET y == tm.year + 1900
        wday == (tm.wday + 6) % 7
        len(yr) == IF __is_leap(yr) THEN 366 ELSE 365
        week == Quot(tm.yday - wday + 10, 7)
    IN IF week < 1 THEN [week |-> Quot(tm.yday + len(y - 1) - wday + 10, 7), year |-> y - 1]
       ELSE IF week = 53 /\ tm.yday - wday + 3 >= len(y) THEN [week |-> 1, year |-> y + 1]
       ELSE [week |-> week, year |-> y]

\* Mutant: no place is left for the terminating byte.
putFull(b, text) == IF Chars(b.text) + Chars(text) > b.max THEN [b EXCEPT !.full = TRUE]
                ELSE [b EXCEPT !.text = @ \o text]
put(b, text) == IF Chars(b.text) + Chars(text) >= b.max THEN [b EXCEPT !.full = TRUE]
                ELSE [b EXCEPT !.text = @ \o text]
Fill(c, n) == IF n > 0 THEN [k \in 1..n |-> c] ELSE <<>>
put_num(b, v, width, pad) ==
    LET digits == Digits(IF v < 0 THEN -v ELSE v)
        sign == IF v < 0 THEN <<"-">> ELSE <<>>
        missing == width - Len(digits) - Len(sign)
        upto(n) == IF missing < n THEN missing ELSE n       \* tmp has 32 characters
    IN put(b, CASE pad = "0" -> sign \o Fill("0", upto(31 - Len(digits))) \o digits
                [] pad = " " -> Fill(" ", upto(32 - Len(digits) - Len(sign))) \o sign \o digits
                [] OTHER -> sign \o digits)

HMS == <<"%", "H", ":", "%", "M", ":", "%", "S">>
MDY == <<"%", "m", "/", "%", "d", "/", "%", "y">>
\* The conversions that stand for a format, in strftime and in strptime
Short == ("c" :> <<"%", "a", " ", "%", "b", " ", "%", "e", " ">> \o HMS \o <<" ", "%", "Y">>) @@ ("D" :> MDY) @@ ("x" :> MDY)
         @@ ("F" :> <<"%", "Y", "-", "%", "m", "-", "%", "d">>) @@ ("r" :> <<"%", "I", ":", "%", "M", ":", "%", "S", " ", "%", "p">>)
         @@ ("R" :> <<"%", "H", ":", "%", "M">>) @@ ("T" :> HMS) @@ ("X" :> HMS)

Twelve(h) == IF h % 12 = 0 THEN 12 ELSE h % 12
\* A numeric conversion's value, default width and default padding
Numeric(z, c, tm) ==
    LET year == tm.year + 1900
    IN CASE c = "C" -> <<year \div 100, 2, "0">>           [] c = "d" -> <<tm.mday, 2, "0">>
         [] c = "e" -> <<tm.mday, 2, " ">>                  [] c = "g" -> <<iso_week(tm).year % 100, 2, "0">>
         [] c = "G" -> <<iso_week(tm).year, 0, "0">>        [] c = "H" -> <<tm.hour, 2, "0">>
         [] c = "I" -> <<Twelve(tm.hour), 2, "0">>          [] c = "j" -> <<tm.yday + 1, 3, "0">>
         [] c = "k" -> <<tm.hour, 2, " ">>                  [] c = "l" -> <<Twelve(tm.hour), 2, " ">>
         [] c = "m" -> <<tm.mon + 1, 2, "0">>               [] c = "M" -> <<tm.min, 2, "0">>
         [] c = "s" -> <<mktime(z, tm).t, 0, "">>           [] c = "S" -> <<tm.sec, 2, "0">>
         [] c = "u" -> <<IF tm.wday = 0 THEN 7 ELSE tm.wday, 1, "0">>
         [] c = "U" -> <<(tm.yday + 7 - tm.wday) \div 7, 2, "0">>
         [] c = "V" -> <<iso_week(tm).week, 2, "0">>        [] c = "w" -> <<tm.wday, 1, "0">>
         [] c = "W" -> <<(tm.yday + 7 - ((tm.wday + 6) % 7)) \div 7, 2, "0">>
         [] c = "y" -> <<year % 100, 2, "0">>               [] c = "Y" -> <<year, 0, "0">>
         [] OTHER -> <<>>

Named(b, name, width) == put(IF width > Chars(name) THEN put(b, Fill(" ", width - Chars(name))) ELSE b, name)
Zone(off) == LET a == IF off < 0 THEN -off ELSE off
                 two(n) == IF n < 10 THEN <<"0">> \o Digits(n) ELSE Digits(n)
             IN <<IF off < 0 THEN "-" ELSE "+">> \o two((a \div 3600) % 100) \o two((a \div 60) % 60)

RECURSIVE fmt_tm(_, _, _)
fmt_tm(b, f, tm) ==
    LET i == Span(f, 2, LAMBDA c : c \in {"_", "-", "0", "^", "#"})
        flags == SelectSeq(SubSeq(f, 2, i - 1), LAMBDA c : c \in {"_", "-", "0"})
        pad == IF flags = <<>> THEN "" ELSE IF Last(flags) = "_" THEN " " ELSE Last(flags)
        j == Span(f, i, IsDigit)
        width == Value(SubSeq(f, i, j - 1))
        k == IF At(f, j) \in {"E", "O"} THEN j + 1 ELSE j
        c == At(f, k)
        n == Numeric(b.zone, c, tm)
        item == CASE n # <<>> -> put_num(b, n[1], IF pad = "-" THEN 0 ELSE IF width > 0 THEN width ELSE n[2],
                                         IF pad = "-" THEN "" ELSE IF pad # "" THEN pad ELSE n[3])
                  [] c \in DOMAIN Short -> fmt_tm(b, Short[c], tm)
                  [] c = "a" -> Named(b, SubSeq(wday_name[tm.wday + 1], 1, 1), width)
                  [] c = "A" -> Named(b, wday_name[tm.wday + 1], width)
                  [] c \in {"b", "h"} -> Named(b, SubSeq(mon_name[tm.mon + 1], 1, 1), width)
                  [] c = "B" -> Named(b, mon_name[tm.mon + 1], width)
                  [] c = "Z" -> Named(b, <<tm.zone>>, width)
                  [] c = "z" -> put(b, Zone(tm.gmtoff))
                  [] c = "n" -> put(b, <<"NL">>)
                  [] c = "t" -> put(b, <<"TAB">>)
                  [] c \in {"p", "P"} -> put(b, <<IF tm.hour < 12 THEN "AM" ELSE "PM">>)
                  [] c = "%" -> put(b, <<"%">>)
                  [] OTHER -> put(b, SubSeq(f, k - 1, k))
    IN IF f = <<>> \/ b.full THEN b
       ELSE IF f[1] # "%" THEN fmt_tm(put(b, <<f[1]>>), Tail(f), tm)
       ELSE IF c = "" THEN b
       ELSE fmt_tm(item, SubSeq(f, k + 1, Len(f)), tm)

\* The text stored, or <<>> with a return of 0; %s is computed in the zone z
strftime(z, max, f, tm) ==
    LET b == fmt_tm([text |-> <<>>, max |-> max, full |-> FALSE, zone |-> z], f, tm)
    IN [n |-> IF b.full \/ max = 0 THEN 0 ELSE Chars(b.text), text |-> b.text]

-----------------------------------------------------------------------------
(* strptime: its progress is st = [ok, i, tm, pm, century, have_yy, zone] *)

No(st) == [st EXCEPT !.ok = FALSE]

\* The index of the name at s[i], in full or abbreviated: [ok, v, end]
match_name(s, i, names) ==
    LET k == {n \in DOMAIN names : names[n][1] = At(s, i)}
        name == names[FirstOf(k)]
    IN IF k = {} THEN Bad
       ELSE Good(FirstOf(k) - 1, IF Len(name) = 2 /\ At(s, i + 1) = name[2] THEN i + 2 ELSE i + 1)

get_num(s, i, maxdig, lo, hi) ==
    LET d == IF At(s, i) \in {"+", "-"} THEN i + 1 ELSE i
        run == Span(s, d, IsDigit)
        e == IF run - d > maxdig THEN d + maxdig ELSE run
        v == Count(s, d, e) * (IF At(s, i) = "-" THEN -1 ELSE 1)
    IN IF e = d \/ v \notin lo..hi THEN Bad ELSE Good(v, e)

\* The digits a numeric conversion reads, and its range
Limits(c) == CASE c = "C" -> <<2, 0, 99>>         [] c \in {"d", "e"} -> <<2, 1, 31>>  [] c \in {"H", "k"} -> <<2, 0, 23>>
               [] c \in {"I", "l"} -> <<2, 1, 12>> [] c = "j" -> <<3, 1, 366>>          [] c = "m" -> <<2, 1, 12>>
               [] c = "M" -> <<2, 0, 59>>          [] c = "S" -> <<2, 0, 61>>           [] c = "u" -> <<1, 1, 7>>
               [] c = "w" -> <<1, 0, 6>>           [] c \in {"U", "W", "V"} -> <<2, 0, 53>>
               [] c = "y" -> <<2, 0, 99>>          [] c = "Y" -> <<9, -99999999, 999999999>> [] OTHER -> <<>>
Assign(st, c, v) ==
    CASE c = "C" -> [st EXCEPT !.century = v]              [] c \in {"d", "e"} -> [st EXCEPT !.tm.mday = v]
      [] c \in {"H", "k"} -> [st EXCEPT !.tm.hour = v]     [] c \in {"I", "l"} -> [st EXCEPT !.tm.hour = v % 12]
      [] c = "j" -> [st EXCEPT !.tm.yday = v - 1]          [] c = "m" -> [st EXCEPT !.tm.mon = v - 1]
      [] c = "M" -> [st EXCEPT !.tm.min = v]               [] c = "S" -> [st EXCEPT !.tm.sec = v]
      [] c \in {"u", "w"} -> [st EXCEPT !.tm.wday = v % 7] [] c \in {"U", "W", "V"} -> st
      [] c = "y" -> [st EXCEPT !.have_yy = TRUE, !.tm.year = IF v < 69 THEN v + 100 ELSE v]
      [] c = "Y" -> [st EXCEPT !.tm.year = v - 1900]

\* %z: Z, or a sign, hours and perhaps minutes
ZoneOffset(st, s) ==
    LET c == At(s, st.i)
        hh == get_num(s, st.i + 1, 2, 0, 24)
        m == IF At(s, hh.end) = ":" THEN hh.end + 1 ELSE hh.end
        mm == get_num(s, m, 2, 0, 59)
        off == hh.v * 3600 + (IF mm.ok THEN mm.v * 60 ELSE 0)
    IN IF c = "Z" THEN [st EXCEPT !.tm.gmtoff = 0, !.i = @ + 1]
       ELSE IF c \notin {"+", "-"} \/ ~hh.ok THEN No(st)
       ELSE [st EXCEPT !.tm.gmtoff = IF c = "-" THEN -off ELSE off, !.i = IF mm.ok THEN mm.end ELSE m]

\* %s: strtoll, then localtime_r
Epoch(st, s) ==
    LET r == get_num(s, st.i, Len(s), -TimeMax, TimeMax)
        tm == localtime_r(st.zone, r.v)
    IN IF ~r.ok \/ tm.err # "" THEN No(st) ELSE [st EXCEPT !.i = r.end, !.tm = tm]

Alphabetic == ZoneNames \cup NameTokens \cup {"UTC", "GMT"}
RECURSIVE strptime(_, _, _, _, _)
\* One conversion, the blanks before it skipped
Converted(st, s, c) ==
    LET l == Limits(c)
        n == get_num(s, st.i, l[1], l[2], l[3])
        w == match_name(s, st.i, IF c \in {"a", "A"} THEN wday_name ELSE mon_name)
        sub == strptime(st.zone, s, st.i, Short[c], st.tm)
    IN CASE l # <<>> -> IF n.ok THEN [Assign(st, c, n.v) EXCEPT !.i = n.end] ELSE No(st)
         [] c \in {"a", "A"} -> IF w.ok THEN [st EXCEPT !.i = w.end, !.tm.wday = w.v] ELSE No(st)
         [] c \in {"b", "B", "h"} -> IF w.ok THEN [st EXCEPT !.i = w.end, !.tm.mon = w.v] ELSE No(st)
         [] c \in DOMAIN Short -> IF sub.ok THEN [st EXCEPT !.i = sub.i, !.tm = sub.tm] ELSE No(st)
         [] c = "p" -> IF At(s, st.i) \in {"AM", "PM"} THEN [st EXCEPT !.i = @ + 1, !.pm = At(s, st.i)] ELSE No(st)
         [] c = "s" -> Epoch(st, s)
         [] c = "z" -> ZoneOffset(st, s)
         [] c = "Z" -> [st EXCEPT !.i = Span(s, @, LAMBDA t : t \in Alphabetic)]
         [] c \in {"n", "t"} -> [st EXCEPT !.i = Span(s, @, isspace)]
         [] c = "%" -> IF At(s, st.i) = "%" THEN [st EXCEPT !.i = @ + 1] ELSE No(st)
         [] OTHER -> No(st)

RECURSIVE ParseFormat(_, _, _)
ParseFormat(st, s, f) ==
    LET k == IF At(f, 2) \in {"E", "O"} THEN 3 ELSE 2
        c == At(f, k)
        ready == IF c \in {"n", "t", "%"} THEN st ELSE [st EXCEPT !.i = Span(s, @, isspace)]
    IN IF f = <<>> \/ ~st.ok THEN st
       ELSE IF isspace(f[1]) THEN ParseFormat([st EXCEPT !.i = Span(s, @, isspace)], s, Tail(f))
       ELSE IF f[1] # "%" THEN IF At(s, st.i) = f[1] THEN ParseFormat([st EXCEPT !.i = @ + 1], s, Tail(f)) ELSE No(st)
       ELSE ParseFormat(Converted(ready, s, c), s, SubSeq(f, k + 1, Len(f)))

\* [ok, i, tm]: i is where the caller goes on reading
strptime(z, s, i, f, tm) ==
    LET st == ParseFormat([ok |-> TRUE, i |-> i, tm |-> tm, pm |-> "", century |-> -1, have_yy |-> FALSE, zone |-> z], s, f)
        st1 == IF st.pm = "PM" /\ st.tm.hour < 12 THEN [st EXCEPT !.tm.hour = @ + 12] ELSE st
        yy == IF st.have_yy THEN Rem(st.tm.year + 1900, 100) ELSE 0
        st2 == IF st.century >= 0 THEN [st1 EXCEPT !.tm.year = st.century * 100 + yy - 1900] ELSE st1
    IN [ok |-> st.ok, i |-> st.i, tm |-> st2.tm]

\* asctime_r's 26 characters
asctime_r(tm) ==
    LET two(n) == IF n < 10 THEN <<"0">> \o Digits(n) ELSE Digits(n)
        text == <<wday_name[tm.wday + 1][1], " ", mon_name[tm.mon + 1][1]>> \o Fill(" ", 3 - Len(Digits(tm.mday)))
                \o Digits(tm.mday) \o <<" ">> \o two(tm.hour) \o <<":">> \o two(tm.min) \o <<":">> \o two(tm.sec)
                \o <<" ">> \o (IF tm.year < -1900 THEN <<"-">> \o Digits(-1900 - tm.year) ELSE Digits(1900 + tm.year)) \o <<"NL">>
    IN IF Chars(text) >= 26 THEN [err |-> "EOVERFLOW", text |-> <<>>] ELSE [err |-> "", text |-> text]

-----------------------------------------------------------------------------
(* A program: it changes TZ, reads the clock, normalises and prints times; *)
(* today walks the calendar by its rules, one day at a time.               *)

NoCall == [op |-> "none"]
Init == /\ TZ \in DOMAIN Zones /\ secure \in BOOLEAN
        /\ Z = [loaded |-> FALSE] /\ call = NoCall /\ today \in Walks
        /\ today.left > 0 => ~secure /\ Zones[TZ] = <<>>
Idle == call.op = "none" /\ today \in Walks /\ today.left = 0

Setenv(z) == /\ Idle /\ TZ' = z /\ UNCHANGED <<secure, Z, today, call>>
tzset == /\ Idle /\ Z' = do_tzset /\ UNCHANGED <<TZ, secure, today, call>>
Localtime(t) == /\ Idle
                /\ Z' = do_tzset
                /\ call' = [op |-> "localtime", t |-> t, tm |-> Linked("localtime_r", <<do_tzset.zone, t>>)]
                /\ UNCHANGED <<TZ, secure, today>>
Mktime(shift, isdst) ==
    /\ call.op = "localtime" /\ call.tm.err = ""
    /\ LET tm == [call.tm EXCEPT !.sec = @ + shift, !.isdst = isdst]
       IN call' = [op |-> "mktime", tm |-> tm, res |-> Linked("mktime", <<do_tzset.zone, tm>>)]
    /\ UNCHANGED <<TZ, secure, Z, today>>
Strftime(f, max) ==
    /\ call.op = "localtime" /\ call.tm.err = ""
    /\ call' = [op |-> "text", f |-> f, max |-> max, tm |-> call.tm, res |-> Linked("strftime", <<do_tzset.zone, max, f, call.tm>>)]
    /\ UNCHANGED <<TZ, secure, Z, today>>
Return == /\ call.op # "none" /\ call' = NoCall /\ UNCHANGED <<TZ, secure, Z, today>>

Length(m, y) == IF m = 2 THEN IF (y % 4 = 0 /\ y % 100 # 0) \/ y % 400 = 0 THEN 29 ELSE 28
                ELSE IF m \in {4, 6, 9, 11} THEN 30 ELSE 31
Tomorrow(w) ==
    LET over == w.d = Length(w.m, w.y)
        newyear == over /\ w.m = 12
    IN [w EXCEPT !.left = @ - 1, !.day = @ + 1, !.wday = (@ + 1) % 7, !.d = IF over THEN 1 ELSE @ + 1,
                 !.m = IF newyear THEN 1 ELSE IF over THEN @ + 1 ELSE @,
                 !.y = IF newyear THEN @ + 1 ELSE @, !.yday = IF newyear THEN 0 ELSE @ + 1]
Walk == /\ today.left > 0 /\ today' = Tomorrow(today) /\ UNCHANGED <<TZ, secure, Z, call>>

Next == \/ \E z \in DOMAIN Zones : Setenv(z)
        \/ tzset
        \/ \E t \in Instants : Localtime(t)
        \/ \E shift \in Shifts, isdst \in {-1, 0, 1} : Mktime(shift, isdst)
        \/ \E f \in Formats, max \in Buffers : Strftime(f, max)
        \/ Return
        \/ Walk
Spec == Init /\ [][Next]_vars

-----------------------------------------------------------------------------
(* What it promises *)

\* The day's date, its place in the week and the year and its ISO 8601 week (that of the week's
\* Thursday) are those reached by counting days, and days_from_civil inverts the conversion.
CalendarTrue ==
    LET tm == Linked("DateTm", <<today.day, 0>>)
        thursday == Linked("DateTm", <<today.day - ((today.wday + 6) % 7) + 3, 0>>)
    IN /\ <<tm.year + 1900, tm.mon + 1, tm.mday, tm.wday, tm.yday>> = <<today.y, today.m, today.d, today.wday, today.yday>>
       /\ __days_from_civil(today.y, today.m, today.d) = today.day
       /\ iso_week(tm) = [week |-> (thursday.yday \div 7) + 1, year |-> thursday.year + 1900]

\* The day a rule's date means: a count, or the wth of the days of the month on that weekday,
\* the last of them when there are fewer
RuleDay(y, d) ==
    LET day(k) == __days_from_civil(y, d.m, k)
        S == {k \in 1..Length(d.m, y) : (day(k) + 4) % 7 = d.d}
        w == IF d.w > Cardinality(S) THEN Cardinality(S) ELSE d.w
        jan1 == __days_from_civil(y, 1, 1)
        feb29 == IF Length(2, y) = 29 /\ d.n > 31 + 28 THEN 1 ELSE 0
    IN CASE d.kind = "J" -> jan1 + d.n - 1 + feb29
         [] d.kind = "D" -> jan1 + d.n
         [] OTHER -> day(CHOOSE k \in S : Cardinality({x \in S : x <= k}) = w)
\* The transitions of a rule near t, none before 1970
Transitions(r, t) ==
    LET year == Civil(t \div 86400).y
        at(y, d, off) == RuleDay(y, d) * 86400 + d.secs - off
    IN UNION {{[at |-> at(y, r.start, r.std_off), dst |-> TRUE], [at |-> at(y, r.end, r.dst_off), dst |-> FALSE]} :
                  y \in {k \in (year - 1)..(year + 1) : k >= 1970}}
InDst(r, t) == LET past == {x \in Transitions(r, t) : x.at <= t}
                   future == Transitions(r, t) \ past
               IN IF past # {} THEN (CHOOSE x \in past : \A y \in past : y.at <= x.at).dst
                  ELSE (CHOOSE x \in Transitions(r, IF t < 0 THEN 0 ELSE t) \ past :
                            \A y \in Transitions(r, IF t < 0 THEN 0 ELSE t) \ past : x.at <= y.at).dst = FALSE
\* The offset and kind in force at t by a zone's own list of transitions
InForce(z, t) ==
    LET past == {k \in DOMAIN z.times : z.times[k] <= t}
        latest == CHOOSE k \in past : \A j \in past : j <= k
        rule == z.rule.valid /\ (z.times = <<>> \/ latest = Len(z.times))
        std == {k \in DOMAIN z.types : z.types[k].isdst = 0}
        ty == IF past # {} THEN z.types[z.idx[latest]] ELSE z.types[IF std = {} THEN 1 ELSE FirstOf(std)]
    IN IF z.times # <<>> /\ past = {} THEN <<ty.off, ty.isdst>>
       ELSE IF ~rule THEN <<ty.off, ty.isdst>>
       ELSE IF z.rule.has_dst /\ InDst(z.rule, t) THEN <<z.rule.dst_off, 1>> ELSE <<z.rule.std_off, 0>>

\* localtime tells the local time by the zone TZ names at the call, whatever zone an earlier call
\* left loaded, and a set-user-ID program never reads a zone from outside the zone directory.
ZoneTrue ==
    /\ call.op = "localtime" /\ call.tm.err = "" =>
          LET l == Linked("InForce", <<Linked("Load", <<Zones[TZ], secure>>), call.t>>)
          IN /\ call.tm = Zoned(Linked("secs_to_tm", <<call.t + l[1]>>), l[2], l[1], call.tm.zone)
             /\ Linked("timegm", <<call.tm>>).t = call.t + l[1]
    /\ Z.loaded => Z.globals = Globals(Z.zone)

Offsets(z) == {z.types[k].off : k \in DOMAIN z.types}
              \cup (IF ~z.rule.valid THEN {} ELSE IF z.rule.has_dst THEN {z.rule.std_off, z.rule.dst_off} ELSE {z.rule.std_off})
\* The instants that read as the local time L
Readings(z, L) == {L - o : o \in {x \in Offsets(z) : InForce(z, L - x)[1] = x}}

\* mktime returns an instant that reads as the fields it was given whenever there is one, of the
\* kind asked for (standard time if that was left open); a time that a transition skips is moved
\* forward past the gap.
MktimeTrue ==
    call.op = "mktime" =>
        LET z == Linked("Load", <<Zones[TZ], secure>>)
            L == tm_to_secs(call.tm)
            R == Linked("Readings", <<z, L>>)
            kind(w) == {r \in R : Linked("InForce", <<z, r>>)[2] = w}
            t == call.res.t
        IN /\ call.res.err = ""
           /\ call.res.tm = Linked("localtime_r", <<z, t>>)
           /\ IF call.tm.isdst >= 0 THEN kind(call.tm.isdst) # {} => t \in kind(call.tm.isdst)
              ELSE IF kind(0) # {} THEN t \in kind(0)
              ELSE IF R # {} THEN t \in R
              ELSE tm_to_secs(call.res.tm) > L

RECURSIVE Spelled(_)
\* A format with its short forms written out
Spelled(f) == IF Len(f) < 2 THEN f
              ELSE IF f[1] = "%" /\ f[2] \in DOMAIN Short THEN Spelled(Short[f[2]]) \o Spelled(SubSeq(f, 3, Len(f)))
              ELSE IF f[1] = "%" THEN <<"%" , f[2]>> \o Spelled(SubSeq(f, 3, Len(f)))
              ELSE <<f[1]>> \o Spelled(Tail(f))
\* The fields a format tells
Told(f, tm) ==
    LET g == Spelled(f)
        c == {g[k] : k \in {j \in DOMAIN g : j > 1 /\ g[j - 1] = "%"}}
        if(S, field) == IF c \cap S # {} THEN {field} ELSE {}
    IN if({"a", "A", "u", "w"}, "wday") \cup if({"b", "B", "m"}, "mon") \cup if({"d", "e"}, "mday") \cup if({"M"}, "min")
       \cup if({"H", "k"}, "hour") \cup (IF "p" \in c THEN if({"I", "l"}, "hour") ELSE {}) \cup if({"S"}, "sec")
       \cup if({"j"}, "yday") \cup if({"z"}, "gmtoff") \cup if({"Y"}, "year")
       \cup (IF tm.year \in 69..168 \/ "C" \in c THEN if({"y"}, "year") ELSE {})

Blank == [year |-> 0, mon |-> 0, mday |-> 1, hour |-> 0, min |-> 0, sec |-> 0, wday |-> 0, yday |-> 0,
          isdst |-> 0, gmtoff |-> 0, zone |-> "GMT"]
\* strftime stores a text and its terminator only where the whole text fits, and strptime reads
\* back from it every field the format tells.
TextTrue ==
    call.op = "text" =>
        LET whole == Linked("strftime", <<do_tzset.zone, 1000, call.f, call.tm>>)
            \* strptime takes no width and no padding flag
            back == Linked("strptime", <<do_tzset.zone, whole.text, 1, SelectSeq(call.f, LAMBDA c : ~IsDigit(c) /\ c # "_"), Blank>>)
        IN /\ IF whole.n < call.max THEN call.res = whole ELSE call.res.n = 0 /\ Chars(call.res.text) < call.max
           /\ back.ok /\ (call.tm.zone \in Alphabetic => back.i = Len(whole.text) + 1)
           /\ \A field \in Told(call.f, call.tm) : back.tm[field] = call.tm[field]
           /\ asctime_r(call.tm).err = ""
=============================================================================
