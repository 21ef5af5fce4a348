------------------------------ MODULE Options ------------------------------
(***************************************************************************)
(* getopt.c: the scan of the words of a command line by getopt,            *)
(* getopt_long and getopt_long_only, call by call.  A word is a sequence   *)
(* of characters; the words of argv are numbered from 0, as in the code.   *)
(***************************************************************************)
EXTENDS Integers, Sequences, SequencesExt

CONSTANTS
    Scans,         \* how a program scans: [f, os, posix], os the option string
    LongOptions,   \* sequence of [name, has_arg, flag, val]
    Words,         \* the words of a command line
    MaxWords,
    MaxRestarts    \* how often the program sets optind to 0

VARIABLES how, given, st, log, over, restarts
vars == <<how, given, st, log, over, restarts>>
\* st: argv, optind, optpos, optarg and optopt; wild when the scan has read past the
\* end of a word.  given: argv when the scan started.

Null == "NULL"
NUL == "NUL"
\* s[i] in C; what lies behind the terminator is not known.
Ch(s, i) == IF i < Len(s) THEN s[i + 1] ELSE NUL
In(c, s) == \E i \in DOMAIN s : s[i] = c
strchr(s, c) == (CHOOSE i \in DOMAIN s : s[i] = c /\ \A j \in 1..(i - 1) : s[j] # c) - 1
Plain(os) == IF Ch(os, 0) \in {"+", "-"} THEN Tail(os) ELSE os

argc(s) == Len(s.argv)
Arg(s) == s.argv[s.optind + 1]
Ret(s, r) == [s |-> s, r |-> r]
Fails(s, r, c) == Ret([s EXCEPT !.optopt = c], r)
Begin(s) == [s EXCEPT !.optarg = Null, !.optind = IF @ = 0 THEN 1 ELSE @,
                      !.optpos = IF s.optind = 0 THEN 0 ELSE @]

\* The option letter at optpos, with its argument.
Letter(s, os) ==
    LET w == Arg(s)
        c == Ch(w, s.optpos)
        d == strchr(os, c)
        t == IF s.optpos + 1 = Len(w) THEN [s EXCEPT !.optind = @ + 1, !.optpos = 0] ELSE [s EXCEPT !.optpos = @ + 1]
    IN IF s.optpos >= Len(w) THEN Ret([s EXCEPT !.wild = TRUE], "?")
       ELSE IF c = ":" \/ ~In(c, os) THEN Fails(t, "?", c)
       ELSE IF Ch(os, d + 1) # ":" THEN Ret(t, c)
       ELSE IF t.optpos # 0
            THEN Ret([t EXCEPT !.optarg = SubSeq(w, t.optpos + 1, Len(w)), !.optind = @ + 1, !.optpos = 0], c)
       ELSE IF Ch(os, d + 2) = ":" THEN Ret(t, c)
       ELSE IF t.optind >= argc(t) THEN Fails(t, IF Ch(os, 0) = ":" THEN ":" ELSE "?", c)
       ELSE Ret([t EXCEPT !.optarg = Arg(t), !.optind = @ + 1], c)

getopt(s0, os) ==
    LET s == Begin(s0)
        w == Arg(s)
    IN IF s.optind >= argc(s) THEN Ret(s, "-1")
       ELSE IF s.optpos = 0 /\ Ch(w, 0) # "-"
            THEN IF Ch(os, 0) = "-" THEN Ret([s EXCEPT !.optarg = w, !.optind = @ + 1], "1") ELSE Ret(s, "-1")
       ELSE IF s.optpos = 0 /\ Len(w) = 1 THEN Ret(s, "-1")
       ELSE IF s.optpos = 0 /\ w = <<"-", "-">> THEN Ret([s EXCEPT !.optind = @ + 1], "-1")
       ELSE Letter([s EXCEPT !.optpos = IF @ = 0 THEN 1 ELSE @], Plain(os))

\* The options a name abbreviates, up to the first that it spells out.
Matches(name) == LET all == {i \in DOMAIN LongOptions : IsPrefix(name, LongOptions[i].name)}
                     exact == {i \in all : LongOptions[i].name = name}
                 IN IF exact # {} THEN {CHOOSE i \in exact : \A j \in exact : i <= j} ELSE all
Same(o, p) == o.has_arg = p.has_arg /\ o.flag = p.flag /\ o.val = p.val
Named(w) == SubSeq(w, IF Ch(w, 1) = "-" THEN 3 ELSE 2, Len(w))
\* Where the name ends: at the first "=" or at the end of the word.
NameLen(n) == IF In("=", n) THEN strchr(n, "=") ELSE Len(n)

LongOption(s0, os, w) ==
    LET n == Named(w)
        eq == NameLen(n)
        found == Matches(SubSeq(n, 1, eq))
        o == LongOptions[CHOOSE i \in found : \A j \in found : i <= j]
        s == [s0 EXCEPT !.optind = @ + 1]
        Value(t) == Ret(t, IF o.flag THEN "0" ELSE o.val)
    IN IF found = {} \/ \E i \in found : ~Same(LongOptions[i], o) THEN Fails(s, "?", "0")
       ELSE IF eq < Len(n)
            THEN IF o.has_arg = "no" THEN Fails(s, "?", o.val) ELSE Value([s EXCEPT !.optarg = SubSeq(n, eq + 2, Len(n))])
       ELSE IF o.has_arg # "required" THEN Value([s EXCEPT !.optarg = Null])
       ELSE IF s.optind >= argc(s) THEN Fails(s, IF Ch(os, 0) = ":" THEN ":" ELSE "?", o.val)
       ELSE Value([s EXCEPT !.optarg = Arg(s), !.optind = @ + 1])

long_core(s, os, only) ==
    LET w == Arg(s)
        bare == Plain(os)
        single == only /\ Ch(w, 1) # "-"
    IN IF \/ s.optind >= argc(s) \/ s.optpos # 0 \/ Ch(w, 0) # "-"
          \/ ~((Ch(w, 1) = "-" /\ Len(w) > 2) \/ (single /\ Len(w) > 1))
          \/ single /\ Len(w) = 2 /\ In(w[2], bare)
          \/ single /\ Matches(SubSeq(Named(w), 1, NameLen(Named(w)))) = {} /\ In(w[2], bare)
       THEN getopt(s, os)
       ELSE LongOption(s, bare, w)

\* Mutant: the moved words keep only the place of the option, not of its argument.
permuteOne(s, skipped, resumed) ==
    [s EXCEPT !.argv = SubSeq(@, 1, skipped) \o <<@[resumed + 1]>> \o SubSeq(@, skipped + 1, resumed)
                       \o SubSeq(@, resumed + 2, Len(@)),
              !.optind = skipped + @ - resumed]
\* The words scanned by this call go before the operands that were skipped.
permute(s, skipped, resumed) ==
    [s EXCEPT !.argv = SubSeq(@, 1, skipped) \o SubSeq(@, resumed + 1, s.optind) \o SubSeq(@, skipped + 1, resumed)
                       \o SubSeq(@, s.optind + 1, Len(@)),
              !.optind = skipped + @ - resumed]

long_permute(s0, os, posix, only) ==
    LET s == Begin(s0)
        IsOption(i) == Ch(s.argv[i + 1], 0) = "-" /\ Len(s.argv[i + 1]) > 1
        options == {i \in s.optind..(argc(s) - 1) : IsOption(i)}
        scans == s.optpos = 0 /\ Ch(os, 0) \notin {"+", "-"} /\ ~posix
        resumed == IF scans THEN CHOOSE i \in options : \A j \in options : i <= j ELSE s.optind
        r == long_core([s EXCEPT !.optind = resumed], os, only)
    IN IF s.optind >= argc(s) \/ (scans /\ options = {}) THEN Ret(s, "-1")
       ELSE IF resumed > s.optind THEN Ret(permute(r.s, s.optind, resumed), r.r)
       ELSE r

Perform(s) == IF how.f = "getopt" THEN getopt(s, how.os) ELSE long_permute(s, how.os, how.posix, how.f = "only")

-----------------------------------------------------------------------------
(* A program that scans its command line *)

Event(r, arg, opt) == [r |-> r, arg |-> arg, opt |-> IF r \in {"?", ":"} THEN opt ELSE Null]
Init == /\ how \in Scans /\ log = <<>> /\ over = FALSE /\ restarts = 0
        /\ \E ws \in BoundedSeq(Words, MaxWords) : given = << <<"p">> >> \o ws
        /\ st = [argv |-> given, optind |-> 1, optpos |-> 0, optarg |-> Null, optopt |-> Null, wild |-> FALSE]
Call == /\ ~over /\ ~st.wild
        /\ \E r \in {Perform(st)} :
              /\ st' = r.s /\ over' = (r.r = "-1")
              /\ log' = IF r.r = "-1" THEN log ELSE Append(log, Event(r.r, r.s.optarg, r.s.optopt))
        /\ UNCHANGED <<how, given, restarts>>
Restart == /\ ~st.wild /\ log # <<>> /\ restarts < MaxRestarts
           /\ st' = [st EXCEPT !.optind = 0] /\ given' = st.argv /\ log' = <<>> /\ over' = FALSE
           /\ restarts' = restarts + 1 /\ UNCHANGED how
Next == Call \/ Restart
Spec == Init /\ [][Next]_vars

-----------------------------------------------------------------------------
(* What a command line means, word by word *)

Operand(w) == Ch(w, 0) # "-" \/ Len(w) = 1
Kind(c) == LET os == Plain(how.os)
               i == SelectInSeq(os, LAMBDA x : x = c)
           IN IF i = 0 \/ c = ":" THEN "unknown"
              ELSE IF Ch(os, i) # ":" THEN "no" ELSE IF Ch(os, i + 1) = ":" THEN "optional" ELSE "required"
Missing == IF Ch(Plain(how.os), 0) = ":" THEN ":" ELSE "?"
\* A cluster: letters without an argument, and perhaps one with.
Letters(w) == LET withArg == {i \in 2..Len(w) : Kind(w[i]) \in {"optional", "required"}}
              IN IF withArg = {} THEN Len(w) ELSE CHOOSE i \in withArg : \A j \in withArg : i <= j
Cluster(w, rest) ==
    LET p == Letters(w)
        plain == [i \in 1..(p - 2) |-> Event(IF Kind(w[i + 1]) = "no" THEN w[i + 1] ELSE "?", Null, w[i + 1])]
        c == w[p]
        last == IF Kind(c) \in {"no", "unknown"} THEN Event(IF Kind(c) = "no" THEN c ELSE "?", Null, c)
                ELSE IF p < Len(w) THEN Event(c, SubSeq(w, p + 1, Len(w)), c)
                ELSE IF Kind(c) = "optional" THEN Event(c, Null, c)
                ELSE IF rest = <<>> THEN Event(Missing, Null, c) ELSE Event(c, Head(rest), c)
    IN [events |-> Append(plain, last), used |-> IF Kind(c) = "required" /\ p = Len(w) /\ rest # <<>> THEN 1 ELSE 0]
Long(w, rest) ==
    LET n == Named(w)
        name == SubSeq(n, 1, NameLen(n))
        value == IF In("=", n) THEN SubSeq(n, NameLen(n) + 2, Len(n)) ELSE Null
        o == LongOptions[CHOOSE i \in Matches(name) : \A j \in Matches(name) : i <= j]
        next == o.has_arg = "required" /\ value = Null
        r == IF o.flag THEN "0" ELSE o.val
    IN IF Matches(name) = {} \/ \E i \in Matches(name) : ~Same(LongOptions[i], o)
       THEN [events |-> <<Event("?", Null, "0")>>, used |-> 0]
       ELSE IF o.has_arg = "no" /\ value # Null THEN [events |-> <<Event("?", Null, o.val)>>, used |-> 0]
       ELSE IF next /\ rest = <<>> THEN [events |-> <<Event(Missing, Null, o.val)>>, used |-> 0]
       ELSE [events |-> <<Event(r, IF next THEN Head(rest) ELSE value, Null)>>, used |-> IF next THEN 1 ELSE 0]
IsLong(w) == \/ how.f # "getopt" /\ w[2] = "-"
             \/ /\ how.f = "only" /\ ~(Len(w) = 2 /\ Kind(w[2]) # "unknown")
                /\ Matches(SubSeq(Named(w), 1, NameLen(Named(w)))) # {} \/ Kind(w[2]) = "unknown"
Order == IF Ch(how.os, 0) = "-" THEN "return" ELSE IF how.f = "getopt" \/ how.posix \/ Ch(how.os, 0) = "+" THEN "stop" ELSE "permute"

RECURSIVE Meaning(_)
\* The first word of ws has the events e, and perhaps takes the next one.
Taken(ws, e) == LET m == Meaning(SubSeq(ws, 2 + e.used, Len(ws)))
                IN [m EXCEPT !.events = e.events \o @, !.options = SubSeq(ws, 1, 1 + e.used) \o @]
Meaning(ws) ==
    IF ws = <<>> THEN [events |-> <<>>, options |-> <<>>, operands |-> <<>>]
    ELSE IF Head(ws) = <<"-", "-">> THEN [events |-> <<>>, options |-> <<Head(ws)>>, operands |-> Tail(ws)]
    ELSE IF Operand(Head(ws))
         THEN IF Order = "stop" \/ (Order = "return" /\ Head(ws) = <<"-">>) THEN [events |-> <<>>, options |-> <<>>, operands |-> ws]
              ELSE LET m == Meaning(Tail(ws))
                   IN IF Order = "return"
                      THEN [m EXCEPT !.events = <<Event("1", Head(ws), Null)>> \o @, !.options = <<Head(ws)>> \o @]
                      ELSE [m EXCEPT !.operands = <<Head(ws)>> \o @]
    ELSE Taken(ws, IF IsLong(Head(ws)) THEN Long(Head(ws), Tail(ws)) ELSE Cluster(Head(ws), Tail(ws)))

\* The scan so far is as m means it.
Follows(m) == /\ ~st.wild /\ IsPrefix(log, m.events)
              /\ over => log = m.events /\ st.argv = <<given[1]>> \o m.options \o m.operands /\ st.optind = 1 + Len(m.options)
AsMeant == Follows(Meaning(Tail(given)))
\* Two letters in one word, behind an operand that the scan moves.
MovedCluster == /\ Order = "permute"
                /\ \E i, j \in 2..Len(given) : /\ i < j /\ Operand(given[i]) /\ ~Operand(given[j]) /\ given[j][2] # "-"
                                               /\ ~IsLong(given[j]) /\ Letters(given[j]) > 2

\* Every call of getopt, getopt_long and getopt_long_only returns the next option the
\* command line means, with its argument, in the order it was given; when the scan ends
\* the operands stand behind the options, both in their order, and optind is the first
\* operand.  A scan started again by optind = 0 means what argv says then.  Command
\* lines with a cluster of letters behind a moved operand are left to PermutesTrue.
OptionsTrue == MovedCluster \/ AsMeant

\* The same for every command line: getopt_long moves operands behind the options,
\* whatever the options look like.
PermutesTrue == AsMeant
=============================================================================
