-------------------------------- MODULE Words -------------------------------
(***************************************************************************)
(* fnmatch, glob, and wordexp and wordfree (src/src/wordexp.c), which call *)
(* them.  The program writes a text piece by piece and passes it to one of *)
(* the three.  wordexp's struct st is a record: fld is the field being     *)
(* built, each character with the mark whether it was quoted, from which   *)
(* raw and pat both follow.                                                *)
(***************************************************************************)
EXTENDS Integers, Sequences, FiniteSets, SequencesExt, Bitwise

-----------------------------------------------------------------------------
(***************************************************************************)
(* fnmatch (src/src/fnmatch.c) and glob (src/src/glob.c).  A character is  *)
(* a one-letter string, a string a sequence of them; the name of a class   *)
(* is one element.  The file system glob walks is a constant tree.         *)
(***************************************************************************)

CONSTANTS
    Tree,                \* the files: path (sequence of names) -> "dir", "file" or "link"
    Unreadable,          \* directories opendir refuses with EACCES
    Home                 \* the home directory, a string

IsUpper(c) == c \in {"A", "B"}
Fold(c, f) == IF ~f.casefold THEN c ELSE IF c = "A" THEN "a" ELSE IF c = "B" THEN "b" ELSE c
OtherCase(c) == CASE c = "a" -> "A" [] c = "b" -> "B" [] c = "A" -> "a" [] c = "B" -> "b" [] OTHER -> c
IsAlpha(c) == c \in {"a", "b", "A", "B"}
Ord(c) == CASE c = "." -> 46 [] c = "/" -> 47 [] c = "A" -> 65 [] c = "B" -> 66
            [] c = "a" -> 97 [] c = "b" -> 98 [] OTHER -> 33
At(s, i) == IF i <= Len(s) THEN s[i] ELSE ""
Where(s, i, x) == {e \in i..(Len(s) - Len(x) + 1) : SubSeq(s, e, e + Len(x) - 1) = x}
FirstOf(S) == CHOOSE e \in S : \A d \in S : e <= d

-----------------------------------------------------------------------------
(* fnmatch *)

in_class(name, c) == CASE name = <<"alpha">> -> IF IsAlpha(c) THEN 1 ELSE 0
                       [] name = <<"upper">> -> IF IsUpper(c) THEN 1 ELSE 0
                       [] OTHER -> -1

\* The items of a bracket expression from p on: r is whether c is among them, -1
\* without a closing bracket, -2 when an item is malformed; q is past the bracket.
RECURSIVE BracketItems(_, _, _, _, _, _)
BracketItems(s, p, c, f, first, hit) ==
    LET special == At(s, p) = "[" /\ At(s, p + 1) \in {".", "=", ":"}
        ends == Where(s, p + 2, <<At(s, p + 1), "]">>)
        e == FirstOf(ends)
        name == SubSeq(s, p + 2, e - 1)
        class == in_class(name, c)
        classHit == class = 1 \/ (f.casefold /\ IsAlpha(c) /\ in_class(name, OtherCase(c)) = 1)
        symbolHit == Len(name) = 1 /\ Fold(name[1], f) = Fold(c, f)
        unescape(i) == IF At(s, i) = "\\" /\ ~f.noescape /\ i < Len(s) THEN i + 1 ELSE i
        l == unescape(p)
        lo == At(s, l)
        range == At(s, l + 1) = "-" /\ At(s, l + 2) \notin {"", "]"}
        h == unescape(l + 2)
        within(x, a, b) == Ord(a) <= Ord(x) /\ Ord(x) <= Ord(b)
        hi == At(s, h)
        upper == IF IsAlpha(c) /\ ~IsUpper(c) THEN OtherCase(c) ELSE c
        rangeHit == \/ within(c, lo, hi)
                    \/ f.casefold /\ within(Fold(c, f), Fold(lo, f), Fold(hi, f))
                    \/ f.casefold /\ within(upper, lo, hi)
    IN IF ~first /\ At(s, p) = "]" THEN [r |-> IF hit THEN 1 ELSE 0, q |-> p + 1]
       ELSE IF p > Len(s) THEN [r |-> -1, q |-> p]
       ELSE IF special
       THEN IF ends = {} \/ (At(s, p + 1) = ":" /\ class = -1) THEN [r |-> -2, q |-> p]
            ELSE BracketItems(s, e + 2, c, f, FALSE,
                              hit \/ (IF At(s, p + 1) = ":" THEN classHit ELSE symbolHit))
       ELSE IF range THEN BracketItems(s, h + 1, c, f, FALSE, hit \/ rangeHit)
       ELSE BracketItems(s, l + 1, c, f, FALSE, hit \/ Fold(lo, f) = Fold(c, f))

bracket(s, p, c, f) ==
    LET neg == At(s, p) \in {"!", "^"}
        b == BracketItems(s, IF neg THEN p + 1 ELSE p, c, f, TRUE, FALSE)
    IN IF b.r < 0 THEN b ELSE [b EXCEPT !.r = IF neg THEN 1 - @ ELSE @]

LeadingDot(s, i, f) == /\ f.period /\ At(s, i) = "."
                       /\ i = 1 \/ (f.pathname /\ At(s, i - 1) = "/")

\* The loop of fnmatch: p and i are the places in the pattern and the string, sp and
\* si those of the last star (0 before the first one).
RECURSIVE FnLoop(_, _, _, _, _, _, _)
\* Mutant: a star crosses a slash under FNM_PATHNAME.
FnLoopAcross(pt, s, f, p, i, sp, si) ==
    LET pc == At(pt, p)
        c == At(s, i)
        back == IF sp = 0 \/ At(s, si) = "" \/ LeadingDot(s, si, f)
                THEN FALSE ELSE FnLoop(pt, s, f, sp, si + 1, sp, si + 1)
        both(q) == FnLoop(pt, s, f, q, i + 1, sp, si)
        literal(q) == IF c = "" \/ Fold(At(pt, q), f) # Fold(c, f) THEN back ELSE both(q + 1)
        past == FirstOf({q \in p..(Len(pt) + 1) : At(pt, q) # "*"})
        b == bracket(pt, p + 1, c, f)
        dotted == pc = "." \/ pc = "" \/ (pc = "\\" /\ ~f.noescape /\ At(pt, p + 1) = ".")
        stops == c = "" \/ (f.pathname /\ c = "/")
    IN IF LeadingDot(s, i, f) /\ ~dotted THEN back
       ELSE CASE pc = "" -> IF c = "" \/ (f.leading /\ c = "/") THEN TRUE ELSE back
              [] pc = "*" -> FnLoop(pt, s, f, past, i, past, i)
              [] pc = "?" -> IF stops THEN back ELSE both(p + 1)
              [] pc = "[" -> IF stops THEN back
                             ELSE IF b.r = -2 THEN FALSE
                             ELSE IF b.r = -1 THEN literal(p)
                             ELSE IF b.r = 0 THEN back ELSE both(b.q)
              [] pc = "\\" /\ ~f.noescape -> IF p = Len(pt) THEN FALSE ELSE literal(p + 1)
              [] OTHER -> literal(p)
FnLoop(pt, s, f, p, i, sp, si) ==
    LET pc == At(pt, p)
        c == At(s, i)
        back == IF sp = 0 \/ At(s, si) = "" \/ (f.pathname /\ At(s, si) = "/")
                   \/ LeadingDot(s, si, f)
                THEN FALSE ELSE FnLoop(pt, s, f, sp, si + 1, sp, si + 1)
        both(q) == FnLoop(pt, s, f, q, i + 1, sp, si)
        literal(q) == IF c = "" \/ Fold(At(pt, q), f) # Fold(c, f) THEN back ELSE both(q + 1)
        past == FirstOf({q \in p..(Len(pt) + 1) : At(pt, q) # "*"})
        b == bracket(pt, p + 1, c, f)
        dotted == pc = "." \/ pc = "" \/ (pc = "\\" /\ ~f.noescape /\ At(pt, p + 1) = ".")
        stops == c = "" \/ (f.pathname /\ c = "/")
    IN IF LeadingDot(s, i, f) /\ ~dotted THEN back
       ELSE CASE pc = "" -> IF c = "" \/ (f.leading /\ c = "/") THEN TRUE ELSE back
              [] pc = "*" -> FnLoop(pt, s, f, past, i, past, i)
              [] pc = "?" -> IF stops THEN back ELSE both(p + 1)
              [] pc = "[" -> IF stops THEN back
                             ELSE IF b.r = -2 THEN FALSE
                             ELSE IF b.r = -1 THEN literal(p)
                             ELSE IF b.r = 0 THEN back ELSE both(b.q)
              [] pc = "\\" /\ ~f.noescape -> IF p = Len(pt) THEN FALSE ELSE literal(p + 1)
              [] OTHER -> literal(p)

fnmatch(pt, s, f) == FnLoop(pt, s, f, 1, 1, 0, 0)

-----------------------------------------------------------------------------
(* glob *)

\* the place past the character at i, an escaped one counting as one
Next1(s, i, noesc) == IF At(s, i) = "\\" /\ ~noesc /\ i < Len(s) THEN i + 2 ELSE i + 1

RECURSIVE MagicFrom(_, _, _)
MagicFrom(s, i, noesc) ==
    IF i > Len(s) THEN FALSE
    ELSE (Next1(s, i, noesc) = i + 1 /\ s[i] \in {"*", "?", "["}) \/ MagicFrom(s, Next1(s, i, noesc), noesc)

has_magic(s, noesc) == MagicFrom(s, 1, noesc)

RECURSIVE Unescape(_, _)
Unescape(s, noesc) ==
    IF s = <<>> THEN <<>>
    ELSE IF Next1(s, 1, noesc) = 3 THEN <<s[2]>> \o Unescape(SubSeq(s, 3, Len(s)), noesc)
    ELSE <<s[1]>> \o Unescape(Tail(s), noesc)

\* A path string names the file its components name; the tree is below ".".
RECURSIVE Components(_)
Components(s) ==
    LET slash == Where(s, 1, <<"/">>)
        head == SubSeq(s, 1, FirstOf(slash) - 1)
        rest == Components(SubSeq(s, FirstOf(slash) + 1, Len(s)))
    IN IF slash = {} THEN IF s = <<>> THEN <<>> ELSE <<s>>
       ELSE IF head = <<>> THEN rest ELSE <<head>> \o rest
Step(at, n) == CASE n = <<".">> -> at
                 [] n = <<".", ".">> -> IF at = <<>> THEN at ELSE Front(at)
                 [] OTHER -> Append(at, n)
Resolve(s) == FoldLeft(Step, <<>>, Components(s))
Kind(s) == LET c == Resolve(s)
           IN IF c = <<>> THEN "dir" ELSE IF c \in DOMAIN Tree THEN Tree[c] ELSE "none"
IsDir(s) == Kind(s) \in {"dir", "link"}       \* stat: the links are to directories
Exists(s) == Kind(s) # "none" /\ (s[Len(s)] = "/" => IsDir(s))
Dots == {<<".">>, <<".", ".">>}
NamesIn(s) == Dots \cup {c[Len(c)] : c \in {d \in DOMAIN Tree : Front(d) = Resolve(s)}}

Marked(s, dir, f) == IF f.mark /\ dir /\ s[Len(s)] # "/" THEN Append(s, "/") ELSE s

\* The paths of pattern s below path, with the call's fate: [paths, abort].  Directory
\* entries come in any order; the caller sorts them.
RECURSIVE expand(_, _, _)
expand(path, s, f) ==
    LET slashes == IF s = <<>> THEN 0
                   ELSE FirstOf({k \in 0..Len(s) : At(s, k + 1) # "/"})
        here == path \o SubSeq(s, 1, slashes)
        tail == SubSeq(s, slashes + 1, Len(s))
        cut == Where(tail, 1, <<"/">>)
        clen == IF cut = {} THEN Len(tail) ELSE FirstOf(cut) - 1
        comp == SubSeq(tail, 1, clen)
        rest == SubSeq(tail, clen + 1, Len(tail))
        fn == [pathname |-> FALSE, noescape |-> f.noescape, period |-> ~f.period,
               leading |-> FALSE, casefold |-> FALSE]
        hits == {n \in NamesIn(here) : /\ fnmatch(comp, n, fn)
                                       /\ rest = <<>> \/ comp[1] = "." \/ n \notin Dots}
        isdir(n) == IF f.mark \/ f.onlydir THEN IsDir(here \o n) ELSE Kind(here \o n) = "dir"
        below == {expand(here \o n, rest, f) : n \in {m \in hits : IsDir(here \o m)}}
        none == [paths |-> {}, abort |-> FALSE]
    IN IF tail = <<>>
       THEN IF here # <<>> /\ Exists(here)
            THEN [paths |-> {Marked(here, Kind(here) = "dir" \/ (f.mark /\ IsDir(here)), f)},
                  abort |-> FALSE]
            ELSE none
       ELSE IF ~has_magic(comp, f.noescape)
       THEN expand(here \o Unescape(comp, f.noescape), rest, f)
       ELSE IF ~IsDir(here) THEN none
       ELSE IF Resolve(here) \in Unreadable THEN [paths |-> {}, abort |-> f.err]
       ELSE IF rest = <<>>
       THEN [paths |-> {Marked(here \o n, isdir(n), f) : n \in {m \in hits : ~f.onlydir \/ isdir(m)}},
             abort |-> FALSE]
       ELSE [paths |-> UNION {b.paths : b \in below}, abort |-> \E b \in below : b.abort]

tilde(s, f) ==
    LET cut == Where(s, 2, <<"/">>)
        ul == (IF cut = {} THEN Len(s) + 1 ELSE FirstOf(cut)) - 2
    IN IF At(s, 1) # "~" \/ ~f.tilde THEN [s |-> s, unknown |-> FALSE]
       ELSE IF ul = 0 THEN [s |-> Home \o SubSeq(s, 2, Len(s)), unknown |-> FALSE]
       ELSE [s |-> s, unknown |-> f.tildecheck]   \* no such user

\* strcmp's order, for sorting
Before(s, t) ==
    \E k \in 0..Len(s) : /\ k <= Len(t) /\ SubSeq(s, 1, k) = SubSeq(t, 1, k)
                         /\ k < Len(t) /\ (k = Len(s) \/ Ord(s[k + 1]) < Ord(t[k + 1]))
Sorted(S) == [k \in 1..Cardinality(S) |->
                CHOOSE x \in S : Cardinality({y \in S : Before(y, x)}) = k - 1]

glob_one(s, f) ==
    LET t == tilde(s, f)
        e == expand(<<>>, t.s, f)
    IN IF t.unknown THEN [v |-> <<>>, r |-> ""]
       ELSE [v |-> Sorted(e.paths), r |-> IF e.abort THEN "ABORTED" ELSE ""]

\* The place where the brace at i closes (0: nowhere), and the commas at its depth.
RECURSIVE Scan(_, _, _, _, _)
Scan(s, i, depth, commas, noesc) ==
    IF i > Len(s) THEN [close |-> 0, commas |-> commas]
    ELSE IF Next1(s, i, noesc) = i + 2 THEN Scan(s, i + 2, depth, commas, noesc)
    ELSE CASE s[i] = "{" -> Scan(s, i + 1, depth + 1, commas, noesc)
           [] s[i] = "}" /\ depth = 1 -> [close |-> i, commas |-> commas]
           [] s[i] = "}" -> Scan(s, i + 1, depth - 1, commas, noesc)
           [] s[i] = "," /\ depth = 1 -> Scan(s, i + 1, depth, Append(commas, i), noesc)
           [] OTHER -> Scan(s, i + 1, depth, commas, noesc)

RECURSIVE OpenBrace(_, _, _)
OpenBrace(s, i, noesc) ==   \* the first brace that closes and has a comma, or 0
    LET b == Scan(s, i, 0, <<>>, noesc)
    IN IF i > Len(s) THEN 0
       ELSE IF s[i] = "{" /\ b.close > 0 /\ b.commas # <<>> THEN i
       ELSE OpenBrace(s, Next1(s, i, noesc), noesc)

RECURSIVE braces(_, _)
braces(s, f) ==
    LET open == OpenBrace(s, 1, f.noescape)
        b == Scan(s, open, 0, <<>>, f.noescape)
        cuts == <<open>> \o b.commas \o <<b.close>>
        alternative(k) == SubSeq(s, 1, open - 1) \o SubSeq(s, cuts[k] + 1, cuts[k + 1] - 1)
                          \o SubSeq(s, b.close + 1, Len(s))
        one(acc, k) == IF acc.r # "" THEN acc
                       ELSE LET x == braces(alternative(k), f)
                            IN [v |-> acc.v \o x.v, r |-> x.r]
    IN IF open = 0 THEN glob_one(s, f)
       ELSE FoldLeft(one, [v |-> <<>>, r |-> ""], [k \in 1..(Len(cuts) - 1) |-> k])

\* glob's result, and the glob_t it leaves: offs empty slots, then pathc paths.
Found(s, f) ==
    LET b == IF f.brace THEN braces(s, f) ELSE glob_one(s, f)
    IN IF b.r # "" \/ b.v # <<>> THEN b
       ELSE IF f.nocheck \/ (f.nomagic /\ ~has_magic(s, f.noescape)) THEN [v |-> <<s>>, r |-> ""]
       ELSE [v |-> <<>>, r |-> "NOMATCH"]

-----------------------------------------------------------------------------
(* Reference definitions *)

\* A pattern matches a string when some division of the string among the pattern's
\* pieces does: every star is tried with every length.
RECURSIVE Matches(_, _, _, _, _)
Matches(pt, s, f, p, i) ==
    LET pc == At(pt, p)
        c == At(s, i)
        free == c # "" /\ ~(f.pathname /\ c = "/") /\ ~LeadingDot(s, i, f)
        b == bracket(pt, p + 1, c, f)
        lit(q) == c # "" /\ Fold(At(pt, q), f) = Fold(c, f) /\ Matches(pt, s, f, q + 1, i + 1)
    IN CASE pc = "" -> c = "" \/ (f.leading /\ c = "/")
         [] pc = "*" -> (~LeadingDot(s, i, f) /\ Matches(pt, s, f, p + 1, i))
                        \/ (free /\ Matches(pt, s, f, p, i + 1))
         [] pc = "?" -> free /\ Matches(pt, s, f, p + 1, i + 1)
         [] pc = "[" -> IF b.r = -1 THEN ~LeadingDot(s, i, f) /\ lit(p)
                        ELSE free /\ b.r = 1 /\ Matches(pt, s, f, b.q, i + 1)
         [] pc = "\\" /\ ~f.noescape -> p < Len(pt) /\ lit(p + 1)
         [] OTHER -> lit(p)

\* The strings a brace expression stands for: one of the alternatives of each pair,
\* chosen independently of the others, nested pairs included.
RECURSIVE Expansions(_, _)
Expansions(s, noesc) ==
    LET b == Scan(s, 1, 0, <<>>, noesc)
        cuts == <<1>> \o b.commas \o <<b.close>>
        n == Next1(s, 1, noesc) - 1
        after(k) == Expansions(SubSeq(s, k + 1, Len(s)), noesc)
    IN IF s = <<>> THEN {<<>>}
       ELSE IF s[1] = "{" /\ b.close > 0 /\ b.commas # <<>>
       THEN {x \o y : x \in UNION {Expansions(SubSeq(s, cuts[k] + 1, cuts[k + 1] - 1), noesc)
                                   : k \in 1..(Len(cuts) - 1)}, y \in after(b.close)}
       ELSE {SubSeq(s, 1, n) \o y : y \in after(n)}

\* What a pattern without empty components names: every file whose components
\* match one by one, reached through directories glob may read.
Named(s, f) ==
    LET comps == Components(s)
        fn == [pathname |-> FALSE, noescape |-> f.noescape, period |-> ~f.period,
               leading |-> FALSE, casefold |-> FALSE]
        fits(c, n) == IF has_magic(c, f.noescape) THEN Matches(c, n, fn, 1, 1)
                      ELSE n = Unescape(c, f.noescape)
        path(c, k) == FoldLeft(LAMBDA x, n : x \o <<"/">> \o n, <<>>, SubSeq(c, 1, k))
    IN {c \in DOMAIN Tree :
          /\ Len(c) = Len(comps)
          /\ \A k \in DOMAIN c : fits(comps[k], c[k])
          /\ \A k \in 1..(Len(c) - 1) : IsDir(path(c, k))
          /\ \A k \in DOMAIN c : has_magic(comps[k], f.noescape) => SubSeq(c, 1, k - 1) \notin Unreadable
          /\ s[Len(s)] = "/" => IsDir(path(c, Len(c)))}

-----------------------------------------------------------------------------
(***************************************************************************)
(* wordexp                                                                 *)
(***************************************************************************)

CONSTANTS
    Kits,                \* what programs work with: records [pieces, max, fn, str, glob,
                         \* word] of what a text is put together from, how many of it, the flags of
                         \* fnmatch and how long its strings are, those of glob and of wordexp
    Letters,             \* of the strings fnmatch is asked about
    MaxPaths,            \* bound on the paths or words one call collects
    Ifs,                 \* the characters of $IFS
    Environment,         \* the environment a program starts with: name -> value
    CmdOutput,           \* what /bin/sh writes for any command
    LongBits,            \* the width of long
    MAX_DEPTH, MAX_NEST,
    Linked(_, _)         \* the operator of this module with that name, applied to its arguments: the
                         \* functions a program calls, as the configuration links them

VARIABLES
    kit,
    text, pieces,        \* the text and how many pieces it has
    str, ff,             \* fnmatch's string and flags
    g,                   \* the glob_t or wordexp_t of the last call, with its result r
    env,                 \* the environment
    ran                  \* whether a call ran a command
vars == <<kit, text, pieces, str, ff, g, env, ran>>

Blank == {" ", "\t", "NL"}
Digits == <<"0", "1", "2", "3", "4", "5", "6", "7", "8", "9">>
IsDigit(c) == c \in Range(Digits)
Digit(c) == CHOOSE d \in 0..9 : Digits[d + 1] = c
RECURSIVE Decimal(_)
Decimal(v) == IF v < 0 THEN <<"-">> \o Decimal(-v)
              ELSE (IF v < 10 THEN <<>> ELSE Decimal(v \div 10)) \o <<Digits[(v % 10) + 1]>>
is_name_start(c) == c \in {"_", "a", "b", "v", "x", "y", "A", "B"}
is_name(c) == is_name_start(c) \/ IsDigit(c)
\* the end of the longest run of characters satisfying P from i on
Span(s, i, P(_)) == IF i > Len(s) THEN i
                    ELSE FirstOf({k \in i..(Len(s) + 1) : k > Len(s) \/ ~P(s[k])})
Unset == <<"unset">>
getenv(e, name) == IF name \in DOMAIN e THEN e[name] ELSE Unset

-----------------------------------------------------------------------------
(* fields *)

Bad(st, e) == [st EXCEPT !.err = e]

emit(st, c, q) ==
    [st EXCEPT !.in_field = TRUE, !.after_ws = FALSE, !.fld = Append(@, <<c, q>>),
               !.magic = @ \/ (~q /\ c \in {"*", "?", "["})]
EmitAll(st, s, q) == FoldLeft(LAMBDA t, c : emit(t, c, q), st, s)

Raw(fld) == [k \in DOMAIN fld |-> fld[k][1]]
Pat(fld) == FoldLeft(LAMBDA p, x : p \o (IF x[1] = "\\" \/ (x[2] /\ x[1] \in {"*", "?", "["})
                                         THEN <<"\\", x[1]>> ELSE <<x[1]>>), <<>>, fld)

NoFlags == [noescape |-> FALSE, mark |-> FALSE, onlydir |-> FALSE, period |-> FALSE, err |-> FALSE,
            tilde |-> FALSE, tildecheck |-> FALSE, brace |-> FALSE, nocheck |-> FALSE,
            nomagic |-> FALSE, append |-> FALSE, dooffs |-> FALSE]

end_field(st) ==
    LET found == Found(Pat(st.fld), NoFlags)
        words == IF st.magic /\ found.r = "" THEN found.v ELSE <<Raw(st.fld)>>
    IN IF ~st.in_field THEN st
       ELSE [st EXCEPT !.in_field = FALSE, !.magic = FALSE, !.fld = <<>>, !.out = @ \o words]

\* Mutant: white space before another separator is forgotten.
SplitStepBare(st, c) ==
    IF c \notin Ifs THEN emit(st, c, FALSE)
    ELSE IF c \in Blank
    THEN IF st.in_field THEN [end_field(st) EXCEPT !.after_ws = TRUE] ELSE st
    ELSE end_field([st EXCEPT !.in_field = TRUE, !.after_ws = FALSE])
\* the next character of an unquoted value
SplitStep(st, c) ==
    IF c \notin Ifs THEN emit(st, c, FALSE)
    ELSE IF c \in Blank
    THEN IF st.in_field THEN [end_field(st) EXCEPT !.after_ws = TRUE] ELSE st
    ELSE end_field([st EXCEPT !.in_field = @ \/ ~st.after_ws, !.after_ws = FALSE])

emit_value(st, v, quoted) ==
    IF quoted THEN EmitAll([st EXCEPT !.in_field = TRUE], v, TRUE)
    ELSE IF ~st.split THEN EmitAll(st, v, FALSE)
    ELSE FoldLeft(SplitStep, st, v)

-----------------------------------------------------------------------------
(* scanning: the place past a construct, 0 on a syntax error *)

skip_squote(s, i) == LET e == Where(s, i + 1, <<"'">>) IN IF e = {} THEN 0 ELSE FirstOf(e) + 1

RECURSIVE BackquoteFrom(_, _)
BackquoteFrom(s, i) == IF i > Len(s) THEN 0
                       ELSE IF s[i] = "\\" /\ i < Len(s) THEN BackquoteFrom(s, i + 2)
                       ELSE IF s[i] = "BQ" THEN i + 1 ELSE BackquoteFrom(s, i + 1)
skip_backquote(s, i) == BackquoteFrom(s, i + 1)

RECURSIVE skip_construct(_, _, _), GroupFrom(_, _, _, _, _, _), DquoteFrom(_, _, _)
DquoteFrom(s, i, d) ==
    LET j == skip_construct(s, i, d + 1)
    IN IF i > Len(s) THEN 0
       ELSE IF s[i] = "\"" THEN i + 1
       ELSE IF s[i] = "\\" /\ i < Len(s) THEN DquoteFrom(s, i + 2, d)
       ELSE IF s[i] \in {"$", "BQ"} THEN IF j = 0 THEN 0 ELSE DquoteFrom(s, j, d)
       ELSE DquoteFrom(s, i + 1, d)
skip_dquote(s, i, d) == DquoteFrom(s, i + 1, d)

GroupFrom(s, i, open, close, depth, d) ==
    LET c == At(s, i)
        nested == c \in {"'", "\"", "BQ"} \/ (c = "$" /\ At(s, i + 1) \in {"(", "{"})
        j == CASE c = "'" -> skip_squote(s, i) [] c = "\"" -> skip_dquote(s, i, d + 1)
               [] c = "BQ" -> skip_backquote(s, i) [] OTHER -> skip_construct(s, i, d + 1)
    IN IF i > Len(s) \/ d > MAX_NEST THEN 0
       ELSE IF c = "\\" /\ i < Len(s) THEN GroupFrom(s, i + 2, open, close, depth, d)
       ELSE IF nested THEN IF j = 0 THEN 0 ELSE GroupFrom(s, j, open, close, depth, d)
       ELSE IF c = open THEN GroupFrom(s, i + 1, open, close, depth + 1, d)
       ELSE IF c = close /\ depth = 1 THEN i + 1
       ELSE GroupFrom(s, i + 1, open, close, IF c = close THEN depth - 1 ELSE depth, d)
skip_group(s, i, open, close, d) == GroupFrom(s, i, open, close, 0, d)

skip_construct(s, i, d) ==
    CASE s[i] = "BQ" -> skip_backquote(s, i)
      [] s[i] = "$" /\ At(s, i + 1) = "(" -> skip_group(s, i + 1, "(", ")", d)
      [] s[i] = "$" /\ At(s, i + 1) = "{" -> skip_group(s, i + 1, "{", "}", d)
      [] OTHER -> i + 1

RECURSIVE CmdsubFrom(_, _, _)
CmdsubFrom(s, i, dq) ==
    CASE i > Len(s) -> FALSE
      [] At(s, i) = "\\" /\ i < Len(s) -> CmdsubFrom(s, i + 2, dq)
      [] At(s, i) = "'" /\ ~dq -> skip_squote(s, i) # 0 /\ CmdsubFrom(s, skip_squote(s, i), dq)
      [] At(s, i) = "\"" -> CmdsubFrom(s, i + 1, ~dq)
      [] At(s, i) = "BQ" -> TRUE
      [] At(s, i) = "$" /\ At(s, i + 1) = "(" -> At(s, i + 2) # "(" \/ CmdsubFrom(s, i + 3, dq)
      [] OTHER -> CmdsubFrom(s, i + 1, dq)
has_cmdsub(s) == CmdsubFrom(s, 1, FALSE)

-----------------------------------------------------------------------------
(* arithmetic: an operator at place i gives [v, i, err] *)

Wrap(v) == ((v + 2^(LongBits - 1)) % 2^LongBits) - 2^(LongBits - 1)
Unsigned(v) == v % 2^LongBits
Truth(b) == IF b THEN 1 ELSE 0
ar_ws(s, i) == Span(s, i, LAMBDA c : c \in Blank)

\* strtoul(s + i, &e, 0) of a digit: value, end and whether it overflows
Number(s, i) ==
    LET base == IF s[i] = "0" THEN 8 ELSE 10
        e == Span(s, i, LAMBDA c : IsDigit(c) /\ Digit(c) < base)
        v == FoldLeft(LAMBDA n, c : IF n >= 2^LongBits THEN n ELSE n * base + Digit(c),
                      0, SubSeq(s, i, e - 1))
    IN [v |-> v, i |-> e, over |-> v >= 2^LongBits]

\* strtol(v, &e, 0) of a variable's whole value
Stored(v) ==
    LET b == ar_ws(v, 1)
        neg == At(v, b) = "-"
        d == IF At(v, b) \in {"-", "+"} THEN b + 1 ELSE b
        n == Number(v, d)
    IN IF ~IsDigit(At(v, d)) THEN [v |-> 0, err |-> TRUE]
       ELSE [v |-> IF neg THEN -n.v ELSE n.v,
             err |-> n.i <= Len(v) \/ n.v > 2^(LongBits - 1) - (IF neg THEN 0 ELSE 1)]

Ops == << <<"|", "|">>, <<"&", "&">>, <<"=", "=">>, <<"!", "=">>, <<"<", "=">>, <<">", "=">>,
          <<"<", "<">>, <<">", ">">>, <<"|">>, <<"^">>, <<"&">>, <<"<">>, <<">">>,
          <<"+">>, <<"-">>, <<"*">>, <<"/">>, <<"%">> >>
Precedence == <<1, 2, 6, 6, 7, 7, 8, 8, 3, 4, 5, 7, 7, 9, 9, 10, 10, 10>>
ar_op(s, i) ==   \* the index of the operator at i, 0 for none
    LET here == {k \in DOMAIN Ops : i + Len(Ops[k]) - 1 <= Len(s) /\ SubSeq(s, i, i + Len(Ops[k]) - 1) = Ops[k]}
    IN IF here = {} THEN 0 ELSE FirstOf(here)

Quotient(x, y) == IF (x < 0) = (y < 0) THEN (IF x < 0 THEN -x ELSE x) \div (IF y < 0 THEN -y ELSE y)
                  ELSE -((IF x < 0 THEN -x ELSE x) \div (IF y < 0 THEN -y ELSE y))
ar_apply(op, x, y) ==
    LET ux == Unsigned(x) uy == Unsigned(y)
        shift == op[1] \in {"<", ">"} /\ Len(op) = 2 /\ op[2] # "="
        bad == (shift /\ (y < 0 \/ y > LongBits - 1)) \/ (op[1] \in {"/", "%"} /\ y = 0)
        v == CASE op = <<"|", "|">> -> Truth(x # 0 \/ y # 0)
               [] op = <<"&", "&">> -> Truth(x # 0 /\ y # 0)
               [] op = <<"|">> -> ux | uy [] op = <<"&">> -> ux & uy [] op = <<"^">> -> ux ^^ uy
               [] op = <<"=", "=">> -> Truth(x = y) [] op = <<"!", "=">> -> Truth(x # y)
               [] op = <<"<", "=">> -> Truth(x <= y) [] op = <<">", "=">> -> Truth(x >= y)
               [] op = <<"<">> -> Truth(x < y) [] op = <<">">> -> Truth(x > y)
               [] op = <<"<", "<">> -> ux * 2^y
               [] op = <<">", ">">> -> x \div 2^y
               [] op = <<"+">> -> x + y [] op = <<"-">> -> x - y [] op = <<"*">> -> x * y
               [] op = <<"/">> -> Quotient(x, y)
               [] OTHER -> x - Quotient(x, y) * y
    IN IF bad THEN [v |-> 0, err |-> TRUE] ELSE [v |-> Wrap(v), err |-> FALSE]

RECURSIVE ar_cond(_, _, _, _), ar_primary(_, _, _, _), BinaryRest(_, _, _, _, _)
ar_primary(s, e, p, d) ==
    LET i == ar_ws(s, p)
        c == At(s, i)
        in == ar_cond(s, e, i + 1, d + 1)
        close == ar_ws(s, in.i)
        un == ar_primary(s, e, i + 1, d + 1)
        n == Number(s, i)
        end == Span(s, i, is_name)
        var == getenv(e, SubSeq(s, i, end - 1))
    IN IF d + 1 > MAX_NEST THEN [v |-> 0, i |-> p, err |-> TRUE]
       ELSE CASE c = "(" -> IF At(s, close) = ")" THEN [in EXCEPT !.i = close + 1]
                            ELSE [in EXCEPT !.i = close, !.err = TRUE]
              [] c = "-" -> [un EXCEPT !.v = Wrap(-@)]
              [] c = "+" -> un
              [] c = "~" -> [un EXCEPT !.v = -@ - 1]
              [] c = "!" -> [un EXCEPT !.v = Truth(@ = 0)]
              [] IsDigit(c) -> [v |-> Wrap(n.v), i |-> n.i, err |-> n.over \/ is_name(At(s, n.i))]
              [] is_name_start(c) ->
                   IF var \in {Unset, <<>>} THEN [v |-> 0, i |-> end, err |-> FALSE]
                   ELSE [v |-> Wrap(Stored(var).v), i |-> end, err |-> Stored(var).err]
              [] OTHER -> [v |-> 0, i |-> i, err |-> TRUE]

\* Mutant: the operators associate to the right.
BinaryRestRight(s, e, x, minp, d) ==
    LET at == ar_ws(s, x.i)
        o == ar_op(s, at)
        y == BinaryRest(s, e, ar_primary(s, e, at + Len(Ops[o]), d), Precedence[o], d)
        z == ar_apply(Ops[o], x.v, y.v)
        r == [v |-> z.v, i |-> y.i, err |-> x.err \/ y.err \/ z.err]
    IN IF o = 0 \/ (o > 0 /\ Precedence[o] < minp) THEN x
       ELSE IF r.err THEN r ELSE BinaryRest(s, e, r, minp, d)
\* the loop of ar_binary, x being what is read so far
BinaryRest(s, e, x, minp, d) ==
    LET at == ar_ws(s, x.i)
        o == ar_op(s, at)
        y == BinaryRest(s, e, ar_primary(s, e, at + Len(Ops[o]), d), Precedence[o] + 1, d)
        z == ar_apply(Ops[o], x.v, y.v)
        r == [v |-> z.v, i |-> y.i, err |-> x.err \/ y.err \/ z.err]
    IN IF o = 0 \/ (o > 0 /\ Precedence[o] < minp) THEN x
       ELSE IF r.err THEN r ELSE BinaryRest(s, e, r, minp, d)
ar_binary(s, e, i, minp, d) == BinaryRest(s, e, ar_primary(s, e, i, d), minp, d)

ar_cond(s, e, i, d) ==
    LET c == ar_binary(s, e, i, 1, d)
        q == ar_ws(s, c.i)
        x == ar_cond(s, e, q + 1, d + 1)
        colon == ar_ws(s, x.i)
        y == ar_cond(s, e, colon + 1, d + 1)
    IN IF At(s, q) # "?" THEN [c EXCEPT !.i = q]
       ELSE IF d + 1 > MAX_NEST \/ At(s, colon) # ":" THEN [v |-> 0, i |-> q, err |-> TRUE]
       ELSE [v |-> IF c.v # 0 THEN x.v ELSE y.v, i |-> y.i, err |-> c.err \/ x.err \/ y.err]

Arithmetic(s, e) ==
    LET r == ar_cond(s, e, 1, 0)
    IN [v |-> r.v, bad |-> r.err \/ ar_ws(s, r.i) <= Len(s)]

-----------------------------------------------------------------------------
(* parameters *)

param(e, name) ==
    CASE name = <<"$">> -> <<"7">>                       \* the process id
      [] name \in {<<"#">>, <<"?">>} -> <<"0">>
      [] name = <<"-">> -> <<>>
      [] name \in {<<"@">>, <<"*">>, <<"!">>} \/ IsDigit(name[1]) -> Unset
      [] OTHER -> getenv(e, name)

\* v without its shortest or longest part matching p, at its end or its beginning
trim(v, p, suffix, longest) ==
    LET plain == [pathname |-> FALSE, noescape |-> FALSE, period |-> FALSE, leading |-> FALSE,
                  casefold |-> FALSE]
        n == Len(v)
        part(len) == IF suffix THEN SubSeq(v, n - len + 1, n) ELSE SubSeq(v, 1, len)
        fits == {len \in 0..n : fnmatch(p, part(len), plain)}
        len == CHOOSE l \in fits : \A m \in fits : IF longest THEN m <= l ELSE l <= m
    IN IF fits = {} THEN v
       ELSE IF suffix THEN SubSeq(v, 1, n - len) ELSE SubSeq(v, len + 1, n)

NewState(flags, e, depth, split) ==
    [flags |-> flags, err |-> "", depth |-> depth, out |-> <<>>, fld |-> <<>>, in_field |-> FALSE,
     magic |-> FALSE, after_ws |-> FALSE, split |-> split, env |-> e, ran |-> FALSE]

RECURSIVE parse(_, _, _)

\* The word s expanded to one string: the field, and the state with its side effects.
expand_word(st, s) ==
    LET sub == parse(NewState(st.flags, st.env, st.depth + 1, FALSE), s, 1)
    IN IF st.depth + 1 > MAX_DEPTH THEN [st |-> Bad(st, "NOSPACE"), fld |-> <<>>]
       ELSE [st |-> [st EXCEPT !.err = sub.err, !.env = sub.env, !.ran = @ \/ sub.ran], fld |-> sub.fld]

brace_param(st, body, quoted) ==
    LET length == Len(body) > 1 /\ body[1] = "#"
        ns == IF length THEN 2 ELSE 1
        c == At(body, ns)
        i == IF is_name_start(c) THEN Span(body, ns, is_name)
             ELSE IF IsDigit(c) THEN Span(body, ns, IsDigit)
             ELSE IF c \in {"$", "#", "?", "-", "@", "*", "!"} THEN ns + 1 ELSE ns
        name == SubSeq(body, ns, i - 1)
        v == param(st.env, name)
        text0 == IF v = Unset THEN <<>> ELSE v
        undef == v = Unset /\ st.flags.undef
        colon == At(body, i) = ":"
        o == IF colon THEN i + 1 ELSE i
        op == At(body, o)
        twice == op \in {"%", "#"} /\ ~colon /\ At(body, o + 1) = op
        w == expand_word(st, SubSeq(body, IF twice THEN o + 2 ELSE o + 1, Len(body)))
        use == IF colon THEN v # Unset /\ v # <<>> ELSE v # Unset
        set == [w.st EXCEPT !.env = (name :> Raw(w.fld)) @@ @]
    IN IF i = ns THEN Bad(st, "SYNTAX")
       ELSE IF length
       THEN IF i <= Len(body) THEN Bad(st, "SYNTAX")
            ELSE IF undef THEN Bad(st, "BADVAL")
            ELSE emit_value(st, Decimal(Len(text0)), quoted)
       ELSE IF i > Len(body) THEN IF undef THEN Bad(st, "BADVAL") ELSE emit_value(st, text0, quoted)
       ELSE IF op \notin (IF colon THEN {"-", "=", "?", "+"} ELSE {"-", "=", "?", "+", "%", "#"})
       THEN Bad(st, "SYNTAX")
       ELSE IF op \in {"%", "#"}
       THEN IF undef THEN Bad(st, "BADVAL")
            ELSE IF w.st.err # "" THEN w.st
            ELSE emit_value(w.st, trim(text0, Pat(w.fld), op = "%", twice), quoted)
       ELSE IF op = "+" /\ ~use THEN [st EXCEPT !.in_field = @ \/ quoted]
       ELSE IF op # "+" /\ use THEN emit_value(st, v, quoted)
       ELSE IF w.st.err # "" THEN w.st
       ELSE IF op = "?" THEN Bad(w.st, "BADVAL")
       ELSE IF op # "=" THEN emit_value(w.st, Raw(w.fld), quoted)
       ELSE IF ~is_name_start(name[1]) THEN Bad(w.st, "SYNTAX")
       ELSE emit_value(set, Raw(w.fld), quoted)

\* Mutant: WRDE_NOCMD is not looked at.
run_commandAlways(st, quoted) ==
    LET stop == {k \in 0..Len(CmdOutput) : \A j \in (k + 1)..Len(CmdOutput) : CmdOutput[j] = "NL"}
    IN emit_value([st EXCEPT !.ran = TRUE], SubSeq(CmdOutput, 1, FirstOf(stop)), quoted)
run_command(st, quoted) ==
    LET stop == {k \in 0..Len(CmdOutput) : \A j \in (k + 1)..Len(CmdOutput) : CmdOutput[j] = "NL"}
    IN IF st.flags.nocmd THEN Bad(st, "CMDSUB")
       ELSE emit_value([st EXCEPT !.ran = TRUE], SubSeq(CmdOutput, 1, FirstOf(stop)), quoted)

\* s[i] is a dollar or a backquote: the state after it and the place past it
dollar(st, s, i, quoted) ==
    LET c == At(s, i + 1)
        b == skip_backquote(s, i)
        p == skip_group(s, i + 1, "(", ")", 0)
        k == skip_group(s, i + 1, "{", "}", 0)
        expr == expand_word(st, SubSeq(s, i + 3, p - 3))
        value == Arithmetic(Raw(expr.fld), expr.st.env)
        e == IF is_name_start(c) THEN Span(s, i + 1, is_name) ELSE i + 2
        name == SubSeq(s, i + 1, e - 1)
        v == param(st.env, name)
        to(t, j) == [st |-> t, i |-> j]
    IN CASE s[i] = "BQ" -> IF b = 0 THEN to(Bad(st, "SYNTAX"), i) ELSE to(run_command(st, quoted), b)
         [] c = "(" /\ At(s, i + 2) = "(" ->
              IF p = 0 \/ (p > 0 /\ s[p - 2] # ")") THEN to(Bad(st, "SYNTAX"), i)
              ELSE IF expr.st.err # "" THEN to(expr.st, i)
              ELSE IF value.bad THEN to(Bad(expr.st, "SYNTAX"), i)
              ELSE to(emit_value(expr.st, Decimal(value.v), quoted), p)
         [] c = "(" -> IF p = 0 THEN to(Bad(st, "SYNTAX"), i) ELSE to(run_command(st, quoted), p)
         [] c = "{" -> IF k = 0 THEN to(Bad(st, "SYNTAX"), i)
                       ELSE to(brace_param(st, SubSeq(s, i + 2, k - 2), quoted), k)
         [] is_name_start(c) \/ IsDigit(c) \/ c \in {"$", "#", "?", "-", "@", "*", "!"} ->
              IF v = Unset /\ st.flags.undef /\ c \notin {"@", "*"} THEN to(Bad(st, "BADVAL"), e)
              ELSE IF v = Unset /\ quoted /\ c = "@" THEN to(st, e)
              ELSE to(emit_value(st, IF v = Unset THEN <<>> ELSE v, quoted), e)
         [] OTHER -> to(emit(st, "$", quoted), i + 1)

\* only the caller's own home directory is known
tilde_word(st, s, i) ==
    LET e == Span(s, i + 1, LAMBDA c : c \notin {"/", " ", "\t"})
    IN IF e = i + 1 THEN [st |-> [EmitAll(st, Home, TRUE) EXCEPT !.in_field = TRUE], i |-> e]
       ELSE [st |-> emit(st, "~", FALSE), i |-> i + 1]

RECURSIVE Dquoted(_, _, _)
Dquoted(st, s, i) ==
    LET d == At(s, i)
        n == At(s, i + 1)
        x == dollar(st, s, i, TRUE)
    IN IF st.err # "" THEN [st |-> st, i |-> i]
       ELSE IF i > Len(s) THEN [st |-> Bad(st, "SYNTAX"), i |-> i]
       ELSE IF d = "\"" THEN [st |-> st, i |-> i + 1]
       ELSE IF d = "\\" /\ n \in {"$", "BQ", "\"", "\\", "NL"}
       THEN Dquoted(IF n = "NL" THEN st ELSE emit(st, n, TRUE), s, i + 2)
       ELSE IF d \in {"$", "BQ"} THEN Dquoted(x.st, s, x.i)
       ELSE Dquoted(emit(st, d, TRUE), s, i + 1)

parse(st, s, i) ==
    LET c == At(s, i)
        j == skip_squote(s, i)
        q == Dquoted([st EXCEPT !.in_field = TRUE], s, i + 1)
        x == dollar(st, s, i, FALSE)
        t == tilde_word(st, s, i)
    IN IF st.err # "" \/ i > Len(s) THEN st
       ELSE IF st.split /\ c \in {" ", "\t"}
       THEN parse([end_field(st) EXCEPT !.after_ws = FALSE], s, i + 1)
       ELSE IF st.split /\ c \in {"NL", "|", "&", ";", "<", ">", "(", ")", "{", "}"} THEN Bad(st, "BADCHAR")
       ELSE CASE c = "\\" -> IF i = Len(s) THEN Bad(st, "SYNTAX")
                             ELSE parse(emit(st, s[i + 1], TRUE), s, i + 2)
              [] c = "'" -> IF j = 0 THEN Bad(st, "SYNTAX")
                            ELSE parse(EmitAll([st EXCEPT !.in_field = TRUE],
                                               SubSeq(s, i + 1, j - 2), TRUE), s, j)
              [] c = "\"" -> parse(q.st, s, q.i)
              [] c \in {"$", "BQ"} -> parse(x.st, s, x.i)
              [] c = "~" /\ ~st.in_field /\ st.split -> parse(t.st, s, t.i)
              [] OTHER -> parse(emit(st, c, FALSE), s, i + 1)

\* The fields an unquoted value is split into.
Split(v, flags, e) == end_field(emit_value(NewState(flags, e, 0, TRUE), v, FALSE)).out

\* What wordexp does with text s: its result, the words, the environment it leaves.
Expansion(s, flags, e) ==
    LET st == parse(NewState(flags, e, 0, TRUE), s, 1)
        done == IF st.err = "" THEN end_field(st) ELSE st
    IN IF flags.nocmd /\ has_cmdsub(s) THEN [r |-> "CMDSUB", v |-> <<>>, env |-> e, ran |-> FALSE]
       ELSE [r |-> done.err, v |-> done.out, env |-> done.env, ran |-> done.ran]

-----------------------------------------------------------------------------

Init ==
    /\ kit \in DOMAIN Kits /\ text = <<>> /\ pieces = 0 /\ str = <<>> /\ ff \in Kits[kit].fn
    /\ g = [r |-> "", v |-> <<>>, c |-> 0, offs |-> 0]
    /\ env = Environment /\ ran = FALSE

\* the program writes the text; it makes its calls once the text is written
Idle == g.c = 0 /\ g.r = ""
Write ==
    /\ pieces < Kits[kit].max /\ str = <<>> /\ Idle
    /\ \E x \in Kits[kit].pieces : text' = text \o x
    /\ pieces' = pieces + 1
    /\ UNCHANGED <<kit, str, ff, g, env, ran>>

Match ==
    /\ Len(str) < Kits[kit].str /\ Idle
    /\ \E c \in Letters : str' = Append(str, c)
    /\ UNCHANGED <<kit, text, pieces, ff, g, env, ran>>

\* glob and wordexp with the same flags: what a call makes of the glob_t
Start(f) == IF f.append THEN g ELSE [r |-> "", v |-> <<>>, c |-> 0, offs |-> IF f.dooffs THEN 1 ELSE 0]
Collected(start, b) == IF b.r # "" THEN [start EXCEPT !.r = b.r]
                       ELSE [start EXCEPT !.r = "", !.v = @ \o b.v, !.c = Len(start.v) + Len(b.v)]
CallOk(f) == (f.append /\ g.c > 0 /\ f.dooffs = (g.offs > 0)) \/ (~f.append /\ g.c = 0)

glob ==
    /\ str = <<>>
    /\ \E f \in Kits[kit].glob : \E b \in {Linked("Found", <<text, f>>), [v |-> <<>>, r |-> "NOSPACE"]} :
         /\ CallOk(f) /\ Len(Start(f).v \o b.v) <= MaxPaths
         /\ g' = Collected(Start(f), b)
    /\ UNCHANGED <<kit, text, pieces, str, ff, env, ran>>

\* allocation may fail at any point, before or after the assignments of the text
wordexp ==
    /\ str = <<>>
    /\ \E f \in Kits[kit].word : LET x == Linked("Expansion", <<text, f, env>>)
                                old == IF f.reuse THEN [g EXCEPT !.v = <<>>, !.c = 0] ELSE g
                                base == IF f.append /\ ~f.reuse THEN old
                                        ELSE [old EXCEPT !.v = <<>>, !.offs = IF f.dooffs THEN 1 ELSE 0]
                                nospace == [x EXCEPT !.r = "NOSPACE"]
         IN \E b \in {x, nospace, [nospace EXCEPT !.env = env]} :
              /\ f.reuse \/ CallOk(f)
              /\ Len(base.v \o b.v) <= MaxPaths
              /\ g' = IF b.r # "" THEN [old EXCEPT !.r = b.r] ELSE Collected(base, b)
              /\ env' = b.env /\ ran' = (ran \/ b.ran)
    /\ UNCHANGED <<kit, text, pieces, str, ff>>

globfree == g.c > 0 /\ g' = [g EXCEPT !.v = <<>>, !.c = 0] /\ UNCHANGED <<kit, text, pieces, str, ff, env, ran>>

Next == Write \/ Match \/ glob \/ wordexp \/ globfree

Spec == Init /\ [][Next]_vars

-----------------------------------------------------------------------------
(* Properties *)

\* One star of backtracking is enough: fnmatch accepts a string exactly when some
\* division of it among the pattern's pieces does.
FnmatchTrue == Idle => Linked("fnmatch", <<text, str, ff>>) = Linked("Matches", <<text, str, ff, 1, 1>>)

\* glob finds the files whose names match component by component and no others,
\* every one of them exists, a call's paths come sorted, and nested braces stand for
\* all their alternatives; a hidden file needs an explicit dot.
GlobTrue ==
    \A f \in {x \in Kits[kit].glob : ~x.nocheck /\ ~x.nomagic /\ ~x.append} :
        LET b == Linked("Found", <<text, f>>)
            found == {Components(b.v[k]) : k \in DOMAIN b.v}
            visible == {c \in found \ {<<>>} : \A k \in DOMAIN c : c[k] \notin Dots}
        IN (str = <<>> /\ Idle /\ b.r # "ABORTED") =>
            /\ \A k \in DOMAIN b.v : Exists(b.v[k])
            /\ ~f.brace => \A k \in 2..Len(b.v) : Before(b.v[k - 1], b.v[k])
            /\ f.brace => Range(b.v) = UNION {Range(Linked("glob_one", <<x, f>>).v) : x \in Expansions(text, f.noescape)}
            /\ (~f.brace /\ ~f.tilde /\ ~f.onlydir) => visible = Named(text, f)

\* The fields of an unquoted value: blanks around it count for nothing, a field ends
\* at a run of blanks or at one other separator with the blanks around it.
RECURSIVE Fields(_)
Fields(v) ==
    LET b == Span(v, 1, LAMBDA c : c \in Ifs \cap Blank)
        e == Span(v, b, LAMBDA c : c \notin Ifs)
        d == Span(v, e, LAMBDA c : c \in Ifs \cap Blank)
    IN IF b > Len(v) THEN <<>>
       ELSE <<SubSeq(v, b, e - 1)>> \o
            Fields(SubSeq(v, IF At(v, d) \in Ifs \ Blank THEN d + 1 ELSE d, Len(v)))

AnyFlags == CHOOSE f \in Kits[kit].word : TRUE

\* Splitting a value character by character, with what it remembers of the blanks
\* before, gives the fields.
SplitTrue ==
    (Kits[kit].word # {} /\ Range(text) \cap {"*", "?", "["} = {}) =>
        Linked("Split", <<text, AnyFlags, env>>) = Fields(text)

\* The value of an expression by its definition: split at the last operator of the
\* lowest precedence outside parentheses.
Depth(s, i) == Cardinality({k \in 1..(i - 1) : s[k] = "("}) - Cardinality({k \in 1..i : s[k] = ")"})
RECURSIVE ValueOf(_)
ValueOf(s) ==
    LET n == Len(s)
        top == {i \in 1..n : Depth(s, i) = 0}
        cond == {i \in top : s[i] = "?"}
        q == FirstOf(cond)
        colons == {i \in top : i > q /\ s[i] = ":" /\ Cardinality({k \in top \cap q..i : s[k] = "?"})
                                              = Cardinality({k \in top \cap q..i : s[k] = ":"})}
        binary == {i \in top : i > 1 /\ (IsDigit(s[i - 1]) \/ s[i - 1] = ")") /\ ar_op(s, i) # 0}
        i == CHOOSE k \in binary : \A m \in binary :
                LET pk == Precedence[ar_op(s, k)] pm == Precedence[ar_op(s, m)]
                IN pk < pm \/ (pk = pm /\ m <= k)
        l == ValueOf(SubSeq(s, 1, i - 1))
        r == ValueOf(SubSeq(s, i + Len(Ops[ar_op(s, i)]), n))
        a == ar_apply(Ops[ar_op(s, i)], l.v, r.v)
        c == ValueOf(SubSeq(s, 1, q - 1))
        x == ValueOf(SubSeq(s, q + 1, FirstOf(colons) - 1))
        y == ValueOf(SubSeq(s, FirstOf(colons) + 1, n))
        u == ValueOf(Tail(s))
        bad == [v |-> 0, bad |-> TRUE]
    IN IF n = 0 \/ \E k \in 1..n : Depth(s, k) < 0 THEN bad
       ELSE IF cond # {} THEN IF colons = {} THEN bad
                              ELSE [v |-> IF c.v # 0 THEN x.v ELSE y.v, bad |-> c.bad \/ x.bad \/ y.bad]
       ELSE IF binary # {} THEN [v |-> a.v, bad |-> l.bad \/ r.bad \/ a.err]
       ELSE CASE s[1] = "-" -> [u EXCEPT !.v = Wrap(-@)]
              [] s[1] = "!" -> [u EXCEPT !.v = Truth(@ = 0)]
              [] s[1] = "(" -> IF s[n] = ")" THEN ValueOf(SubSeq(s, 2, n - 1)) ELSE bad
              [] IsDigit(s[1]) -> [v |-> Wrap(Number(s, 1).v),
                                   bad |-> Number(s, 1).over \/ Number(s, 1).i <= n]
              [] OTHER -> bad

\* Precedence climbing computes the value of every expression, its overflows and
\* refusals included, and refuses what is no expression.
ArithmeticTrue ==
    LET a == Linked("Arithmetic", <<text, env>>) v == Linked("ValueOf", <<text>>)
    IN (Kits[kit].word # {} /\ Range(text) \subseteq (Range(Digits) \cup {"+", "-", "*", "/", "<", "&", "|", "!", "(", ")", "?", ":"}))
        => a.bad = v.bad /\ (~a.bad => a.v = v.v)

\* Quoting is complete: a text quoted in any of the three ways comes back as one word,
\* whatever it holds, and nothing of it is split, globbed or run.
QuotedVerbatim ==
    LET escape(S) == FoldLeft(LAMBDA q, c : q \o (IF c \in S THEN <<"\\", c>> ELSE <<c>>), <<>>, text)
        is(s, v) == LET x == Linked("Expansion", <<s, AnyFlags, env>>) IN x.r = "" /\ x.v = v /\ x.env = env /\ ~x.ran
    IN Kits[kit].word = {} \/
       /\ is(escape(Range(text)), IF text = <<>> THEN <<>> ELSE <<text>>)
       /\ is(<<"\"">> \o escape({"$", "BQ", "\"", "\\"}) \o <<"\"">>, <<text>>)
       /\ "'" \notin Range(text) => is(<<"'">> \o text \o <<"'">>, <<text>>)

\* With WRDE_NOCMD no command runs, however the substitution is nested in quotes and
\* default values, and a text without one is not refused.
NoCommandRuns ==
    \A f \in {x \in Kits[kit].word : x.nocmd} :
        LET x == Linked("Expansion", <<text, f, env>>)
            y == Linked("Expansion", <<text, [f EXCEPT !.nocmd = FALSE], env>>)
        IN ~x.ran /\ (~y.ran /\ ~has_cmdsub(text) => x = y)
=============================================================================
