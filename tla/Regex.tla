------------------------------- MODULE Regex --------------------------------
(***************************************************************************)
(* regcomp and regexec (src/src/regex.c): the parser of basic and extended *)
(* expressions, the code generator, the Pike machine and the backtracking  *)
(* search.  A character is a one-letter string (the UTF-8 decoding is in   *)
(* Charset); the name of a character class is one element of the pattern.  *)
(***************************************************************************)
EXTENDS Integers, Sequences, FiniteSets, SequencesExt

CONSTANTS
    Kits,        \* what programs work with: records [pieces, max, letters, flags] of what a
                 \* pattern is put together from, how many of it, the characters of the
                 \* subject strings, and the flags of regcomp
    Letters,     \* all characters of subject strings
    MaxText,
    DupMax,      \* RE_DUP_MAX
    MaxInst,     \* MAX_INST
    Budget,      \* BT_BUDGET
    Linked(_, _) \* regcomp and the others below by name, as the configuration links them

VARIABLES kit, pattern, pieces, re, text
vars == <<kit, pattern, pieces, re, text>>

None == -1
Lower(c) == IF c = "A" THEN "a" ELSE IF c = "B" THEN "b" ELSE c
Upper(c) == IF c = "a" THEN "A" ELSE IF c = "b" THEN "B" ELSE c
IsAlpha(c) == c \in {"a", "b", "c", "A", "B"}
\* places in the character set, for ranges
Code(c) == CASE c = "A" -> 65 [] c = "B" -> 66 [] c = "a" -> 97 [] c = "b" -> 98
             [] c = "c" -> 99 [] OTHER -> 33
Digits == {"0", "1", "2", "3", "4", "5", "6", "7", "8", "9"}
Value(c) == CHOOSE n \in 0..9 : c = ToString(n)

-----------------------------------------------------------------------------
(* The parser: its state is a record, n is the node it returns *)

Parser(s, f) == [s |-> s, f |-> f, pos |-> 1, nsub |-> 0, closed |-> {}, depth |-> 0,
                 backrefs |-> FALSE, err |-> "", n |-> [t |-> "empty"]]

peek(ps, off) == IF ps.pos + off <= Len(ps.s) THEN ps.s[ps.pos + off] ELSE ""
AtEnd(ps) == ps.pos > Len(ps.s)
Error(ps, e) == [ps EXCEPT !.err = e]
Skip(ps, k) == [ps EXCEPT !.pos = @ + k]
Node(ps, n) == [ps EXCEPT !.n = n]

AssertNode(kind) == [t |-> "assert", kind |-> kind]
Char(ps, c) == [t |-> "char", c |-> IF ps.f.icase THEN Lower(c) ELSE c]
ClassSet(class, neg) == [t |-> "set", neg |-> neg, chars |-> {}, classes |-> {class}]

\* one element of a bracket expression: a character, [.c.] or [=c=]; c is the element
bracket_char(ps) ==
    LET kind == peek(ps, 1)
        in == Skip(ps, 3)
    IN IF peek(ps, 0) # "[" \/ kind \notin {".", "="}
       THEN [ps |-> Skip(ps, 1), c |-> peek(ps, 0)]
       ELSE IF ps.pos + 2 > Len(ps.s) THEN [ps |-> Error(ps, "EBRACK"), c |-> ""]
       ELSE IF peek(in, 0) # kind \/ peek(in, 1) # "]"
       THEN [ps |-> Error(ps, IF AtEnd(in) THEN "EBRACK" ELSE "ECOLLATE"), c |-> ""]
       ELSE [ps |-> Skip(in, 2), c |-> peek(ps, 2)]

\* The characters of a range, with the other case of its letters.
RangeOf(ps, lo, hi) ==
    LET plain == {c \in Letters \cup {lo, hi} :
                    c = lo \/ (Code(lo) <= Code(c) /\ Code(c) <= Code(hi) /\ Code(c) # 33)}
    IN IF ps.f.icase THEN plain \cup {Lower(c) : c \in plain} \cup {Upper(c) : c \in plain}
       ELSE plain

RECURSIVE BracketItems(_, _, _)
BracketItems(ps, set, first) ==
    LET ends == {e \in ps.pos + 2..Len(ps.s) - 1 : ps.s[e] = ":" /\ ps.s[e + 1] = "]"}
        e == CHOOSE x \in ends : \A y \in ends : x <= y
        name == SubSeq(ps.s, ps.pos + 2, e - 1)
        class == IF ps.f.icase /\ name[1] \in {"upper", "lower"} THEN "alpha" ELSE name[1]
        lo == bracket_char(ps)
        isrange == peek(lo.ps, 0) = "-" /\ peek(lo.ps, 1) \notin {"]", ""}
        hi == bracket_char(Skip(lo.ps, 1))
        add(q, h) == BracketItems(q, [set EXCEPT !.chars = @ \cup RangeOf(ps, lo.c, h)], FALSE)
    IN IF AtEnd(ps) THEN Error(ps, "EBRACK")
       ELSE IF peek(ps, 0) = "]" /\ ~first THEN Node(Skip(ps, 1), set)
       ELSE IF peek(ps, 0) = "[" /\ peek(ps, 1) = ":"
       THEN IF ends = {} THEN Error(ps, "EBRACK")
            ELSE IF Len(name) # 1 \/ name[1] \notin {"alpha", "upper", "lower", "space"}
            THEN Error(ps, "ECTYPE")
            ELSE BracketItems([ps EXCEPT !.pos = e + 2],
                              [set EXCEPT !.classes = @ \cup {class}], FALSE)
       ELSE IF lo.ps.err # "" THEN lo.ps
       ELSE IF ~isrange THEN add(lo.ps, lo.c)
       ELSE IF peek(lo.ps, 1) = "[" /\ peek(lo.ps, 2) = ":" THEN Error(lo.ps, "ERANGE")
       ELSE IF hi.ps.err # "" THEN hi.ps
       ELSE IF Code(hi.c) < Code(lo.c) THEN Error(hi.ps, "ERANGE")
       ELSE add(hi.ps, hi.c)

parse_bracket(ps) ==
    LET neg == peek(ps, 0) = "^"
    IN BracketItems(IF neg THEN Skip(ps, 1) ELSE ps,
                    [t |-> "set", neg |-> neg, chars |-> {}, classes |-> {}], TRUE)

at_alt(ps) == IF ps.f.ere THEN peek(ps, 0) = "|" ELSE peek(ps, 0) = "\\" /\ peek(ps, 1) = "|"
at_close(ps) == IF ps.f.ere THEN peek(ps, 0) = ")" /\ ps.depth > 0
                ELSE peek(ps, 0) = "\\" /\ peek(ps, 1) = ")"
at_start(ps) ==
    \/ ps.pos = 1
    \/ ps.f.ere /\ ps.s[ps.pos - 1] \in {"(", "|"}
    \/ /\ ~ps.f.ere /\ ps.pos > 2
       /\ ps.s[ps.pos - 2] = "\\" /\ ps.s[ps.pos - 1] \in {"(", "|"}

RECURSIVE Number(_, _)
Number(ps, m) ==
    IF peek(ps, 0) \notin Digits THEN [ps |-> ps, m |-> m]
    ELSE LET v == 10 * m + Value(peek(ps, 0))
         IN Number(Skip(ps, 1), IF v > DupMax THEN DupMax + 1 ELSE v)

\* {m}, {m,} and {m,n}; max None is unbounded
parse_interval(ps) ==
    LET lo == Number(ps, 0)
        digits == lo.ps.pos > ps.pos
        comma == peek(lo.ps, 0) = ","
        more == Skip(lo.ps, 1)
        hi == IF ~comma THEN [ps |-> lo.ps, m |-> lo.m]
              ELSE IF peek(more, 0) \in Digits THEN Number(more, 0)
              ELSE [ps |-> more, m |-> None]
        closes == IF ps.f.ere THEN peek(hi.ps, 0) = "}"
                  ELSE peek(hi.ps, 0) = "\\" /\ peek(hi.ps, 1) = "}"
        bad(q) == [ps |-> Error(q, IF AtEnd(q) THEN "EBRACE" ELSE "BADBR"), mn |-> 0, mx |-> 0]
    IN IF ~digits /\ ~(ps.f.ere /\ comma) THEN bad(lo.ps)
       ELSE IF ~closes THEN bad(hi.ps)
       ELSE IF lo.m > DupMax \/ hi.m > DupMax \/ (hi.m # None /\ hi.m < lo.m)
       THEN [ps |-> Error(hi.ps, "BADBR"), mn |-> 0, mx |-> 0]
       ELSE [ps |-> Skip(hi.ps, IF ps.f.ere THEN 1 ELSE 2), mn |-> lo.m, mx |-> hi.m]

RECURSIVE parse_alt(_), parse_cat(_, _), parse_repeat(_, _), AltRest(_)

\* A group, after its opening parenthesis of k characters.
Group(ps, k) ==
    LET n == ps.nsub + 1
        open == [Skip(ps, k) EXCEPT !.nsub = n, !.depth = @ + 1]
        in == IF at_close(open) THEN Node(open, [t |-> "empty"]) ELSE parse_alt(open)
        out == [in EXCEPT !.depth = @ - 1]
        closed == IF ps.f.ere THEN peek(out, 0) = ")"
                  ELSE peek(out, 0) = "\\" /\ peek(out, 1) = ")"
    IN IF in.err # "" THEN in
       ELSE IF ~closed THEN Error(out, "EPAREN")
       ELSE [Skip(out, k) EXCEPT !.closed = @ \cup {n},
                                 !.n = [t |-> "group", a |-> out.n, i |-> n]]

Escape(ps) ==
    LET e == peek(ps, 1)
        past == Skip(ps, 2)
        n == IF e \in Digits THEN Value(e) ELSE 0
    IN IF ps.pos = Len(ps.s) THEN Error(ps, "EESCAPE")
       ELSE IF ~ps.f.ere /\ e = "(" THEN Group(ps, 2)
       ELSE IF ~ps.f.ere /\ e = ")" THEN Error(ps, "EPAREN")
       ELSE IF ~ps.f.ere /\ e = "{" THEN Error(ps, "BADRPT")
       ELSE IF n > 0
       THEN IF n > ps.nsub \/ n \notin ps.closed THEN Error(past, "ESUBREG")
            ELSE [past EXCEPT !.backrefs = TRUE, !.n = [t |-> "bref", i |-> n]]
       ELSE Node(past, CASE e = "<" -> AssertNode("wbeg") [] e = ">" -> AssertNode("wend")
                         [] e = "b" -> AssertNode("wordb") [] e = "B" -> AssertNode("nwordb")
                         [] e = "`" -> AssertNode("bufbeg") [] e = "'" -> AssertNode("bufend")
                         [] e = "w" -> ClassSet("alpha", FALSE) [] e = "W" -> ClassSet("alpha", TRUE)
                         [] e = "s" -> ClassSet("space", FALSE) [] e = "S" -> ClassSet("space", TRUE)
                         [] OTHER -> Char(ps, e))

parse_atom(ps) ==
    LET c == peek(ps, 0)
        past == Skip(ps, 1)
        ends == ps.pos = Len(ps.s) \/ (peek(ps, 1) = "\\" /\ peek(ps, 2) \in {")", "|"})
    IN CASE ps.f.ere /\ c = "(" -> Group(ps, 1)
         [] ps.f.ere /\ c \in {"*", "+", "?"} -> Error(ps, "BADRPT")
         [] ps.f.ere /\ c = "{" /\ peek(ps, 1) \in Digits -> Error(ps, "BADRPT")
         [] c = "^" /\ (ps.f.ere \/ at_start(ps)) -> Node(past, AssertNode("bol"))
         [] c = "$" /\ (ps.f.ere \/ ends) -> Node(past, AssertNode("eol"))
         [] c = "." -> Node(past, [t |-> "any"])
         [] c = "[" -> parse_bracket(past)
         [] c = "\\" -> Escape(ps)
         [] OTHER -> Node(past, Char(ps, c))

\* The repetition operators after an atom; the atom is ps.n.
parse_repeat(ps, first) ==
    LET a == IF first THEN parse_atom(ps) ELSE ps
        c == peek(a, 0)
        d == peek(a, 1)
        op == CASE c = "*" -> "star"
                [] a.f.ere /\ c = "+" -> "plus"
                [] a.f.ere /\ c = "?" -> "opt"
                [] a.f.ere /\ c = "{" /\ d \in Digits \cup {","} -> "interval"
                [] ~a.f.ere /\ c = "\\" /\ d = "+" -> "plus"
                [] ~a.f.ere /\ c = "\\" /\ d = "?" -> "opt"
                [] ~a.f.ere /\ c = "\\" /\ d = "{" -> "interval"
                [] OTHER -> "none"
        past == Skip(a, IF c = "\\" THEN 2 ELSE 1)
        iv == CASE op = "interval" -> parse_interval(past)
                [] op = "star" -> [ps |-> past, mn |-> 0, mx |-> None]
                [] op = "plus" -> [ps |-> past, mn |-> 1, mx |-> None]
                [] OTHER -> [ps |-> past, mn |-> 0, mx |-> 1]
        isbol == a.n.t = "assert" /\ a.n.kind = "bol"
    IN IF a.err # "" \/ op = "none" THEN a
       ELSE IF iv.ps.err # "" THEN iv.ps
       ELSE IF ~a.f.ere /\ isbol   \* "^*": the star is an ordinary character
       THEN IF c # "*" THEN [iv.ps EXCEPT !.pos = @ - 2]
            ELSE Node(past, [t |-> "cat", a |-> a.n, b |-> [t |-> "char", c |-> "*"]])
       ELSE IF a.f.ere /\ a.n.t = "assert" THEN Error(a, "BADRPT")
       ELSE parse_repeat(Node(iv.ps, [t |-> "rep", a |-> a.n, mn |-> iv.mn, mx |-> iv.mx]), FALSE)

parse_cat(ps, seq) ==
    IF ps.err # "" \/ AtEnd(ps) \/ at_alt(ps) \/ at_close(ps) THEN Node(ps, seq)
    ELSE LET a == parse_repeat(ps, TRUE)
         IN IF a.err # "" THEN a
            ELSE parse_cat(a, IF seq.t = "empty" THEN a.n
                              ELSE [t |-> "cat", a |-> seq, b |-> a.n])

AltRest(l) ==
    IF l.err # "" \/ ~at_alt(l) THEN l
    ELSE LET r == parse_cat(Skip(l, IF l.f.ere THEN 1 ELSE 2), [t |-> "empty"])
         IN IF r.err # "" THEN r
            ELSE AltRest(Node(r, [t |-> "alt", a |-> l.n, b |-> r.n]))

parse_alt(ps) == AltRest(parse_cat(ps, [t |-> "empty"]))

-----------------------------------------------------------------------------
(* Code generation; an instruction is a record, addresses start at 1 *)

RECURSIVE size_of(_)
\* Mutant: a starred node has no place for its split.
size_ofLoop(n) ==
    LET c == size_of(n.a)
        size == CASE n.t = "empty" -> 0
                  [] n.t = "cat" -> c + size_of(n.b)
                  [] n.t = "alt" -> c + size_of(n.b) + 2
                  [] n.t = "group" -> c + 2
                  [] n.t = "rep" -> IF n.mx = None THEN IF n.mn > 0 THEN n.mn * c + 2 ELSE c + 2
                                    ELSE n.mn * c + (n.mx - n.mn) * (c + 1)
                  [] OTHER -> 1
    IN IF size > MaxInst THEN MaxInst + 1 ELSE size
size_of(n) ==
    LET c == size_of(n.a)
        size == CASE n.t = "empty" -> 0
                  [] n.t = "cat" -> c + size_of(n.b)
                  [] n.t = "alt" -> c + size_of(n.b) + 2
                  [] n.t = "group" -> c + 2
                  [] n.t = "rep" -> IF n.mx = None THEN IF n.mn > 0 THEN n.mn * c + 2 ELSE c + 3
                                    ELSE n.mn * c + (n.mx - n.mn) * (c + 1)
                  [] OTHER -> 1
    IN IF size > MaxInst THEN MaxInst + 1 ELSE size

Emit(g, i) == [g EXCEPT !.code = Append(@, i)]
Here(g) == Len(g.code) + 1

RECURSIVE gen(_, _), Copies(_, _, _), Optional(_, _, _, _)
Copies(g, n, k) == IF k <= 0 THEN g ELSE Copies(gen(g, n), n, k - 1)

\* k optional copies; every split of splits leaves for the end
Optional(g, n, k, splits) ==
    IF k = 0 THEN [g EXCEPT !.code = [i \in DOMAIN @ |->
                     IF i \in splits THEN [@[i] EXCEPT !.y = Here(g)] ELSE @[i]]]
    ELSE LET s == Emit(g, [op |-> "split", x |-> Here(g) + 1, y |-> 0])
         IN Optional(gen(s, n), n, k - 1, splits \cup {Here(g)})

gen(g, n) ==
    CASE n.t = "empty" -> g
      [] n.t \in {"char", "any", "set", "assert", "bref"} -> Emit(g, [op |-> n.t, n |-> n])
      [] n.t = "cat" -> gen(gen(g, n.a), n.b)
      [] n.t = "alt" ->
            LET sp == Here(g)
                l == Emit(gen(Emit(g, [op |-> "split", x |-> sp + 1, y |-> 0]), n.a),
                          [op |-> "jmp", x |-> 0])
                r == gen(l, n.b)
            IN [r EXCEPT !.code[sp].y = Here(l), !.code[Here(l) - 1].x = Here(r)]
      [] n.t = "group" -> Emit(gen(Emit(g, [op |-> "save", x |-> 2 * n.i]), n.a),
                               [op |-> "save", x |-> 2 * n.i + 1])
      [] n.t = "rep" /\ n.mx = None ->
            LET c == Copies(g, n.a, n.mn - 1)
                enter == Emit([c EXCEPT !.nloops = @ + 1], [op |-> "enter", z |-> c.nloops])
                top == Here(enter)
                open == IF n.mn > 0 THEN enter
                        ELSE Emit(enter, [op |-> "split", x |-> top + 1, y |-> 0])
                body == Here(open)
                in == gen(open, n.a)
                loop == Emit(in, [op |-> "check", x |-> body, y |-> Here(in) + 1, z |-> c.nloops])
            IN IF n.mn > 0 THEN loop ELSE [loop EXCEPT !.code[top].y = Here(loop)]
      [] n.t = "rep" -> Optional(Copies(g, n.a, n.mn), n.a, n.mx - n.mn, {})

regcomp(s, f) ==
    LET ps == parse_alt(Parser(s, f))
        size == size_of(ps.n) + 3
        err == IF ps.err # "" THEN ps.err
               ELSE IF ~AtEnd(ps) THEN "EPAREN"
               ELSE IF size > MaxInst THEN "ESPACE" ELSE ""
        g == gen([code |-> <<[op |-> "save", x |-> 0]>>, nloops |-> 0], ps.n)
        all == Emit(Emit(g, [op |-> "save", x |-> 1]), [op |-> "match"])
    IN IF err # "" THEN [err |-> err]
       ELSE [err |-> "", code |-> all.code, nloops |-> g.nloops, nsub |-> ps.nsub, f |-> f,
             backrefs |-> ps.backrefs, node |-> ps.n, room |-> size]

-----------------------------------------------------------------------------
(* Matching.  Positions are offsets; the range matched is the whole text. *)

is_word(c) == IsAlpha(c) \/ c = "_"
char_at(s, pos) == IF pos < Len(s) THEN s[pos + 1] ELSE ""
char_before(s, pos) == IF pos > 0 THEN s[pos] ELSE ""

assert_ok(p, s, kind, pos) ==
    LET prev == char_before(s, pos)
        next == char_at(s, pos)
    IN CASE kind = "bol" -> (pos = 0 /\ ~p.f.notbol) \/ (p.f.newline /\ prev = "\n")
         [] kind = "eol" -> (pos = Len(s) /\ ~p.f.noteol) \/ (p.f.newline /\ next = "\n")
         [] kind = "wordb" -> is_word(prev) # is_word(next)
         [] kind = "nwordb" -> is_word(prev) = is_word(next)
         [] kind = "wbeg" -> ~is_word(prev) /\ is_word(next)
         [] kind = "wend" -> is_word(prev) /\ ~is_word(next)
         [] kind = "bufbeg" -> pos = 0
         [] kind = "bufend" -> pos = Len(s)

in_set_raw(n, c) == c \in n.chars \/ ("alpha" \in n.classes /\ IsAlpha(c))
                    \/ ("space" \in n.classes /\ c = "\n")
                    \/ ("upper" \in n.classes /\ IsAlpha(c) /\ Lower(c) # c)
                    \/ ("lower" \in n.classes /\ IsAlpha(c) /\ Upper(c) # c)

char_ok(p, i, c) ==
    LET n == i.n
        in == \/ in_set_raw(n, c)
              \/ p.f.icase /\ (in_set_raw(n, Lower(c)) \/ in_set_raw(n, Upper(c)))
    IN /\ c # ""
       /\ CASE i.op = "char" -> n.c = c \/ (p.f.icase /\ n.c = Lower(c))
            [] i.op = "any" -> ~(p.f.newline /\ c = "\n")
            [] OTHER -> ~(n.neg /\ p.f.newline /\ c = "\n") /\ in # n.neg

\* The threads reached from pc without reading, in priority order, after those of k.l:
\* a stack of places and of capture slots to restore, depth is its largest length.
RECURSIVE Closure(_, _, _, _)
Closure(p, s, pos, k) ==
    LET top == Last(k.stack)
        rest == Front(k.stack)
        pc == top.pc
        i == p.code[pc]
        push(es) == Closure(p, s, pos, [k EXCEPT !.stack = rest \o es, !.mark = @ \cup {pc},
                        !.depth = IF Len(rest \o es) > @ THEN Len(rest \o es) ELSE @])
        go(q) == [pc |-> q, slot |-> None, old |-> None]
    IN IF k.stack = <<>> THEN k
       ELSE IF top.slot # None
       THEN Closure(p, s, pos, [k EXCEPT !.stack = rest, !.work[top.slot] = top.old])
       ELSE IF pc \in k.mark THEN Closure(p, s, pos, [k EXCEPT !.stack = rest])
       ELSE CASE i.op = "jmp" -> push(<<go(i.x)>>)
              [] i.op \in {"split", "check"} -> push(<<go(i.y), go(i.x)>>)
              [] i.op = "enter" -> push(<<go(pc + 1)>>)
              [] i.op = "assert" ->
                    push(IF assert_ok(p, s, i.n.kind, pos) THEN <<go(pc + 1)>> ELSE <<>>)
              [] i.op = "save" ->
                    Closure(p, s, pos, [k EXCEPT !.work[i.x] = pos, !.mark = @ \cup {pc},
                        !.stack = rest \o <<[pc |-> 0, slot |-> i.x, old |-> k.work[i.x]],
                                            go(pc + 1)>>,
                        !.depth = IF Len(rest) + 2 > @ THEN Len(rest) + 2 ELSE @])
              [] OTHER ->
                    Closure(p, s, pos, [k EXCEPT !.stack = rest, !.mark = @ \cup {pc},
                        !.l = Append(@, [pc |-> pc, cap |-> k.work])])

NoCaps(p) == [i \in 0..(2 * p.nsub + 1) |-> None]

add_thread(p, s, pos, k, pc, caps) ==
    Closure(p, s, pos, [k EXCEPT !.work = caps,
                                 !.stack = <<[pc |-> pc, slot |-> None, old |-> None]>>])

\* One position of the Pike machine: cl are its threads, best the match so far.
RECURSIVE PikeStep(_, _, _, _, _, _)
\* Mutant: the first match found is kept, though a longer one starts there too.
PikeStepFirst(p, s, pos, cl, best, depth) ==
    LET empty == [l |-> <<>>, mark |-> {}, work |-> <<>>, stack |-> <<>>, depth |-> depth]
        known == [empty EXCEPT !.l = cl, !.mark = {cl[i].pc : i \in DOMAIN cl}]
        seeded == IF best = <<>> THEN add_thread(p, s, pos, known, 1, NoCaps(p)) ELSE known
        c == char_at(s, pos)
        better(cap, b) == IF b = <<>> THEN TRUE
                          ELSE cap[0] < b[0]
        one(st, t) ==
            IF st.best # <<>> /\ t.cap[0] > st.best[0] THEN st
            ELSE IF p.code[t.pc].op = "match"
            THEN [st EXCEPT !.best = IF better(t.cap, @) THEN t.cap ELSE @]
            ELSE IF c # "" /\ char_ok(p, p.code[t.pc], c)
            THEN [st EXCEPT !.k = add_thread(p, s, pos + 1, @, t.pc + 1, t.cap)] ELSE st
        after == FoldLeft(one, [k |-> [empty EXCEPT !.depth = seeded.depth], best |-> best],
                          seeded.l)
    IN IF seeded.l = <<>> /\ best # <<>> THEN [best |-> best, depth |-> seeded.depth]
       ELSE IF c = "" THEN [best |-> after.best, depth |-> after.k.depth]
       ELSE PikeStep(p, s, pos + 1, after.k.l, after.best, after.k.depth)
PikeStep(p, s, pos, cl, best, depth) ==
    LET empty == [l |-> <<>>, mark |-> {}, work |-> <<>>, stack |-> <<>>, depth |-> depth]
        known == [empty EXCEPT !.l = cl, !.mark = {cl[i].pc : i \in DOMAIN cl}]
        seeded == IF best = <<>> THEN add_thread(p, s, pos, known, 1, NoCaps(p)) ELSE known
        c == char_at(s, pos)
        better(cap, b) == IF b = <<>> THEN TRUE
                          ELSE cap[0] < b[0] \/ (cap[0] = b[0] /\ cap[1] > b[1])
        one(st, t) ==
            IF st.best # <<>> /\ t.cap[0] > st.best[0] THEN st
            ELSE IF p.code[t.pc].op = "match"
            THEN [st EXCEPT !.best = IF better(t.cap, @) THEN t.cap ELSE @]
            ELSE IF c # "" /\ char_ok(p, p.code[t.pc], c)
            THEN [st EXCEPT !.k = add_thread(p, s, pos + 1, @, t.pc + 1, t.cap)] ELSE st
        after == FoldLeft(one, [k |-> [empty EXCEPT !.depth = seeded.depth], best |-> best],
                          seeded.l)
    IN IF seeded.l = <<>> /\ best # <<>> THEN [best |-> best, depth |-> seeded.depth]
       ELSE IF c = "" THEN [best |-> after.best, depth |-> after.k.depth]
       ELSE PikeStep(p, s, pos + 1, after.k.l, after.best, after.k.depth)

pike_run(p, s) == PikeStep(p, s, 0, <<>>, <<>>, 1)

\* The backtracking search from one start.  A frame is a branch, or a capture or a
\* loop mark to restore.
Espace == [i \in {0, 1} |-> -2]   \* REG_ESPACE: the budget is spent

RECURSIVE SameText(_, _, _, _)
SameText(p, s, from, at) ==   \* the end of the copy of from[1]..from[2] at at, or None
    LET c == char_at(s, at)
        d == s[from[1] + 1]
    IN IF from[1] >= from[2] THEN at
       ELSE IF c = "" \/ (c # d /\ ~(p.f.icase /\ Lower(c) = Lower(d))) THEN None
       ELSE SameText(p, s, <<from[1] + 1, from[2]>>, at + 1)

\* One round of the search: the instruction at pc, or with pc = 0 the frame on top of
\* the stack.
Round(p, s, b) ==
    LET pc == b.pc
        pos == b.pos
        i == p.code[pc]
        pop == LET f == Last(b.st)
                   r == [b EXCEPT !.st = Front(@)]
               IN IF b.st = <<>> THEN [b EXCEPT !.over = TRUE]
                  ELSE CASE f.kind = "branch" -> [r EXCEPT !.pc = f.a, !.pos = f.b]
                         [] f.kind = "cap" -> [r EXCEPT !.cap[f.a] = f.b]
                         [] OTHER -> [r EXCEPT !.loops[f.a] = f.b]
        fail == [b EXCEPT !.pc = 0, !.steps = @ + 1]
        frame(k, a, v) == [kind |-> k, a |-> a, b |-> v]
        to(q, at, frames) == [b EXCEPT !.pc = q, !.pos = at, !.st = @ \o frames, !.steps = @ + 1]
        copy == SameText(p, s, <<b.cap[2 * i.n.i], b.cap[2 * i.n.i + 1]>>, pos)
    IN IF pc = 0 THEN pop
       ELSE IF b.steps = Budget THEN [b EXCEPT !.best = Espace, !.over = TRUE]
       ELSE CASE i.op \in {"char", "any", "set"} ->
                    IF char_ok(p, i, char_at(s, pos)) THEN to(pc + 1, pos + 1, <<>>) ELSE fail
              [] i.op = "assert" -> IF assert_ok(p, s, i.n.kind, pos) THEN to(pc + 1, pos, <<>>)
                                    ELSE fail
              [] i.op = "split" -> to(i.x, pos, <<frame("branch", i.y, pos)>>)
              [] i.op = "jmp" -> to(i.x, pos, <<>>)
              [] i.op = "save" -> [to(pc + 1, pos, <<frame("cap", i.x, b.cap[i.x])>>) EXCEPT !.cap[i.x] = pos]
              [] i.op = "enter" -> [to(pc + 1, pos, <<frame("loop", i.z, b.loops[i.z])>>) EXCEPT !.loops[i.z] = pos]
              [] i.op = "check" /\ b.loops[i.z] = pos -> to(i.y, pos, <<>>)
              [] i.op = "check" ->
                    [to(i.x, pos, <<frame("branch", i.y, pos), frame("loop", i.z, b.loops[i.z])>>)
                        EXCEPT !.loops[i.z] = pos]
              [] i.op = "bref" ->
                    IF b.cap[2 * i.n.i] = None \/ b.cap[2 * i.n.i + 1] = None THEN fail
                    ELSE IF copy = None THEN fail ELSE to(pc + 1, copy, <<>>)
              [] i.op = "match" ->
                    [fail EXCEPT !.best = IF @ = <<>> THEN b.cap ELSE IF b.cap[1] > @[1] THEN b.cap ELSE @]

\* 2^k rounds of it, or as many as there are.
RECURSIVE Backtrack(_, _, _, _)
Backtrack(p, s, b, k) == IF b.over THEN b
                         ELSE IF k = 0 THEN Round(p, s, b)
                         ELSE Backtrack(p, s, Backtrack(p, s, b, k - 1), k - 1)

\* A step pushes two frames at most, so that a budget of Budget steps is spent before
\* 2^Rounds rounds are.  The steps of all starts are counted together.
Rounds == CHOOSE k \in 0..Budget : 2^k > 3 * Budget + 1 /\ 2^k <= 6 * Budget + 2
RECURSIVE bt_from(_, _, _, _)
bt_from(p, s, start, steps) ==
    LET found == Backtrack(p, s, [pc |-> 1, pos |-> start, st |-> <<>>, cap |-> NoCaps(p), over |-> FALSE,
                                  loops |-> [l \in 0..p.nloops |-> None], best |-> <<>>, steps |-> steps], Rounds)
    IN IF found.best # <<>> \/ start = Len(s) THEN found.best ELSE bt_from(p, s, start + 1, found.steps)
bt_run(p, s) == bt_from(p, s, 0, 0)

regexec(p, s) == IF p.backrefs THEN bt_run(p, s) ELSE pike_run(p, s).best

-----------------------------------------------------------------------------

Init == kit \in DOMAIN Kits /\ pattern = <<>> /\ pieces = 0 /\ re = [err |-> "none"] /\ text = <<>>

\* The program writes a pattern, compiles it and matches texts against it.
Write ==
    /\ re.err = "none" /\ pieces < Kits[kit].max
    /\ \E x \in Kits[kit].pieces : pattern' = pattern \o x
    /\ pieces' = pieces + 1
    /\ UNCHANGED <<kit, re, text>>

Compile ==
    /\ re.err = "none"
    /\ \E f \in Kits[kit].flags : re' = Linked("regcomp", <<pattern, f>>)
    /\ UNCHANGED <<kit, pattern, pieces, text>>

Match ==
    /\ re.err = "" /\ Len(text) < MaxText
    /\ \E c \in Kits[kit].letters : text' = Append(text, c)
    /\ UNCHANGED <<kit, pattern, pieces, re>>

Next == Write \/ Compile \/ Match

Spec == Init /\ [][Next]_vars

-----------------------------------------------------------------------------
(* The reference: which stretches of a text an expression matches *)

RECURSIVE Ends(_, _, _, _), Times(_, _, _, _, _)

\* The ways to match n from a way w = [at, cap] on: sets of such ways.
Ends(p, s, n, w) ==
    LET one(i) == IF char_ok(p, i, char_at(s, w.at)) THEN {[w EXCEPT !.at = @ + 1]} ELSE {}
    IN CASE n.t = "empty" -> {w}
         [] n.t \in {"char", "any", "set"} -> one([op |-> n.t, n |-> n])
         [] n.t = "assert" -> IF assert_ok(p, s, n.kind, w.at) THEN {w} ELSE {}
         [] n.t = "cat" -> UNION {Ends(p, s, n.b, v) : v \in Ends(p, s, n.a, w)}
         [] n.t = "alt" -> Ends(p, s, n.a, w) \cup Ends(p, s, n.b, w)
         [] n.t = "group" -> {[v EXCEPT !.cap[n.i] = <<w.at, v.at>>] : v \in Ends(p, s, n.a, w)}
         [] n.t = "bref" -> LET c == w.cap[n.i]
                            IN IF c = <<>> THEN {}
                               ELSE IF SameText(p, s, c, w.at) = None THEN {}
                               ELSE {[w EXCEPT !.at = SameText(p, s, c, w.at)]}
         [] n.t = "rep" -> Times(p, s, n, {w}, 0)

\* After k rounds the ways are W; an unbounded repetition stops when a round adds none.
Times(p, s, n, W, k) ==
    LET next == UNION {Ends(p, s, n.a, w) : w \in W}
        new == next \ W
    IN IF k < n.mn THEN Times(p, s, n, next, k + 1)
       ELSE IF n.mx = None THEN IF new = {} THEN W ELSE Times(p, s, n, W \cup next, k)
       ELSE IF k = n.mx THEN W ELSE W \cup Times(p, s, n, next, k + 1)

Ways(p, s, i) == Ends(p, s, p.node, [at |-> i, cap |-> [g \in 1..p.nsub |-> <<>>]])
Starts(p, s) == {i \in 0..Len(s) : Ways(p, s, i) # {}}
Largest(S) == CHOOSE x \in S : \A y \in S : x >= y
Smallest(S) == CHOOSE x \in S : \A y \in S : x <= y

Reference(p, s) ==
    LET i == Smallest(Starts(p, s))
    IN IF Starts(p, s) = {} THEN <<>> ELSE <<i, Largest({w.at : w \in Ways(p, s, i)})>>

Span(m) == IF m = <<>> THEN <<>> ELSE <<m[0], m[1]>>

\* regexec finds the leftmost match and the longest one there, with either engine,
\* whatever empty iterations, captures and back-references the expression has.
LeftmostLongest ==
    re.err = "" =>
        LET found == Linked("regexec", <<re, text>>)
            right == Linked("Reference", <<re, text>>)
        IN /\ found # Espace => Span(found) = right
           /\ ~re.backrefs => Span(Linked("bt_run", <<re, text>>)) \in {right, Span(Espace)}

\* The code fits the room size_of computed, every jump stays inside it, and the thread
\* stack and list keep to the bounds they were allocated with.
ProgramFits ==
    re.err = "" =>
        LET n == Len(re.code)
        IN /\ n <= re.room
           /\ \A i \in 1..n : re.code[i].op \in {"split", "check", "jmp"} => re.code[i].x \in 1..n
           /\ \A i \in 1..n : re.code[i].op \in {"split", "check"} => re.code[i].y \in 1..n
           /\ ~re.backrefs => Linked("pike_run", <<re, text>>).depth <= 2 * n + 2

\* Every group that took part has its span inside the match, in order.
GroupsInside ==
    re.err = "" =>
        LET m == Linked("regexec", <<re, text>>)
        IN m \notin {<<>>, Espace} => \A g \in 1..re.nsub :
              LET so == m[2 * g]
                  eo == m[2 * g + 1]
              IN so # None /\ eo # None => m[0] <= so /\ so <= eo /\ eo <= m[1]
=============================================================================
