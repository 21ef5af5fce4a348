------------------------------- MODULE MCText -------------------------------
(***************************************************************************)
(* The parts of the library that compute on texts, arrays and messages,    *)
(* side by side.  They share no state: a behaviour uses one of them, sys,  *)
(* and leaves the variables of the others Unused.                          *)
(***************************************************************************)
EXTENDS Integers, Sequences, FiniteSets, SequencesExt

\* The larger functions of the parts by their names: Linkage, below.  A program calls them
\* through this constant, so that TLC does not unfold them at every place of a call.
CONSTANT Linked(_, _)

Unused == 0

-----------------------------------------------------------------------------
(* Regular expressions *)

DupMax == 3
MaxInst == 40
Budget == 70
Flags(ere, icase, newline, notbol, noteol) ==
    [ere |-> ere, icase |-> icase, newline |-> newline, notbol |-> notbol, noteol |-> noteol]
RegexKits == [
    extended |-> [pieces |-> {<<"(">>, <<")">>, <<"a">>, <<".">>, <<"|">>, <<"*">>, <<"{", "2", ",", "}">>, <<"\\", "1">>},
                  max |-> 4, letters |-> {"a", "b"}, flags |-> {Flags(TRUE, FALSE, FALSE, FALSE, FALSE)}],
    loops |-> [pieces |-> {<<"(", "a">>, <<"b", ")">>, <<"|">>, <<"*">>, <<"\\", "1">>},
                  max |-> 5, letters |-> {"a", "b"}, flags |-> {Flags(TRUE, FALSE, FALSE, FALSE, FALSE)}],
    basic |-> [pieces |-> {<<"\\", "(">>, <<"\\", ")">>, <<"a">>, <<"*">>, <<"\\", "{", "0", ",", "2", "\\", "}">>, <<"^">>, <<"$">>, <<"\\", "1">>},
                  max |-> 4, letters |-> {"a", "NL"}, flags |-> {Flags(FALSE, FALSE, FALSE, FALSE, FALSE), Flags(FALSE, TRUE, TRUE, TRUE, TRUE)}],
    sets |-> [pieces |-> {<<"[">>, <<"^">>, <<"a", "-">>, <<"B">>, <<"]">>, <<"[", ":", "alpha", ":", "]">>},
                  max |-> 4, letters |-> {"a", "A"}, flags |-> {Flags(TRUE, FALSE, FALSE, FALSE, FALSE), Flags(TRUE, TRUE, TRUE, TRUE, FALSE)}]]

-----------------------------------------------------------------------------
(* Patterns and word expansion *)

NoFn == [pathname |-> FALSE, noescape |-> FALSE, period |-> FALSE, leading |-> FALSE, casefold |-> FALSE]
Fn == {NoFn, [NoFn EXCEPT !.period = TRUE], [NoFn EXCEPT !.pathname = TRUE, !.period = TRUE],
       [pathname |-> TRUE, noescape |-> TRUE, period |-> TRUE, leading |-> TRUE, casefold |-> TRUE]}
NoGlob == [noescape |-> FALSE, mark |-> FALSE, onlydir |-> FALSE, period |-> FALSE, err |-> FALSE, tilde |-> FALSE,
           tildecheck |-> FALSE, brace |-> FALSE, nocheck |-> FALSE, nomagic |-> FALSE, append |-> FALSE, dooffs |-> FALSE]
Glob == {NoGlob, [NoGlob EXCEPT !.append = TRUE, !.nocheck = TRUE],
         [NoGlob EXCEPT !.brace = TRUE, !.mark = TRUE, !.tilde = TRUE, !.onlydir = TRUE],
         [NoGlob EXCEPT !.period = TRUE, !.err = TRUE, !.dooffs = TRUE]}
NoWord == [nocmd |-> FALSE, undef |-> FALSE, append |-> FALSE, reuse |-> FALSE, dooffs |-> FALSE]
Word == {NoWord, [NoWord EXCEPT !.nocmd = TRUE, !.append = TRUE], [NoWord EXCEPT !.undef = TRUE, !.reuse = TRUE, !.dooffs = TRUE]}
Each(S) == {<<c>> : c \in S}
Kit(pieces, max, fn, str, glob, word) == [pieces |-> pieces, max |-> max, fn |-> fn, str |-> str, glob |-> glob, word |-> word]
WordKits == [
    match |-> Kit(Each({"*", "?", "a", ".", "/", "\\", "["}) \cup {<<"[", "a", "-", "b", "]">>}, 3, Fn, 2, {}, {}),
    files |-> Kit(Each({"*", "?", "a", ".", "/", "~"}) \cup {<<"{", "a", ",">>, <<"b", "}">>, <<"[", "a", "]">>}, 3, {NoFn}, 0, Glob, {}),
    arithmetic |-> Kit(Each({"3", "-", "*", "(", ")", "&"}) \cup {<<"3", "-">>}, 4, {NoFn}, 0, {}, {NoWord}),
    conditional |-> Kit(Each({"0", "3", "?", ":"}), 5, {NoFn}, 0, {}, {NoWord}),
    fields |-> Kit(Each({"a", " ", ":"}), 5, {NoFn}, 0, {}, {NoWord}),
    quotes |-> Kit({<<"\"", "$", "{", "x", ":", "-", "\"">>, <<"'">>, <<"BQ", "BQ">>, <<"'", "BQ", "BQ", "'">>, <<"\"", "}", "\"">>, <<"$", "v">>,
                    <<"$", "{", "y", "=">>}, 3, {NoFn}, 0, {}, Word)]
Tree == << <<"a">> >> :> "dir" @@ << <<"a">>, <<"b">> >> :> "file" @@ << <<"a">>, <<".", "b">> >> :> "dir"
        @@ << <<"b">> >> :> "link" @@ << <<"a", "b">> >> :> "file"
Unreadable == {<< <<"a">>, <<".", "b">> >>}
Home == <<"a">>
Environment == <<"v">> :> <<"a", "*", " ", "b">>
CmdOutput == <<"a", " ", "NL">>
Ifs == {" ", ":"}
MaxPaths == 4
LongBits == 4
MAX_DEPTH == 5
MAX_NEST == 6

-----------------------------------------------------------------------------
(* Sorting and searching.  Short arrays are insertion-sorted from 16 on in the *)
(* code, and its depth factor is 2.                                            *)

Values == {1, 2, 3}
MaxLen == 6
Short == 2
DepthFactors == {0, 1}
Keys == 1..6
Elements == 1..4
Sizes == {5, 6}
Hashes == [Keys -> {0, 7}]
ByteBits == 3
WordBytes == 2
Lower == [c \in {1} |-> 4]
Zero == 2
Families == {"copies", "checks", "searches", "compares", "tokens", "wide"}
Memories(f) == LET bytes == CASE f \in {"copies", "checks"} -> {0, 1} [] f = "compares" -> {0, 1, 2, 4} [] OTHER -> {0, 1, 4}
                   last == IF f = "compares" THEN 4 ELSE 5
               IN {m \in [0..last -> bytes] : m[last] = 0 /\ (f = "wide" => m[last - 1] = 0)}
Versions == UNION {[1..n -> {2, 3}] : n \in 0..3} \cup UNION {[1..n -> {2, 3, 6}] : n \in 1..2}
VersionRoom == 4

-----------------------------------------------------------------------------
(* Name lookups: two servers, with a behaviour each, and a timeout of one tick *)

None == [none |-> TRUE]
MAXNS == 3
MAXADDRS == 3
MAXNAME == 3
MAXJUMPS == 3
MaxRetries == 1
MaxLate == 1
MaxCopies == 1
Parts == 1
Ports == {1}
Ids == {2}
Routes == {{4, 6}, {4}}
Addr(f, a) == [f |-> f, a |-> a, loop |-> FALSE, mapped |-> FALSE]
Record(owner, type, data) == [owner |-> owner, type |-> type, data |-> data]
Line(k, v) == [k |-> k, v |-> v]
resolv_conf == <<Line("nameserver", 1), Line("nameserver", 0), Line("nameserver", 2), Line("search", << <<"">>, <<"ex">> >>),
                 Line("timeout", 0), Line("junk", 0), Line("attempts", 2)>>
Www == <<"w", "ex">>
Alias == <<"c", "ex">>
Reverse4 == <<"p", "arpa">>
Types(a, aaaa, ptr) == [t \in {"A", "AAAA", "PTR"} |-> IF t = "A" THEN a ELSE IF t = "AAAA" THEN aaaa ELSE ptr]
Zone == Www :> Types(<<Record(Www, "CNAME", Alias), Record(Alias, "A", Addr(4, "p")), Record(Alias, "A", Addr(4, "q"))>>,
                     <<Record(Www, "CNAME", Alias), Record(Alias, "AAAA", Addr(6, "r"))>>, <<>>)
     @@ <<"e">> :> Types(<<>>, <<>>, <<>>)
     @@ <<"e", "ex">> :> Types(<<Record(<<"e", "ex">>, "A", Addr(4, "s"))>>, <<>>, <<>>)
     @@ Reverse4 :> Types(<<>>, <<>>, <<Record(Reverse4, "PTR", Alias)>>)
hosts == <<[addr |-> Addr(4, "h"), names |-> << <<"local">>, <<"l">> >>], [addr |-> Addr(6, "i"), names |-> << <<"local">> >>],
           [addr |-> Addr(4, "j"), names |-> << <<"local">> >>]>>
Service(name, aliases, port, proto) == [name |-> name, aliases |-> aliases, port |-> port, proto |-> proto]
etc_services == <<Service("web", {"www"}, 80, "tcp"), Service("dom", {}, 53, "udp"), Service("dom", {}, 53, "tcp")>>
Behaviours == {<<"answer", "servfail">>, <<"truncate", "answer">>, <<"servfail", "servfail">>, <<"truncate", "elsewhere">>}

Host(name, absolute) == [kind |-> "name", name |-> name, absolute |-> absolute, addr |-> None]
Numeric(a) == [kind |-> "num", name |-> <<"num">>, absolute |-> FALSE, addr |-> a]
Null == [kind |-> "null", name |-> <<>>, absolute |-> FALSE, addr |-> None]
NoService == [name |-> "", port |-> -1]
Named(name) == [name |-> name, port |-> -1]
Port(p) == [name |-> "", port |-> p]
getaddrinfo(host, serv, flags, family, socktype, protocol) ==
    [op |-> "getaddrinfo", host |-> host, serv |-> serv, flags |-> flags, family |-> family, socktype |-> socktype, protocol |-> protocol]
gethostbyname(host, family, small) == [op |-> "gethostbyname", host |-> host, family |-> family, small |-> small]
getnameinfo(addr, flags, port, small) ==
    [op |-> "getnameinfo", host |-> Null, addr |-> addr, flags |-> flags, port |-> port, small |-> small, domain |-> <<"ex">>]
Label(l) == [k |-> "label", l |-> l]
Pointer(to) == [k |-> "ptr", to |-> to]
Cells == {[k |-> "end"], Label("a"), Pointer(1), Pointer(2), Pointer(4)}
Messages == UNION {[1..n -> Cells \cup {[k |-> "reserved"], Label("!")}] : n \in 1..3} \cup [1..4 -> Cells]
Asks == {[op |-> "get_name", m |-> m, off |-> o, host |-> Null] : m \in Messages, o \in {1, 3}} \cup {
    getaddrinfo(Host(Www, TRUE), Named("web"), {"CANONNAME"}, 4, "", ""),
    getaddrinfo(Host(Www, TRUE), Port(8), {"V4MAPPED", "ALL"}, 6, "STREAM", ""),
    getaddrinfo(Host(Www, TRUE), NoService, {"ADDRCONFIG"}, 4, "RAW", "icmp"),
    getaddrinfo(Null, Named("none"), {}, 0, "", ""),
    getaddrinfo(Host(<<"e">>, TRUE), Port(8), {}, 4, "DGRAM", "udp"),
    getaddrinfo(Host(<<"n">>, FALSE), Port(1), {}, 4, "", ""),
    getaddrinfo(Host(<<"local">>, FALSE), Port(1), {"CANONNAME"}, 0, "", "tcp"),
    getaddrinfo(Host(<<"l">>, FALSE), Port(1), {"V4MAPPED", "CANONNAME"}, 6, "", "tcp"),
    getaddrinfo(Host(<<"local">>, FALSE), Port(1), {"V4MAPPED"}, 6, "", ""),
    getaddrinfo(Null, Port(1), {"PASSIVE"}, 0, "", ""), getaddrinfo(Null, NoService, {}, 0, "", ""),
    getaddrinfo(Numeric(Addr(4, "z")), Port(1), {}, 6, "", ""), getaddrinfo(Numeric(Addr(4, "z")), Port(1), {"V4MAPPED"}, 6, "", ""),
    getaddrinfo(Numeric(Addr(6, "z")), Named("web"), {"NUMERICSERV"}, 6, "", ""),
    getaddrinfo(Host(<<"x!", "!">>, FALSE), Port(1), {}, 0, "", ""),
    gethostbyname(Host(<<"e">>, FALSE), 4, TRUE), gethostbyname(Host(<<"e">>, FALSE), 4, FALSE),
    gethostbyname(Host(<<"l">>, FALSE), 6, FALSE), gethostbyname(Numeric(Addr(4, "z")), 6, FALSE),
    getnameinfo(Addr(4, "p"), {"NAMEREQD", "NOFQDN"}, 80, FALSE), getnameinfo([Addr(6, "p") EXCEPT !.mapped = TRUE], {"DGRAM"}, 53, FALSE),
    getnameinfo(Addr(4, "h"), {}, 1, TRUE), getnameinfo(Addr(4, "u"), {"NAMEREQD"}, 80, FALSE),
    getnameinfo(Addr(4, "u"), {"NUMERICHOST"}, 80, FALSE)}

-----------------------------------------------------------------------------
(* Command lines *)

Option(name, has, flag, val) == [name |-> name, has_arg |-> has, flag |-> flag, val |-> val]
LongOptions == <<Option(<<"a", "l">>, "no", FALSE, "A"), Option(<<"a", "l", "b">>, "required", FALSE, "B"),
                 Option(<<"b", "e">>, "optional", TRUE, "C"), Option(<<"b", "o">>, "optional", TRUE, "C"),
                 Option(<<"x", "y">>, "required", FALSE, "E")>>
Letters == <<"a", "b", ":", "c", ":", ":">>
Scan(f, os, posix) == [f |-> f, os |-> os, posix |-> posix]
Scans == {Scan("getopt", Letters, FALSE), Scan("long", <<":">> \o Letters, FALSE), Scan("only", Letters, FALSE),
          Scan("long", <<"-">> \o Letters, FALSE), Scan("only", <<"+">> \o Letters, FALSE), Scan("long", Letters, TRUE)}
ArgvWords == {<<"x">>, <<"-">>, <<"-", "-">>, <<"-", "a">>, <<"-", "a", "b">>, <<"-", "z", "c">>,
              <<"-", "-", "a">>, <<"-", "-", "b", "=", "x">>, <<"-", "x", "y">>}

-----------------------------------------------------------------------------
(* File names: every tree with a, b, a/a and a/b from a few kinds of nodes *)

Path(abs, comps, slash) == [abs |-> abs, comps |-> comps, slash |-> slash]
Node(type, to, dev, mode) == [type |-> type, to |-> to, dev |-> dev, mode |-> mode]
Plain(type) == Node(type, Path(FALSE, <<>>, FALSE), 1, {"r"})
Dir(dev, mode) == Node("dir", Path(FALSE, <<>>, FALSE), dev, mode)
Link(abs, comps, slash) == Node("link", Path(abs, comps, slash), 1, {"r", "x"})
File == Plain("file")
Open == Dir(1, {"r", "x"})
NodesA == {File, Open, Dir(1, {"r"}), Dir(1, {"x"}), Link(FALSE, <<"b">>, FALSE), Link(TRUE, <<"b", "b">>, TRUE)}
NodesB == {Plain("none"), File, Plain("broken"), Dir(2, {"r", "x"}), Link(FALSE, <<"a">>, FALSE), Link(FALSE, <<"a", "..">>, FALSE),
           Link(TRUE, <<"a">>, TRUE)}
NodesAA == {Plain("none"), File, Open, Link(FALSE, <<"..">>, FALSE), Link(FALSE, <<"b">>, FALSE)}
NodesAB == {Plain("none"), File, Open, Link(TRUE, <<>>, FALSE), Link(FALSE, <<"..", "b">>, FALSE)}
Present(t) == [k \in {x \in DOMAIN t : t[x].type # "none" /\ (Len(x) = 2 => t[<<"a">>].type = "dir")} |-> t[k]]
System(a, b, aa, ab, o) == [tree |-> Present(<<>> :> Open @@ <<"a">> :> a @@ <<"b">> :> b @@ <<"a", "a">> :> aa @@ <<"a", "b">> :> ab),
                            cwd |-> <<>>, order |-> o]
\* The order of the entries matters where b leads somewhere
Systems == {System(a, b, aa, ab, <<"a", "b">>) : a \in NodesA, b \in NodesB, aa \in NodesAA, ab \in NodesAB}
           \cup {System(a, b, aa, ab, <<"b", "a">>) : a \in NodesA, b \in {n \in NodesB : n.type \in {"dir", "link"}}, aa \in NodesAA, ab \in NodesAB}
Steps == {"a", "b", ".."}
Resolved == {Path(FALSE, comps, slash) : slash \in BOOLEAN, comps \in {<<>>, <<".">>} \cup [1..1 -> Steps] \cup [1..2 -> Steps]}
            \cup {Path(FALSE, comps, FALSE) : comps \in [1..3 -> Steps]}
Walk(path, flags, stop, nomem, fds) == [op |-> "nftw", path |-> path, flags |-> flags, stop |-> stop, nomem |-> nomem, fds |-> fds]
Walked == {Walk(Path(TRUE, <<>>, FALSE), flags, stop, 0, 9) : flags \in SUBSET {"PHYS", "DEPTH", "CHDIR", "MOUNT"}, stop \in {0, 2}}
          \cup {Walk(Path(FALSE, <<x>>, FALSE), {"CHDIR"}, 0, 2, 3) : x \in {"a", "b"}}
Rank == "." :> 1 @@ ".." :> 2 @@ "a" :> 3 @@ "b" :> 4
\* Directories are read where there are files only, besides one directory at most
Files(t) == /\ t[<<"a">>] \in {File, Open, Dir(1, {"x"})} /\ <<"b">> \in DOMAIN t
            /\ \A k \in DOMAIN t \ {<<>>, <<"a">>} : t[k] = File
Scanned(s) == IF ~Files(s.tree) THEN {}
              ELSE {[op |-> "scandir", at |-> at, sel |-> sel, noisy |-> noisy, mem |-> mem, fails |-> fails] :
                       at \in {<<>>, <<"a">>}, sel \in {DOMAIN Rank, {"a", "b"}, {}}, noisy \in BOOLEAN, mem \in 0..9, fails \in {0, 2}}
Listed(s) == IF Files(s.tree) /\ s.order = <<"a", "b">> THEN {<<>>, <<"a">>} ELSE {}

-----------------------------------------------------------------------------

VARIABLES sys,
          kit, pattern, pieces, re, text,                 \* regex; kit, pieces and text also of words
          str, ff, g, env, ran,                           \* words
          job, array, tree, table, queue, members,        \* search
          call,                                           \* of search and of paths
          pc, ask, L, X, clock, net, modes, done,         \* resolver
          how, given, st, log, over, restarts,            \* options
          fs, res                                         \* paths

Reg == INSTANCE Regex WITH Kits <- RegexKits, Letters <- {"a", "b", "A", "NL"}, MaxText <- 2
Wor == INSTANCE Words WITH Kits <- WordKits, Letters <- {"a", ".", "/"}
Sea == INSTANCE Search
Res == INSTANCE Resolver
Opt == INSTANCE Options WITH Words <- ArgvWords, MaxWords <- 3, MaxRestarts <- 1
Pat == INSTANCE Paths WITH PATH_MAX <- 9, MAXLINKS <- 3, SeenChunk <- 2, GetdentsMax <- 2, ScanChunk <- 2

Linkage(f, a) ==
    LET value == CASE f = "regcomp" -> Reg!regcomp(a[1], a[2])
                   [] f = "regexec" -> Reg!regexec(a[1], a[2])
                   [] f = "bt_run" -> Reg!bt_run(a[1], a[2])
                   [] f = "pike_run" -> Reg!pike_run(a[1], a[2])
                   [] f = "Reference" -> Reg!Reference(a[1], a[2])
                   [] f = "fnmatch" -> Wor!fnmatch(a[1], a[2], a[3])
                   [] f = "Matches" -> Wor!Matches(a[1], a[2], a[3], a[4], a[5])
                   [] f = "Found" -> Wor!Found(a[1], a[2])
                   [] f = "glob_one" -> Wor!glob_one(a[1], a[2])
                   [] f = "Split" -> Wor!Split(a[1], a[2], a[3])
                   [] f = "Arithmetic" -> Wor!Arithmetic(a[1], a[2])
                   [] f = "ValueOf" -> Wor!ValueOf(a[1])
                   [] f = "Expansion" -> Wor!Expansion(a[1], a[2], a[3])
                   [] f = "copies" -> Sea!CopiesTrue(a[1])
                   [] f = "checks" -> Sea!ChecksTrue(a[1])
                   [] f = "searches" -> Sea!SearchesTrue(a[1])
                   [] f = "wide" -> Sea!WideTrue(a[1])
                   [] f = "compares" -> Sea!ComparesTrue(a[1])
                   [] f = "tokens" -> Sea!TokensTrue(a[1])
                   [] f = "versions" -> Sea!VersionsTrue(a[2].x, a[2].y)
                   [] f = "getaddrinfo" -> Res!getaddrinfo(a[1], a[2], a[3], a[4], a[5], a[6])
    IN value

NoTexts == kit = Unused /\ pieces = Unused /\ text = Unused
NoRegex == pattern = Unused /\ re = Unused
NoWords == str = Unused /\ ff = Unused /\ g = Unused /\ env = Unused /\ ran = Unused
NoSearch == array = Unused /\ tree = Unused /\ table = Unused /\ queue = Unused /\ members = Unused /\ job = Unused
NoResolver == pc = Unused /\ ask = Unused /\ L = Unused /\ X = Unused /\ clock = Unused /\ net = Unused /\ modes = Unused /\ done = Unused
NoOptions == how = Unused /\ given = Unused /\ st = Unused /\ log = Unused /\ over = Unused /\ restarts = Unused
NoPaths == fs = Unused /\ res = Unused
NoCall == call = Unused

Init == \/ /\ sys = "regex" /\ Reg!Init
           /\ NoWords /\ NoSearch /\ NoResolver /\ NoOptions /\ NoPaths /\ NoCall
        \/ /\ sys = "words" /\ Wor!Init
           /\ NoRegex /\ NoSearch /\ NoResolver /\ NoOptions /\ NoPaths /\ NoCall
        \/ /\ sys = "search" /\ Sea!Init
           /\ NoTexts /\ NoRegex /\ NoWords /\ NoResolver /\ NoOptions /\ NoPaths
        \/ /\ sys = "resolver" /\ Res!Init
           /\ NoTexts /\ NoRegex /\ NoWords /\ NoSearch /\ NoOptions /\ NoPaths /\ NoCall
        \/ /\ sys = "options" /\ Opt!Init
           /\ NoTexts /\ NoRegex /\ NoWords /\ NoSearch /\ NoResolver /\ NoPaths /\ NoCall
        \/ /\ sys = "paths" /\ Pat!Init
           /\ NoTexts /\ NoRegex /\ NoWords /\ NoSearch /\ NoResolver /\ NoOptions

texts == <<kit, pieces, text>>
regex == <<pattern, re>>
words == <<str, ff, g, env, ran>>
search == <<job, array, tree, table, queue, members>>
resolver == <<pc, ask, L, X, clock, net, modes, done>>
options == <<how, given, st, log, over, restarts>>
paths == <<fs, res>>
vars == <<sys, texts, regex, words, search, call, resolver, options, paths>>
Next == \/ sys = "regex" /\ Reg!Next /\ UNCHANGED <<sys, words, search, call, resolver, options, paths>>
        \/ sys = "words" /\ Wor!Next /\ UNCHANGED <<sys, regex, search, call, resolver, options, paths>>
        \/ sys = "search" /\ Sea!Next /\ UNCHANGED <<sys, texts, regex, words, resolver, options, paths>>
        \/ sys = "resolver" /\ Res!Next /\ UNCHANGED <<sys, texts, regex, words, search, call, options, paths>>
        \/ sys = "options" /\ Opt!Next /\ UNCHANGED <<sys, texts, regex, words, search, call, resolver, paths>>
        \/ sys = "paths" /\ Pat!Next /\ UNCHANGED <<sys, texts, regex, words, search, resolver, options>>
Spec == Init /\ [][Next]_vars

-----------------------------------------------------------------------------
(* Properties: each is stated in the module of its part.                   *)

\* regcomp and regexec find the leftmost, longest match with either engine, the code
\* stays in the room computed for it and groups stay inside the match.
RegexTrue == sys = "regex" => Reg!LeftmostLongest /\ Reg!ProgramFits /\ Reg!GroupsInside

\* fnmatch and glob find what the definition of a pattern says; wordexp splits values
\* into fields, leaves quoted text alone, runs no command under WRDE_NOCMD and computes
\* the value of every arithmetic expression.
WordsTrue == sys = "words" => /\ Wor!FnmatchTrue /\ Wor!GlobTrue
                              /\ Wor!SplitTrue /\ Wor!QuotedVerbatim /\ Wor!NoCommandRuns
                              /\ Wor!ArithmeticTrue

\* qsort sorts, tsearch's tree stays balanced, hsearch's table finds what it holds;
\* string.c's functions give what the definitions of strings and blocks say.
SearchTrue == sys = "search" => Sea!SortTrue /\ Sea!TreeTrue /\ Sea!TableTrue /\ Sea!StringsTrue

\* dns_exchange accepts only answers to its own questions and ends in time; getaddrinfo
\* and its relatives return what the configured sources hold, in order, under the right
\* name; a compressed name is read within its bounds.
ResolverTrue == sys = "resolver" => /\ Res!AcceptedTrue /\ Res!TimeBounded
                                    /\ Res!LookupTrue /\ Res!CanonTrue /\ Res!AddrinfoTrue /\ Res!NamesTrue

\* getopt, getopt_long and getopt_long_only return the options the command line means,
\* in order, and leave the operands behind them.
OptionsTrue == sys = "options" => Opt!OptionsTrue

\* realpath names the file the kernel finds, and nftw reports every entry of the tree it
\* walks once and leaves descriptors and directory as they were.  A directory stream
\* returns the entry due at its place after any calls of readdir, telldir, seekdir and
\* rewinddir, and scandir returns all that was chosen or leaves nothing behind.
PathsTrue == sys = "paths" => Pat!RealpathTrue /\ Pat!WalkTrue /\ Pat!StreamTrue /\ Pat!ScandirTrue
=============================================================================
