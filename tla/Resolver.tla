------------------------------ MODULE Resolver ------------------------------
(***************************************************************************)
(* Name lookups: resolv.c (the stub resolver and /etc/hosts) under netdb.c *)
(* (getaddrinfo, getnameinfo, gethostbyname2_r).  A name is the sequence   *)
(* of its labels, an address its family and some bits, an instant a tick   *)
(* of the monotonic clock since the exchange began.  Time passes while the *)
(* resolver waits in poll; servers answer, fail or truncate, and what they *)
(* send may be late, lost or come twice.                                   *)
(***************************************************************************)
EXTENDS Integers, Sequences, FiniteSets, SequencesExt

CONSTANTS
    resolv_conf,  \* lines of /etc/resolv.conf: [k |-> keyword, v |-> value]
    hosts,        \* lines of /etc/hosts: [addr, names]
    etc_services, \* lines of /etc/services: [name, aliases, port, proto]
    Zone,         \* what the DNS holds: name -> type -> sequence of records; other names do not exist
    Behaviours,   \* what each server may do with queries: "answer", "servfail", "truncate", "elsewhere", "silent"
    Ports, Ids,   \* source ports and query identifiers that chance may pick
    Routes,       \* families the host may have a route for
    MaxRetries,   \* bound on the truncated answers of one exchange
    MaxLate,      \* bound on the datagrams still under way when an exchange ends
    MaxCopies,    \* bound on the datagrams delivered twice in an exchange
    Parts,        \* pieces in which TCP takes or gives a query, a length or an answer
    Asks,         \* calls the program may make
    MAXNS, MAXADDRS, MAXNAME, MAXJUMPS, \* the last two: labels in a name, pointers followed
    Linked(_, _)  \* getaddrinfo below by name, as the configuration links it

VARIABLES pc,     \* where the calling thread is
          ask,    \* its call
          L,      \* __lookup_name: candidates and what they gave so far
          X,      \* dns_exchange
          clock,  \* ticks since the exchange began
          net,    \* datagrams under way to the resolver
          modes,  \* what each server does
          done    \* the call's result
vars == <<pc, ask, L, X, clock, net, modes, done>>

None == [none |-> TRUE]
Least(a, b) == IF a < b THEN a ELSE b
Clamp(v, lo, hi) == IF v < lo THEN lo ELSE IF v > hi THEN hi ELSE v

-----------------------------------------------------------------------------
(* Configuration and names *)

Localhost == 127
ConfLine(c, l) ==
    CASE l.k = "nameserver" /\ Len(c.ns) < MAXNS /\ l.v # 0 -> [c EXCEPT !.ns = Append(@, l.v)]
      [] l.k \in {"search", "domain"} -> [c EXCEPT !.search = l.v]
      [] l.k = "ndots" -> [c EXCEPT !.ndots = l.v]
      [] l.k = "timeout" -> [c EXCEPT !.timeout = l.v]
      [] l.k = "attempts" -> [c EXCEPT !.attempts = l.v]
      [] OTHER -> c                                        \* overlong and unknown lines
read_conf ==
    LET c == FoldLeft(ConfLine, [ns |-> <<>>, search |-> <<>>, ndots |-> 1, timeout |-> 5, attempts |-> 2], resolv_conf)
    IN [c EXCEPT !.ndots = Clamp(@, 0, 15), !.timeout = Clamp(@, 1, 30), !.attempts = Clamp(@, 1, 5),
                 !.ns = IF @ = <<>> THEN <<Localhost>> ELSE @]
nns == Len(read_conf.ns)
total == read_conf.timeout * read_conf.attempts

\* "!" stands for a character that label_char_ok refuses, "" for nothing between two dots
__valid_hostname(n) == n # <<>> /\ \A k \in DOMAIN n : n[k] \notin {"", "!"}
mkquery(n) == n # <<>> /\ \A k \in DOMAIN n : n[k] # ""

-----------------------------------------------------------------------------
(* Answers *)

\* The target of the CNAMEs from n, at most 16 of them
RECURSIVE Chain(_, _, _)
Chain(recs, n, hops) ==
    LET cn == {k \in DOMAIN recs : recs[k].type = "CNAME" /\ recs[k].owner = n}
    IN IF cn = {} \/ hops = 16 THEN n
       ELSE Chain(recs, recs[CHOOSE k \in cn : \A j \in cn : k <= j].data, hops + 1)
Took(seq, n) == SubSeq(seq, 1, Least(n, Len(seq)))
parse_answer(a, qname, qtype, max) ==
    LET target == Chain(a.recs, qname, 0)
        hits == SelectSeq(a.recs, LAMBDA r : r.owner = target /\ r.type = qtype)
    IN CASE a.rcode = 3 -> [s |-> "NXDOMAIN", data |-> <<>>, canon |-> <<>>]
         [] a.rcode \notin {0, 3} -> [s |-> "FAIL", data |-> <<>>, canon |-> <<>>]
         [] OTHER -> [s |-> "", data |-> Took([k \in DOMAIN hits |-> hits[k].data], max), canon |-> target]

hosts_forward(name, family) ==
    LET lines == SelectSeq(hosts, LAMBDA l : name \in ToSet(l.names))
        fit == SelectSeq(lines, LAMBDA l : family \in {0, l.addr.f})
    IN [found |-> lines # <<>>, addrs |-> Took([k \in DOMAIN fit |-> fit[k].addr], MAXADDRS),
        canon |-> IF lines = <<>> THEN <<>> ELSE Head(lines[1].names)]
hosts_reverse(addr) ==
    LET lines == SelectSeq(hosts, LAMBDA l : l.addr = addr /\ l.names # <<>>)
    IN IF lines = <<>> THEN <<>> ELSE Head(lines[1].names)

\* A name in a message m, a sequence of cells: labels, pointers to a cell, ends.  [end, name], end = -1
\* when it is refused
RECURSIVE GetName(_, _, _, _, _)
GetName(m, off, end, jumps, out) ==
    LET c == m[off]
        refused == [end |-> -1, name |-> <<>>]
    IN IF off > Len(m) THEN refused
       ELSE IF c.k = "ptr"
       THEN IF jumps + 1 > MAXJUMPS \/ c.to >= off THEN refused
            ELSE GetName(m, c.to, IF end < 0 THEN off + 1 ELSE end, jumps + 1, out)
       ELSE IF c.k = "reserved" THEN refused
       ELSE IF c.k = "end" THEN [end |-> IF end < 0 THEN off + 1 ELSE end, name |-> out]
       ELSE IF Len(out) = MAXNAME \/ c.l = "!" THEN refused
       ELSE GetName(m, off + 1, end, jumps, Append(out, c.l))
get_name(m, off) == GetName(m, off, -1, 0, <<>>)

-----------------------------------------------------------------------------
(* Services and the parts of getaddrinfo around the lookup *)

\* A service: [name, port], port = -1 when it is a name, both empty when there is none
NoServ == [name |-> "", port |-> -1]
serv_lookup(name, port, proto) ==
    LET hits == SelectSeq(etc_services, LAMBDA l : /\ proto \in {"", l.proto}
                                                   /\ IF port >= 0 THEN l.port = port ELSE name = l.name \/ name \in l.aliases)
    IN IF hits = <<>> THEN None ELSE Head(hits)
types == << [st |-> "STREAM", pr |-> "tcp"], [st |-> "DGRAM", pr |-> "udp"], [st |-> "RAW", pr |-> ""] >>
services(a) ==
    LET named == a.serv.name # ""
        use(t) == /\ a.socktype \in {"", t.st}
                  /\ a.protocol # "" => t.st = "RAW" \/ a.protocol = t.pr
                  /\ t.st = "RAW" => a.serv = NoServ
                  /\ named => serv_lookup(a.serv.name, -1, t.pr) # None
        port(t) == IF named THEN serv_lookup(a.serv.name, -1, t.pr).port ELSE IF a.serv = NoServ THEN 0 ELSE a.serv.port
        used == SelectSeq(types, use)
    IN IF named /\ "NUMERICSERV" \in a.flags THEN [r |-> "NONAME", svs |-> <<>>]
       ELSE IF used = <<>> THEN [r |-> IF named \/ (a.serv # NoServ /\ a.socktype = "RAW") THEN "SERVICE" ELSE "SOCKTYPE", svs |-> <<>>]
       ELSE [r |-> "", svs |-> [k \in DOMAIN used |-> [st |-> used[k].st, port |-> port(used[k]),
                                                      pr |-> IF used[k].st = "RAW" THEN a.protocol ELSE used[k].pr]]]

\* A host: [kind |-> "null" | "num" | "badscope" | "name", addr, name, absolute]
Loopback(f) == [f |-> f, a |-> "loopback", loop |-> TRUE, mapped |-> FALSE]
Wildcard(f) == [f |-> f, a |-> "any", loop |-> FALSE, mapped |-> FALSE]
\* What getaddrinfo returns before it looks anything up, "" if it goes on
Refusal(a) ==
    CASE a.host.kind = "null" /\ a.serv = NoServ -> "NONAME"
      [] a.host.kind = "null" /\ "CANONNAME" \in a.flags -> "BADFLAGS"
      [] services(a).r # "" -> services(a).r
      [] a.host.kind = "badscope" -> "NONAME"
      [] a.host.kind = "num" /\ a.family = 4 /\ a.host.addr.f = 6 -> "ADDRFAMILY"
      [] a.host.kind = "num" /\ a.family = 6 /\ a.host.addr.f = 4 /\ "V4MAPPED" \notin a.flags -> "ADDRFAMILY"
      [] a.host.kind = "name" /\ "NUMERICHOST" \in a.flags -> "NONAME"
      [] OTHER -> ""
lookup_family(a) == IF a.family = 6 /\ "V4MAPPED" \in a.flags THEN 0 ELSE a.family
OwnAddresses(a) ==
    IF a.host.kind = "num" THEN <<a.host.addr>>
    ELSE LET own(f) == IF "PASSIVE" \in a.flags THEN Wildcard(f) ELSE Loopback(f)
         IN (IF a.family # 6 THEN <<own(4)>> ELSE <<>>) \o (IF a.family # 4 THEN <<own(6)>> ELSE <<>>)
reachable(x, routes) == x.loop \/ x.f \in routes
Mapped(x) == [x EXCEPT !.f = 6, !.loop = FALSE, !.mapped = TRUE]
rank(x, routes) == (IF reachable(x, routes) THEN 0 ELSE 2) + (IF x.f = 4 THEN 1 ELSE 0)
\* Mutant: equals change places.
InsertBefore(sorted, x, routes) == LET j == Cardinality({k \in DOMAIN sorted : rank(sorted[k], routes) < rank(x, routes)})
                             IN SubSeq(sorted, 1, j) \o <<x>> \o SubSeq(sorted, j + 1, Len(sorted))
\* The insertion sort of the answers
Insert(sorted, x, routes) == LET j == Cardinality({k \in DOMAIN sorted : rank(sorted[k], routes) <= rank(x, routes)})
                             IN SubSeq(sorted, 1, j) \o <<x>> \o SubSeq(sorted, j + 1, Len(sorted))
Arrange(a, addrs, routes) ==
    LET kept == IF "ADDRCONFIG" \in a.flags /\ a.host.kind # "null" THEN SelectSeq(addrs, LAMBDA x : reachable(x, routes)) ELSE addrs
        have6 == \E k \in DOMAIN kept : kept[k].f = 6
        six == SelectSeq(kept, LAMBDA x : x.f = 6 \/ ("V4MAPPED" \in a.flags /\ (~have6 \/ "ALL" \in a.flags)))
    IN IF a.family = 6 THEN [k \in DOMAIN six |-> IF six[k].f = 6 THEN six[k] ELSE Mapped(six[k])]
       ELSE IF a.family = 0 /\ Len(kept) > 1 /\ a.host.kind # "null" THEN FoldLeft(LAMBDA q, x : Insert(q, x, routes), <<>>, kept)
       ELSE kept
\* The list getaddrinfo builds, an allocation failing before node f (0: none does)
getaddrinfo(a, r, addrs, canon, routes, f) ==
    LET sv == services(a).svs
        list == Arrange(a, addrs, routes)
        node(k) == [addr |-> list[((k - 1) \div Len(sv)) + 1], sv |-> sv[((k - 1) % Len(sv)) + 1]]
        n == Len(list) * Len(sv)
        no(e) == [r |-> e, list |-> <<>>, canon |-> <<>>, routes |-> {}]
    IN IF r # "" THEN no(r)
       ELSE IF n = 0 THEN no("NONAME")
       ELSE IF f \in 1..n THEN no("MEMORY")
       ELSE [r |-> "", list |-> [k \in 1..n |-> node(k)], routes |-> routes, canon |-> IF "CANONNAME" \in a.flags THEN canon ELSE <<>>]

-----------------------------------------------------------------------------
(* The calls: the thread's steps, the clock and the network *)

NoLookup == [cands |-> <<>>, at |-> 0, family |-> 0, again |-> FALSE, nodata |-> FALSE, canon |-> <<>>, log |-> <<>>]
NoExchange == [open |-> FALSE]
Init == /\ pc = "idle" /\ ask = None /\ L = NoLookup /\ X = NoExchange /\ clock = 0 /\ net = {} /\ done = None
        /\ modes = [k \in 1..nns |-> "silent"]

\* The candidates of __lookup_name: the name itself first when it has dots enough
Candidates(h) ==
    LET searched == [k \in DOMAIN read_conf.search |-> h.name \o read_conf.search[k]]
    IN IF h.absolute THEN <<h.name>>
       ELSE IF Len(h.name) - 1 >= read_conf.ndots THEN <<h.name>> \o searched
       ELSE Append(searched, h.name)
ArpaName(x) == <<x.a, "arpa">>
QueryAddr(x) == IF x.mapped THEN [x EXCEPT !.f = 4, !.mapped = FALSE] ELSE x

\* What the caller gets for the result r of a lookup
getnameinfo(a, r, name) ==
    LET got == r = "" /\ __valid_hostname(name)
        short == IF "NOFQDN" \in a.flags /\ Len(name) > 1 /\ Tail(name) = a.domain THEN <<Head(name)>> ELSE name
        sv == serv_lookup("", a.port, IF "DGRAM" \in a.flags THEN "udp" ELSE "tcp")
        no(e) == [r |-> e, host |-> <<>>, serv |-> NoServ]
    IN IF ~got /\ "NAMEREQD" \in a.flags THEN no(IF r = "AGAIN" /\ "NUMERICHOST" \notin a.flags THEN "AGAIN" ELSE "NONAME")
       ELSE IF a.small THEN no("OVERFLOW")
       ELSE [r |-> "", host |-> IF got THEN short ELSE <<"numeric">>,
             serv |-> IF "NUMERICSERV" \in a.flags \/ sv = None THEN [name |-> "", port |-> a.port] ELSE [name |-> sv.name, port |-> -1]]
gethostbyname2_r(a, r, addrs, canon) ==
    LET n == Len(addrs)
        no(e, err) == [r |-> e, err |-> err, list |-> <<>>, canon |-> <<>>]
    IN IF r # "" \/ n = 0
       THEN no(IF r = "AGAIN" THEN "EAGAIN" ELSE "ENOENT",
               IF r = "AGAIN" THEN "TRY_AGAIN" ELSE IF r \in {"", "NODATA"} THEN "NO_DATA" ELSE "HOST_NOT_FOUND")
       ELSE IF a.small THEN no("ERANGE", "NETDB_INTERNAL")
       ELSE [r |-> "", err |-> "", list |-> addrs, canon |-> canon]
Return(a, r, addrs, canon) ==
    /\ pc' = "idle" /\ X' = NoExchange /\ clock' = 0 /\ net' = {}
    /\ done' \in CASE a.op = "getaddrinfo" -> {Linked("getaddrinfo", <<a, r, addrs, canon, routes, f>>) : routes \in Routes, f \in 0..1}
                   [] a.op = "gethostbyname" -> {gethostbyname2_r(a, r, addrs, canon)}
                   [] a.op = "getnameinfo" -> {getnameinfo(a, r, canon)}
                   [] OTHER -> {get_name(a.m, a.off)}

\* A call that answers at once, or the start of a lookup
Ask(a) ==
    LET h == a.host
        family == CASE a.op = "getaddrinfo" -> lookup_family(a) [] a.op = "gethostbyname" -> a.family [] OTHER -> 0
        file == hosts_forward(h.name, family)
        back == hosts_reverse(QueryAddr(a.addr))
        look(cands) == pc' = "query" /\ L' = [NoLookup EXCEPT !.cands = cands, !.at = 1, !.family = family]
                       /\ modes' \in Behaviours /\ UNCHANGED <<X, clock, net, done>>
        now(r, addrs, canon) == Return(a, r, addrs, canon) /\ UNCHANGED <<L, modes>>
    IN /\ ask' = a
       /\ CASE a.op = "get_name" -> now("", <<>>, <<>>)
            [] a.op = "getnameinfo" ->
                 IF "NUMERICHOST" \in a.flags THEN now("NONAME", <<>>, <<>>)
                 ELSE IF back # <<>> THEN now("", <<>>, back)
                 ELSE look(<<ArpaName(QueryAddr(a.addr))>>)
            [] a.op = "getaddrinfo" /\ Refusal(a) # "" -> now(Refusal(a), <<>>, <<>>)
            [] a.op = "getaddrinfo" /\ h.kind # "name" -> now("", OwnAddresses(a), h.name)
            [] a.op = "gethostbyname" /\ h.kind = "num" -> now("", IF h.addr.f = family THEN <<h.addr>> ELSE <<>>, h.name)
            [] file.found -> now(IF file.addrs = <<>> THEN "NODATA" ELSE "", file.addrs, file.canon)
            [] ~__valid_hostname(h.name) -> now("NONAME", <<>>, <<>>)
            [] OTHER -> look(Candidates(h))

\* Nothing more to try: the result of the whole lookup
Exhausted(l) == IF l.again THEN "AGAIN" ELSE IF l.nodata THEN "NODATA" ELSE "NONAME"
\* The types a server told us about, a record for the properties
Told == IF X.open THEN {X.types[i] : i \in {j \in DOMAIN X.al : X.al[j] # None /\ X.al[j].rcode \in {0, 3}}} ELSE {}
\* Mutant: only the last candidate says whether to try again.
AdvanceLast(s, addrs, canon) ==
    LET name == L.cands[L.at]
        l == [L EXCEPT !.at = @ + 1, !.again = (s = "FAIL"), !.nodata = @ \/ s = "NODATA", !.canon = canon,
                       !.log = Append(@, [name |-> name, told |-> Told])]
    IN IF ask.op = "getnameinfo"
       THEN Return(ask, IF s = "" THEN "" ELSE IF s = "FAIL" THEN "AGAIN" ELSE "NONAME", <<>>, addrs) /\ L' = l
       ELSE IF s = "" THEN Return(ask, "", addrs, IF canon = <<>> THEN name ELSE canon) /\ L' = l
       ELSE IF l.at > Len(l.cands) THEN Return(ask, Exhausted(l), <<>>, <<>>) /\ L' = l
       ELSE pc' = "query" /\ L' = l /\ X' = NoExchange /\ clock' = 0 /\ UNCHANGED done
            /\ net' \in {late \in SUBSET net : Cardinality(late) <= MaxLate}
\* The next candidate after one that ended in s
Advance(s, addrs, canon) ==
    LET name == L.cands[L.at]
        l == [L EXCEPT !.at = @ + 1, !.again = @ \/ s = "FAIL", !.nodata = @ \/ s = "NODATA", !.canon = canon,
                       !.log = Append(@, [name |-> name, told |-> Told])]
    IN IF ask.op = "getnameinfo"
       THEN Return(ask, IF s = "" THEN "" ELSE IF s = "FAIL" THEN "AGAIN" ELSE "NONAME", <<>>, addrs) /\ L' = l
       ELSE IF s = "" THEN Return(ask, "", addrs, IF canon = <<>> THEN name ELSE canon) /\ L' = l
       ELSE IF l.at > Len(l.cands) THEN Return(ask, Exhausted(l), <<>>, <<>>) /\ L' = l
       ELSE pc' = "query" /\ L' = l /\ X' = NoExchange /\ clock' = 0 /\ UNCHANGED done
            /\ net' \in {late \in SUBSET net : Cardinality(late) <= MaxLate}

Types == IF ask.op = "getnameinfo" THEN <<"PTR">>
         ELSE (IF L.family # 6 THEN <<"A">> ELSE <<>>) \o (IF L.family # 4 THEN <<"AAAA">> ELSE <<>>)
Flip(id) == IF id % 2 = 0 THEN id + 1 ELSE id - 1
\* query_name up to the exchange: distinct identifiers, a socket with a port of its own
query_name ==
    /\ pc = "query" /\ UNCHANGED <<ask, modes>>
    /\ \/ ~mkquery(L.cands[L.at]) /\ Advance("NXDOMAIN", <<>>, L.canon)
       \/ mkquery(L.cands[L.at]) /\ Advance("FAIL", <<>>, L.canon)             \* no socket, or (looking up a name) no memory
       \/ /\ mkquery(L.cands[L.at]) /\ pc' = "loop" /\ clock' = 0 /\ UNCHANGED <<L, net, done>>
          /\ \E port \in Ports, a \in Ids, b \in Ids :
               X' = [open |-> TRUE, name |-> L.cands[L.at], types |-> Types, port |-> port,
                     ids |-> <<a, IF a = b THEN Flip(b) ELSE b>>, al |-> [i \in DOMAIN Types |-> None],
                     servfail |-> [i \in DOMAIN Types |-> 0], next_send |-> 0,
                     k |-> 0, i |-> 0, t0 |-> 0, phase |-> "", left |-> 0, retries |-> 0, copies |-> 0]

Answer(name, type) == IF name \in DOMAIN Zone THEN [rcode |-> 0, recs |-> Zone[name][type]] ELSE [rcode |-> 3, recs |-> <<>>]
\* What server k sends back to a query
Reply(k, i) == LET a == Answer(X.name, X.types[i])
                   d == [port |-> X.port, id |-> X.ids[i], from |-> k, name |-> X.name, type |-> X.types[i], tc |-> FALSE,
                         rcode |-> a.rcode, recs |-> a.recs]
               IN CASE modes[k] = "answer" -> {d}
                    [] modes[k] = "elsewhere" -> {[d EXCEPT !.from = 0]}       \* from another address of the server
                    [] modes[k] = "servfail" -> {[d EXCEPT !.rcode = 2, !.recs = <<>>]}
                    [] modes[k] = "truncate" -> {[d EXCEPT !.tc = TRUE, !.recs = <<>>]}
                    [] OTHER -> {}

Pending == {i \in DOMAIN X.al : X.al[i] = None}
\* query_name after the exchange
Collect ==
    LET said(i) == parse_answer(X.al[i], X.name, X.types[i], MAXADDRS)
        ok == {i \in DOMAIN X.al : X.al[i] # None /\ said(i).s = ""}
        nx == \E i \in DOMAIN X.al : X.al[i] # None /\ said(i).s = "NXDOMAIN"
        data == FlattenSeq([i \in DOMAIN X.al |-> IF i \in ok THEN said(i).data ELSE <<>>])
        canon == IF L.canon = <<>> /\ ok # {} THEN said(CHOOSE i \in ok : \A j \in ok : i <= j).canon ELSE L.canon
    IN IF data # <<>> THEN Advance("", IF ask.op = "getnameinfo" THEN data[1] ELSE Took(data, MAXADDRS), canon)
       ELSE Advance(IF nx /\ ok = {} THEN "NXDOMAIN" ELSE IF ok # {} THEN "NODATA" ELSE "FAIL", <<>>, canon)
\* One round of dns_exchange: stop, or send what is unanswered to every server when it is time
Iterate ==
    /\ pc = "loop" /\ UNCHANGED <<ask, modes>>
    /\ IF Pending = {} \/ clock >= total THEN Collect
       ELSE /\ pc' = "poll" /\ UNCHANGED <<L, clock, done>>
            /\ IF clock < X.next_send THEN UNCHANGED <<X, net>>
               ELSE /\ X' = [X EXCEPT !.next_send = clock + read_conf.timeout]
                    /\ net' = net \cup UNION {Reply(k, i) : k \in 1..nns, i \in Pending}
\* Time runs out, or a signal comes
PollEnds == pc = "poll" /\ pc' = "loop" /\ UNCHANGED <<ask, L, X, clock, net, modes, done>>
NoMore == pc = "recv" /\ pc' = "loop" /\ UNCHANGED <<ask, L, X, clock, net, modes, done>>
\* Mutant: the question is not compared.
question_matchesAny(d, i) == TRUE
question_matches(d, i) == d.name = X.name /\ d.type = X.types[i]
\* A datagram for our port, delivered for the last time or (twice) once more later
Receive(d, twice) ==
    LET is == {i \in Pending : d.id = X.ids[i]}
        i == CHOOSE j \in is : \A x \in is : j <= x
        bad == d.rcode \notin {0, 3}
    IN /\ pc \in {"poll", "recv"} /\ d \in net /\ d.port = X.port
       /\ d.tc => X.retries < MaxRetries
       /\ twice => X.copies < MaxCopies
       /\ net' = IF twice THEN net ELSE net \ {d}
       /\ UNCHANGED <<ask, L, clock, modes, done>>
       /\ LET Y == [X EXCEPT !.copies = IF twice THEN @ + 1 ELSE @]
          IN IF d.from = 0 \/ is = {} \/ ~question_matches(d, i) THEN pc' = "recv" /\ X' = Y
             ELSE IF bad /\ X.servfail[i] + 1 < nns THEN pc' = "recv" /\ X' = [Y EXCEPT !.servfail[i] = @ + 1]
             ELSE IF d.tc THEN /\ pc' = "tcp"
                               /\ X' = [Y EXCEPT !.k = d.from, !.i = i, !.t0 = clock, !.phase = "send", !.left = Parts, !.retries = @ + 1]
             ELSE /\ pc' = "recv"
                  /\ X' = [Y EXCEPT !.al[i] = [rcode |-> d.rcode, recs |-> d.recs], !.servfail[i] = IF bad THEN @ + 1 ELSE @]

\* tcp_query: the query, the length and the answer, each in parts
TcpMoves == /\ pc = "tcp" /\ clock - X.t0 < read_conf.timeout /\ UNCHANGED <<ask, L, clock, net, modes, done>>
            /\ IF X.left > 1 THEN X' = [X EXCEPT !.left = @ - 1] /\ pc' = pc
               ELSE IF X.phase = "send" THEN X' = [X EXCEPT !.phase = "length", !.left = Parts] /\ pc' = pc
               ELSE IF X.phase = "length" THEN X' = [X EXCEPT !.phase = "answer", !.left = Parts] /\ pc' = pc
               ELSE X' = [X EXCEPT !.al[X.i] = Answer(X.name, X.types[X.i])] /\ pc' = "recv"
\* No connection, a reset, an end of file, a length below 12, or the time is up
TcpEnds == pc = "tcp" /\ pc' = "recv" /\ UNCHANGED <<ask, L, X, clock, net, modes, done>>
\* Mutant: a connection is given up one tick late.
TickLate == /\ \/ pc = "poll" /\ clock < Least(X.next_send, total)
               \/ pc = "tcp" /\ clock - X.t0 <= read_conf.timeout
            /\ clock' = clock + 1 /\ UNCHANGED <<pc, ask, L, X, net, modes, done>>
Tick == /\ \/ pc = "poll" /\ clock < Least(X.next_send, total)
           \/ pc = "tcp" /\ clock - X.t0 < read_conf.timeout
        /\ clock' = clock + 1 /\ UNCHANGED <<pc, ask, L, X, net, modes, done>>

Next == \/ pc = "idle" /\ ask = None /\ (\E a \in Asks : Ask(a))
        \/ query_name \/ Iterate \/ PollEnds \/ NoMore
        \/ \E d \in net, twice \in BOOLEAN : Receive(d, twice)
        \/ TcpMoves \/ TcpEnds \/ Tick
Spec == Init /\ [][Next]_vars

-----------------------------------------------------------------------------
(* What the calls promise *)

\* While it waits for servers that answer late, twice, from elsewhere or with failures, the resolver
\* keeps, for each question, only the DNS's answer to that very question, never one meant for an
\* earlier candidate or the other type; it keeps a failure only when as many came as there are servers.
AcceptedTrue ==
    X.open => \A i \in DOMAIN X.al : X.al[i] # None =>
                 IF X.al[i].rcode \in {0, 3} THEN X.al[i] = Answer(X.name, X.types[i]) ELSE X.servfail[i] = nns
\* An exchange lasts no longer than timeout * attempts, and a timeout more for every truncated answer.
TimeBounded == X.open => clock <= total + X.retries * read_conf.timeout

True(name, type) == IF name \in DOMAIN Zone
                    THEN SelectSeq(Zone[name][type], LAMBDA r : r.type = type) ELSE <<>>
Wanted == IF ask.op = "getnameinfo" THEN <<"PTR">> ELSE Types
\* The data the DNS has for an entry of the log, of the types it was told about
Found(e) == FlattenSeq([k \in DOMAIN Wanted |-> IF Wanted[k] \in e.told
                                               THEN [j \in DOMAIN True(e.name, Wanted[k]) |-> True(e.name, Wanted[k])[j].data] ELSE <<>>])
Won == {k \in DOMAIN L.log : Found(L.log[k]) # <<>>}
Looked == done # None /\ L.log # <<>>
\* Names are tried in order until one has data, and the data is what the DNS holds for it; a name is
\* called unknown only if the DNS knows none of the candidates, without data only if it knows one and
\* told of nothing, and "again" only if some candidate was never answered.  (Memory apart.)
LookupTrue ==
    Looked /\ done.r # "MEMORY" =>
       LET tried == Len(L.log)
           no(r) == CASE ask.op = "gethostbyname" -> done.r \in {"EAGAIN", "ENOENT"} /\ done.err = (CASE r = "AGAIN" -> "TRY_AGAIN" [] r = "NODATA" -> "NO_DATA" [] OTHER -> "HOST_NOT_FOUND")
                      [] ask.op = "getnameinfo" -> IF "NAMEREQD" \notin ask.flags THEN done.r # "" \/ done.host = <<"numeric">>
                                                   ELSE done.r = IF r = "NODATA" THEN "NONAME" ELSE r
                      [] OTHER -> done.r = r
       IN IF Won # {}
          THEN /\ Won = {tried}
               /\ ask.op = "getnameinfo" /\ done.r = "" => ask.domain = Tail(Found(L.log[tried])[1]) \/ done.host = Found(L.log[tried])[1]
               /\ ask.op = "gethostbyname" /\ done.r = "" => done.list = Took(Found(L.log[tried]), MAXADDRS)
               /\ ask.op = "getaddrinfo" /\ done.r = "" =>
                    {n.addr.a : n \in ToSet(done.list)} \subseteq {x.a : x \in ToSet(Found(L.log[tried]))}
          ELSE /\ tried = Len(L.cands)
               /\ no(IF \E k \in 1..tried : L.log[k].told = {} /\ mkquery(L.log[k].name) THEN "AGAIN"
                     ELSE IF \E k \in 1..tried : L.log[k].name \in DOMAIN Zone THEN "NODATA" ELSE "NONAME")
\* The canonical name is the one the aliases of the name that was found lead to.  (Stated for lookups
\* in which no earlier candidate was told to exist without addresses.)
CanonTrue ==
    Looked /\ Won # {} /\ done.r = "" /\ ask.op # "getnameinfo" =>
       LET e == L.log[Len(L.log)]
           earlier == {k \in 1..(Len(L.log) - 1) : L.log[k].name \in DOMAIN Zone /\ L.log[k].told # {}}
           ends == {Chain(Zone[e.name][t], e.name, 0) : t \in e.told}
       IN earlier = {} /\ done.canon # <<>> => done.canon \in ends

Filtered(a, s) == IF "ADDRCONFIG" \in a.flags /\ a.host.kind # "null" THEN SelectSeq(s, LAMBDA x : reachable(x, done.routes)) ELSE s
Source == IF ask.host.kind # "name" THEN OwnAddresses(ask)
          ELSE IF Looked THEN Took(Found(L.log[Len(L.log)]), MAXADDRS)
          ELSE hosts_forward(ask.host.name, lookup_family(ask)).addrs
\* getaddrinfo's list is every usable address with every service, addresses in order: those that can be
\* reached first, IPv6 before IPv4, otherwise as found; IPv4 behind IPv6 only as V4MAPPED and ALL allow.
AddrinfoTrue ==
    ask # None /\ ask.op = "getaddrinfo" /\ done # None /\ done.r = "" =>
       LET usable == Filtered(ask, Source)
           native == SelectSeq(usable, LAMBDA x : x.f = 6)
           mapped(x) == [x EXCEPT !.f = 6, !.loop = FALSE, !.mapped = TRUE]
           six == IF native = <<>> \/ "ALL" \in ask.flags THEN [k \in DOMAIN usable |-> IF usable[k].f = 6 THEN usable[k] ELSE mapped(usable[k])]
                  ELSE native
           class(k) == SelectSeq(usable, LAMBDA x : rank(x, done.routes) = k)
           order == IF ask.family = 6 THEN IF "V4MAPPED" \in ask.flags THEN six ELSE native
                    ELSE IF ask.family = 4 \/ ask.host.kind = "null" THEN usable
                    ELSE class(0) \o class(1) \o class(2) \o class(3)
           sv == services(ask).svs
       IN done.list = FlattenSeq([k \in DOMAIN order |-> [j \in DOMAIN sv |-> [addr |-> order[k], sv |-> sv[j]]]])

\* The labels reached from off, each pointer leading backwards and no cell met twice; refused otherwise
RECURSIVE Labels(_, _, _)
Labels(m, off, met) ==
    IF off > Len(m) \/ off \in met THEN <<"refused">>
    ELSE CASE m[off].k = "end" -> <<>>
           [] m[off].k = "ptr" /\ m[off].to < off -> Labels(m, m[off].to, met \cup {off})
           [] m[off].k = "label" /\ m[off].l # "!" -> <<m[off].l>> \o Labels(m, off + 1, met \cup {off})
           [] OTHER -> <<"refused">>
\* Reading a compressed name ends for every message; it gives the labels the pointers lead through, and
\* refuses exactly the names that leave the message, point forwards or at themselves, loop, are too
\* long or have characters that no host name has.  What follows the name is found past its first pointer.
NamesTrue ==
    ask # None /\ ask.op = "get_name" /\ done # None =>
       LET want == Labels(ask.m, ask.off, {})
           ptrs == {k \in ask.off..Len(ask.m) : ask.m[k].k \in {"ptr", "end"}}
       IN IF "refused" \in ToSet(want) \/ Len(want) > MAXNAME THEN done.end = -1
          ELSE done.name = want /\ done.end = 1 + (CHOOSE k \in ptrs : \A j \in ptrs : k <= j)
=============================================================================
