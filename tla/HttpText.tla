------------------------------ MODULE HttpText ------------------------------
(***************************************************************************)
(* The texts of http.c: parsing, joining and changing URIs, percent        *)
(* encoding, queries, escaping for HTML, and the search for the virtual    *)
(* host of a name.  A text is a sequence of one-character strings; a       *)
(* pointer that may be NULL is a set with at most one text.                *)
(***************************************************************************)
EXTENDS Integers, SequencesExt

CONSTANT Ip6    \* the texts evutil_inet_pton takes for an IPv6 address

Digits     == {"0", "1", "2", "3", "4", "5", "6", "7", "8", "9"}
Letters    == {"a", "b", "c", "h", "t", "v", "A", "B", "C", "D", "F"}
HexDigits  == Digits \cup {"a", "b", "c", "A", "B", "C", "D", "F"}
Unreserved == Digits \cup Letters \cup {"-", ".", "_", "~"}
SubDelims  == {"!", "$", "&", "'", "(", ")", "*", "+", ",", ";", "="}

Null   == {}
The(x) == CHOOSE t \in x : TRUE

\* The place of the first character of s in C, or one past the end: strchr,
\* strsep and the loops that stop at a character.
FirstOf(s, C) ==
    LET I == {i \in DOMAIN s : s[i] \in C}
    IN  IF I = {} THEN Len(s) + 1 ELSE Min(I)

From(s, i) == SubSeq(s, i, Len(s))
To(s, i)   == SubSeq(s, 1, i)

Escaped(s, i) == /\ s[i] = "%"
                 /\ i + 2 <= Len(s)
                 /\ s[i + 1] \in HexDigits /\ s[i + 2] \in HexDigits

\* Every character is in C or begins an escape (whose digits are unreserved).
AllOk(s, C) == \A i \in DOMAIN s : s[i] \in C \/ Escaped(s, i)

scheme_ok(s) == /\ s # <<>>
                /\ s[1] \in Letters
                /\ \A i \in DOMAIN s : s[i] \in Letters \cup Digits \cup {"+", "-", "."}

userinfo_ok(s) == AllOk(s, Unreserved \cup SubDelims \cup {":"})
regname_ok(s)  == AllOk(s, Unreserved \cup SubDelims)

\* The number a text of digits stands for; the texts here are short, the C
\* code refuses a number that has become negative.
parse_port(s) ==
    LET value(c) == CHOOSE d \in 0..9 : ToString(d) = c
    IN  FoldLeft(LAMBDA n, c : n * 10 + value(c), 0, s)

bracket_addr_ok(s) ==
    /\ Len(s) >= 3 /\ s[1] = "[" /\ s[Len(s)] = "]"
    /\ LET inner == SubSeq(s, 2, Len(s) - 1)
           dot   == FirstOf(inner, {"."})
       IN  IF inner[1] = "v"
           THEN /\ dot \in 3..Len(inner)
                /\ \A i \in 2..(dot - 1) : inner[i] \in HexDigits
                /\ \A i \in (dot + 1)..Len(inner) :
                      inner[i] \in Unreserved \cup SubDelims \cup {":"}
           ELSE inner \in Ip6

host_ok(s) == IF s # <<>> /\ s[1] = "[" THEN bracket_addr_ok(s) ELSE regname_ok(s)

NoUri   == [scheme |-> Null, userinfo |-> Null, host |-> Null, port |-> -1,
            path |-> <<>>, query |-> Null, fragment |-> Null]
BadUri  == [NoUri EXCEPT !.port = -2]

\* [userinfo "@"] host [":" port], the port behind the last colon that only
\* digits follow.
parse_authority(uri, s) ==
    LET at == FirstOf(s, {"@"})
        named(host, port) ==
          IF \/ at <= Len(s) /\ ~userinfo_ok(To(s, at - 1))
             \/ ~(IF Len(host) >= 2 /\ host[1] = "[" /\ host[Len(host)] = "]"
                  THEN bracket_addr_ok(host) ELSE regname_ok(host))
          THEN BadUri
          ELSE [uri EXCEPT !.userinfo = IF at <= Len(s) THEN {To(s, at - 1)} ELSE Null,
                           !.port = IF port = <<>> THEN -1 ELSE parse_port(port),
                           !.host = {host}]
        split(cp) ==
          LET colon == {i \in DOMAIN cp : /\ cp[i] = ":"
                                          /\ \A j \in (i + 1)..Len(cp) : cp[j] \in Digits}
          IN  IF colon = {} THEN named(cp, <<>>)
              ELSE named(To(cp, Max(colon) - 1), From(cp, Max(colon) + 1))
    IN  IF s = <<>> THEN [uri EXCEPT !.host = {<<>>}]
        ELSE split(IF at <= Len(s) THEN From(s, at + 1) ELSE s)

\* The place after the longest beginning of s that may be such a part.
end_of_path(s, part, nonconformant) ==
    LET stop == CASE part = "path"  -> {"#", "?"}
                  [] part = "query" -> {"#"}
                  [] OTHER          -> {}
        okay == Unreserved \cup SubDelims \cup {":", "@", "/"}
                  \cup (IF part = "path" THEN {} ELSE {"?"})
        bad  == {i \in DOMAIN s : s[i] \notin okay /\ ~Escaped(s, i)}
    IN  IF nonconformant THEN FirstOf(s, stop)
        ELSE IF bad = {} THEN Len(s) + 1 ELSE Min(bad)

path_matches_noscheme(s) ==
    LET i == FirstOf(s, {":", "/"}) IN i > Len(s) \/ s[i] = "/"

\* The parts of a URI, from the one that s begins with to the last.
ParseFragment(uri, s, nonconformant) ==
    IF s = <<>> THEN uri
    ELSE IF s[1] = "#" /\ end_of_path(Tail(s), "fragment", nonconformant) = Len(s)
         THEN [uri EXCEPT !.fragment = {Tail(s)}] ELSE BadUri

ParseQuery(uri, s, nonconformant) ==
    LET eoq == end_of_path(Tail(s), "query", nonconformant)
        asks == s # <<>> /\ s[1] = "?"
    IN  ParseFragment([uri EXCEPT !.query = IF asks THEN {To(Tail(s), eoq - 1)} ELSE Null],
                      IF asks THEN From(Tail(s), eoq) ELSE s, nonconformant)

ParsePath(uri, s, nonconformant) ==
    LET refused(path) ==
          \/ uri = BadUri
          \/ uri.host = Null /\ Len(path) >= 2 /\ path[1] = "/" /\ path[2] = "/"
          \/ uri.host # Null /\ path # <<>> /\ path[1] # "/"
          \/ uri.scheme = Null /\ ~path_matches_noscheme(path)
        upto(eop) == IF refused(To(s, eop - 1)) THEN BadUri
                     ELSE ParseQuery([uri EXCEPT !.path = To(s, eop - 1)], From(s, eop), nonconformant)
    IN  upto(end_of_path(s, "path", nonconformant))

ParseHier(uri, s, nonconformant) ==
    LET rest == From(s, 3)
        eoa  == FirstOf(rest, {"?", "#", "/"})
    IN  IF Len(s) >= 2 /\ s[1] = "/" /\ s[2] = "/"
        THEN ParsePath(parse_authority(uri, To(rest, eoa - 1)), From(rest, eoa), nonconformant)
        ELSE ParsePath(uri, s, nonconformant)

evhttp_uri_parse_with_flags(s, nonconformant) ==
    LET colon == FirstOf(s, {":"})
        named == colon <= Len(s) /\ scheme_ok(To(s, colon - 1))
    IN  ParseHier([NoUri EXCEPT !.scheme = IF named THEN {To(s, colon - 1)} ELSE Null],
                  IF named THEN From(s, colon + 1) ELSE s, nonconformant)

evhttp_uri_parse(s) == evhttp_uri_parse_with_flags(s, FALSE)

DigitsOf(n) == IF n < 10 THEN <<ToString(n)>>
               ELSE IF n < 100 THEN <<ToString(n \div 10), ToString(n % 10)>>
               ELSE <<ToString(n \div 100), ToString((n \div 10) % 10), ToString(n % 10)>>

\* A bug would be to take port 0 for no port.
JoinNoPortZero(u, limit) ==
    LET opt(before, x, after) == IF x = Null THEN <<>> ELSE before \o The(x) \o after
        auth == IF u.host = Null THEN <<>>
                ELSE <<"/", "/">> \o opt(<<>>, u.userinfo, <<"@">>) \o The(u.host)
                       \o (IF u.port > 0 THEN <<":">> \o DigitsOf(u.port) ELSE <<>>)
    IN  {opt(<<>>, u.scheme, <<":">>) \o auth \o u.path
           \o opt(<<"?">>, u.query, <<>>) \o opt(<<"#">>, u.fragment, <<>>)}

\* Null when a host is followed by a relative path or the text and its zero
\* do not fit into limit characters.
evhttp_uri_join(u, limit) ==
    LET opt(before, x, after) == IF x = Null THEN <<>> ELSE before \o The(x) \o after
        auth == IF u.host = Null THEN <<>>
                ELSE <<"/", "/">> \o opt(<<>>, u.userinfo, <<"@">>) \o The(u.host)
                       \o (IF u.port >= 0 THEN <<":">> \o DigitsOf(u.port) ELSE <<>>)
        text == opt(<<>>, u.scheme, <<":">>) \o auth \o u.path
                  \o opt(<<"?">>, u.query, <<>>) \o opt(<<"#">>, u.fragment, <<>>)
    IN  IF \/ u.host # Null /\ u.path # <<>> /\ u.path[1] # "/"
           \/ Len(text) + 1 > limit
        THEN Null
        ELSE {text}

\* The setters: the URI unchanged when the new part is refused.
evhttp_uri_set_scheme(u, x) ==
    IF x = Null \/ scheme_ok(The(x)) THEN [u EXCEPT !.scheme = x] ELSE u
evhttp_uri_set_userinfo(u, x) ==
    IF x = Null \/ userinfo_ok(The(x)) THEN [u EXCEPT !.userinfo = x] ELSE u
evhttp_uri_set_host(u, x) ==
    IF x = Null \/ host_ok(The(x)) THEN [u EXCEPT !.host = x] ELSE u
evhttp_uri_set_port(u, p) == IF p < -1 THEN u ELSE [u EXCEPT !.port = p]
PartOk(x, part) == x = Null \/ end_of_path(The(x), part, FALSE) = Len(The(x)) + 1
evhttp_uri_set_path(u, p) == IF PartOk({p}, "path") THEN [u EXCEPT !.path = p] ELSE u
evhttp_uri_set_query(u, x) == IF PartOk(x, "query") THEN [u EXCEPT !.query = x] ELSE u
evhttp_uri_set_fragment(u, x) ==
    IF PartOk(x, "fragment") THEN [u EXCEPT !.fragment = x] ELSE u

----------------------------------------------------------------------------
\* Percent encoding.  The code of a character, for the ones the texts use.
Codes == [c \in {" ", "%", "&", "+", "/", ":", "<", "=", "?", "@", "#", "[", "]", "a", "1"} |->
            CASE c = " " -> <<"2", "0">> [] c = "%" -> <<"2", "5">> [] c = "&" -> <<"2", "6">>
              [] c = "+" -> <<"2", "B">> [] c = "/" -> <<"2", "F">> [] c = ":" -> <<"3", "A">>
              [] c = "<" -> <<"3", "C">> [] c = "=" -> <<"3", "D">> [] c = "?" -> <<"3", "F">>
              [] c = "@" -> <<"4", "0">> [] c = "#" -> <<"2", "3">> [] c = "[" -> <<"5", "B">>
              [] c = "]" -> <<"5", "D">> [] c = "a" -> <<"6", "1">> [] OTHER   -> <<"3", "1">>]

\* A bug would be to leave the percent sign as it is.
EncodeKeepsPercent(s, space_as_plus) ==
    FlattenSeq([i \in DOMAIN s |->
        IF s[i] \in Unreserved \cup {"%"} THEN <<s[i]>>
        ELSE IF s[i] = " " /\ space_as_plus THEN <<"+">>
             ELSE <<"%">> \o Codes[s[i]]])

evhttp_uriencode(s, space_as_plus) ==
    FlattenSeq([i \in DOMAIN s |->
        IF s[i] \in Unreserved THEN <<s[i]>>
        ELSE IF s[i] = " " /\ space_as_plus THEN <<"+">>
             ELSE <<"%">> \o Codes[s[i]]])

CharOf(h1, h2) == IF \E c \in DOMAIN Codes : Codes[c] = <<h1, h2>>
                  THEN CHOOSE c \in DOMAIN Codes : Codes[c] = <<h1, h2>>
                  ELSE "other"

\* ctl is 1, 0 or -1: decode a plus always, never, or behind a question mark.
evhttp_decode_uri_internal(s, ctl) ==
    LET step(d, i) ==
          IF d.skip > 0 THEN [d EXCEPT !.skip = @ - 1]
          ELSE CASE s[i] = "?" -> [d EXCEPT !.out = Append(@, "?"), !.plus = @ \/ ctl < 0]
                 [] s[i] = "+" /\ d.plus -> [d EXCEPT !.out = Append(@, " ")]
                 [] Escaped(s, i) -> [d EXCEPT !.out = Append(@, CharOf(s[i + 1], s[i + 2])),
                                               !.skip = 2]
                 [] OTHER -> [d EXCEPT !.out = Append(@, s[i])]
    IN  FoldLeft(step, [out |-> <<>>, skip |-> 0, plus |-> ctl = 1],
                 [i \in DOMAIN s |-> i]).out

evhttp_uridecode(s, plus) == evhttp_decode_uri_internal(s, IF plus THEN 1 ELSE 0)

BadQuery == <<<<"bad">>>>
RECURSIVE QueryItems(_, _)
QueryItems(s, items) ==
    LET amp == FirstOf(s, {"&"})
        arg == To(s, amp - 1)
        eq  == FirstOf(arg, {"="})
    IN  IF s = <<>> THEN items
        ELSE IF eq > Len(arg) \/ eq = 1 THEN BadQuery
             ELSE QueryItems(From(s, amp + 1),
                             Append(items, <<To(arg, eq - 1),
                                             evhttp_decode_uri_internal(From(arg, eq + 1), 1)>>))

\* evhttp_parse_query_str and, for a whole URI, evhttp_parse_query.
evhttp_parse_query_impl(s, is_whole_uri) ==
    LET items(u) == CASE u = BadUri -> BadQuery
                      [] u # BadUri /\ u.query = Null -> <<>>
                      [] OTHER -> QueryItems(The(u.query), <<>>)
    IN  IF is_whole_uri THEN items(evhttp_uri_parse(s)) ELSE QueryItems(s, <<>>)

html_replace(c) == CASE c = "<" -> <<"&", "l", "t", ";">>
                     [] c = ">" -> <<"&", "g", "t", ";">>
                     [] c = "\"" -> <<"&", "q", "u", "o", "t", ";">>
                     [] c = "'" -> <<"&", "#", "0", "3", "9", ";">>
                     [] c = "&" -> <<"&", "a", "m", "p", ";">>
                     [] OTHER   -> <<c>>
evhttp_htmlescape(s) == FlattenSeq([i \in DOMAIN s |-> html_replace(s[i])])

----------------------------------------------------------------------------
\* Virtual hosts.  A server is [aliases, pattern, vhosts, paths, generic]: the
\* paths it has callbacks for and whether it has a generic one.
RECURSIVE prefix_suffix_match(_, _)
prefix_suffix_match(pattern, name) ==
    IF pattern = <<>> THEN name = <<>>
    ELSE IF pattern[1] = "*"
         THEN \E i \in DOMAIN name : prefix_suffix_match(Tail(pattern), From(name, i))
         ELSE /\ name # <<>>
              /\ pattern[1] = name[1]
              /\ prefix_suffix_match(Tail(pattern), Tail(name))

RECURSIVE evhttp_find_alias(_, _)
evhttp_find_alias(http, name) ==
    LET found == {i \in DOMAIN http.vhosts : evhttp_find_alias(http.vhosts[i], name) # Null}
    IN  IF name \in http.aliases THEN {http}
        ELSE IF found = {} THEN Null
             ELSE evhttp_find_alias(http.vhosts[Min(found)], name)

RECURSIVE DescendVhosts(_, _)
DescendVhosts(http, name) ==
    LET found == {i \in DOMAIN http.vhosts : prefix_suffix_match(http.vhosts[i].pattern, name)}
    IN  IF found = {} THEN http ELSE DescendVhosts(http.vhosts[Min(found)], name)

\* The server for a name, and whether the name was found at all.
evhttp_find_vhost(http, name) ==
    LET alias == evhttp_find_alias(http, name)
        below == DescendVhosts(http, name)
    IN  IF alias # Null THEN [http |-> The(alias), found |-> TRUE]
        ELSE [http |-> below, found |-> below # http]

\* Whether the server has a callback for the path of a URI.
evhttp_dispatch_callback(http, path) == evhttp_decode_uri_internal(path, 0) \in http.paths

\* The host of a URI or, without one, of the Host header less its port.
evhttp_request_get_host(uri, hostHeader) ==
    LET h     == The(hostHeader)
        colon == {i \in 2..Len(h) : h[i] = ":" /\ \A j \in (i + 1)..Len(h) : h[j] \in Digits}
    IN  IF uri.host # Null THEN uri.host
        ELSE IF hostHeader = Null \/ colon = {} THEN hostHeader
             ELSE {To(h, Max(colon) - 1)}
=============================================================================
