----------------------------- MODULE EvdnsConfig -----------------------------
(* The configuration of a resolver: evdns_base_new, the options, the lines  *)
(* of resolv.conf and of the hosts file, and what Windows is asked for.     *)
(*                                                                          *)
(* A line is a first word with its other words; an address is the number of *)
(* a server, 0 one that cannot be parsed, Loopback the one of this host. A  *)
(* configuration c is [ring, doms, ndots, max, attempts, timeouts, hosts]:  *)
(* ring is the circular list of the servers from server_head on. Functions  *)
(* map a configuration to a configuration.                                  *)
EXTENDS Integers, Sequences, SequencesExt

CONSTANTS Loopback,     \* 127.0.0.1
          HostDomain    \* the domain of gethostname, <<>> without one

Min2(a, b) == IF a < b THEN a ELSE b
Max2(a, b) == IF a < b THEN b ELSE a

evdns_base_new ==
    [ring |-> <<>>, doms |-> <<>>, ndots |-> 1, max |-> 64, attempts |-> 3, timeouts |-> 3,
     hosts |-> <<>>]

(* _evdns_nameserver_add_impl: a new server goes behind the head; one that  *)
(* is known already is refused, and so is an address nobody can parse.      *)
nameserver_ip_add(c, a) ==
    IF a = 0 \/ Contains(c.ring, a) THEN c
    ELSE [c EXCEPT !.ring = IF @ = <<>> THEN <<a>> ELSE <<Head(@), a>> \o Tail(@)]

search_postfix_clear(c) == [c EXCEPT !.doms = <<>>, !.ndots = 1]
search_postfix_add(c, dom) == [c EXCEPT !.doms = <<dom>> \o @]
search_set_from_hostname(c) ==
    IF HostDomain = <<>> THEN search_postfix_clear(c)
    ELSE search_postfix_add(search_postfix_clear(c), HostDomain)

(* evdns_base_set_option_impl: the numbers are clipped, and the part of the *)
(* configuration the caller did not ask for is left alone. The other        *)
(* options set durations and how a name is written.                         *)
set_option(c, opt, val, flags) ==
    CASE opt = "ndots" /\ val # -1 /\ "search" \in flags -> [c EXCEPT !.ndots = val]
      [] opt = "max-timeouts" /\ val # -1 /\ "misc" \in flags ->
             [c EXCEPT !.timeouts = Min2(255, Max2(1, val))]
      [] opt = "max-inflight" /\ val # -1 /\ "misc" \in flags ->
             [c EXCEPT !.max = Min2(65000, Max2(1, val))]
      [] opt = "attempts" /\ val # -1 /\ "misc" \in flags -> [c EXCEPT !.attempts = Min2(255, val)]
      [] OTHER -> c

resolv_conf_parse_line(c, line, flags) ==
    CASE line.word = "nameserver" /\ "nameservers" \in flags /\ line.args # <<>> ->
             nameserver_ip_add(c, Head(line.args))
      [] line.word = "domain" /\ "search" \in flags /\ line.args # <<>> ->
             search_postfix_add(search_postfix_clear(c), Head(line.args))
      [] line.word = "search" /\ "search" \in flags ->
             LET all == FoldLeft(search_postfix_add, search_postfix_clear(c), line.args)
             IN  [all EXCEPT !.doms = Reverse(@)]
      [] line.word = "options" ->
             FoldLeft(LAMBDA x, o : set_option(x, o[1], o[2], flags), c, line.args)
      [] OTHER -> c

(* A line of the hosts file: an address and its names; a name that starts a *)
(* comment ends the line.                                                   *)
parse_hosts_line(c, line) ==
    IF line.addr = 0 THEN c
    ELSE LET CommentAt == {i \in 1..Len(line.names) : line.names[i] = "#"}
             last == IF CommentAt = {} THEN Len(line.names)
                     ELSE (CHOOSE i \in CommentAt : \A j \in CommentAt : i <= j) - 1
         IN  [c EXCEPT !.hosts = @ \o [i \in 1..last |->
                  [name |-> line.names[i], addr |-> line.addr, fam |-> line.fam]]]
(* Without a hosts file, localhost has an address of either family.         *)
load_hosts(c, file) ==
    FoldLeft(parse_hosts_line, c,
             IF file.found THEN file.lines
             ELSE <<[addr |-> Loopback, fam |-> "v4", names |-> <<"localhost">>],
                    [addr |-> Loopback, fam |-> "v6", names |-> <<"localhost">>]>>)

(* evdns_base_resolv_conf_parse_impl, with evdns_resolv_set_defaults for a  *)
(* file that is not there: there is always a server to ask.                 *)
resolv_conf_parse(c, flags, file, hosts) ==
    LET c0 == IF "hosts" \in flags THEN load_hosts(c, hosts) ELSE c
        Named(x) == IF "search" \in flags THEN search_set_from_hostname(x) ELSE x
        Served(x) == IF "nameservers" \in flags THEN nameserver_ip_add(x, Loopback) ELSE x
        read == FoldLeft(LAMBDA x, l : resolv_conf_parse_line(x, l, flags), c0, file.lines)
        c1 == IF read.ring = <<>> THEN Served(read) ELSE read
    IN  IF ~file.found THEN Served(Named(c0))
        ELSE IF c1.doms = <<>> THEN Named(c1) ELSE c1

(* A list of addresses; the first one refused ends it, and its place tells. *)
nameserver_ip_add_line(c, addrs) ==
    LET refused(x, a) == a = 0 \/ Contains(x.ring, a)
    IN  FoldLeft(LAMBDA s, a : IF ~s.ok THEN s
                               ELSE IF refused(s.c, a) THEN [s EXCEPT !.ok = FALSE]
                               ELSE [s EXCEPT !.c = nameserver_ip_add(@, a)],
                 [c |-> c, ok |-> TRUE], addrs)

(* evdns_base_config_windows_nameservers: GetNetworkParams, and when it     *)
(* adds nothing the first key of the registry that does. The hosts file is  *)
(* only read on the second way. "ok" says whether evdns_base_new succeeds.  *)
config_windows_nameservers(c, params, registry, hosts) ==
    LET Add(s, addrs) == LET t == nameserver_ip_add_line(s.c, addrs)
                         IN  [c |-> t.c, any |-> s.any \/ t.ok]
        fromParams == FoldLeft(Add, [c |-> c, any |-> FALSE], params)
        fromKeys == FoldLeft(LAMBDA s, key : IF s.any THEN s ELSE Add(s, key),
                             [c |-> fromParams.c, any |-> FALSE], registry)
    IN  IF fromParams.any THEN [c |-> fromParams.c, ok |-> TRUE]
        ELSE [c |-> load_hosts(fromKeys.c, hosts), ok |-> fromKeys.any]

(* evdns_getaddrinfo_fromhosts: the entries of a name, of the families that *)
(* were asked for. Any entry answers, even with no address.                 *)
HostsKnow(c, name) == \E i \in DOMAIN c.hosts : c.hosts[i].name = name
fromhosts(c, name, fams) ==
    {c.hosts[i].fam : i \in {k \in DOMAIN c.hosts : c.hosts[k].name = name
                                                    /\ c.hosts[k].fam \in fams}}

=============================================================================
