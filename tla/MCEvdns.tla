------------------------------- MODULE MCEvdns -------------------------------
(* Configurations: two servers from a file, with a domain to search, and    *)
(* two requests in flight at most; and the servers Windows names, with one  *)
(* request in flight, set by the user.                                      *)
EXTENDS Evdns

Options == [word |-> "options",
            args |-> << <<"max-inflight", 2>>, <<"attempts", 1>>, <<"max-timeouts", 1>> >>]
Server(n) == [word |-> "nameserver", args |-> <<n>>]
Hosts == [found |-> FALSE, lines |-> <<>>]
All == {"nameservers", "search", "misc", "hosts"}
FromFile(lines) ==
    resolv_conf_parse(evdns_base_new, All, [found |-> TRUE, lines |-> lines], Hosts)
MCConfigs ==
    {FromFile(<<Server(1), Server(2), Options, [word |-> "search", args |-> <<"d1">>]>>),
     FoldLeft(LAMBDA c, o : set_option(c, o, 1, All),
              config_windows_nameservers(evdns_base_new, <<>>, << <<1, 2>> >>, Hosts).c,
              <<"max-inflight", "attempts", "max-timeouts">>)}
MCHostDomain == <<>>

=============================================================================
