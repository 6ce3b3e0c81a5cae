---------------------------- MODULE MCEvdnsServer ----------------------------
(* Labels of one and two bytes and the empty one that stands for a trailing *)
(* dot; a buffer of 66 bytes and responses of at most 60.                   *)
EXTENDS EvdnsServer

MCLabelLen == [l \in {"a", "bb", ""} |-> IF l = "a" THEN 1 ELSE IF l = "bb" THEN 2 ELSE 0]
MCQueries == {[name |-> <<"a", "bb">>, type |-> "A"], [name |-> <<"bb", "">>, type |-> "PTR"]}
Addr(name, type, ttl, addrs) ==
    [name |-> name, type |-> type, ttl |-> ttl, isName |-> FALSE, addrs |-> addrs, data |-> <<>>]
Ref(name, type, ttl, data) ==
    [name |-> name, type |-> type, ttl |-> ttl, isName |-> TRUE, addrs |-> <<>>, data |-> data]
MCItems ==
    {Addr(<<"a", "bb">>, "A", 2, <<1, 2>>), Addr(<<"bb", "">>, "A", 1, <<3>>),
     Addr(<<"a">>, "AAAA", 1, <<4>>),
     Ref(<<"bb">>, "PTR", 2, <<"a", "a", "bb">>), Ref(<<"bb", "">>, "CNAME", 1, <<"a", "bb", "">>)}

=============================================================================
