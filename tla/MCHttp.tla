------------------------------- MODULE MCHttp -------------------------------
(***************************************************************************)
(* Constants for the checks of Http.                                       *)
(***************************************************************************)
EXTENDS Http

MCIp6 == {<<":", ":">>}

First200(hs, body) == <<<<"first", 200>>>> \o hs \o <<<<"end">>>> \o body
Length(n)  == <<"hdr", "Content-Length", n>>
Close      == <<"hdr", "Connection", "close">>
KeepAlive  == <<"hdr", "Connection", "keep-alive">>
Chunked    == <<"hdr", "Transfer-Encoding", "chunked">>
Byte       == <<"byte">>
End        == <<"end">>
Chunk      == <<<<"size", 1>>, Byte, End>>
LastChunk  == <<<<"size", 0>>, End>>

Root    == <<"/">>
Asked(method, minor, uri, hs, body) ==
    <<<<"req", method, minor, uri>>>> \o hs \o <<End>> \o body

MCPeerMessages ==
    [client |-> {First200(<<Length(1)>>, <<Byte>>),
                 First200(<<Chunked>>, Chunk \o LastChunk),
                 First200(<<>>, <<Byte>>),
                 First200(<<Close, Length(0)>>, <<>>),
                 First200(<<Length(3)>>, <<>>),
                 First200(<<KeepAlive>>, <<>>),
                 <<<<"first", 100>>, End>> \o First200(<<Length(0)>>, <<>>),
                 <<<<"first", 204>>, End>>,
                 <<<<"bad">>>>},
     server |-> {Asked("GET", 1, Root, <<>>, <<>>),
                 Asked("GET", 0, Root, <<>>, <<>>),
                 Asked("GET", 0, Root, <<KeepAlive>>, <<>>),
                 Asked("HEAD", 1, <<"/", "a">>, <<>>, <<>>),
                 Asked("GET", 1, <<"h", ":", "/", "/", "b", "/">>, <<>>, <<>>),
                 Asked("POST", 1, Root, <<Length(1)>>, <<Byte>>),
                 Asked("POST", 1, Root, <<<<"hdr", "Expect", "100-continue">>, Length(1)>>, <<Byte>>),
                 Asked("POST", 1, Root, <<<<"hdr", "Expect", "200-ok">>, Length(1)>>, <<>>),
                 Asked("POST", 1, Root, <<Chunked, Close>>, Chunk \o LastChunk),
                 Asked("PATCH", 1, Root, <<>>, <<>>),
                 Asked("UNKNOWN", 1, Root, <<>>, <<>>),
                 Asked("GET", 1, Root, <<<<"hdr", "Host", <<"a", ".", "b", ":", "1">>>>>>, <<>>),
                 <<<<"bad">>>>}]

MCSite == [aliases |-> {}, pattern |-> <<>>, paths |-> {Root}, generic |-> FALSE,
           vhosts |-> <<[aliases |-> {<<"c">>}, pattern |-> <<"*", ".", "b">>,
                         paths |-> {}, generic |-> FALSE, vhosts |-> <<>>]>>]

Behaviour(plan, done, chunk, retries) ==
    [plan |-> plan, done |-> done, chunk |-> chunk, chunkcb |-> chunk # "none",
     retries |-> retries, port |-> TRUE, reply |-> "later"]

MCPolicies ==
    [client |-> {Behaviour(<<>>, "none", "none", 0),
                 Behaviour(<<>>, "none", "cancel", 2),
                 Behaviour(<<"pending", "error">>, "none", "free", 0),
                 Behaviour(<<>>, "again", "keep", 0),
                 Behaviour(<<"pending", "bind">>, "free", "none", 1),
                 Behaviour(<<"error">>, "own", "cancel", 0),
                 [Behaviour(<<>>, "again", "none", 1) EXCEPT !.port = FALSE]},
     server |-> {Behaviour(<<>>, "none", "none", 0),
                 [Behaviour(<<>>, "none", "none", 0) EXCEPT !.reply = "now"]},
     text   |-> {Behaviour(<<>>, "none", "none", 0)}]

MCWords == {<<"a">>, <<"a", ":">>, <<"/">>, <<"/", "/">>, <<"?">>, <<"#">>, <<"@">>,
            <<":", "0">>, <<"[", ":", ":", "]">>, <<"%">>, <<"%", "6", "1">>, <<"&", "=">>, <<"+", " ">>, <<"<">>}
=============================================================================
