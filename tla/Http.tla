-------------------------------- MODULE Http --------------------------------
(***************************************************************************)
(* The HTTP connections of http.c over one socket bufferevent: an outgoing *)
(* connection with its queue of requests, retries, cancelling and close    *)
(* detection, or an incoming one that reads requests, calls the user and   *)
(* writes replies, with persistent connections.  Everything runs in the    *)
(* thread of the loop.                                                     *)
(*                                                                         *)
(* What the peer sends is a sequence of tokens: lines                      *)
(*   <<"first", code>>   <<"req", method, minor, uri>>   <<"hdr", key, v>> *)
(*   <<"end">> (the empty line)   <<"size", n>>   <<"bad">>                *)
(* and <<"byte">>.  A token counts as one byte.  Bytes in front of a line  *)
(* make it a line nobody understands.                                      *)
(*                                                                         *)
(* side says what is looked at: a client, a server, or (text) the pure     *)
(* functions of HttpText.  policy fixes what the user's callbacks do.      *)
(***************************************************************************)
EXTENDS HttpText, FiniteSets

CONSTANTS Requests,       \* the request objects, 1..n
          MaxHeaders,     \* max_headers_size, in lines
          MaxBody,        \* max_body_size
          Site,           \* the server, see evhttp_find_vhost
          Policies,       \* what the user does: see Init
          PeerMessages,   \* [client, server -> the messages the peer may send]
          MaxMessages,    \* how many of them
          MaxFaults,      \* timeouts and errors of the socket
          MaxChunks,      \* pieces of one streamed reply
          Words, MaxWords \* what the texts are made of

VARIABLES side, policy, world, faults, text

vars == <<side, policy, world, faults, text>>

Outgoing == side = "client"
Reading  == {"FIRSTLINE", "HEADERS", "BODY", "TRAILER"}

NewRequest ==
    [mem |-> "live", kind |-> "RESPONSE", type |-> "none", minor |-> -1, code |-> 0,
     inh |-> <<>>, outh |-> <<>>, uri |-> Null, proxy |-> FALSE,
     toread |-> 0, chunked |-> FALSE, body |-> 0, hsize |-> 0, inb |-> 0, outb |-> 0,
     userdone |-> FALSE, evcon |-> FALSE, chunkcb |-> FALSE, owned |-> FALSE,
     defer |-> FALSE, needs |-> FALSE, called |-> 0, sends |-> 0, user |-> "no"]
NoRequest == [NewRequest EXCEPT !.mem = "none"]

\* A world: the connection, its requests, the wire from the peer, what was
\* written to it, the replies the user gave, what went wrong (failed), and what
\* the connection has kept longer than it should (stale, a history).
NewCon == [live |-> TRUE, state |-> "DISCONNECTED", fd |-> FALSE, detect |-> FALSE,
           reqs |-> <<>>, cnt |-> 0, retry |-> FALSE, cb |-> "none", set |-> "full",
           en |-> {"W"}, wev |-> FALSE, connecting |-> FALSE, in |-> <<>>, out |-> <<>>,
           deferred |-> FALSE]

NewWorld(plan) ==
    [con |-> NewCon, req |-> [r \in Requests |-> NoRequest], plan |-> plan,
     wire |-> <<>>, messages |-> 0, eof |-> FALSE, sent |-> <<>>, replies |-> <<>>,
     failed |-> {}, stale |-> {}, stranded |-> FALSE, rc |-> 0, rd |-> "more"]

Crash(S, what) == [S EXCEPT !.failed = @ \cup {what}]
First(S) == Head(S.con.reqs)
Unused(S) == {r \in Requests : S.req[r].mem = "none"}

evhttp_connected(S) == S.con.state \notin {"DISCONNECTED", "CONNECTING"}

\* What nothing cancels in time: a retry timer while the connection connects,
\* is connected or has no request; close detection on a connection that is not
\* idle; the deferred read of a connection that does not read.
Leftover(S) ==
    {c \in {"retry", "detect", "deferred"} :
        \/ c = "retry" /\ S.con.retry
             /\ (S.con.connecting \/ evhttp_connected(S) \/ S.con.reqs = <<>>)
        \/ c = "detect" /\ S.con.detect /\ S.con.state # "IDLE"
        \/ c = "deferred" /\ S.con.deferred /\ S.con.state \notin Reading \cup {"IDLE"}}

\* Reading or writing a request that was freed.
Touch(S, r) == IF S.req[r].mem = "live" THEN S ELSE Crash(S, "use after free")

\* bufferevent_enable, bufferevent_disable and evbuffer_add to the output.
Enable(S, ev) == [S EXCEPT !.con.en = @ \cup ev, !.con.wev = @ \/ "W" \in ev]
Disable(S, ev) ==
    [S EXCEPT !.con.en = @ \ ev,
              !.con.wev = IF "W" \in ev /\ ~S.con.connecting THEN FALSE ELSE @]
Add(S, tokens) == [S EXCEPT !.con.out = @ \o tokens,
                            !.con.wev = @ \/ ("W" \in S.con.en /\ tokens # <<>>)]

evhttp_find_header(headers, key) ==
    LET I == {i \in DOMAIN headers : headers[i][1] = key}
    IN  IF I = {} THEN Null ELSE {headers[Min(I)][2]}
evhttp_remove_header(headers, key) ==
    LET I == {i \in DOMAIN headers : headers[i][1] = key}
    IN  IF I = {} THEN headers ELSE RemoveAt(headers, Min(I))
evhttp_add_header(headers, key, v) == Append(headers, <<key, v>>)

evhttp_is_connection_close(q, headers) ==
    IF q.proxy THEN evhttp_find_header(headers, "Proxy-Connection") # {"keep-alive"}
    ELSE evhttp_find_header(headers, "Connection") = {"close"}
evhttp_is_connection_keepalive(headers) ==
    evhttp_find_header(headers, "Connection") = {"keep-alive"}

evhttp_response_needs_body(q) == q.code \notin {100, 204, 304} /\ q.type # "HEAD"
evhttp_method_may_have_body(type) == type \in {"POST", "PUT", "PATCH"}

----------------------------------------------------------------------------
\* Requests and connections.
Gone(S, r) == [S EXCEPT !.req[r] = [NoRequest EXCEPT !.mem = "freed", !.called = S.req[r].called]]

evhttp_request_free(S, r) ==
    IF S.req[r].defer THEN [S EXCEPT !.req[r].needs = TRUE]
    ELSE Gone(Touch(S, r), r)

RECURSIVE FreeAll(_)
FreeAll(S) == IF S.con.reqs = <<>> THEN S
              ELSE FreeAll(evhttp_request_free([S EXCEPT !.con.reqs = Tail(@)], First(S)))

evhttp_connection_free(S) ==
    [FreeAll(S) EXCEPT !.con.live = FALSE, !.con.retry = FALSE, !.con.deferred = FALSE,
                       !.con.en = {}, !.con.wev = FALSE, !.con.connecting = FALSE,
                       !.con.fd = FALSE, !.con.in = <<>>, !.wire = <<>>]

evhttp_connection_reset(S) ==
    [S EXCEPT !.con.en = {}, !.con.wev = FALSE, !.con.connecting = FALSE,
              !.con.fd = FALSE, !.wire = <<>>, !.eof = FALSE,
              !.con.in = <<>>, !.con.out = <<>>, !.con.state = "DISCONNECTED"]

evhttp_connection_start_detectclose(S) == [Enable(S, {"R"}) EXCEPT !.con.detect = TRUE]
evhttp_connection_stop_detectclose(S) == [Disable(S, {"R"}) EXCEPT !.con.detect = FALSE]

evhttp_write_buffer(S, cb) ==
    Enable([S EXCEPT !.con.cb = cb, !.con.set = "write"], {"W"})

\* The request line, the headers and the body of an outgoing request.
MakeRequestHeader(S, r) ==
    LET q == S.req[r]
    IN  Add([S EXCEPT !.req[r].sends = @ + 1, !.req[r].outh =
                IF q.type \in {"POST", "PUT"} /\ evhttp_find_header(q.outh, "Content-Length") = Null
                THEN evhttp_add_header(@, "Content-Length", q.outb) ELSE @],
            <<<<"request", r>>>>)

evhttp_request_dispatch(S) ==
    IF S.con.reqs = <<>> THEN S
    ELSE LET s1 == evhttp_connection_stop_detectclose(S)
             s2 == IF S.con.state = "IDLE" THEN s1 ELSE Crash(s1, "dispatch: not idle")
             s3 == MakeRequestHeader([s2 EXCEPT !.con.state = "WRITING"], First(S))
         IN  evhttp_write_buffer(s3, "connection")

\* Callbacks call back.
RECURSIVE evhttp_connection_connect(_), evhttp_connection_fail(_, _),
          evhttp_error_cb(_, _), UserDone(_, _)

\* A request that could not be started at all (-1) is off the queue again, and
\* nobody frees it.
Started(S, r) == IF S.rc = 0 THEN S
                 ELSE [S EXCEPT !.con.reqs = SelectSeq(@, LAMBDA x : x # r), !.rc = 0]

\* The connection takes the request.
evhttp_make_request(S, r, type) ==
    LET s1 == [S EXCEPT !.req[r].kind = "REQUEST", !.req[r].type = type,
                        !.req[r].minor = 1, !.req[r].evcon = TRUE,
                        !.con.reqs = Append(@, r)]
    IN  IF ~evhttp_connected(S) THEN Started(evhttp_connection_connect(s1), r)
        ELSE IF S.con.reqs = <<>> THEN evhttp_request_dispatch(s1) ELSE s1

\* A bug would be to leave a waiting request on the queue.
CancelKeepsQueued(S, r) ==
    IF ~S.req[r].evcon THEN evhttp_request_free(S, r)
    ELSE IF First(S) = r THEN evhttp_connection_fail(S, "CANCEL")
         ELSE evhttp_request_free(S, r)

evhttp_cancel_request(S, r) ==
    IF ~S.req[r].evcon THEN evhttp_request_free(S, r)
    ELSE IF First(S) = r THEN evhttp_connection_fail(S, "CANCEL")
         ELSE evhttp_request_free([S EXCEPT !.con.reqs = Remove(@, r)], r)

\* The callback of an outgoing request: the user may make the next request,
\* free the connection, or keep the request for itself.
UserDone(S, r) ==
    LET s1 == [S EXCEPT !.req[r].called = @ + 1]
        q  == Min(Unused(s1))
    IN  CASE policy.done = "again" /\ s1.con.live /\ Unused(s1) # {}
               -> evhttp_make_request([s1 EXCEPT !.req[q] = [NewRequest EXCEPT !.chunkcb = policy.chunkcb]], q, "GET")
          [] policy.done = "free" /\ s1.con.live -> evhttp_connection_free(s1)
          [] policy.done = "own" /\ s1.req[r].mem = "live" -> [s1 EXCEPT !.req[r].owned = TRUE]
          [] OTHER -> s1

\* Signals every request on a copy of the queue.
RECURSIVE SignalAll(_, _)
SignalAll(S, requests) ==
    IF requests = <<>> THEN S
    ELSE LET r == Head(requests)
         IN  SignalAll(evhttp_request_free(UserDone([S EXCEPT !.req[r].evcon = FALSE], r), r),
                       Tail(requests))

evhttp_connection_cb_cleanup(S) ==
    IF policy.retries < 0 \/ S.con.cnt < policy.retries
    THEN [IF S.con.retry THEN Crash(S, "assign: pending") ELSE S
            EXCEPT !.con.retry = TRUE, !.con.cnt = @ + 1]
    ELSE LET s1 == evhttp_connection_reset(S)
         IN  SignalAll([s1 EXCEPT !.con.reqs = <<>>], s1.con.reqs)

----------------------------------------------------------------------------
\* Replies of a server.
evhttp_response_code(S, r, code) ==
    [S EXCEPT !.req[r].kind = "RESPONSE", !.req[r].code = code]

evhttp_maybe_add_content_length_header(headers, n) ==
    IF \/ evhttp_find_header(headers, "Transfer-Encoding") # Null
       \/ evhttp_find_header(headers, "Content-Length") # Null
    THEN headers ELSE evhttp_add_header(headers, "Content-Length", n)

\* The headers a reply is sent with.
ReplyHeaders(q) ==
    LET alive == evhttp_is_connection_keepalive(q.inh)
        h1 == IF q.minor = 0 /\ alive THEN evhttp_add_header(q.outh, "Connection", "keep-alive")
              ELSE q.outh
        h2 == IF (q.minor >= 1 \/ alive) /\ evhttp_response_needs_body(q)
              THEN evhttp_maybe_add_content_length_header(h1, q.outb) ELSE h1
        h3 == evhttp_remove_header(h2, "Connection")
    IN  IF ~evhttp_is_connection_close(q, q.inh) THEN h2
        ELSE evhttp_remove_header(IF q.proxy THEN h3 ELSE evhttp_add_header(h3, "Connection", "close"),
                                  "Proxy-Connection")

\* A bug would be to promise a length where the body is sent in chunks.
MakeHeaderCountsAlways(S, r) ==
    LET q == [S.req[r] EXCEPT !.outh = evhttp_add_header(@, "Content-Length", S.req[r].outb)]
        h == SelectSeq(ReplyHeaders(q), LAMBDA x : x[1] # "Transfer-Encoding")
    IN  Add([S EXCEPT !.req[r].outh = h, !.req[r].outb = 0],
            <<<<"first", q.code>>>> \o [i \in DOMAIN h |-> <<"hdr", h[i][1], h[i][2]>>]
              \o <<<<"end">>>> \o [i \in 1..q.outb |-> <<"byte">>])

\* The status line, the headers and what is in the output buffer.
evhttp_make_header(S, r) ==
    LET q == S.req[r]
        with(h) == Add([S EXCEPT !.req[r].outh = h, !.req[r].outb = 0],
                       <<<<"first", q.code>>>> \o [i \in DOMAIN h |-> <<"hdr", h[i][1], h[i][2]>>]
                         \o <<<<"end">>>> \o [i \in 1..q.outb |-> <<"byte">>])
    IN  with(ReplyHeaders(q))

\* What the user, or the library for it, has replied.
Replied(S, r, n, streamed) ==
    LET q == S.req[r]
    IN  [S EXCEPT !.replies = Append(@,
            [code |-> q.code, n |-> n, head |-> ~evhttp_response_needs_body(q),
             odd |-> streamed /\ q.minor = 0 /\ evhttp_is_connection_keepalive(q.inh)])]

evhttp_send(S, r, n) ==
    IF ~S.req[r].evcon THEN evhttp_request_free(S, r)
    ELSE LET s1 == IF S.con.reqs # <<>> /\ First(S) = r THEN S ELSE Crash(S, "send: not first")
             s2 == [s1 EXCEPT !.req[r].userdone = TRUE, !.req[r].outb = @ + n]
         IN  evhttp_write_buffer(evhttp_make_header(Replied(s2, r, s2.req[r].outb, FALSE), r), "done")

evhttp_send_reply(S, r, code, n) == evhttp_send(evhttp_response_code(S, r, code), r, n)

evhttp_send_page(S, r, n) ==
    LET q == S.req[r]
    IN  evhttp_send([S EXCEPT !.req[r].minor = IF @ \in {-1, 0} THEN 1 ELSE @,
                              !.req[r].code = IF q.kind = "RESPONSE" THEN @ ELSE 200,
                              !.req[r].kind = "RESPONSE",
                              !.req[r].outh = <<<<"Connection", "close">>>>],
                    r, n)

evhttp_send_error(S, r, error) == evhttp_send_page(evhttp_response_code(S, r, error), r, 1)

evhttp_send_reply_start(S, r, code) ==
    LET s1   == evhttp_response_code(S, r, code)
        q    == s1.req[r]
        chop == /\ evhttp_find_header(q.outh, "Content-Length") = Null
                /\ q.minor >= 1
                /\ evhttp_response_needs_body(q)
        s2   == [s1 EXCEPT !.req[r].chunked = chop,
                           !.req[r].outh = IF chop THEN evhttp_add_header(@, "Transfer-Encoding", "chunked")
                                           ELSE @]
    IN  IF ~q.evcon THEN Crash(s2, "start: no connection")
        ELSE evhttp_write_buffer(evhttp_make_header(Replied(s2, r, 0, TRUE), r), "none")

evhttp_send_reply_chunk(S, r, n) ==
    LET q == S.req[r]
        bytes == [i \in 1..n |-> <<"byte">>]
    IN  IF ~q.evcon \/ n = 0 \/ ~evhttp_response_needs_body(q) THEN S
        ELSE evhttp_write_buffer(
               Add([S EXCEPT !.replies[Len(S.replies)].n = @ + n],
                   IF q.chunked THEN <<<<"size", n>>>> \o bytes \o <<<<"end">>>> ELSE bytes),
               "none")

RECURSIVE evhttp_send_done(_)
evhttp_send_reply_end(S, r) ==
    IF ~S.req[r].evcon THEN evhttp_request_free(S, r)
    ELSE LET s1 == [S EXCEPT !.req[r].userdone = TRUE]
         IN  IF S.req[r].chunked
             THEN evhttp_write_buffer(Add([s1 EXCEPT !.req[r].chunked = FALSE],
                                          <<<<"size", 0>>, <<"end">>>>), "done")
             ELSE IF S.con.out = <<>> THEN evhttp_send_done(s1)
                  ELSE [s1 EXCEPT !.con.cb = "done"]

\* The user's callback for a request: it replies at once or keeps the request.
UserRequest(S, r) ==
    IF policy.reply = "now" THEN evhttp_send_reply(S, r, 200, 1)
    ELSE [S EXCEPT !.req[r].user = "has"]

\* Whether the server for the host of the URI has a callback for its path.
Serves(q, uri) ==
    LET host == evhttp_request_get_host(uri, evhttp_find_header(q.inh, "Host"))
        has(http) == evhttp_dispatch_callback(http, uri.path) \/ http.generic
    IN  has(IF host = Null THEN Site ELSE evhttp_find_vhost(Site, The(host)).http)

Answer(S, r, error) == IF error = 0 THEN UserRequest(S, r) ELSE evhttp_send_error(S, r, error)

evhttp_handle_request(S, r) ==
    LET q == S.req[r]
    IN  Answer([S EXCEPT !.req[r].userdone = FALSE, !.req[r].called = @ + 1], r,
               CASE q.type = "none" \/ q.uri = Null -> 400
                 [] q.type \in {"GET", "POST", "HEAD", "PUT", "DELETE"} /\ q.uri # Null ->
                      IF Serves(q, evhttp_uri_parse_with_flags(The(q.uri), TRUE)) THEN 0 ELSE 404
                 [] OTHER -> 501)

\* An incoming connection failed: the network, or what was read.
evhttp_connection_incoming_fail(S, r, error) ==
    IF error \in {"TIMEOUT", "EOF"}
    THEN evhttp_connection_free(
           IF S.req[r].userdone THEN S
           ELSE [S EXCEPT !.con.reqs = Tail(@), !.req[r].evcon = FALSE])
    ELSE evhttp_handle_request([S EXCEPT !.req[r].uri = Null], r)

\* The result of connecting for the next request is ignored.
Stranded(S) == [S EXCEPT !.stranded = @ \/ S.rc # 0, !.rc = 0]
Connect(S)  == Stranded(evhttp_connection_connect(S))

\* The request at the head of the queue goes, the next one needs a connection.
FailFirst(S, r) ==
    LET s1 == evhttp_connection_reset(evhttp_request_free([S EXCEPT !.con.reqs = Tail(@)], r))
    IN  IF s1.con.reqs = <<>> THEN s1 ELSE Connect(s1)

Told(S, r, error) == IF error = "CANCEL" THEN S ELSE UserDone(S, r)

evhttp_connection_fail(S, error) ==
    LET r == First(S)
    IN  IF S.con.reqs = <<>> THEN Crash(S, "fail: no request")
        ELSE IF ~Outgoing THEN evhttp_connection_incoming_fail(Disable(S, {"R", "W"}), r, error)
             ELSE Told(FailFirst(Disable(S, {"R", "W"}), r), r, error)

\* A request the user has not kept goes after its callback.
Released(S, r) == IF S.req[r].owned THEN S ELSE evhttp_request_free(S, r)

\* A bug would be to send the next request over the connection the peer closes.
DoneIgnoresClose(S) ==
    LET r  == First(S)
        s1 == [S EXCEPT !.con.reqs = Tail(@), !.req[r].evcon = FALSE, !.con.state = "IDLE"]
    IN  IF ~Outgoing THEN evhttp_handle_request([S EXCEPT !.con.state = "WRITING"], r)
        ELSE Released(UserDone(IF s1.con.reqs # <<>> THEN s1
                               ELSE evhttp_connection_start_detectclose(s1), r), r)

\* The connection that has served a request serves the next one.
NextRequest(S, need_close) ==
    CASE S.con.reqs # <<>> /\ evhttp_connected(S)  -> evhttp_request_dispatch(S)
      [] S.con.reqs # <<>> /\ ~evhttp_connected(S) -> Connect(S)
      [] OTHER -> IF need_close THEN S ELSE evhttp_connection_start_detectclose(S)

\* A response is complete, or a request is.
evhttp_connection_done(S) ==
    LET r  == First(S)
        q  == S.req[r]
        need_close == \/ evhttp_is_connection_close(q, q.inh)
                      \/ evhttp_is_connection_close(q, q.outh)
        s1 == [S EXCEPT !.con.reqs = Tail(@), !.req[r].evcon = FALSE, !.con.state = "IDLE"]
    IN  IF ~Outgoing THEN evhttp_handle_request([S EXCEPT !.con.state = "WRITING"], r)
        ELSE Released(UserDone(NextRequest(IF need_close THEN evhttp_connection_reset(s1) ELSE s1,
                                           need_close), r), r)

evhttp_error_cb(S, what) ==
    LET st == S.con.state
        q  == S.req[First(S)]
    IN  CASE st = "CONNECTING" /\ "TIMEOUT" \in what -> evhttp_connection_cb_cleanup(S)
          [] st = "BODY" /\ what = {"READING", "EOF"} /\ ~q.chunked /\ q.toread < 0
               -> evhttp_connection_done(S)
          [] OTHER ->
               IF S.con.detect
               THEN LET s1 == [S EXCEPT !.con.detect = FALSE]
                    IN  IF st = "IDLE" THEN evhttp_connection_reset(s1)
                        ELSE Crash(s1, "close detection: not idle")
               ELSE evhttp_connection_fail(S, CASE "TIMEOUT" \in what -> "TIMEOUT"
                                                [] what \cap {"EOF", "ERROR"} # {} -> "EOF"
                                                [] OTHER -> "BUFFER")

\* The bufferevent is connected, or could not connect.
evhttp_connection_cb(S, what, soerror) ==
    IF "CONNECTED" \notin what THEN evhttp_error_cb(S, what)
    ELSE IF soerror THEN evhttp_connection_cb_cleanup(S)
         ELSE evhttp_request_dispatch([S EXCEPT !.con.cnt = 0, !.con.state = "IDLE", !.con.set = "full"])

\* What the plan has next: the socket is bound and connecting, or it cannot be
\* bound, or the connect fails before it returns.
evhttp_connection_connect(S) ==
    LET next == IF S.plan = <<>> THEN "pending" ELSE Head(S.plan)
        s1   == [evhttp_connection_reset(S) EXCEPT
                   !.plan = IF @ = <<>> THEN @ ELSE Tail(@), !.rc = 0,
                   !.stale = IF S.con.retry THEN @ \cup {"retry"} ELSE @]
        s2   == Enable([s1 EXCEPT !.con.fd = TRUE, !.con.set = "connect",
                                  !.con.state = "CONNECTING"], {"W"})
    IN  IF S.con.state = "CONNECTING" THEN [S EXCEPT !.rc = 0]
        ELSE IF next = "bind" THEN [s1 EXCEPT !.rc = -1]
        ELSE IF ~policy.port
             THEN [evhttp_connection_cb_cleanup([s2 EXCEPT !.con.state = S.con.state]) EXCEPT !.rc = 0]
        ELSE IF next = "error" THEN [evhttp_connection_cb(s2, {"ERROR"}, FALSE) EXCEPT !.rc = 0]
        ELSE [s2 EXCEPT !.con.connecting = TRUE]

evhttp_connection_retry(S) ==
    Connect([S EXCEPT !.con.retry = FALSE, !.con.state = "DISCONNECTED"])

----------------------------------------------------------------------------
\* Reading.  The line at the beginning of a buffer, and what is behind it.
ReadLine(buf) ==
    LET lines == {j \in DOMAIN buf : buf[j][1] # "byte"}
        i     == IF lines = {} THEN Len(buf) + 1 ELSE Min(lines)
    IN  IF i > Len(buf) THEN [line |-> Null, rest |-> buf]
        ELSE [line |-> {IF i = 1 THEN buf[1] ELSE <<"bad">>}, rest |-> From(buf, i + 1)]

evhttp_start_read(S) ==
    LET s1 == Enable(Disable(S, {"W"}), {"R"})
    IN  [s1 EXCEPT !.con.state = "FIRSTLINE", !.con.set = "full",
                   !.con.deferred = @ \/ s1.con.in # <<>>]

evhttp_associate_new_request_with_connection(S) ==
    LET r == Min(Unused(S))
    IN  IF Unused(S) = {} THEN [S EXCEPT !.rc = -1]
        ELSE evhttp_start_read(
               [S EXCEPT !.req[r] = [NewRequest EXCEPT !.evcon = TRUE, !.userdone = TRUE,
                                                       !.kind = "REQUEST"],
                         !.con.reqs = Append(@, r), !.rc = 0])

\* A connection the listener accepted.
evhttp_get_request(S) ==
    evhttp_associate_new_request_with_connection(
      [S EXCEPT !.con = [NewCon EXCEPT !.state = "FIRSTLINE", !.fd = TRUE]])

\* A reply is written: read the next request or close.
evhttp_send_done(S) ==
    LET r  == First(S)
        q  == S.req[r]
        need_close == \/ q.minor < 1 /\ ~evhttp_is_connection_keepalive(q.inh)
                      \/ evhttp_is_connection_close(q, q.inh)
                      \/ evhttp_is_connection_close(q, q.outh)
        s1 == evhttp_request_free([S EXCEPT !.con.reqs = Tail(@)], r)
        s2 == evhttp_associate_new_request_with_connection(s1)
    IN  IF need_close THEN evhttp_connection_free(s1)
        ELSE IF s2.rc = -1 THEN [evhttp_connection_free(s1) EXCEPT !.rc = 0] ELSE s2

evhttp_parse_request_line(S, r, line) ==
    LET s1 == [S EXCEPT !.req[r].type = line[2], !.req[r].minor = line[3], !.req[r].uri = {line[4]}]
        asks(uri) == IF uri = BadUri THEN [s1 EXCEPT !.rd = "bad"]
                     ELSE [s1 EXCEPT !.rd = "all",
                             !.req[r].proxy = /\ uri.scheme # Null /\ uri.host # Null
                                              /\ ~evhttp_find_vhost(Site, The(uri.host)).found]
    IN  IF line[1] # "req" THEN [S EXCEPT !.rd = "bad"]
        ELSE asks(evhttp_uri_parse_with_flags(line[4], TRUE))

evhttp_parse_response_line(S, r, line) ==
    IF line[1] # "first" THEN [S EXCEPT !.rd = "bad"]
    ELSE [S EXCEPT !.rd = "all", !.req[r].code = line[2]]

evhttp_parse_firstline(S, r) ==
    LET l  == ReadLine(S.con.in)
        s1 == [S EXCEPT !.con.in = l.rest, !.req[r].hsize = 1]
    IN  IF l.line = Null
        THEN [S EXCEPT !.rd = IF Len(S.con.in) > MaxHeaders THEN "bad" ELSE "more"]
        ELSE IF S.req[r].kind = "REQUEST" THEN evhttp_parse_request_line(s1, r, The(l.line))
             ELSE evhttp_parse_response_line(s1, r, The(l.line))

RECURSIVE evhttp_parse_headers(_, _)
evhttp_parse_headers(S, r) ==
    LET l    == ReadLine(S.con.in)
        line == The(l.line)
        s1   == [S EXCEPT !.con.in = l.rest, !.req[r].hsize = @ + 1]
    IN  IF l.line = Null
        THEN [S EXCEPT !.rd = IF S.req[r].hsize + Len(S.con.in) > MaxHeaders THEN "bad" ELSE "more"]
        ELSE CASE s1.req[r].hsize > MaxHeaders -> [s1 EXCEPT !.rd = "bad"]
               [] OTHER ->
                    CASE line[1] = "end" -> [s1 EXCEPT !.rd = "all"]
                      [] line[1] = "hdr" ->
                           evhttp_parse_headers([s1 EXCEPT !.req[r].inh =
                                                    evhttp_add_header(@, line[2], line[3])], r)
                      [] OTHER -> [s1 EXCEPT !.rd = "bad"]

\* The length the headers give, -1 for none; or the message is refused.
evhttp_get_body_length(S, r) ==
    LET length == evhttp_find_header(S.req[r].inh, "Content-Length")
        conn   == evhttp_find_header(S.req[r].inh, "Connection")
    IN  IF length = Null
        THEN IF conn \in {Null, {"close"}}
             THEN [S EXCEPT !.req[r].toread = -1, !.rd = "all"]
             ELSE [S EXCEPT !.rd = "bad"]
        ELSE IF The(length) < 0 THEN [S EXCEPT !.rd = "bad"]
             ELSE [S EXCEPT !.req[r].toread = The(length), !.rd = "all"]

\* The callback for pieces of the body: the user may cancel the request or free
\* the connection in it, and the request goes when the callback is over.
ChunkTold(S, r) == [Touch(S, r) EXCEPT !.req[r].defer = FALSE, !.req[r].inb = 0]

ChunkCallback(S, r) ==
    LET s1 == [S EXCEPT !.req[r].defer = TRUE]
    IN  ChunkTold(CASE policy.chunk = "cancel" -> evhttp_cancel_request(s1, r)
                    [] policy.chunk = "free"   -> evhttp_connection_free(s1)
                    [] OTHER                   -> s1, r)

\* Takes n bytes of the input.
TakeBody(S, r, n) == [S EXCEPT !.con.in = From(@, n + 1), !.req[r].inb = @ + n]

RECURSIVE evhttp_handle_chunked_read(_, _)
evhttp_handle_chunked_read(S, r) ==
    LET q    == S.req[r]
        l    == ReadLine(S.con.in)
        line == The(l.line)
        s1   == [S EXCEPT !.con.in = l.rest]
        s2   == [TakeBody(S, r, q.toread) EXCEPT !.req[r].toread = -1]
        told(x) == IF x.req[r].needs THEN [x EXCEPT !.rd = "canceled"]
                   ELSE evhttp_handle_chunked_read(x, r)
    IN  CASE S.con.in = <<>> \/ (q.toread < 0 /\ l.line = Null) -> [S EXCEPT !.rd = "more"]
          [] OTHER ->
        IF q.toread < 0
        THEN IF line[1] = "end" THEN evhttp_handle_chunked_read(s1, r)
             ELSE IF \/ line[1] # "size"
                     \/ q.body + line[2] > MaxBody THEN [s1 EXCEPT !.rd = "bad"]
             ELSE IF line[2] = 0 THEN [s1 EXCEPT !.rd = "all", !.req[r].toread = 0]
             ELSE evhttp_handle_chunked_read([s1 EXCEPT !.req[r].body = @ + line[2],
                                                        !.req[r].toread = line[2]], r)
        ELSE IF Len(S.con.in) < q.toread THEN [S EXCEPT !.rd = "more"]
             ELSE IF q.chunkcb THEN told(ChunkCallback(s2, r))
                  ELSE evhttp_handle_chunked_read(s2, r)

TrailerParsed(S) ==
    CASE S.rd = "bad" -> S
      [] S.rd = "all" -> [Disable(S, {"R"}) EXCEPT !.rd = "done"]
      [] OTHER        -> Enable(S, {"R"})

evhttp_read_trailer(S, r) == TrailerParsed(evhttp_parse_headers(S, r))

\* What is left to do with a body that has been moved to the request.
BodyTold(S, r) ==
    IF S.req[r].needs THEN evhttp_request_free(S, r)
    ELSE IF S.req[r].toread = 0 THEN [Disable(S, {"R"}) EXCEPT !.rd = "done"]
         ELSE Enable(S, {"R"})

FinishBody(S, r) ==
    LET q == S.req[r]
    IN  IF q.body > MaxBody \/ (~q.chunked /\ q.toread > MaxBody)
        THEN [S EXCEPT !.rd = "bad"]
        ELSE BodyTold(IF q.inb > 0 /\ q.chunkcb THEN ChunkCallback(S, r) ELSE S, r)

BodyMoved(S, r) ==
    CASE S.rd = "all"      -> evhttp_read_trailer([S EXCEPT !.con.state = "TRAILER"], r)
      [] S.rd = "bad"      -> S
      [] S.rd = "canceled" -> evhttp_request_free(S, r)
      [] OTHER             -> FinishBody(S, r)

evhttp_read_body(S, r) ==
    LET q  == S.req[r]
        n  == IF q.toread >= 0 THEN Min({q.toread, Len(S.con.in)}) ELSE Len(S.con.in)
        s2 == [TakeBody(S, r, n) EXCEPT !.req[r].body = @ + n,
                                        !.req[r].toread = IF @ >= 0 THEN @ - n ELSE @]
        moves == q.toread < 0 \/ q.chunkcb \/ Len(S.con.in) >= q.toread
    IN  BodyMoved(IF q.chunked THEN evhttp_handle_chunked_read(S, r)
                  ELSE [IF moves THEN s2 ELSE S EXCEPT !.rd = "more"], r)

\* "HTTP/1.1 100 Continue", while the body is still being read.
evhttp_send_continue(S) ==
    [Add(Enable(S, {"W"}), <<<<"first", 100>>, <<"end">>>>)
        EXCEPT !.con.cb = "continue", !.con.set = "full"]

\* The length of the body is known: it is read unless the request has none, or
\* expects what it cannot get.
LengthParsed(S, r) ==
    LET q      == S.req[r]
        asks   == q.kind = "REQUEST"
        expect == IF asks /\ q.minor >= 1 THEN evhttp_find_header(q.inh, "Expect") ELSE Null
    IN  IF S.rd = "bad" THEN S
        ELSE IF asks /\ ~q.chunked /\ q.toread < 1 THEN [S EXCEPT !.rd = "done"]
        ELSE IF expect \notin {Null, {"100-continue"}} THEN [S EXCEPT !.rd = "unexpected"]
        ELSE IF expect # Null /\ q.toread > MaxBody THEN [S EXCEPT !.rd = "too large"]
        ELSE evhttp_read_body(IF expect # Null /\ S.con.in = <<>> THEN evhttp_send_continue(S) ELSE S, r)

evhttp_get_body(S, r) ==
    LET q     == S.req[r]
        s1    == [S EXCEPT !.con.state = "BODY"]
        coded == evhttp_find_header(q.inh, "Transfer-Encoding") = {"chunked"}
    IN  IF q.kind = "REQUEST" /\ ~evhttp_method_may_have_body(q.type) THEN [S EXCEPT !.rd = "done"]
        ELSE LengthParsed(IF coded THEN [s1 EXCEPT !.req[r].chunked = TRUE, !.req[r].toread = -1, !.rd = "all"]
                          ELSE evhttp_get_body_length(s1, r), r)

HeadersParsed(S, r) ==
    LET q  == S.req[r]
        s1 == Disable(S, {"R"})
    IN  IF S.rd # "all" THEN S
        ELSE IF q.kind = "REQUEST" \/ (q.code # 100 /\ evhttp_response_needs_body(q))
        THEN evhttp_get_body(s1, r)
        ELSE IF q.code = 100 THEN evhttp_start_read(s1) ELSE [s1 EXCEPT !.rd = "done"]

evhttp_read_header(S, r) == HeadersParsed(evhttp_parse_headers(S, r), r)

FirstlineParsed(S, r) ==
    IF S.rd # "all" THEN S ELSE evhttp_read_header([S EXCEPT !.con.state = "HEADERS"], r)

evhttp_read_firstline(S, r) == FirstlineParsed(evhttp_parse_firstline(S, r), r)

\* The last call of a reading handler: the message is refused, complete, or
\* answered before its body is read.
ReadOver(S, r) ==
    CASE S.rd = "bad"        -> evhttp_connection_fail(S, "INVALID")
      [] S.rd = "done"       -> evhttp_connection_done(S)
      [] S.rd = "unexpected" -> evhttp_send_error(S, r, 417)
      [] S.rd = "too large"  -> evhttp_send_error(S, r, 413)
      [] OTHER               -> S

evhttp_read_cb(S) ==
    LET s1 == [S EXCEPT !.con.deferred = FALSE]
        r  == First(S)
    IN  CASE S.con.state \in Reading ->
               ReadOver(CASE S.con.state = "FIRSTLINE" -> evhttp_read_firstline(s1, r)
                          [] S.con.state = "HEADERS"   -> evhttp_read_header(s1, r)
                          [] S.con.state = "BODY"      -> evhttp_read_body(s1, r)
                          [] OTHER                     -> evhttp_read_trailer(s1, r), r)
          [] S.con.state = "IDLE"      -> evhttp_connection_reset(s1)
          [] OTHER                     -> Crash(s1, "illegal connection state")

\* The output is written: the request, a reply, or "100 Continue".
evhttp_write_connectioncb(S) ==
    IF S.con.state # "WRITING" \/ S.con.reqs = <<>> THEN Crash(S, "written: not writing")
    ELSE evhttp_start_read([S EXCEPT !.req[First(S)].kind = "RESPONSE"])

evhttp_write_cb(S) ==
    CASE S.con.cb = "connection" -> evhttp_write_connectioncb(S)
      [] S.con.cb = "done"       -> evhttp_send_done(S)
      [] S.con.cb = "continue"   -> Disable(S, {"W"})
      [] OTHER                   -> S

----------------------------------------------------------------------------
\* The steps: the user, the peer and the loop.
Become(S) == /\ world' = [S EXCEPT !.rd = "more", !.stale = @ \cup Leftover(S)]
             /\ UNCHANGED <<side, policy, text>>

Running(s) == side = s /\ world.failed = {}
Fault == /\ faults < MaxFaults
         /\ faults' = faults + 1
Stable == UNCHANGED faults

Init == /\ side \in {"client", "server", "text"}
        /\ policy \in Policies[side]
        /\ world = IF side = "server" THEN evhttp_get_request(NewWorld(<<>>))
                   ELSE NewWorld(policy.plan)
        /\ faults = 0
        /\ text = <<>>

MakeRequest ==
    LET r == Min(Unused(world))
    IN  /\ Running("client") /\ world.con.live /\ Unused(world) # {} /\ Stable
        /\ \E type \in {"POST", "HEAD"} :
              Become(evhttp_make_request(
                [world EXCEPT !.req[r] = [NewRequest EXCEPT !.chunkcb = policy.chunkcb]], r, type))

CancelRequest ==
    /\ Running("client") /\ world.con.live /\ Stable
    /\ \E r \in ToSet(world.con.reqs) : Become(evhttp_cancel_request(world, r))

\* The user frees a client's connection, or a server on which it serves nothing.
ConnectionFree ==
    /\ side \in {"client", "server"} /\ world.failed = {} /\ world.con.live /\ Stable
    /\ \A r \in Requests : world.req[r].user = "no"
    /\ Become(evhttp_connection_free(world))

RetryTimer ==
    /\ Running("client") /\ world.con.retry /\ Stable
    /\ Become(evhttp_connection_retry(world))

evhttp_deferred_read_cb ==
    /\ side # "text" /\ world.failed = {} /\ world.con.deferred /\ Stable
    /\ Become(evhttp_read_cb(world))

PeerSends ==
    /\ side # "text" /\ world.failed = {} /\ Stable
    /\ world.con.fd /\ ~world.con.connecting /\ ~world.eof
    /\ world.wire = <<>> /\ world.messages < MaxMessages
    /\ \E m \in PeerMessages[side] :
          Become([world EXCEPT !.wire = m, !.messages = @ + 1])

PeerCloses ==
    /\ side # "text" /\ world.failed = {} /\ Stable
    /\ world.con.fd /\ ~world.con.connecting /\ ~world.eof
    /\ Become([world EXCEPT !.eof = TRUE])

\* bufferevent_readcb: bytes, the end of the stream, an error or a timeout.
ReadReady ==
    /\ side # "text" /\ world.failed = {} /\ Stable
    /\ "R" \in world.con.en /\ world.wire # <<>>
    /\ \E n \in {1, Len(world.wire)} :
          LET s1 == [world EXCEPT !.con.in = @ \o To(world.wire, n),
                                  !.wire = From(@, n + 1)]
          IN  Become(IF s1.con.set = "full" THEN evhttp_read_cb(s1) ELSE s1)

ReadEnds ==
    /\ side # "text" /\ world.failed = {} /\ Stable
    /\ "R" \in world.con.en /\ world.wire = <<>> /\ world.eof
    /\ Become(evhttp_error_cb(Disable(world, {"R"}), {"READING", "EOF"}))

ReadFault ==
    /\ side # "text" /\ world.failed = {} /\ Fault
    /\ "R" \in world.con.en
    /\ \E what \in {"ERROR", "TIMEOUT"} :
          Become(evhttp_error_cb(Disable(world, {"R"}), {"READING", what}))

\* The output goes to the socket, and the callback runs when all of it has.
Written(S) ==
    LET s1 == [S EXCEPT !.con.wev = FALSE, !.con.out = <<>>,
                        !.sent = IF Outgoing THEN @ ELSE @ \o S.con.out]
    IN  IF S.con.set = "connect" THEN s1 ELSE evhttp_write_cb(s1)

WriteReady ==
    /\ side # "text" /\ world.failed = {} /\ Stable
    /\ world.con.wev /\ ~world.con.connecting
    /\ Become(Written(world))

WriteFault ==
    /\ side # "text" /\ world.failed = {} /\ Fault
    /\ world.con.wev /\ ~world.con.connecting
    /\ \E what \in (IF world.con.out = <<>> THEN {"TIMEOUT"} ELSE {"ERROR", "TIMEOUT"}) :
          LET s1 == Disable(world, {"W"})
          IN  Become(IF s1.con.set = "connect"
                     THEN evhttp_connection_cb(s1, {"WRITING", what}, FALSE)
                     ELSE evhttp_error_cb(s1, {"WRITING", what}))

\* The connect is over; the same handler then writes the request, or finds the
\* socket full.
ConnectDone ==
    /\ Running("client") /\ world.con.connecting /\ Stable
    /\ \E s1 \in {evhttp_connection_cb([world EXCEPT !.con.connecting = FALSE], {"CONNECTED"}, FALSE)} :
           \/ Become(IF s1.con.out = <<>> THEN [s1 EXCEPT !.con.wev = FALSE] ELSE s1)
           \/ s1.con.out # <<>> /\ Become(Written(s1))

ConnectFails ==
    /\ Running("client") /\ world.con.connecting /\ Fault
    /\ \E what \in {"ERROR", "CONNECTED"} :
          Become(evhttp_connection_cb([world EXCEPT !.con.connecting = FALSE, !.con.wev = FALSE],
                                      {what}, what = "CONNECTED"))

\* A bufferevent that is connecting goes on connecting when its timeout is over.
ConnectTimesOut ==
    /\ Running("client") /\ world.con.connecting /\ Fault
    /\ Become(evhttp_connection_cb(Disable(world, {"W"}), {"WRITING", "TIMEOUT"}, FALSE))

\* The user of a server replies to a request it has kept.
UserReplies ==
    /\ Running("server") /\ Stable
    /\ \E r \in Requests :
          /\ world.req[r].user = "has"
          /\ LET s1 == [world EXCEPT !.req[r].user = "no"]
             IN  \/ \E code \in {200, 204}, n \in 0..1 : Become(evhttp_send_reply(s1, r, code, n))
                 \/ Become(evhttp_send_error(s1, r, 500))

UserStreams ==
    /\ Running("server") /\ Stable
    /\ \E r \in Requests :
          \/ /\ world.req[r].user = "has"
             /\ Become(evhttp_send_reply_start([world EXCEPT !.req[r].user = "started"], r, 200))
          \/ /\ world.req[r].user = "started"
             /\ \/ world.replies[Len(world.replies)].n < MaxChunks
                   /\ Become(evhttp_send_reply_chunk(world, r, 1))
                \/ Become(evhttp_send_reply_end([world EXCEPT !.req[r].user = "no"], r))

Type == /\ side = "text" /\ Stable
        /\ Len(text) < MaxWords
        /\ \E w \in Words : text' = Append(text, w)
        /\ UNCHANGED <<side, policy, world>>

Next == \/ MakeRequest \/ CancelRequest \/ ConnectionFree \/ RetryTimer
        \/ evhttp_deferred_read_cb \/ PeerSends \/ PeerCloses
        \/ ReadReady \/ ReadEnds \/ ReadFault \/ WriteReady \/ WriteFault
        \/ ConnectDone \/ ConnectFails \/ ConnectTimesOut
        \/ UserReplies \/ UserStreams \/ Type

Spec == Init /\ [][Next]_vars

----------------------------------------------------------------------------
\* The failures that only a leftover of the connection brings about.
Consequences(c) ==
    CASE c = "retry"    -> {"assign: pending", "fail: no request"}
      [] c = "detect"   -> {"close detection: not idle"}
      [] c = "deferred" -> {"illegal connection state"}

\* A request is called back at most once, is on the queue only while it is
\* alive and has not been called back, is never read after it was freed (by a
\* callback that cancels it, frees the connection or makes another request),
\* and stays alive while the user of a server works on it.  It is sent at most
\* once unless a retry was left over, and no assertion fails but one that a
\* leftover of the connection brings about, or a reply that is started when the
\* connection is gone (evhttp_send_reply_start reads through a null pointer).
RequestsOnce ==
    /\ world.failed \subseteq {"start: no connection"} \cup UNION {Consequences(c) : c \in world.stale}
    /\ IsInjective(world.con.reqs)
    /\ \A r \in Requests :
          LET q == world.req[r]
          IN  /\ q.called <= 1
              /\ "retry" \notin world.stale => q.sends <= 1
              /\ r \in ToSet(world.con.reqs) => q.mem = "live" /\ ~q.needs
              /\ Outgoing /\ r \in ToSet(world.con.reqs) => q.called = 0
              /\ q.user # "no" => q.mem = "live"
              /\ ~world.con.live /\ q.mem = "live" =>
                    q.owned \/ q.user # "no" \/ ~(r \in ToSet(world.con.reqs))

\* What the asserts and event_errx of http.c say of the program: none of them
\* fails.  The code does not keep this; RequestsOnce says when.
NothingFails == world.failed = {}

\* A request goes out once: a retry that fires on a connection that has been
\* made meanwhile sends it again.
SentOnce == \A r \in Requests : world.req[r].sends <= 1

\* While requests wait on a connection something will move them: a connect or a
\* retry that is under way, output to write, input to read.  (When a socket
\* cannot be bound for the next request, evhttp_connection_fail and
\* evhttp_connection_done ignore it and the requests are stranded.)
NothingStalls ==
    side # "text" /\ world.con.live /\ world.con.reqs # <<>> /\ world.failed = {} /\ ~world.stranded =>
      LET c == world.con
      IN  \/ c.retry \/ c.deferred
          \/ c.state = "CONNECTING" /\ c.connecting
          \/ c.wev
          \/ c.state \in Reading /\ "R" \in c.en
          \/ world.req[First(world)].user # "no"

\* Whether the tokens are the replies: every body ends where the headers say,
\* the bytes behind a header that announces no body are the ones the reply was
\* given, and nothing follows a reply that closes the connection.
RECURSIVE Framed(_, _)
Framed(tokens, replies) ==
    LET end     == Min({i \in DOMAIN tokens : tokens[i][1] = "end"})
        headers == [i \in 1..(end - 2) |-> <<tokens[i + 1][2], tokens[i + 1][3]>>]
        rest    == From(tokens, end + 1)
        reply   == Head(replies)
        n       == reply.n
        length  == evhttp_find_header(headers, "Content-Length")
        coding  == evhttp_find_header(headers, "Transfer-Encoding")
        bytes(k) == Len(rest) >= k /\ \A i \in 1..k : rest[i][1] = "byte"
        next(k)  == Framed(From(rest, k + 1), Tail(replies))
    IN  IF tokens = <<>> THEN replies = <<>>
        ELSE IF tokens[1] = <<"first", 100>> THEN Framed(rest, replies)
        ELSE /\ replies # <<>>
             /\ tokens[1] = <<"first", reply.code>>
             /\ evhttp_find_header(headers, "Connection") = {"close"} => Len(replies) = 1
             /\ \/ reply.odd
                \/ reply.head /\ length = Null /\ coding = Null /\ bytes(n) /\ next(n)
                \/ ~reply.head /\ length = {n} /\ bytes(n) /\ next(n)
                \/ /\ ~reply.head /\ length = Null /\ coding = {"chunked"}
                   /\ Len(rest) >= 3 * n + 2
                   /\ \A i \in 0..(n - 1) : /\ rest[3 * i + 1] = <<"size", 1>>
                                            /\ rest[3 * i + 2] = <<"byte">>
                                            /\ rest[3 * i + 3] = <<"end">>
                   /\ rest[3 * n + 1] = <<"size", 0>>
                   /\ next(3 * n + 2)
                \/ /\ ~reply.head /\ length = Null /\ coding = Null
                   /\ Len(replies) = 1 /\ Len(rest) = n /\ bytes(n)

\* What a server writes is what its headers announce: the lengths, chunks and
\* closes are the ones of the replies its user gave, reply after reply on a
\* persistent connection, with "100 Continue" in between, streamed or whole.
\* Behind the header of a reply that must have no body come the bytes it was
\* given all the same, see NoBodyAfterHead.  (A reply streamed to a HTTP/1.0
\* client that asked to keep the connection is announced as empty and is left
\* out here.)
ReplyFramed ==
    side = "server" /\ faults = 0 /\ (\A r \in Requests : world.req[r].user # "started") =>
      Framed(world.sent \o world.con.out, world.replies)

\* "the response MUST NOT have a body" of evhttp_response_needs_body: the code
\* writes the body of an error to HEAD, and any body the user gives to HEAD, 204
\* or 304.  On a persistent connection a client reads it as the next reply.
NoBodyAfterHead == \A i \in DOMAIN world.replies : world.replies[i].head => world.replies[i].n = 0

Text == FlattenSeq(text)

\* Text survives its conversions.  A URI that was parsed and joined is parsed
\* again to the same parts, and what the setters put into it is what a parser
\* finds; decoding undoes encoding, with and without a plus for a blank; a query
\* of an encoded key and value is read as them; escaped text has no tag in it.
TextRoundTrip ==
    side = "text" =>
      /\ \A strict \in BOOLEAN :
           LET u == evhttp_uri_parse_with_flags(Text, ~strict)
               v == evhttp_uri_set_fragment(evhttp_uri_set_query(evhttp_uri_set_path(
                      evhttp_uri_set_port(evhttp_uri_set_host(evhttp_uri_set_userinfo(
                        evhttp_uri_set_scheme(NoUri, u.scheme), u.userinfo), u.host), u.port),
                      u.path), u.query), u.fragment)
               j == evhttp_uri_join(u, Len(Text) + 1)
           IN  u # BadUri => /\ j # Null /\ evhttp_uri_parse_with_flags(The(j), ~strict) = u
                             /\ strict => v = u
      /\ \A plus \in BOOLEAN : evhttp_uridecode(evhttp_uriencode(Text, plus), plus) = Text
      /\ LET e == evhttp_uriencode(Text, TRUE)
         IN  evhttp_parse_query_impl(<<"a", "=">> \o e \o <<"&", "b", "=">>, FALSE)
               = <<<<<<"a">>, Text>>, <<<<"b">>, <<>>>>>>
      /\ "<" \notin ToSet(evhttp_htmlescape(Text))
=============================================================================
