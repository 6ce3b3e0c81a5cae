----------------------------- MODULE EvdnsServer -----------------------------
(* The server side of evdns.c and the packets both sides exchange: names    *)
(* with compression, queries, responses cut at 512 bytes, the references of *)
(* a port, and the replies that wait for its socket.                        *)
(*                                                                          *)
(* A packet p has a length in bytes, p.len, and at some offsets a cell:     *)
(* p.at[j] is a label, the end of a name, a pointer to an offset, a number  *)
(* or the addresses of a record. A cell has its width w. A name is a        *)
(* sequence of labels. Offsets, and so the pointers, count bytes.           *)
EXTENDS Integers, FiniteSets, Sequences, SequencesExt

CONSTANTS BufLen,       \* the buffer of format_response, 1500 bytes
          UdpMax,       \* the longest response, 512 bytes
          MAX_LABELS,   \* the entries of a dnslabel_table
          MAX_ADDRS,    \* MAX_V4_ADDRS and MAX_V6_ADDRS
          LabelLen,     \* the length of each label
          Queries,      \* the questions of clients: [name, type]
          Items,        \* what the user may add to a response
          ReqIds,       \* the requests there is room for
          MaxItems,     \* bound on the items of the responses at a time
          MaxQueries    \* bound on the queries

ASSUME SizeAssumption == UdpMax <= BufLen /\ MAX_LABELS > 0

VARIABLES port, req, last, queries
vars == <<port, req, last, queries>>

-----------------------------------------------------------------------------
(* Packets.                                                                 *)

Empty == [len |-> 0, at |-> <<>>]
Put(p, w, cell) ==
    [len |-> p.len + w,
     at |-> [j \in DOMAIN p.at \cup {p.len} |-> IF j = p.len THEN [w |-> w, c |-> cell] ELSE p.at[j]]]
PutNum(p, w, v) == Put(p, w, <<"num", v>>)
PutNums(p, w, vs) == FoldLeft(LAMBDA x, v : PutNum(x, w, v), p, vs)
Fits(p, w) == p.len + w <= BufLen

(* dnslabel_table_get_pos, -1 for a name that was not used; _add forgets    *)
(* what does not fit.                                                       *)
dnslabel_table_get_pos(table, name) ==
    LET found == {i \in 1..Len(table) : table[i].name = name}
    IN  IF found = {} THEN -1 ELSE table[CHOOSE i \in found : \A k \in found : i <= k].pos
dnslabel_table_add(table, name, pos) ==
    IF Len(table) = MAX_LABELS THEN table ELSE Append(table, [name |-> name, pos |-> pos])

(* dnsname_to_labels: each label, or a pointer to where the rest of the     *)
(* name was written before. A name whose last label is empty ended in a     *)
(* dot. s = [p, table, ok, done]. Mutated: the position after the length    *)
(* of the label is remembered.                                              *)
LabelsShifted(s, name, i) ==
    LET rest == SubSeq(name, i, Len(name))
        ref == dnslabel_table_get_pos(s.table, rest)
        w == 1 + LabelLen[name[i]]
    IN  IF ~s.ok \/ s.done THEN s
        ELSE IF ref >= 0 THEN [s EXCEPT !.p = Put(@, 2, <<"ptr", ref>>), !.done = TRUE]
        ELSE [s EXCEPT !.table = dnslabel_table_add(@, rest, s.p.len + 1),
                       !.p = Put(@, w, <<"label", name[i]>>)]
AddLabel(s, name, i) ==
    LET rest == SubSeq(name, i, Len(name))
        ref == dnslabel_table_get_pos(s.table, rest)
        w == 1 + LabelLen[name[i]]
        empty == LabelLen[name[i]] = 0
    IN  IF ~s.ok \/ s.done THEN s
        ELSE IF ref >= 0
        THEN IF Fits(s.p, 2) THEN [s EXCEPT !.p = Put(@, 2, <<"ptr", ref>>), !.done = TRUE]
             ELSE [s EXCEPT !.ok = FALSE]
        ELSE IF LabelLen[name[i]] > 63 \/ ~Fits(s.p, w) THEN [s EXCEPT !.ok = FALSE]
        ELSE [s EXCEPT !.table = dnslabel_table_add(@, rest, s.p.len), !.done = empty,
                       !.p = Put(@, w, IF empty THEN <<"end", 0>> ELSE <<"label", name[i]>>)]
(* The zero at the end is written without a look at the room: past says so. *)
dnsname_to_labels(s, name) ==
    LET t == FoldLeft(LAMBDA x, i : AddLabel(x, name, i), [s EXCEPT !.done = FALSE],
                      [i \in 1..Len(name) |-> i])
    IN  IF ~t.ok \/ t.done THEN t
        ELSE [t EXCEPT !.p = Put(@, 1, <<"end", 0>>), !.past = @ \/ ~Fits(t.p, 1)]
Writer == [p |-> Empty, table |-> <<>>, ok |-> TRUE, done |-> FALSE, past |-> FALSE]

(* name_parse: [ok, name, next]; jumps counts the pointers that were        *)
(* followed, as many as the packet is long.                                 *)
NoName == [ok |-> FALSE, name |-> <<>>, next |-> 0]
RECURSIVE NameFrom(_, _, _)
NameFrom(p, j, jumps) ==
    IF j \notin DOMAIN p.at \/ jumps > p.len THEN NoName
    ELSE LET c == p.at[j].c
             after == j + p.at[j].w
         IN  CASE c[1] = "end" -> [ok |-> TRUE, name |-> <<>>, next |-> after]
               [] c[1] = "ptr" -> [NameFrom(p, c[2], jumps + 1) EXCEPT !.next = after]
               [] c[1] = "label" ->
                    LET r == NameFrom(p, after, jumps)
                    IN  IF r.ok THEN [r EXCEPT !.name = <<c[2]>> \o @] ELSE r
               [] OTHER -> NoName
name_parse(p, j) == NameFrom(p, j, 0)
(* A trailing dot is not kept. *)
Plain(name) == SelectSeq(name, LAMBDA l : LabelLen[l] > 0)

IsNum(p, j) == j \in DOMAIN p.at /\ p.at[j].c[1] = "num"
Num(p, j) == p.at[j].c[2]

(* evdns_request_data_build *)
evdns_request_data_build(id, q) ==
    LET t == dnsname_to_labels([Writer EXCEPT !.p = PutNums(Empty, 2, <<id, "query", 1, 0, 0, 0>>),
                                              !.table = <<>>], q.name)
    IN  PutNums(t.p, 2, <<q.type, "inet">>)

(* request_parse: the question of a query, if it can be read. Nothing moves *)
(* the table of the query into the response.                                *)
request_parse(p) ==
    LET r == name_parse(p, 12)
        asks == IsNum(p, 2) /\ Num(p, 2) = "query"
    IN  IF asks /\ r.ok /\ IsNum(p, r.next)
        THEN [ok |-> TRUE, id |-> Num(p, 0), name |-> r.name, type |-> Num(p, r.next)]
        ELSE [ok |-> FALSE, id |-> 0, name |-> <<>>, type |-> ""]

-----------------------------------------------------------------------------
(* evdns_server_request_format_response.                                    *)

(* One item: its name, type, class and ttl, and a name or addresses.        *)
DataLen(item) == (IF item.type = "AAAA" THEN 16 ELSE 4) * Len(item.addrs)
PutItem(s, item) ==
    LET t == dnsname_to_labels(s, item.name)
        Fixed(x) == PutNum(PutNums(x, 2, <<item.type, "inet">>), 4, item.ttl)
        n == [t EXCEPT !.p = PutNum(Fixed(@), 2, 0)]
        d == dnsname_to_labels(n, item.data)
        LenAt == n.p.len - 2
        Full(x) == [s EXCEPT !.ok = FALSE, !.past = x.past]
    IN  IF ~s.ok THEN s
        ELSE IF ~t.ok \/ ~Fits(t.p, 8) THEN Full(t)
        ELSE IF item.isName
        THEN IF ~d.ok THEN Full(d)
             ELSE [d EXCEPT !.p.at[LenAt].c[2] = d.p.len - n.p.len]
        ELSE IF ~Fits(t.p, 10 + DataLen(item)) THEN Full(t)
        ELSE [n EXCEPT !.p = Put([@ EXCEPT !.at[LenAt].c[2] = DataLen(item)],
                                 DataLen(item), <<"addrs", item.addrs>>)]

(* Cut at UdpMax: the cells that end beyond are gone.                       *)
CutTo(p, max) ==
    [len |-> max, at |-> [j \in {k \in DOMAIN p.at : k + p.at[k].w <= max} |-> p.at[j]]]
Truncated(p) == [CutTo(p, UdpMax) EXCEPT !.at[2].c[2] = [@ EXCEPT !.tc = TRUE]]

(* [ok, p, past]: a question whose name does not fit is an error; anything  *)
(* else that does not fit cuts the response.                                *)
Append16(s, v) ==
    IF s.ok /\ Fits(s.p, 2) THEN [s EXCEPT !.p = PutNum(@, 2, v)] ELSE [s EXCEPT !.ok = FALSE]
format_response(r, err) ==
    LET flags == [tc |-> FALSE, err |-> err]
        header == PutNums(Empty, 2, <<r.id, flags, 1, Len(r.answer), Len(r.authority), 0>>)
        q == dnsname_to_labels([Writer EXCEPT !.p = header], r.name)
        asked == Append16(Append16(q, r.type), "inet")
        packet(all) == [ok |-> TRUE, past |-> all.past,
                        p |-> IF ~all.ok \/ all.p.len > UdpMax THEN Truncated(all.p) ELSE all.p]
    IN  IF ~q.ok THEN [ok |-> FALSE, p |-> Empty, past |-> q.past]
        ELSE packet(FoldLeft(PutItem, asked, r.answer \o r.authority))

-----------------------------------------------------------------------------
(* reply_parse, on the other side.                                          *)

NoAnswer == [addrs |-> <<>>, names |-> <<>>, ttl |-> -1, have |-> FALSE]
MinTtl(a, b) == IF a = -1 \/ b < a THEN b ELSE a

(* One record at s.j; s.full once nothing more is wanted.                   *)
ParseRecord(p, type, s) ==
    LET n == name_parse(p, s.j)
        f == n.next
        readable == n.ok /\ \A k \in {f, f + 2, f + 4, f + 8} : IsNum(p, k)
        data == f + 10
        width == Num(p, f + 8)
        mine == Num(p, f) = type
        ttl == MinTtl(s.a.ttl, Num(p, f + 4))
        room == MAX_ADDRS - Len(s.a.addrs)
        target == name_parse(p, data)
        addrs == p.at[data].c[2]
        copied == SubSeq(addrs, 1, IF Len(addrs) < room THEN Len(addrs) ELSE room)
        got == s.a.addrs \o copied
    IN  IF ~s.ok \/ s.full THEN s
        ELSE IF ~readable THEN [s EXCEPT !.ok = FALSE]
        ELSE IF ~mine THEN [s EXCEPT !.j = data + width]
        ELSE IF type = "PTR"
        THEN IF ~target.ok THEN [s EXCEPT !.ok = FALSE]
             ELSE [s EXCEPT !.a = [@ EXCEPT !.names = <<target.name>>, !.have = TRUE, !.ttl = ttl],
                            !.full = TRUE, !.j = target.next]
        ELSE IF width = 0
        THEN [s EXCEPT !.a = [@ EXCEPT !.have = TRUE, !.ttl = ttl], !.full = room = 0, !.j = data]
        ELSE IF data \notin DOMAIN p.at THEN [s EXCEPT !.ok = FALSE]
        ELSE [s EXCEPT !.a = [@ EXCEPT !.addrs = got, !.have = TRUE, !.ttl = ttl],
                       !.full = Len(got) = MAX_ADDRS, !.j = data + width]

(* What reply_handle makes of the packet: an error, or the addresses and    *)
(* names. The code of the server counts before what could not be parsed.    *)
reply_parse(p, ask) ==
    LET flags == Num(p, 2)
        q == name_parse(p, 12)
        n == Num(p, 6)
        start == [ok |-> TRUE, full |-> FALSE, a |-> NoAnswer, j |-> q.next + 4]
        s == FoldLeft(LAMBDA x, i : ParseRecord(p, ask.type, x), start, [i \in 1..n |-> i])
    IN  IF flags.tc THEN [error |-> "truncated", a |-> NoAnswer]
        ELSE IF flags.err \notin {0, 3} THEN [error |-> "server", a |-> NoAnswer]
        ELSE IF flags.err = 3 THEN [error |-> "notexist", a |-> NoAnswer]
        ELSE IF ~q.ok \/ q.name # Plain(ask.name) \/ ~s.ok THEN [error |-> "unknown", a |-> NoAnswer]
        ELSE IF ~s.a.have THEN [error |-> "nodata", a |-> NoAnswer]
        ELSE [error |-> "none", a |-> s.a]

-----------------------------------------------------------------------------
(* Ports and requests. A step's functions map s = [port, req, last]; last   *)
(* is the response sent by the step, if any.                                *)

NoRequest == [st |-> "none", id |-> 0, name |-> <<>>, ask |-> <<>>, type |-> "", answer |-> <<>>,
              authority |-> <<>>, err |-> -1, response |-> Empty]
Nothing == [sent |-> FALSE, p |-> Empty, r |-> NoRequest]
S == [port |-> port, req |-> req, last |-> Nothing]

(* evdns_add_server_port_with_base *)
Init ==
    /\ port = [refcnt |-> 1, closing |-> FALSE, open |-> TRUE, ev |-> {"R"}, pend |-> <<>>,
               freed |-> FALSE, stale |-> FALSE, past |-> FALSE,
               bad |-> FALSE]
    /\ req = [r \in ReqIds |-> NoRequest]
    /\ last = Nothing
    /\ queries = 0

(* server_port_free, reached with the last reference.                       *)
server_port_free(s) ==
    [s EXCEPT !.port = [@ EXCEPT !.freed = TRUE, !.ev = {}, !.bad = @ \/ s.port.pend # <<>>]]
(* server_request_free. Mutated: the reply stays in the list.               *)
FreeLeavesReply(s, r) ==
    LET t == [s EXCEPT !.port.refcnt = @ - 1, !.req[r] = NoRequest]
    IN  IF t.port.refcnt = 0 THEN server_port_free(t) ELSE t
server_request_free(s, r) ==
    LET t == [s EXCEPT !.port.pend = SelectSeq(@, LAMBDA x : x # r), !.port.refcnt = @ - 1,
                       !.req[r] = NoRequest]
    IN  IF t.port.refcnt = 0 THEN server_port_free(t) ELSE t

Deliver(s, r) == [s EXCEPT !.last = [sent |-> TRUE, p |-> s.req[r].response, r |-> s.req[r]]]
(* server_port_flush: n replies are sent, or dropped by an error, before    *)
(* the socket is full.                                                      *)
server_port_flush(s, n, lost) ==
    LET One(x, i) ==
            IF x.port.freed \/ x.port.pend = <<>> THEN x
            ELSE server_request_free(IF lost THEN x ELSE Deliver(x, Head(x.port.pend)),
                                     Head(x.port.pend))
        t == FoldLeft(One, s, [i \in 1..n |-> i])
    IN  IF t.port.freed \/ t.port.pend # <<>> THEN t ELSE [t EXCEPT !.port.ev = {"R"}]
(* The lock of the port is released after the port is gone.                 *)
Unlock(s) == IF s.port.freed THEN [s EXCEPT !.port.stale = TRUE] ELSE s

(* evdns_server_request_respond: net is what sendto does. A full socket     *)
(* leaves the request with the user, who may respond again; another error   *)
(* queues it.                                                               *)
Formatted(s, r, err, f) ==
    [s EXCEPT !.req[r].response = f.p, !.req[r].err = err, !.port.past = @ \/ f.past]
Queued(s, r) ==
    [s EXCEPT !.req[r].st = "pending", !.port.pend = Append(@, r),
              !.port.ev = IF s.port.pend # <<>> THEN @
                          ELSE {"W"} \cup (IF s.port.closing THEN {} ELSE {"R"})]
FlushRest(s, n) ==
    Unlock(IF s.port.freed \/ s.port.pend = <<>> THEN s ELSE server_port_flush(s, n, FALSE))
Transmit(s, r, net, n) ==
    CASE net = "again" -> s
      [] net = "error" -> Queued(s, r)
      [] OTHER -> FlushRest(server_request_free(Deliver(s, r), r), n)
respond(s, r, err, net, n) ==
    LET first(f) == IF f.ok THEN Transmit(Formatted(s, r, err, f), r, net, n) ELSE s
    IN  IF s.req[r].err # -1 THEN Transmit(s, r, net, n)
        ELSE first(format_response(s.req[r], err))

Do(s) == port' = s.port /\ req' = s.req /\ last' = s.last /\ UNCHANGED queries

(* server_port_ready_callback, the socket readable: server_port_read.       *)
server_port_read(q, r) ==
    LET got == request_parse(evdns_request_data_build(queries + 1, q))
    IN  /\ "R" \in port.ev /\ queries < MaxQueries
        /\ req[r].st = "none" /\ \A x \in ReqIds : req[x].st = "none" => r <= x
        /\ got.ok
        /\ req' = [req EXCEPT ![r] = [NoRequest EXCEPT !.st = "user", !.id = got.id, !.ask = q.name,
                                                       !.name = got.name, !.type = got.type]]
        /\ port' = [port EXCEPT !.refcnt = @ + 1]
        /\ queries' = queries + 1
        /\ last' = Nothing
(* ... and the socket writable.                                             *)
ReadyToWrite(n, lost) ==
    /\ "W" \in port.ev /\ n <= Len(port.pend)
    /\ Do(Unlock(server_port_flush(S, n, lost)))

(* evdns_server_request_add_reply: not once there is a response.            *)
AddReply(r, section, item) ==
    /\ req[r].st = "user" /\ req[r].err = -1
    /\ FoldLeft(LAMBDA n, x : n + Len(req[x].answer) + Len(req[x].authority), 0,
                SetToSeq(ReqIds)) < MaxItems
    /\ Do([S EXCEPT !.req[r][section] = Append(@, item)])
Respond(r, err, net, n) ==
    /\ req[r].st = "user" /\ n <= Len(port.pend)
    /\ Do(respond(S, r, err, net, n))
(* evdns_server_request_drop *)
Drop(r) == req[r].st = "user" /\ Do(server_request_free(S, r))
(* evdns_close_server_port *)
evdns_close_server_port ==
    LET t == [S EXCEPT !.port.refcnt = @ - 1, !.port.open = FALSE]
    IN  /\ port.open
        /\ Do(IF t.port.refcnt = 0 THEN server_port_free(t) ELSE [t EXCEPT !.port.closing = TRUE])

Next ==
    \/ \E q \in Queries, r \in ReqIds : server_port_read(q, r)
    \/ \E n \in 0..Cardinality(ReqIds), lost \in BOOLEAN : ReadyToWrite(n, lost)
    \/ \E r \in ReqIds, item \in Items, section \in {"answer", "authority"} :
          AddReply(r, section, item)
    \/ \E r \in ReqIds, err \in {0, 2, 3}, net \in {"ok", "again", "error"},
          n \in 0..Cardinality(ReqIds) : Respond(r, err, net, n)
    \/ \E r \in ReqIds : Drop(r)
    \/ evdns_close_server_port

Spec == Init /\ [][Next]_vars

-----------------------------------------------------------------------------
(* Properties.                                                              *)

(* What the user put into a response is what a client should read from it.  *)
Wanted(r) == SelectSeq(r.answer, LAMBDA i : i.type = r.type)
Addresses(items) == FlattenSeq([i \in 1..Len(items) |-> items[i].addrs])
Needed(items) ==
    {i \in 1..Len(items) : i = 1 \/ Len(Addresses(SubSeq(items, 1, i - 1))) < MAX_ADDRS}
LeastTtl(items, is) ==
    CHOOSE t \in {items[i].ttl : i \in is} : \A i \in is : t <= items[i].ttl
Expected(r) ==
    LET w == Wanted(r)
        all == Addresses(w)
    IN  IF r.err = 2 THEN [error |-> "server", a |-> NoAnswer]
        ELSE IF r.err = 3 THEN [error |-> "notexist", a |-> NoAnswer]
        ELSE IF w = <<>> THEN [error |-> "nodata", a |-> NoAnswer]
        ELSE [error |-> "none",
              a |-> [addrs |-> SubSeq(all, 1, IF Len(all) < MAX_ADDRS THEN Len(all) ELSE MAX_ADDRS),
                     names |-> IF r.type = "PTR" THEN <<Plain(w[1].data)>> ELSE <<>>,
                     ttl |-> LeastTtl(w, IF r.type = "PTR" THEN {1} ELSE Needed(w)), have |-> TRUE]]
(* The size of a response if no name were compressed.                       *)
NameSize(name) == FoldLeft(LAMBDA n, l : n + 1 + LabelLen[l], 1, name)
SizeOf(r) ==
    FoldLeft(LAMBDA n, i : n + NameSize(i.name) + 10
                           + (IF i.isName THEN NameSize(i.data) ELSE DataLen(i)),
             12 + NameSize(r.name) + 4, r.answer \o r.authority)

(* A client reads from a response what the user of the server added, the    *)
(* names compressed or not, the label table full or not, and only a         *)
(* response that is too long is marked as truncated (evdns.c:1585, 1876,    *)
(* 943, 1000).                                                              *)
RoundTrip ==
    last.sent =>
        LET got == reply_parse(last.p, [name |-> last.r.ask, type |-> last.r.type])
        IN  \/ got = Expected(last.r)
            \/ got.error = "truncated" /\ SizeOf(last.r) > UdpMax

(* The references of a port are its user and its requests, and it goes with *)
(* the last; a reply that waits is one of its requests, waits once, and the *)
(* socket is watched for it (evdns.c:2059, 1419, 1974).                     *)
PortOK ==
    LET live == {r \in ReqIds : req[r].st # "none"}
    IN  /\ ~port.bad
        /\ port.refcnt = Cardinality(live) + (IF port.open THEN 1 ELSE 0)
        /\ port.freed <=> port.refcnt = 0
        /\ ToSet(port.pend) = {r \in ReqIds : req[r].st = "pending"}
        /\ Cardinality(ToSet(port.pend)) = Len(port.pend)
        /\ port.pend # <<>> => "W" \in port.ev

(* "we released the last reference to req->port" (evdns.c:1437): the port   *)
(* is not used after that.                                                  *)
PortGone == ~port.stale

(* "name too long to fit in buffer" is an error (evdns.c:1583): nothing is  *)
(* written behind the end of the buffer.                                    *)
WithinBuffer == ~port.past

=============================================================================
