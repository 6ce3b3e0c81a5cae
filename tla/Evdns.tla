-------------------------------- MODULE Evdns --------------------------------
(* The resolver of evdns.c: requests in flight and waiting, name servers    *)
(* that fail and are probed until they come back, searches, cancelling,     *)
(* suspending, and evdns_getaddrinfo on top of two requests.                *)
(*                                                                          *)
(* Everything runs in the thread of the event loop: a step is one callback  *)
(* of the loop or one call of the user. Functions map a memory m to a       *)
(* memory. An answer is reported by a deferred callback; m.defer is the     *)
(* queue of those. The network loses, delays and repeats packets: a server  *)
(* a request was sent to may answer at any time, any number of times. "net" *)
(* is what sendto does on the socket of each server during the step.        *)
(*                                                                          *)
(* A request's number stands for its transaction id: transaction_id_pick    *)
(* returns one that is not in flight. req_heads is one list, as it is for   *)
(* max <= 5. Memory is always found. A behaviour ends when the code uses    *)
(* what is freed or an assertion fails; m.bad says which: "server" or       *)
(* "base" for one of those that was freed, "other" for the rest. A name is  *)
(* "short", or "long" (it does not fit a request), or "edge" (it does not   *)
(* with a domain appended).                                                 *)
EXTENDS EvdnsConfig, FiniteSets

CONSTANTS Servers,      \* the addresses of name servers, positive numbers
          Reqs, Handles,\* the requests and the handles there is room for
          Configs,      \* the configurations a behaviour may start with
          Programs,     \* the sets of operations a behaviour may use
          MaxCalls,     \* bound on the calls of the user and the faults of the network
          MaxFails      \* bound on failed_times

(* global_max_reissues, set once by evdns_base_new *)
MaxReissues == 1

VARIABLES mem, program, calls
vars == <<mem, program, calls>>

NoReq == [h |-> 0, ns |-> 0, tx |-> 0, re |-> 0, me |-> FALSE, timer |-> FALSE, sent |-> {},
          live |-> FALSE]
NoHandle == [cur |-> 0, pending |-> FALSE, search |-> FALSE, idx |-> 0, raw |-> FALSE,
             owner |-> "none", ns |-> 0, name |-> "short"]
NewServer == [up |-> TRUE, timedout |-> 0, fails |-> 0, timer |-> FALSE, choked |-> FALSE,
              ww |-> FALSE, probe |-> 0]
NoGai == [live |-> FALSE, r4 |-> 0, r6 |-> 0, cb |-> FALSE, res |-> {}, err |-> FALSE,
          timer |-> FALSE, canceled |-> FALSE, done |-> FALSE]

BadUse(m, what) == [m EXCEPT !.bad = IF @ = "no" THEN what ELSE @]
Bad(m) == BadUse(m, "other")
Check(m, ok) == IF ok THEN m ELSE Bad(m)
(* The slot malloc returns. *)
FreeReq(m) == CHOOSE r \in Reqs : ~m.req[r].live /\ \A q \in Reqs : ~m.req[q].live => r <= q
FreeHandle(m) ==
    CHOOSE h \in Handles : m.h[h].owner = "none"
                           /\ \A g \in Handles : m.h[g].owner = "none" => h <= g
Room(m) == /\ Cardinality({r \in Reqs : m.req[r].live}) + 2 <= Cardinality(Reqs)
           /\ \E h \in Handles : m.h[h].owner = "none"

-----------------------------------------------------------------------------
(* Name servers.                                                            *)

Rotate(ring, k) == SubSeq(ring, k + 1, Len(ring)) \o SubSeq(ring, 1, k)
FirstUp(m) ==
    LET ups == {i \in 1..Len(m.c.ring) : m.ns[m.c.ring[i]].up}
    IN  IF ups = {} THEN 1 ELSE CHOOSE i \in ups : \A j \in ups : i <= j

(* nameserver_pick: the server, and the memory with server_head moved on.   *)
Alive(m) == \A i \in 1..Len(m.c.ring) : m.c.ring[i] \in DOMAIN m.ns
Picked(m) ==
    IF m.c.ring = <<>> \/ ~Alive(m) THEN 0
    ELSE IF m.good = 0 THEN Head(Rotate(m.c.ring, 1))
    ELSE m.c.ring[FirstUp(m)]
nameserver_pick(m) ==
    IF m.c.ring = <<>> THEN m
    ELSE IF ~Alive(m) THEN BadUse(m, "server")
    ELSE IF m.good = 0 THEN [m EXCEPT !.c.ring = Rotate(@, 1)]
    ELSE Check([m EXCEPT !.c.ring = Rotate(@, FirstUp(m))], m.ns[m.c.ring[FirstUp(m)]].up)

(* The server fails; what was not sent yet goes to another one.             *)
nameserver_failed(m, n) ==
    LET m1 == [m EXCEPT !.good = @ - 1, !.ns[n].up = FALSE, !.ns[n].fails = 1,
                        !.ns[n].timer = TRUE]
        Move(x, r) == IF x.req[r].tx = 0 /\ x.req[r].ns = n
                      THEN [nameserver_pick(x) EXCEPT !.req[r].ns = Picked(x)] ELSE x
    IN  IF n \notin DOMAIN m.ns THEN Bad(m)
        ELSE IF ~m.ns[n].up THEN m
        ELSE IF m1.good = 0 THEN m1 ELSE FoldLeft(Move, m1, m1.infl)

(* The probe did not help: a longer wait until the next one.                *)
nameserver_probe_failed(m, n) ==
    IF m.ns[n].up THEN [m EXCEPT !.ns[n].timer = FALSE]
    ELSE [m EXCEPT !.ns[n].timer = TRUE, !.ns[n].fails = Min2(MaxFails, @ + 1)]

-----------------------------------------------------------------------------
(* Sending.                                                                 *)

(* evdns_request_transmit with evdns_request_transmit_to: a socket that is  *)
(* full is waited for; a failure marks the server and counts as sent.       *)
evdns_request_transmit(m, r, net) ==
    LET n == m.req[r].ns
        marked == [m EXCEPT !.req[r].me = TRUE]
        Sent(x) == [x EXCEPT !.req[r].timer = TRUE, !.req[r].tx = @ + 1, !.req[r].me = FALSE]
    IN  IF n = 0 THEN marked
        ELSE IF n \notin DOMAIN m.ns THEN Bad(m)
        ELSE IF m.ns[n].choked THEN marked
        ELSE CASE net[n] = "again" -> [marked EXCEPT !.ns[n].choked = TRUE, !.ns[n].ww = TRUE]
               [] net[n] = "error" -> Sent(nameserver_failed(marked, n))
               [] OTHER -> [Sent(marked) EXCEPT !.req[r].sent = @ \cup {n}]

evdns_transmit(m, net) ==
    FoldLeft(LAMBDA x, r : IF x.req[r].me THEN evdns_request_transmit(x, r, net) ELSE x,
             m, m.infl)

(* evdns_requests_pump_waiting_queue, one turn of its loop and all of them. *)
PumpOne(m, net) ==
    LET r == Head(m.wait)
        n == Picked(m)
        m1 == [nameserver_pick(m) EXCEPT !.req[r].ns = n]
        m2 == [m1 EXCEPT !.wait = Tail(@), !.nwait = @ - 1, !.ninfl = @ + 1,
                         !.infl = Append(@, r)]
    IN  IF m.wait = <<>> THEN Bad(m)
        ELSE IF n = 0 THEN m1
        ELSE evdns_transmit(evdns_request_transmit(m2, r, net), net)
pump_waiting_queue(m, net) ==
    LET Turn(s, i) ==
            IF s.stop \/ ~(s.m.ninfl < s.m.c.max /\ s.m.nwait > 0) THEN s
            ELSE [m |-> PumpOne(s.m, net), stop |-> Picked(s.m) = 0]
    IN  FoldLeft(Turn, [m |-> m, stop |-> FALSE], [i \in 1..(m.nwait + 1) |-> i]).m

-----------------------------------------------------------------------------
(* Requests.                                                                *)

(* reply_schedule_callback *)
reply_schedule_callback(m, r, result) ==
    LET h == m.req[r].h
    IN  [m EXCEPT !.h[h].pending = TRUE,
                  !.defer = Append(@, [h |-> h, owner |-> m.h[h].owner, ns |-> m.h[h].ns,
                                       result |-> result])]

(* The handle of a finished request, freed unless its callback is to run.   *)
HandleFinished(m, r, freeHandle) ==
    LET h == m.req[r].h
        m1 == [Check(m, m.h[h].cur = r) EXCEPT !.h[h].cur = 0]
    IN  IF h = 0 THEN m
        ELSE IF ~freeHandle THEN m1
        ELSE IF m1.h[h].pending THEN [m1 EXCEPT !.h[h].search = FALSE]
        ELSE [m1 EXCEPT !.h[h] = NoHandle]

(* request_finished: the list the caller names, "infl" or "wait". Mutated:  *)
(* nobody takes the place of the request.                                   *)
FinishedNoPump(m, r, list, freeHandle, net) ==
    LET m1 == IF list = "infl"
              THEN [Check(m, Contains(m.infl, r)) EXCEPT !.infl = Remove(@, r), !.ninfl = @ - 1]
              ELSE [Check(m, Contains(m.wait, r)) EXCEPT !.wait = Remove(@, r), !.nwait = @ - 1]
    IN  [HandleFinished(m1, r, freeHandle) EXCEPT !.req[r] = NoReq]
request_finished(m, r, list, freeHandle, net) ==
    LET m1 == IF list = "infl"
              THEN [Check(m, Contains(m.infl, r)) EXCEPT !.infl = Remove(@, r), !.ninfl = @ - 1]
              ELSE [Check(m, Contains(m.wait, r)) EXCEPT !.wait = Remove(@, r), !.nwait = @ - 1]
    IN  pump_waiting_queue([HandleFinished(m1, r, freeHandle) EXCEPT !.req[r] = NoReq], net)

(* evdns_cancel_request: the list is told by the server of the request.     *)
evdns_cancel_request(m, h, net) ==
    LET r == m.h[h].cur
    IN  IF m.h[h].owner = "none" THEN Bad(m)
        ELSE IF r = 0 \/ m.h[h].pending THEN m
        ELSE request_finished(reply_schedule_callback(m, r, "cancel"), r,
                              IF m.req[r].ns # 0 THEN "infl" ELSE "wait", TRUE, net)

(* nameserver_up: the probe that is still out is not needed any more.       *)
nameserver_up(m, n, net) ==
    LET m1 == [m EXCEPT !.ns[n].timer = FALSE]
        m2 == IF m.ns[n].probe = 0 THEN m1
              ELSE [evdns_cancel_request(m1, m.ns[n].probe, net) EXCEPT !.ns[n].probe = 0]
    IN  IF m.ns[n].up THEN m
        ELSE [m2 EXCEPT !.ns[n].up = TRUE, !.ns[n].fails = 0, !.ns[n].timedout = 0,
                        !.good = @ + 1]

(* request_new: a server is only picked when there is room in flight. The   *)
(* handle is 0 in search_try_next, which sets it later.                     *)
request_new(m, h) ==
    LET r == FreeReq(m)
        issuing == m.ninfl < m.c.max
        m1 == IF issuing THEN nameserver_pick(m) ELSE m
        m2 == [m1 EXCEPT !.req[r] = [NoReq EXCEPT !.live = TRUE, !.h = h,
                                                  !.ns = IF issuing THEN Picked(m) ELSE 0]]
    IN  IF h = 0 THEN m2 ELSE [m2 EXCEPT !.h[h].cur = r]

request_submit(m, r, net) ==
    IF m.req[r].ns # 0
    THEN evdns_request_transmit([m EXCEPT !.infl = Append(@, r), !.ninfl = @ + 1], r, net)
    ELSE [m EXCEPT !.wait = Append(@, r), !.nwait = @ + 1]

(* request_reissue: another server, or no point in trying again.            *)
CanReissue(m, r) == Picked(m) # m.req[r].ns
request_reissue(m, r) ==
    [nameserver_pick(m) EXCEPT
        !.req[r] = [@ EXCEPT !.ns = Picked(m), !.re = @ + 1, !.tx = 0, !.me = TRUE]]

nameserver_send_probe(m, n, net) ==
    LET h == FreeHandle(m)
        r == FreeReq(m)
        m1 == request_new([m EXCEPT !.h[h] = [NoHandle EXCEPT !.owner = "probe", !.ns = n]], h)
    IN  request_submit([m1 EXCEPT !.ns[n].probe = h, !.req[r].ns = n], r, net)

-----------------------------------------------------------------------------
(* Searches: a name is tried with each domain, and as it is first or last   *)
(* (raw), by the number of its dots.                                        *)

(* Whether request_new takes the name, with a domain appended or without.   *)
Fits(name, appended) == name = "short" \/ (name = "edge" /\ ~appended)

(* search_request_new, and evdns_base_resolve_ipv4 and _ipv6 around it; no  *)
(* request, and NULL for the handle, when the name is too long.             *)
Asked(m, dots, noSearch, name) ==
    Fits(name, ~noSearch /\ m.c.doms # <<>> /\ dots < m.c.ndots)
resolve(m, owner, dots, noSearch, name, net) ==
    LET h == FreeHandle(m)
        r == FreeReq(m)
        searching == ~noSearch /\ m.c.doms # <<>>
        first == dots >= m.c.ndots
        m1 == request_new([m EXCEPT !.h[h] = [NoHandle EXCEPT !.owner = owner]], h)
    IN  IF ~Asked(m, dots, noSearch, name) THEN m
        ELSE request_submit(
            IF searching
            THEN [m1 EXCEPT !.h[h] = [@ EXCEPT !.search = TRUE, !.raw = ~first, !.name = name,
                                               !.idx = IF first THEN -1 ELSE 0]]
            ELSE m1, r, net)

SearchGoesOn(m, h) ==
    LET more == m.h[h].idx + 1 < Len(m.c.doms)
    IN  (more \/ m.h[h].raw) /\ Fits(m.h[h].name, more)
(* search_try_next: the new request is made before the old one is finished. *)
search_try_next(m, h, net) ==
    LET old == m.h[h].cur
        new == FreeReq(m)
        m1 == [request_new([m EXCEPT !.h[h].idx = @ + 1], 0) EXCEPT
                  !.h[h].search = m.h[h].idx + 1 < Len(m.c.doms)]
        m2 == request_finished(m1, old, "infl", FALSE, net)
    IN  request_submit([m2 EXCEPT !.h[h].cur = new, !.req[new].h = h], new, net)

-----------------------------------------------------------------------------
(* Answers.                                                                 *)

GiveUp(m, r, why, net) ==
    request_finished(reply_schedule_callback(m, r, why), r, "infl", TRUE, net)

(* reply_handle. "ok" is an answer with addresses; "refused" stands for     *)
(* NOTIMPL too; "other" is every other error, one in the format included,   *)
(* and an answer to another question. Mutated: the probe is cancelled by    *)
(* its own answer.                                                          *)
ReplyCancelsProbe(m, r, answer, net) ==
    LET m1 == nameserver_up(m, m.req[r].ns, net)
    IN  IF m1.req[r].live THEN GiveUp(m1, r, IF answer = "ok" THEN "none" ELSE answer, net)
        ELSE Bad(m1)
reply_handle(m, r, answer, net) ==
    LET n == m.req[r].ns
        h == m.req[r].h
        Mine(x) == IF x.ns[n].probe = h THEN [x EXCEPT !.ns[n].probe = 0] ELSE x
        Failed(x) ==
            IF x.h[h].search /\ SearchGoesOn(x, h) THEN search_try_next(x, h, net)
            ELSE GiveUp(IF x.h[h].search THEN [x EXCEPT !.h[h].idx = @ + 1] ELSE x,
                        r, answer, net)
        down == nameserver_failed(m, n)
    IN  CASE answer = "ok" ->
               request_finished(nameserver_up(Mine(reply_schedule_callback(m, r, "none")), n, net),
                                r, "infl", TRUE, net)
          [] answer = "refused" /\ m.req[r].re < MaxReissues ->
               IF CanReissue(down, r) THEN request_reissue(down, r)
               ELSE Failed(nameserver_pick(down))
          [] answer = "refused" /\ m.req[r].re >= MaxReissues -> Failed(m)
          [] answer = "servfail" -> Failed(m)
          [] OTHER -> Failed(nameserver_up(Mine(m), n, net))

(* evdns_request_timeout_callback *)
evdns_request_timeout_callback(m, r, net) ==
    LET n == m.req[r].ns
        late == m.ns[n].timedout + 1
        m1 == IF late > m.c.timeouts
              THEN nameserver_failed([m EXCEPT !.ns[n].timedout = 0], n)
              ELSE [m EXCEPT !.ns[n].timedout = late]
        m2 == [nameserver_pick(m1) EXCEPT !.req[r].ns = Picked(m1)]
    IN  IF n \notin DOMAIN m.ns THEN Bad(m)
        ELSE IF m.req[r].tx >= m.c.attempts THEN GiveUp(m1, r, "timeout", net)
        ELSE evdns_request_transmit([m2 EXCEPT !.req[r].timer = FALSE], r, net)

(* nameserver_probe_callback; a server that is gone is read all the same.   *)
nameserver_probe_callback(m, n, result, net) ==
    IF result = "cancel" THEN m
    ELSE IF n \notin DOMAIN m.ns THEN BadUse(m, "server")
    ELSE IF result \in {"none", "notexist"} THEN nameserver_up([m EXCEPT !.ns[n].probe = 0], n, net)
    ELSE nameserver_probe_failed([m EXCEPT !.ns[n].probe = 0], n)

-----------------------------------------------------------------------------
(* evdns_getaddrinfo: one request per family, "v4" and "v6"; the first      *)
(* answer waits a little for the second. gai is the data of the one call    *)
(* there may be at a time; told counts the calls of its callback.           *)

Fam(f) == IF f = "v4" THEN "r4" ELSE "r6"
OtherFam(f) == IF f = "v4" THEN "r6" ELSE "r4"
Tell(m) == [m EXCEPT !.told = @ + 1]
free_getaddrinfo_request(m) == [m EXCEPT !.gai = NoGai]

evdns_getaddrinfo(m, host, name, fams, net) ==
    LET Ask(x, f) == [resolve(x, f, 0, FALSE, name, net) EXCEPT !.gai[Fam(f)] = FreeHandle(x)]
        m0 == [m EXCEPT !.gai = [NoGai EXCEPT !.live = TRUE, !.cb = TRUE], !.told = 0]
        m4 == IF "v4" \in fams THEN Ask(m0, "v4") ELSE m0
    IN  IF HostsKnow(m.c, host) \/ ~Asked(m, 0, FALSE, name) THEN [m EXCEPT !.told = 1]
        ELSE IF "v6" \in fams THEN Ask(m4, "v6") ELSE m4

(* evdns_getaddrinfo_gotresolve. Mutated: the answer of the second request  *)
(* is passed on though the user was told at the timeout.                    *)
GotresolveTwice(m, f, result, net) ==
    LET m1 == [m EXCEPT !.gai[Fam(f)] = 0]
    IN  IF ~m.gai.live THEN Bad(m)
        ELSE IF m1.gai[OtherFam(f)] # 0 THEN [m1 EXCEPT !.gai.timer = TRUE, !.gai.res = {f}]
        ELSE free_getaddrinfo_request(Tell(m1))
gotresolve(m, f, result, net) ==
    LET other == m.gai[OtherFam(f)]
        m1 == [m EXCEPT !.gai[Fam(f)] = 0, !.gai.done = @ \/ other = 0]
        err == result # "none"
    IN  IF m.gone THEN BadUse(m, "base")
        ELSE IF ~m.gai.live THEN Bad(m)
        ELSE IF result = "cancel" /\ ~m.gai.canceled
        THEN IF other = 0 THEN free_getaddrinfo_request(m1) ELSE m1
        ELSE IF ~m.gai.cb THEN free_getaddrinfo_request(m1)
        ELSE IF other = 0 THEN free_getaddrinfo_request(Tell(m1))
        ELSE IF err THEN [m1 EXCEPT !.gai.timer = TRUE, !.gai.err = TRUE]
        ELSE IF m.gai.canceled THEN m1
        ELSE [m1 EXCEPT !.gai.timer = TRUE, !.gai.res = {f}]

(* evdns_getaddrinfo_timeout_cb *)
evdns_getaddrinfo_timeout_cb(m, net) ==
    LET Cancel(x, h) == IF h = 0 THEN x ELSE evdns_cancel_request(x, h, net)
        m1 == Cancel(Cancel([m EXCEPT !.gai.timer = FALSE], m.gai.r4), m.gai.r6)
        m2 == Tell([Check(m1, m.gai.r4 = 0 \/ m.gai.r6 = 0) EXCEPT
                       !.gai.cb = FALSE, !.gai.res = {}])
    IN  IF m.gone THEN BadUse(m, "base")
        ELSE IF m.gai.r4 = 0 /\ m.gai.r6 = 0 THEN free_getaddrinfo_request(m2) ELSE m2

evdns_getaddrinfo_cancel(m, net) ==
    LET Cancel(x, h) == IF h = 0 THEN x ELSE evdns_cancel_request(x, h, net)
    IN  IF m.gai.done THEN m
        ELSE Cancel(Cancel([m EXCEPT !.gai.timer = FALSE, !.gai.canceled = TRUE], m.gai.r4),
                    m.gai.r6)

-----------------------------------------------------------------------------
(* Servers added and dropped, and the end of the resolver.                  *)

nameserver_add(m, n) ==
    IF n \in DOMAIN m.ns THEN m
    ELSE [m EXCEPT !.c = nameserver_ip_add(@, n), !.good = @ + 1,
                   !.ns = [x \in DOMAIN @ \cup {n} |-> IF x = n THEN NewServer ELSE m.ns[x]]]

(* One server freed, with its events deleted and then its probe cancelled,  *)
(* while the list still has it. A callback of the probe keeps the pointer,  *)
(* here 0; so does the event of the socket, should the place of the probe   *)
(* go to a request that finds this socket full.                             *)
FreeServer(m, n, net) ==
    LET m1 == IF m.ns[n].probe = 0 THEN m ELSE evdns_cancel_request(m, m.ns[n].probe, net)
        m2 == IF m1.ns[n].ww /\ ~m.ns[n].ww THEN BadUse(m1, "server") ELSE m1
        Freed(x) == IF x.owner = "probe" /\ x.ns = n THEN [x EXCEPT !.ns = 0] ELSE x
    IN  [m2 EXCEPT !.ns = [x \in DOMAIN @ \ {n} |-> m1.ns[x]],
                   !.h = [h \in Handles |-> Freed(@[h])],
                   !.defer = [i \in DOMAIN @ |-> Freed(@[i])]]
FreeServers(m, net) ==
    [FoldLeft(LAMBDA x, n : FreeServer(x, n, net), m, m.c.ring) EXCEPT
        !.c.ring = <<>>, !.good = 0,
        !.dropped = IF \E h \in Handles : m.h[h].owner = "probe" THEN @ \cup {"probe"} ELSE @]

(* evdns_base_clear_nameservers_and_suspend: what was in flight waits, in   *)
(* front of what waited already.                                            *)
clear_nameservers_and_suspend(m, net) ==
    LET m1 == FreeServers(m, net)
        Suspended(r) == [m1.req[r] EXCEPT !.ns = 0, !.tx = 0, !.re = 0, !.me = FALSE,
                                          !.timer = FALSE, !.sent = {}]
    IN  IF m.c.ring = <<>> THEN m
        ELSE [m1 EXCEPT !.req = [r \in Reqs |-> IF Contains(m1.infl, r) THEN Suspended(r)
                                                 ELSE m1.req[r]],
                        !.wait = Reverse(m1.infl) \o @, !.nwait = @ + Len(m1.infl),
                        !.infl = <<>>, !.ninfl = 0, !.susp = TRUE]
evdns_base_resume(m, net) ==
    [pump_waiting_queue(m, net) EXCEPT !.susp = @ /\ m.c.ring = <<>>]

(* evdns_base_free, with the requests told or not.                          *)
evdns_base_free(m, failRequests, net) ==
    LET Told(x, r) == IF failRequests THEN reply_schedule_callback(x, r, "shutdown") ELSE x
        End(x, r, list) == request_finished(Told(x, r), r, list, TRUE, net)
        m1 == FreeServers(m, net)
        m2 == FoldLeft(LAMBDA x, r : End(x, r, "infl"), m1, m1.infl)
        m3 == FoldLeft(LAMBDA x, r : End(x, r, "wait"), m2, m2.wait)
    IN  [m3 EXCEPT !.gone = TRUE, !.dropped = IF m.gai.live THEN @ \cup {"gai"} ELSE @]

-----------------------------------------------------------------------------
(* The steps.                                                               *)

May(op) == op \in program
(* What sendto may do on each socket: one of them may be full or fail. What *)
(* a server may answer.                                                     *)
NoFault == [n \in Servers |-> "ok"]
Nets == {NoFault} \cup {[NoFault EXCEPT ![n] = e] : n \in Servers, e \in program \cap {"again", "error"}}
Answers == {"ok", "notexist"} \cup (program \cap {"refused", "servfail"})

Init ==
    /\ program \in Programs
    /\ calls = 0
    /\ \E c \in Configs :
          mem = [c |-> c, ns |-> [n \in ToSet(c.ring) |-> NewServer], good |-> Len(c.ring),
                 req |-> [r \in Reqs |-> NoReq], h |-> [h \in Handles |-> NoHandle],
                 infl |-> <<>>, wait |-> <<>>, ninfl |-> 0, nwait |-> 0, defer |-> <<>>,
                 gai |-> NoGai, told |-> 0, susp |-> FALSE, gone |-> FALSE, bad |-> "no",
                 dropped |-> {}]   \* history: what was in use when servers or base were freed

Step(m, cost) ==
    /\ mem.bad = "no" /\ calls + cost <= MaxCalls
    /\ mem' = m
    /\ calls' = calls + cost
    /\ UNCHANGED program
Faults(net) == IF net = NoFault THEN 0 ELSE 1
Loop(m, net) == Step(m, Faults(net))
User(op, m, net) == May(op) /\ ~mem.gone /\ Step(m, 1 + Faults(net))

(* A server answers a request it was sent. The packet is matched with the   *)
(* request alone: the server it is now assigned to gets credit and blame.   *)
nameserver_read(n, r, answer, net) ==
    /\ Contains(mem.infl, r) /\ n \in mem.req[r].sent \cap DOMAIN mem.ns
    /\ Step(reply_handle([mem EXCEPT !.ns[n].timedout = 0], r, answer, net),
            Faults(net) + (IF answer \in {"refused", "servfail"} THEN 1 ELSE 0))
(* An answer to a request that is finished; a failure of the socket.        *)
nameserver_read_late(n) ==
    /\ n \in DOMAIN mem.ns /\ mem.ns[n].timedout > 0
    /\ Step([mem EXCEPT !.ns[n].timedout = 0], 0)
nameserver_read_error(n) ==
    /\ May("error") /\ n \in DOMAIN mem.ns
    /\ Step(nameserver_failed(mem, n), 1)

(* nameserver_ready_callback: the socket takes packets again.               *)
nameserver_ready_callback(n, net) ==
    /\ n \in DOMAIN mem.ns /\ mem.ns[n].ww
    /\ LET m == [mem EXCEPT !.ns[n].choked = FALSE]
       IN  Loop(IF \E i \in 1..Len(m.infl) : m.req[m.infl[i]].me THEN evdns_transmit(m, net)
                ELSE [m EXCEPT !.ns[n].ww = FALSE], net)

RequestTimeout(r, net) ==
    /\ mem.req[r].timer
    /\ Loop(evdns_request_timeout_callback([mem EXCEPT !.req[r].timer = FALSE], r, net), net)
nameserver_prod_callback(n, net) ==
    /\ n \in DOMAIN mem.ns /\ mem.ns[n].timer /\ Room(mem)
    /\ Loop(nameserver_send_probe([mem EXCEPT !.ns[n].timer = FALSE], n, net), net)
GaiTimeout(net) ==
    /\ mem.gai.timer
    /\ Loop(evdns_getaddrinfo_timeout_cb(mem, net), net)

(* reply_run_callback: the handle is freed once its callback has run.       *)
reply_run_callback(net) ==
    /\ mem.defer # <<>>
    /\ LET cb == Head(mem.defer)
           m1 == [mem EXCEPT !.defer = Tail(@)]
           m2 == CASE cb.owner = "probe" -> nameserver_probe_callback(m1, cb.ns, cb.result, net)
                   [] cb.owner \in {"v4", "v6"} -> gotresolve(m1, cb.owner, cb.result, net)
                   [] OTHER -> m1
       IN  Loop([Check(m2, m2.h[cb.h].pending) EXCEPT !.h[cb.h] = NoHandle], net)

Resolve(dots, noSearch, name, net) ==
    /\ name = "short" \/ May("names")
    /\ noSearch \/ May("search")
    /\ Room(mem)
    /\ User("resolve", resolve(mem, "user", dots, noSearch, name, net), net)
Cancel(h, net) ==
    /\ mem.h[h].owner = "user"
    /\ User("cancel", evdns_cancel_request(mem, h, net), net)
Getaddrinfo(host, name, fams, net) ==
    /\ name = "short" \/ May("names")
    /\ ~mem.gai.live
    /\ Cardinality({h \in Handles : mem.h[h].owner = "none"}) >= 2
    /\ Cardinality({r \in Reqs : ~mem.req[r].live}) >= 3
    /\ User("gai", evdns_getaddrinfo(mem, host, name, fams, net), net)
GetaddrinfoCancel(net) ==
    /\ mem.gai.live /\ mem.told = 0
    /\ User("gai", evdns_getaddrinfo_cancel(mem, net), net)
AddServer(n) == n \notin DOMAIN mem.ns /\ User("suspend", nameserver_add(mem, n), NoFault)
Suspend(net) == User("suspend", clear_nameservers_and_suspend(mem, net), net)
Resume(net) == User("suspend", evdns_base_resume(mem, net), net)
BaseFree(failRequests, net) == User("free", evdns_base_free(mem, failRequests, net), net)

LoopNext ==
    \E net \in Nets :
        \/ \E n \in Servers : \/ \E r \in Reqs, a \in Answers : nameserver_read(n, r, a, net)
                              \/ nameserver_ready_callback(n, net)
                              \/ nameserver_prod_callback(n, net)
        \/ \E r \in Reqs : RequestTimeout(r, net)
        \/ GaiTimeout(net)
        \/ reply_run_callback(net)
UserNext ==
    \E net \in Nets :
        \/ \E dots \in {0, 1}, noSearch \in BOOLEAN, name \in {"short", "edge", "long"} :
               Resolve(dots, noSearch, name, net)
        \/ \E h \in Handles : Cancel(h, net)
        \/ \E host \in {"localhost", "www"}, name \in {"short", "long"},
              fams \in {{"v4"}, {"v4", "v6"}} : Getaddrinfo(host, name, fams, net)
        \/ GetaddrinfoCancel(net)
        \/ Suspend(net)
        \/ Resume(net)
        \/ \E failRequests \in BOOLEAN : BaseFree(failRequests, net)
Next ==
    \/ LoopNext
    \/ UserNext
    \/ \E n \in Servers : nameserver_read_late(n) \/ nameserver_read_error(n) \/ AddServer(n)

Spec == Init /\ [][Next]_vars

-----------------------------------------------------------------------------
(* Properties.                                                              *)

Inflight(r) == Contains(mem.infl, r)
Waiting(r) == Contains(mem.wait, r)
Used == {h \in Handles : mem.h[h].owner # "none"}
Deferred(h) == Cardinality({i \in 1..Len(mem.defer) : mem.defer[i].h = h})

(* The counters of the base are the lengths of its lists and the number of  *)
(* servers that are up; a request is in one list, in flight exactly when it *)
(* has a server, so that evdns_cancel_request and request_finished take it  *)
(* from the list it is in (evdns.c:648, 2791). No assertion of evdns.c      *)
(* fails and nothing freed is used, but for two uses that the module states *)
(* below: a server that was dropped while there was a probe, and the base   *)
(* that was freed under an evdns_getaddrinfo.                               *)
QueuesOK ==
    /\ mem.bad # "other"
    /\ mem.bad = "server" => "probe" \in mem.dropped
    /\ mem.bad = "base" => "gai" \in mem.dropped
    /\ mem.bad = "no" /\ ~mem.gone =>
         /\ mem.ninfl = Len(mem.infl) /\ mem.nwait = Len(mem.wait)
         /\ mem.good = Cardinality({n \in DOMAIN mem.ns : mem.ns[n].up})
         /\ DOMAIN mem.ns = ToSet(mem.c.ring)
         /\ \A r \in Reqs : mem.req[r].live =>
                /\ Inflight(r) # Waiting(r)
                /\ Inflight(r) <=> mem.req[r].ns # 0
                /\ mem.req[r].ns \in DOMAIN mem.ns \cup {0}
                /\ mem.h[mem.req[r].h].cur = r
         /\ \A n \in DOMAIN mem.ns : mem.ns[n].choked => mem.ns[n].ww

(* Nothing is forgotten: a handle has a request or its callback queued,     *)
(* once; a request in flight has a timer or waits for a socket to take it;  *)
(* a request that waits has one in flight before it, whose end lets it go;  *)
(* a server that is down is going to be probed (evdns.c:2215, 736, 554).    *)
NothingStalls ==
    mem.bad = "no" /\ ~mem.gone =>
        /\ \A h \in Used : IF mem.h[h].cur = 0 THEN mem.h[h].pending /\ Deferred(h) = 1
                            ELSE ~mem.h[h].pending /\ Deferred(h) = 0
        /\ \A r \in Reqs : Inflight(r) =>
               \/ mem.req[r].timer
               \/ mem.req[r].me /\ \E n \in DOMAIN mem.ns : mem.ns[n].ww
        /\ mem.wait # <<>> => mem.susp \/ mem.infl # <<>>
        /\ \A n \in DOMAIN mem.ns : ~mem.ns[n].up =>
               mem.ns[n].timer \/ \E h \in Used : mem.h[h].owner = "probe" /\ mem.h[h].ns = n

(* The callback of evdns_getaddrinfo runs once, whatever the order of the   *)
(* two answers, the timeout and a cancel, and its data lives as long as one *)
(* of its two requests will come back to it (evdns.c:4262, 4310).           *)
AddrinfoOnce ==
    /\ mem.told <= 1
    /\ mem.gai.live /\ ~mem.gone => \E h \in {mem.gai.r4, mem.gai.r6} \ {0} : h \in Used
    /\ mem.gai.live /\ mem.told = 0 => mem.gai.cb
    /\ \A h \in Used : mem.h[h].owner \in {"v4", "v6"} => mem.gai[Fam(mem.h[h].owner)] = h

(* What the code does not keep. Servers may be dropped at any time          *)
(* (evdns.c:2391 and 3949 cancel a probe for that), yet the callback of a   *)
(* probe that was answered, or the place of a cancelled one, leads back to  *)
(* the freed server (evdns.c:2281, 1331); and evdns_base_free tells live    *)
(* requests of the shutdown (dns.h:222), yet evdns_getaddrinfo's callback   *)
(* and timeout use the freed base (evdns.c:4329, 4245).                     *)
DroppedServersUnused == mem.bad # "server"
FreedBaseUnused == mem.bad # "base"

=============================================================================
