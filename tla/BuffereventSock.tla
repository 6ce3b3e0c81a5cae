--------------------------- MODULE BuffereventSock ---------------------------
(* Socket bufferevents (bufferevent_sock.c), the part of bufferevent.c they *)
(* share with the others, and rate limits (bufferevent_ratelim.c).          *)
(*                                                                          *)
(* Reading and writing are the two directions "R" and "W"; most functions   *)
(* come in a pair, one per direction, and are one operator here. A buffer   *)
(* is its length. The event loop is one thread, the user's program another: *)
(* a handler of the loop or a call of the user is one step under the lock   *)
(* of the bufferevent, and bufferevent_lock lets the user keep the lock     *)
(* over several. Functions map the record r of one bufferevent to a record, *)
(* or, where others are concerned, a memory m = [bev, grp] to a memory; grp *)
(* is the one rate-limit group.                                             *)
EXTENDS Integers, FiniteSets, Sequences, SequencesExt

CONSTANTS Bevs,         \* the bufferevents
          Rate, Burst,  \* per tick and at most, of configuration 1 and 2
          MinShare,     \* min_share of the group
          MAX_EVER,     \* MAX_TO_READ_EVER and MAX_TO_WRITE_EVER
          Programs,     \* the sets of operations a behaviour may use
          MaxLen,       \* bound on a buffer
          MaxAge,       \* bound on the ticks since a bucket was updated
          MaxCalls,     \* bound on the calls of the user
          MaxDebt,      \* bound on how far below zero a bucket may get
          MaxBucket     \* bound on a bucket the user has filled above its maximum

(* What ev_token_bucket_cfg_new accepts: it returns NULL for anything else. *)
ev_token_bucket_cfg_new(rate, burst) == rate \in Nat \ {0} /\ burst \in Nat /\ rate <= burst

ASSUME RateAssumption ==
    \A c \in {1, 2} : ev_token_bucket_cfg_new(Rate[c], Burst[c]) /\ MinShare <= Rate[c]
ASSUME SizeAssumption ==
    IsFiniteSet(Bevs) /\ MinShare \in Nat /\ MAX_EVER \in Nat \ {0} /\ MaxLen \in Nat

Dirs == {"R", "W"}
Other(d) == CHOOSE e \in Dirs : e # d

VARIABLES
    bev,        \* the bufferevents
    grp,        \* the group
    lock,       \* lock[b]: "free", or kept by the user: "user", or "adding" to the group
    stage,      \* stage[b]: the next callback of a deferred run, or "idle"
    emptyIO,    \* a read or a write of no bytes was tried
    program, calls
vars == <<bev, grp, lock, stage, emptyIO, program, calls>>

M == [bev |-> bev, grp |-> grp]

-----------------------------------------------------------------------------
(* bufferevent.c: suspension. be_socket_enable and be_socket_disable add    *)
(* and delete the events; the write event stays while connecting.           *)

(* _bufferevent_add_event: event_add without a timeout leaves an old one.   *)
be_socket_enable(r, ds) ==
    [r EXCEPT !.pend = @ \cup ds, !.timed = @ \cup (ds \cap r.tmo)]
del_event(r, ds) ==
    [r EXCEPT !.pend = @ \ ds, !.timed = @ \ ds, !.active = @ /\ "W" \notin ds]
be_socket_disable(r, ds) == del_event(r, IF r.connecting THEN ds \ {"W"} ELSE ds)

suspend(r, d, why) ==
    [(IF r.susp[d] = {} THEN be_socket_disable(r, {d}) ELSE r) EXCEPT !.susp[d] = @ \cup {why}]

(* Mutated: the event is added again whatever else suspends it.             *)
UnsuspendAll(r, d, why) ==
    LET n == [r EXCEPT !.susp[d] = @ \ {why}]
    IN  IF d \in n.enabled THEN be_socket_enable(n, {d}) ELSE n

unsuspend(r, d, why) ==
    LET n == [r EXCEPT !.susp[d] = @ \ {why}]
    IN  IF n.susp[d] = {} /\ d \in n.enabled THEN be_socket_enable(n, {d}) ELSE n
(* One of the two. *)
SuspendIf(r, d, why, full) == IF full THEN suspend(r, d, why) ELSE unsuspend(r, d, why)

enable(r, ds) ==
    be_socket_enable([r EXCEPT !.enabled = @ \cup ds], {d \in ds : r.susp[d] = {}})
disable(r, ds) == be_socket_disable([r EXCEPT !.enabled = @ \ ds], ds)
disable_hard(r, ds) ==
    be_socket_disable([r EXCEPT !.enabled = @ \ ds, !.connecting = FALSE], ds)

(* bufferevent_inbuf_wm_cb: the input changed; nothing without a watermark. *)
inbuf_wm_cb(r) == IF r.high = 0 THEN r ELSE SuspendIf(r, "R", "wm", r.in >= r.high)
(* bufferevent_socket_outbuf_cb: bytes were added to the output.            *)
outbuf_cb(r) ==
    IF "W" \in r.enabled /\ "W" \notin r.pend /\ r.susp["W"] = {}
    THEN be_socket_enable(r, {"W"}) ELSE r
Write(r) == outbuf_cb([r EXCEPT !.out = @ + 1])
Drain(r) == IF r.in = 0 THEN r ELSE inbuf_wm_cb([r EXCEPT !.in = 0])

-----------------------------------------------------------------------------
(* References and the end.                                                  *)

On(m, b, r) == [m EXCEPT !.bev[b] = r]

(* bufferevent_remove_from_rate_limit_group_internal                        *)
remove_from_group(m, b, lift) ==
    LET n == [m EXCEPT !.grp.members = @ \ {b}]
    IN  IF lift THEN On(n, b, unsuspend(unsuspend(m.bev[b], "R", "group"), "W", "group")) ELSE n

(* The last reference: be_socket_destruct, the buffers, the group and the   *)
(* timer of the bucket.                                                     *)
destruct(m, b) ==
    LET r == [del_event(m.bev[b], Dirs) EXCEPT !.fd = FALSE, !.in = 0, !.out = 0, !.refill = FALSE]
    IN  remove_from_group(On(m, b, r), b, FALSE)
incref(r) == [r EXCEPT !.refcnt = @ + 1]
decref(m, b) ==
    LET n == On(m, b, [m.bev[b] EXCEPT !.refcnt = @ - 1])
    IN  IF m.bev[b].refcnt = 1 THEN destruct(n, b) ELSE n
(* bufferevent_free; a socket bufferevent has nothing to cancel.            *)
bufferevent_free(m, b) == decref(On(m, b, [m.bev[b] EXCEPT !.cbs = FALSE, !.user = FALSE]), b)

(* What a callback of the user may do, with the lock held or not.           *)
Acts == {"nothing", "free", "drain", "write", "disable"}
Act(m, b, act) ==
    LET r == m.bev[b]
    IN  CASE act = "free" /\ r.user -> bufferevent_free(m, b)
          [] act = "drain" -> On(m, b, Drain(r))
          [] act = "write" /\ r.out < MaxLen -> On(m, b, Write(r))
          [] act = "disable" -> On(m, b, disable(r, Dirs))
          [] OTHER -> m

(* _bufferevent_run_readcb, _writecb and _eventcb: at once, or marked and   *)
(* queued with a reference.                                                 *)
Deferred(r, what) ==
    IF r.queued THEN [r EXCEPT !.pending = @ \cup {what}]
    ELSE [incref(r) EXCEPT !.pending = @ \cup {what}, !.queued = TRUE]
run_cb(m, b, what, act) ==
    IF ~m.bev[b].cbs THEN m
    ELSE IF m.bev[b].defer # "no" THEN On(m, b, Deferred(m.bev[b], what))
    ELSE Act(m, b, act)

-----------------------------------------------------------------------------
(* bufferevent_ratelim.c                                                    *)

(* ev_token_bucket_update, n ticks after the last update; the subtraction   *)
(* is unsigned, so that a bucket above its maximum has ever more room.      *)
Refilled(lim, c, n) ==
    IF n = 0 THEN lim
    ELSE IF lim <= Burst[c] /\ (Burst[c] - lim) \div n < Rate[c] THEN Burst[c]
    ELSE lim + n * Rate[c]
(* bufferevent_update_buckets                                               *)
update_buckets(r) ==
    [r EXCEPT !.lim = [d \in Dirs |-> Refilled(r.lim[d], r.cfg, r.age)], !.age = 0]

(* The members whose lock is free, or held by the thread.                   *)
Lockable(m, held) == {c \in m.grp.members : c \in held \/ lock[c] = "free"}

group_suspend(m, held, d) ==
    [grp |-> [m.grp EXCEPT !.susp = @ \cup {d}, !.pending_unsuspend = @ \ {d}],
     bev |-> [c \in Bevs |-> IF c \in Lockable(m, held) THEN suspend(m.bev[c], d, "group")
                             ELSE m.bev[c]]]

(* Mutated: a member whose lock is taken is left for nobody.                *)
UnsuspendOnce(m, held, d) ==
    [grp |-> [m.grp EXCEPT !.susp = @ \ {d}, !.pending_unsuspend = @ \ {d}],
     bev |-> [c \in Bevs |-> IF c \in Lockable(m, held) THEN unsuspend(m.bev[c], d, "group")
                             ELSE m.bev[c]]]

group_unsuspend(m, held, d) ==
    [grp |-> [m.grp EXCEPT !.susp = @ \ {d},
                           !.pending_unsuspend = IF Lockable(m, held) = m.grp.members
                                                 THEN @ \ {d} ELSE @ \cup {d}],
     bev |-> [c \in Bevs |-> IF c \in Lockable(m, held) THEN unsuspend(m.bev[c], d, "group")
                             ELSE m.bev[c]]]

(* _bufferevent_get_rlim_max: a member that could not be locked when its    *)
(* group was suspended finds out here.                                      *)
get_rlim_max(m, b, d) ==
    LET r == IF m.bev[b].cfg = 0 THEN m.bev[b] ELSE update_buckets(m.bev[b])
        own == IF r.cfg = 0 THEN MAX_EVER ELSE r.lim[d]
        member == b \in m.grp.members
        out == member /\ d \in m.grp.susp
        even == m.grp.lim[d] \div Cardinality(m.grp.members)
        share == IF out THEN 0 ELSE IF even < MinShare THEN MinShare ELSE even
        max == IF member /\ share < own THEN share ELSE own
    IN  [m |-> On(m, b, IF out THEN suspend(r, d, "group") ELSE r),
         max |-> IF max < 0 THEN 0 ELSE max]

(* _bufferevent_decrement_read_buckets and _write_buckets: the own bucket,  *)
(* then that of the group.                                                  *)
LiftOwn(r, d) ==
    unsuspend([r EXCEPT !.refill = @ /\ "bw" \in r.susp[Other(d)]], d, "bw")
decrement_own(r, d, n) ==
    LET own == [r EXCEPT !.lim[d] = @ - n]
    IN  IF r.cfg = 0 THEN r
        ELSE IF own.lim[d] <= 0 THEN [suspend(own, d, "bw") EXCEPT !.refill = TRUE]
        ELSE IF "bw" \in own.susp[d] THEN LiftOwn(own, d) ELSE own
decrement_group(m, b, d, n) ==
    LET g == [m EXCEPT !.grp.lim[d] = @ - n]
    IN  IF b \notin m.grp.members THEN m
        ELSE IF g.grp.lim[d] <= 0 THEN group_suspend(g, {b}, d)
        ELSE IF d \in g.grp.susp THEN group_unsuspend(g, {b}, d) ELSE g
decrement_buckets(m, b, d, n) == decrement_group(On(m, b, decrement_own(m.bev[b], d, n)), b, d, n)

-----------------------------------------------------------------------------
(* Steps. The loop runs one handler at a time and waits for the locks.      *)

LoopFree == \A c \in Bevs : stage[c] = "idle"
LoopMayRun(b) == LoopFree /\ lock[b] = "free" /\ bev[b].refcnt > 0
(* A call of the user on b; a locked deferred run keeps the lock. Programs  *)
(* without the group use one bufferevent.                                   *)
First == CHOOSE b \in Bevs : TRUE
Call(op, b) ==
    /\ "group" \in program \/ b = First
    /\ op \in program /\ calls < MaxCalls /\ bev[b].user
    /\ lock[b] \in {"free", "user"}
    /\ stage[b] # "idle" => bev[b].defer = "unlocked"
    /\ calls' = calls + 1
Becomes(m) == bev' = m.bev /\ grp' = m.grp /\ UNCHANGED program
Quiet == UNCHANGED <<lock, stage, emptyIO>>
Bounded(m) == /\ \A c \in Bevs : m.bev[c].in <= MaxLen /\ m.bev[c].out <= MaxLen
                                 /\ \A d \in Dirs : m.bev[c].lim[d] >= -MaxDebt
              /\ \A d \in Dirs : m.grp.lim[d] >= -MaxDebt

NewBev(defer, fd) ==
    [refcnt |-> 1, user |-> TRUE, cbs |-> TRUE, defer |-> defer, queued |-> FALSE, pending |-> {},
     enabled |-> {"W"}, susp |-> [d \in Dirs |-> {}], pend |-> {}, timed |-> {}, tmo |-> {},
     active |-> FALSE, in |-> 0, out |-> 0, low |-> 0, high |-> 0, connecting |-> FALSE,
     refused |-> FALSE, fd |-> fd, failed |-> FALSE, lookup |-> FALSE,
     cfg |-> 0, lim |-> [d \in Dirs |-> 0], age |-> 0, refill |-> FALSE, join |-> {}]

Init ==
    /\ program \in Programs /\ calls = 0
    /\ \E defer \in (IF "defer" \in program THEN {"locked", "unlocked"} ELSE {"no"}) :
         LET new == NewBev(defer, "connect" \notin program)
             old == CASE "group" \in program ->       \* it was told to read only
                           [new EXCEPT !.enabled = {"R"}, !.pend = {"R"}]
                      [] "rate" \in program ->        \* enabled, with bytes to write
                           [new EXCEPT !.enabled = Dirs, !.pend = Dirs, !.out = MaxLen]
                      [] OTHER -> new
         IN  bev = [b \in Bevs |-> IF "group" \in program \/ b = First THEN old ELSE new]
    /\ grp = [members |-> {}, susp |-> {}, pending_unsuspend |-> {}, cfg |-> 1,
              lim |-> [d \in Dirs |-> Rate[1]], age |-> 0]
    /\ lock = [b \in Bevs |-> "free"] /\ stage = [b \in Bevs |-> "idle"]
    /\ emptyIO = FALSE

(* Time passes for the buckets.                                             *)
Older(age) == IF age < MaxAge THEN age + 1 ELSE age
Tick ==
    /\ \A d \in Dirs : grp.lim[d] <= MaxBucket /\ \A b \in Bevs : bev[b].lim[d] <= MaxBucket
    /\ \/ \E b \in Bevs : bev[b].cfg # 0 /\ bev[b].age < MaxAge
       \/ grp.members # {} /\ grp.age < MaxAge
    /\ bev' = [b \in Bevs |-> IF bev[b].cfg = 0 THEN bev[b] ELSE [bev[b] EXCEPT !.age = Older(@)]]
    /\ grp' = IF grp.members = {} THEN grp ELSE [grp EXCEPT !.age = Older(@)]
    /\ UNCHANGED <<lock, stage, emptyIO, program, calls>>

(* bufferevent_readcb: res is what evbuffer_read returns, or "again"; got   *)
(* is what the rate limits allow, n the bufferevent with the bytes read.    *)
ReadDone(n, b, act) == IF n.bev[b].in >= n.bev[b].low THEN run_cb(n, b, "read", act) ELSE n
ReadBytes(m, b, res) ==
    decrement_buckets(On(m, b, inbuf_wm_cb([m.bev[b] EXCEPT !.in = @ + res])), b, "R", res)
ReadSome(got, b, res, act) ==
    LET m == got.m
        r == m.bev[b]
        howmuch == IF r.high # 0 /\ r.high - r.in < got.max THEN r.high - r.in ELSE got.max
    IN  [max |-> howmuch, io |-> r.susp["R"] = {},
         m |-> CASE r.susp["R"] # {} \/ res = -1 -> m
                 [] r.susp["R"] = {} /\ res # -1 /\ (res = 0 \/ howmuch = 0) ->
                      run_cb(On(m, b, disable(r, {"R"})), b, "end", act)
                 [] OTHER -> ReadDone(ReadBytes(m, b, res), b, act)]
readcb(m0, b, res, act) ==
    LET r == incref(m0.bev[b])
        m == On(m0, b, r)
        body == IF r.high # 0 /\ r.in >= r.high
                THEN [m |-> On(m, b, suspend(r, "R", "wm")), max |-> 0, io |-> FALSE]
                ELSE ReadSome(get_rlim_max(m, b, "R"), b, res, act)
    IN  [m |-> decref(body.m, b), max |-> body.max, io |-> body.io]
(* The loop has run a handler that leaves x.m and tried to read or write at *)
(* most x.max bytes.                                                        *)
Handled(x, res) ==
    /\ res <= x.max \/ x.max = 0
    /\ Becomes(x.m) /\ Bounded(x.m)
    /\ emptyIO' = (emptyIO \/ (x.io /\ x.max = 0))
    /\ UNCHANGED <<lock, stage, calls>>
ReadReady(b, res, act) ==
    /\ LoopMayRun(b) /\ "R" \in bev[b].pend /\ bev[b].fd /\ ~bev[b].connecting
    /\ Handled(readcb(M, b, res, act), res)
(* The read or the write event times out.                                   *)
Timeout(b, d, act) ==
    /\ LoopMayRun(b) /\ d \in bev[b].timed
    /\ Becomes(decref(run_cb(On(M, b, disable(incref(bev[b]), {d})), b, "end", act), b))
    /\ Quiet /\ UNCHANGED calls

(* The end of bufferevent_writecb: write, then report an empty buffer.      *)
WriteDone(sent, b, report, act) ==
    LET r == sent.bev[b]
        done == IF r.out = 0 THEN On(sent, b, del_event(r, {"W"})) ELSE sent
    IN  IF report /\ r.out = 0 THEN run_cb(done, b, "write", act) ELSE done
WriteBytes(m, b, res) ==
    decrement_buckets(On(m, b, [m.bev[b] EXCEPT !.out = @ - res]), b, "W", res)
WriteSome(got, b, connected, res, act) ==
    LET m == got.m
        r == m.bev[b]
        io == r.susp["W"] = {} /\ r.out > 0
    IN  [io |-> io, max |-> IF got.max < r.out THEN got.max ELSE r.out,
         m |-> CASE r.susp["W"] # {} \/ (io /\ res = -1) -> m
                 [] io /\ res # -1 /\ (res = 0 \/ got.max = 0) ->
                      run_cb(On(m, b, disable(r, {"W"})), b, "end", act)
                 [] OTHER -> WriteDone(IF ~io THEN m ELSE WriteBytes(m, b, res),
                                       b, io \/ ~connected, act)]
write_out(m, b, connected, res, act) ==
    WriteSome(get_rlim_max(m, b, "W"), b, connected, res, act)
(* bufferevent_writecb; c is the answer of evutil_socket_finished_connecting*)
NoIO(m) == [m |-> m, io |-> FALSE, max |-> 0]
Connected(m, b, res, act) ==
    IF "W" \notin m.bev[b].enabled \/ m.bev[b].susp["W"] # {}
    THEN NoIO(On(m, b, del_event(m.bev[b], {"W"}))) ELSE write_out(m, b, TRUE, res, act)
writecb(m0, b, c, res, act1, act) ==
    LET r == [incref(m0.bev[b]) EXCEPT !.active = FALSE]
        ans == IF r.refused THEN "no" ELSE c
        known == [r EXCEPT !.refused = FALSE, !.connecting = FALSE]
        gone == [del_event(known, Dirs) EXCEPT !.failed = TRUE]
        body == CASE ~r.connecting -> write_out(On(m0, b, r), b, FALSE, res, act)
                  [] r.connecting /\ ans = "wait" -> NoIO(On(m0, b, [r EXCEPT !.refused = FALSE]))
                  [] r.connecting /\ ans = "no" -> NoIO(run_cb(On(m0, b, gone), b, "end", act1))
                  [] OTHER -> Connected(run_cb(On(m0, b, known), b, "connected", act1), b, res, act)
    IN  [m |-> decref(body.m, b), max |-> body.max, io |-> body.io]
WriteReady(b, c, res, act1, act) ==
    /\ LoopMayRun(b) /\ bev[b].fd /\ ("W" \in bev[b].pend \/ bev[b].active)
    /\ bev[b].active => c # "wait"             \* it was connected at once
    /\ ~bev[b].connecting => c = "yes" /\ act1 = "nothing"
    /\ Handled(writecb(M, b, c, res, act1, act), res)

(* The deferred callbacks run in this order, each if it is still marked     *)
(* and wanted; unlocked ones let the user's thread in between.              *)
Order == <<"connected", "read", "write", "end">>
DeferStart(b) ==
    /\ LoopMayRun(b) /\ bev[b].queued
    /\ Becomes(On(M, b, [bev[b] EXCEPT !.queued = FALSE]))
    /\ stage' = [stage EXCEPT ![b] = Order[1]]
    /\ UNCHANGED <<lock, emptyIO, calls>>
DeferStep(b, act) ==
    LET i == CHOOSE k \in DOMAIN Order : Order[k] = stage[b]
        runs == stage[b] \in bev[b].pending /\ bev[b].cbs
        m == IF runs THEN Act(On(M, b, [bev[b] EXCEPT !.pending = @ \ {stage[b]}]), b, act) ELSE M
    IN  /\ stage[b] # "idle" /\ lock[b] = "free"
        /\ runs \/ act = "nothing"
        /\ Becomes(IF i = Len(Order) THEN decref(m, b) ELSE m)
        /\ stage' = [stage EXCEPT ![b] = IF i = Len(Order) THEN "idle" ELSE Order[i + 1]]
        /\ UNCHANGED <<lock, emptyIO, calls>>

(* _bev_refill_callback and _bev_group_refill_callback                      *)
refill(r0) ==
    LET r == update_buckets([r0 EXCEPT !.refill = FALSE])
        lift(x, d) == IF "bw" \in r.susp[d] /\ r.lim[d] > 0 THEN unsuspend(x, d, "bw") ELSE x
        again == \E d \in Dirs : "bw" \in r.susp[d] /\ r.lim[d] <= 0
    IN  [lift(lift(r, "R"), "W") EXCEPT !.refill = again]
Refill(b) ==
    /\ LoopMayRun(b) /\ bev[b].refill /\ bev[b].cfg # 0
    /\ Becomes(On(M, b, refill(bev[b]))) /\ Quiet /\ UNCHANGED calls
LiftGroup(m, d) ==
    IF d \in m.grp.pending_unsuspend \/ (d \in m.grp.susp /\ m.grp.lim[d] >= MinShare)
    THEN group_unsuspend(m, {}, d) ELSE m
group_refill(m0) ==
    LET lim == [d \in Dirs |-> Refilled(m0.grp.lim[d], m0.grp.cfg, m0.grp.age)]
    IN  LiftGroup(LiftGroup([m0 EXCEPT !.grp.lim = lim, !.grp.age = 0], "R"), "W")
GroupRefill ==
    /\ LoopFree /\ grp.members # {}
    /\ Becomes(group_refill(M)) /\ Quiet /\ UNCHANGED calls

-----------------------------------------------------------------------------
(* Connecting.                                                              *)

be_socket_setfd(r, fd) ==
    LET n == [del_event(r, Dirs) EXCEPT !.fd = fd, !.failed = FALSE]
    IN  IF fd THEN enable(n, r.enabled) ELSE n
(* bufferevent_socket_connect; x is the answer of evutil_socket_connect, or *)
(* there is no socket to connect.                                           *)
StartConnect(r0, x) ==
    LET r == [be_socket_setfd(r0, TRUE) EXCEPT !.connecting = TRUE]
    IN  CASE x = "wait" -> be_socket_enable(r, {"W"})
          [] x = "done" -> [r EXCEPT !.active = TRUE]
          [] x = "refused" -> [r EXCEPT !.active = TRUE, !.refused = TRUE]
socket_connect(m, b, x, act) ==
    LET r == incref(m.bev[b])
    IN  decref(CASE x = "nosocket" -> On(m, b, r)
                 [] x = "fails" -> run_cb(On(m, b, r), b, "end", act)
                 [] OTHER -> On(m, b, StartConnect(r, x)), b)
Connect(b, x, act) ==
    /\ Call("connect", b) /\ ~bev[b].connecting /\ ~bev[b].fd
    /\ Becomes(socket_connect(M, b, x, act)) /\ Quiet
(* bufferevent_socket_connect_hostname, then the answer of the lookup       *)
ConnectHostname(b) ==
    /\ Call("connect", b) /\ ~bev[b].lookup /\ ~bev[b].connecting /\ ~bev[b].fd
    /\ Becomes(On(M, b, [incref(suspend(suspend(bev[b], "W", "lookup"), "R", "lookup"))
                            EXCEPT !.lookup = TRUE]))
    /\ Quiet
LookupDone(b, x, act) ==
    LET m == On(M, b, [unsuspend(unsuspend(bev[b], "W", "lookup"), "R", "lookup")
                          EXCEPT !.lookup = FALSE])
    IN  /\ LoopMayRun(b) /\ bev[b].lookup
        /\ Becomes(decref(IF x = "unknown" THEN run_cb(m, b, "end", act)
                          ELSE socket_connect(m, b, x, act), b))
        /\ Quiet /\ UNCHANGED calls
(* bufferevent_setfd: a careful user disables a connecting bufferevent hard *)
(* first, as http.c does.                                                   *)
SetFd(b, fd) ==
    /\ Call("connect", b) /\ ~bev[b].connecting
    /\ Becomes(On(M, b, be_socket_setfd(bev[b], fd))) /\ Quiet
DisableHard(b) ==
    Call("connect", b) /\ Becomes(On(M, b, disable_hard(bev[b], Dirs))) /\ Quiet

-----------------------------------------------------------------------------
(* The other calls of the user.                                             *)

Enable(b, ds) == Call("basic", b) /\ Becomes(On(M, b, enable(bev[b], ds))) /\ Quiet
Disable(b, ds) == Call("basic", b) /\ Becomes(On(M, b, disable(bev[b], ds))) /\ Quiet
UserWrite(b) == Call("basic", b) /\ bev[b].out < MaxLen /\ Becomes(On(M, b, Write(bev[b]))) /\ Quiet
UserDrain(b) == Call("basic", b) /\ bev[b].in > 0 /\ Becomes(On(M, b, Drain(bev[b]))) /\ Quiet
Free(b) == Call("free", b) /\ Becomes(bufferevent_free(M, b)) /\ Quiet
SetTimeouts(b, ds) ==
    /\ Call("timeouts", b)
    /\ Becomes(On(M, b, be_socket_enable([bev[b] EXCEPT !.tmo = ds], bev[b].pend))) /\ Quiet
(* bufferevent_setwatermark for reading                                     *)
SetWatermark(b, low, high) ==
    /\ Call("wm", b)
    /\ Becomes(On(M, b, SuspendIf([bev[b] EXCEPT !.low = low, !.high = high], "R", "wm",
                                  high # 0 /\ bev[b].in >= high)))
    /\ Quiet

(* bufferevent_lock and bufferevent_unlock                                  *)
Lock(b) ==
    /\ Call("lock", b) /\ lock[b] = "free" /\ stage[b] = "idle"
    /\ Becomes(On(M, b, incref(bev[b]))) /\ lock' = [lock EXCEPT ![b] = "user"]
    /\ UNCHANGED <<stage, emptyIO>>
Unlock(b) ==
    /\ lock[b] = "user"
    /\ Becomes(decref(M, b)) /\ lock' = [lock EXCEPT ![b] = "free"]
    /\ UNCHANGED <<stage, emptyIO, calls>>

(* bufferevent_set_rate_limit to configuration c; 0 is NULL.                *)
set_rate_limit(old, c) ==
    LET none == [unsuspend(unsuspend([old EXCEPT !.cfg = 0], "R", "bw"), "W", "bw")
                    EXCEPT !.refill = FALSE]
        lim == [d \in Dirs |-> IF old.cfg = 0 THEN Rate[c]
                               ELSE IF old.lim[d] > Burst[c] THEN Burst[c] ELSE old.lim[d]]
        r == [old EXCEPT !.cfg = c, !.lim = lim, !.age = IF old.cfg = 0 THEN 0 ELSE @]
        limit(x, d) == SuspendIf(x, d, "bw", lim[d] <= 0)
    IN  IF c = 0 THEN none
        ELSE IF c = old.cfg THEN old
        ELSE [limit(limit(r, "R"), "W") EXCEPT !.refill = \E d \in Dirs : lim[d] <= 0]
SetRateLimit(b, c) ==
    /\ Call("rate", b) /\ (c # 0 \/ bev[b].cfg # 0)
    /\ Becomes(On(M, b, set_rate_limit(bev[b], c))) /\ Quiet
(* bufferevent_decrement_read_limit and _write_limit                        *)
decrement_limit(old, d, n) ==
    LET r == [old EXCEPT !.lim[d] = @ - n]
        was == old.lim[d] > 0
        is == r.lim[d] > 0
    IN  IF was /\ ~is THEN [suspend(r, d, "bw") EXCEPT !.refill = TRUE]
        ELSE IF ~was /\ is THEN LiftOwn(r, d) ELSE r
DecrementLimit(b, d, n) ==
    LET m == On(M, b, decrement_limit(bev[b], d, n))
    IN  Call("rate", b) /\ bev[b].cfg # 0 /\ Becomes(m) /\ Bounded(m) /\ Quiet
(* bufferevent_get_max_to_read and bufferevent_get_max_to_write             *)
GetMax(b, d) == Call("rate", b) /\ Becomes(get_rlim_max(M, b, d).m) /\ Quiet

(* bufferevent_add_to_rate_limit_group looks at the group under its lock,   *)
(* and suspends the bufferevent after it has let go of that lock.           *)
AddToGroup(b) ==
    /\ Call("group", b) /\ lock[b] = "free" /\ b \notin grp.members
    /\ bev' = [bev EXCEPT ![b].join = grp.susp]
    /\ grp' = [grp EXCEPT !.members = @ \cup {b}]
    /\ lock' = [lock EXCEPT ![b] = "adding"] /\ UNCHANGED <<stage, emptyIO, program>>
AddToGroupEnds(b) ==
    LET s(r, d) == IF d \in bev[b].join THEN suspend(r, d, "group") ELSE r
    IN  /\ lock[b] = "adding"
        /\ Becomes(On(M, b, [s(s(bev[b], "R"), "W") EXCEPT !.join = {}]))
        /\ lock' = [lock EXCEPT ![b] = "free"] /\ UNCHANGED <<stage, emptyIO, calls>>
RemoveFromGroup(b) ==
    /\ Call("group", b) /\ b \in grp.members
    /\ Becomes(remove_from_group(M, b, TRUE)) /\ Quiet
(* bufferevent_rate_limit_group_decrement_read and _write                   *)
GroupDecrement(d, n) ==
    LET m == [M EXCEPT !.grp.lim[d] = @ - n]
        was == grp.lim[d] > 0
        is == m.grp.lim[d] > 0
        x == CASE was /\ ~is -> group_suspend(m, {}, d)
               [] ~was /\ is -> group_unsuspend(m, {}, d)
               [] OTHER -> m
    IN  /\ "group" \in program /\ calls < MaxCalls /\ calls' = calls + 1
        /\ Becomes(x) /\ Bounded(x) /\ Quiet
GroupSetCfg(c) ==
    /\ "group" \in program /\ calls < MaxCalls /\ calls' = calls + 1 /\ c # grp.cfg
    /\ grp' = [grp EXCEPT !.cfg = c,
                          !.lim = [d \in Dirs |-> IF @[d] > Burst[c] THEN Burst[c] ELSE @[d]]]
    /\ Quiet /\ UNCHANGED <<bev, program>>

Next ==
    \/ Tick \/ GroupRefill
    \/ \E b \in Bevs :
         \/ \E act \in IF program \cap {"group", "rate"} # {} THEN {"nothing", "drain"} ELSE Acts :
              \/ \E res \in -1..MaxLen : ReadReady(b, res, act)
              \/ \E d \in Dirs : Timeout(b, d, act)
              \/ \E c \in {"yes", "no", "wait"}, res \in -1..MaxLen, act1 \in Acts :
                   WriteReady(b, c, res, act1, act)
              \/ DeferStep(b, act)
              \/ \E r \in {"nosocket", "fails", "wait", "done", "refused"} : Connect(b, r, act)
              \/ \E r \in {"unknown", "nosocket", "fails", "wait", "done", "refused"} :
                   LookupDone(b, r, act)
         \/ DeferStart(b) \/ Refill(b)
         \/ ConnectHostname(b) \/ DisableHard(b)
         \/ \E fd \in BOOLEAN : SetFd(b, fd)
         \/ \E ds \in SUBSET Dirs \ {{}} : Enable(b, ds) \/ Disable(b, ds)
         \/ UserWrite(b) \/ UserDrain(b) \/ Free(b)
         \/ \E ds \in SUBSET Dirs : SetTimeouts(b, ds)
         \/ \E low \in {0, 2}, high \in 0..2 : SetWatermark(b, low, high)
         \/ Lock(b) \/ Unlock(b)
         \/ \E c \in 0..2 : SetRateLimit(b, c)
         \/ \E d \in Dirs, n \in {-2, 1} : DecrementLimit(b, d, n)
         \/ \E d \in Dirs : GetMax(b, d)
         \/ AddToGroup(b) \/ AddToGroupEnds(b) \/ RemoveFromGroup(b)
    \/ \E n \in {-2, 1} : GroupDecrement("R", n)
    \/ \E c \in {1, 2} : GroupSetCfg(c)

Spec == Init /\ [][Next]_vars

-----------------------------------------------------------------------------
(* Properties.                                                              *)

Reasons == {"wm", "lookup", "bw", "group"}
Bevent ==
    [refcnt : Int, user : BOOLEAN, cbs : BOOLEAN, defer : {"no", "locked", "unlocked"},
     queued : BOOLEAN, pending : SUBSET {"connected", "read", "write", "end"},
     enabled : SUBSET Dirs, susp : [Dirs -> SUBSET Reasons],
     pend : SUBSET Dirs, timed : SUBSET Dirs, tmo : SUBSET Dirs, active : BOOLEAN,
     in : Int, out : Int, low : Int, high : Int, connecting : BOOLEAN, refused : BOOLEAN,
     fd : BOOLEAN, failed : BOOLEAN, lookup : BOOLEAN,
     cfg : 0..2, lim : [Dirs -> Int], age : Nat, refill : BOOLEAN, join : SUBSET Dirs]
Group ==
    [members : SUBSET Bevs, susp : SUBSET Dirs, pending_unsuspend : SUBSET Dirs,
     cfg : {1, 2}, lim : [Dirs -> Int], age : Nat]

TypeOK ==
    /\ bev \in [Bevs -> Bevent] /\ grp \in Group
    /\ lock \in [Bevs -> {"free", "user", "adding"}]
    /\ stage \in [Bevs -> {"idle", "connected", "read", "write", "end"}]
    /\ emptyIO \in BOOLEAN

Live(b) == bev[b].refcnt > 0
Bit(p) == IF p THEN 1 ELSE 0

(* A bufferevent does what it was told: a direction that is enabled and not *)
(* suspended is waited for (writing: when there is something to write), and *)
(* no other is, except that a connection in progress waits to write. After  *)
(* the last reference nothing of a bufferevent is left in the event base or *)
(* in the group. Covers be_socket_enable and be_socket_disable under        *)
(* suspensions, watermarks, connecting and callbacks that free.             *)
EventsAsEnabled ==
    \A b \in Bevs : LET r == bev[b] IN
        /\ Live(b) /\ r.fd /\ ~r.failed /\ r.susp["R"] = {} /\ "R" \in r.enabled => "R" \in r.pend
        /\ Live(b) /\ r.fd /\ ~r.failed /\ r.susp["W"] = {} /\ "W" \in r.enabled
             /\ r.out > 0 /\ ~r.connecting => "W" \in r.pend
        /\ \A d \in r.pend : (d \in r.enabled /\ r.susp[d] = {}) \/ (d = "W" /\ r.connecting)
        /\ r.connecting => "W" \in r.pend \/ r.active \/ ~Live(b)
        /\ ~Live(b) => /\ r.pend = {} /\ ~r.active /\ ~r.refill /\ ~r.queued
                       /\ b \notin grp.members
        /\ r.refcnt = Bit(r.user) + Bit(r.queued) + Bit(r.lookup) + Bit(lock[b] = "user")
                        + Bit(stage[b] # "idle")

(* Whatever suspends a direction will lift the suspension: the input is at  *)
(* its high watermark, a lookup is in flight, the bucket is going to be     *)
(* refilled by its timer, or the group is suspended or knows that it has    *)
(* members left to unsuspend.                                               *)
SuspensionsEnd ==
    \A b \in Bevs, d \in Dirs : LET s == bev[b].susp[d] IN
        Live(b) =>
        /\ "wm" \in s => d = "R" /\ bev[b].high # 0 /\ bev[b].in >= bev[b].high
        /\ "lookup" \in s => bev[b].lookup
        /\ "bw" \in s => bev[b].refill /\ bev[b].cfg # 0
        /\ "group" \in s => b \in grp.members /\ d \in grp.susp \cup grp.pending_unsuspend

(* A bucket or a share that is used up suspends the bufferevent: no read    *)
(* or write of zero bytes is tried, which would look like the end of the    *)
(* stream.                                                                  *)
NoEmptyIO == ~emptyIO

(* An inductive strengthening of the three. A direction of a live           *)
(* bufferevent that is enabled and not suspended is waited for even while   *)
(* it connects; w is "connected" between the end of the connecting and the  *)
(* look at what was enabled, when the write event may be left over.         *)
EventsOK(r, w) ==
    /\ r.fd /\ ~r.failed /\ r.susp["R"] = {} /\ "R" \in r.enabled => "R" \in r.pend
    /\ r.fd /\ ~r.failed /\ r.susp["W"] = {} /\ "W" \in r.enabled /\ r.out > 0 => "W" \in r.pend
    /\ "R" \in r.pend => "R" \in r.enabled /\ r.susp["R"] = {}
    /\ "W" \in r.pend => ("W" \in r.enabled /\ r.susp["W"] = {}) \/ r.connecting \/ w = "connected"
    /\ r.connecting => "W" \in r.pend \/ r.active
(* A suspension has its reason, and an empty bucket suspends.               *)
SuspensionsOK(r) ==
    /\ "wm" \notin r.susp["W"]
    /\ "wm" \in r.susp["R"] => r.high # 0 /\ r.in >= r.high
    /\ \A d \in Dirs : /\ "lookup" \in r.susp[d] => r.lookup
                       /\ "bw" \in r.susp[d] => r.refill /\ r.cfg # 0
                       /\ r.cfg # 0 /\ r.lim[d] <= 0 => "bw" \in r.susp[d]
GroupOK(r, b, g) ==
    \A d \in Dirs : "group" \in r.susp[d] => b \in g.members /\ d \in g.susp \cup g.pending_unsuspend
DeadOK(r, b, g) == r.pend = {} /\ ~r.active /\ ~r.refill /\ b \notin g.members
(* References besides those of the user and of the deferred callbacks: a    *)
(* lookup, a bufferevent_lock, a deferred run.                              *)
Held(r) == r.refcnt - Bit(r.user) - Bit(r.queued)
Holders(l, k, s) == Bit(l) + Bit(k = "user") + Bit(s # "idle")
BevOK(r, b, g) ==
    /\ r.refcnt > 0 => EventsOK(r, "idle") /\ SuspensionsOK(r) /\ GroupOK(r, b, g)
    /\ r.refcnt <= 0 => DeadOK(r, b, g)
(* Who joins the group has been told of a suspension that the group still   *)
(* knows of.                                                                *)
JoinOK(r, b, g, k) ==
    k = "adding" => r.user /\ b \in g.members /\ r.join \subseteq g.susp \cup g.pending_unsuspend
IInv ==
    /\ TypeOK
    /\ \A b \in Bevs : /\ BevOK(bev[b], b, grp)
                        /\ Held(bev[b]) = Holders(bev[b].lookup, lock[b], stage[b])
                        /\ JoinOK(bev[b], b, grp, lock[b])

=============================================================================
