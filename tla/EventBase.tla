----------------------------- MODULE EventBase -----------------------------
(***************************************************************************)
(* An event_base: event.c with the parts of evmap.c and win32select.c      *)
(* (module EventMap), signal.c and minheap-internal.h it runs on.          *)
(*                                                                         *)
(* One thread runs event_base_loop and the callbacks; another thread calls *)
(* the API.  th_base_lock is released only in select() and around          *)
(* callbacks, so what happens between two such points is one step.  The    *)
(* fields of the record b are those of struct event_base and of its        *)
(* events; every operation is an operator from b to b.                     *)
(***************************************************************************)
EXTENDS Integers, Sequences, FiniteSets, SequencesExt, MinHeap, EventMap

CONSTANTS Readers,       \* events for EV_READ
          Writers,       \* events for EV_WRITE; an event may be for both
          Sharing,       \* events on one descriptor; the others have their own
          Timers,        \* events without a descriptor
          Commons,       \* timers that use the common timeout
          Signals,       \* events for EV_SIGNAL
          Persistent,    \* events with EV_PERSIST
          Urgent,        \* events of priority 0; the others have priority 1
          Deferreds,     \* deferred callbacks
          Programs,      \* sets of events and deferred callbacks used together
          Delays,        \* timeouts given to event_add
          Untimed,       \* bound: events that are added without a timeout, in
                         \* programs with one call less
          CommonDelay,   \* duration of the common timeout
          MaxDeferred,   \* MAX_DEFERRED (16 in the code)
          MaxClock,      \* bound: the clock stops here
          MaxOps         \* bound: API calls per behaviour

Users == Readers \cup Writers \cup Timers \cup Commons \cup Signals

ASSUME UsersAssumption == /\ Persistent \subseteq Users
                          /\ Urgent \subseteq Users
                          /\ Sharing \subseteq Readers \cup Writers
                          /\ Signals \subseteq Persistent
ASSUME BoundsAssumption == /\ Delays \subseteq Nat
                           /\ CommonDelay \in Nat \ {0}
                           /\ MaxDeferred \in Nat \ {0}

(* th_notify, sig.ev_signal, the timeout_event of the common timeout list, *)
(* and the event that event_base_loopexit hands to event_base_once.        *)
Internal == {"th_notify", "ev_signal", "ctl_timeout"}
Events == Users \cup Internal \cup {"loopexit"}
IoEvents == Readers \cup Writers \cup {"th_notify", "ev_signal"}
NoEvent == "none"

(* An event has one kind, and none is one of those above.                  *)
ASSUME KindsAssumption ==
    /\ IsFiniteSet(Users)
    /\ Users \cap (Internal \cup {"loopexit", NoEvent, "shared"}) = {}
    /\ (Readers \cup Writers) \cap (Timers \cup Commons \cup Signals) = {}
    /\ Timers \cap (Commons \cup Signals) = {}
    /\ Commons \cap Signals = {}

ev_pri(e) == IF e \in Urgent \cup Internal THEN 0 ELSE 1
ev_events(e) == (IF e \in Writers \ Readers THEN {} ELSE {"read"})
                  \cup (IF e \in Writers THEN {"write"} ELSE {})
ev_fd(e) == IF e \in Sharing THEN "shared" ELSE e
Descriptors == {ev_fd(e) : e \in IoEvents}
IsPersistent(e) == e \in Persistent \cup {"th_notify", "ev_signal"}

VARIABLES b,         \* the event_base
          program,   \* the events this behaviour uses
          at,        \* where the loop thread is
          flags,     \* argument of event_base_loop
          wait,      \* time left in select(); -1 for no timeout
          clock,     \* the system clock, which may be set back
          ready,     \* pairs of a descriptor and what it is ready for
          caught,    \* signals written to the socket of signal.c
          other,     \* what the other thread is blocked in
          ops        \* API calls so far

vars == <<b, program, at, flags, wait, clock, ready, caught, other, ops>>

CallsLeft == ops < MaxOps - (IF program \subseteq Untimed THEN 1 ELSE 0)

Idle == [op |-> "none", ev |-> NoEvent, tv |-> -1, woken |-> FALSE]
Positions == {"out", "select", "callback", "drained", "no_call", "deferred", "freed"}

-----------------------------------------------------------------------------
(* Queues.                                                                 *)

N_ACTIVE_EVENTS(s) == Len(s.activequeues[0]) + Len(s.activequeues[1])
N_ACTIVE_CALLBACKS(s) == N_ACTIVE_EVENTS(s) + Len(s.deferred)
IsActive(s, e) == Contains(s.activequeues[ev_pri(e)], e)
HasTimeout(s, e) == Contains(s.timeheap, e) \/ Contains(s.common, e)

(* event_haveevents: event_count counts the non-internal entries of the    *)
(* three queues.                                                           *)
event_haveevents(s) ==
    \/ s.virtual > 0
    \/ \E e \in Events \ Internal :
          e \in s.inserted \/ HasTimeout(s, e) \/ IsActive(s, e)

gettime(s) == IF s.tv_cache # 0 THEN s.tv_cache ELSE clock

(* Mutated: the newest entry goes first.                                   *)
InsertFirst(q, key, e) == <<e>> \o q

(* insert_common_timeout_inorder: after the last entry that is not later.  *)
InsertInOrder(q, key, e) ==
    LET after == {i \in 1..Len(q) : key[e] >= key[q[i]]}
    IN  InsertAt(q, 1 + (IF after = {} THEN 0 ELSE Max(after)), e)

InsertTimeout(s, e) ==
    IF e \in Commons
    THEN [s EXCEPT !.common = InsertInOrder(@, s.ev_timeout, e)]
    ELSE [s EXCEPT !.timeheap = min_heap_push(@, s.ev_timeout, e)]

RemoveTimeout(s, e) ==
    IF Contains(s.timeheap, e)
    THEN [s EXCEPT !.timeheap = min_heap_erase(@, s.ev_timeout, e)]
    ELSE [s EXCEPT !.common = RemoveFirst(@, e)]

InsertActive(s, e) ==
    IF IsActive(s, e) THEN s
    ELSE [s EXCEPT !.activequeues[ev_pri(e)] = Append(@, e)]
RemoveActive(s, e) == [s EXCEPT !.activequeues[ev_pri(e)] = RemoveFirst(@, e)]

(* min_heap_elt_is_top reads the union ev_timeout_pos: for an event of a   *)
(* common timeout it is the link to the next event, null in the last one.  *)
IsTop(s, e) == \/ s.timeheap # <<>> /\ Head(s.timeheap) = e
               \/ s.common # <<>> /\ Last(s.common) = e

-----------------------------------------------------------------------------
(* Waking the loop from another thread.                                    *)

EVBASE_NEED_NOTIFY(s, t) == s.running_loop /\ t # "loop"

evthread_notify_base(s) ==
    IF s.is_notify_pending THEN s
    ELSE [s EXCEPT !.is_notify_pending = TRUE, !.notify_byte = TRUE]

NotifyIf(s, needed, t) ==
    IF needed /\ EVBASE_NEED_NOTIFY(s, t) THEN evthread_notify_base(s) ELSE s

-----------------------------------------------------------------------------
(* event_add, event_del and event_active, by thread t with the lock held.  *)

(* "Abort loop": the signal closure that runs e makes no further call.     *)
(* When ev_pncalls outlived its closure the write goes to a dead frame.    *)
AbortCalls(s, e) ==
    IF e \in Signals /\ s.ev_ncalls[e] # 0 /\ s.ev_pncalls[e]
    THEN IF s.current_event = e THEN [s EXCEPT !.ncalls = 0]
         ELSE [s EXCEPT !.stray = TRUE]
    ELSE s

(* The timeout part of event_add_internal: e fires at the time d.          *)
SetTimeout(s, e, d, t) ==
    LET wasTop == HasTimeout(s, e) /\ IsTop(s, e)
        s1 == IF HasTimeout(s, e) THEN RemoveTimeout(s, e) ELSE s
        s2 == IF IsActive(s1, e) /\ "timeout" \in s1.ev_res[e]
              THEN RemoveActive(AbortCalls(s1, e), e) ELSE s1
        s3 == InsertTimeout([s2 EXCEPT !.ev_timeout[e] = d], e)
    IN  NotifyIf(s3, wasTop \/ (e \notin Commons /\ IsTop(s3, e)), t)

(* common_timeout_schedule *)
ScheduleCommon(s, t) == SetTimeout(s, "ctl_timeout", s.ev_timeout[Head(s.common)], t)

AddTimeout(s, e, tv, absolute, t) ==
    LET s1 == IF IsPersistent(e) /\ e \notin Signals /\ ~absolute
              THEN [s EXCEPT !.ev_io_timeout[e] = tv] ELSE s
        s2 == SetTimeout(s1, e, IF absolute THEN tv ELSE gettime(s1) + tv, t)
    IN  IF e \in Commons /\ Head(s2.common) = e THEN ScheduleCommon(s2, t) ELSE s2

(* e joins its descriptor or its signal and the queue of inserted events;  *)
(* the loop is woken when the back end has changed.                        *)
Insert(s, e, t) ==
    LET s1 == [s EXCEPT !.inserted = @ \cup {e}]
    IN  IF e \in Signals THEN NotifyIf(s1, TRUE, t)
        ELSE NotifyIf([s1 EXCEPT !.io = evmap_io_add(@, ev_fd(e), e, ev_events(e))],
                      Added(s.io, ev_fd(e), ev_events(e)) # {}, t)

(* The registration part: evmap_io_add or evmap_signal_add, with evsig_add *)
(* adding the event of the signal socket along with the first signal.      *)
Register(s, e, t) ==
    IF e \notin IoEvents \cup Signals \/ e \in s.inserted \/ IsActive(s, e) THEN s
    ELSE Insert(IF e \in Signals /\ "ev_signal" \notin s.inserted
                THEN Insert(s, "ev_signal", t) ELSE s, e, t)

(* tv is -1 for a null pointer.                                            *)
event_add_internal(s, e, tv, absolute, t) ==
    LET s1 == Register(s, e, t)
    IN  IF tv = -1 THEN s1 ELSE AddTimeout(s1, e, tv, absolute, t)

(* The reverse of Insert, for an event that is inserted.                   *)
Uninsert(s, e, t) ==
    LET s1 == [s EXCEPT !.inserted = @ \ {e}]
    IN  IF e \in Signals THEN NotifyIf(s1, TRUE, t)
        ELSE NotifyIf([s1 EXCEPT !.io = evmap_io_del(@, ev_fd(e), e, ev_events(e))],
                      Removed(s.io, ev_fd(e), ev_events(e)) # {}, t)

event_del_internal(s, e, t) ==
    LET s1 == AbortCalls(s, e)
        s2 == IF HasTimeout(s1, e) THEN RemoveTimeout(s1, e) ELSE s1
        s3 == RemoveActive(s2, e)
    IN  IF e \in s3.inserted THEN Uninsert(s3, e, t) ELSE s3

(* Mutated: a lower queue is not interrupted.                              *)
MarkResultOnly(s, e, res) == [s EXCEPT !.ev_res[e] = {res}]

MarkResult(s, e, res) ==
    [s EXCEPT !.ev_res[e] = {res},
              !.event_continue = @ \/ ev_pri(e) < s.event_running_priority]

(* Mutated: the loop is not woken.                                         *)
QueueActiveSilently(s, e, calls, t) ==
    InsertActive(IF e \in Signals
                 THEN [s EXCEPT !.ev_ncalls[e] = calls, !.ev_pncalls[e] = FALSE]
                 ELSE s, e)

QueueActive(s, e, calls, t) ==
    NotifyIf(InsertActive(IF e \in Signals
                          THEN [s EXCEPT !.ev_ncalls[e] = calls, !.ev_pncalls[e] = FALSE]
                          ELSE s, e), TRUE, t)

event_active_nolock(s, e, res, calls, t) ==
    IF IsActive(s, e) THEN [s EXCEPT !.ev_res[e] = @ \cup {res}]
    ELSE QueueActive(MarkResult(s, e, res), e, calls, t)

(* Events activated one after the other, in the order of the sequence.     *)
ActivateAll(s, es, res, calls) ==
    FoldLeft(LAMBDA x, e : event_active_nolock(x, e, res, calls[e], "loop"), s, es)

(* Mutated: no notify_fn.                                                  *)
ScheduleSilently(s, d, t) ==
    IF Contains(s.deferred, d) THEN s ELSE [s EXCEPT !.deferred = Append(@, d)]

event_deferred_cb_schedule(s, d, t) ==
    IF Contains(s.deferred, d) THEN s
    ELSE NotifyIf([s EXCEPT !.deferred = Append(@, d)], TRUE, t)

event_deferred_cb_cancel(s, d) == [s EXCEPT !.deferred = RemoveFirst(@, d)]

(* Mutated: the loop is not woken.                                         *)
LoopBreakSilently(s, t) == [s EXCEPT !.event_break = TRUE]

event_base_loopbreak(s, t) == NotifyIf([s EXCEPT !.event_break = TRUE], TRUE, t)

event_base_add_virtual(s) == [s EXCEPT !.virtual = @ + 1]

event_base_del_virtual(s, t) ==
    NotifyIf([s EXCEPT !.virtual = @ - 1], s.virtual = 1, t)

-----------------------------------------------------------------------------
(* The loop.  Each operator below yields where the loop thread releases    *)
(* the lock next: the event_base, the place and the timeout of select().   *)

Go(s, place, w) == [b |-> s, at |-> place, wait |-> w]

(* Mutated: running_loop stays set.                                        *)
LeaveLoopRunning(s) == Go([s EXCEPT !.tv_cache = 0], "out", -1)

LeaveLoop(s) == Go([s EXCEPT !.tv_cache = 0, !.running_loop = FALSE], "out", -1)

(* timeout_correct: when the clock was set back, every timeout moves with  *)
(* it, the one of a common list too.                                       *)
timeout_correct(s) ==
    LET now == gettime(s)
        moved == ToSet(s.timeheap) \cup ToSet(s.common)
    IN  [s EXCEPT !.event_tv = now,
                  !.ev_timeout = IF now >= s.event_tv THEN @
                                 ELSE [e \in Events |-> IF e \in moved
                                         THEN @[e] - (s.event_tv - now) ELSE @[e]]]

(* timeout_next: -1 to wait for ever.                                      *)
timeout_next(s) ==
    IF s.timeheap = <<>> THEN -1
    ELSE LET left == s.ev_timeout[Head(s.timeheap)] - gettime(s)
         IN  IF left =< 0 THEN 0 ELSE left

(* The head of the while loop of event_base_loop, up to the dispatch call, *)
(* with the flags f.                                                       *)
LoopTop(s0, f) ==
    LET s1 == [s0 EXCEPT !.event_continue = FALSE]
        s2 == timeout_correct(s1)
    IN  IF s1.event_gotterm \/ s1.event_break THEN LeaveLoop(s1)
        ELSE IF ~event_haveevents(s2) /\ N_ACTIVE_CALLBACKS(s2) = 0 THEN LeaveLoop(s2)
        ELSE Go([s2 EXCEPT !.event_tv = gettime(s2), !.tv_cache = 0,
                           !.watched = fd_set_copy(s2.io)],
                "select",
                IF N_ACTIVE_CALLBACKS(s2) = 0 /\ f # "nonblock"
                THEN timeout_next(s2) ELSE 0)

(* The end of event_process_active, which processed events unless n is 0.  *)
EndProcess(s, n) ==
    LET s1 == [s EXCEPT !.event_running_priority = -1]
    IN  IF flags = "once" /\ N_ACTIVE_CALLBACKS(s1) = 0 /\ n # 0
        THEN LeaveLoop(s1) ELSE LoopTop(s1, flags)

(* event_process_deferred_callbacks, from the n-th callback on.            *)
NextDeferred(s, n) ==
    IF s.deferred = <<>> \/ n = MaxDeferred THEN EndProcess(s, s.count)
    ELSE Go([s EXCEPT !.deferred = Tail(@), !.dcount = n], "deferred", -1)

(* One turn of the while loop of event_signal_closure.                     *)
SignalCall(s, e) ==
    Go([s EXCEPT !.ncalls = @ - 1, !.ev_ncalls[e] = s.ncalls - 1,
                 !.ev_pncalls[e] = s.ncalls > 1], "callback", -1)

event_signal_closure(s, e) ==
    LET s1 == [s EXCEPT !.ncalls = s.ev_ncalls[e]]
    IN  IF s1.ncalls = 0 THEN Go(s1, "no_call", -1) ELSE SignalCall(s1, e)

(* event_persist_closure: the next firing is one interval after the last   *)
(* one was due, or after now if that is past.                              *)
NextFiring(s, e) ==
    LET now == gettime(s)
        from == IF "timeout" \in s.ev_res[e] THEN s.ev_timeout[e] ELSE now
    IN  IF from + s.ev_io_timeout[e] < now THEN now + s.ev_io_timeout[e]
        ELSE from + s.ev_io_timeout[e]

event_persist_closure(s, e) ==
    Go(IF s.ev_io_timeout[e] = 0 THEN s
       ELSE event_add_internal(s, e, NextFiring(s, e), TRUE, "loop"), "callback", -1)

(* The body of event_process_active_single_queue up to the callback.       *)
StartEvent(s0) ==
    LET e == Head(s0.activequeues[s0.event_running_priority])
        s1 == IF IsPersistent(e) THEN RemoveActive(s0, e)
              ELSE event_del_internal(s0, e, "loop")
        s2 == [s1 EXCEPT !.count = IF e \in Internal THEN @ ELSE @ + 1,
                         !.current_event = e, !.waiters = FALSE]
    IN  CASE e \in Signals -> event_signal_closure(s2, e)
          [] IsPersistent(e) /\ e \notin Signals -> event_persist_closure(s2, e)
          [] OTHER -> Go(s2, "callback", -1)

(* event_process_active, from queue i on.                                  *)
StartQueue(s, i) ==
    LET nonempty == {q \in i..1 : s.activequeues[q] # <<>>}
    IN  IF nonempty = {} THEN NextDeferred([s EXCEPT !.count = 0], 0)
        ELSE StartEvent([s EXCEPT !.event_running_priority = Min(nonempty), !.count = 0])

(* The lock is taken again after the callback of current_event.            *)
FinishEvent(s0) ==
    LET s == [s0 EXCEPT !.current_event = NoEvent, !.waiters = FALSE]
        q == s.event_running_priority
    IN  IF s.event_break THEN EndProcess(s, -1)
        ELSE IF ~s.event_continue /\ s.activequeues[q] # <<>> THEN StartEvent(s)
        ELSE IF s.count > 0 THEN NextDeferred(s, 0)
        ELSE StartQueue(s, q + 1)

(* timeout_process: the top of the heap is activated while it is due.      *)
FireTop(s) ==
    IF s.timeheap = <<>> \/ s.ev_timeout[Head(s.timeheap)] > gettime(s) THEN s
    ELSE LET e == Head(s.timeheap)
         IN  event_active_nolock(event_del_internal(s, e, "loop"), e, "timeout", 1, "loop")
timeout_process(s) == FoldLeft(LAMBDA x, e : FireTop(x), s, s.timeheap)

(* common_timeout_callback: the same for the list of a common timeout.     *)
FireCommon(s) ==
    IF s.common = <<>> \/ s.ev_timeout[Head(s.common)] > gettime(s) THEN s
    ELSE LET e == Head(s.common)
         IN  event_active_nolock(event_del_internal(s, e, "loop"), e, "timeout", 1, "loop")
(* Mutated: the rest of the list is not scheduled again.                   *)
CommonCallbackOnce(s) == FoldLeft(LAMBDA x, e : FireCommon(x), s, s.common)

common_timeout_callback(s) ==
    LET s1 == FoldLeft(LAMBDA x, e : FireCommon(x), s, s.common)
    IN  IF s1.common = <<>> THEN s1 ELSE ScheduleCommon(s1, "loop")

(* After the dispatch call: the rest of the while loop of event_base_loop. *)
AfterDispatch(s0) ==
    LET s == timeout_process([s0 EXCEPT !.tv_cache = clock])
    IN  IF N_ACTIVE_CALLBACKS(s) > 0 THEN StartQueue(s, 0)
        ELSE IF flags = "nonblock" THEN LeaveLoop(s) ELSE LoopTop(s, flags)

(* Takes such a step; the broadcast wakes the thread that waits.           *)
Step(g) == /\ b' = g.b
           /\ at' = g.at
           /\ wait' = g.wait

Broadcast == other' = IF b.waiters THEN [other EXCEPT !.woken = TRUE] ELSE other

-----------------------------------------------------------------------------
(* Actions of the loop thread.                                             *)

event_base_loop(f) ==
    /\ at = "out" /\ CallsLeft
    /\ flags' = f /\ ops' = ops + 1
    /\ Step(LoopTop([b EXCEPT !.running_loop = TRUE, !.tv_cache = 0,
                              !.event_gotterm = FALSE, !.event_break = FALSE], f))
    /\ UNCHANGED <<program, clock, ready, caught, other>>

(* The descriptors select() may report.                                    *)
Readable == ready \cup (IF b.notify_byte THEN {<<"th_notify", "read">>} ELSE {})
                  \cup (IF \E e \in Signals : caught[e] > 0 THEN {<<"ev_signal", "read">>} ELSE {})

(* evmap_io_active: every event of the descriptor for what is ready; one   *)
(* that was deleted in the meantime is in no list.                         *)
evmap_io_active(s, fd, k) ==
    FoldLeft(LAMBDA x, e : IF k \in ev_events(e) THEN event_active_nolock(x, e, k, 1, "loop") ELSE x,
             s, s.io.events[fd])

ActivateFds(s, fds, k) == FoldLeft(LAMBDA x, fd : evmap_io_active(x, fd, k), s, fds)

(* win32_dispatch: select() returns what it was given and found ready, and *)
(* readable descriptors are treated first, starting at a random one.       *)
win32_dispatch ==
    /\ at = "select"
    /\ LET found == b.watched \cap Readable
           orders(k) == SetToSeqs({p[1] : p \in {q \in found : q[2] = k}})
       IN  /\ found # {} \/ wait = 0
           /\ \E rs \in orders("read"), ws \in orders("write") :
                 Step(AfterDispatch(ActivateFds(ActivateFds(b, rs, "read"), ws, "write")))
    /\ UNCHANGED <<program, flags, clock, ready, caught, other, ops>>

(* select() fails and event_base_loop returns -1.                          *)
DispatchFails ==
    /\ at = "select"
    /\ Step(LeaveLoop(b))
    /\ UNCHANGED <<program, flags, clock, ready, caught, other, ops>>

(* evthread_notify_drain_default reads the bytes without the lock ...      *)
DrainNotify ==
    /\ at = "callback" /\ b.current_event = "th_notify"
    /\ b' = [b EXCEPT !.notify_byte = FALSE]
    /\ at' = "drained"
    /\ UNCHANGED <<program, flags, wait, clock, ready, caught, other, ops>>

(* ... and clears the flag under it.                                       *)
ClearNotify ==
    /\ at = "drained"
    /\ Step(FinishEvent([b EXCEPT !.is_notify_pending = FALSE]))
    /\ Broadcast
    /\ UNCHANGED <<program, flags, clock, ready, caught, ops>>

(* evsig_cb: reads the numbers of the signals and activates their events.  *)
evsig_cb ==
    /\ at = "callback" /\ b.current_event = "ev_signal"
    /\ LET hit == {e \in Signals \cap b.inserted : caught[e] > 0}
       IN  Step(FinishEvent(ActivateAll(b, SetToSeq(hit), "signal", caught)))
    /\ caught' = [e \in Signals |-> 0]
    /\ Broadcast
    /\ UNCHANGED <<program, flags, clock, ready, ops>>

CommonTimeoutCallback ==
    /\ at = "callback" /\ b.current_event = "ctl_timeout"
    /\ Step(FinishEvent(common_timeout_callback(b)))
    /\ Broadcast
    /\ UNCHANGED <<program, flags, clock, ready, caught, ops>>

event_loopexit_cb ==
    /\ at = "callback" /\ b.current_event = "loopexit"
    /\ Step(FinishEvent([b EXCEPT !.event_gotterm = TRUE]))
    /\ Broadcast
    /\ UNCHANGED <<program, flags, clock, ready, caught, ops>>

(* A callback of the user returns, having read the descriptor or not.      *)
CallbackReturns ==
    /\ at = "callback" /\ b.current_event \in Users
    /\ LET again == b.current_event \in Signals /\ b.ncalls > 0
       IN  IF again /\ ~b.event_break
           THEN Step(SignalCall(b, b.current_event)) /\ UNCHANGED other
           ELSE /\ Step(FinishEvent(IF again THEN [b EXCEPT !.ev_pncalls[b.current_event] = FALSE]
                                    ELSE b))
                /\ Broadcast
    /\ ready' \in {ready, ready \ ({ev_fd(b.current_event)} \X Kinds)}
    /\ UNCHANGED <<program, flags, clock, caught, ops>>

(* A signal event whose calls were cancelled after it was activated.       *)
NoCallMade ==
    /\ at = "no_call"
    /\ Step(FinishEvent(b))
    /\ Broadcast
    /\ UNCHANGED <<program, flags, clock, ready, caught, ops>>

DeferredReturns ==
    /\ at = "deferred"
    /\ Step(IF b.event_break THEN EndProcess(b, b.count) ELSE NextDeferred(b, b.dcount + 1))
    /\ UNCHANGED <<program, flags, clock, ready, caught, other, ops>>

-----------------------------------------------------------------------------
(* Calls of the API, by the loop thread outside the loop or in a callback  *)
(* of the user, or by the other thread.                                    *)

MayCall(t) ==
    /\ CallsLeft /\ at # "freed"
    /\ \/ t = "other" /\ other.op = "none"
       \/ t = "loop" /\ \/ at \in {"out", "deferred"}
                        \/ at = "callback" /\ b.current_event \in Users

Called == /\ ops' = ops + 1
          /\ UNCHANGED <<program, at, flags, wait, clock, ready, caught>>

(* EVTHREAD_COND_WAIT on current_event_cond, once.                         *)
Block(op, e, tv, s) ==
    /\ b' = [s EXCEPT !.waiters = TRUE]
    /\ other' = [op |-> op, ev |-> e, tv |-> tv, woken |-> FALSE]

IsRunning(e, t) == t = "other" /\ b.current_event = e

Timeouts(e) == {-1} \cup (IF e \in Commons THEN {CommonDelay}
                          ELSE IF e \in Untimed THEN {} ELSE Delays)

event_add(e, t) ==
    /\ MayCall(t)
    /\ \E tv \in Timeouts(e) :
          IF IsRunning(e, t) /\ e \in Signals THEN Block("add", e, tv, b)
          ELSE /\ b' = event_add_internal(b, e, tv, FALSE, t)
               /\ UNCHANGED other
    /\ Called

event_del(e, t) ==
    /\ MayCall(t)
    /\ IF IsRunning(e, t) THEN Block("del", e, -1, b)
       ELSE /\ b' = event_del_internal(b, e, t)
            /\ UNCHANGED other
    /\ Called

event_active(e, t) ==
    /\ MayCall(t)
    /\ IF IsRunning(e, t) /\ e \in Signals /\ ~IsActive(b, e)
       THEN Block("active", e, -1, MarkResult(b, e, "signal"))
       ELSE /\ b' = event_active_nolock(b, e, IF e \in Signals THEN "signal" ELSE "read", 1, t)
            /\ UNCHANGED other
    /\ Called

(* The other thread has the lock again and goes on after the wait.         *)
Resume ==
    /\ other.op # "none" /\ other.woken
    /\ b' = CASE other.op = "add" -> event_add_internal(b, other.ev, other.tv, FALSE, "other")
              [] other.op = "del" -> event_del_internal(b, other.ev, "other")
              [] other.op = "active" -> QueueActive(b, other.ev, 1, "other")
    /\ other' = Idle
    /\ UNCHANGED <<program, at, flags, wait, clock, ready, caught, ops>>

ScheduleDeferred(d, t) ==
    /\ MayCall(t)
    /\ b' = event_deferred_cb_schedule(b, d, t)
    /\ Called /\ UNCHANGED other

CancelDeferred(d, t) ==
    /\ MayCall(t)
    /\ b' = event_deferred_cb_cancel(b, d)
    /\ Called /\ UNCHANGED other

LoopBreak(t) ==
    /\ MayCall(t)
    /\ b' = event_base_loopbreak(b, t)
    /\ Called /\ UNCHANGED other

(* event_base_loopexit through event_base_once: at most one at a time.     *)
event_base_loopexit(t) ==
    /\ MayCall(t)
    /\ ~HasTimeout(b, "loopexit") /\ ~IsActive(b, "loopexit") /\ b.current_event # "loopexit"
    /\ \E tv \in Delays : b' = event_add_internal(b, "loopexit", tv, FALSE, t)
    /\ Called /\ UNCHANGED other

(* The virtual event that an overlapped bufferevent keeps.                 *)
Virtual(t) ==
    /\ MayCall(t)
    /\ b' = IF b.virtual = 0 THEN event_base_add_virtual(b) ELSE event_base_del_virtual(b, t)
    /\ Called /\ UNCHANGED other

(* event_reinit in the child of a fork, with new sockets.                  *)
event_reinit ==
    /\ at = "out" /\ other.op = "none" /\ CallsLeft
    /\ LET lost == {"th_notify", "ev_signal"}
           signals == IF b.inserted \cap Signals = {} THEN {} ELSE {"ev_signal"}
           queue == SetToSeq((b.inserted \cap IoEvents) \ lost)
                      \o SetToSeq(signals) \o <<"th_notify">>
       IN  b' = [RemoveActive(RemoveActive(b, "th_notify"), "ev_signal") EXCEPT
                   !.inserted = (@ \ lost) \cup signals \cup {"th_notify"},
                   !.io = FoldLeft(LAMBDA io, e : evmap_io_add(io, ev_fd(e), e, ev_events(e)),
                                   win32_init(Descriptors), queue),
                   !.notify_byte = FALSE,
                   !.deaf = b.is_notify_pending]
    /\ caught' = [e \in Signals |-> 0]
    /\ ops' = ops + 1
    /\ UNCHANGED <<program, at, flags, wait, clock, ready, other>>

DeleteAll(s, es) == FoldLeft(LAMBDA x, e : event_del_internal(x, e, "loop"), s, SetToSeq(es))

event_base_free ==
    /\ at = "out" /\ other.op = "none"
    /\ LET s1 == DeleteAll(b, {"th_notify"})
           s2 == DeleteAll(s1, s1.inserted \ Internal)
           s3 == DeleteAll(s2, ToSet(s2.timeheap))
           s4 == DeleteAll(s3, {"ctl_timeout"} \cup ToSet(s3.common))
           s5 == DeleteAll(s4, (ToSet(s4.activequeues[0]) \cup ToSet(s4.activequeues[1])) \ Internal)
       IN  b' = DeleteAll(s5, {"ev_signal"})
    /\ at' = "freed"
    /\ UNCHANGED <<program, flags, wait, clock, ready, caught, other, ops>>

-----------------------------------------------------------------------------
(* The environment.                                                        *)

Tick ==
    /\ clock < MaxClock /\ at # "freed"
    /\ clock' = clock + 1
    /\ wait' = IF wait > 0 THEN wait - 1 ELSE wait
    /\ UNCHANGED <<b, program, at, flags, ready, caught, other, ops>>

ClockSetBack ==
    /\ clock > 1 /\ CallsLeft /\ at # "freed"
    /\ clock' = clock - 1
    /\ ops' = ops + 1
    /\ UNCHANGED <<b, program, at, flags, wait, ready, caught, other>>

DataArrives ==
    /\ at # "freed"
    /\ \E e \in program \cap (Readers \cup Writers) : \E k \in ev_events(e) :
          <<ev_fd(e), k>> \notin ready /\ ready' = ready \cup {<<ev_fd(e), k>>}
    /\ UNCHANGED <<b, program, at, flags, wait, clock, caught, other, ops>>

(* evsig_handler, for a signal whose handler evsig_add installed.          *)
evsig_handler ==
    /\ at # "freed"
    /\ \E e \in Signals \cap b.inserted :
          caught[e] < 2 /\ caught' = [caught EXCEPT ![e] = @ + 1]
    /\ UNCHANGED <<b, program, at, flags, wait, clock, ready, other, ops>>

-----------------------------------------------------------------------------
(* event_base_new_with_config, evthread_make_base_notifiable               *)
event_base_new ==
    [inserted |-> {"th_notify"},
     io |-> evmap_io_add(win32_init(Descriptors), "th_notify", "th_notify", {"read"}),
     activequeues |-> [q \in 0..1 |-> <<>>],
     timeheap |-> <<>>, common |-> <<>>, deferred |-> <<>>,
     ev_res |-> [e \in Events |-> {}], ev_timeout |-> [e \in Events |-> 0],
     ev_io_timeout |-> [e \in Events |-> 0], ev_ncalls |-> [e \in Signals |-> 0],
     ev_pncalls |-> [e \in Signals |-> FALSE], ncalls |-> 0,
     current_event |-> NoEvent, waiters |-> FALSE, watched |-> {},
     is_notify_pending |-> FALSE, notify_byte |-> FALSE, deaf |-> FALSE, stray |-> FALSE,
     event_gotterm |-> FALSE, event_break |-> FALSE, event_continue |-> FALSE,
     event_running_priority |-> -1, running_loop |-> FALSE,
     tv_cache |-> 0, event_tv |-> 1, virtual |-> 0, count |-> 0, dcount |-> 0]

Init ==
    /\ b = event_base_new
    /\ program \in Programs
    /\ at = "out" /\ flags = "none" /\ wait = -1
    /\ clock = 1 /\ ready = {} /\ caught = [e \in Signals |-> 0]
    /\ other = Idle /\ ops = 0

LoopStep ==
    \/ win32_dispatch \/ DrainNotify \/ ClearNotify \/ evsig_cb
    \/ CommonTimeoutCallback \/ event_loopexit_cb \/ CallbackReturns
    \/ NoCallMade \/ DeferredReturns

Call(t) ==
    \/ \E e \in program \cap Users : event_add(e, t) \/ event_del(e, t) \/ event_active(e, t)
    \/ \E d \in program \cap Deferreds : ScheduleDeferred(d, t) \/ CancelDeferred(d, t)
    \/ LoopBreak(t) \/ event_base_loopexit(t) \/ Virtual(t)

Next ==
    \/ \E f \in {"none", "once", "nonblock"} : event_base_loop(f)
    \/ LoopStep \/ DispatchFails
    \/ \E t \in {"loop", "other"} : Call(t)
    \/ Resume \/ event_reinit \/ event_base_free
    \/ Tick \/ ClockSetBack \/ DataArrives \/ evsig_handler

Spec == Init /\ [][Next]_vars

(* The operating system runs both threads, and callbacks return: a thread  *)
(* that can go on for ever does go on.  The two conjuncts are              *)
(* WF_vars(LoopStep) and WF_vars(Resume), with the enabling conditions and *)
(* the steps written out, which TLC evaluates faster.                      *)
LoopCanStep == \/ at \in {"callback", "drained", "no_call", "deferred"}
               \/ at = "select" /\ (wait = 0 \/ b.watched \cap Readable # {})
LoopMoves == /\ ops' = ops /\ (b' # b \/ at' # at)
             /\ other'.op = other.op
Fairness == /\ []<>~LoopCanStep \/ []<><<LoopMoves>>_vars
            /\ []<>~other.woken
FairSpec == Spec /\ Fairness

-----------------------------------------------------------------------------
(* Every queue holds events of the base, and the loop thread is in one of  *)
(* the places where the lock is released.                                  *)
TypeOK ==
    /\ at \in Positions /\ other.op \in {"none", "add", "del", "active"}
    /\ b.inserted \subseteq Events /\ b.virtual \in 0..1
    /\ \A q \in 0..1 : \A e \in ToSet(b.activequeues[q]) : e \in Events /\ ev_pri(e) = q
    /\ ToSet(b.timeheap) \subseteq Events /\ ToSet(b.common) \subseteq Commons
    /\ ToSet(b.deferred) \subseteq Deferreds
    /\ b.running_loop <=> at \notin {"out", "freed"}
    /\ b.current_event # NoEvent <=> at \in {"callback", "drained", "no_call"}

(* event_base_assert_ok: the heap is a heap and the common list is sorted, *)
(* whatever the clock did; and no event is twice in a queue.               *)
QueuesOK ==
    /\ IsHeap(b.timeheap, b.ev_timeout)
    /\ \A i \in 2..Len(b.common) : b.ev_timeout[b.common[i - 1]] =< b.ev_timeout[b.common[i]]
    /\ \A q \in {b.timeheap, b.common, b.deferred, b.activequeues[0], b.activequeues[1]} :
          IsInjective(q)
    /\ ToSet(b.timeheap) \cap ToSet(b.common) = {}

(* evmap_io_add, evmap_io_del, do_fd_clear: for every descriptor the list  *)
(* holds the inserted events, the counters count them, and the arrays for  *)
(* select() hold the descriptor, at the place it remembers, exactly when   *)
(* an event needs it, whatever was added and deleted before.               *)
MapOK ==
    \A fd \in Descriptors :
      LET on == {e \in b.inserted \cap IoEvents : ev_fd(e) = fd}
      IN  /\ IsInjective(b.io.events[fd]) /\ ToSet(b.io.events[fd]) = on
          /\ \A k \in Kinds :
                /\ b.io.n[fd][k] = Cardinality({e \in on : k \in ev_events(e)})
                /\ {i \in 1..Len(b.io.set[k]) : b.io.set[k][i] = fd}
                     = (IF b.io.n[fd][k] = 0 THEN {} ELSE {b.io.pos[fd][k]})

(* evthread_notify_base: the loop does not sleep over what another thread  *)
(* did.  While it is in select() a byte waits for it, or it polls, when a  *)
(* callback is due, the loop was told to break, a descriptor was added     *)
(* that select() was not given, the earliest timeout is earlier than       *)
(* select() knows, or nothing is left to wait for.  (A base that was       *)
(* reinitialised with a notification pending stays deaf: event_reinit does *)
(* not clear is_notify_pending.)                                           *)
Woken == <<"th_notify", "read">> \in b.watched /\ b.notify_byte
NoLostWakeup ==
    at = "select" /\ ~b.deaf =>
      /\ N_ACTIVE_CALLBACKS(b) > 0 \/ b.event_break => Woken \/ wait = 0
      /\ \A e \in b.inserted \cap IoEvents :
            {ev_fd(e)} \X ev_events(e) \subseteq b.watched \/ Woken \/ wait = 0
      /\ b.timeheap # <<>> =>
            \/ Woken \/ wait = 0
            \/ wait > 0 /\ wait =< b.ev_timeout[Head(b.timeheap)] - b.event_tv
      /\ ~event_haveevents(b) => Woken \/ wait >= 0

(* common_timeout_schedule: as long as events wait for the common timeout, *)
(* the internal timer of the list is due no later than the first of them,  *)
(* or its callback is.                                                     *)
CommonTimeoutScheduled ==
    b.common # <<>> =>
      \/ /\ Contains(b.timeheap, "ctl_timeout")
         /\ b.ev_timeout["ctl_timeout"] =< b.ev_timeout[Head(b.common)]
      \/ IsActive(b, "ctl_timeout") \/ b.current_event = "ctl_timeout"

(* event_process_active: a callback of priority 1 starts only when nothing *)
(* of priority 0 is active, even when another thread or the callback       *)
(* before it activated something.  (No signal of the run is Urgent: one    *)
(* that another thread activates again while it runs compares priorities   *)
(* before it waits, so that what it learned is stale afterwards.)          *)
PriorityOrder ==
    [][b'.current_event # b.current_event /\ b'.current_event # NoEvent
         /\ ev_pri(b'.current_event) = 1 => b'.activequeues[0] = <<>>]_vars

(* The assertions of event_base_free: it leaves no queue with an event.    *)
FreedEmpty ==
    at = "freed" => /\ N_ACTIVE_EVENTS(b) = 0
                    /\ b.timeheap = <<>> /\ b.common = <<>> /\ b.inserted = {}

(* event_deferred_cb_schedule: a scheduled callback runs, unless it is     *)
(* cancelled or the loop returns.                                          *)
DeferredRuns ==
    \A d \in Deferreds :
      (b.running_loop /\ ~b.deaf /\ Contains(b.deferred, d))
        ~> (~b.running_loop \/ ~Contains(b.deferred, d))

(* event_base_loopbreak: the loop returns, whichever thread asks.          *)
BreakReturns == (b.running_loop /\ ~b.deaf /\ b.event_break) ~> ~b.running_loop

(* event_del waits for the callback it finds running, so that "when this   *)
(* function returns, it will be safe to free the user-supplied argument"   *)
(* (event.c, event_del_internal).                                          *)
DelWaitsForCallback ==
    [][other.op = "del" /\ other'.op = "none" => b'.current_event # other.ev]_vars

=============================================================================
