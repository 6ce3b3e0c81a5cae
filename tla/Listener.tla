------------------------------ MODULE Listener ------------------------------
(***************************************************************************)
(* A connection listener (listener.c), of either kind: "event" waits for   *)
(* EV_READ on the listening socket and accepts in the loop, "iocp" keeps   *)
(* accepting sockets with an AcceptEx each, whose completions arrive on    *)
(* the workers of the port and schedule a deferred callback in the loop.   *)
(*                                                                         *)
(* The loop thread runs the callbacks; the user calls the listener from    *)
(* there or from another thread, in any order.  The lock of the listener   *)
(* is held except around callbacks of the user, so a step goes from one    *)
(* such point to the next.  A behaviour ends at the first use of freed     *)
(* memory or deadlock: trouble says which.                                 *)
(***************************************************************************)
EXTENDS Integers, Sequences, FiniteSets, SequencesExt

CONSTANTS Accepting,      \* the accepting sockets (4000 in the code)
          MaxConnections, \* bound: connections that arrive
          MaxCalls        \* bound: calls of the user before it frees

NoSocket == "none"

ASSUME ListenerAssumption ==
    /\ IsFiniteSet(Accepting) /\ NoSocket \notin Accepting
    /\ MaxConnections \in Nat /\ MaxCalls \in Nat

VARIABLES kind,       \* "event" or "iocp"
          lev,        \* struct evconnlistener
          as,         \* struct accepting_socket, for each of them, and what
                      \* the system does with its overlapped structure
          deferred,   \* accepting sockets in the queue of deferred callbacks
          at,         \* where the loop thread is, and for which socket
          trouble,    \* "none", "freed memory" or "deadlock"
          arrived,    \* connections that arrived
          calls       \* calls of the user

vars == <<kind, lev, as, deferred, at, trouble, arrived, calls>>

Idle == [place |-> "idle", a |-> NoSocket]
Threads == {"loop", "other"}

(* The socket in s is INVALID_SOCKET, waiting in AcceptEx, connected, or   *)
(* broken: its AcceptEx failed.                                            *)
SocketStates == {"invalid", "pending", "connected", "broken"}

Waiting == arrived > lev.accepted

-----------------------------------------------------------------------------
(* Virtual events and references.                                          *)

iocp_listener_event_add(l) == [l EXCEPT !.event_added = TRUE]
iocp_listener_event_del(l) == [l EXCEPT !.event_added = FALSE]

(* stop_accepting closes the socket; an AcceptEx in progress fails, and    *)
(* its completion is on its way.  With shutdown, whoever hears of the      *)
(* socket next frees it.                                                   *)
stop_accepting(s, shutdown) ==
    IF s.free_on_cb \/ s.s = "invalid" \/ s.freed THEN s
    ELSE [s EXCEPT !.s = "invalid", !.free_on_cb = shutdown,
                   !.failed = IF s.s = "pending" THEN @ + 1 ELSE @]

(* iocp_listener_disable_impl, on the record of listener, sockets and      *)
(* deferred callbacks.                                                     *)
DisableImpl(g, shutdown) ==
    [g EXCEPT !.lev = [iocp_listener_event_del(g.lev) EXCEPT
                         !.open = @ /\ ~(shutdown /\ g.lev.close_on_free)],
              !.as = [a \in Accepting |-> stop_accepting(g.as[a], shutdown)]]

(* ops->destroy, which is also ops->shutdown, acts once.                   *)
iocp_listener_destroy(g) ==
    IF g.lev.shutting_down THEN g
    ELSE DisableImpl([g EXCEPT !.lev.shutting_down = TRUE], TRUE)

event_listener_destroy(g) ==
    [g EXCEPT !.lev.event_added = FALSE,
              !.lev.open = @ /\ ~g.lev.close_on_free]

Destroy(g) == IF kind = "iocp" THEN iocp_listener_destroy(g) ELSE event_listener_destroy(g)

(* Mutated: the listener is freed one reference early.                     *)
DecrefEarly(g) ==
    LET g1 == [g EXCEPT !.lev.refcnt = @ - 1]
    IN  IF g1.lev.refcnt =< 1 THEN [Destroy(g1) EXCEPT !.lev.freed = TRUE] ELSE g1

listener_decref_and_unlock(g) ==
    LET g1 == [g EXCEPT !.lev.refcnt = @ - 1]
    IN  IF g1.lev.refcnt = 0 THEN [Destroy(g1) EXCEPT !.lev.freed = TRUE] ELSE g1

(* free_and_unlock_accepting_socket, then the reference it had.            *)
FreeAccepting(g, a) ==
    listener_decref_and_unlock([g EXCEPT !.as[a].freed = TRUE, !.as[a].s = "invalid"])

Global == [lev |-> lev, as |-> as, deferred |-> deferred]
Become(g) == lev' = g.lev /\ as' = g.as /\ deferred' = g.deferred

(* event_deferred_cb_schedule.                                             *)
Schedule(g, a) ==
    IF Contains(g.deferred, a) THEN g ELSE [g EXCEPT !.deferred = Append(@, a)]

-----------------------------------------------------------------------------
(* Starting to accept.                                                     *)

(* How start_accepting ends: socket() fails, the port refuses the socket,  *)
(* or AcceptEx is pending, succeeds at once, or fails at once.  On a       *)
(* listening socket that is closed it does not succeed; it may be pending, *)
(* called just before the socket was closed.                               *)
Outcomes == {"nosocket", "refused", "pending", "success", "error"}

Possible(o) == o = "success" => lev.open /\ Waiting

(* AcceptEx puts the new socket into s, whatever was there.  After a       *)
(* success at once a completion is on its way all the same.                *)
AcceptEx(s, o) ==
    [s EXCEPT !.s = CASE o = "pending" -> "pending"
                      [] o = "success" -> "connected"
                      [] OTHER -> "broken",
              !.ok = IF o = "success" THEN @ + 1 ELSE @,
              !.strays = IF s.s = "pending" THEN @ + 1 ELSE @,
              !.error = @ \/ o = "error"]

Started(s, o) ==
    CASE o = "nosocket" -> [s EXCEPT !.error = TRUE]
      [] o = "refused" -> [s EXCEPT !.refused = TRUE]
      [] OTHER -> [AcceptEx(s, o) EXCEPT !.refused = FALSE]

(* start_accepting for each of the sockets: errors and a success at once   *)
(* schedule the callback.  The socket that it creates before it looks at   *)
(* enabled is lost when the listener is disabled.                          *)
start_accepting(g, sockets, outcome) ==
    IF ~g.lev.enabled THEN g
    ELSE [g EXCEPT
            !.as = [a \in Accepting |->
                      IF a \in sockets THEN Started(g.as[a], outcome[a]) ELSE g.as[a]],
            !.lev.accepted = @ + Cardinality({a \in sockets : outcome[a] = "success"}),
            !.deferred = @ \o SetToSeq({a \in sockets :
                                          /\ outcome[a] \notin {"refused", "pending"}
                                          /\ ~Contains(g.deferred, a)})]

(* Mutated: a socket that was accepting before is not started again.       *)
EnableForgets(g, outcome) ==
    start_accepting([g EXCEPT !.lev = iocp_listener_event_add(@)],
                    {a \in Accepting : /\ ~g.as[a].free_on_cb /\ ~g.as[a].freed
                                       /\ g.as[a].s = "invalid" /\ g.as[a].failed = 0},
                    outcome)

iocp_listener_enable(g, outcome) ==
    start_accepting([g EXCEPT !.lev = iocp_listener_event_add(@)],
                    {a \in Accepting : /\ ~g.as[a].free_on_cb /\ ~g.as[a].freed
                                       /\ g.as[a].s = "invalid"},
                    outcome)

(* A choice for every socket, with no more connections than are waiting.   *)
Starts ==
    IF kind = "event" THEN {[a \in Accepting |-> "pending"]}
    ELSE {f \in [Accepting -> Outcomes] :
            /\ \A a \in Accepting : Possible(f[a])
            /\ Cardinality({a \in Accepting : f[a] = "success"}) =< arrived - lev.accepted}

(* evconnlistener_enable with the lock held: ops->enable if there is a     *)
(* callback.                                                               *)
Enabled(g, outcome) ==
    LET g1 == [g EXCEPT !.lev.enabled = TRUE]
    IN  CASE ~g.lev.cb -> g1
          [] g.lev.cb /\ kind = "iocp" -> iocp_listener_enable(g1, outcome)
          [] g.lev.cb /\ kind = "event" -> [g1 EXCEPT !.lev.event_added = TRUE]

-----------------------------------------------------------------------------
(* Calls of the user.                                                      *)

(* The loop thread may call outside of callbacks or in one of its own, the *)
(* other thread whenever it gets the lock: never while the loop has it, or *)
(* left it locked.                                                         *)
MayCall(t) ==
    /\ lev.user
    /\ t = "loop" => at.place \in {"idle", "cb", "errorcb"}
    /\ t = "other" => lev.threadsafe /\ at.place # "accept" /\ ~lev.leaked

Call(t) == MayCall(t) /\ calls < MaxCalls /\ calls' = calls + 1

(* A thread that took the lock of the listener waits for the lock of an    *)
(* accepting socket; the loop thread has that one and waits for the first. *)
(* What the call did before is seen by nobody.                             *)
LocksCross(sockets) == at.place = "reporting" /\ at.a \in sockets

(* event_del waits until the callback of the event has returned, with the  *)
(* lock of the listener held, which the callback needs to return.          *)
DelWaits(t) == kind = "event" /\ t = "other" /\ at # Idle

Deadlock == trouble' = "deadlock" /\ UNCHANGED <<lev, as, deferred>>
Proceed(g) == trouble' = trouble /\ Become(g)

evconnlistener_enable(t) ==
    /\ Call(t)
    /\ IF lev.cb /\ LocksCross(Accepting) THEN Deadlock
       ELSE \E outcome \in Starts : Proceed(Enabled(Global, outcome))
    /\ UNCHANGED <<kind, at, arrived>>

evconnlistener_disable(t) ==
    /\ Call(t)
    /\ IF DelWaits(t) \/ LocksCross(Accepting) THEN Deadlock
       ELSE Proceed(LET g == [Global EXCEPT !.lev.enabled = FALSE]
                    IN  IF kind = "iocp" THEN DisableImpl(g, FALSE)
                        ELSE [g EXCEPT !.lev.event_added = FALSE])
    /\ UNCHANGED <<kind, at, arrived>>

(* evconnlistener_set_cb, with a callback or a null pointer.               *)
evconnlistener_set_cb(t) ==
    /\ Call(t)
    /\ \E cb \in BOOLEAN :
          LET g == [Global EXCEPT !.lev.cb = cb]
              enable == lev.enabled /\ ~lev.cb
          IN  IF enable /\ cb /\ LocksCross(Accepting) THEN Deadlock
              ELSE \E outcome \in Starts :
                     Proceed(IF enable THEN Enabled(g, outcome) ELSE g)
    /\ UNCHANGED <<kind, at, arrived>>

(* evconnlistener_set_error_cb: an overlapped listener takes the same      *)
(* steps with and without an error callback.                               *)
evconnlistener_set_error_cb(t) ==
    /\ kind = "event" /\ Call(t)
    /\ \E errorcb \in BOOLEAN : lev' = [lev EXCEPT !.errorcb = errorcb]
    /\ UNCHANGED <<kind, as, deferred, at, trouble, arrived>>

(* evconnlistener_free: the last reference of an event listener goes at    *)
(* once unless its callback runs.                                          *)
evconnlistener_free(t) ==
    /\ MayCall(t)
    /\ IF (DelWaits(t) /\ lev.refcnt = 1) \/ LocksCross(Accepting) THEN Deadlock
       ELSE LET g == [Global EXCEPT !.lev.cb = FALSE, !.lev.errorcb = FALSE,
                                    !.lev.user = FALSE]
            IN  Proceed(listener_decref_and_unlock(
                          IF kind = "iocp" THEN iocp_listener_destroy(g) ELSE g))
    /\ UNCHANGED <<kind, at, arrived, calls>>

-----------------------------------------------------------------------------
(* The event listener in the loop: listener_read_cb.                       *)

(* The loop calls listener_read_cb, which has yet to take the lock.        *)
Fire ==
    /\ kind = "event" /\ at = Idle /\ lev.event_added /\ Waiting /\ ~lev.freed
    /\ at' = [Idle EXCEPT !.place = "fired"]
    /\ UNCHANGED <<kind, lev, as, deferred, trouble, arrived, calls>>

TakeLock ==
    /\ at.place = "fired"
    /\ at' = [at EXCEPT !.place = "accept"]
    /\ UNCHANGED <<kind, lev, as, deferred, trouble, arrived, calls>>

(* accept() returns a socket; without a callback it is closed.             *)
AcceptOne ==
    /\ at.place = "accept" /\ Waiting
    /\ lev' = [lev EXCEPT !.accepted = @ + 1, !.refcnt = IF lev.cb THEN @ + 1 ELSE @]
    /\ at' = IF lev.cb THEN [at EXCEPT !.place = "cb"] ELSE Idle
    /\ UNCHANGED <<kind, as, deferred, trouble, arrived, calls>>

(* accept() finds nothing, or fails.  Without a callback for errors the    *)
(* function then returns with the lock held.                               *)
AcceptNothing ==
    /\ at.place = "accept"
    /\ \/ ~Waiting /\ at' = Idle /\ UNCHANGED lev
       \/ lev.errorcb /\ at' = [at EXCEPT !.place = "errorcb"]
                      /\ lev' = [lev EXCEPT !.refcnt = @ + 1]
       \/ ~lev.errorcb /\ at' = Idle
                       /\ lev' = [lev EXCEPT !.leaked = lev.threadsafe]
    /\ UNCHANGED <<kind, as, deferred, trouble, arrived, calls>>

(* The callback returned: the last reference is dropped here when the user *)
(* freed the listener meanwhile, else the loop goes on accepting.          *)
EventCallbackReturns ==
    /\ kind = "event" /\ at.place \in {"cb", "errorcb"}
    /\ IF at.place = "cb" /\ lev.refcnt # 1
       THEN /\ Become([Global EXCEPT !.lev.refcnt = @ - 1])
            /\ at' = [at EXCEPT !.place = "accept"]
       ELSE /\ Become(listener_decref_and_unlock(Global))
            /\ at' = Idle
    /\ UNCHANGED <<kind, trouble, arrived, calls>>

-----------------------------------------------------------------------------
(* The overlapped listener: the system completes, a worker of the port     *)
(* runs accepted_socket_cb, the loop the deferred callback.                *)

(* A connection arrived for the AcceptEx on s, or for one on a socket that *)
(* s names no more.                                                        *)
AcceptCompletes(a) ==
    /\ lev.open /\ Waiting
    /\ \/ as[a].s = "pending" /\ as' = [as EXCEPT ![a].s = "connected", ![a].ok = @ + 1]
       \/ as[a].strays > 0 /\ as' = [as EXCEPT ![a].strays = @ - 1, ![a].ok = @ + 1]
    /\ lev' = [lev EXCEPT !.accepted = @ + 1]
    /\ UNCHANGED <<kind, deferred, at, trouble, arrived, calls>>

(* An AcceptEx fails although stop_accepting was not called: the network,  *)
(* the listening socket closed, or the user closed what it was handed.     *)
AcceptFails(a) ==
    /\ \/ as[a].s = "pending" /\ as' = [as EXCEPT ![a].s = "broken", ![a].failed = @ + 1]
       \/ as[a].strays > 0 /\ as' = [as EXCEPT ![a].strays = @ - 1, ![a].failed = @ + 1]
    /\ UNCHANGED <<kind, lev, deferred, at, trouble, arrived, calls>>

(* A completion for a structure that was freed, or that the loop thread    *)
(* has locked on its way to the lock of the listener.                      *)
Served(a, g) ==
    CASE as[a].freed -> trouble' = "freed memory" /\ UNCHANGED <<lev, as, deferred>>
      [] ~as[a].freed /\ LocksCross({a}) -> Deadlock
      [] OTHER -> Proceed(g)

(* Mutated: a success of a socket that was stopped is ignored.             *)
AcceptedIfValid(a) ==
    /\ as[a].ok > 0
    /\ LET g == [Global EXCEPT !.as[a].ok = @ - 1]
       IN  Served(a, IF as[a].s = "invalid" THEN g ELSE Schedule(g, a))
    /\ UNCHANGED <<kind, at, arrived, calls>>

(* accepted_socket_cb with ok set schedules the callback of the user ...   *)
accepted_socket_cb(a) ==
    /\ as[a].ok > 0
    /\ Served(a, Schedule([Global EXCEPT !.as[a].ok = @ - 1], a))
    /\ UNCHANGED <<kind, at, arrived, calls>>

(* ... and without it frees the socket, does nothing for one that was      *)
(* stopped, or reports the error.                                          *)
accepted_socket_cb_fails(a) ==
    /\ as[a].failed > 0
    /\ LET g == [Global EXCEPT !.as[a].failed = @ - 1]
       IN  Served(a, CASE as[a].free_on_cb -> FreeAccepting(g, a)
                       [] ~as[a].free_on_cb /\ as[a].s = "invalid" -> g
                       [] OTHER -> Schedule([g EXCEPT !.as[a].error = TRUE], a))
    /\ UNCHANGED <<kind, at, arrived, calls>>

(* accepted_socket_invoke_user_cb up to the callback of the user, null or  *)
(* not.  A socket whose AcceptEx is pending is handed over like any other. *)
InvokeUserCb ==
    /\ kind = "iocp" /\ at = Idle /\ deferred # <<>>
    /\ LET a == Head(deferred)
           g == [Global EXCEPT !.deferred = Tail(@)]
           g1 == [g EXCEPT !.lev.refcnt = @ + 1]
       IN  CASE as[a].freed ->
                  /\ trouble' = "freed memory" /\ at' = at
                  /\ UNCHANGED <<lev, as, deferred>>
             [] ~as[a].freed /\ as[a].free_on_cb -> Proceed(FreeAccepting(g, a)) /\ at' = at
             [] ~as[a].freed /\ ~as[a].free_on_cb /\ as[a].error ->
                  /\ Proceed([g1 EXCEPT !.as[a].error = FALSE])
                  /\ at' = [place |-> "errorcb", a |-> a]
             [] OTHER ->
                  /\ Proceed([g1 EXCEPT
                       !.as[a].s = "invalid",
                       !.as[a].strays = IF as[a].s = "pending" THEN @ + 1 ELSE @])
                  /\ at' = [place |-> "cb", a |-> a]
    /\ UNCHANGED <<kind, arrived, calls>>

(* The callback returned: drop the reference, and unless that was the last *)
(* one accept again.                                                       *)
UserCbReturns ==
    /\ kind = "iocp" /\ at.place \in {"cb", "errorcb"}
    /\ LET g == listener_decref_and_unlock(Global)
       IN  /\ Become(g)
           /\ at' = IF g.lev.freed THEN Idle ELSE [at EXCEPT !.place = "restart"]
    /\ UNCHANGED <<kind, trouble, arrived, calls>>

(* start_accepting again, with the lock of the accepting socket alone; a   *)
(* success at once goes on to accepted_socket_cb, which takes the lock of  *)
(* the listener.                                                           *)
AcceptAgain ==
    /\ at.place = "restart"
    /\ IF as[at.a].freed
       THEN /\ trouble' = "freed memory" /\ at' = Idle
            /\ UNCHANGED <<lev, as, deferred>>
       ELSE \E o \in Outcomes :
              /\ Possible(o)
              /\ LET g == start_accepting(Global, {at.a}, [a \in {at.a} |-> o])
                     reporting == lev.enabled /\ o = "success"
                 IN  /\ Proceed(IF reporting THEN [g EXCEPT !.deferred = deferred] ELSE g)
                     /\ at' = IF reporting THEN [at EXCEPT !.place = "reporting"] ELSE Idle
    /\ UNCHANGED <<kind, arrived, calls>>

ReportSuccess ==
    /\ at.place = "reporting"
    /\ Become(Schedule(Global, at.a))
    /\ at' = Idle
    /\ UNCHANGED <<kind, trouble, arrived, calls>>

Arrive ==
    /\ arrived < MaxConnections
    /\ arrived' = arrived + 1
    /\ UNCHANGED <<kind, lev, as, deferred, at, trouble, calls>>

-----------------------------------------------------------------------------
(* evconnlistener_new and evconnlistener_new_async, with a callback or     *)
(* without; the port refuses none of the sockets.                          *)
NewListener(safe, close, cb) ==
    [threadsafe |-> safe, close_on_free |-> close,
     refcnt |-> IF kind = "iocp" THEN 1 + Cardinality(Accepting) ELSE 1,
     enabled |-> TRUE, cb |-> cb, errorcb |-> FALSE, event_added |-> cb \/ kind = "iocp",
     shutting_down |-> FALSE, open |-> TRUE, freed |-> FALSE, user |-> TRUE,
     accepted |-> 0, leaked |-> FALSE]

new_accepting_socket ==
    [s |-> "invalid", error |-> FALSE, free_on_cb |-> FALSE, freed |-> kind = "event",
     ok |-> 0, failed |-> 0, strays |-> 0, refused |-> FALSE]

Init ==
    /\ kind \in {"event", "iocp"}
    /\ arrived \in 0..MaxConnections
    /\ \E safe, close, cb \in BOOLEAN, outcome \in [Accepting -> Outcomes \ {"refused"}] :
          /\ kind = "iocp" => safe
          /\ Cardinality({a \in Accepting : outcome[a] = "success"}) =< arrived
          /\ LET g == [lev |-> NewListener(safe, close, cb),
                       as |-> [a \in Accepting |-> new_accepting_socket],
                       deferred |-> <<>>]
                 g1 == IF cb /\ kind = "iocp"
                       THEN start_accepting(g, Accepting, outcome)
                       ELSE g
             IN  lev = g1.lev /\ as = g1.as /\ deferred = g1.deferred
    /\ at = Idle /\ trouble = "none" /\ calls = 0

LoopStep == \/ Fire \/ TakeLock \/ AcceptOne \/ AcceptNothing \/ EventCallbackReturns
            \/ InvokeUserCb \/ UserCbReturns \/ AcceptAgain \/ ReportSuccess

WorkerStep(a) == accepted_socket_cb(a) \/ accepted_socket_cb_fails(a)

UserStep == \E t \in Threads :
              \/ evconnlistener_enable(t) \/ evconnlistener_disable(t)
              \/ evconnlistener_set_cb(t) \/ evconnlistener_set_error_cb(t)
              \/ evconnlistener_free(t)

Next ==
    /\ trouble = "none"
    /\ \/ UserStep
       \/ LoopStep
       \/ \E a \in Accepting : WorkerStep(a) \/ AcceptCompletes(a) \/ AcceptFails(a)
       \/ Arrive

Spec == Init /\ [][Next]_vars

(* The loop runs, callbacks return, and the workers serve the port.        *)
FairSpec == /\ Spec
            /\ WF_vars(trouble = "none" /\ LoopStep)
            /\ \A a \in Accepting : WF_vars(trouble = "none" /\ WorkerStep(a))

-----------------------------------------------------------------------------
LevState ==
    [threadsafe : BOOLEAN, close_on_free : BOOLEAN, refcnt : Nat, enabled : BOOLEAN,
     cb : BOOLEAN, errorcb : BOOLEAN, event_added : BOOLEAN, shutting_down : BOOLEAN,
     open : BOOLEAN, freed : BOOLEAN, user : BOOLEAN, accepted : Nat, leaked : BOOLEAN]

AsState == [s : SocketStates, error : BOOLEAN, free_on_cb : BOOLEAN, freed : BOOLEAN,
            ok : Nat, failed : Nat, strays : Nat, refused : BOOLEAN]

GlobalState ==
    [lev : LevState, as : [Accepting -> AsState], deferred : Seq(Accepting)]

Places == {"idle", "fired", "accept", "cb", "errorcb", "restart", "reporting"}

(* Every variable has its type.                                            *)
TypeOK ==
    /\ kind \in {"event", "iocp"}
    /\ lev \in LevState
    /\ as \in [Accepting -> AsState]
    /\ deferred \in Seq(Accepting)
    /\ at \in [place : Places, a : Accepting \cup {NoSocket}]
    /\ trouble \in {"none", "freed memory", "deadlock"}
    /\ arrived \in Nat /\ calls \in Nat

(* The reference count of the listener is one for the user, one for every  *)
(* accepting socket that is not freed and one while a callback runs, and   *)
(* the listener goes with the last of them, in every order of calls and    *)
(* completions up to the first use of freed memory or deadlock.  The       *)
(* assertion in listener_read_cb that decref freed follows.                *)
ReferencesCounted ==
    /\ lev.refcnt = (IF lev.user THEN 1 ELSE 0)
                    + Cardinality({a \in Accepting : ~as[a].freed})
                    + (IF at.place \in {"cb", "errorcb"} THEN 1 ELSE 0)
    /\ lev.freed <=> lev.refcnt = 0

(* An enabled listener with a callback goes on accepting whatever was      *)
(* called before: an event listener has its event added, and no accepting  *)
(* socket of an overlapped one rests.  It has an AcceptEx pending, a       *)
(* completion on its way or its callback queued, or the loop is at it;     *)
(* except where event_iocp_port_associate refused its socket, which        *)
(* start_accepting reports to nobody.                                      *)
AlwaysAccepting ==
    lev.user /\ lev.enabled /\ lev.cb =>
      /\ lev.event_added
      /\ \A a \in Accepting :
            \/ kind = "event" \/ as[a].s = "pending" \/ as[a].ok > 0 \/ as[a].failed > 0
            \/ Contains(deferred, a) \/ at.a = a \/ as[a].refused

(* The parts of the inductive invariant.  The owners of references outside *)
(* of a callback, and what the count is with one running.                  *)
Owners(g) ==
    (IF g.lev.user THEN 1 ELSE 0) + Cardinality({a \in Accepting : ~g.as[a].freed})

Counted(g, running) ==
    /\ g.lev.refcnt = Owners(g) + running
    /\ g.lev.freed <=> g.lev.refcnt = 0

(* What keeps socket a of an overlapped listener going, while the loop is  *)
(* at socket r: nothing has to when it is closed and not to be started.    *)
SocketWorks(g, a, r) ==
    /\ ~g.as[a].freed /\ ~g.as[a].free_on_cb
    /\ ~g.lev.enabled => g.as[a].s = "invalid"
    /\ \/ g.as[a].s = "pending" \/ g.as[a].ok > 0 \/ Contains(g.deferred, a)
       \/ r = a \/ g.as[a].refused
       \/ g.as[a].s = "invalid" /\ ~(g.lev.enabled /\ g.lev.cb)
       \/ g.as[a].s # "invalid" /\ g.as[a].failed > 0

Works(g, r) ==
    g.lev.user => /\ g.lev.enabled /\ g.lev.cb => g.lev.event_added
                  /\ kind = "iocp" => \A a \in Accepting : SocketWorks(g, a, r)

(* An event listener has no accepting sockets, and is not freed while the  *)
(* loop is about to accept; an overlapped one has no accept loop.          *)
LoopOK ==
    /\ kind = "event" => /\ at.a = NoSocket /\ at.place \notin {"restart", "reporting"}
                         /\ \A a \in Accepting : as[a].freed
                         /\ at.place \in {"fired", "accept"} => lev.user
    /\ kind = "iocp" => /\ at.place \notin {"fired", "accept"}
                        /\ at.place # "idle" => at.a \in Accepting
    /\ at.place = "idle" => at.a = NoSocket

Running == IF at.place \in {"cb", "errorcb"} THEN 1 ELSE 0

IInv ==
    /\ TypeOK
    /\ Counted(Global, Running)
    /\ Works(Global, at.a)
    /\ LoopOK

(* No completion of an AcceptEx is lost on its way through the worker, the *)
(* deferred callbacks and the loop: after a success the loop comes to the  *)
(* socket; when the listener was shut down meanwhile the socket is freed,  *)
(* after a success or a failure.                                           *)
CompletionsReported ==
    \A a \in Accepting :
      as[a].ok > 0 \/ (as[a].failed > 0 /\ as[a].free_on_cb)
        ~> at.a = a \/ as[a].freed \/ trouble # "none"

(* LEV_OPT_THREADSAFE makes the listener "safe to use from multiple        *)
(* threadcs at once".  The code violates it in three ways: event_del waits *)
(* for a callback that needs the lock its caller holds, accepting again    *)
(* takes the two locks in the opposite order, and an error of accept()     *)
(* leaves the lock taken.                                                  *)
NoDeadlock == trouble # "deadlock" /\ ~lev.leaked

(* evconnlistener_free: "Disable and deallocate an evconnlistener."  The   *)
(* code violates it: an accepting socket whose socket is invalid when the  *)
(* listener is shut down keeps its reference for ever.                     *)
FreeReleases == ~lev.user ~> lev.freed \/ trouble # "none"

(* No completion and no deferred callback comes for an accepting socket    *)
(* that was freed.  The code violates it: the completion after a success   *)
(* at once comes when the callback has freed the socket, or the listener   *)
(* was enabled again before a stopped accept was reported.                 *)
NoUseAfterFree == trouble # "freed memory"

=============================================================================
