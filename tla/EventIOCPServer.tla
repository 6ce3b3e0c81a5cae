--------------------------- MODULE EventIOCPServer ---------------------------
(***************************************************************************)
(* The server of EventServer.cpp as main runs it: the main thread that     *)
(* initialises, runs and destroys it, the thread that dispatches the event *)
(* loop and runs iocp_listener_cb, and the workers of the completion port  *)
(* that run the callbacks of the connections.  All of them use map_Client. *)
(*                                                                         *)
(* A bufferevent is used under its lock, and a callback runs under the     *)
(* lock of its bufferevent; nothing protects map_Client, so every access   *)
(* to it is a step of its own.  The bufferevents are those of module       *)
(* BuffereventAsync, reduced to what the callbacks of this server make of  *)
(* them; the port is stopped as module IocpPort shows.  The first          *)
(* undefined behaviour is recorded in fault, and ends the run.             *)
(***************************************************************************)
EXTENDS Integers, FiniteSets

CONSTANTS
    Workers,        \* the workers of the completion port
    Dispatcher,     \* the thread that runs dispatch
    Clients,        \* the connections that may be accepted
    NoThread,       \* a lock that nobody holds
    NoClient,       \* a thread that serves nobody
    InitMayFail,    \* whether a step of Init may fail
    LaunchMayFail,  \* whether WSARecv and WSASend may fail at once
    MaxReads        \* bound on the messages a client sends

ASSUME ServerAssumption ==
    /\ Dispatcher \notin Workers
    /\ NoThread \notin Workers \cup {Dispatcher}
    /\ NoClient \notin Clients
    /\ InitMayFail \in BOOLEAN
    /\ LaunchMayFail \in BOOLEAN
    /\ MaxReads \in Nat

Threads == Workers \cup {Dispatcher}

VARIABLES
    main,        \* where the main thread is
    run,         \* the flag that dispatch waits for
    members,     \* the members base, listener and signal_event of the server
    exiting,     \* event_base_loopexit was called
    pc,          \* where each thread is
    cur,         \* the bufferevent each thread works on
    cont,        \* where a thread goes on after iocp_conn_eventcb
    map_Client,  \* the keys of map_Client
    bev,         \* the bufferevents
    lock,        \* the lock of each bufferevent
    reads,       \* the number of messages each client had delivered
    fault        \* the first undefined behaviour, "none" so far

vars == <<main, run, members, exiting, pc, cur, cont, map_Client, bev, lock,
          reads, fault>>

NewBev ==
    [life |-> "live", refcnt |-> 1, user |-> 1, ok |-> 1,
     rip |-> 0, wip |-> 0, out |-> 0]

Init ==
    /\ main = "config"
    /\ run = 0
    /\ members = [base |-> "garbage", listener |-> "garbage", signal |-> "garbage"]
    /\ exiting = 0
    /\ pc = [t \in Threads |-> IF t = Dispatcher THEN "none" ELSE "idle"]
    /\ cur = [t \in Threads |-> NoClient]
    /\ cont = [t \in Threads |-> "idle"]
    /\ map_Client = {}
    /\ bev = [b \in Clients |-> [NewBev EXCEPT !.life = "none", !.refcnt = 0,
                                               !.user = 0, !.ok = 0]]
    /\ lock = [b \in Clients |-> NoThread]
    /\ reads = [b \in Clients |-> 0]
    /\ fault = "none"

(* The process runs until main returns or its behaviour is undefined. *)
Running == fault = "none" /\ main # "exited"

MainAt(where) == Running /\ main = where

(* Thread t is at a place of its code.  The dispatching thread works with  *)
(* the event_base; DispatchFreedBase is what it does with a freed one.     *)
At(t, where) ==
    /\ Running
    /\ pc[t] = where
    /\ t = Dispatcher => members.base = "valid"

Fault(kind) ==
    /\ fault' = kind
    /\ UNCHANGED <<main, run, members, exiting, pc, cur, cont, map_Client,
                   bev, lock, reads>>

-----------------------------------------------------------------------------
(* The main thread: main, Init, Run and the destructor.  When a step of    *)
(* Init fails, Init returns false and the destructor runs all the same.    *)

InitStep(from, member, failed, to) ==
    /\ MainAt(from)
    /\ \/ /\ members' = [members EXCEPT ![member] = "valid"]
          /\ main' = to
       \/ /\ InitMayFail
          /\ \E left \in failed : members' = [members EXCEPT ![member] = left]
          /\ main' = "free_listener"
    /\ UNCHANGED <<run, exiting, pc, cur, cont, map_Client, bev, lock, reads,
                   fault>>

InitConfig ==
    /\ MainAt("config")
    /\ main' \in {"base"} \cup (IF InitMayFail THEN {"free_listener"} ELSE {})
    /\ UNCHANGED <<run, members, exiting, pc, cur, cont, map_Client, bev,
                   lock, reads, fault>>

InitBase == InitStep("base", "base", {"null"}, "listener")

InitListener == InitStep("listener", "listener", {"null"}, "signal")

(* Without the event, or with one that event_add refused. *)
InitSignal == InitStep("signal", "signal", {"null", "valid"}, "thread")

(* The pointer to the thread is lost: nobody will join it. *)
InitThread ==
    /\ MainAt("thread")
    /\ pc' = [pc EXCEPT ![Dispatcher] = "spin"]
    /\ main' = "ready"
    /\ UNCHANGED <<run, members, exiting, cur, cont, map_Client, bev, lock,
                   reads, fault>>

(* Run sets the flag, counts to 100000 and returns. *)
Run ==
    /\ MainAt("ready")
    /\ run' = 1
    /\ main' = "free_listener"
    /\ UNCHANGED <<members, exiting, pc, cur, cont, map_Client, bev, lock,
                   reads, fault>>

(* evconnlistener_free and event_free, on members Init may not have set. *)
FreeMember(from, member, to) ==
    /\ MainAt(from)
    /\ \/ /\ members[member] = "valid"
          /\ members' = [members EXCEPT ![member] = "freed"]
          /\ main' = to
          /\ UNCHANGED <<run, exiting, pc, cur, cont, map_Client, bev, lock,
                         reads, fault>>
       \/ members[member] # "valid" /\ Fault("uninitialised_member")

FreeListener == FreeMember("free_listener", "listener", "free_signal")

FreeSignal == FreeMember("free_signal", "signal", "stop_iocp")

(* event_base_free first shuts the port down: from now on a worker that    *)
(* dequeues a completion drops it and exits.                               *)
StopIocp ==
    /\ MainAt("stop_iocp")
    /\ main' = "wait_iocp"
    /\ UNCHANGED <<run, members, exiting, pc, cur, cont, map_Client, bev,
                   lock, reads, fault>>

(* A defect: the shutdown does not wait for the workers. *)
IocpStoppedEarly ==
    /\ MainAt("wait_iocp")
    /\ main' = "free_base"
    /\ UNCHANGED <<run, members, exiting, pc, cur, cont, map_Client, bev,
                   lock, reads, fault>>

(* The shutdown returns when every worker has left its callback. *)
IocpStopped ==
    /\ MainAt("wait_iocp")
    /\ \A w \in Workers : pc[w] = "idle"
    /\ main' = "free_base"
    /\ UNCHANGED <<run, members, exiting, pc, cur, cont, map_Client, bev,
                   lock, reads, fault>>

FreeBase == FreeMember("free_base", "base", "return")

(* main returns, and the process with all its threads ends. *)
Exit ==
    /\ MainAt("return")
    /\ main' = "exited"
    /\ UNCHANGED <<run, members, exiting, pc, cur, cont, map_Client, bev,
                   lock, reads, fault>>

-----------------------------------------------------------------------------
(* Steps of a thread that works on a bufferevent. *)

(* The workers handle completions until the port is shut down. *)
PortServes == main \notin {"wait_iocp", "free_base", "return"}

Goto(t, where) == pc' = [pc EXCEPT ![t] = where]

(* The thread enters iocp_conn_eventcb, and will go on at k after it. *)
CallEventcb(t, k) ==
    /\ Goto(t, "erase")
    /\ cont' = [cont EXCEPT ![t] = k]

Decref(s) ==
    [s EXCEPT !.refcnt = @ - 1,
              !.life = IF s.refcnt = 1 THEN "freed" ELSE @]

(* A defect: the client is not erased. *)
EraseForgotten(t) ==
    /\ At(t, "erase")
    /\ Goto(t, "free")
    /\ UNCHANGED <<main, run, members, exiting, cur, cont, map_Client, bev,
                   lock, reads, fault>>

(* map_Client.erase(bev) *)
EraseClient(t) ==
    /\ At(t, "erase")
    /\ map_Client' = map_Client \ {cur[t]}
    /\ Goto(t, "free")
    /\ UNCHANGED <<main, run, members, exiting, cur, cont, bev, lock, reads,
                   fault>>

(* bufferevent_free(bev): the callbacks are cleared, the socket is closed. *)
FreeClient(t) ==
    /\ At(t, "free")
    /\ bev' = [bev EXCEPT ![cur[t]] = Decref([@ EXCEPT !.user = 0, !.ok = 0])]
    /\ Goto(t, cont[t])
    /\ UNCHANGED <<main, run, members, exiting, cur, cont, map_Client, lock,
                   reads, fault>>

(* A defect: the read launched holds no reference. *)
ConsiderReadingUncounted(t, b, s, k) ==
    /\ bev' = [bev EXCEPT ![b] = [s EXCEPT !.rip = IF s.ok = 1 THEN 1 ELSE @]]
    /\ Goto(t, k)
    /\ UNCHANGED cont

(* bev_async_consider_reading on bufferevent b, then on to k. *)
ConsiderReading(t, b, s, k) ==
    \/ /\ s.rip = 1 \/ s.ok = 0
       /\ bev' = [bev EXCEPT ![b] = s]
       /\ Goto(t, k)
       /\ UNCHANGED cont
    \/ /\ s.rip = 0 /\ s.ok = 1
       /\ bev' = [bev EXCEPT ![b] = [s EXCEPT !.rip = 1, !.refcnt = @ + 1]]
       /\ Goto(t, k)
       /\ UNCHANGED cont
    \/ /\ s.rip = 0 /\ s.ok = 1 /\ LaunchMayFail
       /\ bev' = [bev EXCEPT ![b] = [s EXCEPT !.ok = 0]]
       /\ CallEventcb(t, k)

(* bev_async_consider_writing on bufferevent b, then on to k: the kernel   *)
(* is given some of the output.                                            *)
ConsiderWriting(t, b, s, k) ==
    \/ /\ s.wip > 0 \/ s.ok = 0 \/ s.out = 0
       /\ bev' = [bev EXCEPT ![b] = s]
       /\ Goto(t, k)
       /\ UNCHANGED cont
    \/ /\ s.wip = 0 /\ s.ok = 1 /\ s.out > 0
       /\ \E n \in 1..s.out :
             bev' = [bev EXCEPT ![b] = [s EXCEPT !.wip = n, !.refcnt = @ + 1]]
       /\ Goto(t, k)
       /\ UNCHANGED cont
    \/ /\ s.wip = 0 /\ s.ok = 1 /\ s.out > 0 /\ LaunchMayFail
       /\ bev' = [bev EXCEPT ![b] = [s EXCEPT !.ok = 0]]
       /\ CallEventcb(t, k)

-----------------------------------------------------------------------------
(* The workers: read_complete, write_complete and the callbacks. *)

(* A worker dequeues the completion of a read or of a write, and calls     *)
(* read_complete or write_complete, which wait for the lock.               *)
Dequeue(w, b) ==
    /\ At(w, "idle") /\ PortServes
    /\ \E c \in {"read_complete", "write_complete"} :
          /\ IF c = "read_complete" THEN bev[b].rip = 1 ELSE bev[b].wip > 0
          /\ \A v \in Workers : ~(pc[v] = c /\ cur[v] = b)
          /\ Goto(w, c)
    /\ cur' = [cur EXCEPT ![w] = b]
    /\ UNCHANGED <<main, run, members, exiting, cont, map_Client, bev, lock,
                   reads, fault>>

(* read_complete: data, or the end of the stream or a failure.  The        *)
(* reference of the read is kept until Release.                            *)
ReadComplete(w) ==
    LET b == cur[w] IN
    /\ At(w, "read_complete")
    /\ lock[b] = NoThread
    /\ lock' = [lock EXCEPT ![b] = w]
    /\ \/ /\ reads[b] < MaxReads
          /\ reads' = [reads EXCEPT ![b] = @ + 1]
          /\ bev' = [bev EXCEPT ![b].rip = 0]
          /\ Goto(w, IF bev[b].user = 1 /\ bev[b].ok = 1 THEN "drain" ELSE "release")
          /\ UNCHANGED cont
       \/ /\ bev' = [bev EXCEPT ![b].rip = 0, ![b].ok = 0]
          /\ IF bev[b].user = 1 /\ bev[b].ok = 1 THEN CallEventcb(w, "release")
             ELSE Goto(w, "release") /\ UNCHANGED cont
          /\ UNCHANGED reads
    /\ UNCHANGED <<main, run, members, exiting, cur, map_Client, fault>>

(* iocp_conn_readcb: bufferevent_read drains the input, which launches the *)
(* next read.                                                              *)
ReadcbDrain(w) ==
    /\ At(w, "drain")
    /\ ConsiderReading(w, cur[w], bev[cur[w]], "find")
    /\ UNCHANGED <<main, run, members, exiting, cur, map_Client, lock, reads,
                   fault>>

(* map_Client.find(bev); the iterator is dereferenced hit or miss. *)
ReadcbFind(w) ==
    /\ At(w, "find")
    /\ IF cur[w] \in map_Client
       THEN /\ Goto(w, "reply")
            /\ UNCHANGED <<main, run, members, exiting, cur, cont, map_Client,
                           bev, lock, reads, fault>>
       ELSE Fault("end_iterator")

(* bufferevent_write of the reply, and the end of read_complete. *)
ReadcbReply(w) ==
    /\ At(w, "reply")
    /\ LET b == cur[w]
       IN  ConsiderWriting(w, b, [bev[b] EXCEPT !.out = @ + 1], "consider")
    /\ UNCHANGED <<main, run, members, exiting, cur, map_Client, lock, reads,
                   fault>>

Consider(w) ==
    /\ At(w, "consider")
    /\ ConsiderReading(w, cur[w], bev[cur[w]], "release")
    /\ UNCHANGED <<main, run, members, exiting, cur, map_Client, lock, reads,
                   fault>>

(* A defect: one message too many is drained. *)
WriteCompleteOverdrains(w) ==
    LET b == cur[w] IN
    /\ At(w, "write_complete")
    /\ lock[b] = NoThread
    /\ lock' = [lock EXCEPT ![b] = w]
    /\ bev' = [bev EXCEPT ![b].wip = 0, ![b].out = @ - bev[b].wip - 1]
    /\ Goto(w, "release")
    /\ UNCHANGED <<main, run, members, exiting, cur, cont, map_Client, reads,
                   fault>>

(* write_complete; iocp_conn_writecb only prints.  Anything but a sent     *)
(* message reports an error.                                               *)
WriteComplete(w) ==
    LET b == cur[w] IN
    /\ At(w, "write_complete")
    /\ lock[b] = NoThread
    /\ lock' = [lock EXCEPT ![b] = w]
    /\ LET s == bev[b]
           sent == [s EXCEPT !.wip = 0, !.out = @ - s.wip]
       IN  \/ ConsiderWriting(w, b, sent, "release")
           \/ /\ bev' = [bev EXCEPT ![b] = [s EXCEPT !.wip = 0, !.ok = 0]]
              /\ IF s.user = 1 /\ s.ok = 1 THEN CallEventcb(w, "release")
                 ELSE Goto(w, "release") /\ UNCHANGED cont
    /\ UNCHANGED <<main, run, members, exiting, cur, map_Client, reads, fault>>

(* A defect: the lock is not released. *)
ReleaseKeepsLock(w) ==
    /\ At(w, "release")
    /\ bev' = [bev EXCEPT ![cur[w]] = Decref(@)]
    /\ cur' = [cur EXCEPT ![w] = NoClient]
    /\ Goto(w, "idle")
    /\ UNCHANGED <<main, run, members, exiting, cont, map_Client, lock, reads,
                   fault>>

(* _bufferevent_decref_and_unlock at the end of a completion. *)
Release(w) ==
    /\ At(w, "release")
    /\ bev' = [bev EXCEPT ![cur[w]] = Decref(@)]
    /\ lock' = [lock EXCEPT ![cur[w]] = NoThread]
    /\ cur' = [cur EXCEPT ![w] = NoClient]
    /\ Goto(w, "idle")
    /\ UNCHANGED <<main, run, members, exiting, cont, map_Client, reads, fault>>

-----------------------------------------------------------------------------
(* The dispatching thread: dispatch, the event loop, iocp_listener_cb and  *)
(* signal_cb.                                                              *)

dispatch ==
    /\ At(Dispatcher, "spin")
    /\ run = 1
    /\ Goto(Dispatcher, "loop")
    /\ UNCHANGED <<main, run, members, exiting, cur, cont, map_Client, bev,
                   lock, reads, fault>>

(* bufferevent_socket_new for a connection the listener accepted. *)
Accept(b) ==
    /\ At(Dispatcher, "loop")
    /\ members.listener = "valid"
    /\ bev[b].life = "none"
    /\ bev' = [bev EXCEPT ![b] = NewBev]
    /\ cur' = [cur EXCEPT ![Dispatcher] = b]
    /\ Goto(Dispatcher, "insert")
    /\ UNCHANGED <<main, run, members, exiting, cont, map_Client, lock, reads,
                   fault>>

(* bufferevent_socket_new fails: event_base_loopbreak ends the loop. *)
AcceptFails ==
    /\ At(Dispatcher, "loop")
    /\ members.listener = "valid"
    /\ \E b \in Clients : bev[b].life = "none"
    /\ Goto(Dispatcher, "done")
    /\ UNCHANGED <<main, run, members, exiting, cur, cont, map_Client, bev,
                   lock, reads, fault>>

(* map_Client[bev] = psin, and bufferevent_setcb. *)
InsertClient ==
    /\ At(Dispatcher, "insert")
    /\ map_Client' = map_Client \cup {cur[Dispatcher]}
    /\ Goto(Dispatcher, "enable")
    /\ UNCHANGED <<main, run, members, exiting, cur, cont, bev, lock, reads,
                   fault>>

(* bufferevent_enable for writing, with nothing to write, and for reading. *)
(* A thread that calls into a bufferevent holds a reference meanwhile.     *)
EnableClient ==
    LET b == cur[Dispatcher] IN
    /\ At(Dispatcher, "enable")
    /\ lock[b] = NoThread
    /\ lock' = [lock EXCEPT ![b] = Dispatcher]
    /\ ConsiderReading(Dispatcher, b, [bev[b] EXCEPT !.refcnt = @ + 1], "enabled")
    /\ UNCHANGED <<main, run, members, exiting, cur, map_Client, reads, fault>>

EnableReturns ==
    LET b == cur[Dispatcher] IN
    /\ At(Dispatcher, "enabled")
    /\ bev' = [bev EXCEPT ![b] = Decref(@)]
    /\ lock' = [lock EXCEPT ![b] = NoThread]
    /\ Goto(Dispatcher, "greet")
    /\ UNCHANGED <<main, run, members, exiting, cur, cont, map_Client, reads,
                   fault>>

(* bufferevent_write of MESSAGE. *)
Greet ==
    LET b == cur[Dispatcher] IN
    /\ At(Dispatcher, "greet")
    /\ bev[b].life = "live"
    /\ lock[b] = NoThread
    /\ lock' = [lock EXCEPT ![b] = Dispatcher]
    /\ ConsiderWriting(Dispatcher, b,
                       [bev[b] EXCEPT !.refcnt = @ + 1, !.out = @ + 1],
                       "greeted")
    /\ UNCHANGED <<main, run, members, exiting, cur, map_Client, reads, fault>>

GreetReturns ==
    LET b == cur[Dispatcher] IN
    /\ At(Dispatcher, "greeted")
    /\ bev' = [bev EXCEPT ![b] = Decref(@)]
    /\ lock' = [lock EXCEPT ![b] = NoThread]
    /\ cur' = [cur EXCEPT ![Dispatcher] = NoClient]
    /\ Goto(Dispatcher, "loop")
    /\ UNCHANGED <<main, run, members, exiting, cont, map_Client, reads, fault>>

(* The bufferevent was destructed before the greeting. *)
GreetFreed ==
    /\ At(Dispatcher, "greet")
    /\ bev[cur[Dispatcher]].life = "freed"
    /\ Fault("use_after_free")

(* signal_cb: the loop will exit in two seconds. *)
signal_cb ==
    /\ At(Dispatcher, "loop")
    /\ members.signal = "valid"
    /\ exiting = 0
    /\ exiting' = 1
    /\ UNCHANGED <<main, run, members, pc, cur, cont, map_Client, bev, lock,
                   reads, fault>>

LoopExits ==
    /\ At(Dispatcher, "loop")
    /\ exiting = 1
    /\ Goto(Dispatcher, "done")
    /\ UNCHANGED <<main, run, members, exiting, cur, cont, map_Client, bev,
                   lock, reads, fault>>

(* The thread goes on with an event_base that was freed under it. *)
DispatchFreedBase ==
    /\ Running
    /\ pc[Dispatcher] \notin {"none", "done"}
    /\ run = 1
    /\ members.base = "freed"
    /\ Fault("freed_base")

-----------------------------------------------------------------------------
(* Two threads are about to access map_Client, and one of them writes. *)
Writers == {t \in Threads : pc[t] \in {"erase", "insert"}}

Readers == {t \in Threads : pc[t] = "find"}

MapRace == Writers # {} /\ Cardinality(Writers \cup Readers) > 1

Race == Running /\ MapRace /\ Fault("map_race")

-----------------------------------------------------------------------------
MainStep ==
    \/ InitConfig \/ InitBase \/ InitListener \/ InitSignal \/ InitThread
    \/ Run
    \/ FreeListener \/ FreeSignal \/ StopIocp \/ IocpStopped \/ FreeBase \/ Exit

WorkerRuns(w) ==
    \/ ReadComplete(w) \/ WriteComplete(w)
    \/ EraseClient(w) \/ FreeClient(w)
    \/ ReadcbDrain(w) \/ ReadcbFind(w) \/ ReadcbReply(w) \/ Consider(w)
    \/ Release(w)

WorkerStep(w) ==
    \/ WorkerRuns(w)
    \/ \E b \in Clients : Dequeue(w, b)

ListenerCallback ==
    \/ InsertClient \/ EnableClient \/ EnableReturns
    \/ Greet \/ GreetReturns \/ GreetFreed
    \/ EraseClient(Dispatcher) \/ FreeClient(Dispatcher)

DispatcherStep ==
    \/ dispatch
    \/ \E b \in Clients : Accept(b)
    \/ AcceptFails
    \/ ListenerCallback
    \/ signal_cb \/ LoopExits
    \/ DispatchFreedBase

Next ==
    \/ MainStep
    \/ \E w \in Workers : WorkerStep(w)
    \/ DispatcherStep
    \/ Race

Spec == Init /\ [][Next]_vars

(* The scheduler runs the main thread and the threads that are inside a    *)
(* callback; clients and completions come as they like.                    *)
FairSpec ==
    /\ Spec
    /\ WF_vars(MainStep)
    /\ \A w \in Workers : WF_vars(WorkerRuns(w))
    /\ WF_vars(ListenerCallback)

-----------------------------------------------------------------------------
(* Properties *)

BevState ==
    [life : {"none", "live", "freed"}, refcnt : Nat, user : {0, 1},
     ok : {0, 1}, rip : {0, 1}, wip : Nat, out : Nat]

(* Where a thread holds the lock of the bufferevent it works on. *)
CallbackPlaces == {"drain", "find", "reply", "consider", "release"}

EventcbPlaces == {"erase", "free"}

HoldingPlaces == CallbackPlaces \cup EventcbPlaces \cup {"enabled", "greeted"}

WorkerPlaces ==
    {"idle", "read_complete", "write_complete"} \cup CallbackPlaces \cup EventcbPlaces

DispatcherPlaces ==
    {"none", "spin", "loop", "insert", "enable", "enabled", "greet", "greeted",
     "done"} \cup EventcbPlaces

(* Every variable has its type. *)
TypeOK ==
    /\ main \in {"config", "base", "listener", "signal", "thread", "ready",
                 "free_listener", "free_signal", "stop_iocp", "wait_iocp",
                 "free_base", "return", "exited"}
    /\ run \in {0, 1} /\ exiting \in {0, 1}
    /\ members \in [{"base", "listener", "signal"} ->
                      {"garbage", "null", "valid", "freed"}]
    /\ pc \in [Threads -> WorkerPlaces \cup DispatcherPlaces]
    /\ \A w \in Workers : pc[w] \in WorkerPlaces
    /\ pc[Dispatcher] \in DispatcherPlaces
    /\ cur \in [Threads -> Clients \cup {NoClient}]
    /\ cont \in [Threads -> {"idle", "find", "consider", "release", "enabled",
                             "greeted"}]
    /\ map_Client \subseteq Clients
    /\ bev \in [Clients -> BevState]
    /\ lock \in [Clients -> Threads \cup {NoThread}]
    /\ reads \in [Clients -> 0..MaxReads]

(* The keys of map_Client are the bufferevents that were not freed, except *)
(* for the one a thread is about to insert, or has erased and is about to  *)
(* free: no key dangles, and no client that may call back is unknown.      *)
MapTracksClients ==
    LET between == {cur[t] : t \in {u \in Threads : pc[u] \in {"insert", "free"}}}
    IN  map_Client = {b \in Clients : bev[b].user = 1} \ between

(* A bufferevent lives as long as the server, an operation in flight, or a *)
(* thread in one of its functions refers to it.                            *)
ReferencesCounted ==
    \A b \in Clients :
        LET s == bev[b]
            held == IF lock[b] = NoThread THEN 0 ELSE 1
        IN  /\ s.refcnt = s.user + s.rip + (IF s.wip > 0 THEN 1 ELSE 0) + held
            /\ s.life = "live" <=> s.refcnt > 0

(* The parts of the inductive invariant.  A bufferevent in state s that    *)
(* held threads have locked counts its references, is given to the kernel  *)
(* no more than its output, and works only for a server that has it.       *)
Consistent(s, held) ==
    /\ s.refcnt = s.user + s.rip + (IF s.wip > 0 THEN 1 ELSE 0) + held
    /\ s.life = "live" <=> s.refcnt > 0
    /\ s.wip <= s.out
    /\ s.ok = 1 => s.user = 1

Consistency ==
    \A b \in Clients : Consistent(bev[b], IF lock[b] = NoThread THEN 0 ELSE 1)

(* The lock of a bufferevent is held by the thread that is in one of its   *)
(* functions, and by no other.                                             *)
LockHeld ==
    /\ \A t \in Threads : pc[t] \in HoldingPlaces => /\ cur[t] \in Clients
                                                     /\ lock[cur[t]] = t
    /\ \A b \in Clients : lock[b] # NoThread => /\ pc[lock[b]] \in HoldingPlaces
                                               /\ cur[lock[b]] = b

(* iocp_conn_eventcb runs for a bufferevent that failed and was not freed, *)
(* and returns into the function that called it.                           *)
EventcbOnce ==
    \A t \in Threads :
        pc[t] \in EventcbPlaces =>
            /\ bev[cur[t]].user = 1 /\ bev[cur[t]].ok = 0
            /\ cont[t] \in (IF t = Dispatcher THEN {"enabled", "greeted"}
                                             ELSE {"find", "consider", "release"})

(* A completion that a worker dequeued is that of the operation in flight, *)
(* and no two workers have the same.                                       *)
CompletionsOnce ==
    /\ \A w \in Workers :
          /\ pc[w] = "read_complete" => cur[w] \in Clients /\ bev[cur[w]].rip = 1
          /\ pc[w] = "write_complete" => cur[w] \in Clients /\ bev[cur[w]].wip > 0
    /\ \A v, w \in Workers :
          pc[v] = pc[w] /\ cur[v] = cur[w]
          /\ pc[v] \in {"read_complete", "write_complete"} => v = w

(* The connection that the listener callback is setting up is unknown to   *)
(* the workers until it is enabled.                                        *)
ListenerOwns ==
    LET b == cur[Dispatcher] IN
    /\ pc[Dispatcher] \in {"insert", "enable"} =>
          /\ b \in Clients
          /\ bev[b].user = 1 /\ bev[b].rip = 0 /\ bev[b].wip = 0
          /\ lock[b] = NoThread
    /\ pc[Dispatcher] = "greet" => b \in Clients

MapMember(b) ==
    bev[b].user = 1 /\ \A t \in Threads : pc[t] \in {"insert", "free"} => cur[t] # b

MapInv == \A b \in Clients : b \in map_Client <=> MapMember(b)

(* The dispatching thread is created once, and the workers are idle once   *)
(* the base is freed.                                                      *)
Phases ==
    /\ main \in {"config", "base", "listener", "signal", "thread"} =>
          pc[Dispatcher] = "none"
    /\ main \in {"free_base", "return", "exited"} => \A w \in Workers : pc[w] = "idle"

IInv ==
    /\ TypeOK /\ Consistency /\ LockHeld /\ EventcbOnce
    /\ CompletionsOnce /\ ListenerOwns /\ MapInv /\ Phases

(* The destructor returns: no thread it waits for waits for a lock that is *)
(* never released.                                                         *)
DestructorReturns ==
    main = "free_listener" ~> (main = "exited" \/ fault # "none")

(* What the comment in Init says of evthread_use_windows_threads, that the *)
(* server is safe with several threads: accesses to map_Client do not      *)
(* overlap.                                                                *)
NoMapRace == fault # "map_race"

(* What bufferevent.h says of BEV_OPT_THREADSAFE, with which the listener  *)
(* callback creates the bufferevent: its operations on it, the greeting    *)
(* included, are protected, so the bufferevent exists when it is greeted.  *)
GreetingReachesBufferevent == fault # "use_after_free"

(* What the branch "UNKNOW:IP-" of iocp_conn_readcb says: a client that is *)
(* not in map_Client is answered too.                                      *)
UnknownClientAnswered == fault # "end_iterator"

(* What the comment in event_base_free warns of, contention with a thread  *)
(* that uses the base, does not happen: the loop is over when it is freed. *)
BaseOutlivesLoop == fault # "freed_base"

==============================================================================
