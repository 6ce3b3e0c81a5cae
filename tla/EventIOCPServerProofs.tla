----------------------- MODULE EventIOCPServerProofs -----------------------
(***************************************************************************)
(* The server of EventServer.cpp, for any number of workers, connections   *)
(* and messages: IInv of module EventIOCPServer is inductive.  Every       *)
(* action of a thread either keeps the lock of the bufferevent it works on *)
(* (LockedStep), gives it up (UnlockStep), or touches no lock (FreeStep).  *)
(***************************************************************************)
EXTENDS EventIOCPServer, TLAPS

USE ServerAssumption DEF Threads

(* The parts of IInv that speak of locks and bufferevents only. *)
LockInv ==
    /\ TypeOK /\ Consistency /\ LockHeld /\ EventcbOnce
    /\ CompletionsOnce /\ ListenerOwns

Rest == <<main, run, members, exiting, fault>>

(* What ConsiderReading and ConsiderWriting do to bufferevent b in state   *)
(* s: operations are launched and none is ended, and the thread goes on at *)
(* k, at once or after iocp_conn_eventcb.                                  *)
Launches(t, b, s, k) ==
    \E s2 \in BevState :
        /\ bev' = [bev EXCEPT ![b] = s2]
        /\ Consistent(s2, 1)
        /\ s2.user = s.user
        /\ s.rip = 1 => s2.rip = 1
        /\ s.wip > 0 => s2.wip > 0
        /\ \/ Goto(t, k) /\ UNCHANGED cont
           \/ CallEventcb(t, k) /\ s2.user = 1 /\ s2.ok = 0

(* The states that the functions of a bufferevent make are states. *)
LEMMA StateUpdates ==
  ASSUME NEW s \in BevState
  PROVE  /\ [s EXCEPT !.rip = 1, !.refcnt = @ + 1] \in BevState
         /\ [s EXCEPT !.rip = 0] \in BevState
         /\ [s EXCEPT !.rip = 0, !.ok = 0] \in BevState
         /\ [s EXCEPT !.wip = 0, !.ok = 0] \in BevState
         /\ [s EXCEPT !.ok = 0] \in BevState
         /\ [s EXCEPT !.out = @ + 1] \in BevState
         /\ [s EXCEPT !.refcnt = @ + 1] \in BevState
         /\ [s EXCEPT !.refcnt = @ + 1, !.out = @ + 1] \in BevState
         /\ [s EXCEPT !.user = 0, !.ok = 0] \in BevState
         /\ \A n \in Nat : [s EXCEPT !.wip = n, !.refcnt = @ + 1] \in BevState
         /\ s.wip <= s.out => [s EXCEPT !.wip = 0, !.out = @ - s.wip] \in BevState
         /\ s.refcnt > 0 => Decref(s) \in BevState
<1>1. s.refcnt \in Nat /\ s.out \in Nat /\ s.wip \in Nat
  BY DEF BevState
<1>2. \A n \in Nat : [s EXCEPT !.refcnt = n] \in BevState
  BY DEF BevState
<1>3. \A n \in Nat : [s EXCEPT !.out = n] \in BevState
  BY DEF BevState
<1>4. \A n, m \in Nat : [s EXCEPT !.refcnt = n, !.out = m] \in BevState
  BY DEF BevState
<1>5. \A n, m \in Nat : [s EXCEPT !.wip = n, !.refcnt = m] \in BevState
  BY DEF BevState
<1>6. \A n, m \in Nat : [s EXCEPT !.wip = n, !.out = m] \in BevState
  BY DEF BevState
<1>7. \A n \in {0, 1}, m \in Nat : [s EXCEPT !.rip = n, !.refcnt = m] \in BevState
  BY DEF BevState
<1>8. \A n \in {0, 1}, m \in {0, 1} : [s EXCEPT !.rip = n, !.ok = m] \in BevState
  BY DEF BevState
<1>9. \A n \in Nat, m \in {0, 1} : [s EXCEPT !.wip = n, !.ok = m] \in BevState
  BY DEF BevState
<1>10. \A n, m \in {0, 1} : [s EXCEPT !.user = n, !.ok = m] \in BevState
  BY DEF BevState
<1>11. \A n \in {0, 1} : [s EXCEPT !.ok = n] \in BevState /\ [s EXCEPT !.rip = n] \in BevState
  BY DEF BevState
<1>12. \A n \in Nat, l \in {"none", "live", "freed"} :
          [s EXCEPT !.refcnt = n, !.life = l] \in BevState
  BY DEF BevState
<1>13. ASSUME s.refcnt > 0 PROVE Decref(s) \in BevState
  <2>1. s.refcnt - 1 \in Nat /\ s.life \in {"none", "live", "freed"}
    BY <1>1, <1>13 DEF BevState
  <2>2. CASE s.refcnt = 1
    <3>1. Decref(s) = [s EXCEPT !.refcnt = s.refcnt - 1, !.life = "freed"]
      BY <2>2 DEF Decref
    <3> QED
      BY <3>1, <2>1, <1>12
  <2>3. CASE s.refcnt # 1
    <3>1. Decref(s) = [s EXCEPT !.refcnt = s.refcnt - 1]
      BY <2>3 DEF Decref, BevState
    <3> QED
      BY <3>1, <2>1, <1>2
  <2> QED
    BY <2>2, <2>3
<1>14. ASSUME s.wip <= s.out PROVE [s EXCEPT !.wip = 0, !.out = @ - s.wip] \in BevState
  <2>1. s.out - s.wip \in Nat
    BY <1>1, <1>14
  <2> QED
    BY <1>6, <2>1
<1>15. s.refcnt + 1 \in Nat /\ s.out + 1 \in Nat
  BY <1>1
<1>16. [s EXCEPT !.rip = 1, !.refcnt = @ + 1] \in BevState
  BY <1>7, <1>15
<1>17. [s EXCEPT !.refcnt = @ + 1, !.out = @ + 1] \in BevState
  BY <1>4, <1>15
<1>18. [s EXCEPT !.out = @ + 1] \in BevState /\ [s EXCEPT !.refcnt = @ + 1] \in BevState
  BY <1>2, <1>3, <1>15
<1>19. [s EXCEPT !.wip = 0, !.ok = 0] \in BevState
  BY <1>9
<1>20. \A n \in Nat : [s EXCEPT !.wip = n, !.refcnt = @ + 1] \in BevState
  BY <1>5, <1>15
<1> QED
  BY <1>8, <1>10, <1>11, <1>13, <1>14, <1>16, <1>17, <1>18, <1>19, <1>20

LEMMA ConsiderReadingLaunches ==
  ASSUME NEW t, NEW b, NEW s \in BevState, NEW k,
         Consistent(s, 1), ConsiderReading(t, b, s, k)
  PROVE  Launches(t, b, s, k)
<1>1. CASE /\ s.rip = 1 \/ s.ok = 0
           /\ bev' = [bev EXCEPT ![b] = s]
           /\ Goto(t, k)
           /\ UNCHANGED cont
  BY <1>1 DEF Launches
<1>2. CASE /\ s.rip = 0 /\ s.ok = 1
           /\ bev' = [bev EXCEPT ![b] = [s EXCEPT !.rip = 1, !.refcnt = @ + 1]]
           /\ Goto(t, k)
           /\ UNCHANGED cont
  <2> DEFINE s2 == [s EXCEPT !.rip = 1, !.refcnt = @ + 1]
  <2>1. s2 \in BevState
    BY StateUpdates
  <2>2. Consistent(s2, 1) /\ s2.user = s.user /\ s2.rip = 1 /\ s2.wip = s.wip
    BY <1>2 DEF BevState, Consistent
  <2> QED
    BY <1>2, <2>1, <2>2 DEF Launches
<1>3. CASE /\ s.rip = 0 /\ s.ok = 1 /\ LaunchMayFail
           /\ bev' = [bev EXCEPT ![b] = [s EXCEPT !.ok = 0]]
           /\ CallEventcb(t, k)
  <2> DEFINE s2 == [s EXCEPT !.ok = 0]
  <2>1. s2 \in BevState
    BY StateUpdates
  <2>2. Consistent(s2, 1) /\ s2.user = s.user /\ s2.user = 1 /\ s2.ok = 0
        /\ s2.rip = s.rip /\ s2.wip = s.wip
    BY <1>3 DEF BevState, Consistent
  <2> QED
    BY <1>3, <2>1, <2>2 DEF Launches
<1> QED
  BY <1>1, <1>2, <1>3 DEF ConsiderReading

LEMMA ConsiderWritingLaunches ==
  ASSUME NEW t, NEW b, NEW s \in BevState, NEW k,
         Consistent(s, 1), ConsiderWriting(t, b, s, k)
  PROVE  Launches(t, b, s, k)
<1>1. CASE /\ s.wip > 0 \/ s.ok = 0 \/ s.out = 0
           /\ bev' = [bev EXCEPT ![b] = s]
           /\ Goto(t, k)
           /\ UNCHANGED cont
  BY <1>1 DEF Launches
<1>2. CASE /\ s.wip = 0 /\ s.ok = 1 /\ s.out > 0
           /\ \E n \in 1..s.out :
                 bev' = [bev EXCEPT ![b] = [s EXCEPT !.wip = n, !.refcnt = @ + 1]]
           /\ Goto(t, k)
           /\ UNCHANGED cont
  <2>0. s.out \in Nat
    BY DEF BevState
  <2>1. PICK n \in 1..s.out :
           bev' = [bev EXCEPT ![b] = [s EXCEPT !.wip = n, !.refcnt = @ + 1]]
    BY <1>2
  <2> DEFINE s2 == [s EXCEPT !.wip = n, !.refcnt = @ + 1]
  <2>2. s2 \in BevState
    <3>1. n \in Nat
      BY <2>0
    <3>2. \A m \in Nat : [s EXCEPT !.wip = m, !.refcnt = @ + 1] \in BevState
      BY StateUpdates
    <3> QED
      BY <3>1, <3>2
  <2>3. Consistent(s2, 1) /\ s2.user = s.user /\ s2.rip = s.rip /\ s2.wip > 0
    BY <1>2, <2>0 DEF BevState, Consistent
  <2> QED
    BY <1>2, <2>1, <2>2, <2>3 DEF Launches
<1>3. CASE /\ s.wip = 0 /\ s.ok = 1 /\ s.out > 0 /\ LaunchMayFail
           /\ bev' = [bev EXCEPT ![b] = [s EXCEPT !.ok = 0]]
           /\ CallEventcb(t, k)
  <2> DEFINE s2 == [s EXCEPT !.ok = 0]
  <2>1. s2 \in BevState
    BY StateUpdates
  <2>2. Consistent(s2, 1) /\ s2.user = s.user /\ s2.user = 1 /\ s2.ok = 0
        /\ s2.rip = s.rip /\ s2.wip = s.wip
    BY <1>3 DEF BevState, Consistent
  <2> QED
    BY <1>3, <2>1, <2>2 DEF Launches
<1> QED
  BY <1>1, <1>2, <1>3 DEF ConsiderWriting

(* MapInv says of each client what MapTracksClients says of the set. *)
LEMMA MapPointwise ==
  ASSUME map_Client \subseteq Clients, MapInv
  PROVE  MapTracksClients
BY DEF MapInv, MapMember, MapTracksClients

(* A thread t works on bufferevent b, whose lock is free or its own, and   *)
(* has the lock afterwards; the bufferevent is then in state s.  It was    *)
(* known to the workers, unless t is the dispatching thread.               *)
LEMMA LockedStep ==
  ASSUME LockInv,
         NEW t \in Threads, NEW b \in Clients, cur[t] = b,
         lock[b] \in {NoThread, t},
         t = Dispatcher \/ lock[b] = t \/ bev[b].rip = 1 \/ bev[b].wip > 0,
         NEW s \in BevState, Consistent(s, 1),
         bev' = [bev EXCEPT ![b] = s],
         \A w \in Workers \ {t} :
             cur[w] = b => /\ pc[w] = "read_complete" => s.rip = 1
                           /\ pc[w] = "write_complete" => s.wip > 0,
         NEW k \in HoldingPlaces,
         k \in (IF t = Dispatcher THEN DispatcherPlaces ELSE WorkerPlaces),
         pc' = [pc EXCEPT ![t] = k],
         NEW c, cont' = [cont EXCEPT ![t] = c],
         c \in {"idle", "find", "consider", "release", "enabled", "greeted"},
         k \in EventcbPlaces =>
             /\ s.user = 1 /\ s.ok = 0
             /\ c \in (IF t = Dispatcher THEN {"enabled", "greeted"}
                                         ELSE {"find", "consider", "release"}),
         lock' = [lock EXCEPT ![b] = t],
         reads' \in [Clients -> 0..MaxReads],
         map_Client' \subseteq Clients,
         UNCHANGED cur, UNCHANGED Rest
  PROVE  LockInv'
<1> USE DEF LockInv
<1>0. pc \in [Threads -> WorkerPlaces \cup DispatcherPlaces]
      /\ cur \in [Threads -> Clients \cup {NoClient}]
      /\ lock \in [Clients -> Threads \cup {NoThread}]
      /\ bev \in [Clients -> BevState]
      /\ cont \in [Threads -> {"idle", "find", "consider", "release", "enabled", "greeted"}]
  BY DEF TypeOK
<1>1. TypeOK'
  <2>1. pc' \in [Threads -> WorkerPlaces \cup DispatcherPlaces]
    BY <1>0
  <2>2. (\A w \in Workers : pc'[w] \in WorkerPlaces) /\ pc'[Dispatcher] \in DispatcherPlaces
    BY <1>0 DEF TypeOK
  <2>3. bev' \in [Clients -> BevState] /\ lock' \in [Clients -> Threads \cup {NoThread}]
    BY <1>0
  <2>4. cont' \in [Threads -> {"idle", "find", "consider", "release", "enabled", "greeted"}]
    BY <1>0
  <2> QED
    BY <2>1, <2>2, <2>3, <2>4 DEF TypeOK, Rest
<1>2. \A u \in Threads : u # t /\ pc[u] \in HoldingPlaces => cur[u] \in Clients \ {b}
  BY DEF LockHeld
<1>3. \A u \in Threads : u # t => pc'[u] = pc[u] /\ cont'[u] = cont[u]
  BY <1>0
<1>4. pc'[t] = k /\ cont'[t] = c /\ bev'[b] = s /\ lock'[b] = t
  BY <1>0
<1>5. \A x \in Clients : x # b => bev'[x] = bev[x] /\ lock'[x] = lock[x]
  BY <1>0
<1>6. Consistency'
  BY <1>4, <1>5 DEF Consistency
<1>7. LockHeld'
  <2>1. \A u \in Threads : pc'[u] \in HoldingPlaces => cur[u] \in Clients /\ lock'[cur[u]] = u
    BY <1>2, <1>3, <1>4, <1>5 DEF LockHeld
  <2>2. \A x \in Clients : lock'[x] # NoThread => pc'[lock'[x]] \in HoldingPlaces /\ cur[lock'[x]] = x
    BY <1>0, <1>3, <1>4, <1>5 DEF LockHeld
  <2> QED
    BY <2>1, <2>2 DEF LockHeld
<1>8. EventcbOnce'
  <2> SUFFICES ASSUME NEW u \in Threads, pc'[u] \in EventcbPlaces
               PROVE  /\ bev'[cur[u]].user = 1 /\ bev'[cur[u]].ok = 0
                      /\ cont'[u] \in (IF u = Dispatcher THEN {"enabled", "greeted"}
                                                        ELSE {"find", "consider", "release"})
    BY DEF EventcbOnce
  <2>1. CASE u = t
    BY <2>1, <1>4
  <2>2. CASE u # t
    BY <2>2, <1>2, <1>3, <1>5 DEF EventcbOnce, HoldingPlaces
  <2> QED
    BY <2>1, <2>2
<1>9. CompletionsOnce'
  <2>1. k \notin {"read_complete", "write_complete"}
    BY DEF HoldingPlaces, CallbackPlaces, EventcbPlaces
  <2> QED
    BY <2>1, <1>3, <1>4, <1>5 DEF CompletionsOnce
<1>10. ListenerOwns'
  <2>1. k \notin {"insert", "enable", "greet"}
    BY DEF HoldingPlaces, CallbackPlaces, EventcbPlaces
  <2>2. ASSUME pc[Dispatcher] \in {"insert", "enable"}, t # Dispatcher
        PROVE  cur[Dispatcher] # b
    BY <2>2 DEF ListenerOwns
  <2>3. ASSUME pc'[Dispatcher] \in {"insert", "enable"}
        PROVE  /\ cur[Dispatcher] \in Clients
               /\ bev'[cur[Dispatcher]] = bev[cur[Dispatcher]]
               /\ lock'[cur[Dispatcher]] = lock[cur[Dispatcher]]
               /\ pc[Dispatcher] \in {"insert", "enable"}
    BY <2>1, <2>2, <2>3, <1>3, <1>4, <1>5 DEF ListenerOwns
  <2>4. pc'[Dispatcher] = "greet" => pc[Dispatcher] = "greet"
    BY <2>1, <1>3, <1>4
  <2> QED
    BY <2>3, <2>4 DEF ListenerOwns
<1> QED
  BY <1>1, <1>6, <1>7, <1>8, <1>9, <1>10

(* Thread t gives up the lock of bufferevent b, and its reference. *)
LEMMA UnlockStep ==
  ASSUME LockInv,
         NEW t \in Threads, NEW b \in Clients, cur[t] = b, lock[b] = t,
         bev' = [bev EXCEPT ![b] = Decref(@)],
         NEW k \in {"idle", "greet", "loop"},
         k \in (IF t = Dispatcher THEN DispatcherPlaces ELSE WorkerPlaces),
         pc' = [pc EXCEPT ![t] = k],
         NEW c \in {b, NoClient}, cur' = [cur EXCEPT ![t] = c],
         k = "greet" => c = b,
         lock' = [lock EXCEPT ![b] = NoThread],
         UNCHANGED <<cont, map_Client, reads>>, UNCHANGED Rest
  PROVE  LockInv'
<1> USE DEF LockInv
<1>0. pc \in [Threads -> WorkerPlaces \cup DispatcherPlaces]
      /\ cur \in [Threads -> Clients \cup {NoClient}]
      /\ lock \in [Clients -> Threads \cup {NoThread}]
      /\ bev \in [Clients -> BevState]
  BY DEF TypeOK
<1>1. bev[b] \in BevState /\ Consistent(bev[b], 1)
  BY <1>0 DEF Consistency
<1>2. bev[b].refcnt > 0
  BY <1>1 DEF Consistent, BevState
<1>3. Decref(bev[b]) \in BevState
  BY <1>1, <1>2, StateUpdates
<1>4. Consistent(Decref(bev[b]), 0)
  BY <1>1 DEF Consistent, Decref, BevState
<1>5. /\ Decref(bev[b]).rip = bev[b].rip /\ Decref(bev[b]).wip = bev[b].wip
      /\ Decref(bev[b]).user = bev[b].user /\ Decref(bev[b]).ok = bev[b].ok
  BY <1>1 DEF Decref, BevState
<1>6. TypeOK'
  <2>1. pc' \in [Threads -> WorkerPlaces \cup DispatcherPlaces]
    BY <1>0
  <2>2. (\A w \in Workers : pc'[w] \in WorkerPlaces) /\ pc'[Dispatcher] \in DispatcherPlaces
    BY <1>0 DEF TypeOK
  <2>3. bev' \in [Clients -> BevState] /\ lock' \in [Clients -> Threads \cup {NoThread}]
    BY <1>0, <1>3
  <2>4. cur' \in [Threads -> Clients \cup {NoClient}]
    BY <1>0
  <2> QED
    BY <2>1, <2>2, <2>3, <2>4 DEF TypeOK, Rest
<1>7. \A u \in Threads : u # t => pc'[u] = pc[u] /\ cur'[u] = cur[u]
  BY <1>0
<1>8. pc'[t] = k /\ cur'[t] = c /\ bev'[b] = Decref(bev[b]) /\ lock'[b] = NoThread
  BY <1>0
<1>9. \A x \in Clients : x # b => bev'[x] = bev[x] /\ lock'[x] = lock[x]
  BY <1>0
<1>10. k \notin HoldingPlaces /\ k \notin EventcbPlaces
  BY DEF HoldingPlaces, CallbackPlaces, EventcbPlaces
<1>11. \A u \in Threads : u # t /\ pc[u] \in HoldingPlaces => cur[u] \in Clients \ {b}
  BY DEF LockHeld
<1>12. Consistency'
  BY <1>4, <1>8, <1>9 DEF Consistency
<1>13. LockHeld'
  <2>1. \A u \in Threads : pc'[u] \in HoldingPlaces => cur'[u] \in Clients /\ lock'[cur'[u]] = u
    BY <1>7, <1>8, <1>9, <1>10, <1>11 DEF LockHeld
  <2>2. \A x \in Clients : lock'[x] # NoThread => pc'[lock'[x]] \in HoldingPlaces /\ cur'[lock'[x]] = x
    BY <1>0, <1>7, <1>8, <1>9 DEF LockHeld
  <2> QED
    BY <2>1, <2>2 DEF LockHeld
<1>14. EventcbOnce'
  BY <1>7, <1>8, <1>9, <1>10, <1>11 DEF EventcbOnce, HoldingPlaces
<1>15. CompletionsOnce'
  <2>1. \A x \in Clients : bev'[x].rip = bev[x].rip /\ bev'[x].wip = bev[x].wip
    BY <1>5, <1>8, <1>9
  <2> QED
    BY <2>1, <1>7, <1>8 DEF CompletionsOnce
<1>16. ListenerOwns'
  <2>1. \A x \in Clients : /\ bev'[x].rip = bev[x].rip /\ bev'[x].wip = bev[x].wip
                           /\ bev'[x].user = bev[x].user
                           /\ lock[x] = NoThread => lock'[x] = NoThread
    BY <1>5, <1>8, <1>9
  <2> QED
    BY <2>1, <1>7, <1>8 DEF ListenerOwns
<1> QED
  BY <1>6, <1>12, <1>13, <1>14, <1>15, <1>16

(* A step that moves no thread to or from the places between map_Client    *)
(* and the bufferevents, and frees none of these, keeps them in step.      *)
LEMMA MapKept ==
  ASSUME MapInv, UNCHANGED map_Client,
         \A b \in Clients : bev'[b].user = bev[b].user,
         \A t \in Threads :
             /\ pc'[t] \in {"insert", "free"} <=> pc[t] \in {"insert", "free"}
             /\ pc[t] \in {"insert", "free"} => cur'[t] = cur[t]
  PROVE  MapInv'
BY DEF MapInv, MapMember

(* No thread that runs is a worker of a stopped port, nor the dispatching  *)
(* thread of a server that is not initialised.                             *)
LEMMA StopKept ==
  ASSUME Phases, UNCHANGED main, NEW t \in Threads, NEW k,
         pc \in [Threads -> WorkerPlaces \cup DispatcherPlaces],
         pc' = [pc EXCEPT ![t] = k],
         pc[t] \notin {"idle", "none"}
  PROVE  Phases'
BY DEF Phases

(* A thread in a function of a bufferevent has its lock to itself. *)
LEMMA Holding ==
  ASSUME IInv, NEW t \in Threads, pc[t] \in HoldingPlaces
  PROVE  /\ cur[t] \in Clients /\ lock[cur[t]] = t
         /\ bev[cur[t]] \in BevState /\ Consistent(bev[cur[t]], 1)
BY DEF IInv, TypeOK, LockHeld, Consistency

(* The end of a function that launches operations on bufferevent b, which  *)
(* it has brought into state s.                                            *)
LEMMA LaunchStep ==
  ASSUME IInv,
         NEW t \in Threads, NEW b \in Clients, cur[t] = b,
         lock[b] \in {NoThread, t},
         t = Dispatcher \/ lock[b] = t \/ bev[b].rip = 1 \/ bev[b].wip > 0,
         pc[t] \notin {"insert", "free", "idle", "none"},
         NEW s \in BevState, s.user = bev[b].user,
         \A w \in Workers \ {t} :
             cur[w] = b => /\ pc[w] = "read_complete" => s.rip = 1
                           /\ pc[w] = "write_complete" => s.wip > 0,
         NEW k, k \in (IF t = Dispatcher THEN {"enabled", "greeted"}
                                        ELSE {"find", "consider", "release"}),
         Launches(t, b, s, k),
         lock' = [lock EXCEPT ![b] = t],
         reads' \in [Clients -> 0..MaxReads],
         UNCHANGED <<map_Client, cur>>, UNCHANGED Rest
  PROVE  IInv'
<1>0. /\ pc \in [Threads -> WorkerPlaces \cup DispatcherPlaces]
      /\ cont \in [Threads -> {"idle", "find", "consider", "release", "enabled", "greeted"}]
      /\ bev \in [Clients -> BevState]
      /\ map_Client \subseteq Clients
  BY DEF IInv, TypeOK
<1>1. PICK s2 \in BevState :
        /\ bev' = [bev EXCEPT ![b] = s2]
        /\ Consistent(s2, 1)
        /\ s2.user = s.user
        /\ s.rip = 1 => s2.rip = 1
        /\ s.wip > 0 => s2.wip > 0
        /\ \/ Goto(t, k) /\ UNCHANGED cont
           \/ CallEventcb(t, k) /\ s2.user = 1 /\ s2.ok = 0
  BY DEF Launches
<1>2. PICK k2 \in {k, "erase"} :
        /\ pc' = [pc EXCEPT ![t] = k2]
        /\ \/ k2 = k /\ cont' = [cont EXCEPT ![t] = cont[t]]
           \/ k2 = "erase" /\ cont' = [cont EXCEPT ![t] = k] /\ s2.user = 1 /\ s2.ok = 0
  BY <1>0, <1>1 DEF Goto, CallEventcb
<1>3. /\ k2 \in HoldingPlaces
      /\ k2 \in (IF t = Dispatcher THEN DispatcherPlaces ELSE WorkerPlaces)
      /\ k2 \notin {"insert", "free"}
      /\ k \notin EventcbPlaces
  BY DEF HoldingPlaces, DispatcherPlaces, WorkerPlaces, CallbackPlaces, EventcbPlaces
<1>4. PICK c : /\ cont' = [cont EXCEPT ![t] = c]
               /\ c \in {"idle", "find", "consider", "release", "enabled", "greeted"}
               /\ k2 = "erase" => c = k /\ s2.user = 1 /\ s2.ok = 0
  BY <1>0, <1>2, <1>3 DEF EventcbPlaces
<1>5. LockInv'
  <2>1. LockInv
    BY DEF IInv, LockInv
  <2>2. \A w \in Workers \ {t} :
            cur[w] = b => /\ pc[w] = "read_complete" => s2.rip = 1
                          /\ pc[w] = "write_complete" => s2.wip > 0
    BY <1>1
  <2>3. k2 \in EventcbPlaces =>
             /\ s2.user = 1 /\ s2.ok = 0
             /\ c \in (IF t = Dispatcher THEN {"enabled", "greeted"}
                                         ELSE {"find", "consider", "release"})
    BY <1>3, <1>4 DEF EventcbPlaces
  <2>4. map_Client' \subseteq Clients
    BY <1>0
  <2> QED
    BY <1>1, <1>2, <1>3, <1>4, <2>1, <2>2, <2>3, <2>4, LockedStep
<1>6. MapInv'
  <2>1. \A x \in Clients : bev'[x].user = bev[x].user
    BY <1>0, <1>1
  <2>2. \A u \in Threads : pc'[u] \in {"insert", "free"} <=> pc[u] \in {"insert", "free"}
    BY <1>0, <1>2, <1>3
  <2> QED
    BY <2>1, <2>2, MapKept DEF IInv
<1>7. Phases'
  BY <1>0, <1>2, StopKept DEF IInv, Rest
<1> QED
  BY <1>5, <1>6, <1>7 DEF IInv, LockInv

-----------------------------------------------------------------------------
(* The steps of a thread in a callback. *)

LEMMA EraseClientIInv == ASSUME IInv, NEW t \in Threads, EraseClient(t) PROVE IInv'
<1> DEFINE b == cur[t]
<1>0. /\ pc \in [Threads -> WorkerPlaces \cup DispatcherPlaces]
      /\ cont \in [Threads -> {"idle", "find", "consider", "release", "enabled", "greeted"}]
      /\ cur \in [Threads -> Clients \cup {NoClient}]
      /\ bev \in [Clients -> BevState] /\ reads \in [Clients -> 0..MaxReads]
      /\ lock \in [Clients -> Threads \cup {NoThread}]
      /\ map_Client \subseteq Clients
  BY DEF IInv, TypeOK
<1>1. /\ pc[t] = "erase" /\ pc' = [pc EXCEPT ![t] = "free"]
      /\ map_Client' = map_Client \ {b}
      /\ UNCHANGED <<cur, cont, bev, lock, reads>> /\ UNCHANGED Rest
  BY DEF EraseClient, At, Goto, Rest
<1>2. pc[t] \in HoldingPlaces /\ pc[t] \in EventcbPlaces /\ "free" \in HoldingPlaces
      /\ "free" \in DispatcherPlaces /\ "free" \in WorkerPlaces
  BY <1>1 DEF HoldingPlaces, EventcbPlaces, DispatcherPlaces, WorkerPlaces
<1>3. b \in Clients /\ lock[b] = t /\ bev[b] \in BevState /\ Consistent(bev[b], 1)
  BY <1>2, Holding
<1>4. bev[b].user = 1 /\ bev[b].ok = 0
      /\ cont[t] \in (IF t = Dispatcher THEN {"enabled", "greeted"}
                                       ELSE {"find", "consider", "release"})
  BY <1>2 DEF IInv, EventcbOnce
<1>5. LockInv'
  <2>1. LockInv
    BY DEF IInv, LockInv
  <2>2. bev' = [bev EXCEPT ![b] = bev[b]] /\ lock' = [lock EXCEPT ![b] = t]
        /\ cont' = [cont EXCEPT ![t] = cont[t]]
    BY <1>0, <1>1, <1>3
  <2>3. \A w \in Workers \ {t} :
            cur[w] = b => /\ pc[w] = "read_complete" => bev[b].rip = 1
                          /\ pc[w] = "write_complete" => bev[b].wip > 0
    BY DEF IInv, CompletionsOnce
  <2>4. reads' \in [Clients -> 0..MaxReads] /\ map_Client' \subseteq Clients
    BY <1>0, <1>1
  <2>5. cont[t] \in {"idle", "find", "consider", "release", "enabled", "greeted"}
    BY <1>0
  <2> HIDE DEF b
  <2>6. cur[t] = b
    BY DEF b
  <2> QED
    BY <1>1, <1>2, <1>3, <1>4, <2>1, <2>2, <2>3, <2>4, <2>5, <2>6, LockedStep
<1>6. MapInv'
  <2>1. \A x \in Clients : MapMember(x)' <=> MapMember(x) /\ x # b
    BY <1>0, <1>1 DEF MapMember
  <2> QED
    BY <1>1, <2>1 DEF IInv, MapInv
<1>7. Phases'
  BY <1>0, <1>1, StopKept DEF IInv, Rest
<1> QED
  BY <1>5, <1>6, <1>7 DEF IInv, LockInv

LEMMA FreeClientIInv == ASSUME IInv, NEW t \in Threads, FreeClient(t) PROVE IInv'
<1> DEFINE b == cur[t]
           s == Decref([bev[b] EXCEPT !.user = 0, !.ok = 0])
<1>0. /\ pc \in [Threads -> WorkerPlaces \cup DispatcherPlaces]
      /\ cont \in [Threads -> {"idle", "find", "consider", "release", "enabled", "greeted"}]
      /\ cur \in [Threads -> Clients \cup {NoClient}]
      /\ bev \in [Clients -> BevState] /\ reads \in [Clients -> 0..MaxReads]
      /\ lock \in [Clients -> Threads \cup {NoThread}]
      /\ map_Client \subseteq Clients
  BY DEF IInv, TypeOK
<1>1. /\ pc[t] = "free" /\ pc' = [pc EXCEPT ![t] = cont[t]]
      /\ bev' = [bev EXCEPT ![b] = s]
      /\ UNCHANGED <<cur, cont, map_Client, lock, reads>> /\ UNCHANGED Rest
  BY DEF FreeClient, At, Goto, Rest
<1>2. pc[t] \in HoldingPlaces /\ pc[t] \in EventcbPlaces
  BY <1>1 DEF HoldingPlaces, EventcbPlaces
<1>3. b \in Clients /\ lock[b] = t /\ bev[b] \in BevState /\ Consistent(bev[b], 1)
  BY <1>2, Holding
<1>4. bev[b].user = 1 /\ bev[b].ok = 0
      /\ cont[t] \in (IF t = Dispatcher THEN {"enabled", "greeted"}
                                       ELSE {"find", "consider", "release"})
  BY <1>2 DEF IInv, EventcbOnce
<1>5. /\ cont[t] \in HoldingPlaces
      /\ cont[t] \in (IF t = Dispatcher THEN DispatcherPlaces ELSE WorkerPlaces)
      /\ cont[t] \notin EventcbPlaces /\ cont[t] \notin {"insert", "free"}
  BY <1>4 DEF HoldingPlaces, DispatcherPlaces, WorkerPlaces, CallbackPlaces, EventcbPlaces
<1>6. s \in BevState /\ Consistent(s, 1) /\ s.rip = bev[b].rip /\ s.wip = bev[b].wip
      /\ s.user = 0
  <2> DEFINE r == [bev[b] EXCEPT !.user = 0, !.ok = 0]
  <2>1. r \in BevState
    BY <1>3, StateUpdates
  <2>2. /\ r.refcnt = bev[b].refcnt /\ r.rip = bev[b].rip /\ r.wip = bev[b].wip
        /\ r.user = 0 /\ r.ok = 0 /\ r.life = bev[b].life /\ r.out = bev[b].out
    BY <1>3 DEF BevState
  <2>3. r.refcnt = 2 + r.rip + (IF r.wip > 0 THEN 1 ELSE 0) /\ r.life = "live"
        /\ r.wip <= r.out
    BY <1>3, <1>4, <2>2 DEF BevState, Consistent
  <2> HIDE DEF r
  <2>4. r.refcnt > 0 /\ r.refcnt # 1
    BY <2>1, <2>3 DEF BevState
  <2>5. Decref(r) \in BevState
    BY <2>1, <2>4, StateUpdates
  <2>6. /\ Decref(r).refcnt = r.refcnt - 1 /\ Decref(r).rip = r.rip
        /\ Decref(r).wip = r.wip /\ Decref(r).user = r.user /\ Decref(r).ok = r.ok
        /\ Decref(r).life = r.life /\ Decref(r).out = r.out
    BY <2>1, <2>4 DEF Decref, BevState
  <2>7. Consistent(Decref(r), 1)
    BY <2>1, <2>2, <2>3, <2>4, <2>6 DEF Consistent, BevState
  <2>8. s = Decref(r)
    BY DEF r
  <2> QED
    BY <2>2, <2>5, <2>6, <2>7, <2>8
<1> HIDE DEF s
<1>7. LockInv'
  <2>1. LockInv
    BY DEF IInv, LockInv
  <2>2. lock' = [lock EXCEPT ![b] = t] /\ cont' = [cont EXCEPT ![t] = cont[t]]
    BY <1>0, <1>1, <1>3
  <2>3. \A w \in Workers \ {t} :
            cur[w] = b => /\ pc[w] = "read_complete" => s.rip = 1
                          /\ pc[w] = "write_complete" => s.wip > 0
    BY <1>6 DEF IInv, CompletionsOnce
  <2>4. reads' \in [Clients -> 0..MaxReads] /\ map_Client' \subseteq Clients
    BY <1>0, <1>1
  <2>5. cont[t] \in {"idle", "find", "consider", "release", "enabled", "greeted"}
    BY <1>0
  <2> HIDE DEF b
  <2>6. cur[t] = b
    BY DEF b
  <2> QED
    BY ZenonT(60), <1>1, <1>3, <1>5, <1>6, <2>1, <2>2, <2>3, <2>4, <2>5, <2>6, LockedStep
<1>8. MapInv'
  <2>1. \A x \in Clients : MapMember(x)' <=> MapMember(x)
    BY <1>0, <1>1, <1>3, <1>5, <1>6 DEF MapMember
  <2> QED
    BY <1>1, <2>1 DEF IInv, MapInv
<1>9. Phases'
  BY <1>0, <1>1, StopKept DEF IInv, Rest
<1> QED
  BY <1>7, <1>8, <1>9 DEF IInv, LockInv

(* The callbacks that launch operations under the lock of the completion. *)
LEMMA CallbackIInv ==
  ASSUME IInv, NEW w \in Workers, ReadcbDrain(w) \/ ReadcbReply(w) \/ Consider(w)
  PROVE  IInv'
<1> DEFINE b == cur[w]
<1>1. pc[w] \in {"drain", "reply", "consider"} /\ w # Dispatcher /\ w \in Threads
  BY DEF ReadcbDrain, ReadcbReply, Consider, At
<1>2. pc[w] \in HoldingPlaces
  BY <1>1 DEF HoldingPlaces, CallbackPlaces
<1>3. b \in Clients /\ lock[b] = w /\ bev[b] \in BevState /\ Consistent(bev[b], 1)
  BY <1>1, <1>2, Holding
<1>4. UNCHANGED <<cur, map_Client, lock, reads>> /\ UNCHANGED Rest
  BY DEF ReadcbDrain, ReadcbReply, Consider, Rest
<1>5. PICK s \in BevState, k \in {"find", "consider", "release"} :
         /\ Launches(w, b, s, k)
         /\ s.user = bev[b].user /\ s.rip = bev[b].rip /\ s.wip = bev[b].wip
  <2>1. CASE ReadcbDrain(w)
    BY <1>3, <2>1, ConsiderReadingLaunches DEF ReadcbDrain
  <2>2. CASE Consider(w)
    BY <1>3, <2>2, ConsiderReadingLaunches DEF Consider
  <2>3. CASE ReadcbReply(w)
    <3> DEFINE s == [bev[b] EXCEPT !.out = @ + 1]
    <3>1. s \in BevState
      BY <1>3, StateUpdates
    <3>2. Consistent(s, 1) /\ s.user = bev[b].user /\ s.rip = bev[b].rip /\ s.wip = bev[b].wip
      BY <1>3 DEF Consistent, BevState
    <3>3. ConsiderWriting(w, b, s, "consider")
      BY <2>3 DEF ReadcbReply
    <3> HIDE DEF s
    <3>4. Launches(w, b, s, "consider")
      BY <3>1, <3>2, <3>3, ConsiderWritingLaunches
    <3> QED
      BY <3>1, <3>2, <3>4
  <2> QED
    BY <2>1, <2>2, <2>3
<1>6. \A v \in Workers \ {w} :
          cur[v] = b => /\ pc[v] = "read_complete" => s.rip = 1
                        /\ pc[v] = "write_complete" => s.wip > 0
  BY <1>5 DEF IInv, CompletionsOnce
<1>7. lock' = [lock EXCEPT ![b] = w] /\ reads' \in [Clients -> 0..MaxReads]
  BY <1>3, <1>4 DEF IInv, TypeOK
<1> HIDE DEF b
<1>8. cur[w] = b
  BY DEF b
<1> QED
  BY <1>1, <1>3, <1>4, <1>5, <1>6, <1>7, <1>8, LaunchStep

(* Only one worker has the completion, so the operation is over for all. *)
LEMMA ReadCompleteIInv == ASSUME IInv, NEW w \in Workers, ReadComplete(w) PROVE IInv'
<1> DEFINE b == cur[w]
<1>0. /\ bev \in [Clients -> BevState] /\ reads \in [Clients -> 0..MaxReads]
      /\ lock \in [Clients -> Threads \cup {NoThread}]
  BY DEF IInv, TypeOK
<1>1. pc[w] = "read_complete" /\ w # Dispatcher /\ w \in Threads
  BY DEF ReadComplete, At
<1>2. b \in Clients /\ bev[b].rip = 1 /\ lock[b] = NoThread
  BY <1>1 DEF IInv, CompletionsOnce, ReadComplete
<1>3. bev[b] \in BevState /\ Consistent(bev[b], 0)
  BY <1>0, <1>2 DEF IInv, Consistency
<1>4. UNCHANGED <<cur, map_Client>> /\ UNCHANGED Rest /\ lock' = [lock EXCEPT ![b] = w]
  BY DEF ReadComplete, Rest
<1>5. \A v \in Workers \ {w} : cur[v] = b => pc[v] # "read_complete"
  BY <1>1 DEF IInv, CompletionsOnce
<1>6. \A v \in Workers \ {w} : cur[v] = b /\ pc[v] = "write_complete" => bev[b].wip > 0
  BY DEF IInv, CompletionsOnce
<1>7. CASE /\ reads[b] < MaxReads
           /\ reads' = [reads EXCEPT ![b] = @ + 1]
           /\ bev' = [bev EXCEPT ![b].rip = 0]
           /\ Goto(w, IF bev[b].user = 1 /\ bev[b].ok = 1 THEN "drain" ELSE "release")
           /\ UNCHANGED cont
  <2> DEFINE s == [bev[b] EXCEPT !.rip = 0]
  <2>1. s \in BevState
    BY <1>3, StateUpdates
  <2>2. Consistent(s, 1) /\ s.wip = bev[b].wip /\ s.user = bev[b].user
    BY <1>2, <1>3 DEF Consistent, BevState
  <2>3. bev' = [bev EXCEPT ![b] = s]
    BY <1>7
  <2>4. reads' \in [Clients -> 0..MaxReads]
    BY <1>0, <1>2, <1>7
  <2> HIDE DEF s
  <2>5. PICK k \in {"drain", "release"} : pc' = [pc EXCEPT ![w] = k]
    BY <1>7 DEF Goto
  <2>6. /\ k \in HoldingPlaces /\ k \in WorkerPlaces /\ k \notin EventcbPlaces
        /\ k \notin {"insert", "free"}
    BY DEF HoldingPlaces, WorkerPlaces, CallbackPlaces, EventcbPlaces
  <2>7. /\ cont' = [cont EXCEPT ![w] = cont[w]]
        /\ cont[w] \in {"idle", "find", "consider", "release", "enabled", "greeted"}
        /\ map_Client' \subseteq Clients
        /\ pc \in [Threads -> WorkerPlaces \cup DispatcherPlaces]
    BY <1>1, <1>4, <1>7 DEF IInv, TypeOK
  <2>8. LockInv'
    <3>1. LockInv /\ cur[w] = b
      BY DEF IInv, LockInv
    <3> HIDE DEF b
    <3> QED
      BY <1>1, <1>2, <1>4, <1>5, <1>6, <2>1, <2>2, <2>3, <2>4, <2>5, <2>6, <2>7,
         <3>1, LockedStep
  <2>9. MapInv'
    <3>1. \A x \in Clients : bev'[x].user = bev[x].user
      BY <1>0, <2>2, <2>3
    <3>2. \A u \in Threads : pc'[u] \in {"insert", "free"} <=> pc[u] \in {"insert", "free"}
      BY <1>1, <2>5, <2>6, <2>7
    <3> QED
      BY <1>4, <3>1, <3>2, MapKept DEF IInv
  <2>10. Phases'
    BY <1>1, <1>4, <2>5, <2>7, StopKept DEF IInv, Rest
  <2> QED
    BY <2>8, <2>9, <2>10 DEF IInv, LockInv
<1>8. CASE /\ bev' = [bev EXCEPT ![b].rip = 0, ![b].ok = 0]
           /\ IF bev[b].user = 1 /\ bev[b].ok = 1 THEN CallEventcb(w, "release")
              ELSE Goto(w, "release") /\ UNCHANGED cont
           /\ UNCHANGED reads
  <2> DEFINE s == [bev[b] EXCEPT !.rip = 0, !.ok = 0]
  <2>1. s \in BevState
    BY <1>3, StateUpdates
  <2>2. Consistent(s, 1) /\ s.wip = bev[b].wip /\ s.user = bev[b].user /\ s.ok = 0
    BY <1>2, <1>3 DEF Consistent, BevState
  <2>3. bev' = [bev EXCEPT ![b] = s]
    BY <1>0, <1>2, <1>8
  <2> HIDE DEF s
  <2>4. Launches(w, b, s, "release")
    BY <2>1, <2>2, <2>3, <1>8 DEF Launches
  <2>5. reads' \in [Clients -> 0..MaxReads]
    BY <1>0, <1>8
  <2> HIDE DEF b
  <2>6. cur[w] = b
    BY DEF b
  <2> QED
    BY <1>1, <1>2, <1>4, <1>5, <1>6, <2>1, <2>2, <2>4, <2>5, <2>6, LaunchStep
<1> QED
  BY <1>7, <1>8 DEF ReadComplete

LEMMA WriteCompleteIInv == ASSUME IInv, NEW w \in Workers, WriteComplete(w) PROVE IInv'
<1> DEFINE b == cur[w]
<1>0. bev \in [Clients -> BevState] /\ reads \in [Clients -> 0..MaxReads]
  BY DEF IInv, TypeOK
<1>1. pc[w] = "write_complete" /\ w # Dispatcher /\ w \in Threads
  BY DEF WriteComplete, At
<1>2. b \in Clients /\ bev[b].wip > 0 /\ lock[b] = NoThread
  BY <1>1 DEF IInv, CompletionsOnce, WriteComplete
<1>3. bev[b] \in BevState /\ Consistent(bev[b], 0)
  BY <1>0, <1>2 DEF IInv, Consistency
<1>4. UNCHANGED <<cur, map_Client>> /\ UNCHANGED Rest /\ lock' = [lock EXCEPT ![b] = w]
      /\ reads' \in [Clients -> 0..MaxReads]
  BY <1>0 DEF WriteComplete, Rest
<1>5. \A v \in Workers \ {w} : cur[v] = b => pc[v] # "write_complete"
  BY <1>1 DEF IInv, CompletionsOnce
<1>6. \A v \in Workers \ {w} : cur[v] = b /\ pc[v] = "read_complete" => bev[b].rip = 1
  BY DEF IInv, CompletionsOnce
<1>7. PICK s \in BevState :
         /\ Launches(w, b, s, "release")
         /\ s.user = bev[b].user /\ s.rip = bev[b].rip
  <2> DEFINE sent == [bev[b] EXCEPT !.wip = 0, !.out = @ - bev[b].wip]
             failed == [bev[b] EXCEPT !.wip = 0, !.ok = 0]
  <2>1. \/ ConsiderWriting(w, b, sent, "release")
        \/ /\ bev' = [bev EXCEPT ![b] = failed]
           /\ IF bev[b].user = 1 /\ bev[b].ok = 1 THEN CallEventcb(w, "release")
              ELSE Goto(w, "release") /\ UNCHANGED cont
    BY DEF WriteComplete
  <2>2. sent \in BevState /\ failed \in BevState
    BY <1>3, StateUpdates DEF Consistent
  <2>3. Consistent(sent, 1) /\ sent.user = bev[b].user /\ sent.rip = bev[b].rip
    BY <1>2, <1>3 DEF Consistent, BevState
  <2>4. /\ Consistent(failed, 1) /\ failed.user = bev[b].user /\ failed.rip = bev[b].rip
        /\ failed.ok = 0
    BY <1>2, <1>3 DEF Consistent, BevState
  <2> HIDE DEF sent, failed
  <2>5. CASE ConsiderWriting(w, b, sent, "release")
    BY <2>2, <2>3, <2>5, ConsiderWritingLaunches
  <2>6. CASE /\ bev' = [bev EXCEPT ![b] = failed]
             /\ IF bev[b].user = 1 /\ bev[b].ok = 1 THEN CallEventcb(w, "release")
                ELSE Goto(w, "release") /\ UNCHANGED cont
    <3>1. Launches(w, b, failed, "release")
      BY <2>2, <2>4, <2>6 DEF Launches
    <3> QED
      BY <3>1, <2>2, <2>4
  <2> QED
    BY <2>1, <2>5, <2>6
<1> HIDE DEF b
<1>8. cur[w] = b
  BY DEF b
<1> QED
  BY <1>1, <1>2, <1>4, <1>5, <1>6, <1>7, <1>8, LaunchStep

LEMMA ReleaseIInv == ASSUME IInv, NEW w \in Workers, Release(w) PROVE IInv'
<1> DEFINE b == cur[w]
<1>0. /\ bev \in [Clients -> BevState]
      /\ pc \in [Threads -> WorkerPlaces \cup DispatcherPlaces]
      /\ cur \in [Threads -> Clients \cup {NoClient}]
  BY DEF IInv, TypeOK
<1>1. /\ pc[w] = "release" /\ w # Dispatcher /\ w \in Threads
      /\ pc' = [pc EXCEPT ![w] = "idle"]
      /\ bev' = [bev EXCEPT ![b] = Decref(@)]
      /\ lock' = [lock EXCEPT ![b] = NoThread]
      /\ cur' = [cur EXCEPT ![w] = NoClient]
      /\ UNCHANGED <<cont, map_Client, reads>> /\ UNCHANGED Rest
  BY DEF Release, At, Goto, Rest
<1>2. pc[w] \in HoldingPlaces /\ "idle" \in WorkerPlaces
  BY <1>1 DEF HoldingPlaces, CallbackPlaces, WorkerPlaces
<1>3. b \in Clients /\ lock[b] = w /\ bev[b] \in BevState
  BY <1>1, <1>2, Holding
<1>4. LockInv'
  <2>1. LockInv /\ cur[w] = b
    BY DEF IInv, LockInv
  <2> HIDE DEF b
  <2> QED
    BY <1>1, <1>2, <1>3, <2>1, UnlockStep
<1>5. MapInv'
  <2>1. \A x \in Clients : bev'[x].user = bev[x].user
    BY <1>0, <1>1, <1>3 DEF Decref, BevState
  <2>2. \A u \in Threads :
            /\ pc'[u] \in {"insert", "free"} <=> pc[u] \in {"insert", "free"}
            /\ pc[u] \in {"insert", "free"} => cur'[u] = cur[u]
    BY <1>0, <1>1
  <2> QED
    BY <1>1, <2>1, <2>2, MapKept DEF IInv
<1>6. Phases'
  BY <1>0, <1>1, StopKept DEF IInv, Rest
<1> QED
  BY <1>4, <1>5, <1>6 DEF IInv, LockInv

(* A worker takes a completion that no other worker has. *)
LEMMA DequeueIInv ==
  ASSUME IInv, NEW w \in Workers, NEW b \in Clients, Dequeue(w, b) PROVE IInv'
<1>0. /\ pc \in [Threads -> WorkerPlaces \cup DispatcherPlaces]
      /\ cur \in [Threads -> Clients \cup {NoClient}]
      /\ w # Dispatcher /\ w \in Threads
  BY DEF IInv, TypeOK
<1>1. PICK c \in {"read_complete", "write_complete"} :
          /\ IF c = "read_complete" THEN bev[b].rip = 1 ELSE bev[b].wip > 0
          /\ \A v \in Workers : ~(pc[v] = c /\ cur[v] = b)
          /\ pc' = [pc EXCEPT ![w] = c]
  BY DEF Dequeue, Goto
<1>2. /\ pc[w] = "idle" /\ PortServes /\ Running
      /\ cur' = [cur EXCEPT ![w] = b]
      /\ UNCHANGED <<cont, map_Client, bev, lock, reads>> /\ UNCHANGED Rest
  BY DEF Dequeue, At, Rest
<1>3. /\ c \in WorkerPlaces /\ c \notin HoldingPlaces /\ c \notin EventcbPlaces
      /\ c \notin {"insert", "free"} /\ pc[w] \notin HoldingPlaces
  BY <1>2 DEF WorkerPlaces, HoldingPlaces, CallbackPlaces, EventcbPlaces
<1>4. \A u \in Threads : u # w => pc'[u] = pc[u] /\ cur'[u] = cur[u]
  BY <1>0, <1>1, <1>2
<1>5. pc'[w] = c /\ cur'[w] = b
  BY <1>0, <1>1, <1>2
<1>6. TypeOK'
  <2>1. /\ pc' \in [Threads -> WorkerPlaces \cup DispatcherPlaces]
        /\ cur' \in [Threads -> Clients \cup {NoClient}]
    BY <1>0, <1>1, <1>2, <1>3
  <2>2. (\A v \in Workers : pc'[v] \in WorkerPlaces) /\ pc'[Dispatcher] \in DispatcherPlaces
    BY <1>0, <1>3, <1>4, <1>5 DEF IInv, TypeOK
  <2> QED
    BY <1>2, <2>1, <2>2 DEF IInv, TypeOK, Rest
<1>7. Consistency'
  BY <1>2 DEF IInv, Consistency
<1>8. LockHeld'
  <2>1. \A u \in Threads : pc'[u] \in HoldingPlaces => cur'[u] \in Clients /\ lock[cur'[u]] = u
    BY <1>3, <1>4, <1>5 DEF IInv, LockHeld
  <2>2. \A x \in Clients : lock[x] # NoThread => pc'[lock[x]] \in HoldingPlaces /\ cur'[lock[x]] = x
    BY <1>3, <1>4, <1>5 DEF IInv, TypeOK, LockHeld
  <2> QED
    BY <1>2, <2>1, <2>2 DEF LockHeld
<1>9. EventcbOnce'
  BY <1>2, <1>3, <1>4, <1>5 DEF IInv, EventcbOnce
<1>10. CompletionsOnce'
  BY <1>1, <1>2, <1>4, <1>5 DEF IInv, CompletionsOnce
<1>11. ListenerOwns'
  BY <1>0, <1>2, <1>4 DEF IInv, ListenerOwns
<1>12. MapInv'
  BY <1>2, <1>3, <1>4, <1>5, MapKept DEF IInv
<1>13. Phases'
  BY <1>0, <1>2, <1>4 DEF IInv, Phases, PortServes, Running, Rest
<1> QED
  BY <1>6, <1>7, <1>8, <1>9, <1>10, <1>11, <1>12, <1>13 DEF IInv

-----------------------------------------------------------------------------
(* The steps of the dispatching thread. *)

LEMMA EnableGreetIInv == ASSUME IInv, EnableClient \/ Greet PROVE IInv'
<1> DEFINE b == cur[Dispatcher]
<1>0. bev \in [Clients -> BevState] /\ reads \in [Clients -> 0..MaxReads]
  BY DEF IInv, TypeOK
<1>1. pc[Dispatcher] \in {"enable", "greet"} /\ Dispatcher \in Threads
  BY DEF EnableClient, Greet, At
<1>2. b \in Clients /\ lock[b] = NoThread
  BY <1>1 DEF IInv, ListenerOwns, EnableClient, Greet
<1>3. bev[b] \in BevState /\ Consistent(bev[b], 0)
  BY <1>0, <1>2 DEF IInv, Consistency
<1>4. UNCHANGED <<cur, map_Client>> /\ UNCHANGED Rest
      /\ lock' = [lock EXCEPT ![b] = Dispatcher] /\ reads' \in [Clients -> 0..MaxReads]
  BY <1>0 DEF EnableClient, Greet, Rest
<1>5. PICK s \in BevState, k \in {"enabled", "greeted"} :
         /\ Launches(Dispatcher, b, s, k)
         /\ s.user = bev[b].user /\ s.rip = bev[b].rip /\ s.wip = bev[b].wip
  <2>1. CASE EnableClient
    <3> DEFINE s == [bev[b] EXCEPT !.refcnt = @ + 1]
    <3>1. ConsiderReading(Dispatcher, b, s, "enabled")
      BY <2>1 DEF EnableClient
    <3>2. s \in BevState
      BY <1>3, StateUpdates
    <3>3. bev[b].life = "live"
      BY <1>3, <2>1 DEF IInv, ListenerOwns, EnableClient, At, Consistent, BevState
    <3>4. Consistent(s, 1) /\ s.user = bev[b].user /\ s.rip = bev[b].rip /\ s.wip = bev[b].wip
      BY <1>3, <3>3 DEF Consistent, BevState
    <3> HIDE DEF s
    <3> QED
      BY <3>1, <3>2, <3>4, ConsiderReadingLaunches
  <2>2. CASE Greet
    <3> DEFINE s == [bev[b] EXCEPT !.refcnt = @ + 1, !.out = @ + 1]
    <3>1. ConsiderWriting(Dispatcher, b, s, "greeted") /\ bev[b].life = "live"
      BY <2>2 DEF Greet
    <3>2. s \in BevState
      BY <1>3, StateUpdates
    <3>3. Consistent(s, 1) /\ s.user = bev[b].user /\ s.rip = bev[b].rip /\ s.wip = bev[b].wip
      BY <1>3, <3>1 DEF Consistent, BevState
    <3> HIDE DEF s
    <3> QED
      BY <3>1, <3>2, <3>3, ConsiderWritingLaunches
  <2> QED
    BY <2>1, <2>2
<1>6. \A v \in Workers \ {Dispatcher} :
          cur[v] = b => /\ pc[v] = "read_complete" => s.rip = 1
                        /\ pc[v] = "write_complete" => s.wip > 0
  BY <1>5 DEF IInv, CompletionsOnce
<1> HIDE DEF b
<1>7. cur[Dispatcher] = b
  BY DEF b
<1> QED
  BY <1>1, <1>2, <1>4, <1>5, <1>6, <1>7, LaunchStep

LEMMA ReturnsIInv == ASSUME IInv, EnableReturns \/ GreetReturns PROVE IInv'
<1> DEFINE b == cur[Dispatcher]
<1>0. /\ bev \in [Clients -> BevState]
      /\ pc \in [Threads -> WorkerPlaces \cup DispatcherPlaces]
      /\ cur \in [Threads -> Clients \cup {NoClient}]
      /\ Dispatcher \in Threads
  BY DEF IInv, TypeOK
<1>1. pc[Dispatcher] \in {"enabled", "greeted"}
  BY DEF EnableReturns, GreetReturns, At
<1>2. PICK k \in {"greet", "loop"}, c \in {b, NoClient} :
        /\ pc' = [pc EXCEPT ![Dispatcher] = k]
        /\ cur' = [cur EXCEPT ![Dispatcher] = c]
        /\ k = "greet" => c = b
  <2>1. CASE EnableReturns
    <3>1. cur' = [cur EXCEPT ![Dispatcher] = b] /\ pc' = [pc EXCEPT ![Dispatcher] = "greet"]
      BY <1>0, <2>1 DEF EnableReturns, Goto
    <3> QED
      BY <3>1
  <2>2. CASE GreetReturns
    <3>1. cur' = [cur EXCEPT ![Dispatcher] = NoClient] /\ pc' = [pc EXCEPT ![Dispatcher] = "loop"]
      BY <2>2 DEF GreetReturns, Goto
    <3> QED
      BY <3>1
  <2> QED
    BY <2>1, <2>2
<1>3. /\ bev' = [bev EXCEPT ![b] = Decref(@)]
      /\ lock' = [lock EXCEPT ![b] = NoThread]
      /\ UNCHANGED <<cont, map_Client, reads>> /\ UNCHANGED Rest
  BY DEF EnableReturns, GreetReturns, Rest
<1>4. pc[Dispatcher] \in HoldingPlaces /\ k \in DispatcherPlaces
  BY <1>1 DEF HoldingPlaces, DispatcherPlaces
<1>5. b \in Clients /\ lock[b] = Dispatcher /\ bev[b] \in BevState
  BY <1>0, <1>4, Holding
<1>6. LockInv'
  <2>1. LockInv /\ cur[Dispatcher] = b
    BY DEF IInv, LockInv
  <2> HIDE DEF b
  <2> QED
    BY ZenonT(60), <1>0, <1>2, <1>3, <1>4, <1>5, <2>1, UnlockStep
<1>7. MapInv'
  <2>1. \A x \in Clients : bev'[x].user = bev[x].user
    BY <1>0, <1>3, <1>5 DEF Decref, BevState
  <2>2. \A u \in Threads :
            /\ pc'[u] \in {"insert", "free"} <=> pc[u] \in {"insert", "free"}
            /\ pc[u] \in {"insert", "free"} => cur'[u] = cur[u]
    BY <1>0, <1>1, <1>2
  <2> QED
    BY <1>3, <2>1, <2>2, MapKept DEF IInv
<1>8. Phases'
  BY <1>0, <1>1, <1>2, <1>3, StopKept DEF IInv, Rest
<1> QED
  BY <1>6, <1>7, <1>8 DEF IInv, LockInv

(* The listener callback has a new bufferevent, which nobody knows. *)
LEMMA AcceptIInv == ASSUME IInv, NEW b \in Clients, Accept(b) PROVE IInv'
<1>0. /\ pc \in [Threads -> WorkerPlaces \cup DispatcherPlaces]
      /\ cur \in [Threads -> Clients \cup {NoClient}]
      /\ bev \in [Clients -> BevState]
      /\ lock \in [Clients -> Threads \cup {NoThread}]
      /\ Dispatcher \in Threads
  BY DEF IInv, TypeOK
<1>1. /\ pc[Dispatcher] = "loop" /\ pc' = [pc EXCEPT ![Dispatcher] = "insert"]
      /\ bev[b].life = "none" /\ bev' = [bev EXCEPT ![b] = NewBev]
      /\ cur' = [cur EXCEPT ![Dispatcher] = b]
      /\ UNCHANGED <<cont, map_Client, lock, reads>> /\ UNCHANGED Rest
  BY DEF Accept, At, Goto, Rest
<1>2. NewBev \in BevState /\ Consistent(NewBev, 0)
      /\ NewBev.user = 1 /\ NewBev.rip = 0 /\ NewBev.wip = 0
  BY DEF NewBev, BevState, Consistent
<1>3. lock[b] = NoThread /\ bev[b].user = 0 /\ bev[b].rip = 0 /\ bev[b].wip = 0
  <2>1. bev[b] \in BevState /\ Consistent(bev[b], IF lock[b] = NoThread THEN 0 ELSE 1)
    BY <1>0 DEF IInv, Consistency
  <2>2. bev[b].refcnt = 0
    BY <1>1, <2>1 DEF Consistent, BevState
  <2> QED
    BY <2>1, <2>2 DEF Consistent, BevState
<1>4. \A u \in Threads : u # Dispatcher => pc'[u] = pc[u] /\ cur'[u] = cur[u]
  BY <1>0, <1>1
<1>5. pc'[Dispatcher] = "insert" /\ cur'[Dispatcher] = b /\ bev'[b] = NewBev
  BY <1>0, <1>1
<1>6. \A x \in Clients : x # b => bev'[x] = bev[x]
  BY <1>0, <1>1
<1>7. /\ "insert" \in DispatcherPlaces /\ "insert" \notin HoldingPlaces
      /\ "insert" \notin EventcbPlaces /\ pc[Dispatcher] \notin HoldingPlaces
  BY <1>1 DEF DispatcherPlaces, HoldingPlaces, CallbackPlaces, EventcbPlaces
<1>8. \A u \in Threads : pc[u] \in HoldingPlaces => cur[u] \in Clients \ {b}
  BY <1>3 DEF IInv, LockHeld
<1>9. TypeOK'
  <2>1. /\ pc' \in [Threads -> WorkerPlaces \cup DispatcherPlaces]
        /\ cur' \in [Threads -> Clients \cup {NoClient}]
        /\ bev' \in [Clients -> BevState]
    BY <1>0, <1>1, <1>2, <1>7
  <2>2. (\A w \in Workers : pc'[w] \in WorkerPlaces) /\ pc'[Dispatcher] \in DispatcherPlaces
    BY <1>4, <1>5, <1>7 DEF IInv, TypeOK
  <2> QED
    BY <1>1, <2>1, <2>2 DEF IInv, TypeOK, Rest
<1>10. Consistency'
  BY <1>1, <1>2, <1>3, <1>5, <1>6 DEF IInv, Consistency
<1>11. LockHeld'
  <2>1. \A u \in Threads : pc'[u] \in HoldingPlaces => cur'[u] \in Clients /\ lock[cur'[u]] = u
    BY <1>4, <1>5, <1>7 DEF IInv, LockHeld
  <2>2. \A x \in Clients : lock[x] # NoThread => pc'[lock[x]] \in HoldingPlaces /\ cur'[lock[x]] = x
    BY <1>0, <1>4, <1>5, <1>7 DEF IInv, LockHeld
  <2> QED
    BY <1>1, <2>1, <2>2 DEF LockHeld
<1>12. EventcbOnce'
  BY <1>1, <1>4, <1>5, <1>6, <1>7, <1>8 DEF IInv, EventcbOnce, HoldingPlaces
<1>13. CompletionsOnce'
  BY <1>3, <1>4, <1>5, <1>6 DEF IInv, CompletionsOnce
<1>14. ListenerOwns'
  BY <1>1, <1>2, <1>3, <1>5 DEF ListenerOwns
<1>15. MapInv'
  <2>1. b \notin map_Client
    BY <1>3 DEF IInv, MapInv, MapMember
  <2>2. ~MapMember(b)'
    BY <1>0, <1>5 DEF MapMember
  <2>3. \A x \in Clients \ {b} : MapMember(x)' <=> MapMember(x)
    BY <1>1, <1>4, <1>5, <1>6 DEF MapMember
  <2> QED
    BY <1>1, <2>1, <2>2, <2>3 DEF IInv, MapInv
<1>16. Phases'
  BY <1>0, <1>1, StopKept DEF IInv, Rest
<1> QED
  BY <1>9, <1>10, <1>11, <1>12, <1>13, <1>14, <1>15, <1>16 DEF IInv

(* The dispatching thread moves on outside of the bufferevents. *)
LEMMA DispatcherMoves ==
  ASSUME IInv, NEW k \in {"spin", "loop", "enable", "done"},
         pc[Dispatcher] \in {"none", "spin", "loop", "insert"},
         k = "enable" => pc[Dispatcher] = "insert",
         pc' = [pc EXCEPT ![Dispatcher] = k],
         UNCHANGED <<cur, cont, bev, lock, reads>>, map_Client' \subseteq Clients,
         main' \in {main, "ready"}, pc[Dispatcher] = "none" => main' = "ready",
         UNCHANGED <<run, members, exiting>>
  PROVE  LockInv' /\ Phases'
<1>0. /\ pc \in [Threads -> WorkerPlaces \cup DispatcherPlaces]
      /\ Dispatcher \in Threads
      /\ lock \in [Clients -> Threads \cup {NoThread}]
  BY DEF IInv, TypeOK
<1>1. /\ k \in DispatcherPlaces /\ k \notin HoldingPlaces /\ k \notin EventcbPlaces
      /\ pc[Dispatcher] \notin HoldingPlaces
  BY DEF DispatcherPlaces, HoldingPlaces, CallbackPlaces, EventcbPlaces
<1>2. (\A u \in Threads : u # Dispatcher => pc'[u] = pc[u]) /\ pc'[Dispatcher] = k
  BY <1>0
<1>3. TypeOK'
  <2>1. pc' \in [Threads -> WorkerPlaces \cup DispatcherPlaces]
    BY <1>0, <1>1
  <2>2. (\A w \in Workers : pc'[w] \in WorkerPlaces) /\ pc'[Dispatcher] \in DispatcherPlaces
    BY <1>1, <1>2 DEF IInv, TypeOK
  <2> QED
    BY <2>1, <2>2 DEF IInv, TypeOK
<1>4. Consistency'
  BY DEF IInv, Consistency
<1>5. LockHeld'
  <2>1. \A u \in Threads : pc'[u] \in HoldingPlaces => cur[u] \in Clients /\ lock[cur[u]] = u
    BY <1>1, <1>2 DEF IInv, LockHeld
  <2>2. \A x \in Clients : lock[x] # NoThread => pc'[lock[x]] \in HoldingPlaces /\ cur[lock[x]] = x
    BY <1>0, <1>1, <1>2 DEF IInv, LockHeld
  <2> QED
    BY <2>1, <2>2 DEF LockHeld
<1>6. EventcbOnce'
  BY <1>1, <1>2 DEF IInv, EventcbOnce
<1>7. CompletionsOnce'
  BY <1>2 DEF IInv, CompletionsOnce
<1>8. ListenerOwns'
  BY <1>2 DEF IInv, ListenerOwns
<1>9. Phases'
  BY <1>2 DEF IInv, Phases
<1> QED
  BY <1>3, <1>4, <1>5, <1>6, <1>7, <1>8, <1>9 DEF LockInv

LEMMA InsertClientIInv == ASSUME IInv, InsertClient PROVE IInv'
<1> DEFINE b == cur[Dispatcher]
<1>0. pc \in [Threads -> WorkerPlaces \cup DispatcherPlaces] /\ Dispatcher \in Threads
      /\ map_Client \subseteq Clients
  BY DEF IInv, TypeOK
<1>1. /\ pc[Dispatcher] = "insert" /\ pc' = [pc EXCEPT ![Dispatcher] = "enable"]
      /\ map_Client' = map_Client \cup {b}
      /\ UNCHANGED <<cur, cont, bev, lock, reads>> /\ UNCHANGED Rest
  BY DEF InsertClient, At, Goto, Rest
<1>2. b \in Clients /\ bev[b].user = 1 /\ lock[b] = NoThread
  BY <1>1 DEF IInv, ListenerOwns
<1>3. \A t \in Threads \ {Dispatcher} : pc[t] \in {"insert", "free"} => cur[t] # b
  BY <1>2 DEF IInv, LockHeld, TypeOK, WorkerPlaces, HoldingPlaces, CallbackPlaces,
              EventcbPlaces
<1>4. MapInv'
  <2>1. MapMember(b)'
    BY <1>0, <1>1, <1>2, <1>3 DEF MapMember
  <2>2. \A x \in Clients \ {b} : MapMember(x)' <=> MapMember(x)
    BY <1>0, <1>1 DEF MapMember
  <2> QED
    BY <1>1, <2>1, <2>2 DEF IInv, MapInv
<1>5. LockInv' /\ Phases'
  BY <1>0, <1>1, <1>2, DispatcherMoves DEF Rest
<1> QED
  BY <1>4, <1>5 DEF IInv, LockInv

LEMMA LoopIInv ==
  ASSUME IInv, dispatch \/ AcceptFails \/ LoopExits \/ InitThread PROVE IInv'
<1>0. pc \in [Threads -> WorkerPlaces \cup DispatcherPlaces] /\ Dispatcher \in Threads
      /\ map_Client \subseteq Clients
  BY DEF IInv, TypeOK
<1>1. PICK k \in {"spin", "loop", "done"} : pc' = [pc EXCEPT ![Dispatcher] = k]
  BY DEF dispatch, AcceptFails, LoopExits, InitThread, Goto
<1>2. UNCHANGED <<cur, cont, map_Client, bev, lock, reads, run, members, exiting>>
  BY DEF dispatch, AcceptFails, LoopExits, InitThread
<1>3. /\ main' \in {main, "ready"}
      /\ pc[Dispatcher] \in {"none", "spin", "loop"}
      /\ pc[Dispatcher] = "none" => main' = "ready"
  BY DEF dispatch, AcceptFails, LoopExits, InitThread, At, MainAt, IInv, Phases

<1>4. MapInv'
  BY <1>0, <1>1, <1>2, <1>3, MapKept DEF IInv
<1>5. LockInv' /\ Phases'
  BY <1>0, <1>1, <1>2, <1>3, DispatcherMoves
<1> QED
  BY <1>4, <1>5 DEF IInv, LockInv

-----------------------------------------------------------------------------
(* The steps that leave the threads and the bufferevents alone: those of   *)
(* the main thread, signal_cb, and the ones that end in a fault.           *)

LEMMA OthersIInv ==
  ASSUME IInv, UNCHANGED <<pc, cur, cont, map_Client, bev, lock, reads>>,
         main' \in {"config", "base", "listener", "signal", "thread", "ready",
                   "free_listener", "free_signal", "stop_iocp", "wait_iocp",
                   "free_base", "return", "exited"},
         run' \in {0, 1}, exiting' \in {0, 1},
         members' \in [{"base", "listener", "signal"} ->
                          {"garbage", "null", "valid", "freed"}],
         Phases'
  PROVE  IInv'
BY DEF IInv, TypeOK, Consistency, LockHeld, EventcbOnce, CompletionsOnce,
       ListenerOwns, MapInv, MapMember

LEMMA FaultIInv == ASSUME IInv, NEW kind, Fault(kind) PROVE IInv'
<1>1. Phases'
  BY DEF IInv, Phases, Fault
<1>2. TypeOK
  BY DEF IInv
<1> QED
  BY <1>1, <1>2, OthersIInv DEF Fault, TypeOK

LEMMA SignalIInv == ASSUME IInv, signal_cb PROVE IInv'
<1>1. Phases'
  BY DEF IInv, Phases, signal_cb
<1>2. TypeOK
  BY DEF IInv
<1> QED
  BY <1>1, <1>2, OthersIInv DEF signal_cb, TypeOK

LEMMA MainStepIInv == ASSUME IInv, MainStep PROVE IInv'
<1>0. TypeOK
  BY DEF IInv
<1>1. CASE InitThread
  BY <1>1, LoopIInv
<1>2. ASSUME NEW member \in {"base", "listener", "signal"}, NEW from, NEW to,
             \/ from = "base" /\ to = "listener"
             \/ from = "listener" /\ to = "signal"
             \/ from = "signal" /\ to = "thread",
             NEW failed \in SUBSET {"null", "valid"}, InitStep(from, member, failed, to)
      PROVE  IInv'
  <2>1. /\ main = from /\ main' \in {to, "free_listener"}
        /\ UNCHANGED <<pc, cur, cont, map_Client, bev, lock, reads, run, exiting>>
    BY <1>2 DEF InitStep, MainAt
  <2>2. members' \in [{"base", "listener", "signal"} -> {"garbage", "null", "valid", "freed"}]
    BY <1>0, <1>2 DEF InitStep, TypeOK
  <2>3. Phases'
    BY <1>2, <2>1 DEF IInv, Phases
  <2> QED
    BY <1>0, <1>2, <2>1, <2>2, <2>3, OthersIInv DEF TypeOK
<1>3. ASSUME NEW member \in {"base", "listener", "signal"}, NEW from, NEW to,
             \/ from = "free_listener" /\ to = "free_signal"
             \/ from = "free_signal" /\ to = "stop_iocp"
             \/ from = "free_base" /\ to = "return",
             FreeMember(from, member, to)
      PROVE  IInv'
  <2>1. CASE Fault("uninitialised_member")
    BY <2>1, FaultIInv
  <2>2. CASE /\ members' = [members EXCEPT ![member] = "freed"]
             /\ main' = to
             /\ UNCHANGED <<run, exiting, pc, cur, cont, map_Client, bev, lock,
                            reads, fault>>
    <3>1. members' \in [{"base", "listener", "signal"} -> {"garbage", "null", "valid", "freed"}]
      BY <1>0, <2>2 DEF TypeOK
    <3>2. main = from
      BY <1>3 DEF FreeMember, MainAt
    <3>3. Phases'
      BY <1>3, <2>2, <3>2 DEF IInv, Phases
    <3> QED
      BY <1>0, <1>3, <2>2, <3>1, <3>3, OthersIInv DEF TypeOK
  <2> QED
    BY <1>3, <2>1, <2>2 DEF FreeMember
<1>4. CASE InitConfig \/ Run \/ StopIocp \/ IocpStopped \/ Exit
  <2>1. Phases'
    BY <1>4 DEF IInv, Phases, InitConfig, Run, StopIocp, IocpStopped, Exit, MainAt
  <2> QED
    BY <1>0, <1>4, <2>1, OthersIInv
    DEF TypeOK, InitConfig, Run, StopIocp, IocpStopped, Exit
<1>5. InitBase \/ InitListener \/ InitSignal => IInv'
  <2>1. InitStep("base", "base", {"null"}, "listener") => IInv'
    BY <1>2
  <2>2. InitStep("listener", "listener", {"null"}, "signal") => IInv'
    BY <1>2
  <2>3. InitStep("signal", "signal", {"null", "valid"}, "thread") => IInv'
    BY <1>2
  <2> QED
    BY <2>1, <2>2, <2>3 DEF InitBase, InitListener, InitSignal
<1>6. FreeListener \/ FreeSignal \/ FreeBase => IInv'
  BY <1>3 DEF FreeListener, FreeSignal, FreeBase
<1> QED
  BY <1>1, <1>4, <1>5, <1>6 DEF MainStep

-----------------------------------------------------------------------------
(* At first nothing runs and nothing is connected. *)
LEMMA InitIInv == Init => IInv
<1> SUFFICES ASSUME Init PROVE IInv
  OBVIOUS
<1>1. ASSUME NEW b \in Clients
      PROVE  /\ bev[b] \in BevState /\ Consistent(bev[b], 0)
             /\ bev[b].user = 0 /\ bev[b].rip = 0 /\ bev[b].wip = 0
  <2>1. NewBev \in BevState /\ NewBev.life = "live" /\ NewBev.rip = 0 /\ NewBev.wip = 0
        /\ NewBev.out = 0
    BY DEF NewBev, BevState
  <2>2. bev[b] = [NewBev EXCEPT !.life = "none", !.refcnt = 0, !.user = 0, !.ok = 0]
    BY DEF Init
  <2>3. ASSUME NEW s \in BevState
        PROVE  LET r == [s EXCEPT !.life = "none", !.refcnt = 0, !.user = 0, !.ok = 0]
               IN  /\ r \in BevState /\ r.life = "none" /\ r.refcnt = 0 /\ r.user = 0
                   /\ r.ok = 0 /\ r.rip = s.rip /\ r.wip = s.wip /\ r.out = s.out
    BY DEF BevState
  <2>4. /\ bev[b] \in BevState /\ bev[b].life = "none" /\ bev[b].refcnt = 0
        /\ bev[b].user = 0 /\ bev[b].ok = 0
        /\ bev[b].rip = NewBev.rip /\ bev[b].wip = NewBev.wip /\ bev[b].out = NewBev.out
    BY ZenonT(60), <2>1, <2>2, <2>3
  <2> QED
    BY <2>1, <2>4 DEF Consistent
<1>2. TypeOK
  <2>1. members \in [{"base", "listener", "signal"} -> {"garbage", "null", "valid", "freed"}]
    BY DEF Init
  <2>2. pc \in [Threads -> WorkerPlaces \cup DispatcherPlaces]
    BY DEF Init, WorkerPlaces, DispatcherPlaces
  <2>3. (\A w \in Workers : pc[w] \in WorkerPlaces) /\ pc[Dispatcher] \in DispatcherPlaces
    BY DEF Init, WorkerPlaces, DispatcherPlaces
  <2>4. bev \in [Clients -> BevState]
    BY <1>1 DEF Init
  <2> QED
    BY <2>1, <2>2, <2>3, <2>4 DEF Init, TypeOK
<1>3. \A t \in Threads : pc[t] \in {"idle", "none"}
  BY DEF Init
<1>4. Consistency
  BY <1>1 DEF Init, Consistency
<1>5. LockHeld /\ EventcbOnce
  BY <1>3 DEF Init, LockHeld, EventcbOnce, HoldingPlaces, CallbackPlaces, EventcbPlaces
<1>6. CompletionsOnce /\ ListenerOwns
  BY <1>3 DEF CompletionsOnce, ListenerOwns
<1>7. MapInv
  BY <1>1 DEF Init, MapInv, MapMember
<1>8. Phases
  BY DEF Init, Phases
<1> QED
  BY <1>2, <1>4, <1>5, <1>6, <1>7, <1>8 DEF IInv

(* Every step of every thread keeps the invariant. *)
LEMMA NextIInv == IInv /\ [Next]_vars => IInv'
<1> SUFFICES ASSUME IInv, [Next]_vars PROVE IInv'
  OBVIOUS
<1>1. CASE MainStep
  BY <1>1, MainStepIInv
<1>2. ASSUME NEW w \in Workers, WorkerStep(w) PROVE IInv'
  <2>1. CASE ReadcbFind(w)
    <3>1. CASE Fault("end_iterator")
      BY <3>1, FaultIInv
    <3>2. CASE /\ Goto(w, "reply")
               /\ UNCHANGED <<main, run, members, exiting, cur, cont, map_Client,
                              bev, lock, reads, fault>>
      <4> DEFINE b == cur[w]
      <4>0. /\ pc \in [Threads -> WorkerPlaces \cup DispatcherPlaces]
            /\ cont \in [Threads -> {"idle", "find", "consider", "release", "enabled", "greeted"}]
            /\ bev \in [Clients -> BevState] /\ reads \in [Clients -> 0..MaxReads]
            /\ lock \in [Clients -> Threads \cup {NoThread}]
            /\ map_Client \subseteq Clients
            /\ w \in Threads /\ w # Dispatcher
        BY DEF IInv, TypeOK
      <4>1. pc[w] = "find" /\ pc' = [pc EXCEPT ![w] = "reply"]
        BY <2>1, <3>2 DEF ReadcbFind, At, Goto
      <4>2. /\ pc[w] \in HoldingPlaces /\ "reply" \in HoldingPlaces
            /\ "reply" \in WorkerPlaces /\ "reply" \notin EventcbPlaces
        BY <4>1 DEF HoldingPlaces, CallbackPlaces, WorkerPlaces, EventcbPlaces
      <4>3. b \in Clients /\ lock[b] = w /\ bev[b] \in BevState /\ Consistent(bev[b], 1)
        BY <4>0, <4>2, Holding
      <4>4. LockInv'
        <5>1. LockInv /\ cur[w] = b
          BY DEF IInv, LockInv
        <5>2. /\ bev' = [bev EXCEPT ![b] = bev[b]] /\ lock' = [lock EXCEPT ![b] = w]
              /\ cont' = [cont EXCEPT ![w] = cont[w]]
              /\ cont[w] \in {"idle", "find", "consider", "release", "enabled", "greeted"}
              /\ reads' \in [Clients -> 0..MaxReads] /\ map_Client' \subseteq Clients
          BY <3>2, <4>0, <4>3
        <5>3. \A v \in Workers \ {w} :
                  cur[v] = b => /\ pc[v] = "read_complete" => bev[b].rip = 1
                                /\ pc[v] = "write_complete" => bev[b].wip > 0
          BY DEF IInv, CompletionsOnce
        <5>4. UNCHANGED cur /\ UNCHANGED Rest
          BY <3>2 DEF Rest
        <5> HIDE DEF b
        <5> QED
          BY <4>0, <4>1, <4>2, <4>3, <5>1, <5>2, <5>3, <5>4, LockedStep
      <4>5. MapInv'
        <5>1. \A u \in Threads : pc'[u] \in {"insert", "free"} <=> pc[u] \in {"insert", "free"}
          BY <4>0, <4>1
        <5> QED
          BY <3>2, <5>1, MapKept DEF IInv
      <4>6. Phases'
        BY <3>2, <4>0, <4>1, StopKept DEF IInv
      <4> QED
        BY <4>4, <4>5, <4>6 DEF IInv, LockInv
    <3> QED
      BY <2>1, <3>1, <3>2 DEF ReadcbFind
  <2>2. CASE ReadComplete(w) \/ WriteComplete(w) \/ Release(w)
    BY <2>2, <1>2, ReadCompleteIInv, WriteCompleteIInv, ReleaseIInv
  <2>3. CASE EraseClient(w) \/ FreeClient(w)
    BY <2>3, <1>2, EraseClientIInv, FreeClientIInv
  <2>4. CASE ReadcbDrain(w) \/ ReadcbReply(w) \/ Consider(w)
    BY <2>4, <1>2, CallbackIInv
  <2>5. CASE \E b \in Clients : Dequeue(w, b)
    BY <2>5, <1>2, DequeueIInv
  <2> QED
    BY <1>2, <2>1, <2>2, <2>3, <2>4, <2>5 DEF WorkerStep, WorkerRuns
<1>3. CASE DispatcherStep
  <2>1. CASE dispatch \/ AcceptFails \/ LoopExits
    BY <2>1, LoopIInv
  <2>2. CASE \E b \in Clients : Accept(b)
    BY <2>2, AcceptIInv
  <2>3. CASE InsertClient \/ EnableClient \/ EnableReturns \/ Greet \/ GreetReturns
    BY <2>3, InsertClientIInv, EnableGreetIInv, ReturnsIInv
  <2>4. CASE EraseClient(Dispatcher) \/ FreeClient(Dispatcher)
    BY <2>4, EraseClientIInv, FreeClientIInv
  <2>5. CASE GreetFreed \/ DispatchFreedBase
    BY <2>5, FaultIInv DEF GreetFreed, DispatchFreedBase
  <2>6. CASE signal_cb
    BY <2>6, SignalIInv
  <2> QED
    BY <1>3, <2>1, <2>2, <2>3, <2>4, <2>5, <2>6 DEF DispatcherStep, ListenerCallback
<1>4. CASE Race
  BY <1>4, FaultIInv DEF Race
<1>5. CASE UNCHANGED vars
  BY <1>5 DEF vars, IInv, TypeOK, Consistency, LockHeld, EventcbOnce, CompletionsOnce,
              ListenerOwns, MapInv, MapMember, Phases
<1> QED
  BY <1>1, <1>2, <1>3, <1>4, <1>5 DEF Next

(* The inductive invariant holds throughout, and the types with it. *)
THEOREM ServerInvariant == Spec => []IInv
BY InitIInv, NextIInv, PTL DEF Spec

(* A bufferevent has exactly the references of the server, of the          *)
(* operations in flight and of the thread that has its lock: it is never   *)
(* freed under one of them, and never kept once all of them are gone,      *)
(* whatever the workers and the listener callback do to it.                *)
THEOREM ReferencesCountedThm == Spec => []ReferencesCounted
<1>1. IInv => ReferencesCounted
  BY DEF IInv, Consistency, Consistent, ReferencesCounted
<1> QED
  BY <1>1, ServerInvariant, PTL

(* map_Client has the clients that can call back and no other, but for the *)
(* ones that a thread is about to insert or to free.                       *)
THEOREM MapTracksClientsThm == Spec => []MapTracksClients
<1>1. IInv => MapTracksClients
  BY MapPointwise DEF IInv, TypeOK
<1> QED
  BY <1>1, ServerInvariant, PTL

============================================================================
