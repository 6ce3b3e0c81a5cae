--------------------------- MODULE IocpPortProofs ---------------------------
(***************************************************************************)
(* The completion port is safe for any number of CPUs and operations: IInv *)
(* of module IocpPort is inductive, and the properties that make the       *)
(* shutdown correct follow from it.                                        *)
(***************************************************************************)
EXTENDS IocpPort, FiniteSetTheorems, TLAPS

(* There is a positive number of workers, whatever the hint. *)
LEMMA ThreadCount == n_threads \in Nat /\ n_threads > 0
BY PortAssumption DEF n_threads, N_CPUS_DEFAULT

(* The set of live workers is finite, so it can be counted. *)
LEMMA LiveFinite == IsFiniteSet(Live) /\ Cardinality(Live) \in Nat
<1>1. IsFiniteSet(Threads)
  BY ThreadCount, FS_Interval DEF Threads
<1>2. Live \subseteq Threads
  BY DEF Live
<1> QED
  BY <1>1, <1>2, FS_Subset, FS_CardinalityType

(* The initial state satisfies the invariant: nothing was started yet. *)
LEMMA InitIInv == Init => IInv
<1> SUFFICES ASSUME Init PROVE IInv
  OBVIOUS
<1> USE PortAssumption, ThreadCount
<1>1. TypeOK
  <2>1. queue \in Seq(Packets)
    BY DEF Init
  <2>2. pc \in [Threads -> WorkerStates]
    BY DEF Init, WorkerStates
  <2>3. packet \in [Threads -> Packets]
    BY DEF Init, Packets
  <2>4. 0 \in 0..n_threads
    OBVIOUS
  <2> QED
    BY <2>1, <2>2, <2>3, <2>4 DEF Init, TypeOK, OwnerStates
<1>2. Live = {}
  BY DEF Init, Live
<1>3. LiveCount
  BY <1>2, FS_EmptySet DEF Init, LiveCount
<1>4. LaunchInv
  BY DEF Init, LaunchInv, Launching, Threads
<1>5. LockInv
  BY DEF Init, LockInv, Uninitialised, Threads
<1> QED
  BY <1>1, <1>3, <1>4, <1>5
  DEF Init, IInv, ShutdownInv, NotifyInv, NoSpuriousExit, SemaphoreMeansIdle,
      InfiniteShutdownSucceeds

(* A step that moves no worker into or out of Live leaves the count alone. *)
LEMMA LiveSame ==
  ASSUME LiveCount, Live' = Live, n_live_threads' = n_live_threads,
         owner = "count" <=> owner' = "count"
  PROVE  LiveCount'
BY DEF LiveCount

(* A worker that counts itself out leaves one live worker less. *)
LEMMA LiveRemoved ==
  ASSUME NEW w \in Live
  PROVE  Cardinality(Live \ {w}) = Cardinality(Live) - 1
BY LiveFinite, FS_RemoveElement

(* When the count is zero, no worker is live. *)
LEMMA LiveNone ==
  ASSUME LiveCount, n_live_threads = 0, owner # "count"
  PROVE  Live = {}
BY LiveFinite, FS_EmptySet DEF LiveCount

(* The launch preserves the invariant: a started worker waits on an empty  *)
(* queue until the critical section is initialised.                        *)
LEMMA LaunchIInv == IInv /\ Launch => IInv'
<1> USE PortAssumption, ThreadCount
<1> SUFFICES ASSUME IInv, Launch PROVE IInv'
  OBVIOUS
<1> USE DEF IInv
<1>1. CASE Spawn
  <2>1. spawned + 1 \in Threads /\ pc[spawned + 1] = "unborn"
    BY <1>1 DEF Spawn, TypeOK, LaunchInv, Threads
  <2>2. TypeOK'
    BY <1>1, <2>1 DEF Spawn, TypeOK, OwnerStates, WorkerStates
  <2>3. LiveCount'
    <3>1. spawned + 1 \notin Live /\ Live' = Live \cup {spawned + 1}
      BY <1>1, <2>1 DEF Spawn, Live, TypeOK
    <3>2. Cardinality(Live') = Cardinality(Live) + 1
      BY <3>1, LiveFinite, FS_AddElement
    <3> QED
      BY <1>1, <3>2, LiveFinite DEF Spawn, LiveCount, TypeOK
  <2>4. LaunchInv' /\ LockInv'
    BY <1>1, <2>1 DEF Spawn, LaunchInv, Launching, LockInv, TypeOK, Threads, Uninitialised
  <2> QED
    BY <1>1, <2>1, <2>2, <2>3, <2>4
    DEF Spawn, ShutdownInv, NotifyInv, NoSpuriousExit, SemaphoreMeansIdle,
        InfiniteShutdownSucceeds, TypeOK
<1>2. CASE CountThread
  <2>1. TypeOK'
    BY <1>2 DEF CountThread, TypeOK, OwnerStates
  <2>2. Live' = Live
    BY <1>2 DEF CountThread, Live
  <2>3. LiveCount'
    BY <1>2, <2>2, LiveFinite DEF CountThread, LiveCount, TypeOK
  <2>4. LaunchInv' /\ LockInv'
    BY <1>2 DEF CountThread, LaunchInv, Launching, LockInv
  <2> QED
    BY <1>2, <2>1, <2>3, <2>4
    DEF CountThread, ShutdownInv, NotifyInv, NoSpuriousExit,
        SemaphoreMeansIdle, InfiniteShutdownSucceeds, TypeOK
<1>3. CASE InitLock
  <2>1. TypeOK'
    BY <1>3 DEF InitLock, TypeOK, OwnerStates
  <2>2. Live' = Live
    BY <1>3 DEF InitLock, Live
  <2>3. LiveCount'
    BY <1>3, <2>2, LiveSame DEF InitLock
  <2>4. \A w \in Threads : pc[w] # "stray"
    BY <1>3 DEF InitLock, LaunchInv
  <2> QED
    BY <1>3, <2>1, <2>3, <2>4
    DEF InitLock, LaunchInv, Launching, LockInv, ShutdownInv, NotifyInv,
        NoSpuriousExit, SemaphoreMeansIdle, InfiniteShutdownSucceeds, TypeOK,
        Unlocked, Uninitialised, Threads
<1>4. CASE LaunchFails
  <2>1. TypeOK'
    BY <1>4 DEF LaunchFails, TypeOK, OwnerStates
  <2>2. Live' = Live
    BY <1>4 DEF LaunchFails, Live
  <2>3. LiveCount'
    BY <1>4, <2>2, LiveSame DEF LaunchFails
  <2> QED
    BY <1>4, <2>1, <2>3
    DEF LaunchFails, LaunchInv, Launching, LockInv, ShutdownInv, NotifyInv,
        NoSpuriousExit, SemaphoreMeansIdle, InfiniteShutdownSucceeds, TypeOK
<1> QED
  BY <1>1, <1>2, <1>3, <1>4 DEF Launch

(* The kernel and the workers preserve the invariant. *)
LEMMA WorkerIInv ==
  ASSUME IInv, NEW w \in Threads, Worker(w)
  PROVE  IInv'
<1> USE PortAssumption, ThreadCount
<1> USE DEF IInv
<1>1. CASE GetQueuedCompletionStatus(w)
  <2>1. /\ Head(queue) \in Packets /\ Tail(queue) \in Seq(Packets)
        /\ Head(queue) = queue[1] /\ 1 \in 1..Len(queue)
        /\ Len(Tail(queue)) = Len(queue) - 1
        /\ \A i \in 1..Len(Tail(queue)) : Tail(queue)[i] = queue[i + 1]
    BY <1>1 DEF GetQueuedCompletionStatus, TypeOK
  <2>2. TypeOK'
    BY <1>1, <2>1
    DEF GetQueuedCompletionStatus, TypeOK, WorkerStates, ownerVars
  <2>3. Live' = Live
    BY <1>1 DEF GetQueuedCompletionStatus, Live, TypeOK
  <2>4. LiveCount'
    BY <1>1, <2>3, LiveSame DEF GetQueuedCompletionStatus, ownerVars
  <2>5. LaunchInv' /\ LockInv' /\ ShutdownInv'
    <3>1. ~Launching
      BY <1>1 DEF GetQueuedCompletionStatus, LaunchInv
    <3>2. Live # {}
      BY <1>1 DEF GetQueuedCompletionStatus, Live
    <3>3. n_live_threads # 0
      BY <3>1, <3>2, LiveNone DEF Launching
    <3> QED
      BY <1>1, <3>1, <3>3
      DEF GetQueuedCompletionStatus, LaunchInv, Launching, LockInv,
          ShutdownInv, TypeOK, ownerVars
  <2>6. NotifyInv'
    BY <1>1, <2>1 DEF GetQueuedCompletionStatus, NotifyInv, TypeOK, ownerVars
  <2> QED
    BY <1>1, <2>2, <2>4, <2>5, <2>6
    DEF GetQueuedCompletionStatus, NoSpuriousExit, SemaphoreMeansIdle,
        InfiniteShutdownSucceeds, TypeOK, ownerVars
<1>2. CASE CountOut(w)
  <2>1. w \in Live /\ ~Launching /\ n_live_threads > 0
    <3>1. w \in Live
      BY <1>2 DEF CountOut, Live
    <3>2. ~Launching
      BY <1>2 DEF CountOut, LaunchInv
    <3>3. Cardinality(Live) # 0
      BY <3>1, LiveFinite, FS_EmptySet
    <3> QED
      BY <3>1, <3>2, <3>3, LiveFinite DEF LiveCount, Launching
  <2>2. TypeOK'
    BY <1>2 DEF CountOut, TypeOK, WorkerStates, ownerVars
  <2>3. LiveCount'
    <3>1. Live' = Live \ {w}
      BY <1>2 DEF CountOut, Live, TypeOK
    <3> QED
      BY <1>2, <2>1, <3>1, LiveRemoved, LiveFinite
      DEF CountOut, LiveCount, Launching, ownerVars
  <2>4. LaunchInv' /\ NotifyInv'
    BY <1>2, <2>1
    DEF CountOut, LaunchInv, Launching, NotifyInv, TypeOK, ownerVars, Threads,
        Uninitialised
  <2>5. LockInv'
    BY <1>2 DEF CountOut, LockInv, TypeOK, Unlocked, Threads
  <2>6. ShutdownInv'
    BY <1>2, <2>1 DEF CountOut, ShutdownInv, TypeOK, ownerVars
  <2> QED
    BY <1>2, <2>1, <2>2, <2>3, <2>4, <2>5, <2>6
    DEF CountOut, NoSpuriousExit, SemaphoreMeansIdle,
        InfiniteShutdownSucceeds, TypeOK, ownerVars
<1>3. CASE LeaveAndExit(w)
  <2>1. lock = w /\ ~Launching
    BY <1>3 DEF LeaveAndExit, LockInv, LaunchInv
  <2>2. TypeOK'
    BY <1>3 DEF LeaveAndExit, TypeOK, WorkerStates, ownerVars
  <2>3. Live' = Live
    BY <1>3 DEF LeaveAndExit, Live, TypeOK
  <2>4. LiveCount'
    BY <1>3, <2>3, LiveSame DEF LeaveAndExit, ownerVars
  <2>5. LaunchInv' /\ LockInv' /\ NotifyInv'
    BY <1>3, <2>1
    DEF LeaveAndExit, LaunchInv, Launching, LockInv, NotifyInv, TypeOK,
        ownerVars, Threads, Unlocked, Uninitialised
  <2> QED
    BY <1>3, <2>2, <2>4, <2>5
    DEF LeaveAndExit, ShutdownInv, NoSpuriousExit, SemaphoreMeansIdle,
        InfiniteShutdownSucceeds, TypeOK, ownerVars
<1>4. CASE KeepRunning(w)
  <2>1. packet[w] \in Overlapped /\ ~Launching
    BY <1>4 DEF KeepRunning, NotifyInv, LaunchInv
  <2>2. TypeOK'
    BY <1>4 DEF KeepRunning, TypeOK, WorkerStates, ownerVars
  <2>3. Live' = Live
    BY <1>4 DEF KeepRunning, Live, TypeOK
  <2>4. LiveCount'
    BY <1>4, <2>3, LiveSame DEF KeepRunning, ownerVars
  <2> QED
    BY <1>4, <2>1, <2>2, <2>4
    DEF KeepRunning, LaunchInv, Launching, LockInv, NotifyInv, ShutdownInv,
        NoSpuriousExit, SemaphoreMeansIdle, InfiniteShutdownSucceeds, TypeOK,
        ownerVars
<1>5. CASE handle_entry(w)
  <2>1. ~Launching
    BY <1>5 DEF handle_entry, LaunchInv
  <2>2. TypeOK'
    BY <1>5 DEF handle_entry, TypeOK, WorkerStates, ownerVars
  <2>3. Live' = Live
    BY <1>5 DEF handle_entry, Live, TypeOK
  <2>4. LiveCount'
    BY <1>5, <2>3, LiveSame DEF handle_entry, ownerVars
  <2> QED
    BY <1>5, <2>1, <2>2, <2>4
    DEF handle_entry, LaunchInv, Launching, LockInv, NotifyInv, ShutdownInv,
        NoSpuriousExit, SemaphoreMeansIdle, InfiniteShutdownSucceeds, TypeOK,
        ownerVars
<1>6. CASE AbandonedWait(w)
  <2>1. TypeOK'
    BY <1>6 DEF AbandonedWait, TypeOK, WorkerStates, ownerVars
  <2>2. Live' = Live
    BY <1>6 DEF AbandonedWait, Live, TypeOK
  <2>3. LiveCount'
    BY <1>6, <2>2, LiveSame DEF AbandonedWait, ownerVars
  <2> QED
    BY <1>6, <2>1, <2>3
    DEF AbandonedWait, LaunchInv, Launching, LockInv, NotifyInv, ShutdownInv,
        NoSpuriousExit, SemaphoreMeansIdle, InfiniteShutdownSucceeds, TypeOK,
        ownerVars
<1> QED
  BY <1>1, <1>2, <1>3, <1>4, <1>5, <1>6 DEF Worker

(* A completion preserves the invariant: it is not a notification. *)
LEMMA CompleteIInv ==
  ASSUME IInv, NEW o \in Overlapped, Complete(o)
  PROVE  IInv'
<1> USE DEF IInv
<1>1. queue \in Seq(Packets) /\ o \in Packets
  BY DEF TypeOK, Packets
<1>2. /\ queue' \in Seq(Packets)
      /\ Len(queue') = Len(queue) + 1
      /\ \A i \in 1..Len(queue') :
            queue'[i] = IF i = Len(queue) + 1 THEN o ELSE queue[i]
  BY <1>1 DEF Complete
<1>3. TypeOK'
  BY <1>2 DEF Complete, TypeOK, ownerVars
<1>4. LiveCount'
  BY LiveSame DEF Complete, Live, ownerVars
<1>5. NotifyInv'
  BY <1>1, <1>2 DEF Complete, NotifyInv, ownerVars
<1>6. LaunchInv'
  BY DEF Complete, PortUsable, LaunchInv, Launching, ownerVars
<1> QED
  BY <1>3, <1>4, <1>5, <1>6
  DEF Complete, LockInv, ShutdownInv, NoSpuriousExit, SemaphoreMeansIdle,
      InfiniteShutdownSucceeds, ownerVars

(* The shutdown preserves the invariant. *)
LEMMA ShutdownIInv == IInv /\ Shutdown => IInv'
<1> USE PortAssumption, ThreadCount
<1> SUFFICES ASSUME IInv, Shutdown PROVE IInv'
  OBVIOUS
<1> USE DEF IInv
<1>1. ASSUME NEW k \in Waits, event_iocp_shutdown(k) PROVE IInv'
  <2>1. TypeOK'
    BY <1>1 DEF event_iocp_shutdown, TypeOK, OwnerStates
  <2>2. LiveCount'
    BY <1>1, LiveSame DEF event_iocp_shutdown, Live
  <2> QED
    BY <1>1, <2>1, <2>2
    DEF event_iocp_shutdown, LaunchInv, Launching, LockInv, NotifyInv,
        ShutdownInv, NoSpuriousExit, SemaphoreMeansIdle,
        InfiniteShutdownSucceeds, TypeOK
<1>2. CASE event_iocp_notify_all
  <2>1. queue' \in Seq(Packets)
    BY <1>2 DEF event_iocp_notify_all, TypeOK, Packets
  <2>2. TypeOK'
    BY <1>2, <2>1 DEF event_iocp_notify_all, TypeOK, OwnerStates
  <2>3. LiveCount'
    BY <1>2, LiveSame DEF event_iocp_notify_all, Live
  <2> QED
    BY <1>2, <2>2, <2>3
    DEF event_iocp_notify_all, LaunchInv, Launching, LockInv, NotifyInv,
        ShutdownInv, NoSpuriousExit, SemaphoreMeansIdle,
        InfiniteShutdownSucceeds, TypeOK
<1>3. CASE WaitSucceeds
  <2>1. TypeOK'
    BY <1>3 DEF WaitSucceeds, TypeOK, OwnerStates
  <2>2. LiveCount'
    BY <1>3, LiveSame DEF WaitSucceeds, Live
  <2> QED
    BY <1>3, <2>1, <2>2
    DEF WaitSucceeds, LaunchInv, Launching, LockInv, NotifyInv,
        ShutdownInv, NoSpuriousExit, SemaphoreMeansIdle,
        InfiniteShutdownSucceeds, TypeOK
<1>4. CASE WaitTimesOut
  <2>1. TypeOK'
    BY <1>4 DEF WaitTimesOut, TypeOK, OwnerStates
  <2>2. LiveCount'
    BY <1>4, LiveSame DEF WaitTimesOut, Live
  <2> QED
    BY <1>4, <2>1, <2>2
    DEF WaitTimesOut, LaunchInv, Launching, LockInv, NotifyInv,
        ShutdownInv, NoSpuriousExit, SemaphoreMeansIdle,
        InfiniteShutdownSucceeds, TypeOK
<1>5. CASE ReadLive
  <2>1. TypeOK'
    BY <1>5 DEF ReadLive, TypeOK, OwnerStates
  <2>2. LiveCount'
    BY <1>5, LiveSame DEF ReadLive, Live
  <2>3. \A w \in Threads : pc[w] # "leave"
    BY <1>5 DEF ReadLive, LockInv, Unlocked, Threads
  <2> QED
    BY <1>5, <2>1, <2>2, <2>3
    DEF ReadLive, LaunchInv, Launching, LockInv, NotifyInv,
        ShutdownInv, NoSpuriousExit, SemaphoreMeansIdle,
        InfiniteShutdownSucceeds, TypeOK
<1>6. CASE FreePort
  <2>1. TypeOK'
    BY <1>6 DEF FreePort, TypeOK, OwnerStates
  <2>2. LiveCount'
    BY <1>6, LiveSame DEF FreePort, Live
  <2> QED
    BY <1>6, <2>1, <2>2
    DEF FreePort, LaunchInv, Launching, LockInv, NotifyInv,
        ShutdownInv, NoSpuriousExit, SemaphoreMeansIdle,
        InfiniteShutdownSucceeds, TypeOK
<1> QED
  BY <1>1, <1>2, <1>3, <1>4, <1>5, <1>6 DEF Shutdown

(* Every step of the port, and stuttering, preserves the invariant. *)
LEMMA NextIInv == IInv /\ [Next]_vars => IInv'
<1> SUFFICES ASSUME IInv, [Next]_vars PROVE IInv'
  OBVIOUS
<1>1. CASE Next
  BY <1>1, LaunchIInv, ShutdownIInv, WorkerIInv, CompleteIInv DEF Next
<1>2. CASE UNCHANGED vars
  <2>1. LiveCount'
    BY <1>2, LiveSame DEF IInv, vars, Live
  <2> QED
    BY <1>2, <2>1
    DEF IInv, vars, TypeOK, LaunchInv, Launching, LockInv, NotifyInv,
        ShutdownInv, NoSpuriousExit, SemaphoreMeansIdle,
        InfiniteShutdownSucceeds
<1> QED
  BY <1>1, <1>2

(* The invariant holds in every reachable state of the port. *)
THEOREM PortInvariant == Spec => []IInv
BY InitIInv, NextIInv, PTL DEF Spec

(* When event_iocp_shutdown frees the port, every worker made its last     *)
(* access to it: the count it read in the critical section is zero, so no  *)
(* worker is in its loop, and none is still leaving the critical section.  *)
THEOREM ShutdownFreesIdlePort == Spec => []NoUseAfterFree
<1>1. IInv => NoUseAfterFree
  <2> SUFFICES ASSUME IInv, owner \in {"free", "freed"}, NEW w \in Threads
               PROVE  pc[w] = "exited"
    BY DEF NoUseAfterFree
  <2>1. Live = {}
    BY LiveNone DEF IInv, ShutdownInv
  <2>2. pc[w] \notin {"dequeue", "enter", "handle", "broken", "stray"}
    BY <2>1 DEF Live
  <2>3. pc[w] # "unborn" /\ pc[w] # "leave"
    BY ThreadCount DEF IInv, LaunchInv, Launching, ShutdownInv, Threads
  <2> QED
    BY <2>2, <2>3 DEF IInv, TypeOK, WorkerStates
<1> QED
  BY <1>1, PortInvariant, PTL

(* The assertion of event_base_stop_iocp holds: event_iocp_shutdown(-1)    *)
(* never returns -1.                                                       *)
THEOREM StopIocpAssertion == Spec => []InfiniteShutdownSucceeds
<1>1. IInv => InfiniteShutdownSucceeds
  BY DEF IInv
<1> QED
  BY <1>1, PortInvariant, PTL

(* port->n_live_threads counts the workers that are in their loop. *)
THEOREM LiveThreadsCounted == Spec => []LiveCount
<1>1. IInv => LiveCount
  BY DEF IInv
<1> QED
  BY <1>1, PortInvariant, PTL

(* Every variable of the port has its type in every reachable state. *)
THEOREM PortTypeOK == Spec => []TypeOK
<1>1. IInv => TypeOK
  BY DEF IInv
<1> QED
  BY <1>1, PortInvariant, PTL

(* No worker leaves its loop through the warning "GetQueuedCompletionStatus *)
(* exited with no event": the flag is set before the first notification.   *)
THEOREM NoWorkerBreaksOut == Spec => []NoSpuriousExit
<1>1. IInv => NoSpuriousExit
  BY DEF IInv
<1> QED
  BY <1>1, PortInvariant, PTL

=============================================================================
