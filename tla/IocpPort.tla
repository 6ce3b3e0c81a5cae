------------------------------ MODULE IocpPort ------------------------------
(***************************************************************************)
(* The completion port of libevent's IOCP back end (event_iocp.c): the     *)
(* launch of its worker threads, the loop every worker runs, and the       *)
(* shutdown protocol by which event_base_free stops the workers before it  *)
(* frees the port.  A critical section is two steps (what it does, and     *)
(* leaving it), because leaving the critical section is the last access a  *)
(* worker makes to the memory of the port.                                 *)
(***************************************************************************)
EXTENDS Integers, Sequences, FiniteSets

CONSTANTS
    n_cpus,            \* the hint given to event_base_new_with_config
    Overlapped,        \* operations whose completions go through the port
    NOTIFICATION_KEY,  \* the packet that only wakes a worker up
    Waits,             \* the kinds of waitMsec: "infinite" (-1), "timed"
    PostMayFail,       \* whether PostQueuedCompletionStatus may fail
    SpawnMayFail,      \* whether _beginthread may fail
    MaxQueue           \* bound: a shutdown is (re)tried while its
                       \* notifications fit in a queue of this length

ASSUME PortAssumption ==
    /\ n_cpus \in Int
    /\ NOTIFICATION_KEY \notin Overlapped
    /\ Waits \subseteq {"infinite", "timed"}
    /\ PostMayFail \in BOOLEAN
    /\ SpawnMayFail \in BOOLEAN
    /\ MaxQueue \in Nat

N_CPUS_DEFAULT == 2

n_threads == 2 * (IF n_cpus <= 0 THEN N_CPUS_DEFAULT ELSE n_cpus)

Threads == 1..n_threads

Packets == Overlapped \cup {NOTIFICATION_KEY}

\* Values of the lock that are not the number of the worker that holds it.
Uninitialised == -1
Unlocked == 0

VARIABLES
    owner,           \* where the thread that owns the port is
    spawned,         \* number of workers started so far
    queue,           \* the packets in the kernel's completion queue
    lock,            \* the critical section of the port
    shutdown,        \* port->shutdown
    n_live_threads,  \* port->n_live_threads
    semaphore,       \* the count of port->shutdownSemaphore
    wait,            \* the kind of waitMsec of the shutdown in progress
    toPost,          \* notifications event_iocp_notify_all has yet to post
    pc,              \* where each worker is
    packet           \* the packet each worker dequeued last

vars == <<owner, spawned, queue, lock, shutdown, n_live_threads, semaphore,
          wait, toPost, pc, packet>>

ownerVars == <<owner, spawned, wait, toPost>>

-----------------------------------------------------------------------------
(* event_iocp_port_launch *)

Init ==
    /\ owner = "spawn"
    /\ spawned = 0
    /\ queue = <<>>
    /\ lock = Uninitialised
    /\ shutdown = 0
    /\ n_live_threads = 0
    /\ semaphore = 0
    /\ wait = "infinite"
    /\ toPost = 0
    /\ pc = [w \in Threads |-> "unborn"]
    /\ packet = [w \in Threads |-> NOTIFICATION_KEY]

(* _beginthread succeeds: the worker runs before it is counted. *)
Spawn ==
    /\ owner = "spawn"
    /\ spawned < n_threads
    /\ spawned' = spawned + 1
    /\ pc' = [pc EXCEPT ![spawned + 1] = "dequeue"]
    /\ owner' = "count"
    /\ UNCHANGED <<queue, lock, shutdown, n_live_threads, semaphore, wait,
                   toPost, packet>>

(* ++port->n_live_threads, outside of the critical section. *)
CountThread ==
    /\ owner = "count"
    /\ n_live_threads' = n_live_threads + 1
    /\ owner' = "spawn"
    /\ UNCHANGED <<spawned, queue, lock, shutdown, semaphore, wait, toPost,
                   pc, packet>>

(* The critical section is initialised once all the workers run. *)
InitLock ==
    /\ owner = "spawn"
    /\ spawned = n_threads
    /\ lock' = Unlocked
    /\ owner' = "open"
    /\ UNCHANGED <<spawned, queue, shutdown, n_live_threads, semaphore, wait,
                   toPost, pc, packet>>

(* The error path: the handles are closed and the port is freed, whatever  *)
(* workers were started.                                                   *)
LaunchFails ==
    /\ SpawnMayFail
    /\ owner = "spawn"
    /\ spawned < n_threads
    /\ owner' = "failed"
    /\ UNCHANGED <<spawned, queue, lock, shutdown, n_live_threads, semaphore,
                   wait, toPost, pc, packet>>

-----------------------------------------------------------------------------
(* The kernel and the users of the port. *)

Held(o) == \E w \in Threads : packet[w] = o /\ pc[w] \notin {"dequeue", "exited"}

Queued(o) == \E i \in 1..Len(queue) : queue[i] = o

PortUsable == owner \in {"open", "notify", "wait", "read", "timedout"}

(* An operation completes, or event_iocp_activate_overlapped posts it.  An *)
(* overlapped structure serves one operation at a time.                    *)
Complete(o) ==
    /\ PortUsable
    /\ ~Held(o) /\ ~Queued(o)
    /\ queue' = Append(queue, o)
    /\ UNCHANGED <<ownerVars, lock, shutdown, n_live_threads, semaphore, pc,
                   packet>>

-----------------------------------------------------------------------------
(* loop, run by every worker *)

GetQueuedCompletionStatus(w) ==
    /\ pc[w] = "dequeue"
    /\ queue # <<>>
    /\ packet' = [packet EXCEPT ![w] = Head(queue)]
    /\ queue' = Tail(queue)
    /\ pc' = [pc EXCEPT ![w] = "enter"]
    /\ UNCHANGED <<ownerVars, lock, shutdown, n_live_threads, semaphore>>

(* Defects of CountOut: the semaphore is released one worker early; it is  *)
(* released by a worker that finds the count at zero, which none does.     *)
CountOutEarly(w) ==
    /\ pc[w] = "enter" /\ lock = Unlocked /\ shutdown = 1
    /\ lock' = w
    /\ n_live_threads' = n_live_threads - 1
    /\ semaphore' = IF n_live_threads <= 2 THEN 1 ELSE semaphore
    /\ pc' = [pc EXCEPT ![w] = "leave"]
    /\ UNCHANGED <<ownerVars, queue, shutdown, packet>>

CountOutLate(w) ==
    /\ pc[w] = "enter" /\ lock = Unlocked /\ shutdown = 1
    /\ lock' = w
    /\ n_live_threads' = n_live_threads - 1
    /\ semaphore' = IF n_live_threads = 0 THEN 1 ELSE semaphore
    /\ pc' = [pc EXCEPT ![w] = "leave"]
    /\ UNCHANGED <<ownerVars, queue, shutdown, packet>>

(* The worker dequeued something after the shutdown began: it counts       *)
(* itself out, and the last one wakes event_iocp_shutdown up.              *)
CountOut(w) ==
    /\ pc[w] = "enter"
    /\ lock = Unlocked
    /\ shutdown = 1
    /\ lock' = w
    /\ n_live_threads' = n_live_threads - 1
    /\ semaphore' = IF n_live_threads = 1 THEN 1 ELSE semaphore
    /\ pc' = [pc EXCEPT ![w] = "leave"]
    /\ UNCHANGED <<ownerVars, queue, shutdown, packet>>

LeaveAndExit(w) ==
    /\ pc[w] = "leave"
    /\ lock' = Unlocked
    /\ pc' = [pc EXCEPT ![w] = "exited"]
    /\ UNCHANGED <<ownerVars, queue, shutdown, n_live_threads, semaphore,
                   packet>>

(* A defect: the worker goes back to wait and drops the operation. *)
KeepRunningDrops(w) ==
    /\ pc[w] = "enter" /\ lock = Unlocked /\ shutdown = 0
    /\ pc' = [pc EXCEPT ![w] = "dequeue"]
    /\ UNCHANGED <<ownerVars, queue, lock, shutdown, n_live_threads,
                   semaphore, packet>>

(* No shutdown: a packet with an operation is handled; a packet without    *)
(* one breaks the worker out of its loop, and it would warn and count      *)
(* itself out.  NoSpuriousExit: this never happens.                        *)
KeepRunning(w) ==
    /\ pc[w] = "enter"
    /\ lock = Unlocked
    /\ shutdown = 0
    /\ pc' = [pc EXCEPT ![w] = IF packet[w] \in Overlapped THEN "handle"
                               ELSE "broken"]
    /\ UNCHANGED <<ownerVars, queue, lock, shutdown, n_live_threads,
                   semaphore, packet>>

(* handle_entry: the callback of the operation runs and returns. *)
handle_entry(w) ==
    /\ pc[w] = "handle"
    /\ pc' = [pc EXCEPT ![w] = "dequeue"]
    /\ UNCHANGED <<ownerVars, queue, lock, shutdown, n_live_threads,
                   semaphore, packet>>

(* The handle of the port was closed by LaunchFails while the worker was   *)
(* blocked on it: the call fails, and the worker goes on to enter a        *)
(* critical section that was never initialised, in freed memory.           *)
AbandonedWait(w) ==
    /\ owner = "failed"
    /\ pc[w] = "dequeue"
    /\ pc' = [pc EXCEPT ![w] = "stray"]
    /\ UNCHANGED <<ownerVars, queue, lock, shutdown, n_live_threads,
                   semaphore, packet>>

-----------------------------------------------------------------------------
(* event_iocp_shutdown *)

(* A defect: the workers are notified and the flag is not set.             *)
ShutdownUnflagged(w) ==
    /\ owner \in {"open", "timedout"} /\ Len(queue) + n_threads <= MaxQueue
    /\ lock = Unlocked
    /\ wait' = w
    /\ toPost' = n_threads
    /\ owner' = "notify"
    /\ UNCHANGED <<spawned, queue, lock, shutdown, n_live_threads, semaphore,
                   pc, packet>>

(* The flag is set in the critical section, and notify_all begins. *)
event_iocp_shutdown(w) ==
    /\ owner \in {"open", "timedout"}
    /\ Len(queue) + n_threads <= MaxQueue
    /\ lock = Unlocked
    /\ shutdown' = 1
    /\ wait' = w
    /\ toPost' = n_threads
    /\ owner' = "notify"
    /\ UNCHANGED <<spawned, queue, lock, n_live_threads, semaphore, pc, packet>>

(* One PostQueuedCompletionStatus of event_iocp_notify_all, whose result   *)
(* the shutdown ignores.                                                   *)
event_iocp_notify_all ==
    /\ owner = "notify"
    /\ toPost > 0
    /\ \/ queue' = Append(queue, NOTIFICATION_KEY)
       \/ PostMayFail /\ queue' = queue
    /\ toPost' = toPost - 1
    /\ owner' = IF toPost = 1 THEN "wait" ELSE "notify"
    /\ UNCHANGED <<spawned, lock, shutdown, n_live_threads, semaphore, wait,
                   pc, packet>>

WaitSucceeds ==
    /\ owner = "wait"
    /\ semaphore = 1
    /\ semaphore' = 0
    /\ owner' = "read"
    /\ UNCHANGED <<spawned, queue, lock, shutdown, n_live_threads, wait,
                   toPost, pc, packet>>

WaitTimesOut ==
    /\ owner = "wait"
    /\ wait = "timed"
    /\ owner' = "read"
    /\ UNCHANGED <<spawned, queue, lock, shutdown, n_live_threads, semaphore,
                   wait, toPost, pc, packet>>

(* A defect: the count is read outside of the critical section. *)
ReadLiveUnlocked ==
    /\ owner = "read"
    /\ owner' = IF n_live_threads = 0 THEN "free" ELSE "timedout"
    /\ UNCHANGED <<spawned, queue, lock, shutdown, n_live_threads, semaphore,
                   wait, toPost, pc, packet>>

(* n = port->n_live_threads, in the critical section; -1 is returned when  *)
(* workers are left.                                                       *)
ReadLive ==
    /\ owner = "read"
    /\ lock = Unlocked
    /\ owner' = IF n_live_threads = 0 THEN "free" ELSE "timedout"
    /\ UNCHANGED <<spawned, queue, lock, shutdown, n_live_threads, semaphore,
                   wait, toPost, pc, packet>>

(* _event_iocp_port_unlock_and_free, and the shutdown returns 0. *)
FreePort ==
    /\ owner = "free"
    /\ owner' = "freed"
    /\ UNCHANGED <<spawned, queue, lock, shutdown, n_live_threads, semaphore,
                   wait, toPost, pc, packet>>

-----------------------------------------------------------------------------
Worker(w) ==
    \/ GetQueuedCompletionStatus(w)
    \/ CountOut(w)
    \/ LeaveAndExit(w)
    \/ KeepRunning(w)
    \/ handle_entry(w)
    \/ AbandonedWait(w)

Launch == Spawn \/ CountThread \/ InitLock \/ LaunchFails

Shutdown ==
    \/ \E w \in Waits : event_iocp_shutdown(w)
    \/ event_iocp_notify_all
    \/ WaitSucceeds
    \/ WaitTimesOut
    \/ ReadLive
    \/ FreePort

Next ==
    \/ Launch
    \/ Shutdown
    \/ \E w \in Threads : Worker(w)
    \/ \E o \in Overlapped : Complete(o)

Spec == Init /\ [][Next]_vars

(* The scheduler runs every thread, and callbacks return; whether the      *)
(* kernel completes anything, and whether the port is shut down at all, is *)
(* left open.                                                              *)
FairSpec ==
    /\ Spec
    /\ \A w \in Threads : WF_vars(Worker(w))
    /\ WF_vars(Launch)
    /\ WF_vars(event_iocp_notify_all \/ WaitSucceeds \/ ReadLive \/ FreePort)

-----------------------------------------------------------------------------
(* Properties *)

OwnerStates == {"spawn", "count", "open", "failed", "notify", "wait", "read",
                "free", "freed", "timedout"}

WorkerStates == {"unborn", "dequeue", "enter", "leave", "handle", "exited",
                 "broken", "stray"}

(* Every variable has its type. *)
TypeOK ==
    /\ owner \in OwnerStates
    /\ spawned \in 0..n_threads
    /\ queue \in Seq(Packets)
    /\ lock \in {Uninitialised, Unlocked} \cup Threads
    /\ shutdown \in {0, 1}
    /\ n_live_threads \in Int
    /\ semaphore \in {0, 1}
    /\ wait \in {"infinite", "timed"}
    /\ toPost \in 0..n_threads
    /\ pc \in [Threads -> WorkerStates]
    /\ packet \in [Threads -> Packets]

(* The workers that are in their loop and have not counted themselves out. *)
Live == {w \in Threads : pc[w] \in {"dequeue", "enter", "handle", "broken", "stray"}}

(* When event_iocp_shutdown returned 0 and the memory of the port is gone, *)
(* no worker will access it again: all of them are past the last           *)
(* LeaveCriticalSection.                                                   *)
NoUseAfterFree ==
    owner \in {"free", "freed"} => \A w \in Threads : pc[w] = "exited"

(* port->n_live_threads is the "number of threads currently open on this   *)
(* port" once it is launched; during the launch it lags by the worker that *)
(* was just started.                                                       *)
LiveCount ==
    n_live_threads = Cardinality(Live) - (IF owner = "count" THEN 1 ELSE 0)

(* The assertion of event_base_stop_iocp, which shuts the port down with   *)
(* waitMsec -1: only a shutdown with a finite wait may return -1.          *)
InfiniteShutdownSucceeds == owner = "timedout" => wait = "timed"

(* No worker leaves its loop through the warning "GetQueuedCompletionStatus *)
(* exited with no event": a notification is only seen after the flag.      *)
NoSpuriousExit == \A w \in Threads : pc[w] # "broken"

(* The semaphore, whose maximum is 1, is released once: by the worker that *)
(* brings the count to zero.                                               *)
SemaphoreMeansIdle == semaphore = 1 => n_live_threads = 0 /\ shutdown = 1

(* event_iocp_notify_all: a shutdown ends, and one that waits as long as   *)
(* required frees the port, once as many packets are queued as workers     *)
(* still have to fetch one.  Completions serve as well as notifications;   *)
(* when posts failed a worker may be left without a packet.                *)
Fetching == {w \in Threads : pc[w] \in {"dequeue", "handle"}}
ShutdownEnds ==
    (owner = "wait" /\ Len(queue) >= Cardinality(Fetching))
      ~> owner \in {"freed", "timedout"}

(* A completed operation is handled unless a shutdown takes its worker.    *)
CompletionsServed ==
    \A o \in Overlapped : Queued(o) ~> (shutdown = 1 \/ \E w \in Threads :
                                          pc[w] = "handle" /\ packet[w] = o)

-----------------------------------------------------------------------------
(* The inductive invariant *)

Launching == owner \in {"spawn", "count", "failed"}

(* Workers are started in order; none gets past its first wait before the  *)
(* port is launched, because nothing can be in the queue.                  *)
LaunchInv ==
    /\ \A w \in Threads : pc[w] = "unborn" <=> w > spawned
    /\ owner = "count" => spawned > 0
    /\ Launching => /\ lock = Uninitialised
                    /\ queue = <<>>
                    /\ \A w \in Threads : pc[w] \in {"unborn", "dequeue", "stray"}
    /\ ~Launching => /\ spawned = n_threads
                     /\ lock # Uninitialised
    /\ \A w \in Threads : pc[w] = "stray" => owner = "failed"

LockInv == \A w \in Threads : lock = w <=> pc[w] = "leave"

ShutdownInv ==
    /\ shutdown = 1 <=> owner \in {"notify", "wait", "read", "free", "freed",
                                   "timedout"}
    /\ owner = "read" /\ wait = "infinite" => n_live_threads = 0
    /\ owner \in {"free", "freed"} => /\ n_live_threads = 0
                                      /\ \A w \in Threads : pc[w] # "leave"

(* A notification is in the queue, or in a worker's hands, only after the  *)
(* flag was set.                                                           *)
NotifyInv ==
    shutdown = 0 =>
        /\ \A i \in 1..Len(queue) : queue[i] \in Overlapped
        /\ \A w \in Threads : pc[w] = "enter" => packet[w] \in Overlapped

(* The conjunction that every step of the port preserves, from which the   *)
(* safety of the shutdown follows.                                         *)
IInv ==
    /\ TypeOK
    /\ LiveCount
    /\ LaunchInv
    /\ LockInv
    /\ ShutdownInv
    /\ NotifyInv
    /\ NoSpuriousExit
    /\ SemaphoreMeansIdle
    /\ InfiniteShutdownSucceeds

=============================================================================
