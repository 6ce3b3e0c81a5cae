----------------------------- MODULE TestServer -----------------------------
(***************************************************************************)
(* The hand-written completion port server of TestServer.cpp: the main     *)
(* thread calls AcceptEx over and over, and 2 * processors + 5 workers     *)
(* handle the completions.  Every completion carries the data of the       *)
(* listening socket, the only one associated with the port.                *)
(***************************************************************************)
EXTENDS Integers, FiniteSets

CONSTANTS
    Workers,      \* the threads that run WorkerThread
    MaxClients,   \* bound on the per-I/O structures that are allocated
    NoWork        \* a worker without a completion

SEND_POSTED == 0
RECV_POSTED == 1
ACCEPT == 2

PerIoData == 1..MaxClients

VARIABLES
    perIoData,      \* the structure that the main thread passes to AcceptEx
    OperationType,  \* of every structure
    client,         \* the client socket of every structure: "none",
                    \* "fresh", "accepting" (in a pending AcceptEx), "connected"
    queue,          \* completions that were not dequeued: <<structure, bytes>>
    work,           \* the completion each worker dequeued
    ClientData,     \* the structures of the recorded connections
    drained,        \* structures with a completion of zero bytes
    closed          \* structures whose socket was closed

vars == <<perIoData, OperationType, client, queue, work, ClientData, drained,
          closed>>

Init ==
    /\ perIoData = 1
    /\ OperationType = [i \in PerIoData |-> ACCEPT]
    /\ client = [i \in PerIoData |-> IF i = 1 THEN "fresh" ELSE "none"]
    /\ queue = {}
    /\ work = [w \in Workers |-> NoWork]
    /\ ClientData = {}
    /\ drained = {}
    /\ closed = {}

(* AcceptEx finds no connection waiting: it is pending, and returns FALSE. *)
(* On a socket that is accepting or connected it fails without effect, as  *)
(* often as the loop calls it.  The output buffer it is given is null, as  *)
(* DataBuf.buf is never set; a system that rejects it makes the call fail  *)
(* every time, which is no step.                                           *)
AcceptExPending ==
    /\ client[perIoData] = "fresh"
    /\ client' = [client EXCEPT ![perIoData] = "accepting"]
    /\ UNCHANGED <<perIoData, OperationType, queue, work, ClientData, drained,
                   closed>>

(* AcceptEx returns TRUE: the connection is recorded, and the next         *)
(* structure allocated; the completion is queued all the same.             *)
AcceptExSucceeds ==
    /\ client[perIoData] = "fresh"
    /\ perIoData < MaxClients
    /\ \E bytes \in {0, 1} : queue' = queue \cup {<<perIoData, bytes>>}
    /\ client' = [client EXCEPT ![perIoData] = "connected",
                                ![perIoData + 1] = "fresh"]
    /\ ClientData' = ClientData \cup {perIoData}
    /\ perIoData' = perIoData + 1
    /\ UNCHANGED <<OperationType, work, drained, closed>>

(* A client connects while AcceptEx is pending; no bytes come with it if   *)
(* the client closed the connection at once.                               *)
Connect(i) ==
    /\ client[i] = "accepting"
    /\ client' = [client EXCEPT ![i] = "connected"]
    /\ \E bytes \in {0, 1} : queue' = queue \cup {<<i, bytes>>}
    /\ UNCHANGED <<perIoData, OperationType, work, ClientData, drained, closed>>

GetQueuedCompletionStatus(w) ==
    /\ work[w] = NoWork
    /\ \E c \in queue : /\ work' = [work EXCEPT ![w] = c]
                        /\ queue' = queue \ {c}
    /\ UNCHANGED <<perIoData, OperationType, client, ClientData, drained, closed>>

(* The condition under which the socket is closed and the data freed. *)
ClosedByPeer(bytes, type) ==
    bytes = 0 /\ type = RECV_POSTED /\ type = SEND_POSTED

(* The completion is served and WSARecv called, on the listening socket,   *)
(* where it fails.                                                         *)
Serve(w) ==
    LET i == work[w][1]
        bytes == work[w][2]
        closing == ClosedByPeer(bytes, OperationType[i])
    IN  /\ work[w] # NoWork
        /\ closed' = IF closing THEN closed \cup {i} ELSE closed
        /\ OperationType' = [OperationType EXCEPT
                                ![i] = IF closing THEN @ ELSE RECV_POSTED]
        /\ drained' = IF bytes = 0 THEN drained \cup {i} ELSE drained
        /\ work' = [work EXCEPT ![w] = NoWork]
        /\ UNCHANGED <<perIoData, client, queue, ClientData>>

WorkerThread(w) == GetQueuedCompletionStatus(w) \/ Serve(w)

AcceptLoop == AcceptExPending \/ AcceptExSucceeds

Next ==
    \/ AcceptLoop
    \/ \E i \in PerIoData : Connect(i)
    \/ \E w \in Workers : WorkerThread(w)

Spec == Init /\ [][Next]_vars

-----------------------------------------------------------------------------
(* Properties *)

(* Every variable has its type. *)
TypeOK ==
    /\ perIoData \in PerIoData
    /\ OperationType \in [PerIoData -> {SEND_POSTED, RECV_POSTED, ACCEPT}]
    /\ client \in [PerIoData -> {"none", "fresh", "accepting", "connected"}]
    /\ queue \subseteq PerIoData \X {0, 1}
    /\ work \in [Workers -> (PerIoData \X {0, 1}) \cup {NoWork}]
    /\ {ClientData, drained, closed} \subseteq SUBSET PerIoData

(* The comment in WorkerThread: "A Zero BytesTransferred indicates that    *)
(* the socke has been closed by the peer,so you should close the socket":  *)
(* once a completion of zero bytes was served its socket is closed.  The   *)
(* condition above it asks for two operation types at once.                *)
ZeroBytesClose == drained \subseteq closed

=============================================================================
