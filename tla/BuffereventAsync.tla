-------------------------- MODULE BuffereventAsync --------------------------
(***************************************************************************)
(* Bufferevents over overlapped I/O (bufferevent_async.c), with the        *)
(* overlapped buffers they read and write (buffer_iocp.c) and the part of  *)
(* bufferevent.c that counts references and runs callbacks.  A thread      *)
(* works on a bufferevent under its lock, so an operation is one step of a *)
(* record; the steps of the application, of the workers and of the kernel  *)
(* interleave, and a callback runs inside the operation that calls it.     *)
(*                                                                         *)
(* An operator maps the state of a bufferevent to the set of its possible  *)
(* next states: launching an operation may fail, and the user's callback   *)
(* may do any of the things a callback does.  No watermark, rate limit or  *)
(* timeout is set, as in the servers of the repository.                    *)
(***************************************************************************)
EXTENDS Integers, FiniteSets

CONSTANTS
    Bufferevents,   \* the bufferevents that may be created
    Handles,        \* the socket handles the system gives out and reuses
    NoOne,          \* a handle that names no socket
    MaxLength       \* bound on the length of a buffer, in units of data

ASSUME BevAssumption == NoOne \notin Bufferevents /\ MaxLength \in Nat

VARIABLES
    bev,      \* the state of each bufferevent
    fd,       \* the handle each bufferevent was created with
    handle,   \* whose socket each handle names
    victims   \* bufferevents whose socket was closed by another one

vars == <<bev, fd, handle, victims>>

(* A bufferevent before bufferevent_async_new. *)
Unborn ==
    [life |-> "none",     \* "none", "live", "freed"
     refcnt |-> 0,        \* bufferevent_private.refcnt
     user |-> 0,          \* the user did not call bufferevent_free yet
     cb |-> 0,            \* callbacks are set
     ok |-> 0,            \* bufferevent_async.ok
     enabled |-> {},      \* EV_READ and EV_WRITE
     rip |-> 0,           \* read_in_progress
     wip |-> 0,           \* write_in_progress
     radd |-> 0,          \* read_added
     wadd |-> 0,          \* write_added
     virtual |-> 0,       \* its share of base->virtual_event_count
     kread |-> 0,         \* the kernel reads into its input buffer
     kwrite |-> 0,        \* the length the kernel writes from its output
     inlen |-> 0, inref |-> 0,    \* length and references of the input
     outlen |-> 0, outref |-> 0,  \* length and references of the output
     closes |-> 0,        \* number of times it closed its handle
     ends |-> 0,          \* number of EOF and error events it reported
     asserts |-> 0]       \* number of assertions that failed

-----------------------------------------------------------------------------
(* bev_async_add_read, bev_async_del_read, bev_async_add_write,            *)
(* bev_async_del_write: the virtual events that keep the event loop alive. *)

AddRead(s) == [s EXCEPT !.radd = 1, !.virtual = @ + (1 - s.radd)]

(* A defect: a virtual event is deleted that was never added. *)
DelReadUnchecked(s) == [s EXCEPT !.radd = 0, !.virtual = @ - 1]

DelRead(s) == [s EXCEPT !.radd = 0, !.virtual = @ - s.radd]

AddWrite(s) == [s EXCEPT !.wadd = 1, !.virtual = @ + (1 - s.wadd)]

DelWrite(s) == [s EXCEPT !.wadd = 0, !.virtual = @ - s.wadd]

(* bufferevent_incref *)
Incref(s) == [s EXCEPT !.refcnt = @ + 1]

Assert(s, condition) == [s EXCEPT !.asserts = @ + (IF condition THEN 0 ELSE 1)]

(* A defect: the virtual events are not returned. *)
DestructKeepsEvents(s) ==
    [Assert(s, s.rip = 0 /\ s.wip = 0)
        EXCEPT !.closes = @ + 1,
               !.inref = @ - 1,
               !.outref = @ - 1,
               !.life = "freed"]

(* be_async_destruct and the end of _bufferevent_decref_and_unlock. *)
Destruct(s) ==
    [DelWrite(DelRead(Assert(s, s.rip = 0 /\ s.wip = 0)))
        EXCEPT !.closes = @ + 1,
               !.inref = @ - 1,
               !.outref = @ - 1,
               !.life = "freed"]

(* _bufferevent_decref_and_unlock, bufferevent_decref *)
Decref(s) ==
    LET t == [Assert(s, s.refcnt > 0) EXCEPT !.refcnt = @ - 1]
    IN  IF t.refcnt = 0 THEN Destruct(t) ELSE t

(* be_async_ctrl with BEV_CTRL_CANCEL_ALL; the option CLOSE_ON_FREE is set. *)
CancelAll(s) == [s EXCEPT !.closes = @ + 1, !.ok = 0]

(* A defect: the bufferevent is destructed with operations in flight. *)
FreeNow(s) ==
    Destruct(CancelAll([s EXCEPT !.cb = 0, !.user = 0, !.refcnt = 0]))

(* bufferevent_free *)
Free(s) == Decref(CancelAll([s EXCEPT !.cb = 0, !.user = 0]))

(* _bufferevent_run_eventcb with EOF or an error: the callback may free    *)
(* the bufferevent.                                                        *)
RunEventcb(s) ==
    IF s.cb = 0 THEN {s}
    ELSE LET t == [s EXCEPT !.ends = @ + 1] IN {t, Free(t)}

(* A defect: the operation launched holds no reference. *)
ConsiderReadingUncounted(s) ==
    IF s.rip = 1 THEN {s}
    ELSE IF s.ok = 0 \/ "read" \notin s.enabled THEN {DelRead(s)}
    ELSE {AddRead([s EXCEPT !.kread = 1, !.inref = @ + 1, !.rip = 1])}

(* bev_async_consider_reading, with evbuffer_launch_read *)
ConsiderReading(s) ==
    IF s.rip = 1 THEN {s}
    ELSE IF s.ok = 0 \/ "read" \notin s.enabled THEN {DelRead(s)}
    ELSE LET launched == AddRead([Incref(s) EXCEPT !.kread = 1,
                                                   !.inref = @ + 1,
                                                   !.rip = 1])
         IN  {launched} \cup
             {Decref(t) : t \in RunEventcb([Incref(s) EXCEPT !.ok = 0])}

(* bev_async_consider_writing, with evbuffer_launch_write: at most 16384   *)
(* bytes, and a limited number of chains, are given to the kernel.         *)
ConsiderWriting(s) ==
    IF s.wip = 1 THEN {s}
    ELSE IF s.ok = 0 \/ "write" \notin s.enabled \/ s.outlen = 0
    THEN {DelWrite(s)}
    ELSE LET launched(n) == AddWrite([Incref(s) EXCEPT !.kwrite = n,
                                                       !.outref = @ + 1,
                                                       !.wip = 1])
         IN  {launched(n) : n \in 1..s.outlen} \cup RunEventcb([s EXCEPT !.ok = 0])

(* Draining the input runs be_async_inbuf_callback. *)
Read(s, n) ==
    {Decref(t) : t \in ConsiderReading(Incref([s EXCEPT !.inlen = @ - n]))}

(* Adding to the output runs be_async_outbuf_callback. *)
Write(s) ==
    {Decref(t) : t \in ConsiderWriting(Incref([s EXCEPT !.outlen = @ + 1]))}

(* What the user does in a read callback: nothing, reads, writes, reads    *)
(* and writes an answer, or frees the bufferevent.  The bufferevent may    *)
(* be freed by the event callback in the middle of it.                     *)
UserReads(s) == IF s.inlen = 0 THEN {s} ELSE UNION {Read(s, n) : n \in 1..s.inlen}

UserWrites(s) == IF s.outlen >= MaxLength THEN {s} ELSE Write(s)

RunReadcb(s) ==
    IF s.cb = 0 THEN {s}
    ELSE {s, Free(s)} \cup UserReads(s) \cup UserWrites(s)
         \cup UNION {UserWrites(t) : t \in UserReads(s)}

RunWritecb(s) ==
    IF s.cb = 0 \/ s.outlen > 0 THEN {s} ELSE {s, Free(s)} \cup UserWrites(s)

-----------------------------------------------------------------------------
(* evbuffer_commit_read and evbuffer_commit_write *)
CommitRead(s, n) ==
    [Assert(s, s.rip = 1 /\ s.kread = 1)
        EXCEPT !.kread = 0, !.inlen = @ + n, !.inref = @ - 1, !.rip = 0]

(* A defect: the commit keeps the reference of the write to the buffer. *)
CommitWriteKeepsBuffer(s, n) ==
    [s EXCEPT !.kwrite = 0, !.outlen = @ - n, !.wip = 0]

CommitWrite(s, n) ==
    [Assert(s, s.wip = 1 /\ s.kwrite > 0)
        EXCEPT !.kwrite = 0, !.outlen = @ - n, !.outref = @ - 1, !.wip = 0]

(* Defects of read_complete: no further read is launched; the error does   *)
(* not end the stream; the reference of the read is kept after an error.   *)
ReadCompleteStops(s, n, success) ==
    LET t == CommitRead(s, n)
        handled == IF t.ok = 0 THEN {t}
                   ELSE IF success /\ n > 0 THEN RunReadcb(t)
                   ELSE RunEventcb([t EXCEPT !.ok = 0])
    IN  {Decref(u) : u \in handled}

ReadCompleteGoesOn(s, n, success) ==
    LET t == CommitRead(s, n)
        handled == IF t.ok = 0 THEN {t}
                   ELSE IF success /\ n > 0 THEN RunReadcb(t) ELSE RunEventcb(t)
    IN  {Decref(v) : v \in UNION {ConsiderReading(u) : u \in handled}}

ReadCompleteKeepsReference(s, n, success) ==
    LET t == CommitRead(s, n)
    IN  IF t.ok = 0 THEN {t}
        ELSE IF success /\ n > 0
        THEN {Decref(v) : v \in UNION {ConsiderReading(u) : u \in RunReadcb(t)}}
        ELSE {Decref(u) : u \in RunEventcb([t EXCEPT !.ok = 0])}

(* read_complete: n units arrived, none at the end of the stream. *)
ReadComplete(s, n, success) ==
    LET t == CommitRead(s, n)
        handled == IF t.ok = 0 THEN {t}
                   ELSE IF success /\ n > 0
                   THEN UNION {ConsiderReading(u) : u \in RunReadcb(t)}
                   ELSE RunEventcb([t EXCEPT !.ok = 0])
    IN  {Decref(u) : u \in handled}

(* write_complete: n units of those the kernel was given were sent. *)
WriteComplete(s, n, success) ==
    LET t == CommitWrite(s, n)
        handled == IF t.ok = 0 THEN {t}
                   ELSE IF success /\ n > 0
                   THEN UNION {ConsiderWriting(u) : u \in RunWritecb(t)}
                   ELSE RunEventcb([t EXCEPT !.ok = 0])
    IN  {Decref(u) : u \in handled}

(* bufferevent_enable with be_async_enable *)
Enable(s, what) ==
    LET t == Incref([s EXCEPT !.enabled = @ \cup {what}])
        considered == IF t.ok = 0 THEN {t}
                      ELSE IF what = "read" THEN ConsiderReading(t)
                      ELSE ConsiderWriting(t)
    IN  {Decref(u) : u \in considered}

(* A defect: disabling forgets an operation the kernel still works on. *)
DisableForgets(s, what) ==
    LET t == [s EXCEPT !.enabled = @ \ {what}]
    IN  IF what = "read"
        THEN DelRead([t EXCEPT !.refcnt = @ - t.rip, !.rip = 0])
        ELSE DelWrite(t)

(* bufferevent_disable with be_async_disable: nothing is cancelled. *)
Disable(s, what) ==
    LET t == [s EXCEPT !.enabled = @ \ {what}]
    IN  IF what = "read" THEN DelRead(t) ELSE DelWrite(t)

(* bufferevent_async_new with bufferevent_init_common, and                 *)
(* bufferevent_setcb before anything is enabled                            *)
Created ==
    [Unborn EXCEPT !.life = "live", !.refcnt = 1, !.user = 1, !.cb = 1,
                   !.ok = 1, !.enabled = {"write"}, !.inref = 1, !.outref = 1]

-----------------------------------------------------------------------------
(* The first close of a handle closes the socket of the bufferevent; a     *)
(* later one closes whatever socket the handle names by then.              *)
ClosesOf(b, t) ==
    LET owner == handle[fd[b]]
    IN  IF t.closes = bev[b].closes THEN UNCHANGED <<handle, victims>>
        ELSE /\ handle' = [handle EXCEPT ![fd[b]] = NoOne]
             /\ victims' = IF owner \in {b, NoOne} THEN victims
                           ELSE victims \cup {owner}

Step(b, states) ==
    \E t \in states : /\ bev' = [bev EXCEPT ![b] = t]
                      /\ ClosesOf(b, t)
                      /\ UNCHANGED fd

Init ==
    /\ bev = [b \in Bufferevents |-> Unborn]
    /\ fd = [b \in Bufferevents |-> NoOne]
    /\ handle = [h \in Handles |-> NoOne]
    /\ victims = {}

(* A connection is accepted on a handle that is free, and gets a           *)
(* bufferevent.                                                            *)
New(b, h) ==
    /\ bev[b].life = "none"
    /\ handle[h] = NoOne
    /\ bev' = [bev EXCEPT ![b] = Created]
    /\ fd' = [fd EXCEPT ![b] = h]
    /\ handle' = [handle EXCEPT ![h] = b]
    /\ UNCHANGED victims

(* The user's calls from outside of a callback. *)
UserEnable(b, what) == bev[b].user = 1 /\ Step(b, Enable(bev[b], what))

UserDisable(b, what) == bev[b].user = 1 /\ Step(b, {Disable(bev[b], what)})

UserRead(b) ==
    bev[b].user = 1 /\ bev[b].inlen > 0 /\ Step(b, UserReads(bev[b]))

UserWrite(b) ==
    bev[b].user = 1 /\ bev[b].outlen < MaxLength /\ Step(b, Write(bev[b]))

UserFree(b) == bev[b].user = 1 /\ Step(b, {Free(bev[b])})

(* A worker handles the completion of a read: data, the end of the stream, *)
(* or a failure.                                                           *)
CompleteRead(b) ==
    /\ bev[b].kread = 1
    /\ \/ \E n \in 0..1 : /\ bev[b].inlen + n <= MaxLength
                          /\ Step(b, ReadComplete(bev[b], n, TRUE))
       \/ Step(b, ReadComplete(bev[b], 0, FALSE))

CompleteWrite(b) ==
    /\ bev[b].kwrite > 0
    /\ \/ \E n \in 0..bev[b].kwrite : Step(b, WriteComplete(bev[b], n, TRUE))
       \/ Step(b, WriteComplete(bev[b], 0, FALSE))

Next ==
    \E b \in Bufferevents :
        \/ \E h \in Handles : New(b, h)
        \/ \E what \in {"read", "write"} : UserEnable(b, what) \/ UserDisable(b, what)
        \/ UserRead(b)
        \/ UserWrite(b)
        \/ UserFree(b)
        \/ CompleteRead(b)
        \/ CompleteWrite(b)

Spec == Init /\ [][Next]_vars

(* The kernel completes every operation on a socket that was closed; on an *)
(* open one it may wait for the peer forever.                              *)
Aborted(b) == bev[b].closes > 0 /\ (CompleteRead(b) \/ CompleteWrite(b))

FairSpec == Spec /\ \A b \in Bufferevents : WF_vars(Aborted(b))

-----------------------------------------------------------------------------
(* Properties *)

Bit == {0, 1}

(* Every field has its type. *)
TypeOK ==
    /\ \A b \in Bufferevents :
          LET s == bev[b] IN
          /\ s.life \in {"none", "live", "freed"}
          /\ {s.user, s.cb, s.ok, s.rip, s.wip, s.radd, s.wadd, s.kread} \subseteq Bit
          /\ s.enabled \subseteq {"read", "write"}
          /\ {s.inlen, s.outlen, s.kwrite} \subseteq 0..MaxLength
          /\ s.refcnt \in Nat
          /\ s.virtual \in 0..2
    /\ fd \in [Bufferevents -> Handles \cup {NoOne}]
    /\ handle \in [Handles -> Bufferevents \cup {NoOne}]
    /\ victims \subseteq Bufferevents

(* The kernel never reads into, or writes from, the buffers of a           *)
(* bufferevent that was destructed.                                        *)
KernelOwnsLiveBuffers ==
    \A b \in Bufferevents :
        bev[b].kread = 1 \/ bev[b].kwrite > 0 => bev[b].life = "live"

(* The references are the user's and one for every operation in flight:    *)
(* the bufferevent is destructed exactly when the last of them is gone.    *)
ReferencesCounted ==
    \A b \in Bufferevents :
        LET s == bev[b] IN
        /\ s.refcnt = s.user + s.rip + s.wip
        /\ s.life = "live" <=> s.refcnt > 0

(* No assertion of bufferevent_async.c, buffer_iocp.c or bufferevent.c     *)
(* fails.                                                                  *)
NoAssertionFails == \A b \in Bufferevents : bev[b].asserts = 0

(* The question of the comment in _bufferevent_decref_and_unlock, "what    *)
(* happens if refcnt for these buffers is > 1?": it never is, the buffers  *)
(* go with the bufferevent.                                                *)
BuffersGoWithBufferevent ==
    \A b \in Bufferevents :
        bev[b].life = "freed" => bev[b].inref = 0 /\ bev[b].outref = 0

(* No lost wakeup: an enabled bufferevent without an error has a read in   *)
(* flight, and a write when there is something to write.                   *)
NoStall ==
    \A b \in Bufferevents :
        LET s == bev[b] IN
        s.ok = 1 => /\ "read" \in s.enabled => s.rip = 1
                    /\ "write" \in s.enabled /\ s.outlen > 0 => s.wip = 1

(* EOF or an error is reported once, and only when the stream is over. *)
OneEnd == \A b \in Bufferevents : bev[b].ends <= 1 - bev[b].ok

(* A destructed bufferevent keeps no virtual event: it cannot keep         *)
(* event_base_dispatch from returning.                                     *)
VirtualEventsReturned ==
    \A b \in Bufferevents : bev[b].life = "freed" => bev[b].virtual = 0

(* bufferevent.h on BEV_OPT_CLOSE_ON_FREE: "we close the underlying file   *)
(* descriptor" of the bufferevent that is freed, and no other one.         *)
ClosesOwnSocket == victims = {}

(* bufferevent_free leads to the memory being released, when the kernel    *)
(* aborts what is in flight on the closed socket.                          *)
FreeEnds ==
    \A b \in Bufferevents :
        (bev[b].life = "live" /\ bev[b].user = 0) ~> bev[b].life = "freed"

-----------------------------------------------------------------------------
(* The inductive invariant *)

BevState ==
    [life : {"none", "live", "freed"}, refcnt : Int, user : Bit, cb : Bit,
     ok : Bit, enabled : SUBSET {"read", "write"}, rip : Bit, wip : Bit,
     radd : Bit, wadd : Bit, virtual : Int, kread : Bit, kwrite : Nat,
     inlen : Int, inref : Int, outlen : Int, outref : Int, closes : Nat,
     ends : Nat, asserts : Nat]

(* What holds of a bufferevent inside an operation that holds k references *)
(* to it on behalf of the calls in progress.                               *)
Good(s, k) ==
    /\ s \in BevState
    /\ s.refcnt = s.user + s.rip + s.wip + k
    /\ s.life = "live" <=> s.refcnt > 0
    /\ s.cb = s.user
    /\ s.ok <= s.user
    /\ s.kread = s.rip
    /\ s.kwrite > 0 <=> s.wip = 1
    /\ s.inref = s.rip + (IF s.life = "live" THEN 1 ELSE 0)
    /\ s.outref = s.wip + (IF s.life = "live" THEN 1 ELSE 0)
    /\ s.virtual = s.radd + s.wadd
    /\ s.life # "live" => s.virtual = 0
    /\ s.ends <= 1 - s.ok
    /\ s.asserts = 0

(* Between the operations no call holds a reference: what every operation  *)
(* restores, and the reference counts and lifetimes follow from it.        *)
BevInv == DOMAIN bev = Bufferevents /\ \A b \in Bufferevents : Good(bev[b], 0)

=============================================================================
