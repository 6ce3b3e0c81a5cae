------------------------------ MODULE Evbuffer ------------------------------
(***************************************************************************)
(* The buffers of buffer.c and buffer_iocp.c: a singly linked list of      *)
(* chains, each a piece of memory with its bytes somewhere inside, and     *)
(* last_with_datap, a pointer to the link that leads to the last chain     *)
(* with bytes. Two buffers share a heap of chains: "in", which overlapped  *)
(* reads fill, and "out", which overlapped writes empty and whose          *)
(* callbacks are deferred. Every public function of the two files that     *)
(* changes a buffer is an action; the functions hold the lock of the       *)
(* buffer throughout, so they are atomic.                                  *)
(*                                                                         *)
(* A chain keeps next, buffer_len (len), misalign, its bytes (data, so     *)
(* off is Len(data)) and flags. A link (struct evbuffer_chain star star)   *)
(* is the name of a buffer for its field first, or the chain whose next is *)
(* meant. A failed EVUTIL_ASSERT is recorded in bad and stops the program. *)
(* The allocator never fails.                                              *)
(***************************************************************************)
EXTENDS Integers, Sequences, FiniteSets, SequencesExt

CONSTANTS
    Chunks,          \* what callers and peers add: sequences over {"x","r","n"}
    Sizes,           \* the lengths callers ask for
    MIN_BUFFER_SIZE, EVBUFFER_CHAIN_SIZE,
    MAX_AUTO,        \* EVBUFFER_CHAIN_MAX_AUTO_SIZE
    MAX_REALIGN,     \* MAX_TO_REALIGN_IN_EXPAND
    MAX_WSABUFS,     \* also NUM_READ_IOVEC and NUM_WRITE_IOVEC
    Programs,        \* the groups of functions a program may call: a set of sets
    Careful,         \* the callers avoid the uses the code does not stand
    MaxCalls,        \* bound: calls and completions
    MaxLength,       \* bound: bytes in the two buffers
    MaxChains,       \* bound: chains at a time
    MaxUnreported    \* bound: bytes of changes not yet reported

ASSUME EvbufferAssumption ==
    /\ EVBUFFER_CHAIN_SIZE \in Nat /\ MIN_BUFFER_SIZE \in Nat
    /\ MIN_BUFFER_SIZE > EVBUFFER_CHAIN_SIZE
    /\ MAX_WSABUFS \in Nat \ {0, 1}

VARIABLES
    program, \* the groups of functions this program calls, and how often it
    calls,   \* called any so far
    heap,    \* the chains allocated: a function from addresses to chains
    buf,     \* the two buffers
    vecs,    \* the extents evbuffer_reserve_space gave out
    io,      \* the operation in flight on each buffer: the memory the system uses
    bad,     \* the assertion that failed: "no", "npin" (in evbuffer_launch_read), "other"
    behind,  \* history: an addition filled a chain past that of last_with_datap
    call     \* the last call and its result

vars == <<program, calls, heap, buf, vecs, io, bad, behind, call>>

NULL == 0
In == -1     \* the buffers; numbers, as chains are, for links may be either
Out == -2
Buffers == {In, Out}
Deferred(b) == b = Out
NoIO == [first |-> NULL, vecs |-> <<>>]

-----------------------------------------------------------------------------
(* The heap. m is a memory, of the record Memory, on its way through a     *)
(* function.                                                               *)

Memory == [heap |-> heap, buf |-> buf, bad |-> bad, behind |-> behind]
Off(m, c) == Len(m.heap[c].data)
Pinned(m, c) == m.heap[c].flags \cap {"pinR", "pinW"} # {}
PinnedR(m, c) == "pinR" \in m.heap[c].flags
SpaceOf(ch) == IF "immutable" \in ch.flags THEN 0 ELSE ch.len - (ch.misalign + Len(ch.data))
Space(m, c) == SpaceOf(m.heap[c])
Bad(m) == m.bad # "no"
Assert_(m, cond) == IF cond THEN m ELSE [m EXCEPT !.bad = "other"]
Deref(m, p) == IF p \in Buffers THEN m.buf[p].first ELSE m.heap[p].next
Store(m, p, c) == IF p \in Buffers THEN [m EXCEPT !.buf[p].first = c]
                  ELSE [m EXCEPT !.heap[p].next = c]
(* The chains from c on.                                                   *)
List(m, c) ==
    LET follow[d \in DOMAIN m.heap \cup {NULL}] ==
            IF d = NULL THEN <<>> ELSE <<d>> \o follow[m.heap[d].next]
    IN  follow[c]
ChainsOf(m, b) == List(m, m.buf[b].first)
LastWithData(m, b) == Deref(m, m.buf[b].lwdp)
(* last_with_datap is behind: a chain after its own has bytes.             *)
Behind(m, b) ==
    LET l == List(m, LastWithData(m, b)) IN \E i \in 2..Len(l) : Off(m, l[i]) > 0
(* The link behind the i-th chain of list l, which starts at link p.       *)
LinkAt(l, p, i) == IF i = 0 THEN p ELSE l[i]
Bytes(m, l) == FoldLeft(LAMBDA s, c : s \o m.heap[c].data, <<>>, l)
Content(m, b) ==
    LET bytes[d \in DOMAIN m.heap \cup {NULL}] ==
            IF d = NULL THEN <<>> ELSE m.heap[d].data \o bytes[m.heap[d].next]
    IN  bytes[m.buf[b].first]

(* evbuffer_chain_new: the allocation doubles until the chain fits.        *)
RoundUp(size) ==
    LET fits == {k \in 0..8 : MIN_BUFFER_SIZE * 2^k >= size + EVBUFFER_CHAIN_SIZE}
        k == CHOOSE i \in fits : \A j \in fits : i <= j
    IN  MIN_BUFFER_SIZE * 2^k - EVBUFFER_CHAIN_SIZE
Fresh(m) == CHOOSE c \in 1..MaxChains + 3 : c \notin DOMAIN m.heap
                /\ \A d \in 1..c - 1 : d \in DOMAIN m.heap
Allocate(m, ch) == [m EXCEPT !.heap = [c \in DOMAIN @ \cup {Fresh(m)} |->
                                           IF c = Fresh(m) THEN ch ELSE @[c]]]
NewChain(size) == [next |-> NULL, len |-> RoundUp(size), misalign |-> 0, data |-> <<>>, flags |-> {}]

(* evbuffer_chain_free leaves a pinned chain dangling.                     *)
chain_free(m, c) ==
    IF Pinned(m, c) THEN [m EXCEPT !.heap[c].flags = @ \cup {"dangling"}]
    ELSE [m EXCEPT !.heap = [d \in DOMAIN @ \ {c} |-> @[d]]]
free_all_chains(m, l) == FoldLeft(chain_free, m, l)
unpin(m, c, flag) ==
    LET n == [Assert_(m, flag \in m.heap[c].flags) EXCEPT !.heap[c].flags = @ \ {flag}]
    IN  IF "dangling" \in n.heap[c].flags THEN chain_free(n, c) ELSE n

-----------------------------------------------------------------------------
(* Lists of chains.                                                        *)

(* From last_with_datap on, how many chains have bytes or are pinned; the  *)
(* next one, if any, is the first that may be thrown away.                 *)
Kept(m, l) ==
    LET victims == {i \in DOMAIN l : Off(m, l[i]) = 0 /\ ~Pinned(m, l[i])}
    IN  IF victims = {} THEN Len(l) ELSE (CHOOSE i \in victims : \A j \in victims : i <= j) - 1

(* evbuffer_free_trailing_empty_chains; link is where a chain can go.      *)
free_trailing_empty_chains(m, b) ==
    LET l == List(m, LastWithData(m, b))
        k == Kept(m, l)
        victims == SubSeq(l, k + 1, Len(l))
        n == Assert_(m, \A i \in DOMAIN victims : Off(m, victims[i]) = 0)
        link == LinkAt(l, m.buf[b].lwdp, k)
    IN  [m |-> IF victims = <<>> THEN n ELSE Store(free_all_chains(n, victims), link, NULL),
         link |-> link]

(* evbuffer_chain_insert: chain c, already allocated, becomes the last. In *)
(* the place of empty chains it does not become that of last_with_datap.   *)
chain_insert(m, b, c) ==
    LET l == List(m, LastWithData(m, b))
        k == Kept(m, l)
        n == CASE l = <<>> ->
                    Store(Assert_(m, m.buf[b].lwdp = b /\ m.buf[b].first = NULL), b, c)
               [] l # <<>> /\ k = Len(l) ->
                    LET o == [m EXCEPT !.heap[m.buf[b].last].next = c]
                    IN  IF Off(m, c) = 0 THEN o ELSE [o EXCEPT !.buf[b].lwdp = m.buf[b].last]
               [] OTHER ->
                    LET victims == SubSeq(l, k + 1, Len(l))
                        o == [Assert_(m, \A i \in DOMAIN victims : Off(m, victims[i]) = 0)
                                 EXCEPT !.behind = @ \/ (k > 0 /\ Off(m, c) > 0)]
                    IN  Store(free_all_chains(o, victims), LinkAt(l, m.buf[b].lwdp, k), c)
    IN  [n EXCEPT !.buf[b].last = c, !.buf[b].total_len = @ + Off(m, c)]
InsertNew(m, b, ch) == chain_insert(Allocate(m, ch), b, Fresh(m))

advance_last_with_data(m, b) ==
    LET l == List(m, LastWithData(m, b))
        full == {i \in 1..Len(l) : \A j \in 2..i : Off(m, l[j]) > 0}
        k == Cardinality(full)
    IN  IF l = <<>> THEN m ELSE [m EXCEPT !.buf[b].lwdp = LinkAt(l, @, k - 1)]

ZERO_CHAIN(m, b) ==
    [m EXCEPT !.buf[b] = [@ EXCEPT !.first = NULL, !.last = NULL, !.lwdp = b, !.total_len = 0]]
(* Mutated: nobody looks for a read in flight.                             *)
NeverPinned(m, b) == FALSE

HAS_PINNED_R(m, b) == m.buf[b].last # NULL /\ PinnedR(m, m.buf[b].last)

-----------------------------------------------------------------------------
(* Callbacks: an immediate buffer runs them at once; a deferred one counts *)
(* on, takes a reference and queues itself for the event loop.             *)

run_callbacks(m, b, clear) ==
    IF clear \/ m.buf[b].cb = "none" THEN [m EXCEPT !.buf[b].n_add = 0, !.buf[b].n_del = 0] ELSE m

invoke_callbacks(m, b) ==
    CASE m.buf[b].cb # "none" /\ Deferred(b) /\ m.buf[b].queued -> m
      [] m.buf[b].cb # "none" /\ Deferred(b) /\ ~m.buf[b].queued ->
           run_callbacks([m EXCEPT !.buf[b].refcnt = @ + 1, !.buf[b].queued = TRUE], b, FALSE)
      [] OTHER -> run_callbacks(m, b, TRUE)

(* _evbuffer_decref_and_unlock                                             *)
decref_and_unlock(m, b) ==
    LET n == [Assert_(m, m.buf[b].refcnt > 0) EXCEPT !.buf[b].refcnt = @ - 1]
    IN  IF n.buf[b].refcnt > 0 THEN n
        ELSE ZERO_CHAIN([free_all_chains(n, ChainsOf(n, b)) EXCEPT
                            !.buf[b].cb = "none", !.buf[b].queued = FALSE], b)

Added(m, b, n) == [m EXCEPT !.buf[b].total_len = @ + n, !.buf[b].n_add = @ + n]

-----------------------------------------------------------------------------
(* Adding bytes.                                                           *)

should_realign(ch, n) ==
    /\ ch.len - Len(ch.data) >= n
    /\ Len(ch.data) < ch.len \div 2
    /\ Len(ch.data) <= MAX_REALIGN
align(m, c) == [Assert_(m, ~Pinned(m, c) /\ "immutable" \notin m.heap[c].flags)
                   EXCEPT !.heap[c].misalign = 0]
Write(m, c, d) == [m EXCEPT !.heap[c].data = @ \o d]

(* evbuffer_add fills the last chain first.                                *)
AddToLast(m0, b, d) ==
    LET c == m0.buf[b].last
        m == [m0 EXCEPT !.behind = @ \/ (c # LastWithData(m0, b) /\ Space(m0, c) > 0)]
        ch == m.heap[c]
        remain == SpaceOf(ch)
        alloc == IF ch.len <= MAX_AUTO \div 2 THEN 2 * ch.len ELSE ch.len
        tmp == [NewChain(IF Len(d) > alloc THEN Len(d) ELSE alloc) EXCEPT
                   !.data = SubSeq(d, remain + 1, Len(d))]
    IN  CASE remain >= Len(d) /\ "immutable" \notin ch.flags -> Added(Write(m, c, d), b, Len(d))
          [] remain < Len(d) /\ "immutable" \notin ch.flags /\ ~Pinned(m, c)
               /\ should_realign(ch, Len(d)) -> Added(Write(align(m, c), c, d), b, Len(d))
          [] OTHER ->
               LET n == Added(Write(m, c, SubSeq(d, 1, remain)), b, remain)
               IN  [InsertNew(n, b, tmp) EXCEPT !.buf[b].n_add = @ + Len(tmp.data)]
(* A buffer without a chain gets one.                                      *)
NotEmpty(m, b, size) == IF m.buf[b].last = NULL THEN InsertNew(m, b, NewChain(size)) ELSE m
evbuffer_add(m, b, d) == invoke_callbacks(AddToLast(NotEmpty(m, b, Len(d)), b, d), b)

(* evbuffer_prepend fills the hole before the bytes of the first chain; an *)
(* empty chain is all hole. What a new chain in front takes is not added   *)
(* to n_add_for_cb: the code adds the misalignment of the second chain.    *)
PrependToFirst(m1, b, d) ==
    LET c == m1.buf[b].first
        mutable == "immutable" \notin m1.heap[c].flags
        m == IF mutable /\ Off(m1, c) = 0 THEN [m1 EXCEPT !.heap[c].misalign = m1.heap[c].len] ELSE m1
        hole == IF mutable THEN m.heap[c].misalign ELSE 0
        fit == IF hole >= Len(d) THEN Len(d) ELSE hole
        rest == SubSeq(d, 1, Len(d) - fit)
        n == Added([m EXCEPT !.heap[c].data = SubSeq(d, Len(d) - fit + 1, Len(d)) \o @,
                             !.heap[c].misalign = @ - fit], b, fit)
        tmp == [NewChain(Len(rest)) EXCEPT !.data = rest, !.next = c,
                                           !.misalign = RoundUp(Len(rest)) - Len(rest)]
        inFront(t) == [Allocate(n, tmp) EXCEPT !.buf[b].first = t,
                                               !.buf[b].lwdp = IF @ = b THEN t ELSE @,
                                               !.buf[b].total_len = @ + Len(rest),
                                               !.buf[b].n_add = @ + n.heap[c].misalign]
    IN  IF mutable /\ hole >= Len(d) THEN n ELSE inFront(Fresh(n))
evbuffer_prepend(m, b, d) == invoke_callbacks(PrependToFirst(NotEmpty(m, b, Len(d)), b, d), b)

(* evbuffer_add_reference, also for the mapped file of evbuffer_add_file   *)
evbuffer_add_reference(m, b, d) ==
    LET ch == [NewChain(0) EXCEPT !.flags = {"immutable"}, !.len = Len(d), !.data = d]
        n == InsertNew(m, b, ch)
    IN  invoke_callbacks([n EXCEPT !.buf[b].n_add = @ + Len(d)], b)

-----------------------------------------------------------------------------
(* Making room.                                                            *)

(* evbuffer_expand_singlechain: one chain with n bytes of space. The       *)
(* condition of the code that decides against copying the chain is true of *)
(* every n the allocator can serve, so the chain is never resized.         *)
expand_singlechain(m, b, n) ==
    LET c0 == LastWithData(m, b)
        c == IF c0 # NULL /\ Space(m, c0) = 0 THEN m.heap[c0].next ELSE c0
        fresh == [m |-> InsertNew(m, b, NewChain(n)), c |-> Fresh(m)]
    IN  CASE c = NULL \/ (c # NULL /\ (Pinned(m, c) \/ "immutable" \in m.heap[c].flags)) -> fresh
          [] OTHER ->
               CASE Space(m, c) >= n -> [m |-> m, c |-> c]
                 [] Space(m, c) < n /\ Off(m, c) # 0 /\ should_realign(m.heap[c], n) ->
                      [m |-> align(m, c), c |-> c]
                 [] Space(m, c) < n /\ Off(m, c) # 0 /\ ~should_realign(m.heap[c], n)
                      /\ m.heap[c].next # NULL /\ Space(m, m.heap[c].next) >= n ->
                      [m |-> m, c |-> m.heap[c].next]
                 [] OTHER -> fresh

(* _evbuffer_expand_fast: n bytes in at most k chains, without copying.    *)
expand_fast(m, b, n, k) ==
    LET last == m.buf[b].last
        l == List(m, LastWithData(m, b))
        avail[i \in 0..Len(l)] ==
            IF i = 0 THEN 0
            ELSE avail[i - 1] + IF Off(m, l[i]) # 0 THEN Space(m, l[i]) ELSE m.heap[l[i]].len
        used(i) == Cardinality({j \in 1..i : Off(m, l[j]) = 0 \/ Space(m, l[j]) > 0})
        stops == {i \in 1..Len(l) : avail[i] >= n \/ used(i) = k}
        stop == IF stops = {} THEN Len(l) ELSE CHOOSE i \in stops : \A j \in stops : i <= j
        seen == {l[i] : i \in 1..stop}
        a == [Assert_(m, \A i \in 2..stop : Off(m, l[i]) = 0) EXCEPT
                 !.heap = [c \in DOMAIN @ |-> IF c \in seen /\ Off(m, c) = 0
                                              THEN [@[c] EXCEPT !.misalign = 0] ELSE @[c]]]
        keeps == Off(m, l[1]) # 0                     \* not rmv_all
        room == IF keeps THEN Space(m, l[1]) ELSE 0
        victims == IF keeps THEN Tail(l) ELSE l
        cleared == free_all_chains(Assert_(Assert_(a, keeps \/ l[1] = m.buf[b].first),
                                           \A i \in DOMAIN victims : Off(m, victims[i]) = 0), victims)
        appended(x) == [Allocate(x, NewChain(n - avail[Len(l)])) EXCEPT
                           !.heap[last].next = Fresh(x), !.buf[b].last = Fresh(x)]
        replaced(x) ==
            LET o == [Allocate(x, NewChain(n - room)) EXCEPT !.buf[b].last = Fresh(x)]
            IN  IF keeps THEN [o EXCEPT !.heap[l[1]].next = Fresh(x)]
                ELSE [o EXCEPT !.buf[b].first = Fresh(x), !.buf[b].lwdp = b]
    IN  CASE last = NULL \/ (last # NULL /\ "immutable" \in m.heap[last].flags) ->
               InsertNew(m, b, NewChain(n))
          [] OTHER ->
               CASE stops # {} /\ avail[stop] >= n -> a
                 [] stops = {} -> appended(a)
                 [] OTHER -> replaced(cleared)

(* _evbuffer_read_setup_vecs: the extents from the first chain with space. *)
setup_vecs(m, b, n, k, exact) ==
    LET c0 == LastWithData(m, b)
        link == IF Space(m, c0) = 0 THEN c0 ELSE m.buf[b].lwdp
        l == List(m, Deref(m, link))
        before[i \in 0..Len(l)] == IF i = 0 THEN 0 ELSE before[i - 1] + Space(m, l[i])
        taken == {i \in 1..Len(l) : i <= k /\ before[i - 1] < n}
        extent(i) == [c |-> l[i], at |-> m.heap[l[i]].misalign + Off(m, l[i]),
                      len |-> IF exact /\ Space(m, l[i]) > n - before[i - 1]
                              THEN n - before[i - 1] ELSE Space(m, l[i])]
    IN  [link |-> link, vecs |-> [i \in 1..Cardinality(taken) |-> extent(i)]]

-----------------------------------------------------------------------------
(* Removing bytes.                                                         *)

(* The bytes in the chains of l before the i-th.                           *)
Before(m, l) ==
    LET sum[i \in 0..Len(l)] == IF i = 0 THEN 0 ELSE sum[i - 1] + Off(m, l[i]) IN sum

(* evbuffer_drain of a buffer with bytes that is not frozen. A chain that  *)
(* a read is pinned to stays; it holds the last of the bytes.              *)
evbuffer_drain(m, b, want) ==
    LET len == IF want >= m.buf[b].total_len THEN m.buf[b].total_len ELSE want
        l == ChainsOf(m, b)
        sum == Before(m, l)
        all == want >= m.buf[b].total_len /\ ~HAS_PINNED_R(m, b)
        passed == {i \in DOMAIN l : sum[i] <= len /\ \A j \in 1..i - 1 : ~PinnedR(m, l[j])}
        k == Cardinality(passed)                     \* chains the loop goes through
        stays == k > 0 /\ PinnedR(m, l[k])           \* it breaks at a pinned one
        freed == SubSeq(l, 1, IF stays THEN k - 1 ELSE k)
        c == IF stays THEN l[k] ELSE l[k + 1]
        cut == IF stays THEN Off(m, c) ELSE len - sum[k]
        lost == \E i \in 1..k : l[i] = LastWithData(m, b) \/ l[i] = m.buf[b].lwdp
        n == [free_all_chains(Assert_(m, stays => sum[k] = len), freed) EXCEPT
                 !.buf[b].first = c,
                 !.buf[b].lwdp = IF lost THEN b ELSE @,
                 !.buf[b].total_len = @ - len,
                 !.heap[c].misalign = @ + cut,
                 !.heap[c].data = SubSeq(@, cut + 1, Len(@))]
        o == IF all THEN ZERO_CHAIN(free_all_chains(m, l), b) ELSE n
    IN  invoke_callbacks([o EXCEPT !.buf[b].n_del = @ + len], b)
Drain(m, b, n) == IF m.buf[b].total_len = 0 THEN m ELSE evbuffer_drain(m, b, n)

(* evbuffer_copyout walks the chains; the last one is copied in part.      *)
evbuffer_copyout(m, b, want) ==
    LET len == IF want >= m.buf[b].total_len THEN m.buf[b].total_len ELSE want
        l == ChainsOf(m, b)
        sum == Before(m, l)
        whole == {i \in DOMAIN l : sum[i] <= len /\ sum[i - 1] < len}
        k == IF whole = {} THEN 0 ELSE CHOOSE i \in whole : \A j \in whole : j <= i
    IN  IF len = 0 THEN <<>>
        ELSE Bytes(m, SubSeq(l, 1, k))
               \o (IF len > sum[k] THEN SubSeq(m.heap[l[k + 1]].data, 1, len - sum[k]) ELSE <<>>)

(* PRESERVE_PINNED takes the chains a read is pinned to out of a buffer    *)
(* whose bytes are about to move; bytes in the first of them are copied.   *)
PRESERVE_PINNED(m, b) ==
    LET lwd == LastWithData(m, b)
        atLwd == PinnedR(m, lwd)
        link == IF atLwd THEN m.buf[b].lwdp ELSE lwd
        p == Deref(m, link)
        t == Fresh(m)
        copy == [Allocate(m, [NewChain(Off(m, p)) EXCEPT !.data = m.heap[p].data]) EXCEPT
                    !.heap[p].misalign = @ + Off(m, p), !.heap[p].data = <<>>]
    IN  CASE ~HAS_PINNED_R(m, b) -> [m |-> m, first |-> NULL, last |-> NULL]
          [] HAS_PINNED_R(m, b) /\ p = NULL -> [m |-> Assert_(m, FALSE), first |-> NULL, last |-> NULL]
          [] HAS_PINNED_R(m, b) /\ Off(m, p) > 0 ->
               [m |-> [Store(Assert_(copy, link = m.buf[b].lwdp), m.buf[b].lwdp, t) EXCEPT
                          !.buf[b].last = t],
                first |-> p, last |-> m.buf[b].last]
          [] OTHER ->
               [m |-> Store([m EXCEPT !.buf[b].last = lwd], link, NULL),
                first |-> p, last |-> m.buf[b].last]
RESTORE_PINNED(m, b, first, last) ==
    IF first = NULL THEN ZERO_CHAIN(m, b)
    ELSE [m EXCEPT !.buf[b] = [@ EXCEPT !.first = first, !.last = last, !.lwdp = b, !.total_len = 0]]

(* A pointer to the field first of src becomes one to where its chains are *)
Relink(m, src, dflt) == IF m.buf[src].lwdp = src THEN dflt ELSE m.buf[src].lwdp
COPY_CHAIN(m, dst, src) ==
    [m EXCEPT !.buf[dst] = [@ EXCEPT !.first = m.buf[src].first, !.last = m.buf[src].last,
                                     !.lwdp = Relink(m, src, dst), !.total_len = m.buf[src].total_len]]
(* Mutated: the pointer of the source is taken as it is.                   *)
AppendKeepsPointer(m, dst, src) ==
    [m EXCEPT !.heap[m.buf[dst].last].next = m.buf[src].first,
              !.buf[dst] = [@ EXCEPT !.last = m.buf[src].last, !.lwdp = m.buf[src].lwdp,
                                     !.total_len = @ + m.buf[src].total_len]]
APPEND_CHAIN(m, dst, src) ==
    [m EXCEPT !.heap[m.buf[dst].last].next = m.buf[src].first,
              !.buf[dst] = [@ EXCEPT !.last = m.buf[src].last,
                                     !.lwdp = Relink(m, src, m.buf[dst].last),
                                     !.total_len = @ + m.buf[src].total_len]]
PREPEND_CHAIN(m, dst, src) ==
    LET n == [m EXCEPT !.heap[m.buf[src].last].next = m.buf[dst].first,
                       !.buf[dst].first = m.buf[src].first,
                       !.buf[dst].total_len = @ + m.buf[src].total_len]
    IN  CASE Deref(n, n.buf[dst].lwdp) = NULL -> [n EXCEPT !.buf[dst].lwdp = Relink(m, src, dst)]
          [] Deref(n, n.buf[dst].lwdp) # NULL /\ m.buf[dst].lwdp = dst ->
               [n EXCEPT !.buf[dst].lwdp = m.buf[src].last]
          [] OTHER -> n

(* evbuffer_add_buffer and evbuffer_prepend_buffer: all bytes of src move. *)
MoveAll(m, src, dst, front) ==
    LET len == m.buf[src].total_len
        p == PRESERVE_PINNED(m, src)
        n == CASE m.buf[dst].total_len = 0 ->
                    COPY_CHAIN(free_all_chains(p.m, ChainsOf(p.m, dst)), dst, src)
               [] m.buf[dst].total_len > 0 /\ ~front -> APPEND_CHAIN(p.m, dst, src)
               [] OTHER -> PREPEND_CHAIN(p.m, dst, src)
        o == [RESTORE_PINNED(n, src, p.first, p.last) EXCEPT
                 !.buf[src].n_del = @ + len, !.buf[dst].n_add = @ + len]
    IN  invoke_callbacks(invoke_callbacks(o, src), dst)

(* evbuffer_remove_buffer of fewer bytes than there are: whole chains move *)
(* and the bytes of the next one are added to the destination.             *)
remove_buffer(m, src, dst, want) ==
    LET l == ChainsOf(m, src)
        sum == Before(m, l)
        k == Cardinality({i \in DOMAIN l : sum[i] <= want})
        a == Assert_(m, \A i \in 1..k : l[i] # LastWithData(m, src))
        s == [a EXCEPT !.buf[src].lwdp = IF \E i \in 1..k : l[i] = @ THEN src ELSE @]
        nread == sum[k]
        t == free_trailing_empty_chains(s, dst)
        linked == [Store(t.m, IF t.m.buf[dst].first = NULL THEN dst ELSE t.link, l[1]) EXCEPT
                      !.buf[dst].last = l[k], !.heap[l[k]].next = NULL, !.buf[src].first = l[k + 1]]
        n == IF nread = 0 THEN s ELSE Added(advance_last_with_data(linked, dst), dst, nread)
        c == l[k + 1]
        cut == want - nread
        partly(x) == [evbuffer_add(x, dst, SubSeq(x.heap[c].data, 1, cut)) EXCEPT
                         !.heap[c].misalign = @ + cut, !.heap[c].data = SubSeq(@, cut + 1, Len(@)),
                         !.buf[src].total_len = @ - want, !.buf[src].n_del = @ + want]
    IN  invoke_callbacks(invoke_callbacks(partly(n), dst), src)

(* evbuffer_pullup: the first n bytes in the first chain; NULL, here ok    *)
(* FALSE, when a pinned chain is in the way.                               *)
pullup(m, b, n) ==
    LET l == ChainsOf(m, b)
        sum == Before(m, l)
        c == l[1]
        needs == {i \in 2..Len(l) : sum[i - 1] < n}
        inPlace == IF Pinned(m, c) THEN Space(m, c) >= n - Off(m, c)
                   ELSE m.heap[c].len - m.heap[c].misalign >= n
        t == IF inPlace THEN c ELSE Fresh(m)
        a == IF inPlace THEN m ELSE [Allocate(m, NewChain(n)) EXCEPT !.buf[b].first = t]
        lwd == Deref(a, a.buf[b].lwdp)
        gone == {i \in DOMAIN l : sum[i] <= n /\ (i = 1 => ~inPlace)}
        k == IF gone = {} THEN 1 ELSE CHOOSE i \in gone : \A j \in gone : j <= i
        rest == IF k = Len(l) THEN NULL ELSE l[k + 1]
        cut == n - sum[k]
        f == FoldLeft(LAMBDA x, i : chain_free(x, l[i]), a, SetToSortSeq(gone, <))
        g == [f EXCEPT !.heap[t].data = SubSeq(Bytes(m, l), 1, n), !.heap[t].next = rest]
        h == IF rest = NULL THEN [g EXCEPT !.buf[b].last = t]
             ELSE [g EXCEPT !.heap[rest].misalign = @ + cut,
                            !.heap[rest].data = SubSeq(@, cut + 1, Len(@))]
        lost == \E i \in gone : l[i] = lwd
        lostLink == \E i \in gone : l[i] = a.buf[b].lwdp
        second(x) == x.heap[x.buf[b].first].next
        relinked(x) ==
            [x EXCEPT !.buf[b].lwdp =
               CASE lost -> b
                 [] ~lost /\ lostLink ->
                      IF second(x) # NULL /\ Off(x, second(x)) > 0 THEN x.buf[b].first ELSE b
                 [] OTHER -> @]
    IN  CASE n = 0 \/ n > m.buf[b].total_len -> [ok |-> FALSE, m |-> m]
          [] OTHER ->
            CASE Off(m, c) >= n -> [ok |-> TRUE, m |-> m]
              [] Off(m, c) < n /\ (\/ \E i \in needs : Pinned(m, l[i])
                                   \/ Pinned(m, c) /\ ~inPlace) -> [ok |-> FALSE, m |-> m]
              [] OTHER -> [ok |-> TRUE, m |-> relinked(h)]

-----------------------------------------------------------------------------
(* Looking. cs are the bytes chain by chain; a pointer (struct             *)
(* evbuffer_ptr) is a position, a chain (behind the last one for NULL) and *)
(* a position in it.                                                       *)

Pieces(m, b) == LET l == ChainsOf(m, b) IN [i \in DOMAIN l |-> m.heap[l[i]].data]
Start(cs) == [pos |-> 0, c |-> 1, i |-> 0]
None(cs) == [pos |-> -1, c |-> Len(cs) + 1, i |-> 0]

(* evbuffer_strchr and evbuffer_find_eol_char: the first byte in chars.    *)
Find(cs, it, chars) ==
    LET hits(c) == {p \in (IF c = it.c THEN it.i ELSE 0)..(Len(cs[c]) - 1) : cs[c][p + 1] \in chars}
        passed[c \in it.c..Len(cs) + 1] ==
            IF c = it.c THEN it.pos - it.i ELSE passed[c - 1] + Len(cs[c - 1])
        with == {c \in it.c..Len(cs) : hits(c) # {}}
        c == CHOOSE d \in with : \A e \in with : d <= e
        p == CHOOSE q \in hits(c) : \A r \in hits(c) : q <= r
    IN  IF with = {} THEN None(cs) ELSE [pos |-> passed[c] + p, c |-> c, i |-> p]

(* The bytes a pointer points at, walking on through the chains.           *)
From(cs, it) ==
    FoldLeft(LAMBDA s, c : s \o cs[c], SubSeq(cs[it.c], it.i + 1, Len(cs[it.c])),
             [k \in 1..Len(cs) - it.c |-> it.c + k])
(* Mutated: bytes are compared in the chain of the pointer only.           *)
MemcmpInChain(cs, it, what) == IsPrefix(what, SubSeq(cs[it.c], it.i + 1, Len(cs[it.c])))

ptr_memcmp(cs, it, what) == IsPrefix(what, From(cs, it))
strspn(cs, it, chars) ==
    LET s == From(cs, it)
    IN  Cardinality({k \in DOMAIN s : \A j \in 1..k : s[j] \in chars})

(* evbuffer_ptr_set with EVBUFFER_PTR_ADD; at the end there is no pointer. *)
ptr_add(cs, it, n) ==
    LET go[c \in it.c..Len(cs) + 1] ==          \* bytes left on entering chain c
            IF c = it.c THEN it.i + n ELSE go[c - 1] - Len(cs[c - 1])
        stops == {c \in it.c..Len(cs) : go[c] < Len(cs[c])}
        c == CHOOSE d \in stops : \A e \in stops : d <= e
    IN  IF stops = {} THEN None(cs) ELSE [pos |-> it.pos + n, c |-> c, i |-> go[c]]

(* evbuffer_search_range: the next occurrence of the first byte, until the *)
(* others follow it.                                                       *)
evbuffer_search(cs, what, it) ==
    LET bump(h) == IF h.i + 1 = Len(cs[h.c]) THEN [pos |-> h.pos + 1, c |-> h.c + 1, i |-> 0]
                   ELSE [h EXCEPT !.pos = @ + 1, !.i = @ + 1]
        try[k \in 0..MaxLength] ==
            IF k = 0 THEN Find(cs, it, {what[1]})
            ELSE LET h == try[k - 1]
                 IN  IF h.pos = -1 \/ ptr_memcmp(cs, h, what) THEN h
                     ELSE Find(cs, bump(h), {what[1]})
        r == try[MaxLength]
    IN  IF cs = <<>> THEN None(cs) ELSE r

(* evbuffer_search_eol: the pointer and the length of the end of line.     *)
search_eol(cs, style) ==
    LET any == {"r", "n"}
        rn == <<"r", "n">>
        ok(it, h) == h.pos # -1 /\ (cs[h.c][h.i + 1] = "n" \/ ptr_memcmp(cs, h, rn))
        crlf[k \in 0..MaxLength] ==
            IF k = 0 THEN Find(cs, Start(cs), any)
            ELSE LET h == crlf[k - 1]
                     next == IF h.pos = -1 THEN h ELSE ptr_add(cs, h, 1)
                 IN  IF h.pos = -1 \/ ok(Start(cs), h) THEN h
                     ELSE IF next.pos = -1 THEN next ELSE Find(cs, next, any)
        it == CASE cs = <<>> -> None(cs)
                [] cs # <<>> /\ style = "ANY" -> Find(cs, Start(cs), any)
                [] cs # <<>> /\ style = "LF" -> Find(cs, Start(cs), {"n"})
                [] cs # <<>> /\ style = "STRICT" -> evbuffer_search(cs, rn, Start(cs))
                [] cs # <<>> /\ style = "CRLF" -> crlf[MaxLength]
    IN  [pos |-> it.pos,
         len |-> CASE it.pos = -1 -> 0
                   [] it.pos # -1 /\ style = "ANY" -> strspn(cs, it, any)
                   [] it.pos # -1 /\ style = "LF" -> 1
                   [] it.pos # -1 /\ style = "STRICT" -> 2
                   [] it.pos # -1 /\ style = "CRLF" -> IF cs[it.c][it.i + 1] = "n" THEN 1 ELSE 2]

-----------------------------------------------------------------------------
NewBuffer(b) ==
    [first |-> NULL, last |-> NULL, lwdp |-> b, total_len |-> 0, n_add |-> 0, n_del |-> 0,
     freeze_start |-> FALSE, freeze_end |-> FALSE, cb |-> "none", queued |-> FALSE,
     refcnt |-> 1, owned |-> TRUE]
NoVecs == [b |-> In, list |-> <<>>]

Init ==
    /\ program \in Programs /\ calls = 0
    /\ heap = [c \in {} |-> NULL]
    /\ buf = [b \in Buffers |-> NewBuffer(b)]
    /\ vecs = NoVecs
    /\ io = [b \in Buffers |-> NoIO]
    /\ bad = "no" /\ behind = FALSE
    /\ call = [op |-> "new"]

(* A function returns: memory m and result r; or an assertion failed.      *)
Return(m, r) ==
    /\ calls < MaxCalls /\ calls' = calls + 1 /\ UNCHANGED program
    /\ bad' = m.bad /\ behind' = m.behind
    /\ IF Bad(m) THEN call' = [ok |-> FALSE] /\ UNCHANGED <<heap, buf>>
       ELSE heap' = m.heap /\ buf' = m.buf /\ call' = r
Calls(group) == group \in program
Total == buf[In].total_len + buf[Out].total_len
Room(n) == /\ Total + n <= MaxLength
           /\ Cardinality(DOMAIN heap) < MaxChains
           /\ \A b \in Buffers : buf[b].n_add + buf[b].n_del <= MaxUnreported
(* The caller owns the buffer and, as the header demands, moves nothing    *)
(* before it commits the space it reserved.                                *)
Usable(b) == ~Bad(Memory) /\ buf[b].owned /\ ~(vecs.list # <<>> /\ vecs.b = b)
Keep == UNCHANGED <<vecs, io>>

Appended(b, d) == [ok |-> TRUE, op |-> "append", b |-> b, data |-> d]
Removed(b, d) == [ok |-> TRUE, op |-> "remove", b |-> b, data |-> d]
Arranged == [ok |-> TRUE, op |-> "arrange"]
Failed == [ok |-> FALSE]

(* evbuffer_add and evbuffer_add_reference. When evbuffer_expand or a      *)
(* reservation left an empty chain at the end, both leave last_with_datap  *)
(* where it is.                                                            *)
Add(b, d) ==
    /\ Calls("add") /\ Usable(b) /\ Room(Len(d)) /\ Keep
    /\ \/ /\ buf[b].freeze_end /\ Return(Memory, Failed)
       \/ /\ ~buf[b].freeze_end
          /\ \/ Return(evbuffer_add(Memory, b, d), Appended(b, d))
             \/ Return(evbuffer_add_reference(Memory, b, d), Appended(b, d))

PRINTF_SPACE == 2
evbuffer_add_vprintf(m, b, d) ==
    LET r == expand_singlechain(m, b, PRINTF_SPACE)
        s == IF Len(d) < Space(r.m, r.c) THEN r ELSE expand_singlechain(r.m, b, Len(d) + 1)
    IN  invoke_callbacks(advance_last_with_data(Added(Write(s.m, s.c, d), b, Len(d)), b), b)
AddPrintf(b, d) ==
    /\ Calls("add") /\ Usable(b) /\ Room(Len(d)) /\ Keep
    /\ ~buf[b].freeze_end
    /\ Return(evbuffer_add_vprintf(Memory, b, d), Appended(b, d))

(* A careful caller does not prepend to an empty buffer that is being read *)
(* into: the code would use, or free, the pinned chain.                    *)
PrependSafe(b) == Careful => io[b] = NoIO \/ buf[b].total_len > 0
Prepend(b, d) ==
    /\ Calls("prepend") /\ Usable(b) /\ Room(Len(d)) /\ Keep
    /\ PrependSafe(b)
    /\ IF buf[b].freeze_start THEN Return(Memory, Failed)
       ELSE Return(evbuffer_prepend(Memory, b, d),
                   [ok |-> TRUE, op |-> "prepend", b |-> b, data |-> d])

(* evbuffer_remove, which is evbuffer_copyout and evbuffer_drain           *)
Remove_(b, n) ==
    /\ Calls("remove") /\ Usable(b) /\ Keep
    /\ IF buf[b].freeze_start /\ buf[b].total_len > 0 THEN Return(Memory, Failed)
       ELSE Return(Drain(Memory, b, n), Removed(b, evbuffer_copyout(Memory, b, n)))

(* evbuffer_readln removes the line, then drains its end.                  *)
ReadLine(b, style) ==
    \E e \in {search_eol(Pieces(Memory, b), style)} :
      LET line == evbuffer_copyout(Memory, b, e.pos)
          m == IF e.pos = 0 THEN Memory ELSE Drain(Memory, b, e.pos)
          result(found, l) == [ok |-> TRUE, op |-> "readln", b |-> b, style |-> style,
                               found |-> found, line |-> l]
      IN  /\ Calls("line") /\ Usable(b) /\ Keep
          /\ CASE buf[b].freeze_start -> Return(Memory, Failed)
               [] ~buf[b].freeze_start /\ e.pos = -1 -> Return(Memory, result(FALSE, <<>>))
               [] OTHER -> Return(Drain(m, b, e.len), result(TRUE, line))

Search(b, what, from) ==
    LET cs == Pieces(Memory, b)
        it == IF cs = <<>> THEN None(cs) ELSE ptr_add(cs, Start(cs), from)
    IN  /\ Calls("line") /\ Usable(b) /\ Keep
        /\ it.pos # -1
        /\ Return(Memory, [ok |-> TRUE, op |-> "search", b |-> b, what |-> what, from |-> from,
                           pos |-> evbuffer_search(cs, what, it).pos])

(* evbuffer_pullup, on which evbuffer_find rests. A careful caller does    *)
(* not pull up every byte while a read is in flight: the loop of the code  *)
(* goes on over empty chains, and frees the one that is read into.         *)
PullupSafe(b, n) ==
    IF Careful /\ io[b] # NoIO /\ n = buf[b].total_len THEN Off(Memory, buf[b].first) = n ELSE TRUE
Pullup(b, n) ==
    /\ Calls("line") /\ Usable(b) /\ Room(0) /\ Keep
    /\ PullupSafe(b, n)
    /\ \E r \in {pullup(Memory, b, n)} :
           IF ~r.ok THEN Return(r.m, Failed)
           ELSE Return(r.m, [ok |-> TRUE, op |-> "pullup", b |-> b, n |-> n,
                             data |-> SubSeq(r.m.heap[r.m.buf[b].first].data, 1, n)])

(* evbuffer_peek: whole chains until there are n bytes                     *)
Peek(b, n) ==
    LET l == ChainsOf(Memory, b)
        sum == Before(Memory, l)
        k == Cardinality({i \in DOMAIN l : sum[i - 1] < n})
    IN  /\ Calls("line") /\ Usable(b) /\ Keep
        /\ Return(Memory, [ok |-> TRUE, op |-> "peek", b |-> b,
                           data |-> Bytes(Memory, SubSeq(l, 1, k))])

(* evbuffer_add_buffer, evbuffer_prepend_buffer, evbuffer_remove_buffer    *)
MoveBuffer(src, dst, n, front) ==
    LET len == buf[src].total_len
        frozen == buf[src].freeze_start \/ IF front THEN buf[dst].freeze_start ELSE buf[dst].freeze_end
    IN  /\ Calls("move") /\ Usable(src) /\ Usable(dst) /\ Room(0) /\ Keep
        /\ len > 0 /\ n > 0
        /\ front => n >= len /\ PrependSafe(dst)
        /\ IF frozen THEN Return(Memory, Failed)
           ELSE Return(IF n >= len THEN MoveAll(Memory, src, dst, front)
                       ELSE remove_buffer(Memory, src, dst, n),
                       [ok |-> TRUE, op |-> "move", b |-> src, to |-> dst,
                        n |-> IF n >= len THEN len ELSE n, front |-> front])

Expand(b, n) ==
    /\ Calls("room") /\ Usable(b) /\ Room(0) /\ Keep
    /\ Return(expand_singlechain(Memory, b, n).m, Arranged)

(* evbuffer_reserve_space with one extent or with two                      *)
Reserve(b, n, k) ==
    LET single(one) ==
            [m |-> one.m,
             ext |-> <<[c |-> one.c, at |-> one.m.heap[one.c].misalign + Off(one.m, one.c),
                        len |-> Space(one.m, one.c)]>>]
        double(fast) == [m |-> fast, ext |-> setup_vecs(fast, b, n, 2, FALSE).vecs]
    IN  /\ Calls("room") /\ Usable(b) /\ Room(0) /\ vecs = NoVecs
        /\ ~buf[b].freeze_end
        /\ \E r \in {IF k = 1 THEN single(expand_singlechain(Memory, b, n))
                     ELSE double(expand_fast(Memory, b, n, 2))} :
             /\ Return(r.m, Arranged)
             /\ vecs' = IF Bad(r.m) THEN NoVecs ELSE [b |-> b, list |-> r.ext]
        /\ UNCHANGED io

(* evbuffer_commit_space: the first Len(ds) extents, with bytes ds[i] in   *)
(* the i-th. It refuses extents that are not where the buffer would write. *)
commit_space(m, b, ds) ==
    LET v == vecs.list
        last == m.buf[b].last
        isLast == Len(ds) = 1 /\ last # NULL /\ v[1].c = last
                  /\ v[1].at = m.heap[last].misalign + Off(m, last)
        c0 == LastWithData(m, b)
        link == IF Space(m, c0) = 0 THEN c0 ELSE m.buf[b].lwdp
        l == List(m, Deref(m, link))
        okay == /\ Len(l) >= Len(ds)
                /\ \A i \in DOMAIN ds : /\ v[i].c = l[i] /\ Len(ds[i]) <= Space(m, l[i])
                                        /\ v[i].at = m.heap[l[i]].misalign + Off(m, l[i])
        n == FoldLeft(LAMBDA s, d : s + Len(d), 0, ds)
        one == Write(m, last, ds[1])
        many == FoldLeft(LAMBDA x, i : LET y == Write(x, l[i], ds[i])
                                       IN  IF ds[i] = <<>> THEN y
                                           ELSE [y EXCEPT !.buf[b].lwdp = LinkAt(l, link, i - 1)],
                         m, [i \in DOMAIN ds |-> i])
    IN  CASE isLast -> [ok |-> TRUE, m |-> invoke_callbacks(Added(
                           IF n > 0 THEN advance_last_with_data(one, b) ELSE one, b, n), b)]
          [] ~isLast /\ okay -> [ok |-> TRUE, m |-> invoke_callbacks(Added(many, b, n), b)]
          [] OTHER -> [ok |-> FALSE, m |-> m]

Commit(ds) ==
    LET r == commit_space(Memory, vecs.b, ds)
        data == FoldLeft(LAMBDA s, d : s \o d, <<>>, ds)
    IN  /\ ~Bad(Memory) /\ vecs.list # <<>> /\ Len(ds) \in 1..Len(vecs.list)
        /\ \A i \in DOMAIN ds : Len(ds[i]) <= vecs.list[i].len
        /\ Room(Len(data))
        /\ Return(r.m, IF r.ok THEN Appended(vecs.b, data) ELSE Failed)
        /\ vecs' = NoVecs /\ UNCHANGED io

(* evbuffer_read: up to n bytes from a descriptor, which delivers d; on    *)
(* Windows at most two extents are offered.                                *)
evbuffer_read(m, b, n, d) ==
    LET s == setup_vecs(m, b, n, 2, TRUE)
        l == List(m, Deref(m, s.link))
        before[i \in 0..Len(s.vecs)] == IF i = 0 THEN 0 ELSE before[i - 1] + Space(m, l[i])
        k == CHOOSE i \in 1..Len(s.vecs) : before[i - 1] < Len(d) /\ Len(d) <= before[i]
        w == FoldLeft(LAMBDA x, i : Write(x, l[i], SubSeq(d, before[i - 1] + 1,
                                          IF i = k THEN Len(d) ELSE before[i])),
                      m, [i \in 1..k |-> i])
    IN  invoke_callbacks(Added([w EXCEPT !.buf[b].lwdp = LinkAt(l, s.link, k - 1)], b, Len(d)), b)
Read(b, n, d) ==
    LET offered(m) == FoldLeft(LAMBDA x, v : x + v.len, 0, setup_vecs(m, b, n, 2, TRUE).vecs)
    IN  /\ Calls("fd") /\ Usable(b) /\ Room(Len(d)) /\ Keep
        /\ ~buf[b].freeze_end
        /\ Len(d) \in 1..n
        /\ \E m \in {expand_fast(Memory, b, n, MAX_WSABUFS)} :
             IF Bad(m) THEN Return(m, Failed)
             ELSE Len(d) <= offered(m) /\ Return(evbuffer_read(m, b, n, d), Appended(b, d))

(* evbuffer_write_atmost: the first chains are offered, n bytes are taken. *)
WriteFd(b, atmost, n) ==
    LET l == ChainsOf(Memory, b)
        offered == Before(Memory, l)[IF Len(l) < MAX_WSABUFS THEN Len(l) ELSE MAX_WSABUFS]
    IN  /\ Calls("fd") /\ Usable(b) /\ Keep
        /\ ~buf[b].freeze_start
        /\ n \in 1..atmost /\ n <= offered
        /\ Return(Drain(Memory, b, n), Removed(b, evbuffer_copyout(Memory, b, n)))

-----------------------------------------------------------------------------
(* Overlapped operations: the chains are pinned while the system uses them *)

Freed(m, b) == m.buf[b].refcnt = 0

Pin(m, l, flag) ==
    [m EXCEPT !.heap = [c \in DOMAIN @ |-> IF \E i \in DOMAIN l : l[i] = c
                                           THEN [@[c] EXCEPT !.flags = @ \cup {flag}] ELSE @[c]]]
(* pin_release walks the chains from first; it reads next before it        *)
(* unpins, for a dangling chain is freed then.                             *)
pin_release(m, o, flag) ==
    FoldLeft(LAMBDA x, i : IF x.c = NULL THEN [x EXCEPT !.m = Assert_(@, FALSE)]
                           ELSE [m |-> unpin(x.m, x.c, flag), c |-> x.m.heap[x.c].next],
             [m |-> m, c |-> o.first], [i \in DOMAIN o.vecs |-> i]).m

(* evbuffer_launch_read; a system that refuses leaves the new room only.   *)
(* Every chain of the room is pinned, and nvecs counts those the read      *)
(* needs: when an earlier call made room for more, npin == nvecs fails.    *)
LaunchRead(n, accepted) ==
    /\ Calls("io") /\ Usable(In) /\ Room(n) /\ UNCHANGED vecs
    /\ ~buf[In].freeze_end /\ io[In] = NoIO
    /\ \E e \in {expand_fast(Memory, In, n, MAX_WSABUFS)} :
         LET v == setup_vecs(e, In, n, MAX_WSABUFS, TRUE)
             l == List(e, Deref(e, v.link))
             m == [Pin(e, l, "pinR") EXCEPT
                      !.buf[In].freeze_end = TRUE, !.buf[In].refcnt = @ + 1]
         IN  CASE Bad(e) -> Return(e, Failed) /\ UNCHANGED io
               [] ~Bad(e) /\ Len(l) # Len(v.vecs) ->
                    Return([e EXCEPT !.bad = "npin"], Failed) /\ UNCHANGED io
               [] ~Bad(e) /\ Len(l) = Len(v.vecs) /\ accepted ->
                    /\ Return(m, Arranged)
                    /\ io' = [io EXCEPT ![In] = [first |-> l[1], vecs |-> v.vecs]]
               [] OTHER -> Return(e, Arranged) /\ UNCHANGED io

(* evbuffer_commit_read looks for the chains from last_with_datap on.      *)
commit_read(m, d) ==
    LET b == In
        c0 == LastWithData(m, b)
        link == IF PinnedR(m, c0) THEN m.buf[b].lwdp ELSE c0
        l == List(m, Deref(m, link))
        v == io[b].vecs
        before[i \in 0..Len(v)] == IF i = 0 THEN 0 ELSE before[i - 1] + v[i].len
        used == {i \in DOMAIN v : before[i - 1] < Len(d)}
        w == FoldLeft(LAMBDA x, i :
                 [Write(x, l[i], SubSeq(d, before[i - 1] + 1,
                                        IF before[i] < Len(d) THEN before[i] ELSE Len(d)))
                     EXCEPT !.buf[b].lwdp = LinkAt(l, link, i - 1)],
                 m, [i \in 1..Cardinality(used) |-> i])
        n == pin_release([w EXCEPT !.buf[b].freeze_end = FALSE], io[b], "pinR")
    IN  IF c0 = NULL \/ (c0 # NULL /\ Cardinality(used) > Len(l)) THEN Assert_(m, FALSE)
        ELSE decref_and_unlock(invoke_callbacks(Added(n, b, Len(d)), b), b)
ReadCompletes(d) ==
    LET m == commit_read(Memory, d)
    IN
    /\ ~Bad(Memory) /\ io[In] # NoIO
    /\ Len(d) <= FoldLeft(LAMBDA x, v : x + v.len, 0, io[In].vecs)
    /\ Room(Len(d))
    /\ Return(m, IF Freed(m, In) THEN [ok |-> TRUE, op |-> "free", b |-> In] ELSE Appended(In, d))
    /\ io' = [io EXCEPT ![In] = NoIO] /\ UNCHANGED vecs

(* evbuffer_launch_write of at most n bytes from the front.                *)
LaunchWrite(n, accepted) ==
    LET b == Out
        at_most == IF n > buf[b].total_len THEN buf[b].total_len ELSE n
        l == ChainsOf(Memory, b)
        sum == Before(Memory, l)
        used == Cardinality({i \in DOMAIN l : i <= MAX_WSABUFS
                                              /\ \A j \in 1..i - 1 : sum[j] < at_most})
        v == [i \in 1..used |-> [c |-> l[i], at |-> heap[l[i]].misalign,
                                 len |-> IF sum[i] < at_most THEN Off(Memory, l[i])
                                         ELSE at_most - sum[i - 1]]]
        m == [Pin(Memory, SubSeq(l, 1, used), "pinW") EXCEPT
                 !.buf[b].freeze_start = TRUE, !.buf[b].refcnt = @ + 1]
    IN  /\ Calls("io") /\ Usable(b)
        /\ ~buf[b].freeze_start /\ io[b] = NoIO /\ buf[b].total_len > 0
        /\ UNCHANGED vecs
        /\ IF accepted THEN Return(m, Arranged) /\ io' = [io EXCEPT ![b] = [first |-> l[1], vecs |-> v]]
           ELSE Return(Memory, Failed) /\ UNCHANGED io

(* evbuffer_commit_write drains what was sent, then unpins.                *)
commit_write(m, n) ==
    LET b == Out
        d == Drain([m EXCEPT !.buf[b].freeze_start = FALSE], b, n)
    IN  decref_and_unlock(pin_release(d, io[b], "pinW"), b)
WriteCompletes(n) ==
    LET m == commit_write(Memory, n)
    IN
    /\ ~Bad(Memory) /\ io[Out] # NoIO
    /\ n <= FoldLeft(LAMBDA x, v : x + v.len, 0, io[Out].vecs)
    /\ Return(m, IF Freed(m, Out) THEN [ok |-> TRUE, op |-> "free", b |-> Out]
                 ELSE Removed(Out, evbuffer_copyout(Memory, Out, n)))
    /\ io' = [io EXCEPT ![Out] = NoIO] /\ UNCHANGED vecs

-----------------------------------------------------------------------------
(* The life of a buffer.                                                   *)

(* evbuffer_freeze and evbuffer_unfreeze; an operation in flight has       *)
(* frozen its end of the buffer already.                                   *)
Freeze(b, start) ==
    /\ Calls("freeze") /\ Usable(b) /\ Keep /\ io[b] = NoIO
    /\ Return(IF start THEN [Memory EXCEPT !.buf[b].freeze_start = ~@]
              ELSE [Memory EXCEPT !.buf[b].freeze_end = ~@], Arranged)

(* evbuffer_add_cb and evbuffer_remove_cb                                  *)
SetCallback(b) ==
    /\ Calls("cb") /\ Usable(b) /\ Keep
    /\ Return([Memory EXCEPT !.buf[b].cb = IF @ = "none" THEN "enabled" ELSE "none"], Arranged)

(* evbuffer_free drops the reference of the owner.                         *)
Free(b) ==
    LET m == decref_and_unlock([Memory EXCEPT !.buf[b].owned = FALSE], b)
    IN  /\ Calls("free") /\ Usable(b) /\ Keep
        /\ Return(m, IF Freed(m, b) THEN [ok |-> TRUE, op |-> "free", b |-> b] ELSE Arranged)

(* evbuffer_deferred_callback: the event loop runs the callbacks.          *)
DeferredCallback(b) ==
    LET m == decref_and_unlock(run_callbacks([Memory EXCEPT !.buf[b].queued = FALSE], b, TRUE), b)
    IN  /\ ~Bad(Memory) /\ buf[b].queued /\ Keep
        /\ Return(m, IF Freed(m, b) THEN [ok |-> TRUE, op |-> "free", b |-> b] ELSE Arranged)

Next ==
    \/ \E b \in Buffers :
         \/ \E d \in Chunks : Add(b, d) \/ AddPrintf(b, d) \/ Prepend(b, d)
         \/ \E n \in Sizes : Remove_(b, n) \/ Pullup(b, n) \/ Peek(b, n) \/ Expand(b, n)
         \/ \E style \in {"ANY", "CRLF", "STRICT", "LF"} : ReadLine(b, style)
         \/ \E from \in Sizes \cup {0} : Search(b, <<"r", "n">>, from)
         \/ \E n \in Sizes, k \in 1..2 : Reserve(b, n, k)
         \/ \E n \in Sizes, d \in Chunks : Read(b, n, d)
         \/ \E n \in Sizes, k \in Sizes : WriteFd(b, n, k)
         \/ \E start \in BOOLEAN : Freeze(b, start)
         \/ SetCallback(b)
         \/ Free(b)
         \/ DeferredCallback(b)
    \/ \E src, dst \in Buffers, n \in Sizes, front \in BOOLEAN :
         src # dst /\ MoveBuffer(src, dst, n, front)
    \/ \E d, e \in Chunks \cup {<<>>} : Commit(<<d>>) \/ Commit(<<d, e>>)
    \/ \E n \in Sizes, accepted \in BOOLEAN : LaunchRead(n, accepted) \/ LaunchWrite(n, accepted)
    \/ \E d \in Chunks \cup {<<>>} : ReadCompletes(d)
    \/ \E n \in Sizes \cup {0} : WriteCompletes(n)

Spec == Init /\ [][Next]_vars

-----------------------------------------------------------------------------
(* Properties.                                                             *)

InOrder == \A b \in Buffers : ~Behind(Memory, b)

(* Whatever is called, the structure the functions rely on holds: the      *)
(* chains of a buffer end in last, no two buffers share one,               *)
(* last_with_datap is a link of the same buffer, the bytes lie inside of   *)
(* their chains and total_len counts them; every chain belongs to a buffer *)
(* or dangles under an operation. The references are the owner, the queued *)
(* callback and the operation in flight, and changes not yet reported are  *)
(* queued to be. last_with_datap is where it should be, and no assertion   *)
(* but npin == nvecs of evbuffer_launch_read fails, unless an addition has *)
(* filled a chain past the one that last_with_datap leads to.              *)
StructureOK ==
    LET own(b) == ChainsOf(Memory, b)
    IN  /\ ~behind => bad # "other" /\ InOrder
        /\ \A b \in Buffers :
             /\ (IF own(b) = <<>> THEN NULL ELSE Last(own(b))) = buf[b].last
             /\ buf[b].lwdp \in {b} \cup ToSet(own(b))
             /\ buf[b].total_len = Len(Content(Memory, b))
             /\ buf[b].refcnt = Cardinality({x \in {"user", "queue", "io"} :
                    CASE x = "user" -> buf[b].owned [] x = "queue" -> buf[b].queued
                      [] OTHER -> io[b] # NoIO})
             /\ buf[b].n_add + buf[b].n_del > 0 => buf[b].queued
             /\ buf[b].refcnt = 0 => own(b) = <<>>
        /\ ToSet(own(In)) \cap ToSet(own(Out)) = {}
        /\ \A c \in DOMAIN heap :
             /\ heap[c].misalign >= 0 /\ heap[c].misalign + Len(heap[c].data) <= heap[c].len
             /\ \/ c \in ToSet(own(In)) \cup ToSet(own(Out))
                \/ "dangling" \in heap[c].flags /\ Pinned(Memory, c)

(* The memory handed to the system by an overlapped operation stays        *)
(* allocated and pinned, a read goes behind the bytes of the chain where   *)
(* evbuffer_commit_read will look for them, and a write sees the bytes     *)
(* that were there when it was launched.                                   *)
KernelMemory ==
    LET c0 == LastWithData(Memory, In)
        link == IF c0 = NULL \/ PinnedR(Memory, c0) THEN buf[In].lwdp ELSE c0
        where == List(Memory, Deref(Memory, link))
    IN  \A b \in Buffers : \A i \in DOMAIN io[b].vecs :
         LET v == io[b].vecs[i]
         IN  /\ v.c \in DOMAIN heap
             /\ IF b = In THEN /\ PinnedR(Memory, v.c) /\ i \in DOMAIN where /\ where[i] = v.c
                                 /\ heap[v.c].misalign + Len(heap[v.c].data) = v.at
                                 /\ v.at + v.len <= heap[v.c].len
                ELSE /\ "pinW" \in heap[v.c].flags
                     /\ heap[v.c].misalign = v.at /\ v.len <= Len(heap[v.c].data)

(* The functions do to the bytes what their names say: every call on       *)
(* buffers whose last_with_datap is where it should be is a step of the    *)
(* queues of bytes of ByteQueue.                                           *)
Queue == INSTANCE ByteQueue WITH
             content <- [b \in Buffers |-> Content(Memory, b)], call <- call
Implements == Queue!Init /\ [][InOrder => Queue!Next]_Queue!vars

(* What the header promises without a condition, and the code does not     *)
(* keep: evbuffer_add or evbuffer_add_reference after the evbuffer_expand  *)
(* that buffer.h (lines 46-49) recommends leaves last_with_datap behind,   *)
(* and a later evbuffer_add_printf or read puts its bytes in front; and    *)
(* evbuffer_launch_read asserts that no earlier call made more room.       *)
AlwaysAQueue == Queue!Spec
LaunchReadAsserts == bad # "npin"

=============================================================================
