--------------------------- MODULE ListenerProofs ---------------------------
(***************************************************************************)
(* The connection listener for any number of accepting sockets, of         *)
(* connections and of calls, in any order and from both threads: IInv of   *)
(* module Listener is inductive.  The lemmas are about the operators on    *)
(* the record g of the listener, its sockets and their queue; the actions  *)
(* apply them.                                                             *)
(***************************************************************************)
EXTENDS Listener, FiniteSetTheorems, SequenceTheorems, TLAPS

USE ListenerAssumption

(* What the functions that only stop, start or schedule leave alone. *)
Same(g, h) ==
    /\ h.lev.refcnt = g.lev.refcnt
    /\ h.lev.freed <=> g.lev.freed
    /\ h.lev.user <=> g.lev.user
    /\ \A a \in Accepting : h.as[a].freed <=> g.as[a].freed

LEMMA SameTrans ==
  ASSUME NEW f, NEW g, NEW h, Same(f, g), Same(g, h) PROVE Same(f, h)
BY DEF Same

LEMMA SameCounted ==
  ASSUME NEW g, NEW h, NEW n, Counted(g, n), Same(g, h) PROVE Counted(h, n)
<1>1. {a \in Accepting : ~h.as[a].freed} = {a \in Accepting : ~g.as[a].freed}
  BY DEF Same
<1>2. Owners(h) = Owners(g)
  BY <1>1 DEF Owners, Same
<1> QED
  BY <1>2 DEF Counted, Same

(* Setting a field of the record. *)
LEMMA SetLev ==
  ASSUME NEW g \in GlobalState, NEW l \in LevState
  PROVE  LET h == [g EXCEPT !.lev = l]
         IN  h \in GlobalState /\ h.lev = l /\ h.as = g.as /\ h.deferred = g.deferred
BY DEF GlobalState

LEMMA SetAs ==
  ASSUME NEW g \in GlobalState, NEW f \in [Accepting -> AsState]
  PROVE  LET h == [g EXCEPT !.as = f]
         IN  h \in GlobalState /\ h.lev = g.lev /\ h.as = f /\ h.deferred = g.deferred
BY DEF GlobalState

LEMMA SetDeferred ==
  ASSUME NEW g \in GlobalState, NEW q \in Seq(Accepting)
  PROVE  LET h == [g EXCEPT !.deferred = q]
         IN  h \in GlobalState /\ h.lev = g.lev /\ h.as = g.as /\ h.deferred = q
BY DEF GlobalState

(* What keeps a socket going is seen in the record field by field. *)
LEMMA WorksFields ==
  ASSUME NEW g, NEW h, NEW r, Works(g, r),
         h.lev.user => /\ g.lev.user /\ (h.lev.enabled <=> g.lev.enabled)
                       /\ (h.lev.cb => g.lev.cb)
                       /\ (h.lev.event_added <=> g.lev.event_added),
         h.as = g.as, h.deferred = g.deferred
  PROVE  Works(h, r)
BY DEF Works, SocketWorks

-----------------------------------------------------------------------------
(* Stopping. *)

LEMMA StoppedOK ==
  ASSUME NEW s \in AsState, NEW shutdown \in BOOLEAN
  PROVE  LET t == stop_accepting(s, shutdown)
         IN  /\ t \in AsState /\ (t.freed <=> s.freed)
             /\ ~shutdown /\ ~s.free_on_cb /\ ~s.freed => ~t.free_on_cb /\ t.s = "invalid"
<1>1. CASE s.free_on_cb \/ s.s = "invalid" \/ s.freed
  BY <1>1 DEF stop_accepting, AsState
<1>2. CASE ~(s.free_on_cb \/ s.s = "invalid" \/ s.freed)
  <2> DEFINE n == IF s.s = "pending" THEN s.failed + 1 ELSE s.failed
             t == [s EXCEPT !.s = "invalid", !.free_on_cb = shutdown, !.failed = n]
  <2>1. stop_accepting(s, shutdown) = t
    BY <1>2 DEF stop_accepting, AsState
  <2>2. n \in Nat
    BY DEF AsState
  <2> HIDE DEF n
  <2>3. t \in AsState /\ t.freed = s.freed /\ t.free_on_cb = shutdown /\ t.s = "invalid"
    BY <2>2 DEF AsState, SocketStates
  <2> QED
    BY <2>1, <2>3
<1> QED
  BY <1>1, <1>2

LEMMA DisableImplOK ==
  ASSUME NEW g \in GlobalState, NEW shutdown \in BOOLEAN
  PROVE  LET h == DisableImpl(g, shutdown)
         IN  /\ h \in GlobalState /\ Same(g, h) /\ h.deferred = g.deferred
             /\ h.lev.enabled = g.lev.enabled
             /\ h.as = [a \in Accepting |-> stop_accepting(g.as[a], shutdown)]
<1> DEFINE l == [iocp_listener_event_del(g.lev) EXCEPT
                         !.open = @ /\ ~(shutdown /\ g.lev.close_on_free)]
           f == [a \in Accepting |-> stop_accepting(g.as[a], shutdown)]
           h == [g EXCEPT !.lev = l, !.as = f]
<1>0. g.lev \in LevState /\ g.as \in [Accepting -> AsState] /\ g.deferred \in Seq(Accepting)
  BY DEF GlobalState
<1>1. DisableImpl(g, shutdown) = h
  BY DEF DisableImpl
<1>2. /\ l \in LevState /\ l.refcnt = g.lev.refcnt /\ l.enabled = g.lev.enabled
      /\ l.freed = g.lev.freed /\ l.user = g.lev.user
  BY <1>0 DEF iocp_listener_event_del, LevState
<1>3. f \in [Accepting -> AsState] /\ \A a \in Accepting : f[a].freed <=> g.as[a].freed
  BY <1>0, StoppedOK
<1> HIDE DEF l
<1>4. h \in GlobalState /\ h.lev = l /\ h.as = f /\ h.deferred = g.deferred
  BY <1>0, <1>2, <1>3 DEF GlobalState
<1> HIDE DEF h
<1>5. Same(g, h)
  BY <1>2, <1>3, <1>4 DEF Same
<1> QED
  BY <1>1, <1>2, <1>4, <1>5

LEMMA DestroyOK ==
  ASSUME NEW g \in GlobalState
  PROVE  Destroy(g) \in GlobalState /\ Same(g, Destroy(g))
<1>0. g.lev \in LevState
  BY DEF GlobalState
<1>1. CASE kind = "iocp" /\ g.lev.shutting_down
  BY <1>1 DEF Destroy, iocp_listener_destroy, Same
<1>2. CASE kind = "iocp" /\ ~g.lev.shutting_down
  <2> DEFINE l == [g.lev EXCEPT !.shutting_down = TRUE]
             g1 == [g EXCEPT !.lev = l]
  <2>1. /\ l \in LevState /\ l.refcnt = g.lev.refcnt /\ l.freed = g.lev.freed
        /\ l.user = g.lev.user
    BY <1>0 DEF LevState
  <2>2. Destroy(g) = DisableImpl(g1, TRUE)
    BY <1>2 DEF Destroy, iocp_listener_destroy
  <2> HIDE DEF l
  <2>3. g1 \in GlobalState /\ Same(g, g1)
    BY <2>1, SetLev DEF Same
  <2> HIDE DEF g1
  <2> QED
    BY <2>2, <2>3, DisableImplOK, SameTrans
<1>3. CASE kind # "iocp"
  <2> DEFINE l == [g.lev EXCEPT !.event_added = FALSE,
                                !.open = @ /\ ~g.lev.close_on_free]
  <2>1. /\ l \in LevState /\ l.refcnt = g.lev.refcnt /\ l.freed = g.lev.freed
        /\ l.user = g.lev.user
    BY <1>0 DEF LevState
  <2>2. Destroy(g) = [g EXCEPT !.lev = l]
    BY <1>0, <1>3 DEF Destroy, event_listener_destroy, GlobalState
  <2> HIDE DEF l
  <2> QED
    BY <2>1, <2>2, SetLev DEF Same
<1> QED
  BY <1>1, <1>2, <1>3

-----------------------------------------------------------------------------
(* References. *)

(* The owners of a listener are a number. *)
LEMMA OwnersNat ==
  ASSUME NEW g
  PROVE  /\ Owners(g) \in Nat
         /\ Owners(g) = 0 => \A a \in Accepting : g.as[a].freed
         /\ Owners(g) = 0 => ~g.lev.user
<1> DEFINE S == {a \in Accepting : ~g.as[a].freed}
<1>1. IsFiniteSet(S)
  BY FS_Subset
<1>2. Cardinality(S) \in Nat /\ (Cardinality(S) = 0 <=> S = {})
  BY <1>1, FS_CardinalityType, FS_EmptySet
<1> QED
  BY <1>2 DEF Owners

(* listener_decref_and_unlock, for a holder that is counted no more. *)
LEMMA DecrefOK ==
  ASSUME NEW g \in GlobalState, NEW e \in {0, 1},
         g.lev.refcnt = Owners(g) + e + 1, ~g.lev.freed
  PROVE  LET h == listener_decref_and_unlock(g)
         IN  /\ h \in GlobalState /\ Counted(h, e)
             /\ h.lev.user <=> g.lev.user
             /\ \A a \in Accepting : h.as[a].freed <=> g.as[a].freed
             /\ \A r : Works(g, r) => Works(h, r)
             /\ h.lev.freed => ~g.lev.user
<1> DEFINE l == [g.lev EXCEPT !.refcnt = @ - 1]
           g1 == [g EXCEPT !.lev = l]
<1>0. g.lev \in LevState /\ g.lev.refcnt \in Nat
  BY DEF GlobalState, LevState
<1>o. Owners(g) \in Nat /\ (Owners(g) = 0 => ~g.lev.user)
  BY OwnersNat, Zenon
<1>1. g.lev.refcnt - 1 \in Nat /\ g.lev.refcnt - 1 = Owners(g) + e
  BY <1>0, <1>o
<1>2. /\ l \in LevState /\ l.refcnt = Owners(g) + e /\ l.freed = g.lev.freed
      /\ l.user = g.lev.user /\ l.enabled = g.lev.enabled /\ l.cb = g.lev.cb
      /\ l.event_added = g.lev.event_added
  BY <1>0, <1>1 DEF LevState
<1>3. listener_decref_and_unlock(g) =
         IF g1.lev.refcnt = 0 THEN [Destroy(g1) EXCEPT !.lev.freed = TRUE] ELSE g1
  BY <1>0 DEF listener_decref_and_unlock, GlobalState
<1> HIDE DEF l
<1>4. g1 \in GlobalState /\ g1.lev = l /\ g1.as = g.as /\ g1.deferred = g.deferred
  BY <1>2, SetLev
<1> HIDE DEF g1
<1>5. Owners(g1) = Owners(g)
  BY <1>2, <1>4 DEF Owners
<1>6. CASE g1.lev.refcnt = 0
  <2> DEFINE d == Destroy(g1)
             h == [d EXCEPT !.lev.freed = TRUE]
  <2>1. Owners(g) = 0 /\ e = 0 /\ ~g.lev.user
    BY <1>2, <1>4, <1>6, <1>o
  <2>2. d \in GlobalState /\ Same(g1, d)
    BY <1>4, DestroyOK
  <2> HIDE DEF d
  <2> DEFINE m == [d.lev EXCEPT !.freed = TRUE]
  <2>3. d.lev \in LevState
    BY <2>2 DEF GlobalState
  <2>4. m \in LevState /\ m.refcnt = d.lev.refcnt /\ m.freed /\ m.user = d.lev.user
    BY <2>3 DEF LevState
  <2>5. h = [d EXCEPT !.lev = m]
    BY <2>2 DEF GlobalState
  <2> HIDE DEF m, h
  <2>6. h \in GlobalState /\ h.lev = m /\ h.as = d.as
    BY <2>2, <2>4, <2>5, SetLev
  <2>7. /\ h.lev.refcnt = 0 /\ h.lev.freed
        /\ h.lev.user <=> g.lev.user
        /\ \A a \in Accepting : h.as[a].freed <=> g.as[a].freed
    BY <1>2, <1>4, <1>6, <2>2, <2>4, <2>6 DEF Same
  <2>8. {a \in Accepting : ~h.as[a].freed} = {a \in Accepting : ~g.as[a].freed}
    BY <2>7
  <2>9. Owners(h) = Owners(g)
    BY <2>7, <2>8 DEF Owners
  <2>10. Counted(h, e)
    BY <2>1, <2>7, <2>9 DEF Counted
  <2>11. \A r : Works(h, r)
    BY <2>1, <2>7 DEF Works
  <2>12. listener_decref_and_unlock(g) = h
    BY <1>3, <1>6 DEF h, d
  <2> QED
    BY <2>1, <2>6, <2>7, <2>10, <2>11, <2>12
<1>7. CASE g1.lev.refcnt # 0
  <2>1. Counted(g1, e)
    BY <1>2, <1>4, <1>5, <1>7 DEF Counted
  <2>2. \A r : Works(g, r) => Works(g1, r)
    BY <1>2, <1>4, WorksFields
  <2>3. listener_decref_and_unlock(g) = g1
    BY <1>3, <1>7
  <2> QED
    BY <1>2, <1>4, <2>1, <2>2, <2>3
<1> QED
  BY <1>6, <1>7

(* free_and_unlock_accepting_socket takes its reference with it. *)
LEMMA FreeAcceptingOK ==
  ASSUME NEW g \in GlobalState, NEW a \in Accepting, NEW r, Works(g, r), kind = "iocp",
         NEW e \in {0, 1}, Counted(g, e), ~g.as[a].freed, g.as[a].free_on_cb
  PROVE  LET h == FreeAccepting(g, a)
         IN  /\ h \in GlobalState /\ Counted(h, e) /\ Works(h, r)
             /\ h.lev.user <=> g.lev.user
             /\ \A b \in Accepting : g.as[b].freed => h.as[b].freed
<1> DEFINE s2 == [g.as[a] EXCEPT !.freed = TRUE, !.s = "invalid"]
           f == [g.as EXCEPT ![a] = s2]
           g1 == [g EXCEPT !.as = f]
           S == {b \in Accepting : ~g.as[b].freed}
<1>0. g.as \in [Accepting -> AsState] /\ g.lev \in LevState
  BY DEF GlobalState
<1>1. FreeAccepting(g, a) = listener_decref_and_unlock(g1)
  BY <1>0 DEF FreeAccepting, GlobalState
<1>2. s2 \in AsState /\ s2.freed
  BY <1>0 DEF AsState, SocketStates
<1>3. f \in [Accepting -> AsState] /\ f[a] = s2 /\ \A b \in Accepting \ {a} : f[b] = g.as[b]
  BY <1>0, <1>2
<1> HIDE DEF s2, f
<1>4. g1 \in GlobalState /\ g1.lev = g.lev /\ g1.as = f /\ g1.deferred = g.deferred
  BY <1>3, SetAs
<1> HIDE DEF g1
<1>5. ~g.lev.user /\ Works(g1, r)
  BY <1>4 DEF Works, SocketWorks
<1>6. {b \in Accepting : ~g1.as[b].freed} = S \ {a} /\ a \in S
  BY <1>2, <1>3, <1>4
<1>7. IsFiniteSet(S)
  BY FS_Subset
<1>8. Cardinality(S \ {a}) = Cardinality(S) - 1 /\ Cardinality(S) \in Nat
  BY <1>6, <1>7, FS_RemoveElement, FS_CardinalityType
<1>9. Owners(g1) = Owners(g) - 1
  <2>1. Owners(g) = (IF g.lev.user THEN 1 ELSE 0) + Cardinality(S)
    BY DEF Owners
  <2>2. Owners(g1) = (IF g1.lev.user THEN 1 ELSE 0) + Cardinality(S \ {a})
    BY <1>6 DEF Owners
  <2> QED
    BY <1>4, <1>8, <2>1, <2>2
<1>10. Owners(g1) \in Nat /\ Owners(g) \in Nat
  BY OwnersNat, Zenon
<1>11. Owners(g) = Owners(g1) + 1
  BY <1>9, <1>10
<1>12. g1.lev.refcnt = Owners(g1) + e + 1 /\ ~g1.lev.freed
  BY <1>4, <1>10, <1>11 DEF Counted
<1>13. LET h == listener_decref_and_unlock(g1)
       IN  /\ h \in GlobalState /\ Counted(h, e) /\ Works(h, r)
           /\ h.lev.user <=> g1.lev.user
           /\ \A b \in Accepting : h.as[b].freed <=> g1.as[b].freed
  BY <1>4, <1>5, <1>12, DecrefOK
<1>14. \A b \in Accepting : g.as[b].freed => g1.as[b].freed
  BY <1>2, <1>3, <1>4
<1> QED
  BY <1>1, <1>4, <1>13, <1>14

-----------------------------------------------------------------------------
(* Scheduling and starting. *)

(* The elements of a finite set in a sequence, and one behind a queue. *)
LEMMA SetToSeqOK ==
  ASSUME NEW T \in SUBSET Accepting
  PROVE  /\ SetToSeq(T) \in Seq(Accepting)
         /\ \A a \in T : Contains(SetToSeq(T), a)
<1> DEFINE q == SetToSeq(T)
           n == Cardinality(T)
<1>1. n \in Nat /\ ExistsBijection(1..n, T) /\ IsFiniteSet(T)
  BY FS_Subset, FS_CardinalityType
<1>2. \E f \in [1..n -> T] : IsInjective(f)
  BY <1>1 DEF ExistsBijection, Bijection, Injection
<1>3. q \in [1..n -> T] /\ IsInjective(q)
  BY <1>2 DEF SetToSeq
<1>4. q \in Seq(Accepting) /\ Len(q) = n
  BY <1>1, <1>3
<1> HIDE DEF q
<1>5. q \in Injection(1..n, T)
  BY <1>3 DEF Injection, IsInjective
<1>6. IsFiniteSet(1..n) /\ Cardinality(1..n) = n
  BY <1>1, FS_Interval
<1>7. q \in Surjection(1..n, T)
  BY <1>1, <1>5, <1>6, FS_Injection
<1> QED
  BY <1>4, <1>7 DEF Surjection, Contains, q

LEMMA ConcatContains ==
  ASSUME NEW p \in Seq(Accepting), NEW q \in Seq(Accepting), NEW a,
         Contains(p, a) \/ Contains(q, a)
  PROVE  p \o q \in Seq(Accepting) /\ Contains(p \o q, a)
<1>1. /\ p \o q \in Seq(Accepting) /\ Len(p \o q) = Len(p) + Len(q)
      /\ Len(p) \in Nat /\ Len(q) \in Nat
      /\ \A i \in 1..(Len(p) + Len(q)) :
            (p \o q)[i] = IF i <= Len(p) THEN p[i] ELSE q[i - Len(p)]
  BY ConcatProperties
<1>2. CASE Contains(p, a)
  BY <1>1, <1>2 DEF Contains
<1>3. CASE Contains(q, a)
  <2>1. PICK i \in 1..Len(q) : q[i] = a
    BY <1>3 DEF Contains
  <2>2. i + Len(p) \in 1..Len(p \o q) /\ (p \o q)[i + Len(p)] = a
    BY <1>1, <2>1
  <2> QED
    BY <1>1, <2>2 DEF Contains
<1> QED
  BY <1>2, <1>3

(* event_deferred_cb_schedule: the socket is in the queue, and who was is. *)
LEMMA ScheduleOK ==
  ASSUME NEW g \in GlobalState, NEW a \in Accepting
  PROVE  LET h == Schedule(g, a)
         IN  /\ h \in GlobalState /\ h.lev = g.lev /\ h.as = g.as /\ Same(g, h)
             /\ Contains(h.deferred, a)
             /\ \A b : Contains(g.deferred, b) => Contains(h.deferred, b)
<1>0. g.deferred \in Seq(Accepting)
  BY DEF GlobalState
<1>1. CASE Contains(g.deferred, a)
  BY <1>1 DEF Schedule, Same
<1>2. CASE ~Contains(g.deferred, a)
  <2> DEFINE q == Append(g.deferred, a)
             h == [g EXCEPT !.deferred = q]
  <2>1. Schedule(g, a) = h
    BY <1>2 DEF Schedule
  <2>2. /\ q \in Seq(Accepting) /\ Len(q) = Len(g.deferred) + 1
        /\ \A i \in 1..Len(g.deferred) : q[i] = g.deferred[i]
        /\ q[Len(q)] = a /\ Len(g.deferred) \in Nat
    BY <1>0
  <2> HIDE DEF q
  <2>3. Contains(q, a) /\ \A b : Contains(g.deferred, b) => Contains(q, b)
    BY <2>2 DEF Contains
  <2>4. h \in GlobalState /\ h.lev = g.lev /\ h.as = g.as /\ h.deferred = q
    BY <2>2, SetDeferred
  <2> HIDE DEF h
  <2>5. Same(g, h)
    BY <2>4 DEF Same
  <2> QED
    BY <2>1, <2>3, <2>4, <2>5
<1> QED
  BY <1>1, <1>2

(* One accepting socket and the outcome of start_accepting for it. *)
LEMMA StartedOK ==
  ASSUME NEW s \in AsState, NEW o \in Outcomes
  PROVE  LET t == Started(s, o)
         IN  /\ t \in AsState /\ t.freed = s.freed /\ t.free_on_cb = s.free_on_cb
             /\ o = "pending" => t.s = "pending"
             /\ o = "success" => t.ok > 0
             /\ o = "refused" => t.refused
<1>1. CASE o = "nosocket" \/ o = "refused"
  BY <1>1 DEF Started, AsState, Outcomes
<1>2. CASE o \in {"pending", "success", "error"}
  <2> DEFINE u == CASE o = "pending" -> "pending"
                    [] o = "success" -> "connected"
                    [] OTHER -> "broken"
             ok == IF o = "success" THEN s.ok + 1 ELSE s.ok
             strays == IF s.s = "pending" THEN s.strays + 1 ELSE s.strays
             error == s.error \/ o = "error"
             t == [s EXCEPT !.s = u, !.ok = ok, !.strays = strays,
                            !.error = error, !.refused = FALSE]
  <2>1. s.ok \in Nat /\ s.strays \in Nat /\ s.error \in BOOLEAN
    BY DEF AsState
  <2>2. u \in SocketStates /\ ok \in Nat /\ strays \in Nat /\ error \in BOOLEAN
    BY <1>2, <2>1 DEF SocketStates
  <2>3. (o = "pending" => u = "pending") /\ (o = "success" => ok > 0)
    BY <2>1
  <2>4. Started(s, o) = t
    BY <1>2 DEF Started, AcceptEx, AsState
  <2> HIDE DEF u, ok, strays, error
  <2>5. /\ t \in AsState /\ t.freed = s.freed /\ t.free_on_cb = s.free_on_cb
        /\ t.s = u /\ t.ok = ok
    BY <2>2 DEF AsState
  <2> QED
    BY <1>2, <2>3, <2>4, <2>5
<1> QED
  BY <1>1, <1>2 DEF Outcomes

LEMMA StartAcceptingOK ==
  ASSUME NEW g \in GlobalState, NEW S \in SUBSET Accepting,
         NEW outcome, \A a \in S : outcome[a] \in Outcomes
  PROVE  LET h == start_accepting(g, S, outcome)
         IN  /\ h \in GlobalState /\ Same(g, h)
             /\ h.lev.enabled = g.lev.enabled /\ h.lev.cb = g.lev.cb
             /\ h.lev.event_added = g.lev.event_added
             /\ \A a \in Accepting : h.as[a].free_on_cb = g.as[a].free_on_cb
             /\ \A a \in Accepting \ S : h.as[a] = g.as[a]
             /\ \A a : Contains(g.deferred, a) => Contains(h.deferred, a)
             /\ g.lev.enabled =>
                  \A a \in S : \/ h.as[a].s = "pending" \/ h.as[a].ok > 0
                               \/ h.as[a].refused \/ Contains(h.deferred, a)
             /\ g.lev.enabled =>
                  \A a \in S : \/ outcome[a] \in {"pending", "refused"}
                               \/ Contains(h.deferred, a)
             /\ ~g.lev.enabled => h = g
<1>0. /\ g.as \in [Accepting -> AsState] /\ g.deferred \in Seq(Accepting)
      /\ g.lev \in LevState /\ g.lev.enabled \in BOOLEAN
  BY DEF GlobalState, LevState
<1>1. CASE ~g.lev.enabled
  BY <1>1 DEF start_accepting, Same
<1>2. CASE g.lev.enabled
  <2> DEFINE f == [a \in Accepting |->
                      IF a \in S THEN Started(g.as[a], outcome[a]) ELSE g.as[a]]
             T == {a \in S : /\ outcome[a] \notin {"refused", "pending"}
                             /\ ~Contains(g.deferred, a)}
             q == SetToSeq(T)
             N == {a \in S : outcome[a] = "success"}
             n == g.lev.accepted + Cardinality(N)
             l == [g.lev EXCEPT !.accepted = n]
             h == [g EXCEPT !.as = f, !.lev = l, !.deferred = @ \o q]
  <2>1. start_accepting(g, S, outcome) = h
    BY <1>0, <1>2 DEF start_accepting, GlobalState
  <2>2. n \in Nat
    <3>1. Cardinality(N) \in Nat
      BY FS_Subset, FS_CardinalityType
    <3> HIDE DEF N
    <3> QED
      BY <1>0, <3>1 DEF LevState
  <2> HIDE DEF n
  <2>3. /\ l \in LevState /\ l.refcnt = g.lev.refcnt /\ l.freed = g.lev.freed
        /\ l.user = g.lev.user /\ l.enabled = g.lev.enabled /\ l.cb = g.lev.cb
        /\ l.event_added = g.lev.event_added
    BY <1>0, <2>2 DEF LevState
  <2>4. /\ f \in [Accepting -> AsState]
        /\ \A a \in Accepting : f[a].freed = g.as[a].freed
                                /\ f[a].free_on_cb = g.as[a].free_on_cb
        /\ \A a \in Accepting \ S : f[a] = g.as[a]
        /\ \A a \in S : /\ outcome[a] = "pending" => f[a].s = "pending"
                        /\ outcome[a] = "success" => f[a].ok > 0
                        /\ outcome[a] = "refused" => f[a].refused
    BY <1>0, StartedOK
  <2>5. q \in Seq(Accepting) /\ \A a \in T : Contains(q, a)
    <3>1. T \in SUBSET Accepting
      OBVIOUS
    <3> HIDE DEF T
    <3> QED
      BY <3>1, SetToSeqOK
  <2> HIDE DEF f, q, l
  <2>6. g.deferred \o q \in Seq(Accepting)
    BY <1>0, <2>5
  <2>7. h \in GlobalState /\ h.lev = l /\ h.as = f /\ h.deferred = g.deferred \o q
    BY <2>3, <2>4, <2>6 DEF GlobalState
  <2> HIDE DEF h
  <2>8. Same(g, h)
    BY <2>3, <2>4, <2>7 DEF Same
  <2>9. \A a : Contains(g.deferred, a) \/ Contains(q, a) => Contains(h.deferred, a)
    BY <1>0, <2>5, <2>7, ConcatContains
  <2>10. \A a \in S : outcome[a] \in {"pending", "refused"} \/ Contains(h.deferred, a)
    BY <2>5, <2>9
  <2>11. \A a \in S : \/ h.as[a].s = "pending" \/ h.as[a].ok > 0
                      \/ h.as[a].refused \/ Contains(h.deferred, a)
    BY <2>4, <2>7, <2>10
  <2> HIDE DEF T
  <2> QED
    BY <1>2, <2>1, <2>3, <2>4, <2>7, <2>8, <2>9, <2>10, <2>11
<1> QED
  BY <1>0, <1>1, <1>2

(* ops->enable starts the closed sockets, so that all of them work, if all *)
(* the others did.                                                         *)
LEMMA EnabledOK ==
  ASSUME NEW g \in GlobalState, kind \in {"event", "iocp"}, NEW r, NEW outcome,
         \A a \in Accepting : outcome[a] \in Outcomes,
         g.lev.user /\ kind = "iocp" =>
            \A a \in Accepting :
               /\ ~g.as[a].freed /\ ~g.as[a].free_on_cb
               /\ g.as[a].s # "invalid" => SocketWorks(g, a, r)
  PROVE  LET h == Enabled(g, outcome)
         IN  h \in GlobalState /\ Same(g, h) /\ Works(h, r)
<1> DEFINE l == [g.lev EXCEPT !.enabled = TRUE]
           g1 == [g EXCEPT !.lev = l]
           m == [l EXCEPT !.event_added = TRUE]
           g2 == [g EXCEPT !.lev = m]
<1>0. g.lev \in LevState /\ g.lev.cb \in BOOLEAN
  BY DEF GlobalState, LevState
<1>1. /\ l \in LevState /\ l.refcnt = g.lev.refcnt /\ l.freed = g.lev.freed
      /\ l.user = g.lev.user /\ l.enabled /\ l.cb = g.lev.cb
  BY <1>0 DEF LevState
<1>2. /\ m \in LevState /\ m.refcnt = g.lev.refcnt /\ m.freed = g.lev.freed
      /\ m.user = g.lev.user /\ m.enabled /\ m.event_added /\ m.cb = g.lev.cb
  BY <1>0 DEF LevState
<1>3. [g1 EXCEPT !.lev.event_added = TRUE] = g2 /\ [g1 EXCEPT !.lev = iocp_listener_event_add(@)] = g2
  BY <1>0 DEF GlobalState, iocp_listener_event_add
<1>4. g1 = [g EXCEPT !.lev.enabled = TRUE]
  BY <1>0 DEF GlobalState
<1> HIDE DEF l, m
<1>5. g1 \in GlobalState /\ g1.lev = l /\ g1.as = g.as /\ g1.deferred = g.deferred /\ Same(g, g1)
  BY <1>1, SetLev DEF Same
<1>6. g2 \in GlobalState /\ g2.lev = m /\ g2.as = g.as /\ g2.deferred = g.deferred /\ Same(g, g2)
  BY <1>2, SetLev DEF Same
<1>7. Enabled(g, outcome) =
         CASE ~g.lev.cb -> g1
           [] g.lev.cb /\ kind = "iocp" -> iocp_listener_enable(g1, outcome)
           [] g.lev.cb /\ kind = "event" -> [g1 EXCEPT !.lev.event_added = TRUE]
  BY <1>4 DEF Enabled
<1> HIDE DEF g1, g2
<1>8. CASE ~g.lev.cb
  <2>1. Enabled(g, outcome) = g1
    BY <1>7, <1>8
  <2>2. Works(g1, r)
    BY <1>1, <1>5, <1>8 DEF Works, SocketWorks
  <2> QED
    BY <2>1, <2>2, <1>5
<1>9. CASE g.lev.cb /\ kind = "event"
  <2>1. Enabled(g, outcome) = g2
    BY <1>3, <1>7, <1>9
  <2>2. Works(g2, r)
    BY <1>2, <1>6, <1>9 DEF Works
  <2> QED
    BY <2>1, <2>2, <1>6
<1>10. CASE g.lev.cb /\ kind = "iocp"
  <2> DEFINE S == {a \in Accepting : /\ ~g1.as[a].free_on_cb /\ ~g1.as[a].freed
                                     /\ g1.as[a].s = "invalid"}
             h == start_accepting(g2, S, outcome)
  <2>1. Enabled(g, outcome) = h
    BY <1>3, <1>7, <1>10 DEF iocp_listener_enable
  <2>2. S \in SUBSET Accepting /\ \A a \in S : outcome[a] \in Outcomes
    OBVIOUS
  <2>3. \A a \in Accepting \ S : g.lev.user => g.as[a].s # "invalid"
    BY <1>5, <1>10
  <2>4. \A a \in S : g.as[a].s = "invalid"
    BY <1>5
  <2> HIDE DEF S
  <2>5. /\ h \in GlobalState /\ Same(g2, h)
        /\ h.lev.enabled /\ h.lev.event_added
        /\ \A a \in Accepting : h.as[a].free_on_cb = g.as[a].free_on_cb
        /\ \A a \in Accepting \ S : h.as[a] = g.as[a]
        /\ \A a : Contains(g.deferred, a) => Contains(h.deferred, a)
        /\ \A a \in S : \/ h.as[a].s = "pending" \/ h.as[a].ok > 0
                        \/ h.as[a].refused \/ Contains(h.deferred, a)
    BY <1>2, <1>6, <2>2, StartAcceptingOK
  <2> HIDE DEF h
  <2>6. Same(g, h)
    BY <1>6, <2>5, SameTrans
  <2>7. Works(h, r)
    <3> SUFFICES ASSUME h.lev.user, NEW a \in Accepting PROVE SocketWorks(h, a, r)
      BY <2>5 DEF Works
    <3>1. g.lev.user /\ ~h.as[a].freed /\ ~h.as[a].free_on_cb
      BY <1>10, <2>5, <2>6 DEF Same
    <3>2. CASE a \in S
      BY <2>5, <3>1, <3>2 DEF SocketWorks
    <3>3. CASE a \notin S
      <4>1. SocketWorks(g, a, r) /\ g.as[a].s # "invalid" /\ h.as[a] = g.as[a]
        BY <1>10, <2>3, <2>5, <3>1, <3>3
      <4> QED
        BY <2>5, <3>1, <4>1 DEF SocketWorks
    <3> QED
      BY <3>2, <3>3
  <2> QED
    BY <2>1, <2>5, <2>6, <2>7
<1> QED
  BY <1>0, <1>8, <1>9, <1>10

-----------------------------------------------------------------------------
(* The actions.  Global gathers the variables, and Become sets them. *)

LEMMA GlobalType ==
  ASSUME TypeOK
  PROVE  /\ Global \in GlobalState
         /\ Global.lev = lev /\ Global.as = as /\ Global.deferred = deferred
BY DEF TypeOK, Global, GlobalState

(* A step that gives the record the value h keeps the invariant when h is  *)
(* counted and its sockets work, for the place the loop is at.             *)
LEMMA BecomeIInv ==
  ASSUME IInv, NEW h \in GlobalState, Become(h), UNCHANGED kind,
         trouble' \in {"none", "freed memory", "deadlock"},
         at' \in [place : Places, a : Accepting \cup {NoSocket}],
         arrived' \in Nat, calls' \in Nat,
         Counted(h, Running'), Works(h, at'.a), LoopOK'
  PROVE  IInv'
<1>1. lev' = h.lev /\ as' = h.as /\ deferred' = h.deferred
  BY DEF Become
<1>2. TypeOK'
  BY <1>1 DEF IInv, TypeOK, GlobalState
<1>3. Global'.lev = h.lev /\ Global'.as = h.as /\ Global'.deferred = h.deferred
  BY <1>1 DEF Global
<1>4. Counted(Global, Running)'
  BY <1>3 DEF Counted, Owners
<1>5. Works(Global, at.a)'
  BY <1>3 DEF Works, SocketWorks
<1> QED
  BY <1>2, <1>4, <1>5 DEF IInv

LEMMA LoopKept ==
  ASSUME LoopOK, UNCHANGED <<kind, at>>,
         \A a \in Accepting : as[a].freed => as'[a].freed,
         (lev.user => lev'.user) \/ at.place \notin {"fired", "accept"}
  PROVE  LoopOK'
BY DEF LoopOK

(* A step that leaves the loop where it is, and the counts alone. *)
LEMMA SameIInv ==
  ASSUME IInv, NEW h \in GlobalState, Become(h), UNCHANGED <<kind, at, trouble>>,
         arrived' \in Nat, calls' \in Nat, Same(Global, h), Works(h, at.a)
  PROVE  IInv'
<1>0. /\ Global.lev = lev /\ Global.as = as
      /\ at \in [place : Places, a : Accepting \cup {NoSocket}]
      /\ trouble \in {"none", "freed memory", "deadlock"}
  BY GlobalType DEF IInv, TypeOK
<1>1. Counted(h, Running) /\ Running' = Running
  BY SameCounted DEF IInv, Running
<1>2. \A a \in Accepting : as[a].freed => as'[a].freed
  BY <1>0 DEF Same, Become
<1>3. lev.user => lev'.user
  BY <1>0 DEF Same, Become
<1>4. LoopOK'
  BY <1>2, <1>3, LoopKept DEF IInv
<1> QED
  BY <1>0, <1>1, <1>4, BecomeIInv

(* A step that changes neither the listener nor its sockets: also one that *)
(* ends the behaviour, for a thread that waits for ever or memory that was *)
(* freed.                                                                  *)
LEMMA RestIInv ==
  ASSUME IInv, UNCHANGED <<kind, lev, as, deferred>>,
         trouble' \in {"none", "freed memory", "deadlock"},
         arrived' \in Nat, calls' \in Nat, at' = at
  PROVE  IInv'
<1>1. TypeOK'
  BY DEF IInv, TypeOK
<1>2. Global' = Global /\ Running' = Running /\ at' = at
  BY DEF Global, Running
<1>3. Counted(Global, Running)'
  BY <1>2 DEF IInv, Counted, Owners
<1>4. Works(Global, at.a)'
  BY <1>2 DEF IInv, Works, SocketWorks
<1>5. LoopOK'
  BY DEF IInv, LoopOK
<1> QED
  BY <1>1, <1>3, <1>4, <1>5 DEF IInv

LEMMA StartsOK ==
  ASSUME NEW outcome \in Starts PROVE \A a \in Accepting : outcome[a] \in Outcomes
BY DEF Starts, Outcomes

(* The parts of the invariant that the actions use. *)
LEMMA IInvState ==
  ASSUME IInv
  PROVE  /\ Global \in GlobalState
         /\ Global.lev = lev /\ Global.as = as /\ Global.deferred = deferred
         /\ lev \in LevState /\ as \in [Accepting -> AsState]
         /\ deferred \in Seq(Accepting) /\ kind \in {"event", "iocp"}
         /\ at \in [place : Places, a : Accepting \cup {NoSocket}]
         /\ trouble \in {"none", "freed memory", "deadlock"}
         /\ arrived \in Nat /\ calls \in Nat
         /\ Works(Global, at.a) /\ Counted(Global, Running) /\ LoopOK
BY GlobalType DEF IInv, TypeOK

LEMMA CallOK ==
  ASSUME IInv, NEW t \in Threads, Call(t) PROVE calls' \in Nat
<1>1. calls \in Nat
  BY IInvState
<1>2. calls' = calls + 1
  BY DEF Call
<1> QED
  BY <1>1, <1>2

LEMMA EnableIInv ==
  ASSUME IInv, NEW t \in Threads, evconnlistener_enable(t) PROVE IInv'
<1>0. /\ Global \in GlobalState /\ Global.lev = lev /\ Global.as = as
      /\ calls' \in Nat /\ arrived' \in Nat /\ kind \in {"event", "iocp"}
  BY IInvState, CallOK DEF evconnlistener_enable
<1>1. CASE Deadlock
  BY <1>0, <1>1, RestIInv DEF Deadlock, evconnlistener_enable
<1>2. CASE \E outcome \in Starts : Proceed(Enabled(Global, outcome))
  <2>1. PICK outcome \in Starts : Proceed(Enabled(Global, outcome))
    BY <1>2
  <2>2. Works(Global, at.a)
    BY DEF IInv
  <2>3. Global.lev.user /\ kind = "iocp" =>
          \A a \in Accepting :
             /\ ~Global.as[a].freed /\ ~Global.as[a].free_on_cb
             /\ Global.as[a].s # "invalid" => SocketWorks(Global, a, at.a)
    BY <2>2 DEF Works, SocketWorks
  <2> DEFINE h == Enabled(Global, outcome)
  <2>4. h \in GlobalState /\ Same(Global, h) /\ Works(h, at.a)
    BY <1>0, <2>3, StartsOK, EnabledOK
  <2> HIDE DEF h
  <2>5. Proceed(h)
    BY <2>1 DEF h
  <2> QED
    BY <1>0, <2>4, <2>5, SameIInv DEF Proceed, evconnlistener_enable
<1> QED
  BY <1>1, <1>2 DEF evconnlistener_enable

LEMMA DisableIInv ==
  ASSUME IInv, NEW t \in Threads, evconnlistener_disable(t) PROVE IInv'
<1>0. /\ Global \in GlobalState /\ Global.lev = lev /\ Global.as = as
      /\ calls' \in Nat /\ arrived' \in Nat /\ kind \in {"event", "iocp"}
      /\ lev \in LevState
  BY IInvState, CallOK DEF evconnlistener_disable
<1>1. CASE Deadlock
  BY <1>0, <1>1, RestIInv DEF Deadlock, evconnlistener_disable
<1> DEFINE l == [lev EXCEPT !.enabled = FALSE]
           g == [Global EXCEPT !.lev = l]
           m == [l EXCEPT !.event_added = FALSE]
<1>2. [Global EXCEPT !.lev.enabled = FALSE] = g
  BY <1>0 DEF GlobalState
<1>3. /\ l \in LevState /\ l.refcnt = lev.refcnt /\ l.freed = lev.freed
      /\ l.user = lev.user /\ ~l.enabled
  BY <1>0 DEF LevState
<1>4. /\ m \in LevState /\ m.refcnt = lev.refcnt /\ m.freed = lev.freed
      /\ m.user = lev.user /\ ~m.enabled
  BY <1>0 DEF LevState
<1>5. g \in GlobalState /\ g.lev = l /\ g.as = as /\ Same(Global, g)
  BY <1>0, <1>3, SetLev DEF Same
<1>w. Works(Global, at.a)
  BY DEF IInv
<1>6. CASE kind = "iocp" /\ Proceed(DisableImpl(g, FALSE))
  <2> DEFINE h == DisableImpl(g, FALSE)
  <2>1. /\ h \in GlobalState /\ Same(g, h) /\ h.lev.enabled = g.lev.enabled
        /\ h.as = [a \in Accepting |-> stop_accepting(g.as[a], FALSE)]
    BY <1>5, DisableImplOK
  <2>2. Same(Global, h)
    BY <1>5, <2>1, SameTrans
  <2>3. Works(h, at.a)
    <3> SUFFICES ASSUME h.lev.user PROVE Works(h, at.a)
      BY DEF Works
    <3>1. lev.user /\ ~h.lev.enabled
      BY <1>0, <1>3, <1>5, <2>1, <2>2 DEF Same
    <3>2. ASSUME NEW a \in Accepting PROVE SocketWorks(h, a, at.a)
      <4>1. ~as[a].freed /\ ~as[a].free_on_cb /\ as[a] \in AsState
        BY <1>0, <1>6, <1>w, <3>1 DEF Works, SocketWorks, GlobalState
      <4>2. h.as[a] = stop_accepting(as[a], FALSE)
        BY <1>5, <2>1
      <4>3. ~h.as[a].freed /\ ~h.as[a].free_on_cb /\ h.as[a].s = "invalid"
        BY <4>1, <4>2, StoppedOK
      <4> QED
        BY <3>1, <4>3 DEF SocketWorks
    <3> QED
      BY <3>1, <3>2 DEF Works
  <2> QED
    BY <1>0, <1>6, <2>1, <2>2, <2>3, SameIInv DEF Proceed, evconnlistener_disable
<1>7. CASE kind # "iocp" /\ Proceed([g EXCEPT !.lev.event_added = FALSE])
  <2> DEFINE h == [Global EXCEPT !.lev = m]
  <2>1. [g EXCEPT !.lev.event_added = FALSE] = h
    BY <1>0 DEF GlobalState
  <2> HIDE DEF m
  <2>2. h \in GlobalState /\ h.lev = m /\ Same(Global, h)
    BY <1>0, <1>4, SetLev DEF Same
  <2>3. Works(h, at.a)
    BY <1>4, <1>7, <2>2 DEF Works
  <2> QED
    BY <1>0, <1>7, <2>1, <2>2, <2>3, SameIInv DEF Proceed, evconnlistener_disable
<1> QED
  BY <1>1, <1>2, <1>6, <1>7 DEF evconnlistener_disable

LEMMA SetCbIInv ==
  ASSUME IInv, NEW t \in Threads, evconnlistener_set_cb(t) PROVE IInv'
<1>0. /\ Global \in GlobalState /\ Global.lev = lev /\ Global.as = as
      /\ Global.deferred = deferred
      /\ calls' \in Nat /\ arrived' \in Nat /\ kind \in {"event", "iocp"}
      /\ lev \in LevState /\ lev.enabled \in BOOLEAN /\ lev.cb \in BOOLEAN
  BY IInvState, CallOK DEF evconnlistener_set_cb, LevState
<1>w. Works(Global, at.a)
  BY DEF IInv
<1>1. CASE Deadlock
  BY <1>0, <1>1, RestIInv DEF Deadlock, evconnlistener_set_cb
<1>2. ASSUME NEW cb \in BOOLEAN, NEW outcome \in Starts,
             Proceed(LET g == [Global EXCEPT !.lev.cb = cb]
                     IN  IF lev.enabled /\ ~lev.cb THEN Enabled(g, outcome) ELSE g)
      PROVE  IInv'
  <2> DEFINE l == [lev EXCEPT !.cb = cb]
             g == [Global EXCEPT !.lev = l]
  <2>1. [Global EXCEPT !.lev.cb = cb] = g
    BY <1>0 DEF GlobalState
  <2>2. /\ l \in LevState /\ l.refcnt = lev.refcnt /\ l.freed = lev.freed
        /\ l.user = lev.user /\ l.enabled = lev.enabled /\ l.cb = cb
        /\ l.event_added = lev.event_added
    BY <1>0 DEF LevState
  <2> HIDE DEF l
  <2>3. /\ g \in GlobalState /\ g.lev = l /\ g.as = as /\ g.deferred = deferred
        /\ Same(Global, g)
    BY <1>0, <2>2, SetLev DEF Same
  <2> HIDE DEF g
  <2>4. CASE lev.enabled /\ ~lev.cb
    <3>1. g.lev.user /\ kind = "iocp" =>
            \A a \in Accepting :
               /\ ~g.as[a].freed /\ ~g.as[a].free_on_cb
               /\ g.as[a].s # "invalid" => SocketWorks(g, a, at.a)
      BY <1>0, <1>w, <2>2, <2>3, <2>4 DEF Works, SocketWorks
    <3> DEFINE h == Enabled(g, outcome)
    <3>2. h \in GlobalState /\ Same(g, h) /\ Works(h, at.a)
      BY <1>0, <2>3, <3>1, StartsOK, EnabledOK
    <3> HIDE DEF h
    <3>3. Same(Global, h)
      BY <2>3, <3>2, SameTrans
    <3>4. Proceed(h)
      BY <1>2, <2>1, <2>4 DEF h
    <3> QED
      BY <1>0, <3>2, <3>3, <3>4, SameIInv DEF Proceed, evconnlistener_set_cb
  <2>5. CASE ~(lev.enabled /\ ~lev.cb)
    <3>1. Works(g, at.a)
      BY <1>0, <1>w, <2>2, <2>3, <2>5 DEF Works, SocketWorks
    <3>2. Proceed(g)
      BY <1>2, <2>1, <2>5
    <3> QED
      BY <1>0, <2>3, <3>1, <3>2, SameIInv DEF Proceed, evconnlistener_set_cb
  <2> QED
    BY <2>4, <2>5
<1> QED
  BY <1>1, <1>2 DEF evconnlistener_set_cb

LEMMA SetErrorCbIInv ==
  ASSUME IInv, NEW t \in Threads, evconnlistener_set_error_cb(t) PROVE IInv'
<1>0. /\ Global \in GlobalState /\ Global.lev = lev /\ Global.as = as
      /\ Global.deferred = deferred /\ lev \in LevState
      /\ calls' \in Nat /\ arrived' \in Nat
  BY IInvState, CallOK DEF evconnlistener_set_error_cb
<1>1. PICK e \in BOOLEAN : lev' = [lev EXCEPT !.errorcb = e]
  BY DEF evconnlistener_set_error_cb
<1>2. /\ lev' \in LevState /\ lev'.refcnt = lev.refcnt /\ lev'.freed = lev.freed
      /\ lev'.user = lev.user /\ lev'.enabled = lev.enabled /\ lev'.cb = lev.cb
      /\ lev'.event_added = lev.event_added
  BY <1>0, <1>1 DEF LevState
<1> DEFINE h == [Global EXCEPT !.lev = lev']
<1>3. /\ h \in GlobalState /\ h.lev = lev' /\ h.as = as /\ h.deferred = deferred
      /\ Same(Global, h)
  BY <1>0, <1>2, SetLev DEF Same
<1> HIDE DEF h
<1>4. Become(h)
  BY <1>3 DEF Become, evconnlistener_set_error_cb
<1>5. Works(h, at.a)
  BY <1>0, <1>2, <1>3, WorksFields DEF IInv
<1> QED
  BY <1>0, <1>3, <1>4, <1>5, SameIInv DEF evconnlistener_set_error_cb

(* The count and its owners, of the variables. *)
LEMMA CountedNow ==
  ASSUME IInv
  PROVE  /\ lev.refcnt \in Nat /\ lev.refcnt = Owners(Global) + Running
         /\ lev.freed <=> lev.refcnt = 0
         /\ Owners(Global) \in Nat
<1>1. lev.refcnt \in Nat
  BY IInvState DEF LevState
<1>2. Counted(Global, Running) /\ Global.lev = lev
  BY IInvState
<1>3. /\ lev.refcnt = Owners(Global) + Running
      /\ lev.freed <=> lev.refcnt = 0
  BY <1>2 DEF Counted
<1>4. Owners(Global) \in Nat
  BY OwnersNat, Zenon
<1> QED
  BY <1>1, <1>3, <1>4

(* An event listener has no owner but the user. *)
LEMMA EventOwner ==
  ASSUME \A a \in Accepting : as[a].freed
  PROVE  Owners(Global) = IF lev.user THEN 1 ELSE 0
<1>1. {a \in Accepting : ~as[a].freed} = {}
  OBVIOUS
<1>2. Cardinality({a \in Accepting : ~as[a].freed}) = 0
  BY <1>1, FS_EmptySet
<1>3. Owners(Global) = (IF lev.user THEN 1 ELSE 0) + Cardinality({a \in Accepting : ~as[a].freed})
  BY DEF Owners, Global
<1> QED
  BY <1>2, <1>3

(* evconnlistener_free gives back the reference of the user.  The callback *)
(* of an event listener does not run then, or its caller waits for ever.   *)
LEMMA FreeIInv ==
  ASSUME IInv, NEW t \in Threads, evconnlistener_free(t) PROVE IInv'
<1>0. /\ Global \in GlobalState /\ Global.lev = lev /\ Global.as = as
      /\ lev \in LevState /\ kind \in {"event", "iocp"}
      /\ at \in [place : Places, a : Accepting \cup {NoSocket}]
      /\ trouble \in {"none", "freed memory", "deadlock"}
      /\ arrived \in Nat /\ calls \in Nat
      /\ Counted(Global, Running) /\ LoopOK
  BY IInvState
<1>1. UNCHANGED <<kind, at, arrived, calls>> /\ MayCall(t) /\ lev.user
  BY DEF evconnlistener_free, MayCall
<1>2. CASE Deadlock
  BY <1>0, <1>1, <1>2, RestIInv DEF Deadlock
<1>3. CASE ~Deadlock
  <2> DEFINE l == [lev EXCEPT !.cb = FALSE, !.errorcb = FALSE, !.user = FALSE]
             g == [Global EXCEPT !.lev = l]
             d == IF kind = "iocp" THEN iocp_listener_destroy(g) ELSE g
             h == listener_decref_and_unlock(d)
  <2>1. [Global EXCEPT !.lev.cb = FALSE, !.lev.errorcb = FALSE, !.lev.user = FALSE] = g
    BY <1>0 DEF GlobalState
  <2>2. l \in LevState /\ l.refcnt = lev.refcnt /\ l.freed = lev.freed /\ ~l.user
    BY <1>0 DEF LevState
  <2>3. /\ ~(DelWaits(t) /\ lev.refcnt = 1) /\ trouble' = trouble /\ Become(h)
    BY <1>3, <2>1 DEF evconnlistener_free, Proceed
  <2> HIDE DEF l
  <2>4. g \in GlobalState /\ g.lev = l /\ g.as = as
    BY <1>0, <2>2, SetLev
  <2> HIDE DEF g
  <2>5. d \in GlobalState /\ Same(g, d)
    <3>1. kind = "iocp" => iocp_listener_destroy(g) = Destroy(g)
      BY DEF Destroy
    <3>2. kind # "iocp" => Same(g, g)
      BY DEF Same
    <3> QED
      BY <2>4, <3>1, <3>2, DestroyOK
  <2> HIDE DEF d
  <2>6. Owners(Global) \in Nat /\ Owners(g) \in Nat /\ Owners(d) \in Nat
    BY OwnersNat, Zenon
  <2>7. Owners(Global) = Owners(g) + 1
    <3> DEFINE n == Cardinality({a \in Accepting : ~as[a].freed})
    <3>1. n \in Nat
      BY FS_Subset, FS_CardinalityType
    <3>2. Owners(Global) = 1 + n /\ Owners(g) = 0 + n
      BY <1>0, <1>1, <2>2, <2>4 DEF Owners
    <3> HIDE DEF n
    <3> QED
      BY <3>1, <3>2
  <2>8. Owners(d) = Owners(g)
    <3>1. {a \in Accepting : ~d.as[a].freed} = {a \in Accepting : ~g.as[a].freed}
      BY <2>5 DEF Same
    <3> QED
      BY <2>5, <3>1 DEF Owners, Same
  <2>9. Running \in {0, 1}
    BY DEF Running
  <2>10. lev.refcnt = Owners(g) + 1 + Running /\ ~lev.freed
    BY <2>6, <2>7, <2>9, CountedNow
  <2>11. d.lev.refcnt = Owners(d) + Running + 1 /\ ~d.lev.freed /\ ~d.lev.user
    BY <2>2, <2>4, <2>5, <2>6, <2>8, <2>9, <2>10 DEF Same
  <2>12. /\ h \in GlobalState /\ Counted(h, Running) /\ ~h.lev.user
         /\ \A a \in Accepting : h.as[a].freed <=> d.as[a].freed
    BY <2>5, <2>9, <2>11, DecrefOK
  <2> HIDE DEF h
  <2>13. Works(h, at.a)
    BY <2>12 DEF Works
  <2>14. \A a \in Accepting : as[a].freed => as'[a].freed
    BY <2>3, <2>4, <2>5, <2>12 DEF Same, Become
  <2>15. at.place \notin {"fired", "accept"}
    <3> SUFFICES ASSUME at.place \in {"fired", "accept"} PROVE FALSE
      OBVIOUS
    <3>1. kind = "event" /\ \A a \in Accepting : as[a].freed
      BY <1>0 DEF LoopOK
    <3>2. t = "other" /\ at # Idle
      BY <1>1 DEF MayCall, Threads, Idle
    <3>3. Owners(Global) = 1 /\ Running = 0
      BY <1>1, <3>1, EventOwner DEF Running
    <3>4. lev.refcnt = 1
      BY <3>3, CountedNow
    <3> QED
      BY <2>3, <3>1, <3>2, <3>4 DEF DelWaits
  <2>16. LoopOK'
    BY <1>0, <1>1, <2>14, <2>15, LoopKept
  <2>17. Running' = Running /\ at' = at
    BY <1>1 DEF Running
  <2> QED
    BY <1>0, <1>1, <2>3, <2>12, <2>13, <2>16, <2>17, BecomeIInv
<1> QED
  BY <1>2, <1>3

(* The accept loop of an event listener. *)
LEMMA EventLoopIInv ==
  ASSUME IInv, Fire \/ TakeLock \/ AcceptOne \/ AcceptNothing
  PROVE  IInv'
<1>0. /\ Global \in GlobalState /\ Global.lev = lev /\ Global.as = as
      /\ Global.deferred = deferred /\ lev \in LevState
      /\ at \in [place : Places, a : Accepting \cup {NoSocket}]
      /\ trouble \in {"none", "freed memory", "deadlock"}
      /\ arrived \in Nat /\ calls \in Nat
      /\ Works(Global, at.a) /\ Counted(Global, Running) /\ LoopOK
  BY IInvState
<1>1. UNCHANGED <<kind, as, deferred, trouble, arrived, calls>>
  BY DEF Fire, TakeLock, AcceptOne, AcceptNothing
<1>2. at.place \in {"idle", "fired", "accept"} /\ Running = 0 /\ kind = "event"
      /\ at.a = NoSocket /\ \A a \in Accepting : as[a].freed
  <2>1. CASE Fire
    <3>1. at.place = "idle" /\ kind = "event"
      BY <2>1 DEF Fire, Idle
    <3> QED
      BY <1>0, <3>1 DEF LoopOK, Running
  <2>2. CASE TakeLock \/ AcceptOne \/ AcceptNothing
    <3>1. at.place \in {"fired", "accept"}
      BY <2>2 DEF TakeLock, AcceptOne, AcceptNothing
    <3>2. kind = "event"
      BY <1>0, <3>1, IInvState DEF LoopOK
    <3> QED
      BY <1>0, <3>1, <3>2 DEF LoopOK, Running
  <2> QED
    BY <2>1, <2>2
<1> DEFINE Kept(l, e) == /\ l \in LevState /\ l.refcnt = lev.refcnt + e
                         /\ l.freed = lev.freed /\ l.user = lev.user
                         /\ l.enabled = lev.enabled /\ l.cb = lev.cb
                         /\ l.event_added = lev.event_added
           Events == [place : {"idle", "fired", "accept", "cb", "errorcb"}, a : {NoSocket}]
<1>r. lev.refcnt \in Nat /\ lev.accepted \in Nat /\ lev.threadsafe \in BOOLEAN
      /\ Kept(lev, 0)
  <2>1. lev.refcnt \in Nat /\ lev.accepted \in Nat /\ lev.threadsafe \in BOOLEAN
    BY <1>0 DEF LevState
  <2>2. lev.refcnt = lev.refcnt + 0
    BY <2>1
  <2> QED
    BY <1>0, <2>1, <2>2
<1>3. PICK e \in {0, 1} :
        Kept(lev', e) /\ at' \in Events /\ Running' = e /\ (at'.place # "idle" => lev.user)
  <2>1. CASE Fire
    <3>1. lev.user
      <4>1. ~lev.freed
        BY <2>1 DEF Fire
      <4>2. Owners(Global) # 0
        BY <1>2, <4>1, CountedNow
      <4> QED
        BY <1>2, <4>2, EventOwner
    <3>2. at' = [place |-> "fired", a |-> NoSocket] /\ lev' = lev
      BY <2>1 DEF Fire, Idle
    <3>3. at' \in Events /\ Running' = 0
      BY <3>2 DEF Running
    <3> HIDE DEF Kept, Events
    <3> QED
      BY <1>r, <3>1, <3>2, <3>3
  <2>2. CASE TakeLock
    <3>1. at' = [place |-> "accept", a |-> NoSocket] /\ lev' = lev
      BY <1>0, <1>2, <2>2 DEF TakeLock
    <3>2. at' \in Events /\ Running' = 0
      BY <3>1 DEF Running
    <3>3. lev.user
      BY <1>0, <1>2, <2>2 DEF TakeLock, LoopOK
    <3> HIDE DEF Kept, Events
    <3> QED
      BY <1>r, <3>1, <3>2, <3>3
  <2>3. CASE AcceptOne
    <3>1. lev.user
      BY <1>0, <1>2, <2>3 DEF AcceptOne, LoopOK
    <3>2. CASE lev.cb
      <4>1. lev' = [lev EXCEPT !.accepted = lev.accepted + 1, !.refcnt = lev.refcnt + 1]
        BY <2>3, <3>2 DEF AcceptOne
      <4>2. lev.accepted + 1 \in Nat /\ lev.refcnt + 1 \in Nat
        BY <1>r
      <4>3. Kept(lev', 1)
        BY <1>0, <4>1, <4>2 DEF LevState
      <4>4. at' = [place |-> "cb", a |-> NoSocket]
        BY <1>0, <1>2, <2>3, <3>2 DEF AcceptOne
      <4>5. at' \in Events /\ Running' = 1
        BY <4>4 DEF Running
      <4> HIDE DEF Kept, Events
      <4> QED
        BY <3>1, <4>3, <4>5
    <3>3. CASE ~lev.cb
      <4>1. lev' = [lev EXCEPT !.accepted = lev.accepted + 1, !.refcnt = lev.refcnt]
        BY <2>3, <3>3 DEF AcceptOne
      <4>2. lev.accepted + 1 \in Nat
        BY <1>r
      <4>3. Kept(lev', 0)
        BY <1>0, <1>r, <4>1, <4>2 DEF LevState
      <4>4. at' = [place |-> "idle", a |-> NoSocket]
        BY <1>0, <1>2, <2>3, <3>3 DEF AcceptOne, Idle
      <4>5. at' \in Events /\ Running' = 0
        BY <4>4 DEF Running
      <4> HIDE DEF Kept, Events
      <4> QED
        BY <3>1, <4>3, <4>5
    <3> QED
      BY <3>2, <3>3
  <2>4. CASE AcceptNothing
    <3>1. lev.user
      BY <1>0, <1>2, <2>4 DEF AcceptNothing, LoopOK
    <3>2. CASE at' = Idle /\ (UNCHANGED lev \/ lev' = [lev EXCEPT !.leaked = lev.threadsafe])
      <4>1. at' = [place |-> "idle", a |-> NoSocket]
        BY <3>2 DEF Idle
      <4>2. at' \in Events /\ Running' = 0
        BY <4>1 DEF Running
      <4>3. Kept(lev', 0)
        BY <1>0, <1>r, <3>2 DEF LevState
      <4> HIDE DEF Kept, Events
      <4> QED
        BY <3>1, <4>2, <4>3
    <3>3. CASE at' = [at EXCEPT !.place = "errorcb"] /\ lev' = [lev EXCEPT !.refcnt = @ + 1]
      <4>1. at' = [place |-> "errorcb", a |-> NoSocket]
        BY <1>0, <1>2, <3>3
      <4>2. lev.refcnt + 1 \in Nat
        BY <1>r
      <4>3. Kept(lev', 1)
        BY <1>0, <3>3, <4>2 DEF LevState
      <4>4. at' \in Events /\ Running' = 1
        BY <4>1 DEF Running
      <4> HIDE DEF Kept, Events
      <4> QED
        BY <3>1, <4>3, <4>4
    <3> QED
      BY <2>4, <3>2, <3>3 DEF AcceptNothing
  <2> QED
    BY <2>1, <2>2, <2>3, <2>4
<1> DEFINE h == [Global EXCEPT !.lev = lev']
<1>5. h \in GlobalState /\ h.lev = lev' /\ h.as = as /\ h.deferred = deferred
  BY <1>0, <1>3, SetLev
<1> HIDE DEF h
<1>6. Become(h)
  BY <1>1, <1>5 DEF Become
<1>7. Counted(h, e)
  <2>1. Owners(h) = Owners(Global)
    BY <1>0, <1>3, <1>5 DEF Owners
  <2>2. Owners(h) \in Nat /\ (Owners(h) = 0 => ~h.lev.user)
    BY OwnersNat, Zenon
  <2>3. h.lev.refcnt = Owners(h) + e /\ (h.lev.freed <=> Owners(h) = 0)
    BY <1>2, <1>3, <1>5, <2>1, <2>2, CountedNow
  <2>4. e = 1 => Owners(h) # 0
    BY <1>3, <1>5, <2>2 DEF Running
  <2> QED
    BY <2>2, <2>3, <2>4 DEF Counted
<1>8. LoopOK'
  BY <1>1, <1>2, <1>3 DEF LoopOK
<1>9. at' \in [place : Places, a : Accepting \cup {NoSocket}] /\ at'.a = NoSocket
  BY <1>3 DEF Places
<1>10. Works(h, NoSocket)
  <2>1. Works(Global, NoSocket)
    BY <1>0, <1>2
  <2>2. /\ h.lev.user = Global.lev.user /\ h.lev.enabled = Global.lev.enabled
        /\ h.lev.cb = Global.lev.cb /\ h.lev.event_added = Global.lev.event_added
        /\ h.as = Global.as /\ h.deferred = Global.deferred
    BY <1>0, <1>3, <1>5
  <2> QED
    BY <2>1, <2>2, WorksFields
<1> QED
  BY <1>0, <1>1, <1>3, <1>5, <1>6, <1>7, <1>8, <1>9, <1>10, BecomeIInv

(* The callback of an event listener returns. *)
LEMMA EventCallbackIInv == ASSUME IInv, EventCallbackReturns PROVE IInv'
<1>0. /\ Global \in GlobalState /\ Global.lev = lev /\ Global.as = as
      /\ Global.deferred = deferred /\ lev \in LevState
      /\ at \in [place : Places, a : Accepting \cup {NoSocket}]
      /\ trouble \in {"none", "freed memory", "deadlock"}
      /\ arrived \in Nat /\ calls \in Nat
      /\ Works(Global, at.a) /\ Counted(Global, Running) /\ LoopOK
  BY IInvState
<1>1. /\ kind = "event" /\ at.place \in {"cb", "errorcb"}
      /\ UNCHANGED <<kind, trouble, arrived, calls>>
  BY DEF EventCallbackReturns
<1>2. at.a = NoSocket /\ Running = 1 /\ \A a \in Accepting : as[a].freed
  BY <1>0, <1>1 DEF LoopOK, Running
<1>3. Owners(Global) \in Nat
  BY OwnersNat, Zenon
<1>4. lev.refcnt = Owners(Global) + 1 /\ ~lev.freed
  BY <1>2, <1>3, CountedNow
<1>5. CASE /\ lev.refcnt # 1
           /\ Become([Global EXCEPT !.lev.refcnt = @ - 1])
           /\ at' = [at EXCEPT !.place = "accept"]
  <2> DEFINE l == [lev EXCEPT !.refcnt = Owners(Global)]
             h == [Global EXCEPT !.lev = l]
  <2>1. /\ l \in LevState /\ l.refcnt = Owners(Global) /\ l.freed = lev.freed
        /\ l.user = lev.user /\ l.enabled = lev.enabled /\ l.cb = lev.cb
        /\ l.event_added = lev.event_added
    BY <1>0, <1>3 DEF LevState
  <2>2. lev.refcnt - 1 = Owners(Global)
    BY <1>3, <1>4
  <2>3. [Global EXCEPT !.lev.refcnt = @ - 1] = h
    BY <1>0, <2>2 DEF GlobalState
  <2> HIDE DEF l
  <2>5. h \in GlobalState /\ h.lev = l /\ h.as = as /\ h.deferred = deferred
    BY <1>0, <2>1, SetLev
  <2>6. Become(h)
    BY <1>5, <2>3
  <2> HIDE DEF h
  <2>4. Works(h, NoSocket)
    BY <1>0, <1>2, <2>1, <2>5, WorksFields
  <2>7. Owners(h) = Owners(Global)
    BY <1>0, <2>1, <2>5 DEF Owners
  <2>8. Owners(Global) # 0
    BY <1>3, <1>4, <1>5
  <2>9. Counted(h, 0)
    BY <1>3, <1>4, <2>1, <2>5, <2>7, <2>8 DEF Counted
  <2>10. lev.user
    BY <1>2, <2>8, EventOwner
  <2>11. at' = [place |-> "accept", a |-> NoSocket]
    BY <1>0, <1>2, <1>5
  <2>12. at'.place = "accept" /\ at'.a = NoSocket /\ Running' = 0
         /\ at' \in [place : Places, a : Accepting \cup {NoSocket}]
    BY <2>11 DEF Running, Places
  <2>13. LoopOK'
    BY <1>1, <1>2, <2>1, <2>5, <2>6, <2>10, <2>12 DEF LoopOK, Become
  <2> QED
    BY <1>0, <1>1, <2>4, <2>5, <2>6, <2>9, <2>12, <2>13, BecomeIInv
<1>6. CASE Become(listener_decref_and_unlock(Global)) /\ at' = Idle
  <2> DEFINE h == listener_decref_and_unlock(Global)
  <2>0. Owners(Global) + 0 + 1 = Owners(Global) + 1
    BY <1>3
  <2>1. Global.lev.refcnt = Owners(Global) + 0 + 1 /\ ~Global.lev.freed
    BY <1>0, <1>4, <2>0
  <2>2. /\ h \in GlobalState /\ Counted(h, 0) /\ Works(h, at.a)
        /\ \A a \in Accepting : h.as[a].freed <=> as[a].freed
    BY <1>0, <2>1, DecrefOK
  <2> HIDE DEF h
  <2>3. Become(h)
    BY <1>6 DEF h
  <2>4. at'.place = "idle" /\ at'.a = NoSocket /\ Running' = 0
        /\ at' \in [place : Places, a : Accepting \cup {NoSocket}]
    BY <1>6 DEF Idle, Running, Places
  <2>5. LoopOK'
    BY <1>1, <1>2, <2>2, <2>3, <2>4 DEF LoopOK, Become
  <2> QED
    BY <1>0, <1>1, <1>2, <2>2, <2>3, <2>4, <2>5, BecomeIInv
<1> QED
  BY <1>5, <1>6 DEF EventCallbackReturns

-----------------------------------------------------------------------------
(* The sockets of an overlapped listener. *)

LEMMA PlusOne == ASSUME NEW n \in Nat PROVE n + 1 \in Nat /\ n + 1 > 0
OBVIOUS

LEMMA MinusOne == ASSUME NEW n \in Nat, n > 0 PROVE n - 1 \in Nat
OBVIOUS

(* One socket changes. *)
LEMMA OneSocket ==
  ASSUME NEW g \in GlobalState, NEW a \in Accepting, NEW s \in AsState,
         s.freed = g.as[a].freed
  PROVE  LET h == [g EXCEPT !.as = [g.as EXCEPT ![a] = s]]
         IN  /\ h \in GlobalState /\ h.lev = g.lev /\ h.deferred = g.deferred
             /\ h.as[a] = s /\ \A b \in Accepting \ {a} : h.as[b] = g.as[b]
             /\ Same(g, h)
<1> DEFINE f == [g.as EXCEPT ![a] = s]
           h == [g EXCEPT !.as = f]
<1>0. g.as \in [Accepting -> AsState]
  BY DEF GlobalState
<1>1. f \in [Accepting -> AsState] /\ f[a] = s /\ \A b \in Accepting \ {a} : f[b] = g.as[b]
  BY <1>0
<1> HIDE DEF f
<1>2. h \in GlobalState /\ h.lev = g.lev /\ h.as = f /\ h.deferred = g.deferred
  BY <1>1, SetAs
<1> HIDE DEF h
<1>3. Same(g, h)
  BY <1>1, <1>2 DEF Same
<1> QED
  BY <1>1, <1>2, <1>3 DEF h, f

(* The other sockets go on as they did. *)
Beside(g, h, a) ==
    /\ h.lev.user = g.lev.user /\ h.lev.enabled = g.lev.enabled
    /\ h.lev.cb = g.lev.cb /\ h.lev.event_added = g.lev.event_added
    /\ \A b \in Accepting \ {a} :
          h.as[b] = g.as[b] /\ (Contains(g.deferred, b) => Contains(h.deferred, b))

LEMMA OneSocketWorks ==
  ASSUME NEW g, NEW h, NEW r, NEW q, NEW a \in Accepting, Works(g, r), Beside(g, h, a),
         \A b \in Accepting \ {a} : r = b => q = b,
         kind = "iocp" /\ SocketWorks(g, a, r) => SocketWorks(h, a, q)
  PROVE  Works(h, q)
<1>1. ASSUME h.lev.user, kind = "iocp", NEW b \in Accepting PROVE SocketWorks(h, b, q)
  <2>1. SocketWorks(g, b, r)
    BY <1>1 DEF Works, Beside
  <2>2. CASE b = a
    BY <1>1, <2>1, <2>2
  <2>3. CASE b # a
    BY <2>1, <2>3 DEF SocketWorks, Beside
  <2> QED
    BY <2>2, <2>3
<1> QED
  BY <1>1 DEF Works, Beside

LEMMA OneSocketStays ==
  ASSUME NEW g, NEW h, NEW r, NEW a \in Accepting, Works(g, r), Beside(g, h, a),
         kind = "iocp" /\ SocketWorks(g, a, r) => SocketWorks(h, a, r)
  PROVE  Works(h, r)
BY OneSocketWorks

(* An AcceptEx ends. *)
LEMMA EndsIInv ==
  ASSUME IInv, NEW a \in Accepting, AcceptCompletes(a) \/ AcceptFails(a) PROVE IInv'
<1>0. /\ Global \in GlobalState /\ Global.lev = lev /\ Global.as = as
      /\ Global.deferred = deferred /\ lev \in LevState
      /\ as \in [Accepting -> AsState] /\ arrived \in Nat /\ calls \in Nat
      /\ Works(Global, at.a)
  BY IInvState
<1>1. UNCHANGED <<kind, deferred, at, trouble, arrived, calls>>
  BY DEF AcceptCompletes, AcceptFails
<1>2. /\ as[a] \in AsState /\ as[a].ok + 1 \in Nat /\ as[a].failed + 1 \in Nat
      /\ as[a].strays \in Nat /\ as[a].ok \in Nat /\ as[a].failed \in Nat
      /\ as[a].strays > 0 => as[a].strays - 1 \in Nat
      /\ as[a].ok + 1 > 0 /\ as[a].failed + 1 > 0 /\ lev.accepted + 1 \in Nat
  <2>1. as[a] \in AsState
    BY <1>0
  <2>2. as[a].strays \in Nat /\ as[a].ok \in Nat /\ as[a].failed \in Nat
    BY <2>1 DEF AsState
  <2>3. lev.accepted \in Nat
    BY <1>0 DEF LevState
  <2>4. /\ as[a].ok + 1 \in Nat /\ as[a].failed + 1 \in Nat /\ lev.accepted + 1 \in Nat
        /\ as[a].ok + 1 > 0 /\ as[a].failed + 1 > 0
    BY <2>2, <2>3, PlusOne, Zenon
  <2>5. as[a].strays > 0 => as[a].strays - 1 \in Nat
    BY <2>2, MinusOne, Zenon
  <2> QED
    BY <2>1, <2>2, <2>4, <2>5, Zenon
<1>3. PICK s \in AsState :
        /\ as' = [as EXCEPT ![a] = s]
        /\ s.freed = as[a].freed /\ s.free_on_cb = as[a].free_on_cb
        /\ s.refused = as[a].refused
        /\ \/ s.s = "connected" /\ as[a].s = "pending" /\ s.ok > 0
           \/ s.s = "broken" /\ as[a].s = "pending" /\ s.failed > 0
           \/ s.s = as[a].s /\ (as[a].ok > 0 => s.ok > 0) /\ (as[a].failed > 0 => s.failed > 0)
  <2> DEFINE Fits(s) == /\ as' = [as EXCEPT ![a] = s]
                        /\ s.freed = as[a].freed /\ s.free_on_cb = as[a].free_on_cb
                        /\ s.refused = as[a].refused
                        /\ \/ s.s = "connected" /\ as[a].s = "pending" /\ s.ok > 0
                           \/ s.s = "broken" /\ as[a].s = "pending" /\ s.failed > 0
                           \/ s.s = as[a].s /\ (as[a].ok > 0 => s.ok > 0) /\ (as[a].failed > 0 => s.failed > 0)
  <2>1. CASE as[a].s = "pending" /\ as' = [as EXCEPT ![a].s = "connected", ![a].ok = @ + 1]
    <3> DEFINE s == [as[a] EXCEPT !.s = "connected", !.ok = as[a].ok + 1]
    <3>1. s \in AsState /\ s.freed = as[a].freed /\ s.free_on_cb = as[a].free_on_cb
          /\ s.refused = as[a].refused /\ s.s = "connected" /\ s.ok = as[a].ok + 1
      BY <1>2, <2>1 DEF AsState, SocketStates
    <3>2. as' = [as EXCEPT ![a] = s]
      BY <1>0, <2>1
    <3> HIDE DEF s
    <3>3. Fits(s)
      BY <1>2, <2>1, <3>1, <3>2, Zenon
    <3> QED
      BY <3>1, <3>3
  <2>2. CASE as[a].strays > 0 /\ as' = [as EXCEPT ![a].strays = @ - 1, ![a].ok = @ + 1]
    <3> DEFINE s == [as[a] EXCEPT !.strays = as[a].strays - 1, !.ok = as[a].ok + 1]
    <3>1. s \in AsState /\ s.freed = as[a].freed /\ s.free_on_cb = as[a].free_on_cb
          /\ s.refused = as[a].refused /\ s.s = as[a].s /\ s.ok = as[a].ok + 1 /\ s.failed = as[a].failed
      BY <1>2, <2>2 DEF AsState, SocketStates
    <3>2. as' = [as EXCEPT ![a] = s]
      BY <1>0, <2>2
    <3> HIDE DEF s
    <3>3. Fits(s)
      BY <1>2, <2>2, <3>1, <3>2, Zenon
    <3> QED
      BY <3>1, <3>3
  <2>3. CASE as[a].s = "pending" /\ as' = [as EXCEPT ![a].s = "broken", ![a].failed = @ + 1]
    <3> DEFINE s == [as[a] EXCEPT !.s = "broken", !.failed = as[a].failed + 1]
    <3>1. s \in AsState /\ s.freed = as[a].freed /\ s.free_on_cb = as[a].free_on_cb
          /\ s.refused = as[a].refused /\ s.s = "broken" /\ s.failed = as[a].failed + 1
      BY <1>2, <2>3 DEF AsState, SocketStates
    <3>2. as' = [as EXCEPT ![a] = s]
      BY <1>0, <2>3
    <3> HIDE DEF s
    <3>3. Fits(s)
      BY <1>2, <2>3, <3>1, <3>2, Zenon
    <3> QED
      BY <3>1, <3>3
  <2>4. CASE as[a].strays > 0 /\ as' = [as EXCEPT ![a].strays = @ - 1, ![a].failed = @ + 1]
    <3> DEFINE s == [as[a] EXCEPT !.strays = as[a].strays - 1, !.failed = as[a].failed + 1]
    <3>1. s \in AsState /\ s.freed = as[a].freed /\ s.free_on_cb = as[a].free_on_cb
          /\ s.refused = as[a].refused /\ s.s = as[a].s /\ s.ok = as[a].ok /\ s.failed = as[a].failed + 1
      BY <1>2, <2>4 DEF AsState, SocketStates
    <3>2. as' = [as EXCEPT ![a] = s]
      BY <1>0, <2>4
    <3> HIDE DEF s
    <3>3. Fits(s)
      BY <1>2, <2>4, <3>1, <3>2, Zenon
    <3> QED
      BY <3>1, <3>3
  <2> QED
    BY <2>1, <2>2, <2>3, <2>4 DEF AcceptCompletes, AcceptFails
<1>4. /\ lev' \in LevState /\ lev'.refcnt = lev.refcnt /\ lev'.freed = lev.freed
      /\ lev'.user = lev.user /\ lev'.enabled = lev.enabled /\ lev'.cb = lev.cb
      /\ lev'.event_added = lev.event_added
  BY <1>0, <1>2 DEF AcceptCompletes, AcceptFails, LevState
<1> DEFINE g == [Global EXCEPT !.as = [Global.as EXCEPT ![a] = s]]
           h == [g EXCEPT !.lev = lev']
<1>5. /\ g \in GlobalState /\ g.lev = lev /\ g.deferred = deferred
      /\ g.as[a] = s /\ \A b \in Accepting \ {a} : g.as[b] = as[b]
      /\ Same(Global, g) /\ g.as = as'
  <2>1. s.freed = Global.as[a].freed
    BY <1>0, <1>3
  <2>2. /\ g \in GlobalState /\ g.lev = Global.lev /\ g.deferred = Global.deferred
        /\ g.as[a] = s /\ \A b \in Accepting \ {a} : g.as[b] = Global.as[b]
        /\ Same(Global, g)
    BY <1>0, <2>1, OneSocket
  <2>3. g.as = as'
    BY <1>0, <1>3 DEF GlobalState
  <2> HIDE DEF g
  <2> QED
    BY <1>0, <2>2, <2>3
<1> HIDE DEF g
<1>6. /\ h \in GlobalState /\ h.lev = lev' /\ h.deferred = deferred /\ h.as = g.as
  BY <1>4, <1>5, SetLev
<1> HIDE DEF h
<1>7. Same(Global, h)
  BY <1>0, <1>4, <1>5, <1>6 DEF Same
<1>8. Works(h, at.a)
  <2>1. ASSUME SocketWorks(Global, a, at.a) PROVE SocketWorks(h, a, at.a)
    <3>1. h.as[a] = s /\ Global.as[a] = as[a]
      BY <1>0, <1>5, <1>6
    <3> QED
      BY <1>0, <1>3, <1>4, <1>6, <2>1, <3>1 DEF SocketWorks
  <2> QED
    <3>1. Beside(Global, h, a)
      BY <1>0, <1>4, <1>5, <1>6 DEF Beside
    <3> QED
      BY <1>0, <2>1, <3>1, OneSocketStays
<1>9. Become(h)
  BY <1>1, <1>5, <1>6 DEF Become
<1> QED
  BY <1>0, <1>1, <1>6, <1>7, <1>8, <1>9, SameIInv

(* The completion of an AcceptEx that succeeded is served. *)
LEMMA AcceptedIInv ==
  ASSUME IInv, NEW a \in Accepting, accepted_socket_cb(a) PROVE IInv'
<1>0. /\ Global \in GlobalState /\ Global.lev = lev /\ Global.as = as
      /\ Global.deferred = deferred /\ as \in [Accepting -> AsState]
      /\ arrived \in Nat /\ calls \in Nat
      /\ trouble \in {"none", "freed memory", "deadlock"} /\ Works(Global, at.a)
  BY IInvState
<1>1. as[a].ok > 0 /\ UNCHANGED <<kind, at, arrived, calls>>
  BY DEF accepted_socket_cb
<1>2. CASE UNCHANGED <<lev, as, deferred>> /\ trouble' \in {"freed memory", "deadlock"}
  BY <1>0, <1>1, <1>2, RestIInv
<1>3. CASE ~(UNCHANGED <<lev, as, deferred>> /\ trouble' \in {"freed memory", "deadlock"})
  <2> DEFINE s == [as[a] EXCEPT !.ok = @ - 1]
             g == [Global EXCEPT !.as = [Global.as EXCEPT ![a] = s]]
             h == Schedule(g, a)
  <2>1. [Global EXCEPT !.as[a].ok = @ - 1] = g
    BY <1>0 DEF GlobalState
  <2>a. as[a] \in AsState
    BY <1>0
  <2>b. as[a].ok \in Nat /\ as[a].free_on_cb \in BOOLEAN
    BY <2>a DEF AsState
  <2>2. as[a].ok - 1 \in Nat /\ as[a] \in AsState
    BY <1>1, <2>a, <2>b, MinusOne, Zenon
  <2>3. /\ s \in AsState /\ s.freed = as[a].freed /\ s.free_on_cb = as[a].free_on_cb
        /\ s.s = as[a].s
    BY <2>2 DEF AsState
  <2>4. trouble' = trouble /\ Become(h)
    BY <1>3, <2>1 DEF accepted_socket_cb, Served, Deadlock, Proceed
  <2> HIDE DEF s
  <2>5. /\ g \in GlobalState /\ g.lev = lev /\ g.deferred = deferred
        /\ g.as[a] = s /\ \A b \in Accepting \ {a} : g.as[b] = as[b]
        /\ Same(Global, g)
    <3>1. s.freed = Global.as[a].freed
      BY <1>0, <2>3
    <3>2. /\ g \in GlobalState /\ g.lev = Global.lev /\ g.deferred = Global.deferred
          /\ g.as[a] = s /\ \A b \in Accepting \ {a} : g.as[b] = Global.as[b]
          /\ Same(Global, g)
      BY <1>0, <2>3, <3>1, OneSocket
    <3> HIDE DEF g
    <3> QED
      BY <1>0, <3>2
  <2> HIDE DEF g
  <2>6. /\ h \in GlobalState /\ h.lev = lev /\ h.as = g.as /\ Same(g, h)
        /\ Contains(h.deferred, a)
        /\ \A b : Contains(deferred, b) => Contains(h.deferred, b)
    BY <2>5, ScheduleOK
  <2> HIDE DEF h
  <2>7. Same(Global, h)
    BY <2>5, <2>6, SameTrans
  <2>8. SocketWorks(Global, a, at.a) => SocketWorks(h, a, at.a)
    BY <1>0, <2>3, <2>5, <2>6 DEF SocketWorks
  <2>9. Works(h, at.a)
    <3>1. Beside(Global, h, a)
      BY <1>0, <2>5, <2>6 DEF Beside
    <3> QED
      BY <1>0, <2>8, <3>1, OneSocketStays
  <2> QED
    BY <1>0, <1>1, <2>4, <2>6, <2>7, <2>9, SameIInv
<1> QED
  BY <1>2, <1>3

(* One that failed is: the socket goes, rests or reports the error. *)
LEMMA AcceptFailedIInv ==
  ASSUME IInv, NEW a \in Accepting, accepted_socket_cb_fails(a) PROVE IInv'
<1>0. /\ Global \in GlobalState /\ Global.lev = lev /\ Global.as = as
      /\ Global.deferred = deferred /\ as \in [Accepting -> AsState]
      /\ kind \in {"event", "iocp"}
      /\ at \in [place : Places, a : Accepting \cup {NoSocket}]
      /\ arrived \in Nat /\ calls \in Nat
      /\ trouble \in {"none", "freed memory", "deadlock"} /\ Works(Global, at.a)
      /\ Counted(Global, Running) /\ LoopOK
  BY IInvState
<1>1. as[a].failed > 0 /\ UNCHANGED <<kind, at, arrived, calls>>
  BY DEF accepted_socket_cb_fails
<1>2. CASE UNCHANGED <<lev, as, deferred>> /\ trouble' \in {"freed memory", "deadlock"}
  BY <1>0, <1>1, <1>2, RestIInv
<1>3. CASE ~(UNCHANGED <<lev, as, deferred>> /\ trouble' \in {"freed memory", "deadlock"})
  <2> DEFINE s == [as[a] EXCEPT !.failed = @ - 1]
             g == [Global EXCEPT !.as = [Global.as EXCEPT ![a] = s]]
             h == CASE as[a].free_on_cb -> FreeAccepting(g, a)
                    [] ~as[a].free_on_cb /\ as[a].s = "invalid" -> g
                    [] OTHER -> Schedule([g EXCEPT !.as[a].error = TRUE], a)
  <2>1. [Global EXCEPT !.as[a].failed = @ - 1] = g
    BY <1>0 DEF GlobalState
  <2>a. as[a] \in AsState
    BY <1>0
  <2>b. as[a].failed \in Nat /\ as[a].free_on_cb \in BOOLEAN
    BY <2>a DEF AsState
  <2>2. as[a].failed - 1 \in Nat /\ as[a] \in AsState /\ as[a].free_on_cb \in BOOLEAN
    BY <1>1, <2>a, <2>b, MinusOne, Zenon
  <2>3. /\ s \in AsState /\ s.freed = as[a].freed /\ s.free_on_cb = as[a].free_on_cb
        /\ s.s = as[a].s /\ s.ok = as[a].ok /\ s.refused = as[a].refused
    BY <2>2 DEF AsState
  <2>4. trouble' = trouble /\ Become(h) /\ ~as[a].freed
    BY <1>3, <2>1 DEF accepted_socket_cb_fails, Served, Deadlock, Proceed
  <2> HIDE DEF s
  <2>5. /\ g \in GlobalState /\ g.lev = lev /\ g.deferred = deferred
        /\ g.as[a] = s /\ \A b \in Accepting \ {a} : g.as[b] = as[b]
        /\ Same(Global, g)
    <3>1. s.freed = Global.as[a].freed
      BY <1>0, <2>3
    <3>2. /\ g \in GlobalState /\ g.lev = Global.lev /\ g.deferred = Global.deferred
          /\ g.as[a] = s /\ \A b \in Accepting \ {a} : g.as[b] = Global.as[b]
          /\ Same(Global, g)
      BY <1>0, <2>3, <3>1, OneSocket
    <3> HIDE DEF g
    <3> QED
      BY <1>0, <3>2
  <2> HIDE DEF g
  <2>6. CASE as[a].free_on_cb
    <3> DEFINE f == FreeAccepting(g, a)
    <3>1. Become(f)
      BY <2>4, <2>6
    <3>2. kind = "iocp"
      BY <1>0, <2>4 DEF LoopOK
    <3>3. Works(g, at.a)
      BY <1>0, <2>5, <2>6, <3>2 DEF Works, SocketWorks
    <3>4. Counted(g, Running) /\ Running \in {0, 1}
      BY <1>0, <2>5, SameCounted DEF Running
    <3>5. ~g.as[a].freed /\ g.as[a].free_on_cb
      BY <2>3, <2>4, <2>5, <2>6
    <3>6. /\ f \in GlobalState /\ Counted(f, Running) /\ Works(f, at.a)
          /\ f.lev.user <=> g.lev.user
          /\ \A b \in Accepting : g.as[b].freed => f.as[b].freed
      BY <2>5, <3>2, <3>3, <3>4, <3>5, FreeAcceptingOK
    <3> HIDE DEF f
    <3>7. LoopOK'
      <4>1. \A b \in Accepting : as[b].freed => as'[b].freed
        BY <1>0, <2>5, <3>1, <3>6 DEF Same, Become
      <4>2. lev.user => lev'.user
        BY <2>5, <3>1, <3>6 DEF Become
      <4> QED
        BY <1>0, <1>1, <4>1, <4>2, LoopKept
    <3>8. Running' = Running /\ at' = at
      BY <1>1 DEF Running
    <3> QED
      BY <1>0, <1>1, <2>4, <3>1, <3>6, <3>7, <3>8, BecomeIInv
  <2>7. CASE ~as[a].free_on_cb /\ as[a].s = "invalid"
    <3>1. Become(g)
      BY <2>4, <2>7
    <3>2. SocketWorks(Global, a, at.a) => SocketWorks(g, a, at.a)
      BY <1>0, <2>3, <2>5, <2>7 DEF SocketWorks
    <3>3. Works(g, at.a)
      <4>1. Beside(Global, g, a)
        BY <1>0, <2>5 DEF Beside
      <4> QED
        BY <1>0, <3>2, <4>1, OneSocketStays
    <3> QED
      BY <1>0, <1>1, <2>4, <2>5, <3>1, <3>3, SameIInv
  <2>8. CASE ~as[a].free_on_cb /\ as[a].s # "invalid"
    <3> DEFINE u == [s EXCEPT !.error = TRUE]
               g1 == [g EXCEPT !.as = [g.as EXCEPT ![a] = u]]
               f == Schedule(g1, a)
    <3>1. [g EXCEPT !.as[a].error = TRUE] = g1
      BY <2>5 DEF GlobalState
    <3>2. Become(f)
      BY <2>4, <2>8, <3>1
    <3>3. /\ u \in AsState /\ u.freed = s.freed /\ u.free_on_cb = s.free_on_cb /\ u.s = s.s
      BY <2>3 DEF AsState
    <3> HIDE DEF u
    <3>4. /\ g1 \in GlobalState /\ g1.lev = lev /\ g1.deferred = deferred
          /\ g1.as[a] = u /\ \A b \in Accepting \ {a} : g1.as[b] = as[b]
          /\ Same(g, g1)
      BY <2>5, <3>3, OneSocket
    <3> HIDE DEF g1
    <3>5. /\ f \in GlobalState /\ f.lev = lev /\ f.as = g1.as /\ Same(g1, f)
          /\ Contains(f.deferred, a)
          /\ \A b : Contains(deferred, b) => Contains(f.deferred, b)
      BY <3>4, ScheduleOK
    <3> HIDE DEF f
    <3>6. Same(Global, f)
      BY <2>5, <3>4, <3>5, SameTrans
    <3>7. SocketWorks(Global, a, at.a) => SocketWorks(f, a, at.a)
      BY <1>0, <2>3, <3>3, <3>4, <3>5 DEF SocketWorks
    <3>8. Works(f, at.a)
      <4>1. Beside(Global, f, a)
        BY <1>0, <3>4, <3>5 DEF Beside
      <4> QED
        BY <1>0, <3>7, <4>1, OneSocketStays
    <3> QED
      BY <1>0, <1>1, <2>4, <3>2, <3>5, <3>6, <3>8, SameIInv
  <2> QED
    BY <2>2, <2>6, <2>7, <2>8
<1> QED
  BY <1>2, <1>3

(* The first of the queue leaves it, the others stay. *)
LEMMA TailOK ==
  ASSUME NEW q \in Seq(Accepting), q # <<>>
  PROVE  /\ Head(q) \in Accepting /\ Tail(q) \in Seq(Accepting)
         /\ \A b : Contains(q, b) /\ b # Head(q) => Contains(Tail(q), b)
<1>1. /\ Len(q) \in Nat \ {0} /\ Head(q) = q[1] /\ Head(q) \in Accepting
      /\ Tail(q) \in Seq(Accepting) /\ Len(Tail(q)) = Len(q) - 1
      /\ \A i \in 1..Len(Tail(q)) : Tail(q)[i] = q[i + 1]
  BY HeadTailProperties
<1>2. ASSUME NEW b, Contains(q, b), b # Head(q) PROVE Contains(Tail(q), b)
  <2>1. PICK i \in 1..Len(q) : q[i] = b
    BY <1>2 DEF Contains
  <2>2. i - 1 \in 1..Len(Tail(q)) /\ (i - 1) + 1 = i
    BY <1>1, <1>2, <2>1
  <2>3. Tail(q)[i - 1] = b
    BY <1>1, <2>1, <2>2
  <2> QED
    BY <2>2, <2>3 DEF Contains
<1> QED
  BY <1>1, <1>2

(* The deferred callback of a socket begins: with the socket goes a        *)
(* reference of its own, or the socket was to be freed.                    *)
LEMMA InvokeIInv == ASSUME IInv, InvokeUserCb PROVE IInv'
<1> DEFINE a == Head(deferred)
           g == [Global EXCEPT !.deferred = Tail(deferred)]
<1>0. /\ Global \in GlobalState /\ Global.lev = lev /\ Global.as = as
      /\ Global.deferred = deferred /\ lev \in LevState
      /\ as \in [Accepting -> AsState] /\ deferred \in Seq(Accepting)
      /\ at \in [place : Places, a : Accepting \cup {NoSocket}]
      /\ trouble \in {"none", "freed memory", "deadlock"}
      /\ arrived \in Nat /\ calls \in Nat
      /\ Works(Global, at.a) /\ Counted(Global, Running) /\ LoopOK
  BY IInvState
<1>1. /\ kind = "iocp" /\ at = Idle /\ deferred # <<>>
      /\ UNCHANGED <<kind, arrived, calls>>
  BY DEF InvokeUserCb
<1>2. at.place = "idle" /\ at.a = NoSocket /\ Running = 0
  BY <1>1 DEF Idle, Running
<1>3. /\ a \in Accepting /\ Tail(deferred) \in Seq(Accepting)
      /\ \A b : Contains(deferred, b) /\ b # a => Contains(Tail(deferred), b)
  BY <1>0, <1>1, TailOK
<1>4. /\ g \in GlobalState /\ g.lev = lev /\ g.as = as /\ g.deferred = Tail(deferred)
  BY <1>0, <1>3, SetDeferred
<1>5. g = [Global EXCEPT !.deferred = Tail(@)]
  BY <1>0 DEF GlobalState
<1>6. LET g1 == [g EXCEPT !.lev.refcnt = @ + 1]
      IN  CASE as[a].freed ->
                  /\ trouble' = "freed memory" /\ at' = at
                  /\ UNCHANGED <<lev, as, deferred>>
             [] ~as[a].freed /\ as[a].free_on_cb -> Proceed(FreeAccepting(g, a)) /\ at' = at
             [] ~as[a].freed /\ ~as[a].free_on_cb /\ as[a].error ->
                  /\ Proceed([g1 EXCEPT !.as[a].error = FALSE])
                  /\ at' = [place |-> "errorcb", a |-> a]
             [] OTHER ->
                  /\ Proceed([g1 EXCEPT
                       !.as[a].s = "invalid",
                       !.as[a].strays = IF as[a].s = "pending" THEN @ + 1 ELSE @])
                  /\ at' = [place |-> "cb", a |-> a]
  BY <1>5 DEF InvokeUserCb
<1> HIDE DEF a, g
<1>7. /\ as[a] \in AsState /\ as[a].freed \in BOOLEAN /\ as[a].free_on_cb \in BOOLEAN
      /\ as[a].error \in BOOLEAN /\ as[a].strays \in Nat
  <2>1. as[a] \in AsState
    BY <1>0, <1>3
  <2> QED
    BY <2>1 DEF AsState
<1>8. Counted(g, 0)
  <2>1. Same(Global, g)
    BY <1>0, <1>4 DEF Same
  <2> QED
    BY <1>0, <1>2, <2>1, SameCounted
<1>9. CASE as[a].freed
  BY <1>0, <1>1, <1>6, <1>9, RestIInv
<1>10. CASE ~as[a].freed /\ as[a].free_on_cb
  <2> DEFINE h == FreeAccepting(g, a)
  <2>1. Become(h) /\ at' = at /\ trouble' = trouble
    BY <1>6, <1>10 DEF Proceed
  <2>2. Works(g, NoSocket)
    <3>1. ~SocketWorks(Global, a, NoSocket)
      BY <1>0, <1>10 DEF SocketWorks
    <3>2. ~lev.user
      BY <1>0, <1>1, <1>2, <1>3, <3>1 DEF Works
    <3> QED
      BY <1>4, <3>2 DEF Works
  <2>3. ~g.as[a].freed /\ g.as[a].free_on_cb
    BY <1>4, <1>10
  <2>4. /\ h \in GlobalState /\ Works(h, NoSocket) /\ Counted(h, 0)
        /\ h.lev.user <=> g.lev.user
        /\ \A b \in Accepting : g.as[b].freed => h.as[b].freed
    BY <1>1, <1>3, <1>4, <1>8, <2>2, <2>3, FreeAcceptingOK
  <2> HIDE DEF h
  <2>5. LoopOK'
    <3>1. \A b \in Accepting : as[b].freed => as'[b].freed
      BY <1>4, <2>1, <2>4 DEF Become
    <3>2. lev.user => lev'.user
      BY <1>4, <2>1, <2>4 DEF Become
    <3> QED
      BY <1>0, <1>1, <2>1, <3>1, <3>2, LoopKept
  <2>6. Running' = 0
    BY <1>2, <2>1 DEF Running
  <2> QED
    BY <1>0, <1>1, <1>2, <2>1, <2>4, <2>5, <2>6, BecomeIInv
<1>11. CASE ~as[a].freed /\ ~as[a].free_on_cb
  <2> DEFINE l == [lev EXCEPT !.refcnt = @ + 1]
             g1 == [g EXCEPT !.lev = l]
  <2>1. lev.refcnt + 1 \in Nat /\ lev.refcnt + 1 > 0
    BY CountedNow, PlusOne, Zenon
  <2>2. /\ l \in LevState /\ l.refcnt = lev.refcnt + 1 /\ l.freed = lev.freed
        /\ l.user = lev.user /\ l.enabled = lev.enabled /\ l.cb = lev.cb
        /\ l.event_added = lev.event_added
    BY <1>0, <2>1 DEF LevState
  <2>3. [g EXCEPT !.lev.refcnt = @ + 1] = g1
    BY <1>4 DEF GlobalState
  <2> HIDE DEF l
  <2>4. /\ g1 \in GlobalState /\ g1.lev = l /\ g1.as = as /\ g1.deferred = Tail(deferred)
    BY <1>4, <2>2, SetLev
  <2> HIDE DEF g1
  <2>5. PICK s \in AsState, p \in {"cb", "errorcb"} :
          /\ ~s.freed /\ ~s.free_on_cb /\ (s.s = as[a].s \/ s.s = "invalid")
          /\ Become([g1 EXCEPT !.as = [g1.as EXCEPT ![a] = s]]) /\ trouble' = trouble
          /\ at' = [place |-> p, a |-> a]
    <3>1. CASE as[a].error
      <4> DEFINE s == [as[a] EXCEPT !.error = FALSE]
      <4>1. s \in AsState /\ ~s.freed /\ ~s.free_on_cb /\ s.s = as[a].s
        BY <1>7, <1>11 DEF AsState
      <4>2. [g1 EXCEPT !.as[a].error = FALSE] = [g1 EXCEPT !.as = [g1.as EXCEPT ![a] = s]]
        BY <2>4 DEF GlobalState
      <4> HIDE DEF s
      <4>3. /\ Become([g1 EXCEPT !.as = [g1.as EXCEPT ![a] = s]]) /\ trouble' = trouble
            /\ at' = [place |-> "errorcb", a |-> a]
        BY <1>6, <1>11, <2>3, <3>1, <4>2 DEF Proceed
      <4> QED
        BY <4>1, <4>3
    <3>2. CASE ~as[a].error
      <4> DEFINE n == IF as[a].s = "pending" THEN as[a].strays + 1 ELSE as[a].strays
                 s == [as[a] EXCEPT !.s = "invalid", !.strays = n]
      <4>1. n \in Nat
        BY <1>7, PlusOne
      <4>2. [g1 EXCEPT !.as[a].s = "invalid",
                       !.as[a].strays = IF as[a].s = "pending" THEN @ + 1 ELSE @]
              = [g1 EXCEPT !.as = [g1.as EXCEPT ![a] = s]]
        BY <1>0, <1>3, <1>7, <2>4 DEF GlobalState, AsState
      <4> HIDE DEF n
      <4>3. s \in AsState /\ ~s.freed /\ ~s.free_on_cb /\ s.s = "invalid"
        BY <1>7, <1>11, <4>1 DEF AsState, SocketStates
      <4> HIDE DEF s
      <4>4. /\ Become([g1 EXCEPT !.as = [g1.as EXCEPT ![a] = s]]) /\ trouble' = trouble
            /\ at' = [place |-> "cb", a |-> a]
        BY <1>6, <1>11, <2>3, <3>2, <4>2 DEF Proceed
      <4> QED
        BY <4>3, <4>4
    <3> QED
      BY <3>1, <3>2
  <2> DEFINE h == [g1 EXCEPT !.as = [g1.as EXCEPT ![a] = s]]
  <2>6. /\ h \in GlobalState /\ h.lev = l /\ h.deferred = Tail(deferred)
        /\ h.as[a] = s /\ \A b \in Accepting \ {a} : h.as[b] = as[b]
        /\ Same(g1, h)
    <3>1. s.freed = g1.as[a].freed
      BY <1>11, <2>4, <2>5, <1>7 DEF AsState
    <3>2. /\ h \in GlobalState /\ h.lev = g1.lev /\ h.deferred = g1.deferred
          /\ h.as[a] = s /\ \A b \in Accepting \ {a} : h.as[b] = g1.as[b]
          /\ Same(g1, h)
      BY <1>3, <2>4, <2>5, <3>1, OneSocket
    <3> HIDE DEF h
    <3> QED
      BY <2>4, <3>2
  <2>7. Become(h)
    BY <2>5
  <2> HIDE DEF h
  <2>8. Works(h, a)
    <3>1. Beside(Global, h, a)
      BY <1>0, <1>3, <2>2, <2>6 DEF Beside
    <3>2. SocketWorks(Global, a, NoSocket) => SocketWorks(h, a, a)
      BY <1>0, <2>2, <2>5, <2>6 DEF SocketWorks
    <3>3. \A b \in Accepting \ {a} : NoSocket = b => a = b
      OBVIOUS
    <3>4. Works(Global, NoSocket)
      BY <1>0, <1>2
    <3> QED
      BY <1>3, <3>1, <3>2, <3>3, <3>4, OneSocketWorks
  <2>9. Counted(h, 1)
    <3>1. {b \in Accepting : ~h.as[b].freed} = {b \in Accepting : ~as[b].freed}
      BY <2>4, <2>6 DEF Same
    <3>2. Owners(h) = Owners(Global)
      BY <1>0, <2>2, <2>6, <3>1 DEF Owners
    <3>3. ~lev.freed
      <4>1. Owners(Global) # 0
        <5>1. ~Global.as[a].freed
          BY <1>0, <1>11
        <5> QED
          BY <1>3, <5>1, OwnersNat, Zenon
      <4> QED
        BY <1>2, <4>1, CountedNow
    <3>4. h.lev.refcnt = Owners(h) + 1
      BY <1>2, <2>2, <2>6, <3>2, CountedNow
    <3>5. ~h.lev.freed /\ h.lev.refcnt # 0
      BY <2>1, <2>2, <2>6, <3>3
    <3> QED
      BY <3>4, <3>5 DEF Counted
  <2>10. /\ at' \in [place : Places, a : Accepting \cup {NoSocket}]
         /\ at'.a = a /\ Running' = 1 /\ at'.place = p
    BY <1>3, <2>5 DEF Running, Places
  <2>11. LoopOK'
    BY <1>1, <1>3, <2>5, <2>10 DEF LoopOK
  <2> QED
    BY <1>0, <1>1, <2>5, <2>6, <2>7, <2>8, <2>9, <2>10, <2>11, BecomeIInv
<1> QED
  BY <1>7, <1>9, <1>10, <1>11

(* The callback of an overlapped listener returns. *)
LEMMA UserCbIInv == ASSUME IInv, UserCbReturns PROVE IInv'
<1> DEFINE h == listener_decref_and_unlock(Global)
<1>0. /\ Global \in GlobalState /\ Global.lev = lev /\ Global.as = as
      /\ at \in [place : Places, a : Accepting \cup {NoSocket}]
      /\ trouble \in {"none", "freed memory", "deadlock"}
      /\ arrived \in Nat /\ calls \in Nat
      /\ Works(Global, at.a) /\ LoopOK
  BY IInvState
<1>1. /\ kind = "iocp" /\ at.place \in {"cb", "errorcb"}
      /\ UNCHANGED <<kind, trouble, arrived, calls>> /\ Become(h)
      /\ at' = IF h.lev.freed THEN Idle ELSE [at EXCEPT !.place = "restart"]
  BY DEF UserCbReturns
<1>2. Running = 1 /\ at.a \in Accepting
  BY <1>0, <1>1 DEF Running, LoopOK
<1>3. lev.refcnt = Owners(Global) + 1 /\ ~lev.freed /\ Owners(Global) + 0 + 1 = Owners(Global) + 1
  BY <1>2, CountedNow
<1>4. Global.lev.refcnt = Owners(Global) + 0 + 1 /\ ~Global.lev.freed
  BY <1>0, <1>3
<1>5. /\ h \in GlobalState /\ Counted(h, 0) /\ Works(h, at.a)
      /\ h.lev.user <=> lev.user
      /\ h.lev.freed => ~lev.user
  BY <1>0, <1>4, DecrefOK
<1> HIDE DEF h
<1>6. /\ at' \in [place : Places, a : Accepting \cup {NoSocket}]
      /\ at'.place \in {"idle", "restart"} /\ Running' = 0
      /\ at'.place = "idle" => at'.a = NoSocket
      /\ at'.place = "restart" => at'.a = at.a
      /\ at'.place = "idle" => h.lev.freed
  <2>1. CASE h.lev.freed
    BY <1>1, <2>1 DEF Idle, Places, Running
  <2>2. CASE ~h.lev.freed
    BY <1>0, <1>1, <2>2 DEF Places, Running
  <2> QED
    BY <2>1, <2>2
<1>7. LoopOK'
  BY <1>1, <1>2, <1>6 DEF LoopOK
<1>8. Works(h, at'.a)
  <2>1. CASE at'.place = "idle"
    BY <1>5, <1>6, <2>1 DEF Works
  <2>2. CASE at'.place = "restart"
    BY <1>5, <1>6, <2>2
  <2> QED
    BY <1>6, <2>1, <2>2
<1> QED
  BY <1>0, <1>1, <1>5, <1>6, <1>7, <1>8, BecomeIInv

(* The loop accepts again on the socket of the callback. *)
LEMMA AgainIInv == ASSUME IInv, AcceptAgain PROVE IInv'
<1>0. /\ Global \in GlobalState /\ Global.lev = lev /\ Global.as = as
      /\ Global.deferred = deferred /\ deferred \in Seq(Accepting)
      /\ at \in [place : Places, a : Accepting \cup {NoSocket}]
      /\ trouble \in {"none", "freed memory", "deadlock"}
      /\ arrived \in Nat /\ calls \in Nat /\ kind \in {"event", "iocp"}
      /\ Works(Global, at.a) /\ Counted(Global, Running) /\ LoopOK
  BY IInvState
<1>1. at.place = "restart" /\ UNCHANGED <<kind, arrived, calls>>
  BY DEF AcceptAgain
<1>2. kind = "iocp" /\ at.a \in Accepting /\ Running = 0
  BY <1>0, <1>1 DEF LoopOK, Running
<1>3. Idle.place = "idle" /\ Idle.a = NoSocket
      /\ Idle \in [place : Places, a : Accepting \cup {NoSocket}]
  BY DEF Idle, Places
<1>4. CASE as[at.a].freed
  <2>1. trouble' = "freed memory" /\ at' = Idle /\ UNCHANGED <<lev, as, deferred>>
    BY <1>4 DEF AcceptAgain
  <2>2. ~SocketWorks(Global, at.a, at.a)
    BY <1>0, <1>4 DEF SocketWorks
  <2>3. ~lev.user
    BY <1>0, <1>2, <2>2 DEF Works
  <2>4. Works(Global, NoSocket)
    BY <1>0, <2>3 DEF Works
  <2>5. Become(Global)
    BY <1>0, <2>1 DEF Become
  <2>6. Running' = 0 /\ at'.a = NoSocket
    BY <1>3, <2>1 DEF Running
  <2>7. LoopOK'
    BY <1>1, <1>2, <1>3, <2>1 DEF LoopOK
  <2> QED
    BY <1>0, <1>1, <1>2, <1>3, <2>1, <2>4, <2>5, <2>6, <2>7, BecomeIInv
<1>5. CASE ~as[at.a].freed
  <2>1. PICK o \in Outcomes :
          LET g == start_accepting(Global, {at.a}, [a \in {at.a} |-> o])
              reporting == lev.enabled /\ o = "success"
          IN  /\ Proceed(IF reporting THEN [g EXCEPT !.deferred = deferred] ELSE g)
              /\ at' = IF reporting THEN [at EXCEPT !.place = "reporting"] ELSE Idle
    BY <1>5 DEF AcceptAgain
  <2> DEFINE f == [a \in {at.a} |-> o]
             S == {at.a}
             g == start_accepting(Global, S, f)
  <2>2. S \in SUBSET Accepting /\ \A a \in S : f[a] \in Outcomes
    BY <1>2
  <2> HIDE DEF f
  <2>3. /\ g \in GlobalState /\ Same(Global, g)
        /\ g.lev.enabled = lev.enabled /\ g.lev.cb = lev.cb
        /\ g.lev.event_added = lev.event_added
        /\ \A a \in Accepting : g.as[a].free_on_cb = as[a].free_on_cb
        /\ \A a \in Accepting \ {at.a} : g.as[a] = as[a]
        /\ \A a : Contains(deferred, a) => Contains(g.deferred, a)
        /\ lev.enabled => \/ g.as[at.a].s = "pending" \/ g.as[at.a].ok > 0
                          \/ g.as[at.a].refused \/ Contains(g.deferred, at.a)
        /\ ~lev.enabled => g = Global
    <3>1. /\ g \in GlobalState /\ Same(Global, g)
          /\ g.lev.enabled = Global.lev.enabled /\ g.lev.cb = Global.lev.cb
          /\ g.lev.event_added = Global.lev.event_added
          /\ \A a \in Accepting : g.as[a].free_on_cb = Global.as[a].free_on_cb
          /\ \A a \in Accepting \ S : g.as[a] = Global.as[a]
          /\ \A a : Contains(Global.deferred, a) => Contains(g.deferred, a)
          /\ Global.lev.enabled =>
               \A a \in S : \/ g.as[a].s = "pending" \/ g.as[a].ok > 0
                            \/ g.as[a].refused \/ Contains(g.deferred, a)
      <4> HIDE DEF S
      <4>1. Global \in GlobalState /\ S \in SUBSET Accepting
        BY <1>0, <2>2
      <4>2. \A a \in S : f[a] \in Outcomes
        BY <2>2
      <4> QED
        BY <4>1, <4>2, StartAcceptingOK
    <3>2. ~Global.lev.enabled => g = Global
      BY DEF start_accepting
    <3> HIDE DEF g
    <3> QED
      BY <1>0, <3>1, <3>2
  <2>4. CASE lev.enabled /\ o = "success"
    <3> DEFINE h == [g EXCEPT !.deferred = deferred]
    <3>1. /\ Become(h) /\ trouble' = trouble /\ at' = [at EXCEPT !.place = "reporting"]
      BY <2>1, <2>4 DEF Proceed, f
    <3> HIDE DEF g
    <3>2. h \in GlobalState /\ h.lev = g.lev /\ h.as = g.as /\ h.deferred = deferred
      BY <1>0, <2>3, SetDeferred
    <3> HIDE DEF h
    <3>3. Same(Global, h)
      BY <2>3, <3>2 DEF Same
    <3>4. Works(h, at.a)
      <4>1. h.lev.user = lev.user
        BY <1>0, <2>3, <3>2, <3>3, IInvState DEF Same, GlobalState, LevState
      <4>2. Beside(Global, h, at.a)
        BY <1>0, <2>3, <3>2, <4>1 DEF Beside
      <4>3. SocketWorks(Global, at.a, at.a) => SocketWorks(h, at.a, at.a)
        <5>1. /\ h.as[at.a].freed <=> Global.as[at.a].freed
              /\ h.as[at.a].free_on_cb = Global.as[at.a].free_on_cb
              /\ h.lev.enabled
          BY <1>0, <1>2, <2>3, <2>4, <3>2, <3>3 DEF Same
        <5> QED
          BY <5>1 DEF SocketWorks
      <4> QED
        BY <1>0, <1>2, <4>2, <4>3, OneSocketStays
    <3>5. Counted(h, 0)
      BY <1>0, <1>2, <3>3, SameCounted
    <3>6. /\ at' \in [place : Places, a : Accepting \cup {NoSocket}]
          /\ at'.place = "reporting" /\ at'.a = at.a /\ Running' = 0
      BY <1>0, <3>1 DEF Places, Running
    <3>7. LoopOK'
      BY <1>1, <1>2, <3>6 DEF LoopOK
    <3> QED
      BY <1>0, <1>1, <3>1, <3>2, <3>4, <3>5, <3>6, <3>7, BecomeIInv
  <2>5. CASE ~(lev.enabled /\ o = "success")
    <3>1. Become(g) /\ trouble' = trouble /\ at' = Idle
      BY <2>1, <2>5 DEF Proceed, f
    <3> HIDE DEF g
    <3>2. Works(g, NoSocket)
      <4>1. g.lev.user = lev.user
        BY <1>0, <2>3, IInvState DEF Same, GlobalState, LevState
      <4>2. Beside(Global, g, at.a)
        BY <1>0, <2>3, <4>1 DEF Beside
      <4>3. SocketWorks(Global, at.a, at.a) => SocketWorks(g, at.a, NoSocket)
        BY <1>0, <1>2, <2>3 DEF SocketWorks, Same
      <4>4. \A b \in Accepting \ {at.a} : at.a = b => NoSocket = b
        OBVIOUS
      <4> QED
        BY <1>0, <1>2, <4>2, <4>3, <4>4, OneSocketWorks
    <3>3. Counted(g, 0)
      BY <1>0, <1>2, <2>3, SameCounted
    <3>4. Running' = 0 /\ at'.a = NoSocket /\ at'.place = "idle"
      BY <1>3, <3>1 DEF Running
    <3>5. LoopOK'
      BY <1>1, <1>2, <3>4 DEF LoopOK
    <3> QED
      BY <1>0, <1>1, <1>3, <2>3, <3>1, <3>2, <3>3, <3>4, <3>5, BecomeIInv
  <2> QED
    BY <2>4, <2>5
<1> QED
  BY <1>4, <1>5

LEMMA ReportIInv == ASSUME IInv, ReportSuccess PROVE IInv'
<1> DEFINE h == Schedule(Global, at.a)
<1>0. /\ Global \in GlobalState /\ Global.lev = lev /\ Global.as = as
      /\ Global.deferred = deferred
      /\ trouble \in {"none", "freed memory", "deadlock"}
      /\ arrived \in Nat /\ calls \in Nat /\ kind \in {"event", "iocp"}
      /\ Works(Global, at.a) /\ Counted(Global, Running) /\ LoopOK
  BY IInvState
<1>1. /\ at.place = "reporting" /\ UNCHANGED <<kind, trouble, arrived, calls>>
      /\ Become(h) /\ at' = Idle
  BY DEF ReportSuccess
<1>2. kind = "iocp" /\ at.a \in Accepting /\ Running = 0
  BY <1>0, <1>1 DEF LoopOK, Running
<1>3. /\ h \in GlobalState /\ h.lev = lev /\ h.as = as /\ Same(Global, h)
      /\ Contains(h.deferred, at.a)
      /\ \A b : Contains(deferred, b) => Contains(h.deferred, b)
  BY <1>0, <1>2, ScheduleOK
<1> HIDE DEF h
<1>4. Works(h, NoSocket)
  <2>1. Beside(Global, h, at.a)
    BY <1>0, <1>3 DEF Beside
  <2>2. SocketWorks(Global, at.a, at.a) => SocketWorks(h, at.a, NoSocket)
    BY <1>0, <1>3 DEF SocketWorks
  <2>3. \A b \in Accepting \ {at.a} : at.a = b => NoSocket = b
    OBVIOUS
  <2> QED
    BY <1>0, <1>2, <2>1, <2>2, <2>3, OneSocketWorks
<1>5. Counted(h, 0)
  BY <1>0, <1>2, <1>3, SameCounted
<1>6. /\ Running' = 0 /\ at'.a = NoSocket /\ at'.place = "idle"
      /\ at' \in [place : Places, a : Accepting \cup {NoSocket}]
  BY <1>1 DEF Running, Idle, Places
<1>7. LoopOK'
  BY <1>1, <1>2, <1>6 DEF LoopOK
<1> QED
  BY <1>0, <1>1, <1>3, <1>4, <1>5, <1>6, <1>7, BecomeIInv

-----------------------------------------------------------------------------
(* A new listener, with the references of the user and of its sockets. *)
LEMMA InitIInv == Init => IInv
<1> SUFFICES ASSUME Init PROVE IInv
  OBVIOUS
<1>0. /\ kind \in {"event", "iocp"} /\ arrived \in Nat /\ at = Idle
      /\ trouble = "none" /\ calls = 0
  BY DEF Init
<1>1. PICK safe \in BOOLEAN, close \in BOOLEAN, cb \in BOOLEAN,
           outcome \in [Accepting -> Outcomes \ {"refused"}] :
         LET g == [lev |-> NewListener(safe, close, cb),
                   as |-> [a \in Accepting |-> new_accepting_socket],
                   deferred |-> <<>>]
             g1 == IF cb /\ kind = "iocp"
                   THEN start_accepting(g, Accepting, outcome)
                   ELSE g
         IN  lev = g1.lev /\ as = g1.as /\ deferred = g1.deferred
  BY DEF Init
<1> DEFINE l == NewListener(safe, close, cb)
           f == [a \in Accepting |-> new_accepting_socket]
           g == [lev |-> l, as |-> f, deferred |-> <<>>]
           h == IF cb /\ kind = "iocp" THEN start_accepting(g, Accepting, outcome) ELSE g
<1>2. lev = h.lev /\ as = h.as /\ deferred = h.deferred
  BY <1>1
<1>3. Cardinality(Accepting) \in Nat
  BY FS_CardinalityType
<1>4. /\ l \in LevState /\ l.user /\ ~l.freed /\ l.enabled /\ l.cb = cb
      /\ l.event_added = (cb \/ kind = "iocp")
      /\ l.refcnt = IF kind = "iocp" THEN 1 + Cardinality(Accepting) ELSE 1
  <2> DEFINE n == IF kind = "iocp" THEN 1 + Cardinality(Accepting) ELSE 1
  <2>1. n \in Nat
    BY <1>3
  <2>2. l = [threadsafe |-> safe, close_on_free |-> close, refcnt |-> n,
             enabled |-> TRUE, cb |-> cb, errorcb |-> FALSE,
             event_added |-> cb \/ kind = "iocp",
             shutting_down |-> FALSE, open |-> TRUE, freed |-> FALSE, user |-> TRUE,
             accepted |-> 0, leaked |-> FALSE]
    BY DEF NewListener
  <2> HIDE DEF n
  <2>3. /\ l \in LevState /\ l.user /\ ~l.freed /\ l.enabled /\ l.cb = cb
        /\ l.event_added = (cb \/ kind = "iocp") /\ l.refcnt = n
    BY <2>1, <2>2 DEF LevState
  <2> QED
    BY <2>3 DEF n
<1>5. /\ f \in [Accepting -> AsState]
      /\ \A a \in Accepting : /\ f[a].freed <=> kind = "event"
                              /\ ~f[a].free_on_cb /\ f[a].s = "invalid"
  BY DEF new_accepting_socket, AsState, SocketStates
<1> HIDE DEF l, f
<1>6. g \in GlobalState /\ g.lev = l /\ g.as = f
  BY <1>4, <1>5 DEF GlobalState
<1>7. Counted(g, 0)
  <2> DEFINE S == {a \in Accepting : ~g.as[a].freed}
  <2>1. S = IF kind = "iocp" THEN Accepting ELSE {}
    BY <1>0, <1>5, <1>6
  <2>2. Cardinality(S) = IF kind = "iocp" THEN Cardinality(Accepting) ELSE 0
    BY <2>1, FS_EmptySet
  <2>3. Owners(g) = 1 + Cardinality(S)
    BY <1>4, <1>6 DEF Owners
  <2> HIDE DEF S, g
  <2>4. l.refcnt = Owners(g) + 0 /\ l.refcnt # 0
    BY <1>3, <1>4, <2>2, <2>3
  <2> QED
    BY <1>4, <1>6, <2>4 DEF Counted
<1> HIDE DEF g
<1>8. h \in GlobalState /\ Same(g, h) /\ Works(h, NoSocket)
  <2>1. CASE cb /\ kind = "iocp"
    <3>1. /\ Accepting \in SUBSET Accepting
          /\ \A a \in Accepting : outcome[a] \in Outcomes
      OBVIOUS
    <3> DEFINE k == start_accepting(g, Accepting, outcome)
    <3>2. /\ k \in GlobalState /\ Same(g, k)
          /\ k.lev.enabled = g.lev.enabled /\ k.lev.event_added = g.lev.event_added
          /\ \A a \in Accepting : k.as[a].free_on_cb = g.as[a].free_on_cb
          /\ g.lev.enabled =>
               \A a \in Accepting : \/ k.as[a].s = "pending" \/ k.as[a].ok > 0
                                    \/ k.as[a].refused \/ Contains(k.deferred, a)
      BY <1>6, <3>1, StartAcceptingOK
    <3> HIDE DEF k
    <3>3. ASSUME NEW a \in Accepting PROVE SocketWorks(k, a, NoSocket)
      <4>1. ~k.as[a].freed /\ ~k.as[a].free_on_cb /\ k.lev.enabled
        BY <1>4, <1>5, <1>6, <2>1, <3>2 DEF Same
      <4> QED
        BY <1>4, <1>6, <3>2, <4>1 DEF SocketWorks
    <3>4. k.lev.event_added
      BY <1>4, <1>6, <2>1, <3>2
    <3>5. Works(k, NoSocket)
      BY <3>3, <3>4 DEF Works
    <3>6. h = k
      BY <2>1 DEF k
    <3> QED
      BY <3>2, <3>5, <3>6
  <2>2. CASE ~(cb /\ kind = "iocp")
    <3>1. h = g
      BY <2>2
    <3>2. Works(g, NoSocket)
      BY <1>4, <1>5, <1>6, <2>2 DEF Works, SocketWorks
    <3> QED
      BY <1>6, <3>1, <3>2 DEF Same
  <2> QED
    BY <2>1, <2>2
<1> HIDE DEF h
<1>9. Running = 0 /\ at.a = NoSocket /\ at.place = "idle"
      /\ at \in [place : Places, a : Accepting \cup {NoSocket}]
  BY <1>0 DEF Running, Idle, Places
<1>10. TypeOK
  BY <1>0, <1>2, <1>8, <1>9 DEF TypeOK, GlobalState
<1>11. Global.lev = h.lev /\ Global.as = h.as /\ Global.deferred = h.deferred
  BY <1>2 DEF Global
<1>12. Counted(h, 0)
  BY <1>7, <1>8, SameCounted
<1>13. Counted(Global, Running)
  BY <1>9, <1>11, <1>12 DEF Counted, Owners
<1>14. Works(Global, at.a)
  BY <1>8, <1>9, <1>11 DEF Works, SocketWorks
<1>15. LoopOK
  <2>1. kind = "event" => \A a \in Accepting : as[a].freed
    BY <1>2, <1>5, <1>6, <1>8 DEF Same
  <2> QED
    BY <1>9, <2>1 DEF LoopOK
<1> QED
  BY <1>10, <1>13, <1>14, <1>15 DEF IInv

LEMMA NextIInv == IInv /\ [Next]_vars => IInv'
<1> SUFFICES ASSUME IInv, [Next]_vars PROVE IInv'
  OBVIOUS
<1>0. /\ trouble \in {"none", "freed memory", "deadlock"}
      /\ arrived \in Nat /\ calls \in Nat
  BY IInvState
<1>1. CASE UNCHANGED vars
  BY <1>0, <1>1, RestIInv DEF vars
<1>2. CASE UserStep
  BY <1>2, EnableIInv, DisableIInv, SetCbIInv, SetErrorCbIInv, FreeIInv DEF UserStep
<1>3. CASE LoopStep
  BY <1>3, EventLoopIInv, EventCallbackIInv, InvokeIInv, UserCbIInv, AgainIInv, ReportIInv
  DEF LoopStep
<1>4. CASE \E a \in Accepting : WorkerStep(a) \/ AcceptCompletes(a) \/ AcceptFails(a)
  BY <1>4, AcceptedIInv, AcceptFailedIInv, EndsIInv DEF WorkerStep
<1>5. CASE Arrive
  <2>1. arrived' \in Nat
    BY <1>0, <1>5, PlusOne, Zenon DEF Arrive
  <2> QED
    BY <1>0, <1>5, <2>1, RestIInv DEF Arrive
<1> QED
  BY <1>1, <1>2, <1>3, <1>4, <1>5 DEF Next

(* For any number of accepting sockets, with calls of the user from both   *)
(* threads in any order and every outcome of AcceptEx: the inductive       *)
(* invariant, which types the state, counts the references of              *)
(* listener_decref_and_unlock, keeps every socket of a listener in use     *)
(* going, and says where the loop can be.                                  *)
THEOREM ListenerInvariant == Spec => []IInv
BY InitIInv, NextIInv, PTL DEF Spec

(* The count that listener_decref_and_unlock tests is that of the user,    *)
(* the sockets that live and the callback that runs, so the listener goes  *)
(* with the last of them and never twice.                                  *)
THEOREM ReferencesCountedThm == Spec => []ReferencesCounted
<1>1. IInv => ReferencesCounted
  <2> SUFFICES ASSUME IInv PROVE ReferencesCounted
    OBVIOUS
  <2>1. /\ lev.refcnt = Owners(Global) + Running
        /\ lev.freed <=> lev.refcnt = 0
    BY CountedNow
  <2>2. Owners(Global) = (IF lev.user THEN 1 ELSE 0)
                         + Cardinality({a \in Accepting : ~as[a].freed})
    BY DEF Owners, Global
  <2> QED
    BY <2>1, <2>2 DEF ReferencesCounted, Running
<1> QED
  BY <1>1, ListenerInvariant, PTL

(* No sequence of evconnlistener_enable, evconnlistener_disable and        *)
(* evconnlistener_set_cb, and no outcome of AcceptEx but a socket refused  *)
(* by the port, leaves an enabled listener with a socket that rests.       *)
THEOREM AlwaysAcceptingThm == Spec => []AlwaysAccepting
<1>1. IInv => AlwaysAccepting
  <2> SUFFICES ASSUME IInv, lev.user, lev.enabled, lev.cb
               PROVE  /\ lev.event_added
                      /\ \A a \in Accepting :
                            \/ kind = "event" \/ as[a].s = "pending" \/ as[a].ok > 0
                            \/ as[a].failed > 0 \/ Contains(deferred, a) \/ at.a = a
                            \/ as[a].refused
    BY DEF AlwaysAccepting
  <2>1. /\ Works(Global, at.a) /\ Global.lev = lev /\ Global.as = as
        /\ Global.deferred = deferred /\ kind \in {"event", "iocp"}
    BY IInvState
  <2> QED
    BY <2>1 DEF Works, SocketWorks
<1> QED
  BY <1>1, ListenerInvariant, PTL

=============================================================================
