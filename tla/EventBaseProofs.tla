-------------------------- MODULE EventBaseProofs --------------------------
(***************************************************************************)
(* An event_base with any finite number of events, descriptors, signals    *)
(* and deferred callbacks, and any number of calls.  Inv is inductive: the *)
(* base is well formed (Good), the timer of the common list is due (Due),  *)
(* a pending notification has its byte (Alert), and a loop in select() has *)
(* nothing to do before its time is up, or a byte waits for it (Covered).  *)
(* The lemmas follow the operators of EventBase from the queues up to the  *)
(* actions.                                                                *)
(***************************************************************************)
EXTENDS EventBase, FiniteSetTheorems, SequenceTheorems, WellFoundedInduction, TLAPS

-----------------------------------------------------------------------------
(* Numbers and queues.                                                     *)

(* A set of numbers that is not empty has a least one. *)
LEMMA LeastNumber ==
    ASSUME NEW T \in SUBSET Nat, T # {}
    PROVE  \E x \in T : \A y \in T : x <= y
<1> DEFINE R == {ss \in Nat \X Nat : ss[1] < ss[2]}
<1>1. IsWellFoundedOn(R, Nat)
  BY NatLessThanWellFounded DEF OpToRel
<1>2. PICK x \in T : \A y \in T : ~ (<<y, x>> \in R)
  <2> HIDE DEF R
  <2> QED BY <1>1, WFMin
<1>3. \A y \in T : x <= y
  <2> TAKE y \in T
  <2>1. x \in Nat /\ y \in Nat
    OBVIOUS
  <2>2. ~(y < x)
    BY <1>2, <2>1
  <2> QED BY <2>1, <2>2
<1> QED BY <1>3

(* Induction up to n, for a set of numbers instead of a predicate. *)
LEMMA UpTo ==
    ASSUME NEW n \in Nat, NEW P, 0 \in P,
           \A i \in 0..n : i < n /\ i \in P => i + 1 \in P
    PROVE  0..n \subseteq P
<1> DEFINE T == {i \in 0..n : i \notin P}
<1> SUFFICES ASSUME T # {} PROVE FALSE
  OBVIOUS
<1>1. T \in SUBSET Nat
  OBVIOUS
<1>2. PICK x \in T : \A y \in T : x <= y
  <2> HIDE DEF T
  <2> QED BY <1>1, LeastNumber
<1>3. x \in 0..n /\ x \notin P /\ x # 0
  OBVIOUS
<1>4. x - 1 \in 0..n /\ x - 1 < n
  BY <1>3
<1>5. x - 1 \notin T
  BY <1>2, <1>4, <1>3
<1>6. x - 1 \in P
  BY <1>5, <1>4
<1>7. (x - 1) + 1 \in P
  BY <1>6, <1>4
<1> QED BY <1>7, <1>3

(* The greatest of some numbers up to k is one of them. *)
LEMMA GreatestUpTo ==
    ASSUME NEW k \in Nat, NEW t \in SUBSET (1..k), t # {}
    PROVE  Max(t) \in t /\ \A y \in t : Max(t) >= y
<1> DEFINE U == {k - x : x \in t}
<1>1. U \in SUBSET Nat /\ U # {}
  <2>1. \A x \in t : k - x \in Nat
    OBVIOUS
  <2>2. PICK x \in t : TRUE
    OBVIOUS
  <2>3. k - x \in U
    OBVIOUS
  <2> QED BY <2>1, <2>3
<1>2. PICK u \in U : \A y \in U : u <= y
  <2> HIDE DEF U
  <2> QED BY <1>1, LeastNumber
<1>3. PICK x \in t : u = k - x
  OBVIOUS
<1>4. ASSUME NEW y \in t PROVE x >= y
  <2>1. k - y \in U
    OBVIOUS
  <2>2. k - x <= k - y
    BY <2>1, <1>2, <1>3
  <2>3. x \in Int /\ y \in Int
    OBVIOUS
  <2> QED BY <2>2, <2>3
<1> QED BY <1>4 DEF Max

(* ... and the end when the end is among them. *)
LEMMA GreatestIsEnd ==
    ASSUME NEW k \in Nat, NEW t \in SUBSET (1..k), k \in t
    PROVE  Max(t) = k
<1>1. Max(t) \in t /\ Max(t) >= k
  BY GreatestUpTo
<1>2. Max(t) \in 1..k
  BY <1>1
<1> QED BY <1>1, <1>2

(* The least of some numbers up to k is one of them. *)
LEMMA LeastUpTo ==
    ASSUME NEW k \in Nat, NEW t \in SUBSET (1..k), t # {}
    PROVE  Min(t) \in t /\ \A y \in t : Min(t) <= y
<1>1. t \in SUBSET Nat
  OBVIOUS
<1>2. \E x \in t : \A y \in t : x <= y
  BY <1>1, LeastNumber
<1> QED BY <1>2 DEF Min

(* ToSet, by positions. *)
LEMMA MembersAre ==
    ASSUME NEW S, NEW q \in Seq(S), NEW x
    PROVE  /\ x \in ToSet(q) <=> \E i \in 1..Len(q) : q[i] = x
           /\ x \in ToSet(q) <=> Contains(q, x)
           /\ x \in ToSet(q) => x \in S
<1>1. DOMAIN q = 1..Len(q)
  OBVIOUS
<1> QED BY <1>1 DEF ToSet, Contains

(* An event is put at the end of a queue. *)
LEMMA AppendToQueue ==
    ASSUME NEW S, NEW q \in Seq(S), NEW e \in S
    PROVE  /\ Append(q, e) \in Seq(S)
           /\ ToSet(Append(q, e)) = ToSet(q) \cup {e}
           /\ IsInjective(q) /\ e \notin ToSet(q) => IsInjective(Append(q, e))
           /\ Append(q, e) # <<>>
<1>1. /\ Append(q, e) \in Seq(S)
      /\ DOMAIN Append(q, e) = 1..(Len(q) + 1)
      /\ DOMAIN q = 1..Len(q)
      /\ \A i \in 1..Len(q) : Append(q, e)[i] = q[i]
      /\ Append(q, e)[Len(q) + 1] = e
  OBVIOUS
<1> DEFINE a == Append(q, e)
           n == Len(q)
<1>2. n \in Nat
  OBVIOUS
<1> HIDE DEF a, n
<1>3. ToSet(a) = ToSet(q) \cup {e}
  <2>1. \A i \in 1..(n + 1) : i \in 1..n \/ i = n + 1
    BY <1>2
  <2>2. \A i \in 1..n : i \in 1..(n + 1)
    BY <1>2
  <2>3. n + 1 \in 1..(n + 1)
    BY <1>2
  <2> QED BY <1>1, <2>1, <2>2, <2>3 DEF ToSet, a, n
<1>4. ASSUME IsInjective(q), e \notin ToSet(q)
      PROVE  IsInjective(a)
  <2> SUFFICES ASSUME NEW i \in 1..(n + 1), NEW j \in 1..(n + 1), a[i] = a[j]
               PROVE  i = j
    BY <1>1 DEF IsInjective, a, n
  <2>1. i \in 1..n \/ i = n + 1
    BY <1>2
  <2>2. j \in 1..n \/ j = n + 1
    BY <1>2
  <2>3. \A x \in 1..n : a[x] \in ToSet(q) /\ a[x] = q[x]
    BY <1>1 DEF ToSet, a, n
  <2>4. a[n + 1] = e
    BY <1>1 DEF a, n
  <2> QED BY <2>1, <2>2, <2>3, <2>4, <1>4, <1>1 DEF IsInjective, a, n
<1>5. a # <<>>
  BY <1>1 DEF a
<1> QED BY <1>1, <1>3, <1>4, <1>5 DEF a

(* RemoveAt, by positions. *)
LEMMA RemoveAtIs ==
    ASSUME NEW S, NEW q \in Seq(S), NEW i \in 1..Len(q)
    PROVE  /\ RemoveAt(q, i) \in Seq(S)
           /\ Len(RemoveAt(q, i)) = Len(q) - 1
           /\ \A j \in 1..(Len(q) - 1) :
                 RemoveAt(q, i)[j] = IF j < i THEN q[j] ELSE q[j + 1]
<1> DEFINE n == Len(q)
           u == SubSeq(q, 1, i - 1)
           v == SubSeq(q, i + 1, n)
<1>0. n \in Nat /\ i \in 1..n
  OBVIOUS
<1>1. /\ u \in Seq(S) /\ Len(u) = i - 1
      /\ \A j \in 1..(i - 1) : u[j] = q[j]
  <2>1. 1 \in 1..(n + 1) /\ i - 1 \in 0..n
    BY <1>0
  <2>2. /\ u \in Seq(S)
        /\ Len(u) = IF 1 <= i - 1 THEN (i - 1) - 1 + 1 ELSE 0
        /\ \A j \in 1..((i - 1) - 1 + 1) : u[j] = q[1 + j - 1]
    BY <2>1, <1>0, SubSeqProperties
  <2> QED BY <2>2, <1>0
<1>2. /\ v \in Seq(S) /\ Len(v) = n - i
      /\ \A j \in 1..(n - i) : v[j] = q[i + j]
  <2>1. i + 1 \in 1..(n + 1) /\ n \in 0..n
    BY <1>0
  <2>2. /\ v \in Seq(S)
        /\ Len(v) = IF i + 1 <= n THEN n - (i + 1) + 1 ELSE 0
        /\ \A j \in 1..(n - (i + 1) + 1) : v[j] = q[(i + 1) + j - 1]
    BY <2>1, <1>0, SubSeqProperties
  <2>3. \A j \in 1..(n - i) : (i + 1) + j - 1 = i + j
    BY <1>0
  <2>4. n - (i + 1) + 1 = n - i
    BY <1>0
  <2>5. Len(v) = n - i
    BY <2>2, <1>0
  <2> QED BY <2>2, <2>3, <2>4, <2>5
<1> HIDE DEF u, v
<1>3. /\ u \o v \in Seq(S)
      /\ Len(u \o v) = Len(u) + Len(v)
      /\ \A j \in 1..(Len(u) + Len(v)) :
            (u \o v)[j] = IF j <= Len(u) THEN u[j] ELSE v[j - Len(u)]
  BY <1>1, <1>2, ConcatProperties
<1>4. Len(u) + Len(v) = n - 1
  BY <1>1, <1>2, <1>0
<1>5. ASSUME NEW j \in 1..(n - 1)
      PROVE  (u \o v)[j] = IF j < i THEN q[j] ELSE q[j + 1]
  <2>1. (u \o v)[j] = IF j <= i - 1 THEN u[j] ELSE v[j - (i - 1)]
    BY <1>1, <1>3, <1>4
  <2>2. CASE j < i
    <3>1. j <= i - 1 /\ j \in 1..(i - 1)
      BY <2>2, <1>0
    <3> QED BY <3>1, <2>1, <2>2, <1>1
  <2>3. CASE ~(j < i)
    <3>1. ~(j <= i - 1) /\ j - (i - 1) \in 1..(n - i) /\ i + (j - (i - 1)) = j + 1
      BY <2>3, <1>0
    <3> QED BY <3>1, <2>1, <2>3, <1>2
  <2> QED BY <2>2, <2>3
<1> QED BY <1>3, <1>4, <1>5 DEF RemoveAt, u, v

(* Taking an entry out of a queue: the others stay, in their order. *)
LEMMA RemoveFromQueue ==
    ASSUME NEW S, NEW q \in Seq(S), NEW e
    PROVE  /\ RemoveFirst(q, e) \in Seq(S)
           /\ ToSet(RemoveFirst(q, e)) \subseteq ToSet(q)
           /\ e \notin ToSet(q) => RemoveFirst(q, e) = q
           /\ ToSet(q) \ {e} \subseteq ToSet(RemoveFirst(q, e))
           /\ IsInjective(q) => /\ IsInjective(RemoveFirst(q, e))
                                /\ ToSet(RemoveFirst(q, e)) = ToSet(q) \ {e}
           /\ \A y, z \in 1..Len(RemoveFirst(q, e)) : y < z =>
                 \E g, h \in 1..Len(q) : /\ g < h
                                         /\ RemoveFirst(q, e)[y] = q[g]
                                         /\ RemoveFirst(q, e)[z] = q[h]
<1> DEFINE r == RemoveFirst(q, e)
           n == Len(q)
<1>0. n \in Nat /\ DOMAIN q = 1..n
  OBVIOUS
<1>1. CASE e \notin ToSet(q)
  <2>1. r = q
    BY <1>1, <1>0 DEF RemoveFirst, ToSet
  <2>2. ToSet(q) \ {e} = ToSet(q)
    BY <1>1
  <2> QED BY <2>1, <2>2, <1>0
<1>2. CASE e \in ToSet(q)
  <2> DEFINE I == {j \in 1..n : q[j] = e}
  <2>1. I # {} /\ I \in SUBSET (1..n)
    BY <1>2, <1>0 DEF ToSet
  <2> DEFINE i == Min(I)
  <2>2. r = RemoveAt(q, i)
    BY <2>1, <1>0 DEF RemoveFirst, SelectInSeq
  <2>3. i \in I
    <3> HIDE DEF I
    <3> QED BY <2>1, <1>0, LeastUpTo
  <2>4. i \in 1..n /\ q[i] = e
    BY <2>3
  <2> HIDE DEF i, I
  <2>5. /\ r \in Seq(S) /\ Len(r) = n - 1
        /\ \A j \in 1..(n - 1) : r[j] = IF j < i THEN q[j] ELSE q[j + 1]
    BY <2>2, <2>4, RemoveAtIs
  <2> HIDE DEF r
  <2>6. DOMAIN r = 1..(n - 1)
    BY <2>5
  <2> DEFINE p(j) == IF j < i THEN j ELSE j + 1
  <2>7. \A j \in 1..(n - 1) : p(j) \in 1..n /\ p(j) # i /\ r[j] = q[p(j)]
    BY <2>4, <2>5, <1>0
  <2>8. \A j, k \in 1..(n - 1) : (j < k => p(j) < p(k)) /\ (p(j) = p(k) => j = k)
    BY <2>4, <1>0
  <2>9. \A k \in 1..n : k # i => \E j \in 1..(n - 1) : p(j) = k
    <3> TAKE k \in 1..n
    <3> HAVE k # i
    <3>1. CASE k < i
      BY <3>1, <2>4, <1>0
    <3>2. CASE k > i
      <4>1. k - 1 \in 1..(n - 1) /\ p(k - 1) = k
        BY <3>2, <2>4, <1>0
      <4> QED BY <4>1
    <3> QED BY <3>1, <3>2, <2>4
  <2> HIDE DEF p
  <2>10. ToSet(r) \subseteq ToSet(q)
    BY <2>6, <2>7, <1>0 DEF ToSet
  <2>11. ToSet(q) \ {e} \subseteq ToSet(r)
    <3> SUFFICES ASSUME NEW k \in 1..n, q[k] # e
                 PROVE  q[k] \in ToSet(r)
      BY <1>0 DEF ToSet
    <3>1. PICK j \in 1..(n - 1) : p(j) = k
      BY <2>9, <2>4
    <3>2. r[j] = q[k]
      BY <3>1, <2>7
    <3> QED BY <3>2, <2>6 DEF ToSet
  <2>12. ASSUME IsInjective(q)
         PROVE  IsInjective(r) /\ ToSet(r) = ToSet(q) \ {e}
    <3>1. \A j, k \in 1..n : q[j] = q[k] => j = k
      BY <2>12, <1>0 DEF IsInjective
    <3>2. IsInjective(r)
      BY <3>1, <2>6, <2>7, <2>8 DEF IsInjective
    <3>3. e \notin ToSet(r)
      BY <3>1, <2>6, <2>7, <2>4 DEF ToSet
    <3> QED BY <3>2, <3>3, <2>10, <2>11
  <2>13. \A y, z \in 1..(n - 1) : y < z =>
             \E g, h \in 1..n : g < h /\ r[y] = q[g] /\ r[z] = q[h]
    BY <2>7, <2>8
  <2> QED BY <2>5, <2>10, <2>11, <2>12, <2>13, <1>2 DEF r
<1> QED BY <1>1, <1>2

-----------------------------------------------------------------------------
(* Loops that are folds.                                                   *)

(* The bodies of the loops of event.c and evmap.c that the module writes as *)
(* folds, so that one lemma serves them all.                                *)
Turn(loop, x, e, c) ==
    CASE loop = "activate" -> event_active_nolock(x, e, c.res, c.calls[e], "loop")
      [] loop = "io" -> IF c \in ev_events(e) THEN event_active_nolock(x, e, c, 1, "loop") ELSE x
      [] loop = "fds" -> evmap_io_active(x, e, c)
      [] loop = "fire" -> FireTop(x)
      [] loop = "common" -> FireCommon(x)
      [] loop = "map" -> evmap_io_add(x, ev_fd(e), e, ev_events(e))
      [] loop = "delete" -> event_del_internal(x, e, "loop")

(* g is the recursive function in the definition of FoldLeft. *)
IsFold(g, loop, c, s, q, N) ==
    g = [t \in SUBSET (1..N) |->
           IF t = {} THEN s ELSE Turn(loop, g[t \ {Max(t)}], q[Max(t)], c)]

(* f is what it has computed after every turn. *)
Turns(f, r, loop, c, s, q, N) ==
    /\ f[0] = s /\ f[N] = r
    /\ \A i \in 0..N : i < N => f[i + 1] = Turn(loop, f[i], q[i + 1], c)

(* There is such a function. *)
LEMMA FoldExists ==
    ASSUME NEW loop, NEW c, NEW s, NEW q, NEW N \in Nat
    PROVE  \E g : IsFold(g, loop, c, s, q, N)
<1> DEFINE Body(g, t) == IF t = {} THEN s ELSE Turn(loop, g[t \ {Max(t)}], q[Max(t)], c)
           Is(g, k) == g = [t \in SUBSET (1..k) |-> Body(g, t)]
           P == {k \in 0..N : \E g : Is(g, k)}
<1>1. 0 \in P
  <2>1. SUBSET (1..0) = {{}}
    <3>1. 1..0 = {}
      OBVIOUS
    <3> QED BY <3>1
  <2> DEFINE g == [t \in SUBSET (1..0) |-> s]
  <2>2. g = [t \in SUBSET (1..0) |-> Body(g, t)]
    BY <2>1
  <2>3. Is(g, 0)
    BY <2>2
  <2> QED BY <2>3
<1>2. ASSUME NEW i \in 0..N, i < N, i \in P
      PROVE  i + 1 \in P
  <2>1. PICK g : Is(g, i)
    BY <1>2
  <2> DEFINE h == [t \in SUBSET (1..(i + 1)) |->
                     IF i + 1 \in t THEN Turn(loop, g[t \ {i + 1}], q[i + 1], c) ELSE g[t]]
  <2>0. i \in Nat /\ i + 1 \in Nat
    OBVIOUS
  <2>2. ASSUME NEW t \in SUBSET (1..(i + 1))
        PROVE  h[t] = Body(h, t)
    <3>1. CASE i + 1 \in t
      <4>1. t \ {i + 1} \in SUBSET (1..(i + 1)) /\ i + 1 \notin t \ {i + 1}
        OBVIOUS
      <4>2. h[t \ {i + 1}] = g[t \ {i + 1}]
        BY <4>1
      <4>3. Max(t) = i + 1
        BY <3>1, <2>0, GreatestIsEnd
      <4> QED BY <4>2, <4>3, <3>1
    <3>2. CASE i + 1 \notin t
      <4>1. t \in SUBSET (1..i)
        BY <3>2
      <4>2. h[t] = g[t]
        BY <3>2
      <4>3. g[t] = Body(g, t)
        BY <4>1, <2>1
      <4>4. CASE t = {}
        BY <4>2, <4>3, <4>4
      <4>5. CASE t # {}
        <5>1. t \ {Max(t)} \in SUBSET (1..(i + 1)) /\ i + 1 \notin t \ {Max(t)}
          BY <3>2
        <5>2. h[t \ {Max(t)}] = g[t \ {Max(t)}]
          BY <5>1
        <5> QED BY <4>2, <4>3, <5>2, <4>5
      <4> QED BY <4>4, <4>5
    <3> QED BY <3>1, <3>2
  <2>3. h = [t \in SUBSET (1..(i + 1)) |-> Body(h, t)]
    BY <2>2
  <2>4. Is(h, i + 1)
    BY <2>3
  <2>5. i + 1 \in 0..N
    BY <1>2
  <2>6. \E x : Is(x, i + 1)
    BY <2>4
  <2> QED BY <2>5, <2>6
<1>3. N \in P
  <2> HIDE DEF P
  <2>1. 0..N \subseteq P
    BY <1>1, <1>2, UpTo
  <2> QED BY <2>1
<1> QED BY <1>3 DEF IsFold

(* The values that such a fold takes, one after each turn. *)
LEMMA FoldSteps ==
    ASSUME NEW loop, NEW c, NEW s, NEW q, NEW N \in Nat, NEW g,
           IsFold(g, loop, c, s, q, N)
    PROVE  \E f : Turns(f, g[1..N], loop, c, s, q, N)
<1> USE DEF IsFold
<1> DEFINE f == [i \in 0..N |-> g[1..i]]
<1>1. f[0] = s
  <2>1. 1..0 = {} /\ 0 \in 0..N /\ {} \in SUBSET (1..N)
    OBVIOUS
  <2>2. f[0] = g[{}]
    BY <2>1
  <2>3. g[{}] = s
    BY <2>1
  <2> QED BY <2>2, <2>3
<1>2. f[N] = g[1..N]
  <2>1. N \in 0..N
    OBVIOUS
  <2> QED BY <2>1
<1>3. ASSUME NEW i \in 0..N, i < N
      PROVE  f[i + 1] = Turn(loop, f[i], q[i + 1], c)
  <2>1. /\ i + 1 \in 0..N /\ i + 1 \in Nat /\ i + 1 \in 1..(i + 1)
        /\ 1..(i + 1) \in SUBSET (1..N) /\ 1..(i + 1) \in SUBSET (1..(i + 1))
    BY <1>3
  <2>2. Max(1..(i + 1)) = i + 1
    BY <2>1, GreatestIsEnd
  <2>3. (1..(i + 1)) \ {i + 1} = 1..i
    BY <1>3
  <2>4. 1..(i + 1) # {}
    BY <2>1
  <2>5. g[1..(i + 1)] = Turn(loop, g[1..i], q[i + 1], c)
    BY <2>1, <2>2, <2>3, <2>4
  <2>6. f[i + 1] = g[1..(i + 1)] /\ f[i] = g[1..i]
    BY <2>1
  <2> QED BY <2>5, <2>6
<1> HIDE DEF f
<1> QED BY <1>1, <1>2, <1>3 DEF Turns

(* The loops. *)
DeleteEach(s, q) == FoldLeft(LAMBDA x, e : event_del_internal(x, e, "loop"), s, q)
IoActivate(s, q, k) ==
    FoldLeft(LAMBDA x, e : IF k \in ev_events(e) THEN event_active_nolock(x, e, k, 1, "loop") ELSE x, s, q)
FireAll(s, q) == FoldLeft(LAMBDA x, e : FireTop(x), s, q)
FireCommons(s, q) == FoldLeft(LAMBDA x, e : FireCommon(x), s, q)
MapAll(s, q) == FoldLeft(LAMBDA io, e : evmap_io_add(io, ev_fd(e), e, ev_events(e)), s, q)

(* f is what each of them has computed after every turn. *)
DeleteRun(f, s, q, N) ==
    /\ f[0] = s
    /\ f[N] = DeleteEach(s, q)
    /\ \A i \in 0..N : i < N => f[i + 1] = event_del_internal(f[i], q[i + 1], "loop")
ActivateRun(f, s, q, N, res, calls) ==
    /\ f[0] = s
    /\ f[N] = ActivateAll(s, q, res, calls)
    /\ \A i \in 0..N : i < N => f[i + 1] = event_active_nolock(f[i], q[i + 1], res, calls[q[i + 1]], "loop")
IoRun(f, s, q, N, k) ==
    /\ f[0] = s
    /\ f[N] = IoActivate(s, q, k)
    /\ \A i \in 0..N : i < N => f[i + 1] = IF k \in ev_events(q[i + 1]) THEN event_active_nolock(f[i], q[i + 1], k, 1, "loop") ELSE f[i]
FdRun(f, s, q, N, k) ==
    /\ f[0] = s
    /\ f[N] = ActivateFds(s, q, k)
    /\ \A i \in 0..N : i < N => f[i + 1] = evmap_io_active(f[i], q[i + 1], k)
FireRun(f, s, q, N) ==
    /\ f[0] = s
    /\ f[N] = FireAll(s, q)
    /\ \A i \in 0..N : i < N => f[i + 1] = FireTop(f[i])
CommonRun(f, s, q, N) ==
    /\ f[0] = s
    /\ f[N] = FireCommons(s, q)
    /\ \A i \in 0..N : i < N => f[i + 1] = FireCommon(f[i])
MapRun(f, s, q, N) ==
    /\ f[0] = s
    /\ f[N] = MapAll(s, q)
    /\ \A i \in 0..N : i < N => f[i + 1] = evmap_io_add(f[i], ev_fd(q[i + 1]), q[i + 1], ev_events(q[i + 1]))

(* The turns of every loop. *)
LEMMA DeleteTurns ==
    ASSUME NEW s, NEW q, NEW N \in Nat, DOMAIN q = 1..N
    PROVE  \E f : DeleteRun(f, s, q, N)
<1> DEFINE D(x, e) == event_del_internal(x, e, "loop")
           g == CHOOSE g : g = [t \in SUBSET (1..N) |->
                                  IF t = {} THEN s ELSE D(g[t \ {Max(t)}], q[Max(t)])]
           loop == "delete"
           c == 0
<1>1. DeleteEach(s, q) = g[1..N]
  BY DEF FoldLeft, MapThenFoldSet, DeleteEach
<1>2. \A x, e : Turn(loop, x, e, c) = D(x, e)
  BY DEF Turn
<1> HIDE DEF D, loop, c
<1>3. PICK h : IsFold(h, loop, c, s, q, N)
  BY FoldExists
<1>4. h = [t \in SUBSET (1..N) |-> IF t = {} THEN s ELSE D(h[t \ {Max(t)}], q[Max(t)])]
  BY <1>2, <1>3 DEF IsFold
<1>5. g = [t \in SUBSET (1..N) |-> IF t = {} THEN s ELSE D(g[t \ {Max(t)}], q[Max(t)])]
  BY <1>4
<1> HIDE DEF g
<1>6. IsFold(g, loop, c, s, q, N)
  BY <1>2, <1>5 DEF IsFold
<1>7. PICK f : Turns(f, g[1..N], loop, c, s, q, N)
  BY <1>6, FoldSteps
<1>8. \A i \in 0..N : i < N => f[i + 1] = D(f[i], q[i + 1])
  BY <1>2, <1>7 DEF Turns
<1> QED BY <1>1, <1>7, <1>8 DEF D, Turns, DeleteRun

(* The turns of ActivateAll. *)
LEMMA ActivateTurns ==
    ASSUME NEW s, NEW q, NEW N \in Nat, DOMAIN q = 1..N, NEW res, NEW calls
    PROVE  \E f : ActivateRun(f, s, q, N, res, calls)
<1> DEFINE D(x, e) == event_active_nolock(x, e, res, calls[e], "loop")
           g == CHOOSE g : g = [t \in SUBSET (1..N) |->
                                  IF t = {} THEN s ELSE D(g[t \ {Max(t)}], q[Max(t)])]
           loop == "activate"
           c == [res |-> res, calls |-> calls]
<1>1. ActivateAll(s, q, res, calls) = g[1..N]
  BY DEF FoldLeft, MapThenFoldSet, ActivateAll
<1>2. \A x, e : Turn(loop, x, e, c) = D(x, e)
  BY DEF Turn
<1> HIDE DEF D, loop, c
<1>3. PICK h : IsFold(h, loop, c, s, q, N)
  BY FoldExists
<1>4. h = [t \in SUBSET (1..N) |-> IF t = {} THEN s ELSE D(h[t \ {Max(t)}], q[Max(t)])]
  BY <1>2, <1>3 DEF IsFold
<1>5. g = [t \in SUBSET (1..N) |-> IF t = {} THEN s ELSE D(g[t \ {Max(t)}], q[Max(t)])]
  BY <1>4
<1> HIDE DEF g
<1>6. IsFold(g, loop, c, s, q, N)
  BY <1>2, <1>5 DEF IsFold
<1>7. PICK f : Turns(f, g[1..N], loop, c, s, q, N)
  BY <1>6, FoldSteps
<1>8. \A i \in 0..N : i < N => f[i + 1] = D(f[i], q[i + 1])
  BY <1>2, <1>7 DEF Turns
<1> QED BY <1>1, <1>7, <1>8 DEF D, Turns, ActivateRun

(* The turns of evmap_io_active. *)
LEMMA IoTurns ==
    ASSUME NEW s, NEW q, NEW N \in Nat, DOMAIN q = 1..N, NEW k
    PROVE  \E f : IoRun(f, s, q, N, k)
<1> DEFINE D(x, e) == IF k \in ev_events(e) THEN event_active_nolock(x, e, k, 1, "loop") ELSE x
           g == CHOOSE g : g = [t \in SUBSET (1..N) |->
                                  IF t = {} THEN s ELSE D(g[t \ {Max(t)}], q[Max(t)])]
           loop == "io"
           c == k
<1>1. IoActivate(s, q, k) = g[1..N]
  BY DEF FoldLeft, MapThenFoldSet, IoActivate
<1>2. \A x, e : Turn(loop, x, e, c) = D(x, e)
  BY DEF Turn
<1> HIDE DEF D, loop, c
<1>3. PICK h : IsFold(h, loop, c, s, q, N)
  BY FoldExists
<1>4. h = [t \in SUBSET (1..N) |-> IF t = {} THEN s ELSE D(h[t \ {Max(t)}], q[Max(t)])]
  BY <1>2, <1>3 DEF IsFold
<1>5. g = [t \in SUBSET (1..N) |-> IF t = {} THEN s ELSE D(g[t \ {Max(t)}], q[Max(t)])]
  BY <1>4
<1> HIDE DEF g
<1>6. IsFold(g, loop, c, s, q, N)
  BY <1>2, <1>5 DEF IsFold
<1>7. PICK f : Turns(f, g[1..N], loop, c, s, q, N)
  BY <1>6, FoldSteps
<1>8. \A i \in 0..N : i < N => f[i + 1] = D(f[i], q[i + 1])
  BY <1>2, <1>7 DEF Turns
<1> QED BY <1>1, <1>7, <1>8 DEF D, Turns, IoRun

(* The turns of ActivateFds. *)
LEMMA FdTurns ==
    ASSUME NEW s, NEW q, NEW N \in Nat, DOMAIN q = 1..N, NEW k
    PROVE  \E f : FdRun(f, s, q, N, k)
<1> DEFINE D(x, e) == evmap_io_active(x, e, k)
           g == CHOOSE g : g = [t \in SUBSET (1..N) |->
                                  IF t = {} THEN s ELSE D(g[t \ {Max(t)}], q[Max(t)])]
           loop == "fds"
           c == k
<1>1. ActivateFds(s, q, k) = g[1..N]
  BY DEF FoldLeft, MapThenFoldSet, ActivateFds
<1>2. \A x, e : Turn(loop, x, e, c) = D(x, e)
  BY DEF Turn
<1> HIDE DEF D, loop, c
<1>3. PICK h : IsFold(h, loop, c, s, q, N)
  BY FoldExists
<1>4. h = [t \in SUBSET (1..N) |-> IF t = {} THEN s ELSE D(h[t \ {Max(t)}], q[Max(t)])]
  BY <1>2, <1>3 DEF IsFold
<1>5. g = [t \in SUBSET (1..N) |-> IF t = {} THEN s ELSE D(g[t \ {Max(t)}], q[Max(t)])]
  BY <1>4
<1> HIDE DEF g
<1>6. IsFold(g, loop, c, s, q, N)
  BY <1>2, <1>5 DEF IsFold
<1>7. PICK f : Turns(f, g[1..N], loop, c, s, q, N)
  BY <1>6, FoldSteps
<1>8. \A i \in 0..N : i < N => f[i + 1] = D(f[i], q[i + 1])
  BY <1>2, <1>7 DEF Turns
<1> QED BY <1>1, <1>7, <1>8 DEF D, Turns, FdRun

(* The turns of timeout_process. *)
LEMMA FireTurns ==
    ASSUME NEW s, NEW q, NEW N \in Nat, DOMAIN q = 1..N
    PROVE  \E f : FireRun(f, s, q, N)
<1> DEFINE D(x, e) == FireTop(x)
           g == CHOOSE g : g = [t \in SUBSET (1..N) |->
                                  IF t = {} THEN s ELSE D(g[t \ {Max(t)}], q[Max(t)])]
           loop == "fire"
           c == 0
<1>1. FireAll(s, q) = g[1..N]
  BY DEF FoldLeft, MapThenFoldSet, FireAll
<1>2. \A x, e : Turn(loop, x, e, c) = D(x, e)
  BY DEF Turn
<1> HIDE DEF D, loop, c
<1>3. PICK h : IsFold(h, loop, c, s, q, N)
  BY FoldExists
<1>4. h = [t \in SUBSET (1..N) |-> IF t = {} THEN s ELSE D(h[t \ {Max(t)}], q[Max(t)])]
  BY <1>2, <1>3 DEF IsFold
<1>5. g = [t \in SUBSET (1..N) |-> IF t = {} THEN s ELSE D(g[t \ {Max(t)}], q[Max(t)])]
  BY <1>4
<1> HIDE DEF g
<1>6. IsFold(g, loop, c, s, q, N)
  BY <1>2, <1>5 DEF IsFold
<1>7. PICK f : Turns(f, g[1..N], loop, c, s, q, N)
  BY <1>6, FoldSteps
<1>8. \A i \in 0..N : i < N => f[i + 1] = D(f[i], q[i + 1])
  BY <1>2, <1>7 DEF Turns
<1> QED BY <1>1, <1>7, <1>8 DEF D, Turns, FireRun

(* The turns of common_timeout_callback. *)
LEMMA CommonTurns ==
    ASSUME NEW s, NEW q, NEW N \in Nat, DOMAIN q = 1..N
    PROVE  \E f : CommonRun(f, s, q, N)
<1> DEFINE D(x, e) == FireCommon(x)
           g == CHOOSE g : g = [t \in SUBSET (1..N) |->
                                  IF t = {} THEN s ELSE D(g[t \ {Max(t)}], q[Max(t)])]
           loop == "common"
           c == 0
<1>1. FireCommons(s, q) = g[1..N]
  BY DEF FoldLeft, MapThenFoldSet, FireCommons
<1>2. \A x, e : Turn(loop, x, e, c) = D(x, e)
  BY DEF Turn
<1> HIDE DEF D, loop, c
<1>3. PICK h : IsFold(h, loop, c, s, q, N)
  BY FoldExists
<1>4. h = [t \in SUBSET (1..N) |-> IF t = {} THEN s ELSE D(h[t \ {Max(t)}], q[Max(t)])]
  BY <1>2, <1>3 DEF IsFold
<1>5. g = [t \in SUBSET (1..N) |-> IF t = {} THEN s ELSE D(g[t \ {Max(t)}], q[Max(t)])]
  BY <1>4
<1> HIDE DEF g
<1>6. IsFold(g, loop, c, s, q, N)
  BY <1>2, <1>5 DEF IsFold
<1>7. PICK f : Turns(f, g[1..N], loop, c, s, q, N)
  BY <1>6, FoldSteps
<1>8. \A i \in 0..N : i < N => f[i + 1] = D(f[i], q[i + 1])
  BY <1>2, <1>7 DEF Turns
<1> QED BY <1>1, <1>7, <1>8 DEF D, Turns, CommonRun

(* The turns of the loop that builds a map again. *)
LEMMA MapTurns ==
    ASSUME NEW s, NEW q, NEW N \in Nat, DOMAIN q = 1..N
    PROVE  \E f : MapRun(f, s, q, N)
<1> DEFINE D(x, e) == evmap_io_add(x, ev_fd(e), e, ev_events(e))
           g == CHOOSE g : g = [t \in SUBSET (1..N) |->
                                  IF t = {} THEN s ELSE D(g[t \ {Max(t)}], q[Max(t)])]
           loop == "map"
           c == 0
<1>1. MapAll(s, q) = g[1..N]
  BY DEF FoldLeft, MapThenFoldSet, MapAll
<1>2. \A x, e : Turn(loop, x, e, c) = D(x, e)
  BY DEF Turn
<1> HIDE DEF D, loop, c
<1>3. PICK h : IsFold(h, loop, c, s, q, N)
  BY FoldExists
<1>4. h = [t \in SUBSET (1..N) |-> IF t = {} THEN s ELSE D(h[t \ {Max(t)}], q[Max(t)])]
  BY <1>2, <1>3 DEF IsFold
<1>5. g = [t \in SUBSET (1..N) |-> IF t = {} THEN s ELSE D(g[t \ {Max(t)}], q[Max(t)])]
  BY <1>4
<1> HIDE DEF g
<1>6. IsFold(g, loop, c, s, q, N)
  BY <1>2, <1>5 DEF IsFold
<1>7. PICK f : Turns(f, g[1..N], loop, c, s, q, N)
  BY <1>6, FoldSteps
<1>8. \A i \in 0..N : i < N => f[i + 1] = D(f[i], q[i + 1])
  BY <1>2, <1>7 DEF Turns
<1> QED BY <1>1, <1>7, <1>8 DEF D, Turns, MapRun

-----------------------------------------------------------------------------
(* The map of descriptors and the arrays for select().                     *)

(* What io is made of. *)
IoType == [events : [Descriptors -> Seq(IoEvents)],
           n : [Descriptors -> [Kinds -> Nat]],
           pos : [Descriptors -> [Kinds -> Nat]],
           set : [Kinds -> Seq(Descriptors)]]

(* An array for select() holds the descriptors of need, each once and at    *)
(* the place it remembers.                                                  *)
ArrayOK(io, k, need) ==
    /\ \A fd \in need : io.pos[fd][k] \in 1..Len(io.set[k]) /\ io.set[k][io.pos[fd][k]] = fd
    /\ \A fd \in Descriptors \ need : io.pos[fd][k] = 0
    /\ \A i \in 1..Len(io.set[k]) : io.pos[io.set[k][i]][k] = i

(* io' differs from io only in the array of kind k. *)
OnlyArray(io, jo, k) ==
    /\ jo \in IoType /\ jo.events = io.events /\ jo.n = io.n
    /\ \A j \in Kinds \ {k} :
          jo.set[j] = io.set[j] /\ \A fd \in Descriptors : jo.pos[fd][j] = io.pos[fd][j]

(* A change of one array leaves the other in order. *)
LEMMA OtherArrays ==
    ASSUME NEW io \in IoType, NEW jo, NEW k \in Kinds, OnlyArray(io, jo, k),
           NEW j \in Kinds, j # k, NEW need \in SUBSET Descriptors, ArrayOK(io, j, need)
    PROVE  ArrayOK(jo, j, need)
<1>1. /\ jo.set[j] = io.set[j]
      /\ \A fd \in Descriptors : jo.pos[fd][j] = io.pos[fd][j]
  BY DEF OnlyArray
<1>2. \A i \in 1..Len(io.set[j]) : io.set[j][i] \in Descriptors
  BY DEF IoType
<1> QED BY <1>1, <1>2 DEF ArrayOK

(* do_fd_set puts the descriptor at the end, unless it is there. *)
LEMMA FdSet ==
    ASSUME NEW io \in IoType, NEW fd \in Descriptors, NEW k \in Kinds,
           NEW need \in SUBSET Descriptors, ArrayOK(io, k, need)
    PROVE  /\ OnlyArray(io, do_fd_set(io, fd, k), k)
           /\ ArrayOK(do_fd_set(io, fd, k), k, need \cup {fd})
<1> DEFINE jo == do_fd_set(io, fd, k)
           q == io.set[k]
           n == Len(q)
<1>0. /\ q \in Seq(Descriptors) /\ n \in Nat
      /\ \A i \in 1..n : q[i] \in Descriptors
      /\ \A x \in Descriptors : io.pos[x][k] \in Nat
  BY DEF IoType
<1>1. CASE io.pos[fd][k] > 0
  <2>1. jo = io
    BY <1>1 DEF do_fd_set
  <2>2. fd \in need
    BY <1>1, <1>0 DEF ArrayOK
  <2>3. need \cup {fd} = need
    BY <2>2
  <2> QED BY <2>1, <2>3 DEF OnlyArray
<1>2. CASE ~(io.pos[fd][k] > 0)
  <2>1. io.pos[fd][k] = 0
    BY <1>2, <1>0
  <2> DEFINE r == Append(q, fd)
             m == n + 1
  <2>2. jo = [io EXCEPT !.set[k] = r, !.pos[fd][k] = m]
    BY <1>2 DEF do_fd_set
  <2>3. /\ r \in Seq(Descriptors) /\ Len(r) = n + 1 /\ r[n + 1] = fd
        /\ \A i \in 1..n : r[i] = q[i]
    BY <1>0
  <2>4. m \in Nat
    BY <1>0
  <2> HIDE DEF r, m, jo
  <2>5. /\ jo \in IoType /\ jo.events = io.events /\ jo.n = io.n
        /\ jo.set = [io.set EXCEPT ![k] = r]
        /\ jo.pos = [io.pos EXCEPT ![fd] = [@ EXCEPT ![k] = m]]
    BY <2>2, <2>3, <2>4 DEF IoType
  <2>6. /\ jo.set[k] = r /\ \A j \in Kinds \ {k} : jo.set[j] = io.set[j]
        /\ jo.pos[fd][k] = m
        /\ \A x \in Descriptors, j \in Kinds :
              <<x, j>> # <<fd, k>> => jo.pos[x][j] = io.pos[x][j]
    BY <2>5 DEF IoType
  <2>7. OnlyArray(io, jo, k)
    BY <2>5, <2>6 DEF OnlyArray
  <2>8. fd \notin need
    BY <2>1, <1>0 DEF ArrayOK
  <2>9. ASSUME NEW x \in need \cup {fd}
        PROVE  jo.pos[x][k] \in 1..Len(r) /\ r[jo.pos[x][k]] = x
    <3>1. CASE x = fd
      BY <3>1, <2>3, <2>6, <1>0 DEF m
    <3>2. CASE x # fd
      <4>1. jo.pos[x][k] = io.pos[x][k] /\ io.pos[x][k] \in 1..n /\ q[io.pos[x][k]] = x
        BY <3>2, <2>6, <2>9 DEF ArrayOK
      <4> QED BY <4>1, <2>3, <1>0
    <3> QED BY <3>1, <3>2
  <2>10. \A x \in Descriptors \ (need \cup {fd}) : jo.pos[x][k] = 0
    BY <2>6 DEF ArrayOK
  <2>11. ASSUME NEW i \in 1..(n + 1) PROVE jo.pos[r[i]][k] = i
    <3>1. CASE i = n + 1
      BY <3>1, <2>3, <2>6 DEF m
    <3>2. CASE i # n + 1
      <4>1. i \in 1..n
        BY <3>2, <1>0
      <4>2. r[i] = q[i] /\ io.pos[q[i]][k] = i /\ q[i] \in Descriptors
        BY <4>1, <2>3, <1>0 DEF ArrayOK
      <4>3. q[i] # fd
        BY <4>2, <4>1, <2>1
      <4> QED BY <4>2, <4>3, <2>6
    <3> QED BY <3>1, <3>2
  <2>12. ArrayOK(jo, k, need \cup {fd})
    BY <2>3, <2>6, <2>9, <2>10, <2>11 DEF ArrayOK
  <2> QED BY <2>7, <2>12 DEF jo
<1> QED BY <1>1, <1>2

(* do_fd_clear moves the last descriptor to the place that becomes free. *)
LEMMA FdClear ==
    ASSUME NEW io \in IoType, NEW fd \in Descriptors, NEW k \in Kinds,
           NEW need \in SUBSET Descriptors, ArrayOK(io, k, need), fd \in need
    PROVE  /\ OnlyArray(io, do_fd_clear(io, fd, k), k)
           /\ ArrayOK(do_fd_clear(io, fd, k), k, need \ {fd})
<1> DEFINE jo == do_fd_clear(io, fd, k)
           q == io.set[k]
           n == Len(q)
           p == io.pos[fd][k]
           y == q[n]
           r0 == SubSeq(q, 1, n - 1)
           r1 == SubSeq([q EXCEPT ![p] = y], 1, n - 1)
           r == IF p = n THEN r0 ELSE r1
<1>0. /\ q \in Seq(Descriptors) /\ n \in Nat
      /\ \A i \in 1..n : q[i] \in Descriptors
      /\ \A x \in Descriptors : io.pos[x][k] \in Nat
  BY DEF IoType
<1>1. p \in 1..n /\ q[p] = fd /\ n \in 1..n /\ y \in Descriptors
  BY <1>0 DEF ArrayOK
<1>2. /\ r \in Seq(Descriptors) /\ Len(r) = n - 1
      /\ \A i \in 1..(n - 1) : r[i] = IF i = p THEN y ELSE q[i]
  <2>1. CASE p = n
    <3>1. /\ r0 \in Seq(Descriptors) /\ Len(r0) = n - 1
          /\ \A i \in 1..(n - 1) : r0[i] = q[i]
      BY <1>0, <1>1
    <3>2. \A i \in 1..(n - 1) : i # p
      BY <2>1, <1>0
    <3> QED BY <3>1, <3>2, <2>1
  <2>2. CASE p # n
    <3> DEFINE v == [q EXCEPT ![p] = y]
    <3>1. /\ v \in Seq(Descriptors) /\ Len(v) = n
          /\ \A i \in 1..n : v[i] = IF i = p THEN y ELSE q[i]
      BY <1>0, <1>1
    <3> HIDE DEF v
    <3>2. /\ SubSeq(v, 1, n - 1) \in Seq(Descriptors) /\ Len(SubSeq(v, 1, n - 1)) = n - 1
          /\ \A i \in 1..(n - 1) : SubSeq(v, 1, n - 1)[i] = v[i]
      BY <3>1, <1>1, <1>0
    <3>3. r = SubSeq(v, 1, n - 1)
      BY <2>2 DEF v
    <3> HIDE DEF r
    <3>4. \A i \in 1..(n - 1) : i \in 1..n
      BY <1>0
    <3> QED BY <3>1, <3>2, <3>3, <3>4
  <2> QED BY <2>1, <2>2
<1> HIDE DEF r
<1> DEFINE pz == [io.pos EXCEPT ![fd] = [@ EXCEPT ![k] = 0]]
           ps == IF p = n THEN pz ELSE [pz EXCEPT ![y] = [@ EXCEPT ![k] = p]]
<1>3. jo = [io EXCEPT !.set = [@ EXCEPT ![k] = r], !.pos = ps]
  <2>1. p # 0
    BY <1>1
  <2>2. CASE p = n
    BY <2>1, <2>2 DEF do_fd_clear, r, IoType
  <2>3. CASE p # n
    <3>1. jo = [[io EXCEPT !.pos[fd][k] = 0] EXCEPT !.set[k] = SubSeq([@ EXCEPT ![p] = y], 1, n - 1),
                                                    !.pos[y][k] = p]
      BY <2>1, <2>3 DEF do_fd_clear
    <3> QED BY <3>1, <2>3 DEF r, IoType
  <2> QED BY <2>2, <2>3
<1>4. /\ ps \in [Descriptors -> [Kinds -> Nat]]
      /\ \A x \in Descriptors, j \in Kinds :
            ps[x][j] = IF j # k THEN io.pos[x][j]
                       ELSE IF x = y /\ p # n THEN p ELSE IF x = fd THEN 0 ELSE io.pos[x][j]
  BY <1>1, <1>0 DEF IoType
<1> HIDE DEF ps, jo
<1>5. /\ jo \in IoType /\ jo.events = io.events /\ jo.n = io.n
      /\ jo.set = [io.set EXCEPT ![k] = r] /\ jo.pos = ps
  BY <1>2, <1>3, <1>4 DEF IoType
<1>6. /\ jo.set[k] = r /\ \A j \in Kinds \ {k} : jo.set[j] = io.set[j]
  BY <1>5 DEF IoType
<1>7. OnlyArray(io, jo, k)
  BY <1>4, <1>5, <1>6 DEF OnlyArray
<1>8. \A i \in 1..n : io.pos[q[i]][k] = i
  BY DEF ArrayOK
<1>9. y = fd <=> p = n
  BY <1>8, <1>1
<1>10. ASSUME NEW x \in need \ {fd}
       PROVE  jo.pos[x][k] \in 1..Len(r) /\ r[jo.pos[x][k]] = x
  <2>1. io.pos[x][k] \in 1..n /\ q[io.pos[x][k]] = x /\ x \in Descriptors
    BY <1>10 DEF ArrayOK
  <2>2. io.pos[x][k] # p
    BY <2>1, <1>1
  <2>3. CASE x = y /\ p # n
    <3>1. jo.pos[x][k] = p
      BY <1>4, <1>5, <2>3, <2>1
    <3>2. p \in 1..(n - 1)
      BY <2>3, <1>1, <1>0
    <3> QED BY <3>1, <3>2, <1>2, <2>3
  <2>4. CASE ~(x = y /\ p # n)
    <3>1. jo.pos[x][k] = io.pos[x][k]
      BY <1>4, <1>5, <2>4, <2>1
    <3>2. io.pos[x][k] # n
      BY <2>4, <2>1, <1>9
    <3>3. io.pos[x][k] \in 1..(n - 1)
      BY <3>2, <2>1, <1>0
    <3> QED BY <3>1, <3>3, <2>1, <2>2, <1>2
  <2> QED BY <2>3, <2>4
<1>11. ASSUME NEW x \in Descriptors \ (need \ {fd})
       PROVE  jo.pos[x][k] = 0
  <2>1. CASE x = fd
    BY <2>1, <1>4, <1>5, <1>9
  <2>2. CASE x # fd
    <3>1. io.pos[x][k] = 0
      BY <2>2, <1>11 DEF ArrayOK
    <3>2. x # y
      BY <3>1, <1>8, <1>1
    <3> QED BY <3>1, <3>2, <2>2, <1>4, <1>5
  <2> QED BY <2>1, <2>2
<1>12. ASSUME NEW i \in 1..(n - 1)
       PROVE  jo.pos[r[i]][k] = i
  <2>0. i \in 1..n /\ i # n
    BY <1>0
  <2>1. CASE i = p
    BY <2>0, <2>1, <1>1, <1>2, <1>4, <1>5
  <2>2. CASE i # p
    <3>1. r[i] = q[i] /\ q[i] \in Descriptors /\ io.pos[q[i]][k] = i
      BY <2>2, <2>0, <1>0, <1>2, <1>8
    <3>2. q[i] # fd
      BY <3>1, <2>2
    <3>3. q[i] # y
      BY <3>1, <2>0, <1>8, <1>1
    <3> QED BY <3>1, <3>2, <3>3, <1>4, <1>5
  <2> QED BY <2>1, <2>2
<1>13. ArrayOK(jo, k, need \ {fd})
  BY <1>2, <1>6, <1>10, <1>11, <1>12 DEF ArrayOK
<1> QED BY <1>7, <1>13 DEF jo

(* The descriptors that some event needs for k. *)
Busy(io, k) == {fd \in Descriptors : io.n[fd][k] # 0}

(* io is the map of the events in on. *)
MapIs(io, on) ==
    /\ io \in IoType
    /\ \A fd \in Descriptors :
          IsInjective(io.events[fd]) /\ ToSet(io.events[fd]) = {e \in on : ev_fd(e) = fd}
    /\ \A fd \in Descriptors, k \in Kinds :
          io.n[fd][k] = Cardinality({e \in on : ev_fd(e) = fd /\ k \in ev_events(e)})
    /\ \A k \in Kinds : ArrayOK(io, k, Busy(io, k))

(* The descriptor of an event and what it waits for. *)
LEMMA EventFacts ==
    ASSUME NEW e \in IoEvents
    PROVE  ev_fd(e) \in Descriptors /\ ev_events(e) \in SUBSET Kinds /\ ev_events(e) # {}
<1>1. ev_fd(e) \in Descriptors
  BY DEF Descriptors
<1>2. ev_events(e) \in SUBSET Kinds /\ ev_events(e) # {}
  BY DEF ev_events, Kinds
<1> QED BY <1>1, <1>2

(* The events of descriptors are finitely many. *)
LEMMA FiniteEvents ==
    ASSUME NEW on \in SUBSET IoEvents
    PROVE  IsFiniteSet(on) /\ IsFiniteSet(IoEvents)
<1>1. IoEvents \subseteq Users \cup {"th_notify", "ev_signal"}
  BY DEF IoEvents, Users
<1>2. IsFiniteSet(Users \cup {"th_notify", "ev_signal"})
  <2>1. IsFiniteSet(Users)
    BY KindsAssumption
  <2>2. IsFiniteSet(Users \cup {"th_notify"})
    BY <2>1, FS_AddElement
  <2>3. IsFiniteSet((Users \cup {"th_notify"}) \cup {"ev_signal"})
    BY <2>2, FS_AddElement
  <2>4. (Users \cup {"th_notify"}) \cup {"ev_signal"} = Users \cup {"th_notify", "ev_signal"}
    OBVIOUS
  <2> QED BY <2>3, <2>4
<1> DEFINE U == Users \cup {"th_notify", "ev_signal"}
<1> HIDE DEF U
<1>3. IsFiniteSet(U) /\ IoEvents \subseteq U /\ on \subseteq U
  BY <1>1, <1>2 DEF U
<1> QED BY <1>3, FS_Subset

(* The arrays after win32_add and win32_del. *)
With(need, kinds, fd, k) == IF k \in kinds THEN need[k] \cup {fd} ELSE need[k]
Without(need, kinds, fd, k) == IF k \in kinds THEN need[k] \ {fd} ELSE need[k]
(* win32_add: the descriptor is in the arrays of the kinds it was added for. *)
LEMMA WinAdd ==
    ASSUME NEW io \in IoType, NEW fd \in Descriptors, NEW kinds \in SUBSET Kinds,
           NEW need \in [Kinds -> SUBSET Descriptors], \A k \in Kinds : ArrayOK(io, k, need[k])
    PROVE  /\ win32_add(io, fd, kinds) \in IoType
           /\ win32_add(io, fd, kinds).events = io.events /\ win32_add(io, fd, kinds).n = io.n
           /\ \A k \in Kinds : ArrayOK(win32_add(io, fd, kinds), k, With(need, kinds, fd, k))
<1> DEFINE io1 == IF "read" \in kinds THEN do_fd_set(io, fd, "read") ELSE io
           io2 == IF "write" \in kinds THEN do_fd_set(io1, fd, "write") ELSE io1
           rd == "read"
           wr == "write"
           n1 == IF "read" \in kinds THEN need["read"] \cup {fd} ELSE need["read"]
           n2 == IF "write" \in kinds THEN need["write"] \cup {fd} ELSE need["write"]
<1>0. /\ rd \in Kinds /\ wr \in Kinds /\ rd # wr /\ Kinds = {rd, wr}
      /\ need[rd] \in SUBSET Descriptors /\ need[wr] \in SUBSET Descriptors
      /\ n1 \in SUBSET Descriptors
      /\ ArrayOK(io, rd, need[rd]) /\ ArrayOK(io, wr, need[wr])
  BY DEF Kinds
<1> HIDE DEF rd, wr
<1>1. /\ io1 \in IoType /\ io1.events = io.events /\ io1.n = io.n
      /\ ArrayOK(io1, rd, n1) /\ ArrayOK(io1, wr, need[wr])
  <2>1. CASE "read" \in kinds
    <3>1. OnlyArray(io, do_fd_set(io, fd, rd), rd) /\ ArrayOK(do_fd_set(io, fd, rd), rd, need[rd] \cup {fd})
      BY <1>0, FdSet
    <3>2. ArrayOK(do_fd_set(io, fd, rd), wr, need[wr])
      BY <1>0, <3>1, OtherArrays
    <3> QED BY <3>1, <3>2, <2>1 DEF OnlyArray, rd
  <2>2. CASE "read" \notin kinds
    BY <2>2, <1>0 DEF rd
  <2> QED BY <2>1, <2>2
<1> HIDE DEF io1, n1
<1>2. /\ io2 \in IoType /\ io2.events = io.events /\ io2.n = io.n
      /\ ArrayOK(io2, rd, n1) /\ ArrayOK(io2, wr, n2)
  <2>1. CASE "write" \in kinds
    <3>1. /\ OnlyArray(io1, do_fd_set(io1, fd, wr), wr)
          /\ ArrayOK(do_fd_set(io1, fd, wr), wr, need[wr] \cup {fd})
      BY <1>0, <1>1, FdSet
    <3>2. ArrayOK(do_fd_set(io1, fd, wr), rd, n1)
      BY <1>0, <1>1, <3>1, OtherArrays
    <3> QED BY <3>1, <3>2, <2>1, <1>1 DEF OnlyArray, wr
  <2>2. CASE "write" \notin kinds
    BY <2>2, <1>0, <1>1 DEF wr
  <2> QED BY <2>1, <2>2
<1>3. win32_add(io, fd, kinds) = io2
  BY DEF win32_add, io1
<1> HIDE DEF io2, n2
<1>4. \A k \in Kinds : ArrayOK(io2, k, With(need, kinds, fd, k))
  BY <1>0, <1>2 DEF n1, n2, rd, wr, With
<1> QED BY <1>2, <1>3, <1>4

(* win32_del: the descriptor is in no array of the kinds it was deleted for. *)
LEMMA WinDel ==
    ASSUME NEW io \in IoType, NEW fd \in Descriptors, NEW kinds \in SUBSET Kinds,
           NEW need \in [Kinds -> SUBSET Descriptors], \A k \in Kinds : ArrayOK(io, k, need[k]),
           \A k \in kinds : fd \in need[k]
    PROVE  /\ win32_del(io, fd, kinds) \in IoType
           /\ win32_del(io, fd, kinds).events = io.events /\ win32_del(io, fd, kinds).n = io.n
           /\ \A k \in Kinds : ArrayOK(win32_del(io, fd, kinds), k, Without(need, kinds, fd, k))
<1> DEFINE io1 == IF "read" \in kinds THEN do_fd_clear(io, fd, "read") ELSE io
           io2 == IF "write" \in kinds THEN do_fd_clear(io1, fd, "write") ELSE io1
           rd == "read"
           wr == "write"
           n1 == IF "read" \in kinds THEN need["read"] \ {fd} ELSE need["read"]
           n2 == IF "write" \in kinds THEN need["write"] \ {fd} ELSE need["write"]
<1>0. /\ rd \in Kinds /\ wr \in Kinds /\ rd # wr /\ Kinds = {rd, wr}
      /\ need[rd] \in SUBSET Descriptors /\ need[wr] \in SUBSET Descriptors
      /\ n1 \in SUBSET Descriptors
      /\ ArrayOK(io, rd, need[rd]) /\ ArrayOK(io, wr, need[wr])
  BY DEF Kinds
<1> HIDE DEF rd, wr
<1>1. /\ io1 \in IoType /\ io1.events = io.events /\ io1.n = io.n
      /\ ArrayOK(io1, rd, n1) /\ ArrayOK(io1, wr, need[wr])
  <2>1. CASE "read" \in kinds
    <3>0. fd \in need[rd]
      BY <2>1 DEF rd
    <3>1. OnlyArray(io, do_fd_clear(io, fd, rd), rd) /\ ArrayOK(do_fd_clear(io, fd, rd), rd, need[rd] \ {fd})
      BY <1>0, <3>0, FdClear
    <3>2. ArrayOK(do_fd_clear(io, fd, rd), wr, need[wr])
      BY <1>0, <3>1, OtherArrays
    <3> QED BY <3>1, <3>2, <2>1 DEF OnlyArray, rd
  <2>2. CASE "read" \notin kinds
    BY <2>2, <1>0 DEF rd
  <2> QED BY <2>1, <2>2
<1> HIDE DEF io1, n1
<1>2. /\ io2 \in IoType /\ io2.events = io.events /\ io2.n = io.n
      /\ ArrayOK(io2, rd, n1) /\ ArrayOK(io2, wr, n2)
  <2>1. CASE "write" \in kinds
    <3>0. fd \in need[wr]
      BY <2>1 DEF wr
    <3>1. /\ OnlyArray(io1, do_fd_clear(io1, fd, wr), wr)
          /\ ArrayOK(do_fd_clear(io1, fd, wr), wr, need[wr] \ {fd})
      BY <1>0, <1>1, <3>0, FdClear
    <3>2. ArrayOK(do_fd_clear(io1, fd, wr), rd, n1)
      BY <1>0, <1>1, <3>1, OtherArrays
    <3> QED BY <3>1, <3>2, <2>1, <1>1 DEF OnlyArray, wr
  <2>2. CASE "write" \notin kinds
    BY <2>2, <1>0, <1>1 DEF wr
  <2> QED BY <2>1, <2>2
<1>3. win32_del(io, fd, kinds) = io2
  BY DEF win32_del, io1
<1> HIDE DEF io2, n2
<1>4. \A k \in Kinds : ArrayOK(io2, k, Without(need, kinds, fd, k))
  BY <1>0, <1>2 DEF n1, n2, rd, wr, Without
<1> QED BY <1>2, <1>3, <1>4

(* ArrayOK reads the arrays only. *)
LEMMA ArrayCongruence ==
    ASSUME NEW io, NEW jo, NEW k, NEW need, ArrayOK(io, k, need),
           jo.pos = io.pos, jo.set = io.set
    PROVE  ArrayOK(jo, k, need)
BY DEF ArrayOK

(* evmap_io_add of an event that is in no list. *)
LEMMA MapAdd ==
    ASSUME NEW on \in SUBSET IoEvents, NEW io, MapIs(io, on), NEW e \in IoEvents, e \notin on
    PROVE  MapIs(evmap_io_add(io, ev_fd(e), e, ev_events(e)), on \cup {e})
<1> DEFINE fd == ev_fd(e)
           kinds == ev_events(e)
           A == Added(io, fd, kinds)
           w == win32_add(io, fd, A)
           need == [k \in Kinds |-> Busy(io, k)]
           N == [k \in Kinds |-> IF k \in kinds THEN io.n[fd][k] + 1 ELSE io.n[fd][k]]
           E == Append(io.events[fd], e)
           jo == [w EXCEPT !.n = [@ EXCEPT ![fd] = N], !.events = [@ EXCEPT ![fd] = E]]
<1>0. /\ io \in IoType /\ fd \in Descriptors /\ kinds \in SUBSET Kinds /\ A \in SUBSET Kinds
      /\ need \in [Kinds -> SUBSET Descriptors] /\ \A k \in Kinds : need[k] = Busy(io, k)
      /\ \A x \in Descriptors, k \in Kinds : io.n[x][k] \in Nat
      /\ \A k \in Kinds : k \in A <=> k \in kinds /\ io.n[fd][k] = 0
      /\ \A k \in Kinds : ArrayOK(io, k, need[k])
  BY EventFacts DEF MapIs, Added, Busy, IoType
<1> HIDE DEF fd, kinds, A, need
<1>1. /\ w \in IoType /\ w.events = io.events /\ w.n = io.n
      /\ \A k \in Kinds : ArrayOK(w, k, With(need, A, fd, k))
  BY <1>0, WinAdd
<1> HIDE DEF w
<1>2. evmap_io_add(io, ev_fd(e), e, ev_events(e)) = jo
  BY <1>1, <1>0 DEF evmap_io_add, w, A, fd, kinds, IoType
<1>3. N \in [Kinds -> Nat] /\ \A k \in Kinds : N[k] = IF k \in kinds THEN io.n[fd][k] + 1 ELSE io.n[fd][k]
  BY <1>0
<1>4. /\ io.events[fd] \in Seq(IoEvents) /\ IsInjective(io.events[fd])
      /\ ToSet(io.events[fd]) = {x \in on : ev_fd(x) = fd}
  BY <1>0 DEF MapIs, IoType
<1>5. E \in Seq(IoEvents) /\ ToSet(E) = {x \in on : ev_fd(x) = fd} \cup {e} /\ IsInjective(E)
  BY <1>4, AppendToQueue
<1> HIDE DEF N, E, jo
<1>6. /\ jo \in IoType /\ jo.pos = w.pos /\ jo.set = w.set
      /\ jo.n = [io.n EXCEPT ![fd] = N] /\ jo.events = [io.events EXCEPT ![fd] = E]
  BY <1>1, <1>3, <1>5, <1>0 DEF jo, IoType
<1>7. /\ jo.n[fd] = N /\ jo.events[fd] = E
      /\ \A x \in Descriptors \ {fd} : jo.n[x] = io.n[x] /\ jo.events[x] = io.events[x]
  BY <1>6, <1>0 DEF IoType
<1>8. ASSUME NEW x \in Descriptors
      PROVE  /\ IsInjective(jo.events[x])
             /\ ToSet(jo.events[x]) = {y \in on \cup {e} : ev_fd(y) = x}
  <2>1. CASE x = fd
    <3>1. {y \in on \cup {e} : ev_fd(y) = fd} = {y \in on : ev_fd(y) = fd} \cup {e}
      BY DEF fd
    <3> QED BY <3>1, <2>1, <1>5, <1>7
  <2>2. CASE x # fd
    <3>1. {y \in on \cup {e} : ev_fd(y) = x} = {y \in on : ev_fd(y) = x}
      BY <2>2 DEF fd
    <3> QED BY <3>1, <2>2, <1>7 DEF MapIs
  <2> QED BY <2>1, <2>2
<1>9. ASSUME NEW x \in Descriptors, NEW k \in Kinds
      PROVE  jo.n[x][k] = Cardinality({y \in on \cup {e} : ev_fd(y) = x /\ k \in ev_events(y)})
  <2> DEFINE old == {y \in on : ev_fd(y) = x /\ k \in ev_events(y)}
             new == {y \in on \cup {e} : ev_fd(y) = x /\ k \in ev_events(y)}
  <2>1. old \in SUBSET IoEvents /\ e \notin old
    OBVIOUS
  <2>2. io.n[x][k] = Cardinality(old)
    BY DEF MapIs
  <2>3. CASE x = fd /\ k \in kinds
    <3>1. new = old \cup {e}
      BY <2>3 DEF fd, kinds
    <3> HIDE DEF old, new
    <3>2. IsFiniteSet(old)
      BY <2>1, FiniteEvents
    <3>3. Cardinality(old \cup {e}) = Cardinality(old) + 1
      BY <3>2, <2>1, FS_AddElement
    <3>4. jo.n[x][k] = io.n[x][k] + 1
      BY <2>3, <1>3, <1>7
    <3> QED BY <3>1, <3>3, <3>4, <2>2 DEF new
  <2>4. CASE ~(x = fd /\ k \in kinds)
    <3>1. new = old
      BY <2>4 DEF fd, kinds
    <3>2. jo.n[x][k] = io.n[x][k]
      BY <2>4, <1>3, <1>7
    <3> QED BY <3>1, <3>2, <2>2
  <2> QED BY <2>3, <2>4
<1>10. ASSUME NEW k \in Kinds
       PROVE  ArrayOK(jo, k, Busy(jo, k))
  <2>1. Busy(jo, k) = With(need, A, fd, k)
    <3>1. \A x \in Descriptors \ {fd} : jo.n[x][k] = io.n[x][k]
      BY <1>7
    <3>2. jo.n[fd][k] = IF k \in kinds THEN io.n[fd][k] + 1 ELSE io.n[fd][k]
      BY <1>7, <1>3
    <3>3. io.n[fd][k] \in Nat
      BY <1>0
    <3>4. jo.n[fd][k] # 0 <=> k \in kinds \/ io.n[fd][k] # 0
      BY <3>2, <3>3
    <3>5. need[k] = Busy(io, k) /\ (k \in A <=> k \in kinds /\ io.n[fd][k] = 0)
      BY <1>0
    <3> QED BY <3>1, <3>4, <3>5, <1>0 DEF Busy, With
  <2>2. ArrayOK(w, k, With(need, A, fd, k))
    BY <1>1
  <2> QED BY <2>1, <2>2, <1>6, ArrayCongruence
<1>11. MapIs(jo, on \cup {e})
  BY <1>6, <1>8, <1>9, <1>10 DEF MapIs
<1> QED BY <1>2, <1>11

(* evmap_io_del of an event that is in its list. *)
LEMMA MapDel ==
    ASSUME NEW on \in SUBSET IoEvents, NEW io, MapIs(io, on), NEW e \in on
    PROVE  MapIs(evmap_io_del(io, ev_fd(e), e, ev_events(e)), on \ {e})
<1> DEFINE fd == ev_fd(e)
           kinds == ev_events(e)
           A == Removed(io, fd, kinds)
           w == win32_del(io, fd, A)
           need == [k \in Kinds |-> Busy(io, k)]
           N == [k \in Kinds |-> IF k \in kinds THEN io.n[fd][k] - 1 ELSE io.n[fd][k]]
           E == RemoveFirst(io.events[fd], e)
           jo == [w EXCEPT !.n = [@ EXCEPT ![fd] = N], !.events = [@ EXCEPT ![fd] = E]]
<1>0. /\ io \in IoType /\ fd \in Descriptors /\ kinds \in SUBSET Kinds /\ A \in SUBSET Kinds
      /\ need \in [Kinds -> SUBSET Descriptors] /\ \A k \in Kinds : need[k] = Busy(io, k)
      /\ \A x \in Descriptors, k \in Kinds : io.n[x][k] \in Nat
      /\ \A k \in Kinds : k \in A <=> k \in kinds /\ io.n[fd][k] = 1
      /\ \A k \in Kinds : ArrayOK(io, k, need[k])
  BY EventFacts DEF MapIs, Removed, Busy, IoType
<1>a. \A k \in kinds : io.n[fd][k] >= 1
  <2> SUFFICES ASSUME NEW k \in kinds PROVE io.n[fd][k] >= 1
    OBVIOUS
  <2> DEFINE old == {y \in on : ev_fd(y) = fd /\ k \in ev_events(y)}
  <2>1. k \in Kinds
    BY <1>0
  <2>2. io.n[fd][k] = Cardinality(old)
    BY <2>1, <1>0 DEF MapIs
  <2>3. old \in SUBSET IoEvents /\ e \in old
    OBVIOUS
  <2> HIDE DEF old
  <2>4. IsFiniteSet(old) /\ old # {}
    BY <2>3, FiniteEvents
  <2>5. Cardinality(old) \in Nat /\ Cardinality(old) # 0
    BY <2>4, FS_CardinalityType, FS_EmptySet
  <2> QED BY <2>2, <2>5
<1>b. \A k \in A : fd \in need[k]
  BY <1>0 DEF Busy
<1> HIDE DEF fd, kinds, A, need
<1>1. /\ w \in IoType /\ w.events = io.events /\ w.n = io.n
      /\ \A k \in Kinds : ArrayOK(w, k, Without(need, A, fd, k))
  BY <1>0, <1>b, WinDel
<1> HIDE DEF w
<1>2. evmap_io_del(io, ev_fd(e), e, ev_events(e)) = jo
  BY <1>1, <1>0 DEF evmap_io_del, w, A, fd, kinds, IoType
<1>3. N \in [Kinds -> Nat] /\ \A k \in Kinds : N[k] = IF k \in kinds THEN io.n[fd][k] - 1 ELSE io.n[fd][k]
  BY <1>0, <1>a
<1>4. /\ io.events[fd] \in Seq(IoEvents) /\ IsInjective(io.events[fd])
      /\ ToSet(io.events[fd]) = {x \in on : ev_fd(x) = fd}
  BY <1>0 DEF MapIs, IoType
<1>5. E \in Seq(IoEvents) /\ ToSet(E) = {x \in on : ev_fd(x) = fd} \ {e} /\ IsInjective(E)
  BY <1>4, RemoveFromQueue
<1> HIDE DEF N, E, jo
<1>6. /\ jo \in IoType /\ jo.pos = w.pos /\ jo.set = w.set
      /\ jo.n = [io.n EXCEPT ![fd] = N] /\ jo.events = [io.events EXCEPT ![fd] = E]
  BY <1>1, <1>3, <1>5, <1>0 DEF jo, IoType
<1>7. /\ jo.n[fd] = N /\ jo.events[fd] = E
      /\ \A x \in Descriptors \ {fd} : jo.n[x] = io.n[x] /\ jo.events[x] = io.events[x]
  BY <1>6, <1>0 DEF IoType
<1>8. ASSUME NEW x \in Descriptors
      PROVE  /\ IsInjective(jo.events[x])
             /\ ToSet(jo.events[x]) = {y \in on \ {e} : ev_fd(y) = x}
  <2>1. CASE x = fd
    <3>1. {y \in on \ {e} : ev_fd(y) = fd} = {y \in on : ev_fd(y) = fd} \ {e}
      BY DEF fd
    <3> QED BY <3>1, <2>1, <1>5, <1>7
  <2>2. CASE x # fd
    <3>1. {y \in on \ {e} : ev_fd(y) = x} = {y \in on : ev_fd(y) = x}
      BY <2>2 DEF fd
    <3> QED BY <3>1, <2>2, <1>7 DEF MapIs
  <2> QED BY <2>1, <2>2
<1>9. ASSUME NEW x \in Descriptors, NEW k \in Kinds
      PROVE  jo.n[x][k] = Cardinality({y \in on \ {e} : ev_fd(y) = x /\ k \in ev_events(y)})
  <2> DEFINE old == {y \in on : ev_fd(y) = x /\ k \in ev_events(y)}
             new == {y \in on \ {e} : ev_fd(y) = x /\ k \in ev_events(y)}
  <2>1. old \in SUBSET IoEvents
    OBVIOUS
  <2>2. io.n[x][k] = Cardinality(old)
    BY DEF MapIs
  <2>3. CASE x = fd /\ k \in kinds
    <3>1. new = old \ {e} /\ e \in old
      BY <2>3 DEF fd, kinds
    <3> HIDE DEF old, new
    <3>2. IsFiniteSet(old)
      BY <2>1, FiniteEvents
    <3>3. Cardinality(old \ {e}) = Cardinality(old) - 1
      BY <3>2, <3>1, FS_RemoveElement
    <3>4. jo.n[x][k] = io.n[x][k] - 1
      BY <2>3, <1>3, <1>7
    <3> QED BY <3>1, <3>3, <3>4, <2>2 DEF new
  <2>4. CASE ~(x = fd /\ k \in kinds)
    <3>1. new = old
      BY <2>4 DEF fd, kinds
    <3>2. jo.n[x][k] = io.n[x][k]
      BY <2>4, <1>3, <1>7
    <3> QED BY <3>1, <3>2, <2>2
  <2> QED BY <2>3, <2>4
<1>10. ASSUME NEW k \in Kinds
       PROVE  ArrayOK(jo, k, Busy(jo, k))
  <2>1. Busy(jo, k) = Without(need, A, fd, k)
    <3>1. \A x \in Descriptors \ {fd} : jo.n[x][k] = io.n[x][k]
      BY <1>7
    <3>2. jo.n[fd][k] = IF k \in kinds THEN io.n[fd][k] - 1 ELSE io.n[fd][k]
      BY <1>7, <1>3
    <3>3. io.n[fd][k] \in Nat /\ (k \in kinds => io.n[fd][k] >= 1)
      BY <1>0, <1>a DEF fd, kinds
    <3>4. jo.n[fd][k] # 0 <=> (io.n[fd][k] # 0 /\ ~(k \in kinds /\ io.n[fd][k] = 1))
      BY <3>2, <3>3
    <3>5. need[k] = Busy(io, k) /\ (k \in A <=> k \in kinds /\ io.n[fd][k] = 1)
      BY <1>0
    <3> QED BY <3>1, <3>4, <3>5, <1>0 DEF Busy, Without
  <2>2. ArrayOK(w, k, Without(need, A, fd, k))
    BY <1>1
  <2> QED BY <2>1, <2>2, <1>6, ArrayCongruence
<1>11. MapIs(jo, on \ {e})
  BY <1>6, <1>8, <1>9, <1>10 DEF MapIs
<1> QED BY <1>2, <1>11

-----------------------------------------------------------------------------
(* The heap of timeouts.                                                   *)

(* The parent of a place of the heap. *)
LEMMA ParentFacts ==
    ASSUME NEW i \in Nat, i >= 2
    PROVE  /\ Parent(i) \in Nat /\ Parent(i) >= 1 /\ Parent(i) < i
           /\ 2 * Parent(i) <= i /\ i <= 2 * Parent(i) + 1
BY DEF Parent

(* The children of a place of the heap. *)
LEMMA ChildFacts ==
    ASSUME NEW i \in Nat, i >= 1, NEW c \in {2 * i, 2 * i + 1}
    PROVE  c \in Nat /\ c >= 2 /\ c > i /\ Parent(c) = i
BY DEF Parent

(* The recursive function of ShiftUp. *)
IsUp(f, h, key, e, n) ==
    f = [i \in 1..n |-> IF i # 1 /\ key[h[Parent(i)]] > key[e]
                        THEN [f[Parent(i)] EXCEPT ![i] = h[Parent(i)]]
                        ELSE [h EXCEPT ![i] = e]]

(* The recursive function of min_heap_shift_up_ exists. *)
LEMMA UpExists ==
    ASSUME NEW h, NEW key, NEW e, NEW n \in Nat
    PROVE  \E f : IsUp(f, h, key, e, n)
<1> DEFINE P == {k \in 0..n : \E f : IsUp(f, h, key, e, k)}
<1>1. 0 \in P
  <2>1. 1..0 = {}
    OBVIOUS
  <2> DEFINE f == [i \in 1..0 |-> h]
  <2>2. IsUp(f, h, key, e, 0)
    BY <2>1 DEF IsUp
  <2> QED BY <2>2
<1>2. ASSUME NEW k \in 0..n, k < n, k \in P
      PROVE  k + 1 \in P
  <2>1. PICK f : IsUp(f, h, key, e, k)
    BY <1>2
  <2> DEFINE B(i) == IF i # 1 /\ key[h[Parent(i)]] > key[e]
                     THEN [f[Parent(i)] EXCEPT ![i] = h[Parent(i)]]
                     ELSE [h EXCEPT ![i] = e]
             g == [i \in 1..(k + 1) |-> IF i = k + 1 THEN B(k + 1) ELSE f[i]]
  <2>2. ASSUME NEW i \in 1..(k + 1)
        PROVE  g[i] = IF i # 1 /\ key[h[Parent(i)]] > key[e]
                      THEN [g[Parent(i)] EXCEPT ![i] = h[Parent(i)]]
                      ELSE [h EXCEPT ![i] = e]
    <3>1. CASE i = 1
      <4>1. CASE k = 0
        BY <3>1, <4>1
      <4>2. CASE k # 0
        <5>1. 1 \in 1..k /\ 1 # k + 1
          BY <4>2
        <5> QED BY <5>1, <3>1, <2>1 DEF IsUp
      <4> QED BY <4>1, <4>2
    <3>2. CASE i # 1
      <4>1. /\ Parent(i) \in 1..(k + 1) /\ Parent(i) # k + 1 /\ Parent(i) \in 1..k
        <5>1. i \in Nat /\ i >= 2 /\ i <= k + 1
          BY <3>2
        <5>2. Parent(i) \in Nat /\ Parent(i) >= 1 /\ Parent(i) < i
          BY <5>1, ParentFacts
        <5> QED BY <5>1, <5>2
      <4>2. g[Parent(i)] = f[Parent(i)]
        BY <4>1
      <4>3. CASE i = k + 1
        BY <4>2, <4>3
      <4>4. CASE i # k + 1
        <5>1. i \in 1..k
          BY <4>4
        <5>2. f[i] = B(i)
          BY <5>1, <2>1 DEF IsUp
        <5>3. g[i] = f[i]
          BY <4>4
        <5> QED BY <5>2, <5>3, <4>2
      <4> QED BY <4>3, <4>4
    <3> QED BY <3>1, <3>2
  <2>3. IsUp(g, h, key, e, k + 1)
    <3> HIDE DEF B
    <3>1. g = [i \in 1..(k + 1) |-> g[i]]
      OBVIOUS
    <3> HIDE DEF g
    <3> QED BY <3>1, <2>2 DEF IsUp
  <2>4. k + 1 \in 0..n
    BY <1>2
  <2> HIDE DEF g
  <2> QED BY <2>3, <2>4
<1>3. 0..n \subseteq P
  <2> HIDE DEF P
  <2> QED BY <1>1, <1>2, UpTo
<1> QED BY <1>3

(* The elements that ShiftUp moves down are those of the positions A, which *)
(* lie between i and the place t that e takes.                              *)
UpPath(A, t, i, r, h, key, e, n) ==
    /\ A \in SUBSET (2..n) /\ t \in 1..n /\ t \notin A /\ t <= i
    /\ (i = t \/ i \in A)
    /\ \A x \in A : x <= i /\ t < x /\ Parent(x) \in A \cup {t} /\ key[h[Parent(x)]] > key[e]
    /\ \A x, y \in A : Parent(x) = Parent(y) => x = y
    /\ \A m \in A \cup {t} : m # i => \E x \in A : Parent(x) = m
    /\ t = 1 \/ ~(key[h[Parent(t)]] > key[e])
    /\ DOMAIN r = 1..n
    /\ \A j \in 1..n : r[j] = IF j \in A THEN h[Parent(j)] ELSE IF j = t THEN e ELSE h[j]

(* min_heap_shift_up_ stops at some place t, having walked the path A. *)
LEMMA ShiftUpPath ==
    ASSUME NEW S, NEW h \in Seq(S), NEW e \in S, NEW key \in [S -> Int], NEW f, NEW n \in Nat, n = Len(h),
           IsUp(f, h, key, e, n), NEW i \in 1..n
    PROVE  f[i] \in Seq(S) /\ \E A, t : UpPath(A, t, i, f[i], h, key, e, n)
<1> DEFINE P == {0} \cup {k \in 1..n : f[k] \in Seq(S) /\ \E A, t : UpPath(A, t, k, f[k], h, key, e, n)}
<1>0. \A k \in 1..n : h[k] \in S
  OBVIOUS
<1>h. DOMAIN h = 1..n
  OBVIOUS
<1>1. ASSUME NEW k \in 1..n, \A j \in 1..n : j < k => j \in P
      PROVE  k \in P
  <2>1. CASE ~(k # 1 /\ key[h[Parent(k)]] > key[e])
    <3>1. f[k] = [h EXCEPT ![k] = e]
      BY <2>1 DEF IsUp
    <3>2. /\ f[k] \in Seq(S) /\ DOMAIN f[k] = 1..n
          /\ \A j \in 1..n : f[k][j] = IF j = k THEN e ELSE h[j]
      BY <3>1
    <3>3. UpPath({}, k, k, f[k], h, key, e, n)
      BY <3>2, <2>1 DEF UpPath
    <3> QED BY <3>2, <3>3
  <2>2. CASE k # 1 /\ key[h[Parent(k)]] > key[e]
    <3> DEFINE p == Parent(k)
    <3>1. p \in 1..n /\ p < k /\ k \in 2..n
      <4>1. k \in Nat /\ k >= 2 /\ k <= n
        BY <2>2
      <4> QED BY <4>1, ParentFacts
    <3>2. f[k] = [f[p] EXCEPT ![k] = h[p]]
      BY <2>2 DEF IsUp
    <3>3. p \in P /\ p # 0
      BY <3>1, <1>1
    <3>4. f[p] \in Seq(S)
      BY <3>3
    <3>5. PICK A, t : UpPath(A, t, p, f[p], h, key, e, n)
      BY <3>3
    <3> HIDE DEF P
    <3>6. DOMAIN f[p] = 1..n
      BY <3>5 DEF UpPath
    <3>7. f[k] \in Seq(S) /\ DOMAIN f[k] = 1..n
      BY <3>1, <3>2, <3>4, <3>6, <1>0
    <3>8. \A j \in 1..n : f[k][j] = IF j = k THEN h[p] ELSE f[p][j]
      BY <3>2, <3>6, <3>1
    <3> DEFINE B == A \cup {k}
    <3>9. /\ A \in SUBSET (2..n) /\ t \in 1..n /\ t \notin A /\ t <= p
          /\ (p = t \/ p \in A)
          /\ \A x \in A : x <= p /\ t < x /\ Parent(x) \in A \cup {t} /\ key[h[Parent(x)]] > key[e]
          /\ \A x, y \in A : Parent(x) = Parent(y) => x = y
          /\ \A m \in A \cup {t} : m # p => \E x \in A : Parent(x) = m
          /\ t = 1 \/ ~(key[h[Parent(t)]] > key[e])
          /\ \A j \in 1..n : f[p][j] = IF j \in A THEN h[Parent(j)] ELSE IF j = t THEN e ELSE h[j]
      BY <3>5 DEF UpPath
    <3>10. B \in SUBSET (2..n) /\ t \notin B /\ t <= k /\ k \in B /\ k \notin A
      BY <3>1, <3>9
    <3>11. \A x \in B : x <= k /\ t < x /\ Parent(x) \in B \cup {t} /\ key[h[Parent(x)]] > key[e]
      <4> TAKE x \in B
      <4>1. CASE x = k
        BY <4>1, <3>1, <3>9, <2>2
      <4>2. CASE x \in A
        <5>1. x \in Int /\ x <= p /\ p < k /\ p \in Int /\ k \in Int
          BY <4>2, <3>1, <3>9
        <5>2. x <= k
          BY <5>1
        <5> QED BY <4>2, <5>2, <3>9
      <4> QED BY <4>1, <4>2
    <3>12. \A x \in A : Parent(x) # p
      <4> TAKE x \in A
      <4>1. x \in Nat /\ x >= 2 /\ x <= p
        BY <3>9
      <4>2. Parent(x) < x /\ Parent(x) \in Nat
        BY <4>1, ParentFacts
      <4> QED BY <4>1, <4>2, <3>1
    <3>13. \A x, y \in B : Parent(x) = Parent(y) => x = y
      BY <3>12, <3>9
    <3>14. \A m \in B \cup {t} : m # k => \E x \in B : Parent(x) = m
      <4> TAKE m \in B \cup {t}
      <4> HAVE m # k
      <4>1. CASE m = p
        BY <4>1
      <4>2. CASE m # p
        BY <4>2, <3>9
      <4> QED BY <4>1, <4>2
    <3>15. \A j \in 1..n : f[k][j] = IF j \in B THEN h[Parent(j)] ELSE IF j = t THEN e ELSE h[j]
      BY <3>8, <3>9, <3>10
    <3> HIDE DEF B
    <3>16. UpPath(B, t, k, f[k], h, key, e, n)
      BY <3>7, <3>9, <3>10, <3>11, <3>13, <3>14, <3>15 DEF UpPath
    <3> QED BY <3>7, <3>16 DEF P
  <2> QED BY <2>1, <2>2
<1> DEFINE T == {k \in 1..n : k \notin P}
<1>2. T = {}
  <2> SUFFICES ASSUME T # {} PROVE FALSE
    OBVIOUS
  <2>1. T \in SUBSET Nat
    OBVIOUS
  <2>2. PICK x \in T : \A y \in T : x <= y
    <3> HIDE DEF T
    <3> QED BY <2>1, LeastNumber
  <2>3. x \in 1..n /\ x \notin P
    OBVIOUS
  <2> HIDE DEF P
  <2>4. \A j \in 1..n : j < x => j \in P
    BY <2>2, <2>3
  <2> QED BY <2>3, <2>4, <1>1
<1>3. i \in P
  <2> HIDE DEF P
  <2> QED BY <1>2
<1>4. i # 0
  OBVIOUS
<1> QED BY <1>3, <1>4

(* The heap is one except around position i. *)
HeapOff(h, key, i, n) ==
    \A j \in 2..n : j # i /\ Parent(j) # i => key[h[Parent(j)]] <= key[h[j]]

(* The elements of h but the one at position i, which is free, and e. *)
DistinctOff(h, i, e, n) ==
    /\ \A x, y \in (1..n) \ {i} : h[x] = h[y] => x = y
    /\ \A x \in (1..n) \ {i} : h[x] # e

(* The elements of h but the one at position i. *)
Others(h, i) == {h[x] : x \in (1..Len(h)) \ {i}}

(* What min_heap_shift_up_ leaves at every place. *)
LEMMA ShiftUpIs ==
    ASSUME NEW S, NEW h \in Seq(S), NEW e \in S, NEW key \in [S -> Int], NEW i \in 1..Len(h)
    PROVE  /\ ShiftUp(h, key, i, e) \in Seq(S)
           /\ \E A, t : UpPath(A, t, i, ShiftUp(h, key, i, e), h, key, e, Len(h))
<1> DEFINE n == Len(h)
           f == CHOOSE up : up = [j \in 1..n |-> IF j # 1 /\ key[h[Parent(j)]] > key[e]
                                                 THEN [up[Parent(j)] EXCEPT ![j] = h[Parent(j)]]
                                                 ELSE [h EXCEPT ![j] = e]]
<1>1. n \in Nat
  OBVIOUS
<1>2. ShiftUp(h, key, i, e) = f[i]
  BY DEF ShiftUp
<1>3. \E up : IsUp(up, h, key, e, n)
  BY <1>1, UpExists
<1>4. IsUp(f, h, key, e, n)
  BY <1>3 DEF IsUp
<1> HIDE DEF f
<1>5. f[i] \in Seq(S) /\ \E A, t : UpPath(A, t, i, f[i], h, key, e, n)
  BY <1>1, <1>4, ShiftUpPath
<1> QED BY <1>2, <1>5

(* ShiftUp leaves a heap, if the hole is where e may go or above. *)
LEMMA ShiftUpIsHeap ==
    ASSUME NEW S, NEW h \in Seq(S), NEW e \in S, NEW key \in [S -> Int], NEW i \in 1..Len(h),
           HeapOff(h, key, i, Len(h)),
           \A c \in 2..Len(h) : Parent(c) = i =>
              key[e] <= key[h[c]] /\ (i # 1 => key[h[Parent(i)]] <= key[h[c]])
    PROVE  /\ ShiftUp(h, key, i, e) \in Seq(S) /\ Len(ShiftUp(h, key, i, e)) = Len(h)
           /\ IsHeap(ShiftUp(h, key, i, e), key)
<1> DEFINE r == ShiftUp(h, key, i, e)
           n == Len(h)
<1>1. r \in Seq(S) /\ \E A, t : UpPath(A, t, i, r, h, key, e, n)
  BY ShiftUpIs
<1> HIDE DEF r
<1>2. PICK A, t : UpPath(A, t, i, r, h, key, e, n)
  BY <1>1
<1>3. /\ A \in SUBSET (2..n) /\ t \in 1..n /\ t \notin A /\ t <= i
      /\ (i = t \/ i \in A)
      /\ \A x \in A : x <= i /\ t < x /\ Parent(x) \in A \cup {t} /\ key[h[Parent(x)]] > key[e]
      /\ \A m \in A \cup {t} : m # i => \E x \in A : Parent(x) = m
      /\ t = 1 \/ ~(key[h[Parent(t)]] > key[e])
      /\ \A j \in 1..n : r[j] = IF j \in A THEN h[Parent(j)] ELSE IF j = t THEN e ELSE h[j]
      /\ DOMAIN r = 1..n
  BY <1>2 DEF UpPath
<1>4. Len(r) = n /\ n \in Nat
  BY <1>1, <1>3
<1>5. /\ \A x \in 1..n : h[x] \in S /\ key[h[x]] \in Int
      /\ key[e] \in Int
  OBVIOUS
<1>6. \A j \in 2..n : Parent(j) \in 1..n /\ Parent(j) < j /\ j \in 1..n
  <2> TAKE j \in 2..n
  <2>1. j \in Nat /\ j >= 2 /\ j <= n
    OBVIOUS
  <2> QED BY <2>1, ParentFacts
<1>7. ASSUME NEW j \in 2..n
      PROVE  key[r[Parent(j)]] <= key[r[j]]
  <2> DEFINE p == Parent(j)
  <2>0. p \in 1..n /\ p < j /\ j \in 1..n /\ key[h[p]] \in Int /\ key[h[j]] \in Int /\ key[e] \in Int
    BY <1>5, <1>6
  <2>1. CASE j \in A
    <3>1. r[j] = h[p] /\ p \in A \cup {t} /\ key[h[p]] > key[e] /\ p # i
      BY <2>1, <1>3, <2>0
    <3>2. CASE p = t
      BY <3>1, <3>2, <1>3, <2>0
    <3>3. CASE p \in A
      <4>1. r[p] = h[Parent(p)] /\ p \in 2..n
        BY <3>3, <1>3, <2>0
      <4>2. Parent(p) # i
        <5>1. Parent(p) < p /\ Parent(p) \in 1..n
          BY <4>1, <1>6
        <5>2. j <= i
          BY <2>1, <1>3
        <5> QED BY <5>1, <5>2, <2>0
      <4>3. key[h[Parent(p)]] <= key[h[p]]
        BY <4>1, <4>2, <3>1 DEF HeapOff
      <4> QED BY <3>1, <4>1, <4>3
    <3> QED BY <3>1, <3>2, <3>3
  <2>2. CASE j = t
    <3>1. p \notin A /\ p # t
      BY <2>2, <2>0, <1>3
    <3>2. r[p] = h[p] /\ r[j] = e
      BY <3>1, <2>0, <2>2, <1>3
    <3>3. ~(key[h[p]] > key[e])
      BY <2>2, <1>3
    <3> QED BY <3>2, <3>3, <2>0
  <2>3. CASE j \notin A \cup {t}
    <3>1. r[j] = h[j] /\ j # i
      BY <2>3, <2>0, <1>3
    <3>2. CASE p \notin A \cup {t}
      <4>1. r[p] = h[p] /\ p # i
        BY <3>2, <2>0, <1>3
      <4> QED BY <3>1, <4>1 DEF HeapOff
    <3>3. CASE p = t
      <4>1. r[p] = e
        BY <3>3, <2>0, <1>3
      <4>2. CASE t = i
        BY <4>1, <4>2, <3>1, <3>3
      <4>3. CASE t # i
        <5>1. PICK x \in A : Parent(x) = t
          BY <4>3, <1>3
        <5>2. key[h[t]] > key[e]
          BY <5>1, <1>3
        <5>3. key[h[t]] <= key[h[j]]
          BY <4>3, <3>1, <3>3 DEF HeapOff
        <5> QED BY <5>2, <5>3, <4>1, <3>1, <3>3, <2>0
      <4> QED BY <4>2, <4>3
    <3>4. CASE p \in A
      <4>1. r[p] = h[Parent(p)] /\ p \in 2..n /\ Parent(p) \in 1..n /\ Parent(p) < p
        BY <3>4, <2>0, <1>3, <1>6
      <4>2. CASE p = i
        <5>1. i # 1
          BY <4>1, <4>2
        <5> QED BY <4>1, <4>2, <5>1, <3>1
      <4>3. CASE p # i
        <5>1. Parent(p) # i
          <6>1. p <= i
            BY <3>4, <1>3
          <6> QED BY <6>1, <4>1, <4>3
        <5>2. key[h[Parent(p)]] <= key[h[p]]
          BY <4>1, <4>3, <5>1 DEF HeapOff
        <5>3. key[h[p]] <= key[h[j]]
          BY <4>3, <3>1 DEF HeapOff
        <5>4. key[h[Parent(p)]] \in Int
          BY <4>1, <1>5
        <5> QED BY <5>2, <5>3, <5>4, <4>1, <3>1, <2>0, SMTT(30)
      <4> QED BY <4>2, <4>3
    <3> QED BY <3>2, <3>3, <3>4
  <2> QED BY <2>1, <2>2, <2>3
<1>8. IsHeap(r, key)
  BY <1>4, <1>7 DEF IsHeap
<1> QED BY <1>1, <1>4, <1>8 DEF r

(* min_heap_shift_up_ keeps the other events, each once. *)
LEMMA ShiftUpPermutes ==
    ASSUME NEW S, NEW h \in Seq(S), NEW e \in S, NEW key \in [S -> Int], NEW i \in 1..Len(h),
           DistinctOff(h, i, e, Len(h))
    PROVE  /\ IsInjective(ShiftUp(h, key, i, e))
           /\ ToSet(ShiftUp(h, key, i, e)) = Others(h, i) \cup {e}
<1> DEFINE r == ShiftUp(h, key, i, e)
           n == Len(h)
<1>1. r \in Seq(S) /\ \E A, t : UpPath(A, t, i, r, h, key, e, n)
  BY ShiftUpIs
<1> HIDE DEF r
<1>2. PICK A, t : UpPath(A, t, i, r, h, key, e, n)
  BY <1>1
<1>3. /\ A \in SUBSET (2..n) /\ t \in 1..n /\ t \notin A /\ t <= i
      /\ (i = t \/ i \in A)
      /\ \A x \in A : x <= i /\ Parent(x) \in A \cup {t}
      /\ \A x, y \in A : Parent(x) = Parent(y) => x = y
      /\ \A m \in A \cup {t} : m # i => \E x \in A : Parent(x) = m
      /\ \A j \in 1..n : r[j] = IF j \in A THEN h[Parent(j)] ELSE IF j = t THEN e ELSE h[j]
      /\ DOMAIN r = 1..n
  BY <1>2 DEF UpPath
<1>4. \A j \in A : Parent(j) \in (1..n) \ {i} /\ j \in 1..n
  <2> TAKE j \in A
  <2>1. j \in Nat /\ j >= 2 /\ j <= n /\ j <= i
    BY <1>3
  <2>2. Parent(j) \in Nat /\ Parent(j) >= 1 /\ Parent(j) < j
    BY <2>1, ParentFacts
  <2> QED BY <2>1, <2>2
<1>5. \A j \in (1..n) \ (A \cup {t}) : j # i
  BY <1>3
<1> DEFINE src(j) == IF j \in A THEN Parent(j) ELSE j
<1>6. \A j \in (1..n) \ {t} : r[j] = h[src(j)] /\ src(j) \in (1..n) \ {i}
  BY <1>3, <1>4, <1>5
<1>7. r[t] = e
  BY <1>3
<1>8. \A x, y \in (1..n) \ {t} : src(x) = src(y) => x = y
  BY <1>3
<1>9. \A m \in (1..n) \ {i} : \E j \in (1..n) \ {t} : src(j) = m
  <2> TAKE m \in (1..n) \ {i}
  <2>1. CASE m \in A \cup {t}
    <3>1. PICK x \in A : Parent(x) = m
      BY <2>1, <1>3
    <3> QED BY <3>1, <1>3, <1>4
  <2>2. CASE m \notin A \cup {t}
    BY <2>2
  <2> QED BY <2>1, <2>2
<1> HIDE DEF src
<1>10. IsInjective(r)
  <2> SUFFICES ASSUME NEW x \in 1..n, NEW y \in 1..n, r[x] = r[y]
               PROVE  x = y
    BY <1>3 DEF IsInjective
  <2>1. CASE x = t /\ y # t
    BY <2>1, <1>6, <1>7 DEF DistinctOff
  <2>2. CASE x # t /\ y = t
    BY <2>2, <1>6, <1>7 DEF DistinctOff
  <2>3. CASE x # t /\ y # t
    BY <2>3, <1>6, <1>8, ZenonT(30) DEF DistinctOff
  <2> QED BY <2>1, <2>2, <2>3
<1>11. ToSet(r) = {h[x] : x \in (1..n) \ {i}} \cup {e}
  <2>1. \A j \in 1..n : r[j] \in {h[x] : x \in (1..n) \ {i}} \cup {e}
    BY <1>6, <1>7
  <2>2. ASSUME NEW x \in (1..n) \ {i} PROVE h[x] \in ToSet(r)
    <3>1. PICK j \in (1..n) \ {t} : src(j) = x
      BY <1>9
    <3>2. r[j] = h[x] /\ j \in DOMAIN r
      BY <3>1, <1>6, <1>3
    <3> QED BY <3>2 DEF ToSet
  <2>3. e \in ToSet(r)
    BY <1>3, <1>7 DEF ToSet
  <2>4. \A y \in ToSet(r) : \E j \in 1..n : y = r[j]
    BY <1>3 DEF ToSet
  <2> QED BY <2>1, <2>2, <2>3, <2>4
<1> QED BY <1>10, <1>11 DEF r, Others

(* SmallerChild is a child, and no child is earlier. *)
LEMMA SmallerChildIs ==
    ASSUME NEW S, NEW h \in Seq(S), NEW key \in [S -> Int], NEW n \in Nat, n = Len(h),
           NEW i \in 1..n, 2 * i <= n
    PROVE  /\ SmallerChild(h, key, i) \in 2..n
           /\ SmallerChild(h, key, i) > i
           /\ Parent(SmallerChild(h, key, i)) = i
           /\ \A j \in 2..n : Parent(j) = i => key[h[SmallerChild(h, key, i)]] <= key[h[j]]
<1> DEFINE c == SmallerChild(h, key, i)
<1>0. \A x \in 1..n : h[x] \in S /\ key[h[x]] \in Int
  OBVIOUS
<1>1. c \in {2 * i, 2 * i + 1} /\ c <= n
  BY DEF SmallerChild
<1>2. i \in Nat /\ i >= 1
  OBVIOUS
<1>3. c \in Nat /\ c >= 2 /\ c > i /\ Parent(c) = i
  <2> HIDE DEF c
  <2> QED BY <1>1, <1>2, ChildFacts
<1>4. ASSUME NEW j \in 2..n, Parent(j) = i
      PROVE  key[h[c]] <= key[h[j]]
  <2>1. j \in {2 * i, 2 * i + 1}
    <3>1. j \in Nat /\ j >= 2
      OBVIOUS
    <3>2. 2 * Parent(j) <= j /\ j <= 2 * Parent(j) + 1
      BY <3>1, ParentFacts
    <3> QED BY <3>1, <3>2, <1>4
  <2>2. CASE j = c
    BY <2>2, <1>0
  <2>3. CASE j = 2 * i /\ c = 2 * i + 1
    <3>1. ~(key[h[2 * i + 1]] > key[h[2 * i]])
      BY <2>3 DEF SmallerChild
    <3>2. key[h[2 * i + 1]] \in Int /\ key[h[2 * i]] \in Int
      BY <1>0, <1>1, <2>3
    <3> HIDE DEF c
    <3> QED BY <3>1, <3>2, <2>3
  <2>4. CASE j = 2 * i + 1 /\ c = 2 * i
    <3>0. 2 * i + 1 <= n /\ 2 * i # 2 * i + 1
      BY <2>4
    <3>1. key[h[2 * i + 1]] > key[h[2 * i]]
      <4> SUFFICES ASSUME ~(key[h[2 * i + 1]] > key[h[2 * i]]) PROVE FALSE
        OBVIOUS
      <4>1. ~(2 * i + 1 > Len(h))
        BY <3>0
      <4>2. c = 2 * i + 1
        BY <4>1 DEF SmallerChild
      <4> QED BY <4>2, <2>4, <3>0
    <3>2. key[h[2 * i + 1]] \in Int /\ key[h[2 * i]] \in Int
      BY <1>0, <1>1, <2>4
    <3> HIDE DEF c
    <3> QED BY <3>1, <3>2, <2>4
  <2>5. j = c \/ (j = 2 * i /\ c = 2 * i + 1) \/ (j = 2 * i + 1 /\ c = 2 * i)
    <3> HIDE DEF c
    <3> QED BY <1>1, <2>1
  <2> QED BY <2>2, <2>3, <2>4, <2>5
<1>5. c \in 2..n
  <2> HIDE DEF c
  <2> QED BY <1>1, <1>3
<1> QED BY <1>3, <1>4, <1>5

(* The recursive function of ShiftDown, on the positions from m on. *)
Stops(h, key, e, n, i) == 2 * i > n \/ ~(key[e] > key[h[SmallerChild(h, key, i)]])
IsDown(f, h, key, e, n, m) ==
    f = [i \in m..n |-> IF Stops(h, key, e, n, i) THEN [h EXCEPT ![i] = e]
                        ELSE [f[SmallerChild(h, key, i)] EXCEPT ![i] = h[SmallerChild(h, key, i)]]]

(* The recursive function of min_heap_shift_down_ exists. *)
LEMMA DownExists ==
    ASSUME NEW S, NEW h \in Seq(S), NEW key \in [S -> Int], NEW e, NEW n \in Nat, n = Len(h)
    PROVE  \E f : IsDown(f, h, key, e, n, 1)
<1> DEFINE P == {k \in 0..n : \E f : IsDown(f, h, key, e, n, (n + 1) - k)}
<1>1. 0 \in P
  <2>1. (n + 1)..n = {} /\ (n + 1) - 0 = n + 1
    OBVIOUS
  <2> DEFINE f == [i \in (n + 1)..n |-> h]
  <2>2. IsDown(f, h, key, e, n, n + 1)
    BY <2>1 DEF IsDown
  <2> QED BY <2>1, <2>2
<1>2. ASSUME NEW k \in 0..n, k < n, k \in P
      PROVE  k + 1 \in P
  <2> DEFINE m == n - k
  <2>0. /\ m \in 1..n /\ (n + 1) - k = m + 1 /\ (n + 1) - (k + 1) = m
        /\ k + 1 \in 0..n
    BY <1>2
  <2>1. PICK f : IsDown(f, h, key, e, n, m + 1)
    BY <1>2, <2>0
  <2> HIDE DEF m
  <2> DEFINE C(i) == SmallerChild(h, key, i)
             B(i) == IF Stops(h, key, e, n, i) THEN [h EXCEPT ![i] = e]
                     ELSE [f[C(i)] EXCEPT ![i] = h[C(i)]]
             g == [i \in m..n |-> IF i = m THEN B(m) ELSE f[i]]
  <2>2. ASSUME NEW i \in m..n
        PROVE  g[i] = IF Stops(h, key, e, n, i) THEN [h EXCEPT ![i] = e]
                      ELSE [g[C(i)] EXCEPT ![i] = h[C(i)]]
    <3>1. CASE Stops(h, key, e, n, i)
      <4>1. CASE i = m
        BY <3>1, <4>1
      <4>2. CASE i # m
        <5>1. i \in (m + 1)..n
          BY <4>2, <2>0
        <5> QED BY <5>1, <4>2, <3>1, <2>1 DEF IsDown
      <4> QED BY <4>1, <4>2
    <3>2. CASE ~Stops(h, key, e, n, i)
      <4>1. C(i) \in m..n /\ C(i) # m
        <5>1. i \in 1..n /\ 2 * i <= n
          BY <3>2, <2>0 DEF Stops
        <5>2. C(i) \in 2..n /\ C(i) > i
          BY <5>1, SmallerChildIs
        <5> QED BY <5>2, <2>0, SMTT(30)
      <4> HIDE DEF C
      <4>2. g[C(i)] = f[C(i)]
        BY <4>1
      <4>3. g[i] = B(i)
        <5>1. CASE i = m
          BY <5>1
        <5>2. CASE i # m
          <6>1. i \in (m + 1)..n
            BY <5>2, <2>0
          <6>2. f[i] = B(i)
            BY <6>1, <2>1 DEF IsDown, C
          <6> HIDE DEF B
          <6> QED BY <6>2, <5>2
        <5> QED BY <5>1, <5>2
      <4> QED BY <4>2, <4>3, <3>2
    <3> QED BY <3>1, <3>2
  <2>3. IsDown(g, h, key, e, n, m)
    <3>1. g = [i \in m..n |-> g[i]]
      OBVIOUS
    <3> HIDE DEF g, B
    <3> QED BY <3>1, <2>2 DEF IsDown
  <2> HIDE DEF g
  <2> QED BY <2>0, <2>3
<1>3. 0..n \subseteq P
  <2> HIDE DEF P
  <2> QED BY <1>1, <1>2, UpTo
<1>4. n \in P /\ (n + 1) - n = 1
  BY <1>3
<1> QED BY <1>4

(* The positions A get their smaller child, and e takes the place t below them. *)
DownPath(A, t, i, r, h, key, e, n) ==
    /\ A \in SUBSET (1..n) /\ t \in 1..n /\ i <= t
    /\ (i = t \/ i \in A)
    /\ \A x \in A : /\ i <= x /\ x < t /\ 2 * x <= n
                    /\ SmallerChild(h, key, x) \in A \cup {t}
                    /\ key[e] > key[h[SmallerChild(h, key, x)]]
    /\ \A m \in A \cup {t} : m # i => \E x \in A : SmallerChild(h, key, x) = m
    /\ Stops(h, key, e, n, t)
    /\ DOMAIN r = 1..n
    /\ \A j \in 1..n : r[j] = IF j \in A THEN h[SmallerChild(h, key, j)] ELSE IF j = t THEN e ELSE h[j]

(* min_heap_shift_down_ stops at some place t, having walked the path A. *)
LEMMA ShiftDownPath ==
    ASSUME NEW S, NEW h \in Seq(S), NEW e \in S, NEW key \in [S -> Int], NEW f, NEW n \in Nat, n = Len(h),
           IsDown(f, h, key, e, n, 1), NEW i \in 1..n
    PROVE  f[i] \in Seq(S) /\ \E A, t : DownPath(A, t, i, f[i], h, key, e, n)
<1> DEFINE P == {k \in 1..n : f[k] \in Seq(S) /\ \E A, t : DownPath(A, t, k, f[k], h, key, e, n)}
<1>0. (\A k \in 1..n : h[k] \in S) /\ DOMAIN h = 1..n
  OBVIOUS
<1>1. ASSUME NEW k \in 1..n, \A j \in 1..n : j > k => j \in P
      PROVE  k \in P
  <2>1. CASE Stops(h, key, e, n, k)
    <3>1. f[k] = [h EXCEPT ![k] = e]
      BY <2>1 DEF IsDown
    <3>2. /\ f[k] \in Seq(S) /\ DOMAIN f[k] = 1..n
          /\ \A j \in 1..n : f[k][j] = IF j = k THEN e ELSE h[j]
      BY <3>1
    <3>3. DownPath({}, k, k, f[k], h, key, e, n)
      BY <3>2, <2>1 DEF DownPath
    <3> QED BY <3>2, <3>3
  <2>2. CASE ~Stops(h, key, e, n, k)
    <3> DEFINE c == SmallerChild(h, key, k)
    <3>0. 2 * k <= n /\ key[e] > key[h[c]]
      BY <2>2 DEF Stops
    <3>1. c \in 2..n /\ c > k
      BY <3>0, SmallerChildIs
    <3>2. f[k] = [f[c] EXCEPT ![k] = h[c]]
      BY <2>2 DEF IsDown
    <3> HIDE DEF c
    <3>3. c \in P /\ c \in 1..n
      BY <3>1, <1>1
    <3>4. f[c] \in Seq(S)
      BY <3>3
    <3>5. PICK A, t : DownPath(A, t, c, f[c], h, key, e, n)
      BY <3>3
    <3> HIDE DEF P
    <3>6. DOMAIN f[c] = 1..n
      BY <3>5 DEF DownPath
    <3>7. f[k] \in Seq(S) /\ DOMAIN f[k] = 1..n
      BY <3>1, <3>2, <3>3, <3>4, <3>6, <1>0
    <3>8. \A j \in 1..n : f[k][j] = IF j = k THEN h[c] ELSE f[c][j]
      BY <3>2, <3>6, <3>1
    <3> DEFINE B == A \cup {k}
    <3>9. /\ A \in SUBSET (1..n) /\ t \in 1..n /\ c <= t
          /\ (c = t \/ c \in A)
          /\ \A x \in A : /\ c <= x /\ x < t /\ 2 * x <= n
                          /\ SmallerChild(h, key, x) \in A \cup {t}
                          /\ key[e] > key[h[SmallerChild(h, key, x)]]
          /\ \A m \in A \cup {t} : m # c => \E x \in A : SmallerChild(h, key, x) = m
          /\ Stops(h, key, e, n, t)
          /\ \A j \in 1..n : f[c][j] = IF j \in A THEN h[SmallerChild(h, key, j)] ELSE IF j = t THEN e ELSE h[j]
      BY <3>5 DEF DownPath
    <3>10. B \in SUBSET (1..n) /\ k <= t /\ k < t /\ k \in B /\ k \notin A
      <4>1. k < t
        BY <3>1, <3>9
      <4>2. k \notin A
        <5> SUFFICES ASSUME k \in A PROVE FALSE
          OBVIOUS
        <5>1. c <= k
          BY <3>9
        <5> QED BY <5>1, <3>1
      <4> QED BY <4>1, <4>2, <3>9
    <3>11. \A x \in B : /\ k <= x /\ x < t /\ 2 * x <= n
                        /\ SmallerChild(h, key, x) \in B \cup {t}
                        /\ key[e] > key[h[SmallerChild(h, key, x)]]
      <4> TAKE x \in B
      <4>1. CASE x = k
        <5>1. SmallerChild(h, key, x) = c
          BY <4>1 DEF c
        <5> QED BY <4>1, <5>1, <3>0, <3>9, <3>10
      <4>2. CASE x \in A
        <5>1. x \in Int /\ c <= x /\ k < c /\ c \in Int /\ k \in Int
          BY <4>2, <3>1, <3>9
        <5>2. k <= x
          BY <5>1
        <5> QED BY <4>2, <5>2, <3>9
      <4> QED BY <4>1, <4>2
    <3>14. \A m \in B \cup {t} : m # k => \E x \in B : SmallerChild(h, key, x) = m
      <4> TAKE m \in B \cup {t}
      <4> HAVE m # k
      <4>1. CASE m = c
        BY <4>1, <3>10 DEF c
      <4>2. CASE m # c
        BY <4>2, <3>9
      <4> QED BY <4>1, <4>2
    <3>15. \A j \in 1..n : f[k][j] = IF j \in B THEN h[SmallerChild(h, key, j)] ELSE IF j = t THEN e ELSE h[j]
      <4> TAKE j \in 1..n
      <4>1. CASE j = k
        BY <4>1, <3>8, <3>10 DEF c
      <4>2. CASE j # k
        BY <4>2, <3>8, <3>9
      <4> QED BY <4>1, <4>2
    <3> HIDE DEF B
    <3>16. DownPath(B, t, k, f[k], h, key, e, n)
      BY <3>7, <3>9, <3>10, <3>11, <3>14, <3>15 DEF DownPath
    <3> QED BY <3>7, <3>16 DEF P
  <2> QED BY <2>1, <2>2
<1> DEFINE T == {x \in 0..n : n - x \in 1..n /\ n - x \notin P}
<1>2. T = {}
  <2> SUFFICES ASSUME T # {} PROVE FALSE
    OBVIOUS
  <2>1. T \in SUBSET Nat
    OBVIOUS
  <2>2. PICK x \in T : \A y \in T : x <= y
    <3> HIDE DEF T
    <3> QED BY <2>1, LeastNumber
  <2>3. x \in 0..n /\ n - x \in 1..n /\ n - x \notin P
    OBVIOUS
  <2> HIDE DEF P
  <2>4. \A j \in 1..n : j > n - x => j \in P
    <3> SUFFICES ASSUME NEW j \in 1..n, j > n - x, j \notin P PROVE FALSE
      OBVIOUS
    <3>1. n - j \in 0..n /\ n - (n - j) = j
      OBVIOUS
    <3>2. n - j \in T
      BY <3>1
    <3>3. x <= n - j
      BY <3>2, <2>2
    <3> QED BY <3>3, <2>3
  <2> HIDE DEF T
  <2> QED BY <2>3, <2>4, <1>1
<1>3. i \in P
  <2>1. n - i \in 0..n /\ n - (n - i) = i
    OBVIOUS
  <2> HIDE DEF P
  <2> QED BY <1>2, <2>1
<1> QED BY <1>3

(* What min_heap_shift_down_ leaves at every place. *)
LEMMA ShiftDownIs ==
    ASSUME NEW S, NEW h \in Seq(S), NEW e \in S, NEW key \in [S -> Int], NEW i \in 1..Len(h)
    PROVE  /\ ShiftDown(h, key, i, e) \in Seq(S)
           /\ \E A, t : DownPath(A, t, i, ShiftDown(h, key, i, e), h, key, e, Len(h))
<1> DEFINE n == Len(h)
           f == CHOOSE down : down = [j \in 1..n |->
                   IF 2 * j > n \/ ~(key[e] > key[h[SmallerChild(h, key, j)]])
                   THEN [h EXCEPT ![j] = e]
                   ELSE [down[SmallerChild(h, key, j)] EXCEPT ![j] = h[SmallerChild(h, key, j)]]]
<1>1. n \in Nat
  OBVIOUS
<1>2. ShiftDown(h, key, i, e) = f[i]
  BY DEF ShiftDown
<1>3. \E down : IsDown(down, h, key, e, n, 1)
  BY <1>1, DownExists
<1>4. IsDown(f, h, key, e, n, 1)
  BY <1>3 DEF IsDown, Stops
<1> HIDE DEF f
<1>5. f[i] \in Seq(S) /\ \E A, t : DownPath(A, t, i, f[i], h, key, e, n)
  BY <1>1, <1>4, ShiftDownPath
<1> QED BY <1>2, <1>5

(* ShiftDown leaves a heap, if the hole is where e may go or below. *)
LEMMA ShiftDownIsHeap ==
    ASSUME NEW S, NEW h \in Seq(S), NEW e \in S, NEW key \in [S -> Int], NEW i \in 1..Len(h),
           HeapOff(h, key, i, Len(h)),
           i # 1 => /\ key[h[Parent(i)]] <= key[e]
                    /\ \A c \in 2..Len(h) : Parent(c) = i => key[h[Parent(i)]] <= key[h[c]]
    PROVE  /\ ShiftDown(h, key, i, e) \in Seq(S) /\ Len(ShiftDown(h, key, i, e)) = Len(h)
           /\ IsHeap(ShiftDown(h, key, i, e), key)
<1> DEFINE r == ShiftDown(h, key, i, e)
           n == Len(h)
           C(x) == SmallerChild(h, key, x)
<1>1. r \in Seq(S) /\ \E A, t : DownPath(A, t, i, r, h, key, e, n)
  BY ShiftDownIs
<1> HIDE DEF r
<1>2. PICK A, t : DownPath(A, t, i, r, h, key, e, n)
  BY <1>1
<1>3. /\ A \in SUBSET (1..n) /\ t \in 1..n /\ i <= t
      /\ (i = t \/ i \in A)
      /\ \A x \in A : i <= x /\ x < t /\ 2 * x <= n /\ C(x) \in A \cup {t} /\ key[e] > key[h[C(x)]]
      /\ \A m \in A \cup {t} : m # i => \E x \in A : C(x) = m
      /\ Stops(h, key, e, n, t)
      /\ \A j \in 1..n : r[j] = IF j \in A THEN h[C(j)] ELSE IF j = t THEN e ELSE h[j]
      /\ DOMAIN r = 1..n
  BY <1>2 DEF DownPath
<1>4. Len(r) = n /\ n \in Nat
  BY <1>1, <1>3
<1>5. /\ \A x \in 1..n : h[x] \in S /\ key[h[x]] \in Int
      /\ key[e] \in Int
  OBVIOUS
<1>6. \A j \in 2..n : Parent(j) \in 1..n /\ Parent(j) < j /\ j \in 1..n
  <2> TAKE j \in 2..n
  <2>1. j \in Nat /\ j >= 2 /\ j <= n
    OBVIOUS
  <2> QED BY <2>1, ParentFacts
<1>c. \A x \in 1..n : 2 * x <= n => /\ C(x) \in 2..n /\ C(x) > x /\ Parent(C(x)) = x
                                    /\ \A j \in 2..n : Parent(j) = x => key[h[C(x)]] <= key[h[j]]
  BY <1>4, SmallerChildIs
<1> HIDE DEF C
<1>t. t \notin A
  BY <1>3
<1>p. \A m \in A \cup {t} : m # i => Parent(m) \in A
  BY <1>3, <1>c
<1>7. ASSUME NEW j \in 2..n
      PROVE  key[r[Parent(j)]] <= key[r[j]]
  <2> DEFINE p == Parent(j)
  <2>0. p \in 1..n /\ p < j /\ j \in 1..n /\ key[h[p]] \in Int /\ key[h[j]] \in Int /\ key[e] \in Int
    BY <1>5, <1>6
  <2>1. CASE p \in A
    <3>1. /\ r[p] = h[C(p)] /\ i <= p /\ 2 * p <= n /\ C(p) \in 2..n /\ C(p) \in 1..n
          /\ key[e] > key[h[C(p)]] /\ key[h[C(p)]] <= key[h[j]] /\ key[h[C(p)]] \in Int
      BY <2>1, <1>3, <2>0, <1>c, <1>5
    <3>2. j # i
      BY <3>1, <2>0
    <3>3. CASE j \in A
      <4>1. r[j] = h[C(j)] /\ 2 * j <= n
        BY <3>3, <1>3, <2>0
      <4>2. C(j) \in 2..n /\ C(j) > j /\ Parent(C(j)) = j
        BY <4>1, <2>0, <1>c
      <4>3. C(j) # i
        BY <4>2, <3>1, <2>0
      <4>4. key[h[j]] <= key[h[C(j)]]
        BY <4>2, <4>3, <3>2 DEF HeapOff
      <4>5. key[h[C(j)]] \in Int
        BY <4>2, <1>5
      <4>6. key[h[C(p)]] <= key[h[C(j)]]
        <5>1. key[h[C(p)]] \in Int /\ key[h[C(p)]] <= key[h[j]] /\ key[h[j]] \in Int
          BY <3>1, <2>0
        <5> QED BY <5>1, <4>4, <4>5
      <4> QED BY <3>1, <4>1, <4>6
    <3>4. CASE j = t
      <4>1. r[j] = e
        BY <3>4, <1>3, <1>t
      <4> QED BY <4>1, <3>1, <2>0, SMTT(30)
    <3>5. CASE j \notin A \cup {t}
      BY <3>5, <1>3, <3>1, <2>0
    <3> QED BY <3>3, <3>4, <3>5
  <2>2. CASE p = t
    <3>1. r[p] = e
      BY <2>2, <1>3, <1>t
    <3>2. j # t /\ j \notin A
      <4> SUFFICES ASSUME j \in A PROVE FALSE
        BY <2>2, <2>0
      <4>1. j < t
        BY <1>3
      <4> QED BY <4>1, <2>2, <2>0
    <3>3. r[j] = h[j]
      BY <3>2, <1>3, <2>0
    <3>4. 2 * t <= n
      <4>1. j \in Nat /\ j >= 2
        OBVIOUS
      <4>2. 2 * Parent(j) <= j
        BY <4>1, ParentFacts
      <4> QED BY <4>2, <2>2, <2>0
    <3>5. ~(key[e] > key[h[C(t)]])
      BY <3>4, <1>3 DEF Stops, C
    <3>6. key[h[C(t)]] <= key[h[j]] /\ C(t) \in 1..n
      BY <3>4, <1>c, <1>3, <2>2
    <3>7. key[h[C(t)]] \in Int
      BY <3>6, <1>5
    <3> QED BY <3>1, <3>3, <3>5, <3>6, <3>7, <2>0
  <2>3. CASE p \notin A \cup {t}
    <3>1. r[p] = h[p] /\ p # i
      BY <2>3, <1>3, <2>0
    <3>2. CASE j \notin A \cup {t}
      <4>1. r[j] = h[j] /\ j # i
        BY <3>2, <1>3, <2>0
      <4> QED BY <3>1, <4>1 DEF HeapOff
    <3>3. CASE j \in A \cup {t}
      <4>1. j = i
        BY <3>3, <2>3, <1>p
      <4>2. i # 1
        BY <4>1
      <4>3. CASE j = t
        <5>1. r[j] = e
          BY <4>3, <1>3, <1>t
        <5> QED BY <5>1, <4>1, <4>2, <3>1
      <4>4. CASE j \in A
        <5>1. r[j] = h[C(j)] /\ C(j) \in 2..n /\ Parent(C(j)) = j
          BY <4>4, <1>3, <2>0, <1>c
        <5> QED BY <5>1, <4>1, <4>2, <3>1
      <4> QED BY <3>3, <4>3, <4>4
    <3> QED BY <3>2, <3>3
  <2> QED BY <2>1, <2>2, <2>3
<1>8. IsHeap(r, key)
  BY <1>4, <1>7 DEF IsHeap
<1> QED BY <1>1, <1>4, <1>8 DEF r

(* min_heap_shift_down_ keeps the other events, each once. *)
LEMMA ShiftDownPermutes ==
    ASSUME NEW S, NEW h \in Seq(S), NEW e \in S, NEW key \in [S -> Int], NEW i \in 1..Len(h),
           DistinctOff(h, i, e, Len(h))
    PROVE  /\ IsInjective(ShiftDown(h, key, i, e))
           /\ ToSet(ShiftDown(h, key, i, e)) = Others(h, i) \cup {e}
<1> DEFINE r == ShiftDown(h, key, i, e)
           n == Len(h)
           C(x) == SmallerChild(h, key, x)
<1>1. r \in Seq(S) /\ \E A, t : DownPath(A, t, i, r, h, key, e, n)
  BY ShiftDownIs
<1> HIDE DEF r
<1>2. PICK A, t : DownPath(A, t, i, r, h, key, e, n)
  BY <1>1
<1>3. /\ A \in SUBSET (1..n) /\ t \in 1..n /\ i <= t
      /\ (i = t \/ i \in A)
      /\ \A x \in A : i <= x /\ x < t /\ 2 * x <= n /\ C(x) \in A \cup {t}
      /\ \A m \in A \cup {t} : m # i => \E x \in A : C(x) = m
      /\ \A j \in 1..n : r[j] = IF j \in A THEN h[C(j)] ELSE IF j = t THEN e ELSE h[j]
      /\ DOMAIN r = 1..n
  BY <1>2 DEF DownPath
<1>4. n \in Nat
  OBVIOUS
<1>c. \A x \in 1..n : 2 * x <= n => C(x) \in 2..n /\ C(x) > x /\ Parent(C(x)) = x
  BY <1>4, SmallerChildIs
<1> HIDE DEF C
<1>5. \A j \in A : C(j) \in (1..n) \ {i} /\ j \in 1..n
  <2> TAKE j \in A
  <2>1. j \in 1..n /\ i <= j /\ 2 * j <= n
    BY <1>3
  <2>2. C(j) \in 2..n /\ C(j) > j
    BY <2>1, <1>c
  <2> QED BY <2>1, <2>2
<1>i. \A x, y \in A : C(x) = C(y) => x = y
  BY <1>3, <1>c
<1> DEFINE src(j) == IF j \in A THEN C(j) ELSE j
<1>6. \A j \in (1..n) \ {t} : r[j] = h[src(j)] /\ src(j) \in (1..n) \ {i}
  BY <1>3, <1>5, SMTT(30)
<1>7. r[t] = e
  BY <1>3
<1>8. \A x, y \in (1..n) \ {t} : src(x) = src(y) => x = y
  BY <1>3, <1>i
<1>9. \A m \in (1..n) \ {i} : \E j \in (1..n) \ {t} : src(j) = m
  <2> TAKE m \in (1..n) \ {i}
  <2>1. CASE m \in A \cup {t}
    <3>1. PICK x \in A : C(x) = m
      BY <2>1, <1>3
    <3> QED BY <3>1, <1>3, <1>5
  <2>2. CASE m \notin A \cup {t}
    BY <2>2
  <2> QED BY <2>1, <2>2
<1> HIDE DEF src
<1>10. IsInjective(r)
  <2> SUFFICES ASSUME NEW x \in 1..n, NEW y \in 1..n, r[x] = r[y]
               PROVE  x = y
    BY <1>3 DEF IsInjective
  <2>1. CASE x = t /\ y # t
    BY <2>1, <1>6, <1>7 DEF DistinctOff
  <2>2. CASE x # t /\ y = t
    BY <2>2, <1>6, <1>7 DEF DistinctOff
  <2>3. CASE x # t /\ y # t
    BY <2>3, <1>6, <1>8, ZenonT(30) DEF DistinctOff
  <2> QED BY <2>1, <2>2, <2>3
<1>11. ToSet(r) = {h[x] : x \in (1..n) \ {i}} \cup {e}
  <2>1. \A j \in 1..n : r[j] \in {h[x] : x \in (1..n) \ {i}} \cup {e}
    BY <1>6, <1>7
  <2>2. ASSUME NEW x \in (1..n) \ {i} PROVE h[x] \in ToSet(r)
    <3>1. PICK j \in (1..n) \ {t} : src(j) = x
      BY <1>9
    <3>2. r[j] = h[x] /\ j \in DOMAIN r
      BY <3>1, <1>6, <1>3
    <3> QED BY <3>2 DEF ToSet
  <2>3. e \in ToSet(r)
    BY <1>3, <1>7 DEF ToSet
  <2>4. \A y \in ToSet(r) : \E j \in 1..n : y = r[j]
    BY <1>3 DEF ToSet
  <2> QED BY <2>1, <2>2, <2>3, <2>4
<1> QED BY <1>10, <1>11 DEF r, Others

(* min_heap_push: e joins the heap. *)
LEMMA HeapPush ==
    ASSUME NEW S, NEW h \in Seq(S), NEW e \in S, NEW key \in [S -> Int], IsHeap(h, key)
    PROVE  /\ min_heap_push(h, key, e) \in Seq(S)
           /\ IsHeap(min_heap_push(h, key, e), key)
           /\ IsInjective(h) /\ e \notin ToSet(h) =>
                 /\ IsInjective(min_heap_push(h, key, e))
                 /\ ToSet(min_heap_push(h, key, e)) = ToSet(h) \cup {e}
<1> DEFINE a == Append(h, e)
           n == Len(h)
           i == n + 1
<1>1. /\ a \in Seq(S) /\ Len(a) = i /\ n \in Nat /\ i \in 1..i /\ i \in Nat
      /\ \A j \in 1..n : a[j] = h[j]
      /\ DOMAIN h = 1..n
  OBVIOUS
<1>2. min_heap_push(h, key, e) = ShiftUp(a, key, i, e)
  BY DEF min_heap_push
<1> HIDE DEF a
<1>p. \A j \in 2..i : Parent(j) \in 1..n
  <2> TAKE j \in 2..i
  <2>1. j \in Nat /\ j >= 2 /\ j <= n + 1
    BY <1>1
  <2>2. Parent(j) \in Nat /\ Parent(j) >= 1 /\ Parent(j) < j
    BY <2>1, ParentFacts
  <2> QED BY <1>1, <2>1, <2>2
<1>3. HeapOff(a, key, i, i)
  <2> SUFFICES ASSUME NEW j \in 2..i, j # i PROVE key[a[Parent(j)]] <= key[a[j]]
    BY DEF HeapOff
  <2>1. j \in 2..n /\ j \in 1..n /\ Parent(j) \in 1..n
    BY <1>1, <1>p
  <2>2. key[h[Parent(j)]] <= key[h[j]]
    BY <2>1 DEF IsHeap
  <2> QED BY <2>1, <2>2, <1>1
<1>4. \A c \in 2..i : Parent(c) # i
  BY <1>p, <1>1
<1>5. i \in 1..Len(a) /\ HeapOff(a, key, i, Len(a))
  BY <1>1, <1>3
<1>6. ShiftUp(a, key, i, e) \in Seq(S) /\ IsHeap(ShiftUp(a, key, i, e), key)
  <2> HIDE DEF i
  <2> QED BY <1>1, <1>4, <1>5, ShiftUpIsHeap
<1>7. ASSUME IsInjective(h), e \notin ToSet(h)
      PROVE  /\ IsInjective(ShiftUp(a, key, i, e))
             /\ ToSet(ShiftUp(a, key, i, e)) = ToSet(h) \cup {e}
  <2>0. (1..i) \ {i} = 1..n
    BY <1>1
  <2>1. DistinctOff(a, i, e, Len(a))
    BY <2>0, <1>7, <1>1 DEF DistinctOff, IsInjective, ToSet
  <2>2. Others(a, i) = ToSet(h)
    BY <2>0, <1>1 DEF ToSet, Others
  <2>3. /\ IsInjective(ShiftUp(a, key, i, e))
        /\ ToSet(ShiftUp(a, key, i, e)) = Others(a, i) \cup {e}
    <3> HIDE DEF i
    <3> QED BY <1>1, <1>5, <2>1, ShiftUpPermutes
  <2> QED BY <2>2, <2>3
<1> QED BY <1>2, <1>6, <1>7

(* min_heap_erase: e leaves the heap. *)
LEMMA HeapErase ==
    ASSUME NEW S, NEW h \in Seq(S), NEW e \in ToSet(h), NEW key \in [S -> Int],
           IsHeap(h, key), IsInjective(h)
    PROVE  /\ min_heap_erase(h, key, e) \in Seq(S)
           /\ IsHeap(min_heap_erase(h, key, e), key)
           /\ IsInjective(min_heap_erase(h, key, e))
           /\ ToSet(min_heap_erase(h, key, e)) = ToSet(h) \ {e}
<1> DEFINE n == Len(h)
           m == n - 1
           i == Position(h, e)
           rest == SubSeq(h, 1, n - 1)
           last == h[n]
<1>0. DOMAIN h = 1..n /\ n \in Nat
  OBVIOUS
<1>1. i \in 1..n /\ h[i] = e
  <2>1. \E x \in 1..n : h[x] = e
    BY <1>0 DEF ToSet
  <2> QED BY <2>1 DEF Position
<1> HIDE DEF i
<1>2. n >= 1 /\ m \in Nat /\ m + 1 = n /\ n \in 1..n /\ n \in Nat
  BY <1>0, <1>1
<1>3. rest \in Seq(S) /\ Len(rest) = m /\ \A j \in 1..m : rest[j] = h[j]
  BY <1>2
<1>4. last \in S /\ \A j \in 1..n : h[j] \in S /\ key[h[j]] \in Int
  BY <1>2
<1>5. min_heap_erase(h, key, e) = IF i = n THEN rest
        ELSE IF i > 1 /\ key[h[Parent(i)]] > key[last]
             THEN ShiftUp(rest, key, i, last) ELSE ShiftDown(rest, key, i, last)
  BY DEF min_heap_erase, i
<1>6. DOMAIN rest = 1..m
  BY <1>3
<1> HIDE DEF rest, last, m
<1>p. \A j \in 2..n : /\ Parent(j) \in 1..m /\ Parent(j) < j /\ j \in 1..n
                      /\ key[h[Parent(j)]] <= key[h[j]]
  <2> TAKE j \in 2..n
  <2>1. j \in Nat /\ j >= 2 /\ j <= n
    BY <1>0
  <2>2. Parent(j) \in Nat /\ Parent(j) >= 1 /\ Parent(j) < j
    BY <2>1, ParentFacts
  <2> QED BY <1>2, <2>1, <2>2 DEF IsHeap
<1>q. \A j \in 2..m : /\ j \in 2..n /\ j \in 1..m
                      /\ rest[j] = h[j] /\ rest[Parent(j)] = h[Parent(j)]
  BY <1>p, <1>2, <1>3
<1>inj. \A x, y \in 1..n : h[x] = h[y] => x = y
  BY <1>0 DEF IsInjective
<1>7. CASE i = n
  <2>1. IsHeap(rest, key)
    BY <1>p, <1>q, <1>3 DEF IsHeap
  <2>2. IsInjective(rest)
    BY <1>inj, <1>3, <1>6, <1>2 DEF IsInjective
  <2>3. \A j \in 1..n : j # n => j \in 1..m
    BY <1>2
  <2>4. \A j \in 1..m : j \in 1..n /\ j # n
    BY <1>2
  <2>5. ToSet(rest) = ToSet(h) \ {e}
    <3>1. \A x : x \in ToSet(rest) <=> \E j \in 1..m : x = h[j]
      BY <1>3, <1>6 DEF ToSet
    <3>2. \A x : x \in ToSet(h) <=> \E j \in 1..n : x = h[j]
      BY <1>0 DEF ToSet
    <3> QED BY <3>1, <3>2, <2>3, <2>4, <1>1, <1>7, <1>inj
  <2> QED BY <1>5, <1>7, <2>1, <2>2, <2>5, <1>3
<1>8. CASE i # n
  <2>0. i \in 1..m /\ i \in 1..Len(rest) /\ i \in Nat
    BY <1>8, <1>1, <1>2, <1>3
  <2>1. HeapOff(rest, key, i, Len(rest))
    BY <1>p, <1>q, <1>3 DEF HeapOff
  <2>2. i # 1 => i \in 2..n /\ Parent(i) \in 1..m /\ key[h[Parent(i)]] <= key[h[i]] /\ rest[Parent(i)] = h[Parent(i)]
    <3>1. i # 1 => i \in 2..n
      BY <1>1
    <3> QED BY <3>1, <1>p, <1>3
  <2>3. \A c \in 2..m : Parent(c) = i => /\ key[h[i]] <= key[rest[c]] /\ key[rest[c]] \in Int
                                         /\ i # 1 => key[rest[Parent(i)]] <= key[rest[c]]
    <3> SUFFICES ASSUME NEW c \in 2..m, Parent(c) = i
                 PROVE  /\ key[h[i]] <= key[rest[c]] /\ key[rest[c]] \in Int
                        /\ i # 1 => key[rest[Parent(i)]] <= key[rest[c]]
      OBVIOUS
    <3>1. c \in 2..n /\ c \in 1..n /\ rest[c] = h[c] /\ key[h[i]] <= key[h[c]]
      BY <1>p, <1>q
    <3>2. key[h[i]] \in Int /\ key[h[c]] \in Int
      BY <3>1, <1>1, <1>4
    <3>3. ASSUME i # 1 PROVE key[rest[Parent(i)]] <= key[rest[c]]
      <4>1. Parent(i) \in 1..n /\ key[h[Parent(i)]] <= key[h[i]] /\ rest[Parent(i)] = h[Parent(i)]
        BY <2>2, <3>3, <1>2
      <4>2. key[h[Parent(i)]] \in Int
        BY <4>1, <1>4
      <4> QED BY <4>1, <4>2, <3>1, <3>2
    <3> QED BY <3>1, <3>2, <3>3
  <2>4. DistinctOff(rest, i, last, Len(rest))
    <3>1. \A x \in 1..m : x \in 1..n /\ x # n
      BY <1>2
    <3> QED BY <3>1, <1>2, <1>3, <1>inj DEF DistinctOff, last
  <2>5. Others(rest, i) \cup {last} = ToSet(h) \ {e}
    <3>1. \A x \in 1..m : x \in 1..n /\ x # n /\ rest[x] = h[x]
      BY <1>2, <1>3
    <3>2. \A x \in 1..n : x = n \/ x \in 1..m
      BY <1>2
    <3>3. \A x : x \in ToSet(h) <=> \E j \in 1..n : x = h[j]
      BY <1>0 DEF ToSet
    <3> DEFINE L == {rest[x] : x \in (1..Len(rest)) \ {i}} \cup {last}
    <3>4. ASSUME NEW y \in L PROVE y \in ToSet(h) /\ y # e
      <4>1. PICK x \in 1..n : y = h[x] /\ x # i
        BY <3>1, <1>3, <1>2, <1>8 DEF last
      <4> QED BY <4>1, <3>3, <1>inj, <1>1
    <3>5. ASSUME NEW y \in ToSet(h), y # e PROVE y \in L
      <4>1. PICK x \in 1..n : y = h[x]
        BY <3>3
      <4>2. x # i
        BY <4>1, <3>5, <1>1
      <4> QED BY <4>1, <4>2, <3>1, <3>2, <1>3 DEF last
    <3> QED BY <3>4, <3>5 DEF Others
  <2>6. CASE i > 1 /\ key[h[Parent(i)]] > key[last]
    <3>1. min_heap_erase(h, key, e) = ShiftUp(rest, key, i, last)
      BY <1>5, <1>8, <2>6
    <3>2. \A c \in 2..m : Parent(c) = i => key[last] <= key[rest[c]]
      <4> SUFFICES ASSUME NEW c \in 2..m, Parent(c) = i PROVE key[last] <= key[rest[c]]
        OBVIOUS
      <4>1. i # 1 /\ key[last] \in Int
        BY <2>6, <1>4
      <4>2. key[rest[Parent(i)]] <= key[rest[c]] /\ key[rest[c]] \in Int /\ rest[Parent(i)] = h[Parent(i)]
        BY <2>2, <2>3, <4>1
      <4>3. key[h[Parent(i)]] \in Int
        BY <2>2, <4>1, <1>4, <1>2, SMTT(30)
      <4> QED BY <4>1, <4>2, <4>3, <2>6
    <3>3. \A c \in 2..Len(rest) : Parent(c) = i =>
             key[last] <= key[rest[c]] /\ (i # 1 => key[rest[Parent(i)]] <= key[rest[c]])
      BY <3>2, <2>3, <1>3
    <3>4. ShiftUp(rest, key, i, last) \in Seq(S) /\ IsHeap(ShiftUp(rest, key, i, last), key)
      BY <2>0, <2>1, <1>3, <1>4, <3>3, ShiftUpIsHeap
    <3>5. /\ IsInjective(ShiftUp(rest, key, i, last))
          /\ ToSet(ShiftUp(rest, key, i, last)) = Others(rest, i) \cup {last}
      BY <2>0, <2>4, <1>3, <1>4, ShiftUpPermutes
    <3> QED BY <3>1, <3>4, <3>5, <2>5
  <2>7. CASE ~(i > 1 /\ key[h[Parent(i)]] > key[last])
    <3>1. min_heap_erase(h, key, e) = ShiftDown(rest, key, i, last)
      BY <1>5, <1>8, <2>7
    <3>2. i # 1 => key[rest[Parent(i)]] <= key[last]
      <4> SUFFICES ASSUME i # 1 PROVE key[rest[Parent(i)]] <= key[last]
        OBVIOUS
      <4>1. ~(key[h[Parent(i)]] > key[last])
        BY <2>7, <2>0
      <4>2. key[h[Parent(i)]] \in Int /\ key[last] \in Int
        BY <2>2, <1>4, <1>2
      <4> QED BY <4>1, <4>2, <2>2
    <3>3. i # 1 => /\ key[rest[Parent(i)]] <= key[last]
                   /\ \A c \in 2..Len(rest) : Parent(c) = i => key[rest[Parent(i)]] <= key[rest[c]]
      BY <3>2, <2>3, <1>3
    <3>4. ShiftDown(rest, key, i, last) \in Seq(S) /\ IsHeap(ShiftDown(rest, key, i, last), key)
      BY <2>0, <2>1, <1>3, <1>4, <3>3, ShiftDownIsHeap
    <3>5. /\ IsInjective(ShiftDown(rest, key, i, last))
          /\ ToSet(ShiftDown(rest, key, i, last)) = Others(rest, i) \cup {last}
      BY <2>0, <2>4, <1>3, <1>4, ShiftDownPermutes
    <3> QED BY <3>1, <3>4, <3>5, <2>5
  <2> QED BY <2>6, <2>7
<1> QED BY <1>7, <1>8

(* The head of a heap is the earliest of its elements. *)
LEMMA HeapMin ==
    ASSUME NEW S, NEW h \in Seq(S), NEW key \in [S -> Int], IsHeap(h, key), h # <<>>
    PROVE  /\ Head(h) \in ToSet(h) /\ Head(h) \in S
           /\ \A x \in ToSet(h) : key[Head(h)] <= key[x]
<1> DEFINE n == Len(h)
           P == {0} \cup {j \in 1..n : key[h[1]] <= key[h[j]]}
<1>0. n \in Nat /\ DOMAIN h = 1..n /\ n >= 1 /\ Head(h) = h[1] /\ 1 \in 1..n
  OBVIOUS
<1>4. \A j \in 1..n : h[j] \in S /\ key[h[j]] \in Int
  OBVIOUS
<1>1. ASSUME NEW k \in 1..n, \A j \in 1..n : j < k => j \in P
      PROVE  k \in P
  <2>1. CASE k = 1
    BY <2>1, <1>4
  <2>2. CASE k # 1
    <3>1. k \in Nat /\ k >= 2 /\ k \in 2..n
      BY <2>2
    <3>2. Parent(k) \in Nat /\ Parent(k) >= 1 /\ Parent(k) < k
      BY <3>1, ParentFacts
    <3>3. Parent(k) \in 1..n
      BY <3>1, <3>2
    <3>4. Parent(k) \in P /\ Parent(k) # 0
      BY <3>2, <3>3, <1>1
    <3>5. key[h[1]] <= key[h[Parent(k)]]
      BY <3>4
    <3>6. key[h[Parent(k)]] <= key[h[k]]
      BY <3>1 DEF IsHeap
    <3>7. key[h[1]] \in Int /\ key[h[k]] \in Int /\ key[h[Parent(k)]] \in Int
      BY <1>0, <1>4, <3>3
    <3>8. key[h[1]] <= key[h[k]]
      BY <3>5, <3>6, <3>7
    <3> QED BY <3>8
  <2> QED BY <2>1, <2>2
<1> DEFINE T == {k \in 1..n : k \notin P}
<1>2. T = {}
  <2> SUFFICES ASSUME T # {} PROVE FALSE
    OBVIOUS
  <2>1. T \in SUBSET Nat
    OBVIOUS
  <2>2. PICK x \in T : \A y \in T : x <= y
    <3> HIDE DEF T
    <3> QED BY <2>1, LeastNumber
  <2>3. x \in 1..n /\ x \notin P
    OBVIOUS
  <2> HIDE DEF P
  <2>4. \A j \in 1..n : j < x => j \in P
    BY <2>2, <2>3
  <2> QED BY <2>3, <2>4, <1>1
<1>3. \A j \in 1..n : key[h[1]] <= key[h[j]]
  <2>1. \A j \in 1..n : j \in P /\ j # 0
    <3> HIDE DEF P
    <3> QED BY <1>2
  <2> QED BY <2>1
<1> HIDE DEF P, T
<1> QED BY <1>0, <1>3, <1>4 DEF ToSet

-----------------------------------------------------------------------------
(* The common list, and enumerations of sets.                              *)

(* The entries of q are in the order of their keys. *)
InOrder(q, key) == \A i, j \in 1..Len(q) : i < j => key[q[i]] <= key[q[j]]

(* InsertAt, by positions. *)
LEMMA InsertAtIs ==
    ASSUME NEW S, NEW q \in Seq(S), NEW e \in S, NEW i \in 1..(Len(q) + 1)
    PROVE  /\ InsertAt(q, i, e) \in Seq(S)
           /\ Len(InsertAt(q, i, e)) = Len(q) + 1
           /\ \A j \in 1..(Len(q) + 1) :
                 InsertAt(q, i, e)[j] = IF j < i THEN q[j] ELSE IF j = i THEN e ELSE q[j - 1]
<1> DEFINE n == Len(q)
           u == SubSeq(q, 1, i - 1)
           v == SubSeq(q, i, n)
           w == <<e>>
<1>0. n \in Nat /\ i \in 1..(n + 1)
  OBVIOUS
<1>1. /\ u \in Seq(S) /\ Len(u) = i - 1
      /\ \A j \in 1..(i - 1) : u[j] = q[j]
  <2>1. /\ u \in Seq(S)
        /\ Len(u) = IF 1 <= i - 1 THEN (i - 1) - 1 + 1 ELSE 0
        /\ \A j \in 1..((i - 1) - 1 + 1) : u[j] = q[1 + j - 1]
    <3>1. 1 \in Int /\ i - 1 \in Int /\ (\A x \in 1..(i - 1) : x \in 1..Len(q))
      BY <1>0
    <3> QED BY <3>1, SubSeqProperties
  <2> QED BY <2>1, <1>0
<1>2. /\ v \in Seq(S) /\ Len(v) = n - i + 1
      /\ \A j \in 1..(n - i + 1) : v[j] = q[i + j - 1]
  <2>1. /\ v \in Seq(S)
        /\ Len(v) = IF i <= n THEN n - i + 1 ELSE 0
        /\ \A j \in 1..(n - i + 1) : v[j] = q[i + j - 1]
    <3>1. i \in Int /\ n \in Int /\ (\A x \in i..n : x \in 1..Len(q))
      BY <1>0
    <3> QED BY <3>1, SubSeqProperties
  <2> QED BY <2>1, <1>0
<1>w. w \in Seq(S) /\ Len(w) = 1 /\ w[1] = e
  OBVIOUS
<1> HIDE DEF u, v, w
<1> DEFINE uw == u \o w
<1>3. /\ uw \in Seq(S)
      /\ Len(uw) = Len(u) + Len(w)
      /\ \A j \in 1..(Len(u) + Len(w)) :
            uw[j] = IF j <= Len(u) THEN u[j] ELSE w[j - Len(u)]
  BY <1>1, <1>w, ConcatProperties
<1>4. Len(uw) = i /\ \A j \in 1..i : uw[j] = IF j < i THEN q[j] ELSE e
  <2>1. Len(u) + Len(w) = i
    BY <1>0, <1>1, <1>w
  <2>2. ASSUME NEW j \in 1..i PROVE uw[j] = IF j < i THEN q[j] ELSE e
    <3>1. CASE j < i
      BY <3>1, <1>3, <2>1, <1>1, <1>0
    <3>2. CASE j = i
      <4>1. ~(j <= Len(u)) /\ j - Len(u) = 1
        BY <3>2, <1>1, <1>0
      <4>2. uw[j] = w[1]
        BY <4>1, <1>3, <2>1
      <4> QED BY <4>2, <3>2, <1>w
    <3>3. j < i \/ j = i
      BY <1>0
    <3> QED BY <3>1, <3>2, <3>3
  <2> QED BY <1>3, <2>1, <2>2
<1> HIDE DEF uw
<1>5. /\ uw \o v \in Seq(S)
      /\ Len(uw \o v) = Len(uw) + Len(v)
      /\ \A j \in 1..(Len(uw) + Len(v)) :
            (uw \o v)[j] = IF j <= Len(uw) THEN uw[j] ELSE v[j - Len(uw)]
  <2>1. uw \in Seq(S) /\ v \in Seq(S)
    BY <1>2, <1>3
  <2> QED BY <2>1, ConcatProperties
<1>6. Len(uw) + Len(v) = n + 1
  BY <1>0, <1>2, <1>4
<1>7. ASSUME NEW j \in 1..(n + 1)
      PROVE  (uw \o v)[j] = IF j < i THEN q[j] ELSE IF j = i THEN e ELSE q[j - 1]
  <2>0. (uw \o v)[j] = IF j <= i THEN uw[j] ELSE v[j - i]
    BY <1>4, <1>5, <1>6
  <2>1. CASE j <= i
    <3>1. (uw \o v)[j] = uw[j] /\ j \in 1..i
      BY <2>0, <2>1
    <3>2. uw[j] = IF j < i THEN q[j] ELSE e
      BY <3>1, <1>4
    <3> QED BY <3>1, <3>2, <2>1
  <2>2. CASE j > i
    <3>1. (uw \o v)[j] = v[j - i] /\ j - i \in 1..(n - i + 1) /\ i + (j - i) - 1 = j - 1
      BY <2>0, <2>2, <1>0
    <3>2. v[j - i] = q[j - 1]
      BY <3>1, <1>2
    <3> QED BY <3>1, <3>2, <2>2
  <2>3. j <= i \/ j > i
    BY <1>0
  <2> QED BY <2>1, <2>2, <2>3
<1>8. InsertAt(q, i, e) = uw \o v
  BY DEF InsertAt, uw, u, v, w
<1> QED BY <1>5, <1>6, <1>7, <1>8

(* insert_common_timeout_inorder keeps the list in order. *)
LEMMA InsertOrdered ==
    ASSUME NEW S, NEW q \in Seq(S), NEW e \in S, NEW key, \A x \in S : key[x] \in Int,
           InOrder(q, key), IsInjective(q), e \notin ToSet(q)
    PROVE  /\ InsertInOrder(q, key, e) \in Seq(S)
           /\ InOrder(InsertInOrder(q, key, e), key)
           /\ IsInjective(InsertInOrder(q, key, e))
           /\ ToSet(InsertInOrder(q, key, e)) = ToSet(q) \cup {e}
<1> DEFINE n == Len(q)
           after == {i \in 1..Len(q) : key[e] >= key[q[i]]}
           m == IF after = {} THEN 0 ELSE Max(after)
           p == 1 + m
           r == InsertAt(q, p, e)
<1>0. n \in Nat /\ DOMAIN q = 1..n /\ \A i \in 1..n : key[q[i]] \in Int /\ q[i] \in S
  OBVIOUS
<1>1. /\ m \in 0..n
      /\ m # 0 => m \in 1..n /\ key[q[m]] <= key[e]
      /\ \A i \in 1..n : i > m => key[e] <= key[q[i]]
  <2>0. key[e] \in Int
    OBVIOUS
  <2>1. CASE after = {}
    BY <2>1, <2>0, <1>0
  <2>2. CASE after # {}
    <3>0. after \in SUBSET (1..n)
      OBVIOUS
    <3>1. Max(after) \in after /\ \A y \in after : Max(after) >= y
      <4> HIDE DEF after
      <4> QED BY <2>2, <3>0, <1>0, GreatestUpTo
    <3>2. m = Max(after)
      BY <2>2
    <3>3. m \in 1..n /\ key[q[m]] <= key[e]
      BY <3>1, <3>2, <2>0, <1>0
    <3>4. ASSUME NEW i \in 1..n, i > m PROVE key[e] <= key[q[i]]
      <4>1. i \notin after
        <5> HIDE DEF m, after
        <5>1. i \in after => m >= i
          BY <3>1, <3>2
        <5> QED BY <5>1, <3>3, <3>4
      <4> QED BY <4>1, <2>0, <1>0
    <3> QED BY <3>3, <3>4, <1>0
  <2> QED BY <2>1, <2>2
<1>2. InsertInOrder(q, key, e) = r
  BY DEF InsertInOrder
<1> HIDE DEF m, after
<1>3. p \in 1..(n + 1)
  BY <1>0, <1>1
<1>4. /\ r \in Seq(S) /\ Len(r) = n + 1
      /\ \A j \in 1..(n + 1) : r[j] = IF j < p THEN q[j] ELSE IF j = p THEN e ELSE q[j - 1]
  <2> HIDE DEF p
  <2> QED BY <1>3, InsertAtIs
<1> HIDE DEF r
<1>5. /\ DOMAIN r = 1..(n + 1)
      /\ \A j \in 1..n : j < p => r[j] = q[j] /\ j \in 1..(n + 1)
      /\ \A j \in 1..n : j >= p => r[j + 1] = q[j] /\ j + 1 \in 1..(n + 1)
      /\ r[p] = e
      /\ \A j \in 1..(n + 1) : \/ j < p /\ j \in 1..n /\ r[j] = q[j]
                               \/ j = p
                               \/ j > p /\ j - 1 \in 1..n /\ j - 1 >= p /\ r[j] = q[j - 1]
  <2> HIDE DEF p, n
  <2>1. DOMAIN r = 1..(n + 1)
    BY <1>4
  <2>2. \A j \in 1..n : j < p => r[j] = q[j] /\ j \in 1..(n + 1)
    BY <1>4, <1>3, <1>0
  <2>3. ASSUME NEW j \in 1..n, j >= p PROVE r[j + 1] = q[j] /\ j + 1 \in 1..(n + 1)
    <3>1. j + 1 \in 1..(n + 1) /\ ~(j + 1 < p) /\ j + 1 # p /\ (j + 1) - 1 = j
      BY <2>3, <1>3, <1>0
    <3> QED BY <3>1, <1>4
  <2>4. ASSUME NEW j \in 1..(n + 1)
        PROVE  \/ j < p /\ j \in 1..n /\ r[j] = q[j]
               \/ j = p
               \/ j > p /\ j - 1 \in 1..n /\ j - 1 >= p /\ r[j] = q[j - 1]
    BY <1>4, <1>3, <1>0
  <2> QED BY <2>1, <2>2, <2>3, <2>4, <1>3, <1>4
<1>6. InOrder(r, key)
  <2> SUFFICES ASSUME NEW y \in 1..(n + 1), NEW z \in 1..(n + 1), y < z
               PROVE  key[r[y]] <= key[r[z]]
    BY <1>4 DEF InOrder
  <2>0. key[e] \in Int /\ p \in Int /\ m \in Int /\ p = m + 1
    BY <1>1
  <2>1. \A i \in 1..n : i < p => key[q[i]] <= key[e]
    <3> SUFFICES ASSUME NEW i \in 1..n, i < p PROVE key[q[i]] <= key[e]
      OBVIOUS
    <3>1. m # 0 /\ i <= m
      BY <2>0
    <3>2. m \in 1..n /\ key[q[m]] <= key[e]
      BY <3>1, <1>1
    <3>3. key[q[i]] <= key[q[m]]
      <4>1. CASE i = m
        BY <4>1, <3>2, <1>0
      <4>2. CASE i < m
        BY <4>2, <3>2 DEF InOrder
      <4> QED BY <4>1, <4>2, <3>1, <2>0
    <3>4. key[q[i]] \in Int /\ key[q[m]] \in Int
      BY <3>2, <1>0
    <3> QED BY <2>0, <3>2, <3>3, <3>4
  <2>2. \A i \in 1..n : i >= p => key[e] <= key[q[i]]
    BY <1>1, <2>0
  <2>3. \A i, j \in 1..n : i < j => key[q[i]] <= key[q[j]]
    BY DEF InOrder
  <2> HIDE DEF p, n
  <2>4. CASE z = p
    BY <2>4, <1>5, <2>1, <2>0
  <2>5. CASE y = p
    BY <2>5, <1>5, <2>2, <2>0
  <2>6. CASE y < p /\ z < p
    BY <2>6, <1>5, <2>3, <2>0
  <2>7. CASE y < p /\ z > p
    <3>1. y \in 1..n /\ r[y] = q[y] /\ z - 1 \in 1..n /\ r[z] = q[z - 1] /\ y < z - 1
      BY <2>7, <1>5, <2>0
    <3> QED BY <3>1, <2>3
  <2>8. CASE y > p /\ z > p
    <3>1. y - 1 \in 1..n /\ r[y] = q[y - 1] /\ z - 1 \in 1..n /\ r[z] = q[z - 1] /\ y - 1 < z - 1
      BY <2>8, <1>5, <2>0
    <3> QED BY <3>1, <2>3
  <2> QED BY <2>0, <2>4, <2>5, <2>6, <2>7, <2>8
<1>7. ToSet(r) = ToSet(q) \cup {e}
  <2> HIDE DEF p
  <2>1. \A x : x \in ToSet(r) <=> \E j \in 1..(n + 1) : x = r[j]
    BY <1>5 DEF ToSet
  <2>2. \A x : x \in ToSet(q) <=> \E j \in 1..n : x = q[j]
    BY <1>0 DEF ToSet
  <2>3. ASSUME NEW x \in ToSet(r) PROVE x \in ToSet(q) \cup {e}
    BY <2>1, <2>2, <1>5
  <2>4. ASSUME NEW x \in ToSet(q) PROVE x \in ToSet(r)
    <3>1. PICK j \in 1..n : x = q[j]
      BY <2>2
    <3>2. CASE j < p
      BY <3>1, <3>2, <1>5, <2>1
    <3>3. CASE j >= p
      BY <3>1, <3>3, <1>5, <2>1
    <3> QED BY <3>2, <3>3, <1>3
  <2>5. e \in ToSet(r)
    BY <2>1, <1>3, <1>5
  <2> QED BY <2>3, <2>4, <2>5
<1>8. IsInjective(r)
  <2> SUFFICES ASSUME NEW y \in 1..(n + 1), NEW z \in 1..(n + 1), r[y] = r[z]
               PROVE  y = z
    BY <1>5 DEF IsInjective
  <2>1. \A i \in 1..n : q[i] # e
    BY <1>0 DEF ToSet
  <2>2. \A i, j \in 1..n : q[i] = q[j] => i = j
    BY <1>0 DEF IsInjective
  <2> HIDE DEF p, n
  <2>3. CASE y = p
    BY <2>3, <1>5, <2>1, <1>3
  <2>4. CASE z = p
    BY <2>4, <1>5, <2>1, <1>3
  <2>5. CASE y < p /\ z < p
    BY <2>5, <1>5, <2>2, <1>3
  <2>6. CASE y < p /\ z > p
    <3>1. y \in 1..n /\ r[y] = q[y] /\ z - 1 \in 1..n /\ r[z] = q[z - 1] /\ y # z - 1
      BY <2>6, <1>5, <1>3
    <3> QED BY <3>1, <2>2
  <2>7. CASE y > p /\ z < p
    <3>1. z \in 1..n /\ r[z] = q[z] /\ y - 1 \in 1..n /\ r[y] = q[y - 1] /\ z # y - 1
      BY <2>7, <1>5, <1>3
    <3> QED BY <3>1, <2>2
  <2>8. CASE y > p /\ z > p
    <3>1. y - 1 \in 1..n /\ r[y] = q[y - 1] /\ z - 1 \in 1..n /\ r[z] = q[z - 1]
      BY <2>8, <1>5, <1>3
    <3>2. y - 1 = z - 1
      BY <3>1, <2>2
    <3> QED BY <3>2
  <2> QED BY <2>3, <2>4, <2>5, <2>6, <2>7, <2>8, <1>3
<1> QED BY <1>2, <1>4, <1>6, <1>7, <1>8

(* Taking an entry out keeps the order. *)
LEMMA RemoveOrdered ==
    ASSUME NEW S, NEW q \in Seq(S), NEW e, NEW key, InOrder(q, key)
    PROVE  InOrder(RemoveFirst(q, e), key)
<1> DEFINE r == RemoveFirst(q, e)
<1> SUFFICES ASSUME NEW y \in 1..Len(r), NEW z \in 1..Len(r), y < z
             PROVE  key[r[y]] <= key[r[z]]
  BY DEF InOrder
<1>1. PICK g \in 1..Len(q), h \in 1..Len(q) : g < h /\ r[y] = q[g] /\ r[z] = q[h]
  BY RemoveFromQueue
<1> HIDE DEF r
<1> QED BY <1>1 DEF InOrder

(* The first entry of a list in order is the earliest. *)
LEMMA FirstInOrder ==
    ASSUME NEW S, NEW q \in Seq(S), NEW key, \A x \in S : key[x] \in Int, InOrder(q, key), q # <<>>
    PROVE  /\ Head(q) \in ToSet(q) /\ Head(q) \in S
           /\ \A x \in ToSet(q) : key[Head(q)] <= key[x]
<1>1. Head(q) = q[1] /\ 1 \in 1..Len(q) /\ DOMAIN q = 1..Len(q) /\ Len(q) \in Nat
  OBVIOUS
<1>2. \A j \in 1..Len(q) : q[j] \in S /\ key[q[j]] \in Int
  OBVIOUS
<1>3. \A j \in 1..Len(q) : key[q[1]] <= key[q[j]]
  <2> TAKE j \in 1..Len(q)
  <2>1. CASE j = 1
    BY <2>1, <1>2
  <2>2. CASE j # 1
    BY <2>2, <1>1 DEF InOrder
  <2> QED BY <2>1, <2>2
<1> QED BY <1>1, <1>2, <1>3 DEF ToSet

(* The rest of a queue. *)
LEMMA TailOfQueue ==
    ASSUME NEW S, NEW q \in Seq(S), q # <<>>
    PROVE  /\ Tail(q) \in Seq(S)
           /\ IsInjective(q) => IsInjective(Tail(q))
<1>1. /\ Tail(q) \in Seq(S) /\ DOMAIN Tail(q) = 1..(Len(q) - 1) /\ Len(q) \in Nat
      /\ \A i \in 1..(Len(q) - 1) : Tail(q)[i] = q[i + 1] /\ i + 1 \in DOMAIN q
  OBVIOUS
<1>2. ASSUME IsInjective(q) PROVE IsInjective(Tail(q))
  <2> SUFFICES ASSUME NEW y \in DOMAIN Tail(q), NEW z \in DOMAIN Tail(q), Tail(q)[y] = Tail(q)[z]
               PROVE  y = z
    BY DEF IsInjective
  <2>1. y + 1 = z + 1
    BY <1>1, <1>2 DEF IsInjective
  <2> QED BY <2>1, <1>1
<1> QED BY <1>1, <1>2

(* SetToSeq enumerates a finite set. *)
LEMMA Enumerated ==
    ASSUME NEW S, IsFiniteSet(S)
    PROVE  /\ Cardinality(S) \in Nat /\ DOMAIN SetToSeq(S) = 1..Cardinality(S)
           /\ SetToSeq(S) \in Seq(S) /\ IsInjective(SetToSeq(S)) /\ ToSet(SetToSeq(S)) = S
<1> DEFINE n == Cardinality(S)
           q == SetToSeq(S)
<1>1. n \in Nat /\ ExistsBijection(1..n, S)
  BY FS_CardinalityType
<1>2. \E f \in [1..n -> S] : IsInjective(f)
  BY <1>1 DEF ExistsBijection, Bijection, Injection, IsInjective
<1>3. q \in [1..n -> S] /\ IsInjective(q)
  BY <1>2 DEF SetToSeq
<1> HIDE DEF q
<1>4. q \in Injection(1..n, S)
  BY <1>3 DEF Injection, IsInjective
<1>5. Cardinality(1..n) = n
  <2>1. Cardinality(1..n) = IF 1 > n THEN 0 ELSE n - 1 + 1
    BY <1>1, FS_Interval
  <2> QED BY <2>1, <1>1
<1>6. q \in Surjection(1..n, S)
  <2>1. Cardinality(1..n) = Cardinality(S) <=> q \in Surjection(1..n, S)
    BY <1>4, FS_Injection
  <2> QED BY <2>1, <1>5
<1>7. ToSet(q) = S
  BY <1>3, <1>6 DEF ToSet, Surjection
<1> HIDE DEF n
<1>8. q \in Seq(S)
  BY <1>1, <1>3
<1> QED BY <1>1, <1>3, <1>7, <1>8 DEF q, n

-----------------------------------------------------------------------------
(* A well-formed event_base, and what it depends on.                       *)

(* The fields of an event_base. *)
Fields == DOMAIN event_base_new

(* The names of the fields. *)
LEMMA FieldNames ==
    Fields = {"inserted", "io", "activequeues", "timeheap", "common", "deferred", "ev_res",
              "ev_timeout", "ev_io_timeout", "ev_ncalls", "ev_pncalls", "ncalls", "current_event",
              "waiters", "watched", "is_notify_pending", "notify_byte", "deaf", "stray",
              "event_gotterm", "event_break", "event_continue", "event_running_priority",
              "running_loop", "tv_cache", "event_tv", "virtual", "count", "dcount"}
BY DEF Fields, event_base_new

(* t differs from s in the fields F only. *)
Touches(s, t, F) == DOMAIN t = DOMAIN s /\ \A f \in DOMAIN s \ F : t[f] = s[f]

(* Two changes of the same fields. *)
LEMMA TouchesTwice ==
    ASSUME NEW s, NEW t, NEW u, NEW F, Touches(s, t, F), Touches(t, u, F)
    PROVE  Touches(s, u, F)
BY DEF Touches

(* The parts of a well-formed event_base. *)
Sockets == {"th_notify", "ev_signal"}
MapInv(s) == /\ s.inserted \in SUBSET (IoEvents \cup Signals)
             /\ MapIs(s.io, s.inserted \cap IoEvents)
HeapInv(s) == /\ s.timeheap \in Seq(Events) /\ IsInjective(s.timeheap)
              /\ ToSet(s.timeheap) \cap (Commons \cup Sockets) = {}
              /\ IsHeap(s.timeheap, s.ev_timeout)
CommonInv(s) == /\ s.common \in Seq(Commons) /\ IsInjective(s.common)
                /\ InOrder(s.common, s.ev_timeout)
TimeInv(s) == s.ev_timeout \in [Events -> Int] /\ HeapInv(s) /\ CommonInv(s)
IntervalInv(s) == s.ev_io_timeout \in [Events -> Int] /\ \A e \in Sockets : s.ev_io_timeout[e] = 0
ActiveInv(s) == /\ s.activequeues \in [0..1 -> Seq(Events)]
                /\ \A q \in 0..1 : /\ IsInjective(s.activequeues[q])
                                   /\ \A e \in ToSet(s.activequeues[q]) : ev_pri(e) = q
DeferInv(s) == s.deferred \in Seq(Deferreds) /\ IsInjective(s.deferred)
LoopInv(s) == s.tv_cache \in Int /\ s.event_tv \in Int /\ s.watched \in SUBSET (Descriptors \X Kinds)

Good(s) == /\ DOMAIN s = Fields
           /\ MapInv(s) /\ TimeInv(s) /\ IntervalInv(s) /\ ActiveInv(s) /\ DeferInv(s) /\ LoopInv(s)

(* The fields of which Good says nothing. *)
Harmless == {"ev_res", "ev_ncalls", "ev_pncalls", "ncalls", "current_event", "waiters",
             "is_notify_pending", "notify_byte", "deaf", "stray", "event_gotterm", "event_break",
             "event_continue", "event_running_priority", "running_loop", "virtual", "count", "dcount"}

(* A change of those fields keeps the base well formed. *)
LEMMA HarmlessIsGood ==
    ASSUME NEW s, Good(s), NEW t, Touches(s, t, Harmless)
    PROVE  Good(t)
<1>1. /\ DOMAIN t = Fields
      /\ t.inserted = s.inserted /\ t.io = s.io /\ t.activequeues = s.activequeues
      /\ t.timeheap = s.timeheap /\ t.common = s.common /\ t.deferred = s.deferred
      /\ t.ev_timeout = s.ev_timeout /\ t.ev_io_timeout = s.ev_io_timeout
      /\ t.watched = s.watched /\ t.tv_cache = s.tv_cache /\ t.event_tv = s.event_tv
  BY FieldNames DEF Touches, Harmless, Good
<1>2. MapInv(t)
  BY <1>1 DEF Good, MapInv
<1>3. TimeInv(t)
  BY <1>1 DEF Good, TimeInv, HeapInv, CommonInv
<1>4. IntervalInv(t) /\ ActiveInv(t)
  BY <1>1 DEF Good, IntervalInv, ActiveInv
<1>5. DeferInv(t) /\ LoopInv(t)
  BY <1>1 DEF Good, DeferInv, LoopInv
<1> QED BY <1>1, <1>2, <1>3, <1>4, <1>5 DEF Good

(* The kinds of events exclude each other. *)
LEMMA EventKinds ==
    /\ Users \subseteq Events /\ Commons \subseteq Events /\ Sockets \subseteq Events
    /\ Sockets \subseteq IoEvents /\ IoEvents \cup Signals \subseteq Events
    /\ "ctl_timeout" \in Events /\ "loopexit" \in Events
    /\ "ctl_timeout" \notin Commons \cup Sockets \cup IoEvents \cup Signals \cup Users
    /\ "loopexit" \notin Commons \cup Sockets \cup IoEvents \cup Signals \cup Users
    /\ Users \cap Sockets = {} /\ Commons \cap Sockets = {}
    /\ IoEvents \cap Signals = {} /\ Commons \cap (IoEvents \cup Signals) = {}
    /\ \A e \in Events : ev_pri(e) \in 0..1
<1>1. \A e : ev_pri(e) \in 0..1
  BY DEF ev_pri
<1> QED BY <1>1, KindsAssumption DEF Users, Events, Internal, Sockets, IoEvents

(* The timeout queues, as sets. *)
LEMMA TimeoutsAre ==
    ASSUME NEW s, Good(s), NEW e
    PROVE  /\ HasTimeout(s, e) <=> e \in ToSet(s.timeheap) \cup ToSet(s.common)
           /\ Contains(s.timeheap, e) <=> e \in ToSet(s.timeheap)
           /\ ToSet(s.timeheap) \subseteq Events \ (Commons \cup Sockets)
           /\ ToSet(s.common) \subseteq Commons
<1>1. s.timeheap \in Seq(Events) /\ s.common \in Seq(Commons)
  BY DEF Good, TimeInv, HeapInv, CommonInv
<1>2. /\ Contains(s.timeheap, e) <=> e \in ToSet(s.timeheap)
      /\ Contains(s.common, e) <=> e \in ToSet(s.common)
  BY <1>1, MembersAre
<1>3. \A x : x \in ToSet(s.timeheap) => x \in Events
  BY <1>1, MembersAre
<1>4. \A x : x \in ToSet(s.common) => x \in Commons
  BY <1>1, MembersAre
<1> QED BY <1>2, <1>3, <1>4 DEF HasTimeout, Good, TimeInv, HeapInv

(* The active queue of an event, as a set. *)
LEMMA ActivesAre ==
    ASSUME NEW s, Good(s), NEW e \in Events
    PROVE  /\ IsActive(s, e) <=> e \in ToSet(s.activequeues[ev_pri(e)])
           /\ ev_pri(e) \in 0..1
           /\ \A q \in 0..1 : s.activequeues[q] \in Seq(Events)
<1>1. ev_pri(e) \in 0..1
  BY EventKinds
<1>2. \A q \in 0..1 : s.activequeues[q] \in Seq(Events)
  BY DEF Good, ActiveInv
<1>3. s.activequeues[ev_pri(e)] \in Seq(Events)
  BY <1>1, <1>2
<1>4. e \in ToSet(s.activequeues[ev_pri(e)]) <=> Contains(s.activequeues[ev_pri(e)], e)
  <2> DEFINE q == s.activequeues[ev_pri(e)]
  <2> HIDE DEF q
  <2>1. q \in Seq(Events)
    BY <1>3 DEF q
  <2>2. e \in ToSet(q) <=> Contains(q, e)
    BY <2>1, MembersAre
  <2> QED BY <2>2 DEF q
<1> QED BY <1>1, <1>2, <1>4 DEF IsActive

(* Good depends on the queues of timeouts through TimeInv only. *)
LEMMA TimesChange ==
    ASSUME NEW s, Good(s), NEW t, Touches(s, t, Harmless \cup {"timeheap", "common", "ev_timeout"}),
           TimeInv(t)
    PROVE  Good(t)
<1>1. /\ DOMAIN t = Fields
      /\ t.inserted = s.inserted /\ t.io = s.io /\ t.activequeues = s.activequeues
      /\ t.deferred = s.deferred /\ t.ev_io_timeout = s.ev_io_timeout
      /\ t.watched = s.watched /\ t.tv_cache = s.tv_cache /\ t.event_tv = s.event_tv
  BY FieldNames DEF Touches, Harmless, Good
<1>2. MapInv(t)
  BY <1>1 DEF Good, MapInv
<1>4. IntervalInv(t) /\ ActiveInv(t)
  BY <1>1 DEF Good, IntervalInv, ActiveInv
<1>5. DeferInv(t) /\ LoopInv(t)
  BY <1>1 DEF Good, DeferInv, LoopInv
<1> QED BY <1>1, <1>2, <1>4, <1>5 DEF Good

(* Good depends on the active queues through ActiveInv only. *)
LEMMA ActivesChange ==
    ASSUME NEW s, Good(s), NEW t, Touches(s, t, Harmless \cup {"activequeues"}),
           ActiveInv(t)
    PROVE  Good(t)
<1>1. /\ DOMAIN t = Fields
      /\ t.inserted = s.inserted /\ t.io = s.io
      /\ t.timeheap = s.timeheap /\ t.common = s.common /\ t.deferred = s.deferred
      /\ t.ev_timeout = s.ev_timeout /\ t.ev_io_timeout = s.ev_io_timeout
      /\ t.watched = s.watched /\ t.tv_cache = s.tv_cache /\ t.event_tv = s.event_tv
  BY FieldNames DEF Touches, Harmless, Good
<1>2. MapInv(t)
  BY <1>1 DEF Good, MapInv
<1>3. TimeInv(t)
  BY <1>1 DEF Good, TimeInv, HeapInv, CommonInv
<1>5. DeferInv(t) /\ LoopInv(t) /\ IntervalInv(t)
  BY <1>1 DEF Good, DeferInv, LoopInv, IntervalInv
<1> QED BY <1>1, <1>2, <1>3, <1>5 DEF Good

(* Good depends on the map of descriptors through MapInv only. *)
LEMMA MapChanges ==
    ASSUME NEW s, Good(s), NEW t, Touches(s, t, Harmless \cup {"inserted", "io"}), MapInv(t)
    PROVE  Good(t)
<1>1. /\ DOMAIN t = Fields /\ t.activequeues = s.activequeues
      /\ t.timeheap = s.timeheap /\ t.common = s.common /\ t.deferred = s.deferred
      /\ t.ev_timeout = s.ev_timeout /\ t.ev_io_timeout = s.ev_io_timeout
      /\ t.watched = s.watched /\ t.tv_cache = s.tv_cache /\ t.event_tv = s.event_tv
  BY FieldNames DEF Touches, Harmless, Good
<1>2. ActiveInv(t)
  BY <1>1 DEF Good, ActiveInv
<1>3. TimeInv(t)
  BY <1>1 DEF Good, TimeInv, HeapInv, CommonInv
<1>5. DeferInv(t) /\ LoopInv(t) /\ IntervalInv(t)
  BY <1>1 DEF Good, DeferInv, LoopInv, IntervalInv
<1> QED BY <1>1, <1>2, <1>3, <1>5 DEF Good

(* Good depends on the deferred callbacks through DeferInv only. *)
LEMMA DeferredsChange ==
    ASSUME NEW s, Good(s), NEW t, Touches(s, t, Harmless \cup {"deferred"}), DeferInv(t)
    PROVE  Good(t)
<1>1. /\ DOMAIN t = Fields
      /\ t.inserted = s.inserted /\ t.io = s.io /\ t.activequeues = s.activequeues
      /\ t.timeheap = s.timeheap /\ t.common = s.common
      /\ t.ev_timeout = s.ev_timeout /\ t.ev_io_timeout = s.ev_io_timeout
      /\ t.watched = s.watched /\ t.tv_cache = s.tv_cache /\ t.event_tv = s.event_tv
  BY FieldNames DEF Touches, Harmless, Good
<1>2. MapInv(t)
  BY <1>1 DEF Good, MapInv
<1>3. TimeInv(t)
  BY <1>1 DEF Good, TimeInv, HeapInv, CommonInv
<1>4. IntervalInv(t) /\ ActiveInv(t)
  BY <1>1 DEF Good, IntervalInv, ActiveInv
<1>5. LoopInv(t)
  BY <1>1 DEF Good, LoopInv
<1> QED BY <1>1, <1>2, <1>3, <1>4, <1>5 DEF Good

(* Times of the loop, and what select() was given. *)
LEMMA LoopChanges ==
    ASSUME NEW s, Good(s), NEW t,
           Touches(s, t, Harmless \cup {"tv_cache", "event_tv", "watched"}), LoopInv(t)
    PROVE  Good(t)
<1>1. /\ DOMAIN t = Fields
      /\ t.inserted = s.inserted /\ t.io = s.io /\ t.activequeues = s.activequeues
      /\ t.timeheap = s.timeheap /\ t.common = s.common /\ t.deferred = s.deferred
      /\ t.ev_timeout = s.ev_timeout /\ t.ev_io_timeout = s.ev_io_timeout
  BY FieldNames DEF Touches, Harmless, Good
<1>2. MapInv(t)
  BY <1>1 DEF Good, MapInv
<1>3. TimeInv(t)
  BY <1>1 DEF Good, TimeInv, HeapInv, CommonInv
<1>4. IntervalInv(t) /\ ActiveInv(t)
  BY <1>1 DEF Good, IntervalInv, ActiveInv
<1>5. DeferInv(t)
  BY <1>1 DEF Good, DeferInv
<1> QED BY <1>1, <1>2, <1>3, <1>4, <1>5 DEF Good

(* Good depends on the intervals of events through IntervalInv only. *)
LEMMA IntervalChanges ==
    ASSUME NEW s, Good(s), NEW t, Touches(s, t, Harmless \cup {"ev_io_timeout"}), IntervalInv(t)
    PROVE  Good(t)
<1>1. /\ DOMAIN t = Fields
      /\ t.inserted = s.inserted /\ t.io = s.io /\ t.activequeues = s.activequeues
      /\ t.timeheap = s.timeheap /\ t.common = s.common /\ t.deferred = s.deferred
      /\ t.ev_timeout = s.ev_timeout
      /\ t.watched = s.watched /\ t.tv_cache = s.tv_cache /\ t.event_tv = s.event_tv
  BY FieldNames DEF Touches, Harmless, Good
<1>2. MapInv(t)
  BY <1>1 DEF Good, MapInv
<1>3. TimeInv(t)
  BY <1>1 DEF Good, TimeInv, HeapInv, CommonInv
<1>4. ActiveInv(t)
  BY <1>1 DEF Good, ActiveInv
<1>5. DeferInv(t) /\ LoopInv(t)
  BY <1>1 DEF Good, DeferInv, LoopInv
<1> QED BY <1>1, <1>2, <1>3, <1>4, <1>5 DEF Good

-----------------------------------------------------------------------------
(* The operations on queues, and the notification.                         *)

(* "Abort loop" changes what a signal closure counts. *)
LEMMA AbortCallsIs ==
    ASSUME NEW s, Good(s), NEW e
    PROVE  Good(AbortCalls(s, e)) /\ Touches(s, AbortCalls(s, e), {"ncalls", "stray"})
<1>1. Touches(s, AbortCalls(s, e), {"ncalls", "stray"})
  BY DEF Touches, AbortCalls
<1>2. Touches(s, AbortCalls(s, e), Harmless)
  BY <1>1 DEF Touches, Harmless
<1> QED BY <1>1, <1>2, HarmlessIsGood

Notified == {"is_notify_pending", "notify_byte"}

(* A call by thread t: the loop thread does not notify itself, a notification *)
(* that is pending keeps its byte, and no byte is lost.                       *)
Quiet(s, r, t) ==
    /\ t = "loop" => r.is_notify_pending = s.is_notify_pending /\ r.notify_byte = s.notify_byte
    /\ (s.is_notify_pending => s.notify_byte) => (r.is_notify_pending => r.notify_byte)
    /\ s.notify_byte => r.notify_byte

(* A notification changes its flag and its byte. *)
LEMMA NotifyIfIs ==
    ASSUME NEW s, Good(s), NEW needed, NEW t
    PROVE  /\ Good(NotifyIf(s, needed, t)) /\ Touches(s, NotifyIf(s, needed, t), Notified)
           /\ Quiet(s, NotifyIf(s, needed, t), t)
<1>1. Touches(s, NotifyIf(s, needed, t), Notified)
  BY DEF Touches, NotifyIf, evthread_notify_base, Notified
<1>2. Touches(s, NotifyIf(s, needed, t), Harmless)
  BY <1>1 DEF Touches, Harmless, Notified
<1>3. Quiet(s, NotifyIf(s, needed, t), t)
  <2>1. "is_notify_pending" \in DOMAIN s /\ "notify_byte" \in DOMAIN s
    BY FieldNames DEF Good
  <2>2. NotifyIf(s, needed, t) = s \/ (NotifyIf(s, needed, t).is_notify_pending = TRUE /\ NotifyIf(s, needed, t).notify_byte = TRUE /\ t # "loop")
    BY <2>1 DEF NotifyIf, EVBASE_NEED_NOTIFY, evthread_notify_base
  <2> QED BY <2>2 DEF Quiet
<1> QED BY <1>1, <1>2, <1>3, HarmlessIsGood

(* An event leaves its queue of timeouts. *)
LEMMA RemoveTimeoutIs ==
    ASSUME NEW s, Good(s), NEW e, HasTimeout(s, e)
    PROVE  /\ Good(RemoveTimeout(s, e)) /\ Touches(s, RemoveTimeout(s, e), {"timeheap", "common"})
           /\ ToSet(RemoveTimeout(s, e).timeheap) = ToSet(s.timeheap) \ {e}
           /\ ToSet(RemoveTimeout(s, e).common) = ToSet(s.common) \ {e}
<1> DEFINE r == RemoveTimeout(s, e)
<1>0. /\ s.ev_timeout \in [Events -> Int] /\ s.timeheap \in Seq(Events) /\ IsInjective(s.timeheap)
      /\ ToSet(s.timeheap) \cap (Commons \cup Sockets) = {} /\ IsHeap(s.timeheap, s.ev_timeout)
      /\ s.common \in Seq(Commons) /\ IsInjective(s.common) /\ InOrder(s.common, s.ev_timeout)
      /\ "timeheap" \in DOMAIN s /\ "common" \in DOMAIN s
  BY FieldNames DEF Good, TimeInv, HeapInv, CommonInv
<1>s. /\ HasTimeout(s, e) <=> e \in ToSet(s.timeheap) \cup ToSet(s.common)
      /\ Contains(s.timeheap, e) <=> e \in ToSet(s.timeheap)
      /\ ToSet(s.timeheap) \subseteq Events \ (Commons \cup Sockets)
      /\ ToSet(s.common) \subseteq Commons
  BY TimeoutsAre
<1>1. Touches(s, r, {"timeheap", "common"})
  BY DEF Touches, RemoveTimeout
<1>2. r.ev_timeout = s.ev_timeout
  BY <1>1, FieldNames DEF Touches, Good
<1>3. CASE e \in ToSet(s.timeheap)
  <2>1. /\ r.timeheap = min_heap_erase(s.timeheap, s.ev_timeout, e)
        /\ r.common = s.common
    BY <1>0, <1>s, <1>3 DEF RemoveTimeout
  <2> HIDE DEF r
  <2>2. /\ r.timeheap \in Seq(Events) /\ IsHeap(r.timeheap, s.ev_timeout)
        /\ IsInjective(r.timeheap) /\ ToSet(r.timeheap) = ToSet(s.timeheap) \ {e}
    BY <2>1, <1>0, <1>3, HeapErase
  <2>3. TimeInv(r)
    BY <2>1, <2>2, <1>0, <1>2 DEF TimeInv, HeapInv, CommonInv
  <2>4. ToSet(r.common) = ToSet(s.common) \ {e}
    BY <2>1, <1>s, <1>3
  <2>5. Touches(s, r, Harmless \cup {"timeheap", "common", "ev_timeout"})
    BY <1>1 DEF Touches
  <2> QED BY <2>2, <2>3, <2>4, <2>5, <1>1, TimesChange DEF r
<1>4. CASE e \notin ToSet(s.timeheap)
  <2>1. /\ r.common = RemoveFirst(s.common, e)
        /\ r.timeheap = s.timeheap
    BY <1>0, <1>s, <1>4 DEF RemoveTimeout
  <2> HIDE DEF r
  <2>2. /\ r.common \in Seq(Commons) /\ IsInjective(r.common) /\ ToSet(r.common) = ToSet(s.common) \ {e}
    BY <2>1, <1>0, RemoveFromQueue
  <2>3. InOrder(r.common, s.ev_timeout)
    BY <2>1, <1>0, RemoveOrdered
  <2>4. TimeInv(r)
    BY <2>1, <2>2, <2>3, <1>0, <1>2 DEF TimeInv, HeapInv, CommonInv
  <2>5. Touches(s, r, Harmless \cup {"timeheap", "common", "ev_timeout"})
    BY <1>1 DEF Touches
  <2>6. ToSet(r.timeheap) = ToSet(s.timeheap) \ {e}
    BY <2>1, <1>4
  <2> QED BY <2>2, <2>4, <2>5, <2>6, <1>1, TimesChange DEF r
<1> QED BY <1>3, <1>4

(* An entry that changes its key while it is in no queue. *)
LEMMA HeapCongruence ==
    ASSUME NEW h \in Seq(Events), NEW key \in [Events -> Int], NEW new \in [Events -> Int],
           \A x \in ToSet(h) : new[x] = key[x], IsHeap(h, key)
    PROVE  IsHeap(h, new)
<1>1. \A i \in 1..Len(h) : h[i] \in ToSet(h)
  BY DEF ToSet
<1>2. \A i \in 2..Len(h) : Parent(i) \in 1..Len(h) /\ i \in 1..Len(h)
  <2> TAKE i \in 2..Len(h)
  <2>1. i \in Nat /\ i >= 2 /\ i <= Len(h) /\ Len(h) \in Nat
    OBVIOUS
  <2>2. Parent(i) \in Nat /\ Parent(i) >= 1 /\ Parent(i) < i
    BY <2>1, ParentFacts
  <2> QED BY <2>1, <2>2
<1> QED BY <1>1, <1>2 DEF IsHeap

(* The order of a list depends on the times of its events only. *)
LEMMA OrderCongruence ==
    ASSUME NEW q \in Seq(Commons), NEW key \in [Events -> Int], NEW new \in [Events -> Int],
           \A x \in ToSet(q) : new[x] = key[x], InOrder(q, key)
    PROVE  InOrder(q, new)
<1>1. \A i \in 1..Len(q) : q[i] \in ToSet(q)
  BY DEF ToSet
<1> QED BY <1>1 DEF InOrder

(* The end of SetTimeout: e fires at d. *)
Timed(s, e, d) == InsertTimeout([s EXCEPT !.ev_timeout[e] = d], e)

(* InsertTimeout of an event that has no timeout. *)
LEMMA TimedIs ==
    ASSUME NEW s, Good(s), NEW e \in Events \ Sockets, NEW d \in Int, ~HasTimeout(s, e)
    PROVE  /\ Good(Timed(s, e, d)) /\ Touches(s, Timed(s, e, d), {"timeheap", "common", "ev_timeout"})
           /\ ToSet(Timed(s, e, d).timeheap) = IF e \in Commons THEN ToSet(s.timeheap) ELSE ToSet(s.timeheap) \cup {e}
           /\ ToSet(Timed(s, e, d).common) = IF e \in Commons THEN ToSet(s.common) \cup {e} ELSE ToSet(s.common)
           /\ Timed(s, e, d).ev_timeout = [s.ev_timeout EXCEPT ![e] = d]
<1> DEFINE r == Timed(s, e, d)
           key == [s.ev_timeout EXCEPT ![e] = d]
<1>0. /\ s.ev_timeout \in [Events -> Int] /\ s.timeheap \in Seq(Events) /\ IsInjective(s.timeheap)
      /\ ToSet(s.timeheap) \cap (Commons \cup Sockets) = {} /\ IsHeap(s.timeheap, s.ev_timeout)
      /\ s.common \in Seq(Commons) /\ IsInjective(s.common) /\ InOrder(s.common, s.ev_timeout)
      /\ "timeheap" \in DOMAIN s /\ "common" \in DOMAIN s /\ "ev_timeout" \in DOMAIN s
  BY FieldNames DEF Good, TimeInv, HeapInv, CommonInv
<1>s. e \notin ToSet(s.timeheap) /\ e \notin ToSet(s.common)
  BY TimeoutsAre
<1>1. Touches(s, r, {"timeheap", "common", "ev_timeout"})
  BY DEF Touches, Timed, InsertTimeout
<1>2. r.ev_timeout = key
  BY <1>0 DEF Timed, InsertTimeout
<1>3. /\ key \in [Events -> Int]
      /\ \A x \in ToSet(s.timeheap) : key[x] = s.ev_timeout[x]
      /\ \A x \in ToSet(s.common) : key[x] = s.ev_timeout[x]
  BY <1>0, <1>s
<1>f. /\ r.timeheap = IF e \in Commons THEN s.timeheap ELSE min_heap_push(s.timeheap, key, e)
      /\ r.common = IF e \in Commons THEN InsertInOrder(s.common, key, e) ELSE s.common
  BY <1>0 DEF Timed, InsertTimeout
<1> HIDE DEF r, key
<1>4. IsHeap(s.timeheap, key)
  BY <1>0, <1>3, HeapCongruence
<1>5. InOrder(s.common, key)
  BY <1>0, <1>3, OrderCongruence
<1>6. CASE e \in Commons
  <2>1. r.timeheap = s.timeheap /\ r.common = InsertInOrder(s.common, key, e)
    BY <1>f, <1>6
  <2>2. /\ r.common \in Seq(Commons) /\ InOrder(r.common, key) /\ IsInjective(r.common)
        /\ ToSet(r.common) = ToSet(s.common) \cup {e}
    <3>1. Commons \subseteq Events
      BY EventKinds
    <3> DEFINE q == s.common
    <3>2. q \in Seq(Commons) /\ IsInjective(q) /\ InOrder(q, key) /\ e \notin ToSet(q)
      BY <1>0, <1>5, <1>s
    <3> HIDE DEF q
    <3>3. /\ InsertInOrder(q, key, e) \in Seq(Commons) /\ InOrder(InsertInOrder(q, key, e), key)
          /\ IsInjective(InsertInOrder(q, key, e)) /\ ToSet(InsertInOrder(q, key, e)) = ToSet(q) \cup {e}
      <4>1. e \in Commons /\ \A x \in Commons : key[x] \in Int
        BY <1>3, <1>6, <3>1
      <4> QED BY <3>2, <4>1, InsertOrdered
    <3> QED BY <3>3, <2>1 DEF q
  <2>3. TimeInv(r)
    BY <2>1, <2>2, <1>0, <1>2, <1>3, <1>4 DEF TimeInv, HeapInv, CommonInv
  <2>4. Touches(s, r, Harmless \cup {"timeheap", "common", "ev_timeout"})
    BY <1>1 DEF Touches
  <2> QED BY <2>1, <2>2, <2>3, <2>4, <1>1, <1>2, <1>6, TimesChange DEF r, key
<1>7. CASE e \notin Commons
  <2>1. r.common = s.common /\ r.timeheap = min_heap_push(s.timeheap, key, e)
    BY <1>f, <1>7
  <2>2. /\ r.timeheap \in Seq(Events) /\ IsHeap(r.timeheap, key) /\ IsInjective(r.timeheap)
        /\ ToSet(r.timeheap) = ToSet(s.timeheap) \cup {e}
    BY <2>1, <1>0, <1>3, <1>4, <1>s, HeapPush
  <2>3. TimeInv(r)
    BY <2>1, <2>2, <1>0, <1>2, <1>3, <1>5, <1>7 DEF TimeInv, HeapInv, CommonInv
  <2>4. Touches(s, r, Harmless \cup {"timeheap", "common", "ev_timeout"})
    BY <1>1 DEF Touches
  <2> QED BY <2>1, <2>2, <2>3, <2>4, <1>1, <1>2, <1>7, TimesChange DEF r, key
<1> QED BY <1>6, <1>7

(* A queue is empty when the set of its events is. *)
LEMMA EmptyQueue ==
    ASSUME NEW S, NEW q \in Seq(S)
    PROVE  /\ Len(q) \in Nat
           /\ Len(q) = 0 <=> ToSet(q) = {}
           /\ q # <<>> <=> ToSet(q) # {}
<1>1. Len(q) \in Nat /\ DOMAIN q = 1..Len(q) /\ (q = <<>> <=> Len(q) = 0)
  OBVIOUS
<1>2. Len(q) = 0 <=> 1..Len(q) = {}
  <2>1. \A n \in Nat : n # 0 => 1 \in 1..n
    OBVIOUS
  <2>2. 1..0 = {}
    OBVIOUS
  <2> QED BY <1>1, <2>1, <2>2
<1>3. ToSet(q) = {} <=> 1..Len(q) = {}
  BY <1>1 DEF ToSet
<1> QED BY <1>1, <1>2, <1>3

(* The queues of active events, as sets. *)
ActiveSet(s) == ToSet(s.activequeues[0]) \cup ToSet(s.activequeues[1])

(* The active events, as a set. *)
LEMMA ActiveSetIs ==
    ASSUME NEW s, Good(s)
    PROVE  /\ ActiveSet(s) \in SUBSET Events
           /\ \A e \in Events : IsActive(s, e) <=> e \in ActiveSet(s)
           /\ N_ACTIVE_EVENTS(s) \in Nat
           /\ N_ACTIVE_EVENTS(s) = 0 <=> ActiveSet(s) = {}
           /\ \A q \in 0..1 : s.activequeues[q] # <<>> <=> \E e \in ActiveSet(s) : ev_pri(e) = q
<1> DEFINE a == s.activequeues[0]
           c == s.activequeues[1]
<1>1. /\ a \in Seq(Events) /\ c \in Seq(Events)
      /\ \A e \in ToSet(a) : ev_pri(e) = 0
      /\ \A e \in ToSet(c) : ev_pri(e) = 1
      /\ 0 \in 0..1 /\ 1 \in 0..1
  BY DEF Good, ActiveInv
<1>2. \A e \in Events : ev_pri(e) \in 0..1 /\ (IsActive(s, e) <=> e \in ToSet(s.activequeues[ev_pri(e)]))
  BY ActivesAre
<1>3. \A q \in 0..1 : q = 0 \/ q = 1
  OBVIOUS
<1>4. \A e \in Events : IsActive(s, e) <=> e \in ToSet(a) \cup ToSet(c)
  <2> TAKE e \in Events
  <2>1. CASE ev_pri(e) = 0
    BY <1>1, <1>2, <2>1
  <2>2. CASE ev_pri(e) = 1
    BY <1>1, <1>2, <2>2
  <2> QED BY <1>2, <1>3, <2>1, <2>2
<1> HIDE DEF a, c
<1>5. /\ \A x : x \in ToSet(a) => x \in Events
      /\ \A x : x \in ToSet(c) => x \in Events
  BY <1>1, MembersAre
<1>6. /\ Len(a) \in Nat /\ Len(c) \in Nat
      /\ Len(a) = 0 <=> ToSet(a) = {}
      /\ Len(c) = 0 <=> ToSet(c) = {}
      /\ a # <<>> <=> ToSet(a) # {}
      /\ c # <<>> <=> ToSet(c) # {}
  BY <1>1, EmptyQueue
<1>7. N_ACTIVE_EVENTS(s) = Len(a) + Len(c)
  BY DEF N_ACTIVE_EVENTS, a, c
<1>8. N_ACTIVE_EVENTS(s) \in Nat /\ (N_ACTIVE_EVENTS(s) = 0 <=> Len(a) = 0 /\ Len(c) = 0)
  BY <1>6, <1>7
<1>9. \A q \in 0..1 : s.activequeues[q] # <<>> <=> \E e \in ActiveSet(s) : ev_pri(e) = q
  BY <1>1, <1>3, <1>6 DEF ActiveSet, a, c
<1> QED BY <1>4, <1>5, <1>6, <1>8, <1>9 DEF ActiveSet, a, c

(* An event leaves its active queue. *)
LEMMA RemoveActiveIs ==
    ASSUME NEW s, Good(s), NEW e \in Events
    PROVE  /\ Good(RemoveActive(s, e)) /\ Touches(s, RemoveActive(s, e), {"activequeues"})
           /\ ActiveSet(RemoveActive(s, e)) = ActiveSet(s) \ {e}
<1> DEFINE r == RemoveActive(s, e)
           p == ev_pri(e)
           old == s.activequeues[p]
           new == RemoveFirst(old, e)
<1>0. /\ s.activequeues \in [0..1 -> Seq(Events)] /\ p \in 0..1 /\ old \in Seq(Events)
      /\ \A q \in 0..1 : /\ IsInjective(s.activequeues[q])
                         /\ \A x \in ToSet(s.activequeues[q]) : ev_pri(x) = q
      /\ "activequeues" \in DOMAIN s
  BY FieldNames, EventKinds DEF Good, ActiveInv
<1>1. Touches(s, r, {"activequeues"})
  BY DEF Touches, RemoveActive
<1>2. /\ new \in Seq(Events) /\ IsInjective(new) /\ ToSet(new) = ToSet(old) \ {e}
  <2>1. IsInjective(old)
    BY <1>0
  <2> HIDE DEF old
  <2> QED BY <1>0, <2>1, RemoveFromQueue
<1>3. r.activequeues = [s.activequeues EXCEPT ![p] = new]
  BY <1>0 DEF RemoveActive
<1>4. /\ r.activequeues \in [0..1 -> Seq(Events)] /\ r.activequeues[p] = new
      /\ \A q \in 0..1 : q # p => r.activequeues[q] = s.activequeues[q]
  <2> HIDE DEF new, r
  <2> QED BY <1>0, <1>2, <1>3
<1> HIDE DEF r, new
<1>5. \A q \in 0..1 : ToSet(r.activequeues[q]) = ToSet(s.activequeues[q]) \ {e}
  <2> TAKE q \in 0..1
  <2>1. CASE q = p
    BY <2>1, <1>2, <1>4
  <2>2. CASE q # p
    BY <2>2, <1>0, <1>4
  <2> QED BY <2>1, <2>2
<1>6. \A q \in 0..1 : IsInjective(r.activequeues[q])
  BY <1>0, <1>2, <1>4
<1>7. ActiveInv(r)
  BY <1>0, <1>4, <1>5, <1>6 DEF ActiveInv
<1>8. Touches(s, r, Harmless \cup {"activequeues"})
  BY <1>1 DEF Touches
<1>9. ActiveSet(r) = ActiveSet(s) \ {e}
  <2>1. 0 \in 0..1 /\ 1 \in 0..1
    OBVIOUS
  <2> QED BY <1>5, <2>1 DEF ActiveSet
<1> QED BY <1>1, <1>7, <1>8, <1>9, ActivesChange DEF r

(* An event joins its active queue. *)
LEMMA InsertActiveIs ==
    ASSUME NEW s, Good(s), NEW e \in Events
    PROVE  /\ Good(InsertActive(s, e)) /\ Touches(s, InsertActive(s, e), {"activequeues"})
           /\ ActiveSet(InsertActive(s, e)) = ActiveSet(s) \cup {e}
<1> DEFINE r == InsertActive(s, e)
           p == ev_pri(e)
           old == s.activequeues[p]
           new == Append(old, e)
<1>s. IsActive(s, e) <=> e \in ActiveSet(s)
  BY ActiveSetIs
<1>p. IsActive(s, e) <=> e \in ToSet(old)
  BY ActivesAre
<1>1. CASE IsActive(s, e)
  <2>1. r = s
    BY <1>1 DEF InsertActive
  <2>2. ActiveSet(s) = ActiveSet(s) \cup {e}
    BY <1>1, <1>s
  <2> QED BY <2>1, <2>2 DEF Touches
<1>2. CASE ~IsActive(s, e)
  <2>0. /\ s.activequeues \in [0..1 -> Seq(Events)] /\ p \in 0..1 /\ old \in Seq(Events)
        /\ \A q \in 0..1 : /\ IsInjective(s.activequeues[q])
                           /\ \A x \in ToSet(s.activequeues[q]) : ev_pri(x) = q
        /\ "activequeues" \in DOMAIN s
    BY FieldNames, EventKinds DEF Good, ActiveInv
  <2>1. Touches(s, r, {"activequeues"})
    BY DEF Touches, InsertActive
  <2>2. /\ new \in Seq(Events) /\ IsInjective(new) /\ ToSet(new) = ToSet(old) \cup {e}
    <3>1. IsInjective(old) /\ e \notin ToSet(old)
      BY <2>0, <1>2, <1>p
    <3> HIDE DEF old
    <3> QED BY <2>0, <3>1, AppendToQueue
  <2>3. r.activequeues = [s.activequeues EXCEPT ![p] = new]
    BY <2>0, <1>2 DEF InsertActive
  <2>4. /\ r.activequeues \in [0..1 -> Seq(Events)] /\ r.activequeues[p] = new
        /\ \A q \in 0..1 : q # p => r.activequeues[q] = s.activequeues[q]
    <3> HIDE DEF new, r
    <3> QED BY <2>0, <2>2, <2>3
  <2> HIDE DEF r, new
  <2>5. \A q \in 0..1 : ToSet(r.activequeues[q]) = IF q = p THEN ToSet(s.activequeues[q]) \cup {e} ELSE ToSet(s.activequeues[q])
    BY <2>2, <2>4
  <2>6. \A q \in 0..1 : IsInjective(r.activequeues[q])
    BY <2>0, <2>2, <2>4
  <2>7. ActiveInv(r)
    BY <2>0, <2>4, <2>5, <2>6 DEF ActiveInv
  <2>8. Touches(s, r, Harmless \cup {"activequeues"})
    BY <2>1 DEF Touches
  <2>9. ActiveSet(r) = ActiveSet(s) \cup {e}
    <3>1. 0 \in 0..1 /\ 1 \in 0..1 /\ (p = 0 \/ p = 1)
      BY <2>0
    <3> QED BY <2>5, <3>1 DEF ActiveSet
  <2> QED BY <2>1, <2>7, <2>8, <2>9, ActivesChange DEF r
<1> QED BY <1>1, <1>2

-----------------------------------------------------------------------------
(* Timeouts.                                                               *)

(* What calls of the API change. *)
Api == {"inserted", "io", "activequeues", "timeheap", "common", "ev_res", "ev_timeout",
        "ev_io_timeout", "ev_ncalls", "ev_pncalls", "ncalls", "stray", "event_continue",
        "is_notify_pending", "notify_byte"}

(* SetTimeout before it notifies: only e has moved. *)
Rearmed(s, r, e, d) ==
    /\ Touches(s, r, {"timeheap", "common", "ev_timeout", "activequeues", "ncalls", "stray"})
    /\ ToSet(r.timeheap) = IF e \in Commons THEN ToSet(s.timeheap) ELSE ToSet(s.timeheap) \cup {e}
    /\ ToSet(r.common) = IF e \in Commons THEN ToSet(s.common) \cup {e} ELSE ToSet(s.common)
    /\ r.ev_timeout = [s.ev_timeout EXCEPT ![e] = d]
    /\ ActiveSet(s) \ {e} \subseteq ActiveSet(r) /\ ActiveSet(r) \subseteq ActiveSet(s)

(* The timeout part of event_add_internal, up to the notification. *)
LEMMA SetTimeoutIs ==
    ASSUME NEW s, Good(s), NEW e \in Events \ Sockets, NEW d \in Int, NEW t
    PROVE  \E r : /\ Good(r) /\ Rearmed(s, r, e, d)
                  /\ SetTimeout(s, e, d, t) =
                       NotifyIf(r, \/ HasTimeout(s, e) /\ IsTop(s, e)
                                   \/ e \notin Commons /\ IsTop(r, e), t)
<1> DEFINE s1 == IF HasTimeout(s, e) THEN RemoveTimeout(s, e) ELSE s
           s2 == IF IsActive(s1, e) /\ "timeout" \in s1.ev_res[e]
                 THEN RemoveActive(AbortCalls(s1, e), e) ELSE s1
           s3 == Timed(s2, e, d)
<1>0. SetTimeout(s, e, d, t) =
         NotifyIf(s3, \/ HasTimeout(s, e) /\ IsTop(s, e)
                      \/ e \notin Commons /\ IsTop(s3, e), t)
  BY DEF SetTimeout, Timed
<1>1. /\ Good(s1) /\ Touches(s, s1, {"timeheap", "common"})
      /\ ToSet(s1.timeheap) = ToSet(s.timeheap) \ {e}
      /\ ToSet(s1.common) = ToSet(s.common) \ {e}
  <2>1. CASE HasTimeout(s, e)
    BY <2>1, RemoveTimeoutIs
  <2>2. CASE ~HasTimeout(s, e)
    <3>1. e \notin ToSet(s.timeheap) /\ e \notin ToSet(s.common)
      BY <2>2, TimeoutsAre
    <3>2. s1 = s
      BY <2>2
    <3> QED BY <3>1, <3>2 DEF Touches
  <2> QED BY <2>1, <2>2
<1> HIDE DEF s1
<1>2. /\ Good(s2) /\ Touches(s1, s2, {"activequeues", "ncalls", "stray"})
      /\ ActiveSet(s1) \ {e} \subseteq ActiveSet(s2) /\ ActiveSet(s2) \subseteq ActiveSet(s1)
  <2>1. CASE IsActive(s1, e) /\ "timeout" \in s1.ev_res[e]
    <3> DEFINE a == AbortCalls(s1, e)
    <3>1. Good(a) /\ Touches(s1, a, {"ncalls", "stray"})
      BY <1>1, AbortCallsIs
    <3>2. s2 = RemoveActive(a, e)
      BY <2>1
    <3> HIDE DEF a
    <3>3. /\ Good(s2) /\ Touches(a, s2, {"activequeues"})
          /\ ActiveSet(s2) = ActiveSet(a) \ {e}
      BY <3>1, <3>2, RemoveActiveIs
    <3>4. ActiveSet(a) = ActiveSet(s1)
      <4>1. a.activequeues = s1.activequeues
        BY <3>1, <1>1, FieldNames DEF Touches, Good
      <4> QED BY <4>1 DEF ActiveSet
    <3> HIDE DEF s2
    <3>5. Touches(s1, s2, {"activequeues", "ncalls", "stray"})
      BY <3>1, <3>3 DEF Touches
    <3> QED BY <3>3, <3>4, <3>5
  <2>2. CASE ~(IsActive(s1, e) /\ "timeout" \in s1.ev_res[e])
    <3>1. s2 = s1
      BY <2>2
    <3> QED BY <3>1, <1>1 DEF Touches
  <2> QED BY <2>1, <2>2
<1> HIDE DEF s2
<1>3. /\ s2.timeheap = s1.timeheap /\ s2.common = s1.common
      /\ s2.ev_timeout = s1.ev_timeout /\ s1.ev_timeout = s.ev_timeout
      /\ s1.activequeues = s.activequeues
  BY <1>1, <1>2, FieldNames DEF Touches, Good
<1>4. ~HasTimeout(s2, e)
  BY <1>1, <1>2, <1>3, TimeoutsAre
<1>5. /\ Good(s3) /\ Touches(s2, s3, {"timeheap", "common", "ev_timeout"})
      /\ ToSet(s3.timeheap) = IF e \in Commons THEN ToSet(s2.timeheap) ELSE ToSet(s2.timeheap) \cup {e}
      /\ ToSet(s3.common) = IF e \in Commons THEN ToSet(s2.common) \cup {e} ELSE ToSet(s2.common)
      /\ s3.ev_timeout = [s2.ev_timeout EXCEPT ![e] = d]
  BY <1>2, <1>4, TimedIs
<1> HIDE DEF s3
<1>6. ActiveSet(s3) = ActiveSet(s2) /\ ActiveSet(s1) = ActiveSet(s)
  <2>1. s3.activequeues = s2.activequeues
    BY <1>2, <1>5, FieldNames DEF Touches, Good
  <2> QED BY <2>1, <1>3 DEF ActiveSet
<1>7. /\ ToSet(s.timeheap) \subseteq Events \ (Commons \cup Sockets)
      /\ ToSet(s.common) \subseteq Commons
  BY TimeoutsAre
<1>8. Rearmed(s, s3, e, d)
  <2>1. Touches(s, s3, {"timeheap", "common", "ev_timeout", "activequeues", "ncalls", "stray"})
    BY <1>1, <1>2, <1>5 DEF Touches
  <2>2. /\ ToSet(s3.timeheap) = IF e \in Commons THEN ToSet(s.timeheap) ELSE ToSet(s.timeheap) \cup {e}
        /\ ToSet(s3.common) = IF e \in Commons THEN ToSet(s.common) \cup {e} ELSE ToSet(s.common)
    BY <1>1, <1>3, <1>5, <1>7
  <2>3. s3.ev_timeout = [s.ev_timeout EXCEPT ![e] = d]
    BY <1>3, <1>5
  <2>4. ActiveSet(s) \ {e} \subseteq ActiveSet(s3) /\ ActiveSet(s3) \subseteq ActiveSet(s)
    BY <1>2, <1>6
  <2> QED BY <2>1, <2>2, <2>3, <2>4 DEF Rearmed
<1> QED BY <1>0, <1>5, <1>8

(* e has its timeout at d, and nothing else has one less or one more. *)
TimedAt(s, r, e, d) ==
    /\ Touches(s, r, {"timeheap", "common", "ev_timeout", "activequeues", "ncalls", "stray"} \cup Notified)
    /\ ToSet(r.timeheap) = IF e \in Commons THEN ToSet(s.timeheap) ELSE ToSet(s.timeheap) \cup {e}
    /\ ToSet(r.common) = IF e \in Commons THEN ToSet(s.common) \cup {e} ELSE ToSet(s.common)
    /\ r.ev_timeout = [s.ev_timeout EXCEPT ![e] = d]
    /\ ActiveSet(s) \ {e} \subseteq ActiveSet(r) /\ ActiveSet(r) \subseteq ActiveSet(s)

(* The timeout part of event_add_internal. *)
LEMMA SetTimeoutSets ==
    ASSUME NEW s, Good(s), NEW e \in Events \ Sockets, NEW d \in Int, NEW t
    PROVE  /\ Good(SetTimeout(s, e, d, t)) /\ TimedAt(s, SetTimeout(s, e, d, t), e, d)
           /\ Quiet(s, SetTimeout(s, e, d, t), t)
<1> DEFINE u == SetTimeout(s, e, d, t)
<1>1. PICK r : /\ Good(r) /\ Rearmed(s, r, e, d)
               /\ SetTimeout(s, e, d, t) =
                       NotifyIf(r, \/ HasTimeout(s, e) /\ IsTop(s, e)
                                   \/ e \notin Commons /\ IsTop(r, e), t)
  BY SetTimeoutIs
<1>2. Good(u) /\ Touches(r, u, Notified) /\ Quiet(r, u, t)
  <2> DEFINE needed == \/ HasTimeout(s, e) /\ IsTop(s, e)
                       \/ e \notin Commons /\ IsTop(r, e)
  <2> HIDE DEF needed
  <2>1. u = NotifyIf(r, needed, t)
    BY <1>1 DEF needed
  <2> HIDE DEF u
  <2> QED BY <1>1, <2>1, NotifyIfIs
<1> HIDE DEF u
<1>3. Touches(s, r, {"timeheap", "common", "ev_timeout", "activequeues", "ncalls", "stray"})
  BY <1>1 DEF Rearmed
<1>4. /\ r.is_notify_pending = s.is_notify_pending /\ r.notify_byte = s.notify_byte
  BY <1>3, FieldNames DEF Touches, Good
<1>5. Quiet(s, u, t)
  BY <1>2, <1>4 DEF Quiet
<1>6. /\ u.timeheap = r.timeheap /\ u.common = r.common /\ u.ev_timeout = r.ev_timeout
      /\ u.activequeues = r.activequeues
  BY <1>1, <1>2, FieldNames DEF Touches, Good, Notified
<1>7. ActiveSet(u) = ActiveSet(r)
  BY <1>6 DEF ActiveSet
<1>8. Touches(s, u, {"timeheap", "common", "ev_timeout", "activequeues", "ncalls", "stray"} \cup Notified)
  BY <1>2, <1>3 DEF Touches
<1>9. TimedAt(s, u, e, d)
  BY <1>1, <1>6, <1>7, <1>8 DEF Rearmed, TimedAt
<1> QED BY <1>2, <1>5, <1>9 DEF u

(* common_timeout_schedule: the first of the list is due no earlier than the *)
(* timer of the list, or its callback is.                                    *)
Due(s) ==
    \A x \in ToSet(s.common) :
      \/ "ctl_timeout" \in ToSet(s.timeheap) /\ s.ev_timeout["ctl_timeout"] <= s.ev_timeout[x]
      \/ "ctl_timeout" \in ActiveSet(s)

(* Facts about the list of a common timeout. *)
LEMMA CommonHead ==
    ASSUME NEW s, Good(s), s.common # <<>>
    PROVE  /\ Head(s.common) \in ToSet(s.common) /\ Head(s.common) \in Commons
           /\ \A x \in ToSet(s.common) : s.ev_timeout[Head(s.common)] <= s.ev_timeout[x]
           /\ s.ev_timeout[Head(s.common)] \in Int
<1> DEFINE q == s.common
           key == s.ev_timeout
<1>1. q \in Seq(Commons) /\ InOrder(q, key) /\ key \in [Events -> Int] /\ q # <<>>
  BY DEF Good, TimeInv, CommonInv
<1>2. \A x \in Commons : key[x] \in Int
  BY <1>1, EventKinds
<1> HIDE DEF q, key
<1>3. /\ Head(q) \in ToSet(q) /\ Head(q) \in Commons
      /\ \A x \in ToSet(q) : key[Head(q)] <= key[x]
  BY <1>1, <1>2, FirstInOrder
<1> QED BY <1>2, <1>3 DEF q, key

(* The queues of timeouts are empty when their sets are. *)
LEMMA CommonEmpty ==
    ASSUME NEW s, Good(s)
    PROVE  /\ s.common = <<>> <=> ToSet(s.common) = {}
           /\ s.timeheap = <<>> <=> ToSet(s.timeheap) = {}
<1> DEFINE q == s.common
           h == s.timeheap
<1>1. q \in Seq(Commons) /\ h \in Seq(Events)
  BY DEF Good, TimeInv, CommonInv, HeapInv
<1> HIDE DEF q, h
<1>2. /\ q # <<>> <=> ToSet(q) # {}
      /\ h # <<>> <=> ToSet(h) # {}
  BY <1>1, EmptyQueue
<1> QED BY <1>2 DEF q, h

(* common_timeout_schedule makes the list due. *)
LEMMA ScheduleCommonIs ==
    ASSUME NEW s, Good(s), s.common # <<>>, NEW t
    PROVE  /\ Good(ScheduleCommon(s, t)) /\ Due(ScheduleCommon(s, t))
           /\ TimedAt(s, ScheduleCommon(s, t), "ctl_timeout", s.ev_timeout[Head(s.common)])
           /\ Quiet(s, ScheduleCommon(s, t), t)
<1> DEFINE c == "ctl_timeout"
           d == s.ev_timeout[Head(s.common)]
           r == ScheduleCommon(s, t)
<1>0. d \in Int /\ \A x \in ToSet(s.common) : d <= s.ev_timeout[x]
  BY CommonHead
<1>1. c \in Events \ Sockets /\ c \notin Commons
  BY EventKinds
<1>2. r = SetTimeout(s, c, d, t)
  BY DEF ScheduleCommon
<1>k. ToSet(s.common) \subseteq Commons /\ s.ev_timeout \in [Events -> Int]
  BY TimeoutsAre DEF Good, TimeInv
<1> HIDE DEF c, d, r
<1>3. Good(r) /\ TimedAt(s, r, c, d) /\ Quiet(s, r, t)
  BY <1>0, <1>1, <1>2, SetTimeoutSets
<1>4. /\ c \in ToSet(r.timeheap) /\ ToSet(r.common) = ToSet(s.common)
      /\ r.ev_timeout = [s.ev_timeout EXCEPT ![c] = d]
  BY <1>1, <1>3 DEF TimedAt
<1>5. /\ r.ev_timeout[c] = d
      /\ \A x \in ToSet(s.common) : r.ev_timeout[x] = s.ev_timeout[x]
  BY <1>1, <1>4, <1>k
<1>6. Due(r)
  BY <1>0, <1>4, <1>5 DEF Due, c
<1> QED BY <1>3, <1>6 DEF c, d, r

(* A timeout that is not of the list leaves the list as it is. *)
LEMMA OtherTimeoutIsDue ==
    ASSUME NEW s, Good(s), Due(s), NEW r, NEW e \in Events \ Commons, e # "ctl_timeout", NEW d,
           TimedAt(s, r, e, d)
    PROVE  Due(r)
<1> DEFINE c == "ctl_timeout"
<1>0. c # e /\ c \in Events
  BY EventKinds
<1>1. \A x \in ToSet(s.common) :
        \/ c \in ToSet(s.timeheap) /\ s.ev_timeout[c] <= s.ev_timeout[x]
        \/ c \in ActiveSet(s)
  BY DEF Due
<1>k. ToSet(s.common) \subseteq Commons /\ s.ev_timeout \in [Events -> Int]
  BY TimeoutsAre DEF Good, TimeInv
<1>2. /\ ToSet(r.timeheap) = ToSet(s.timeheap) \cup {e} /\ ToSet(r.common) = ToSet(s.common)
      /\ r.ev_timeout = [s.ev_timeout EXCEPT ![e] = d]
      /\ ActiveSet(s) \ {e} \subseteq ActiveSet(r)
  BY DEF TimedAt
<1>3. /\ r.ev_timeout[c] = s.ev_timeout[c]
      /\ \A x \in ToSet(s.common) : r.ev_timeout[x] = s.ev_timeout[x]
  BY <1>0, <1>2, <1>k, EventKinds
<1> HIDE DEF c
<1>4. \A x \in ToSet(r.common) :
        \/ c \in ToSet(r.timeheap) /\ r.ev_timeout[c] <= r.ev_timeout[x]
        \/ c \in ActiveSet(r)
  BY <1>0, <1>1, <1>2, <1>3
<1> QED BY <1>4 DEF Due, c

(* A call of thread t leaves the base well-formed. *)
GoodCall(s, r, t) == Good(r) /\ Touches(s, r, Api) /\ Quiet(s, r, t)

(* Two calls one after the other. *)
LEMMA CallTwice ==
    ASSUME NEW s, NEW r, NEW u, NEW t, GoodCall(s, r, t), GoodCall(r, u, t)
    PROVE  GoodCall(s, u, t)
BY DEF GoodCall, Touches, Quiet

(* Doing nothing is a call. *)
LEMMA NoCall ==
    ASSUME NEW s, Good(s), NEW t
    PROVE  GoodCall(s, s, t)
BY DEF GoodCall, Touches, Quiet

(* Due depends on the queues only. *)
LEMMA DueCongruence ==
    ASSUME NEW s, Due(s), NEW r, r.common = s.common, r.timeheap = s.timeheap,
           r.ev_timeout = s.ev_timeout, ActiveSet(s) \subseteq ActiveSet(r)
    PROVE  Due(r)
BY DEF Due

(* Setting a timeout is a call. *)
LEMMA TimedIsCall ==
    ASSUME NEW s, NEW r, Good(r), NEW e, NEW d, TimedAt(s, r, e, d), NEW t, Quiet(s, r, t)
    PROVE  GoodCall(s, r, t)
BY DEF TimedAt, GoodCall, Touches, Api, Notified

(* AddTimeout, with the interval and the time it computes. *)
Interval(s, e, tv, absolute) ==
    IF IsPersistent(e) /\ e \notin Signals /\ ~absolute
    THEN [s EXCEPT !.ev_io_timeout[e] = tv] ELSE s
FiringAt(s, tv, absolute) == IF absolute THEN tv ELSE gettime(s) + tv

(* The interval of a persistent event is remembered. *)
LEMMA IntervalIs ==
    ASSUME NEW s, Good(s), NEW e \in Events \ Sockets, NEW tv \in Int, NEW absolute, NEW t, clock \in Int
    PROVE  /\ GoodCall(s, Interval(s, e, tv, absolute), t)
           /\ Touches(s, Interval(s, e, tv, absolute), {"ev_io_timeout"})
           /\ FiringAt(Interval(s, e, tv, absolute), tv, absolute) \in Int
<1> DEFINE r == Interval(s, e, tv, absolute)
<1>1. Touches(s, r, {"ev_io_timeout"})
  BY DEF Interval, Touches
<1>2. IntervalInv(r)
  <2>1. s.ev_io_timeout \in [Events -> Int] /\ (\A x \in Sockets : s.ev_io_timeout[x] = 0) /\ "ev_io_timeout" \in DOMAIN s
    BY FieldNames DEF Good, IntervalInv
  <2>2. r.ev_io_timeout = s.ev_io_timeout \/ r.ev_io_timeout = [s.ev_io_timeout EXCEPT ![e] = tv]
    BY <2>1 DEF Interval
  <2> HIDE DEF r
  <2> QED BY <2>1, <2>2, EventKinds DEF IntervalInv
<1> HIDE DEF r
<1>3. Touches(s, r, Harmless \cup {"ev_io_timeout"})
  BY <1>1 DEF Touches
<1>4. Good(r)
  BY <1>2, <1>3, IntervalChanges
<1>5. Touches(s, r, Api)
  BY <1>1 DEF Touches, Api
<1>6. Quiet(s, r, t)
  BY <1>1, FieldNames DEF Touches, Good, Quiet
<1>7. r.tv_cache \in Int
  BY <1>4 DEF Good, LoopInv
<1>8. FiringAt(r, tv, absolute) \in Int
  BY <1>7 DEF FiringAt, gettime
<1> QED BY <1>1, <1>4, <1>5, <1>6, <1>8 DEF GoodCall, r

(* A timeout is added, with the timer of the common list. *)
LEMMA AddTimeoutIs ==
    ASSUME NEW s, Good(s), NEW e \in Events \ Sockets, e # "ctl_timeout",
           NEW tv \in Int, NEW absolute, NEW t, clock \in Int
    PROVE  /\ GoodCall(s, AddTimeout(s, e, tv, absolute, t), t)
           /\ Due(s) => Due(AddTimeout(s, e, tv, absolute, t))
           /\ AddTimeout(s, e, tv, absolute, t).inserted = s.inserted
<1> DEFINE s1 == Interval(s, e, tv, absolute)
           d == FiringAt(s1, tv, absolute)
           s2 == SetTimeout(s1, e, d, t)
           r == AddTimeout(s, e, tv, absolute, t)
<1>0. r = IF e \in Commons /\ Head(s2.common) = e THEN ScheduleCommon(s2, t) ELSE s2
  BY DEF AddTimeout, Interval, FiringAt
<1>1. GoodCall(s, s1, t) /\ d \in Int /\ Touches(s, s1, {"ev_io_timeout"})
  BY IntervalIs
<1> HIDE DEF s1, d, r
<1>2. Good(s1)
  BY <1>1 DEF GoodCall
<1>3. /\ s1.common = s.common /\ s1.timeheap = s.timeheap /\ s1.ev_timeout = s.ev_timeout
      /\ s1.activequeues = s.activequeues /\ s1.inserted = s.inserted
  BY <1>1, FieldNames DEF Touches, Good
<1>4. Due(s) => Due(s1)
  BY <1>3, DueCongruence DEF ActiveSet
<1>5. Good(s2) /\ TimedAt(s1, s2, e, d) /\ Quiet(s1, s2, t)
  BY <1>1, <1>2, SetTimeoutSets
<1> HIDE DEF s2
<1>6. GoodCall(s1, s2, t)
  BY <1>5, TimedIsCall
<1>7. GoodCall(s, s2, t)
  BY <1>1, <1>6, CallTwice
<1>i. s2.inserted = s.inserted
  BY <1>3, <1>5, <1>2, FieldNames DEF TimedAt, Touches, Good, Notified
<1>8. CASE e \notin Commons
  <2>1. r = s2
    BY <1>0, <1>8
  <2>2. Due(s) => Due(s2)
    BY <1>2, <1>4, <1>5, <1>8, OtherTimeoutIsDue
  <2> QED BY <2>1, <2>2, <1>7, <1>i DEF r
<1>9. CASE e \in Commons
  <2>0. /\ ToSet(s2.common) = ToSet(s1.common) \cup {e}
        /\ ToSet(s2.timeheap) = ToSet(s1.timeheap)
        /\ s2.ev_timeout = [s1.ev_timeout EXCEPT ![e] = d]
        /\ ActiveSet(s1) \ {e} \subseteq ActiveSet(s2)
    BY <1>5, <1>9 DEF TimedAt
  <2>1. s2.common # <<>>
    BY <2>0, <1>5, CommonEmpty
  <2>2. CASE Head(s2.common) = e
    <3>1. r = ScheduleCommon(s2, t)
      BY <1>0, <1>9, <2>2
    <3> DEFINE c == "ctl_timeout"
               d2 == s2.ev_timeout[Head(s2.common)]
    <3>2. Good(r) /\ Due(r) /\ TimedAt(s2, r, c, d2) /\ Quiet(s2, r, t)
      BY <3>1, <2>1, <1>5, ScheduleCommonIs
    <3> HIDE DEF c, d2
    <3>3. GoodCall(s2, r, t)
      BY <3>2, TimedIsCall
    <3>4. GoodCall(s, r, t)
      BY <3>3, <1>7, CallTwice
    <3>5. r.inserted = s.inserted
      BY <1>i, <3>2, <1>5, FieldNames DEF TimedAt, Touches, Good, Notified
    <3> QED BY <3>2, <3>4, <3>5 DEF r
  <2>4. CASE Head(s2.common) # e /\ ~Due(s)
    <3>1. r = s2
      BY <1>0, <2>4
    <3> QED BY <3>1, <2>4, <1>7, <1>i DEF r
  <2>3. CASE Head(s2.common) # e /\ Due(s)
    <3>1. r = s2
      BY <1>0, <2>3
    <3> DEFINE c == "ctl_timeout"
               h == Head(s2.common)
    <3>2. /\ h \in ToSet(s2.common) /\ \A x \in ToSet(s2.common) : s2.ev_timeout[h] <= s2.ev_timeout[x]
          /\ h \in Commons
      BY <2>1, <1>5, CommonHead
    <3>3. h \in ToSet(s1.common)
      BY <3>2, <2>0, <2>3
    <3>k. /\ s1.ev_timeout \in [Events -> Int] /\ s2.ev_timeout \in [Events -> Int] /\ c \in Events
          /\ ToSet(s2.common) \subseteq Commons /\ Commons \subseteq Events
      BY <1>2, <1>5, EventKinds, TimeoutsAre DEF Good, TimeInv
    <3>4. \/ c \in ToSet(s1.timeheap) /\ s1.ev_timeout[c] <= s1.ev_timeout[h]
          \/ c \in ActiveSet(s1)
      BY <3>3, <1>4, <2>3 DEF Due
    <3>5. /\ c # e /\ s2.ev_timeout[c] = s1.ev_timeout[c]
          /\ s2.ev_timeout[h] = s1.ev_timeout[h]
      BY <2>0, <2>3, <3>k, <3>2
    <3> HIDE DEF c, h
    <3>6. CASE c \in ActiveSet(s1)
      <4>1. c \in ActiveSet(s2)
        BY <3>6, <3>5, <2>0
      <4>2. Due(s2)
        BY <4>1 DEF Due, c
      <4> QED BY <4>2, <3>1, <1>7, <1>i DEF r
    <3>7. CASE c \in ToSet(s1.timeheap) /\ s1.ev_timeout[c] <= s1.ev_timeout[h]
      <4>1. c \in ToSet(s2.timeheap) /\ s2.ev_timeout[c] <= s2.ev_timeout[h]
        BY <3>5, <3>7, <2>0
      <4>2. \A x \in ToSet(s2.common) : s2.ev_timeout[c] <= s2.ev_timeout[x]
        <5> TAKE x \in ToSet(s2.common)
        <5>1. /\ s2.ev_timeout[x] \in Int /\ s2.ev_timeout[h] \in Int /\ s2.ev_timeout[c] \in Int
              /\ s2.ev_timeout[h] <= s2.ev_timeout[x]
          BY <3>k, <3>2
        <5> QED BY <5>1, <4>1
      <4>3. Due(s2)
        BY <4>1, <4>2 DEF Due, c
      <4> QED BY <4>3, <3>1, <1>7, <1>i DEF r
    <3> QED BY <3>4, <3>6, <3>7
  <2> QED BY <2>2, <2>3, <2>4
<1> QED BY <1>8, <1>9

(* Insert and Uninsert, before they notify. *)
Joins(s, e, t) ==
    \E r : /\ Good(r) /\ Touches(s, r, {"inserted", "io"}) /\ r.inserted = s.inserted \cup {e}
          /\ Insert(s, e, t) = NotifyIf(r, e \in Signals \/ Added(s.io, ev_fd(e), ev_events(e)) # {}, t)
Parts(s, e, t) ==
    \E r : /\ Good(r) /\ Touches(s, r, {"inserted", "io"}) /\ r.inserted = s.inserted \ {e}
          /\ Uninsert(s, e, t) = NotifyIf(r, e \in Signals \/ Removed(s.io, ev_fd(e), ev_events(e)) # {}, t)

(* An event joins its descriptor or its signal. *)
LEMMA InsertIs ==
    ASSUME NEW s, Good(s), NEW e \in (IoEvents \cup Signals) \ s.inserted, NEW t
    PROVE  /\ Good(Insert(s, e, t)) /\ Insert(s, e, t).inserted = s.inserted \cup {e}
           /\ Touches(s, Insert(s, e, t), {"inserted", "io"} \cup Notified)
           /\ Quiet(s, Insert(s, e, t), t) /\ Joins(s, e, t)
<1> DEFINE s1 == [s EXCEPT !.inserted = @ \cup {e}]
           s2 == [s1 EXCEPT !.io = evmap_io_add(@, ev_fd(e), e, ev_events(e))]
           s3 == IF e \in Signals THEN s1 ELSE s2
           needed == e \in Signals \/ Added(s.io, ev_fd(e), ev_events(e)) # {}
           r == Insert(s, e, t)
<1>0. /\ "inserted" \in DOMAIN s /\ "io" \in DOMAIN s
      /\ s.inserted \in SUBSET (IoEvents \cup Signals) /\ MapIs(s.io, s.inserted \cap IoEvents)
  BY FieldNames DEF Good, MapInv
<1>1. r = NotifyIf(s3, needed, t)
  <2>1. CASE e \in Signals
    BY <2>1 DEF Insert, NotifyIf
  <2>2. CASE e \notin Signals
    BY <2>2 DEF Insert, NotifyIf
  <2> QED BY <2>1, <2>2
<1>2. /\ Touches(s, s3, {"inserted", "io"}) /\ s3.inserted = s.inserted \cup {e}
      /\ s3.io = IF e \in Signals THEN s.io ELSE evmap_io_add(s.io, ev_fd(e), e, ev_events(e))
  BY <1>0 DEF Touches
<1> HIDE DEF s1, s2, s3, needed, r
<1>3. MapInv(s3)
  <2>1. CASE e \in Signals
    <3>1. s3.inserted \cap IoEvents = s.inserted \cap IoEvents
      BY <1>2, <2>1, EventKinds
    <3> QED BY <1>0, <1>2, <2>1, <3>1 DEF MapInv
  <2>2. CASE e \notin Signals
    <3> DEFINE on == s.inserted \cap IoEvents
               io == s.io
    <3>1. e \in IoEvents /\ e \notin on /\ on \in SUBSET IoEvents /\ MapIs(io, on)
      BY <1>0, <2>2
    <3>2. s3.inserted \cap IoEvents = on \cup {e} /\ s3.io = evmap_io_add(io, ev_fd(e), e, ev_events(e))
      BY <1>2, <2>2
    <3> HIDE DEF on, io
    <3>3. MapIs(evmap_io_add(io, ev_fd(e), e, ev_events(e)), on \cup {e})
      BY <3>1, MapAdd
    <3>4. s3.inserted \in SUBSET (IoEvents \cup Signals)
      BY <1>0, <1>2
    <3> QED BY <3>2, <3>3, <3>4 DEF MapInv
  <2> QED BY <2>1, <2>2
<1>4. Touches(s, s3, Harmless \cup {"inserted", "io"})
  BY <1>2 DEF Touches
<1>5. Good(s3)
  BY <1>3, <1>4, MapChanges
<1>6. Good(r) /\ Touches(s3, r, Notified) /\ Quiet(s3, r, t)
  BY <1>1, <1>5, NotifyIfIs
<1>7. Touches(s, r, {"inserted", "io"} \cup Notified)
  BY <1>2, <1>6 DEF Touches
<1>8. r.inserted = s3.inserted
  BY <1>6, <1>5, FieldNames DEF Touches, Good, Notified
<1>9. s3.is_notify_pending = s.is_notify_pending /\ s3.notify_byte = s.notify_byte
  BY <1>2, FieldNames DEF Touches, Good
<1>10. Quiet(s, r, t)
  BY <1>6, <1>9 DEF Quiet
<1>11. Joins(s, e, t)
  BY <1>1, <1>2, <1>5 DEF Joins, needed, r
<1> QED BY <1>2, <1>6, <1>7, <1>8, <1>10, <1>11 DEF r

(* An event leaves its descriptor or its signal. *)
LEMMA UninsertIs ==
    ASSUME NEW s, Good(s), NEW e \in s.inserted, NEW t
    PROVE  /\ Good(Uninsert(s, e, t)) /\ Uninsert(s, e, t).inserted = s.inserted \ {e}
           /\ Touches(s, Uninsert(s, e, t), {"inserted", "io"} \cup Notified)
           /\ Quiet(s, Uninsert(s, e, t), t) /\ Parts(s, e, t)
<1> DEFINE s1 == [s EXCEPT !.inserted = @ \ {e}]
           s2 == [s1 EXCEPT !.io = evmap_io_del(@, ev_fd(e), e, ev_events(e))]
           s3 == IF e \in Signals THEN s1 ELSE s2
           needed == e \in Signals \/ Removed(s.io, ev_fd(e), ev_events(e)) # {}
           r == Uninsert(s, e, t)
<1>0. /\ "inserted" \in DOMAIN s /\ "io" \in DOMAIN s
      /\ s.inserted \in SUBSET (IoEvents \cup Signals) /\ MapIs(s.io, s.inserted \cap IoEvents)
  BY FieldNames DEF Good, MapInv
<1>1. r = NotifyIf(s3, needed, t)
  <2>1. CASE e \in Signals
    BY <2>1 DEF Uninsert, NotifyIf
  <2>2. CASE e \notin Signals
    BY <2>2 DEF Uninsert, NotifyIf
  <2> QED BY <2>1, <2>2
<1>2. /\ Touches(s, s3, {"inserted", "io"}) /\ s3.inserted = s.inserted \ {e}
      /\ s3.io = IF e \in Signals THEN s.io ELSE evmap_io_del(s.io, ev_fd(e), e, ev_events(e))
  BY <1>0 DEF Touches
<1> HIDE DEF s1, s2, s3, needed, r
<1>3. MapInv(s3)
  <2>1. CASE e \in Signals
    <3>1. s3.inserted \cap IoEvents = s.inserted \cap IoEvents
      BY <1>2, <2>1, EventKinds
    <3> QED BY <1>0, <1>2, <2>1, <3>1 DEF MapInv
  <2>2. CASE e \notin Signals
    <3> DEFINE on == s.inserted \cap IoEvents
               io == s.io
    <3>1. e \in on /\ on \in SUBSET IoEvents /\ MapIs(io, on)
      BY <1>0, <2>2
    <3>2. s3.inserted \cap IoEvents = on \ {e} /\ s3.io = evmap_io_del(io, ev_fd(e), e, ev_events(e))
      BY <1>2, <2>2
    <3> HIDE DEF on, io
    <3>3. MapIs(evmap_io_del(io, ev_fd(e), e, ev_events(e)), on \ {e})
      BY <3>1, MapDel
    <3>4. s3.inserted \in SUBSET (IoEvents \cup Signals)
      BY <1>0, <1>2
    <3> QED BY <3>2, <3>3, <3>4 DEF MapInv
  <2> QED BY <2>1, <2>2
<1>4. Touches(s, s3, Harmless \cup {"inserted", "io"})
  BY <1>2 DEF Touches
<1>5. Good(s3)
  BY <1>3, <1>4, MapChanges
<1>6. Good(r) /\ Touches(s3, r, Notified) /\ Quiet(s3, r, t)
  BY <1>1, <1>5, NotifyIfIs
<1>7. Touches(s, r, {"inserted", "io"} \cup Notified)
  BY <1>2, <1>6 DEF Touches
<1>8. r.inserted = s3.inserted
  BY <1>6, <1>5, FieldNames DEF Touches, Good, Notified
<1>9. s3.is_notify_pending = s.is_notify_pending /\ s3.notify_byte = s.notify_byte
  BY <1>2, FieldNames DEF Touches, Good
<1>10. Quiet(s, r, t)
  BY <1>6, <1>9 DEF Quiet
<1>11. Parts(s, e, t)
  BY <1>1, <1>2, <1>5 DEF Parts, needed, r
<1> QED BY <1>2, <1>6, <1>7, <1>8, <1>10, <1>11 DEF r

-----------------------------------------------------------------------------
(* event_add, event_del and event_active.                                  *)

(* The registration part of event_add_internal. *)
LEMMA RegisterIs ==
    ASSUME NEW s, Good(s), NEW e, NEW t
    PROVE  /\ Good(Register(s, e, t)) /\ s.inserted \subseteq Register(s, e, t).inserted
           /\ Touches(s, Register(s, e, t), {"inserted", "io"} \cup Notified)
           /\ Quiet(s, Register(s, e, t), t)
<1> DEFINE sig == "ev_signal"
           s1 == IF e \in Signals /\ sig \notin s.inserted THEN Insert(s, sig, t) ELSE s
           r == Register(s, e, t)
<1>1. CASE e \notin IoEvents \cup Signals \/ e \in s.inserted \/ IsActive(s, e)
  <2>1. r = s
    BY <1>1 DEF Register
  <2> QED BY <2>1 DEF Touches, Quiet
<1>2. CASE ~(e \notin IoEvents \cup Signals \/ e \in s.inserted \/ IsActive(s, e))
  <2>1. r = Insert(s1, e, t)
    BY <1>2 DEF Register
  <2>2. sig \in IoEvents /\ sig \notin Signals
    BY EventKinds DEF Sockets
  <2> HIDE DEF sig, r
  <2>3. /\ Good(s1) /\ s1.inserted \in {s.inserted, s.inserted \cup {sig}}
        /\ e \in Signals \/ s1.inserted = s.inserted
        /\ Touches(s, s1, {"inserted", "io"} \cup Notified) /\ Quiet(s, s1, t)
    <3>1. CASE e \in Signals /\ sig \notin s.inserted
      <4>1. s1 = Insert(s, sig, t)
        BY <3>1
      <4> HIDE DEF s1
      <4>2. sig \in (IoEvents \cup Signals) \ s.inserted
        BY <2>2, <3>1
      <4>3. /\ Good(s1) /\ s1.inserted = s.inserted \cup {sig}
            /\ Touches(s, s1, {"inserted", "io"} \cup Notified) /\ Quiet(s, s1, t)
        BY <4>1, <4>2, InsertIs
      <4> QED BY <4>3, <3>1
    <3>2. CASE ~(e \in Signals /\ sig \notin s.inserted)
      <4>1. s1 = s
        BY <3>2
      <4> QED BY <4>1 DEF Touches, Quiet
    <3> QED BY <3>1, <3>2
  <2> HIDE DEF s1
  <2>4. e \in (IoEvents \cup Signals) \ s1.inserted
    BY <1>2, <2>2, <2>3
  <2>5. /\ Good(r) /\ r.inserted = s1.inserted \cup {e}
        /\ Touches(s1, r, {"inserted", "io"} \cup Notified) /\ Quiet(s1, r, t)
    BY <2>1, <2>3, <2>4, InsertIs
  <2>6. Touches(s, r, {"inserted", "io"} \cup Notified)
    BY <2>3, <2>5, TouchesTwice
  <2>7. Quiet(s, r, t)
    BY <2>3, <2>5 DEF Quiet
  <2>8. s.inserted \subseteq r.inserted
    BY <2>3, <2>5
  <2> QED BY <2>5, <2>6, <2>7, <2>8 DEF r
<1> QED BY <1>1, <1>2

(* event_add_internal. *)
LEMMA AddIs ==
    ASSUME NEW s, Good(s), NEW e \in Events, e # "ctl_timeout", NEW tv \in Int,
           tv = -1 \/ e \notin Sockets, NEW absolute, NEW t, clock \in Int
    PROVE  /\ GoodCall(s, event_add_internal(s, e, tv, absolute, t), t)
           /\ Due(s) => Due(event_add_internal(s, e, tv, absolute, t))
           /\ s.inserted \subseteq event_add_internal(s, e, tv, absolute, t).inserted
<1> DEFINE s1 == Register(s, e, t)
           r == event_add_internal(s, e, tv, absolute, t)
<1>0. r = IF tv = -1 THEN s1 ELSE AddTimeout(s1, e, tv, absolute, t)
  BY DEF event_add_internal
<1>1. /\ Good(s1) /\ s.inserted \subseteq s1.inserted
      /\ Touches(s, s1, {"inserted", "io"} \cup Notified) /\ Quiet(s, s1, t)
  BY RegisterIs
<1> HIDE DEF s1, r
<1>2. GoodCall(s, s1, t)
  BY <1>1 DEF GoodCall, Touches, Api, Notified
<1>3. Due(s) => Due(s1)
  <2>1. /\ s1.common = s.common /\ s1.timeheap = s.timeheap /\ s1.ev_timeout = s.ev_timeout
        /\ s1.activequeues = s.activequeues
    BY <1>1, FieldNames DEF Touches, Good, Notified
  <2> QED BY <2>1, DueCongruence DEF ActiveSet
<1>4. CASE tv = -1
  <2>1. r = s1
    BY <1>0, <1>4
  <2> QED BY <2>1, <1>1, <1>2, <1>3 DEF r
<1>5. CASE tv # -1
  <2>1. r = AddTimeout(s1, e, tv, absolute, t) /\ e \in Events \ Sockets
    BY <1>0, <1>5
  <2>2. GoodCall(s1, r, t) /\ (Due(s1) => Due(r)) /\ r.inserted = s1.inserted
    BY <2>1, <1>1, AddTimeoutIs
  <2>3. GoodCall(s, r, t)
    BY <2>2, <1>2, CallTwice
  <2> QED BY <2>2, <2>3, <1>1, <1>3 DEF r
<1> QED BY <1>4, <1>5

(* e is in no queue any more, and nothing else has changed. *)
Deleted(s, r, e) ==
    /\ Touches(s, r, {"timeheap", "common", "activequeues", "ncalls", "stray", "inserted", "io"} \cup Notified)
    /\ ToSet(r.timeheap) = ToSet(s.timeheap) \ {e}
    /\ ToSet(r.common) = ToSet(s.common) \ {e}
    /\ ActiveSet(r) = ActiveSet(s) \ {e}
    /\ r.inserted = s.inserted \ {e}

(* event_del_internal before it takes the event from its descriptor. *)
Unqueued(s, e) ==
    LET s1 == AbortCalls(s, e)
        s2 == IF HasTimeout(s1, e) THEN RemoveTimeout(s1, e) ELSE s1
    IN  RemoveActive(s2, e)

(* The event is in none of the queues. *)
LEMMA UnqueuedIs ==
    ASSUME NEW s, Good(s), NEW e \in Events
    PROVE  /\ Good(Unqueued(s, e))
           /\ Touches(s, Unqueued(s, e), {"timeheap", "common", "activequeues", "ncalls", "stray"})
           /\ ToSet(Unqueued(s, e).timeheap) = ToSet(s.timeheap) \ {e}
           /\ ToSet(Unqueued(s, e).common) = ToSet(s.common) \ {e}
           /\ ActiveSet(Unqueued(s, e)) = ActiveSet(s) \ {e}
<1> DEFINE s1 == AbortCalls(s, e)
           s2 == IF HasTimeout(s1, e) THEN RemoveTimeout(s1, e) ELSE s1
           r == RemoveActive(s2, e)
<1>1. Good(s1) /\ Touches(s, s1, {"ncalls", "stray"})
  BY AbortCallsIs
<1> HIDE DEF s1
<1>2. /\ s1.common = s.common /\ s1.timeheap = s.timeheap
      /\ s1.activequeues = s.activequeues
  BY <1>1, FieldNames DEF Touches, Good
<1>3. /\ Good(s2) /\ Touches(s1, s2, {"timeheap", "common"})
      /\ ToSet(s2.timeheap) = ToSet(s1.timeheap) \ {e}
      /\ ToSet(s2.common) = ToSet(s1.common) \ {e}
  <2>1. CASE HasTimeout(s1, e)
    BY <2>1, <1>1, RemoveTimeoutIs
  <2>2. CASE ~HasTimeout(s1, e)
    <3>1. e \notin ToSet(s1.timeheap) /\ e \notin ToSet(s1.common)
      BY <2>2, <1>1, TimeoutsAre
    <3>2. s2 = s1
      BY <2>2
    <3> QED BY <3>1, <3>2, <1>1 DEF Touches
  <2> QED BY <2>1, <2>2
<1> HIDE DEF s2
<1>4. s2.activequeues = s1.activequeues
  BY <1>1, <1>3, FieldNames DEF Touches, Good
<1>5. Good(r) /\ Touches(s2, r, {"activequeues"}) /\ ActiveSet(r) = ActiveSet(s2) \ {e}
  BY <1>3, RemoveActiveIs
<1> HIDE DEF r
<1>6. r.timeheap = s2.timeheap /\ r.common = s2.common
  BY <1>3, <1>5, FieldNames DEF Touches, Good
<1>7. ActiveSet(r) = ActiveSet(s) \ {e}
  BY <1>2, <1>4, <1>5 DEF ActiveSet
<1>8. Touches(s, r, {"timeheap", "common", "activequeues", "ncalls", "stray"})
  BY <1>1, <1>3, <1>5 DEF Touches
<1>9. Unqueued(s, e) = r
  BY DEF Unqueued, r, s2, s1
<1> QED BY <1>2, <1>3, <1>5, <1>6, <1>7, <1>8, <1>9

(* event_del_internal. *)
LEMMA DelIs ==
    ASSUME NEW s, Good(s), NEW e \in Events, NEW t
    PROVE  /\ GoodCall(s, event_del_internal(s, e, t), t)
           /\ Deleted(s, event_del_internal(s, e, t), e)
           /\ Due(s) /\ e # "ctl_timeout" => Due(event_del_internal(s, e, t))
<1> DEFINE u == Unqueued(s, e)
           r == event_del_internal(s, e, t)
<1>0. r = IF e \in u.inserted THEN Uninsert(u, e, t) ELSE u
  BY DEF event_del_internal, Unqueued
<1>1. /\ Good(u) /\ Touches(s, u, {"timeheap", "common", "activequeues", "ncalls", "stray"})
      /\ ToSet(u.timeheap) = ToSet(s.timeheap) \ {e}
      /\ ToSet(u.common) = ToSet(s.common) \ {e}
      /\ ActiveSet(u) = ActiveSet(s) \ {e}
  BY UnqueuedIs
<1> HIDE DEF u, r
<1>2. /\ u.inserted = s.inserted /\ u.ev_timeout = s.ev_timeout
      /\ u.is_notify_pending = s.is_notify_pending /\ u.notify_byte = s.notify_byte
  BY <1>1, FieldNames DEF Touches, Good
<1>3. /\ Good(r) /\ Touches(u, r, {"inserted", "io"} \cup Notified) /\ r.inserted = u.inserted \ {e}
      /\ Quiet(u, r, t)
  <2>1. CASE e \in u.inserted
    <3>1. r = Uninsert(u, e, t)
      BY <1>0, <2>1
    <3> QED BY <3>1, <2>1, <1>1, UninsertIs
  <2>2. CASE e \notin u.inserted
    <3>1. r = u
      BY <1>0, <2>2
    <3> QED BY <3>1, <1>1, <2>2 DEF Touches, Quiet
  <2> QED BY <2>1, <2>2
<1>4. /\ r.timeheap = u.timeheap /\ r.common = u.common /\ r.ev_timeout = u.ev_timeout
      /\ r.activequeues = u.activequeues
  BY <1>1, <1>3, FieldNames DEF Touches, Good, Notified
<1>5. ActiveSet(r) = ActiveSet(u)
  BY <1>4 DEF ActiveSet
<1>6. Touches(s, r, {"timeheap", "common", "activequeues", "ncalls", "stray", "inserted", "io"} \cup Notified)
  BY <1>1, <1>3 DEF Touches
<1>7. Deleted(s, r, e)
  BY <1>1, <1>2, <1>3, <1>4, <1>5, <1>6 DEF Deleted
<1>8. GoodCall(s, r, t)
  <2>1. Touches(s, r, Api)
    BY <1>6 DEF Touches, Api, Notified
  <2>2. Quiet(s, r, t)
    BY <1>2, <1>3 DEF Quiet
  <2> QED BY <2>1, <2>2, <1>3 DEF GoodCall
<1>9. ASSUME Due(s), e # "ctl_timeout" PROVE Due(r)
  BY <1>1, <1>2, <1>4, <1>5, <1>9 DEF Due
<1> QED BY <1>7, <1>8, <1>9 DEF r

(* e is active, and in no other queue than before. *)
Activated(s, r, e) ==
    /\ Touches(s, r, {"activequeues", "ev_res", "event_continue", "ev_ncalls", "ev_pncalls"} \cup Notified)
    /\ ActiveSet(r) = ActiveSet(s) \cup {e}

(* An event that becomes active does not delay a common timeout. *)
LEMMA ActivatedIsDue ==
    ASSUME NEW s, DOMAIN s = Fields, NEW r, NEW e, Activated(s, r, e), Due(s)
    PROVE  Due(r)
<1>1. r.common = s.common /\ r.timeheap = s.timeheap /\ r.ev_timeout = s.ev_timeout
  BY FieldNames DEF Activated, Touches, Notified
<1>2. ActiveSet(s) \subseteq ActiveSet(r)
  BY DEF Activated
<1> QED BY <1>1, <1>2, DueCongruence

(* The result of an event is noted. *)
LEMMA MarkResultIs ==
    ASSUME NEW s, Good(s), NEW e, NEW res
    PROVE  /\ Good(MarkResult(s, e, res)) /\ Touches(s, MarkResult(s, e, res), {"ev_res", "event_continue"})
<1>1. Touches(s, MarkResult(s, e, res), {"ev_res", "event_continue"})
  BY DEF MarkResult, Touches
<1>2. Touches(s, MarkResult(s, e, res), Harmless)
  BY <1>1 DEF Touches, Harmless
<1> QED BY <1>1, <1>2, HarmlessIsGood

(* The second half of event_active_nolock. *)
LEMMA QueueActiveIs ==
    ASSUME NEW s, Good(s), NEW e \in Events, NEW calls, NEW t
    PROVE  /\ GoodCall(s, QueueActive(s, e, calls, t), t)
           /\ Activated(s, QueueActive(s, e, calls, t), e)
<1> DEFINE s1 == IF e \in Signals
                 THEN [s EXCEPT !.ev_ncalls[e] = calls, !.ev_pncalls[e] = FALSE] ELSE s
           s2 == InsertActive(s1, e)
           r == QueueActive(s, e, calls, t)
           yes == TRUE
<1>0. r = NotifyIf(s2, yes, t)
  BY DEF QueueActive
<1>1. Touches(s, s1, {"ev_ncalls", "ev_pncalls"})
  BY DEF Touches
<1> HIDE DEF s1, r, yes
<1>2. Good(s1)
  <2>1. Touches(s, s1, Harmless)
    BY <1>1 DEF Touches, Harmless
  <2> QED BY <2>1, HarmlessIsGood
<1>3. Good(s2) /\ Touches(s1, s2, {"activequeues"}) /\ ActiveSet(s2) = ActiveSet(s1) \cup {e}
  BY <1>2, InsertActiveIs
<1> HIDE DEF s2
<1>4. Good(r) /\ Touches(s2, r, Notified) /\ Quiet(s2, r, t)
  BY <1>0, <1>3, NotifyIfIs
<1>5. /\ s1.activequeues = s.activequeues /\ r.activequeues = s2.activequeues
      /\ s2.is_notify_pending = s.is_notify_pending /\ s2.notify_byte = s.notify_byte
  BY <1>1, <1>2, <1>3, <1>4, FieldNames DEF Touches, Good, Notified
<1>6. ActiveSet(r) = ActiveSet(s) \cup {e}
  BY <1>3, <1>5 DEF ActiveSet
<1>7. Touches(s, r, {"activequeues", "ev_res", "event_continue", "ev_ncalls", "ev_pncalls"} \cup Notified)
  BY <1>1, <1>3, <1>4 DEF Touches
<1>8. Touches(s, r, Api)
  BY <1>7 DEF Touches, Api, Notified
<1>9. Quiet(s, r, t)
  BY <1>4, <1>5 DEF Quiet
<1> QED BY <1>4, <1>6, <1>7, <1>8, <1>9 DEF Activated, GoodCall, r

(* event_active_nolock. *)
LEMMA ActiveIs ==
    ASSUME NEW s, Good(s), NEW e \in Events, NEW res, NEW calls, NEW t
    PROVE  /\ GoodCall(s, event_active_nolock(s, e, res, calls, t), t)
           /\ Activated(s, event_active_nolock(s, e, res, calls, t), e)
<1> DEFINE r == event_active_nolock(s, e, res, calls, t)
           m == MarkResult(s, e, res)
<1>s. IsActive(s, e) <=> e \in ActiveSet(s)
  BY ActiveSetIs
<1>1. CASE IsActive(s, e)
  <2>1. r = [s EXCEPT !.ev_res[e] = @ \cup {res}]
    BY <1>1 DEF event_active_nolock
  <2>2. Touches(s, r, {"ev_res"})
    BY <2>1 DEF Touches
  <2> HIDE DEF r
  <2>3. Touches(s, r, Harmless)
    BY <2>2 DEF Touches, Harmless
  <2>4. Good(r)
    BY <2>3, HarmlessIsGood
  <2>5. /\ r.activequeues = s.activequeues
        /\ r.is_notify_pending = s.is_notify_pending /\ r.notify_byte = s.notify_byte
    BY <2>2, FieldNames DEF Touches, Good
  <2>6. ActiveSet(r) = ActiveSet(s) \cup {e}
    BY <2>5, <1>1, <1>s DEF ActiveSet
  <2>7. Touches(s, r, {"activequeues", "ev_res", "event_continue", "ev_ncalls", "ev_pncalls"} \cup Notified)
    BY <2>2 DEF Touches
  <2>8. Touches(s, r, Api)
    BY <2>2 DEF Touches, Api
  <2> QED BY <2>4, <2>5, <2>6, <2>7, <2>8 DEF Activated, GoodCall, Quiet, r
<1>2. CASE ~IsActive(s, e)
  <2>1. r = QueueActive(m, e, calls, t)
    BY <1>2 DEF event_active_nolock
  <2>2. Good(m) /\ Touches(s, m, {"ev_res", "event_continue"})
    BY MarkResultIs
  <2> HIDE DEF r, m
  <2>3. GoodCall(m, r, t) /\ Activated(m, r, e)
    BY <2>1, <2>2, QueueActiveIs
  <2>4. /\ m.activequeues = s.activequeues
        /\ m.is_notify_pending = s.is_notify_pending /\ m.notify_byte = s.notify_byte
    BY <2>2, FieldNames DEF Touches, Good
  <2>5. Touches(m, r, {"activequeues", "ev_res", "event_continue", "ev_ncalls", "ev_pncalls"} \cup Notified)
    BY <2>3 DEF Activated
  <2>6. Touches(s, r, {"activequeues", "ev_res", "event_continue", "ev_ncalls", "ev_pncalls"} \cup Notified)
    BY <2>2, <2>5 DEF Touches
  <2>7. ActiveSet(r) = ActiveSet(s) \cup {e}
    BY <2>3, <2>4 DEF ActiveSet, Activated
  <2>8. Touches(s, r, Api)
    BY <2>6 DEF Touches, Api, Notified
  <2>9. Quiet(s, r, t)
    BY <2>3, <2>4 DEF Quiet, GoodCall
  <2> QED BY <2>3, <2>6, <2>7, <2>8, <2>9 DEF Activated, GoodCall, r
<1> QED BY <1>1, <1>2

-----------------------------------------------------------------------------
(* What the loop thread does between two releases of the lock.             *)

(* A well-formed base with its notification socket; when due, the list of *)
(* the common timeout is scheduled too.                                   *)
Fit(s, due) == Good(s) /\ "th_notify" \in s.inserted /\ (due => Due(s))

(* The loop thread went from s to r. *)
Went(s, r, due) ==
    /\ Fit(r, due) /\ Touches(s, r, Api)
    /\ r.is_notify_pending = s.is_notify_pending /\ r.notify_byte = s.notify_byte

(* Two such steps. *)
LEMMA WentTwice ==
    ASSUME NEW s, NEW r, NEW u, NEW due, Went(s, r, due), Went(r, u, due)
    PROVE  Went(s, u, due)
BY DEF Went, Touches

(* No step. *)
LEMMA WentNowhere ==
    ASSUME NEW s, NEW due, Fit(s, due)
    PROVE  Went(s, s, due)
BY DEF Went, Touches

(* event_active_nolock by the loop thread. *)
LEMMA ActiveGoes ==
    ASSUME NEW s, NEW due, Fit(s, due), NEW e \in Events, NEW res, NEW calls
    PROVE  Went(s, event_active_nolock(s, e, res, calls, "loop"), due)
<1> DEFINE t == "loop"
           r == event_active_nolock(s, e, res, calls, t)
<1>0. t = "loop" /\ Good(s)
  BY DEF Fit
<1> HIDE DEF t
<1>1. GoodCall(s, r, t) /\ Activated(s, r, e)
  BY <1>0, ActiveIs
<1> HIDE DEF r
<1>2. Due(s) => Due(r)
  BY <1>0, <1>1, ActivatedIsDue DEF Good
<1>3. r.inserted = s.inserted
  BY <1>0, <1>1, FieldNames DEF Activated, Touches, Good, Notified
<1>4. Went(s, r, due)
  BY <1>0, <1>1, <1>2, <1>3 DEF Went, Fit, GoodCall, Quiet
<1> QED BY <1>4 DEF t, r

(* event_del_internal by the loop thread. *)
LEMMA DelGoes ==
    ASSUME NEW s, NEW due, Fit(s, due), NEW e \in Events, e # "th_notify", due => e # "ctl_timeout"
    PROVE  Went(s, event_del_internal(s, e, "loop"), due)
<1> DEFINE t == "loop"
           r == event_del_internal(s, e, t)
<1>0. t = "loop" /\ Good(s)
  BY DEF Fit
<1> HIDE DEF t
<1>1. /\ GoodCall(s, r, t) /\ Deleted(s, r, e)
      /\ Due(s) /\ e # "ctl_timeout" => Due(r)
  BY <1>0, DelIs
<1> HIDE DEF r
<1>2. Went(s, r, due)
  BY <1>0, <1>1 DEF Went, Fit, GoodCall, Quiet, Deleted
<1> QED BY <1>2 DEF t, r

(* event_add_internal by the loop thread. *)
LEMMA AddGoes ==
    ASSUME NEW s, NEW due, Fit(s, due), Due(s), NEW e \in Events, e # "ctl_timeout", NEW tv \in Int,
           tv = -1 \/ e \notin Sockets, NEW absolute, clock \in Int
    PROVE  Went(s, event_add_internal(s, e, tv, absolute, "loop"), due)
<1> DEFINE t == "loop"
           r == event_add_internal(s, e, tv, absolute, t)
<1>0. t = "loop" /\ Good(s)
  BY DEF Fit
<1> HIDE DEF t
<1>1. GoodCall(s, r, t) /\ Due(r) /\ s.inserted \subseteq r.inserted
  BY <1>0, AddIs
<1> HIDE DEF r
<1>2. Went(s, r, due)
  BY <1>0, <1>1 DEF Went, Fit, GoodCall, Quiet
<1> QED BY <1>2 DEF t, r

(* A loop of such steps. *)
LEMMA LoopGoes ==
    ASSUME NEW s, NEW due, Fit(s, due), NEW N \in Nat, NEW f, f[0] = s,
           \A i \in 0..N : i < N /\ Fit(f[i], due) => Went(f[i], f[i + 1], due)
    PROVE  Went(s, f[N], due)
<1> DEFINE P == {i \in 0..N : Went(s, f[i], due)}
<1>1. 0 \in P
  BY WentNowhere
<1>2. ASSUME NEW i \in 0..N, i < N, i \in P PROVE i + 1 \in P
  <2>1. Went(s, f[i], due)
    BY <1>2
  <2>2. Fit(f[i], due)
    BY <2>1 DEF Went
  <2>3. Went(f[i], f[i + 1], due)
    BY <1>2, <2>2
  <2>4. Went(s, f[i + 1], due)
    BY <2>1, <2>3, WentTwice
  <2>5. i + 1 \in 0..N
    BY <1>2
  <2> QED BY <2>4, <2>5
<1>3. 0..N \subseteq P
  <2> HIDE DEF P
  <2> QED BY <1>1, <1>2, UpTo
<1>4. N \in 0..N
  OBVIOUS
<1> QED BY <1>3, <1>4

(* The loop of evsig_cb. *)
LEMMA ActivateAllGoes ==
    ASSUME NEW s, NEW due, Fit(s, due), NEW es \in Seq(Events), NEW res, NEW calls
    PROVE  Went(s, ActivateAll(s, es, res, calls), due)
<1> DEFINE N == Len(es)
<1>1. N \in Nat /\ DOMAIN es = 1..N /\ \A i \in 0..N : i < N => es[i + 1] \in Events
  OBVIOUS
<1> HIDE DEF N
<1>r. PICK f : ActivateRun(f, s, es, N, res, calls)
  BY <1>1, ActivateTurns
<1>2. /\ f[0] = s
      /\ f[N] = ActivateAll(s, es, res, calls)
      /\ \A i \in 0..N : i < N => f[i + 1] = event_active_nolock(f[i], es[i + 1], res, calls[es[i + 1]], "loop")
  BY <1>r DEF ActivateRun
<1>3. \A i \in 0..N : i < N /\ Fit(f[i], due) => Went(f[i], f[i + 1], due)
  BY <1>1, <1>2, ActiveGoes
<1>4. Went(s, f[N], due)
  BY <1>1, <1>2, <1>3, LoopGoes
<1> QED BY <1>2, <1>4

(* evmap_io_active. *)
LEMMA IoActiveGoes ==
    ASSUME NEW s, NEW due, Fit(s, due), NEW fd \in Descriptors, NEW k
    PROVE  Went(s, evmap_io_active(s, fd, k), due)
<1> DEFINE es == s.io.events[fd]
           N == Len(es)
<1>0. es \in Seq(IoEvents)
  BY DEF Fit, Good, MapInv, MapIs, IoType
<1>e. IoEvents \subseteq Events
  BY EventKinds
<1>d. evmap_io_active(s, fd, k) = IoActivate(s, es, k)
  BY DEF evmap_io_active, IoActivate
<1> HIDE DEF es
<1>1. N \in Nat /\ DOMAIN es = 1..N /\ \A i \in 0..N : i < N => es[i + 1] \in IoEvents
  BY <1>0
<1> HIDE DEF N
<1>r. PICK f : IoRun(f, s, es, N, k)
  BY <1>1, IoTurns
<1>2. /\ f[0] = s
      /\ f[N] = evmap_io_active(s, fd, k)
      /\ \A i \in 0..N : i < N => f[i + 1] = IF k \in ev_events(es[i + 1]) THEN event_active_nolock(f[i], es[i + 1], k, 1, "loop") ELSE f[i]
  BY <1>r, <1>d DEF IoRun
<1>3. ASSUME NEW i \in 0..N, i < N, Fit(f[i], due) PROVE Went(f[i], f[i + 1], due)
  <2> DEFINE one == 1
             e == es[i + 1]
  <2>1. f[i + 1] = IF k \in ev_events(e) THEN event_active_nolock(f[i], e, k, one, "loop") ELSE f[i]
    BY <1>2, <1>3
  <2>2. e \in Events
    BY <1>1, <1>3, <1>e
  <2> HIDE DEF one, e
  <2>3. Went(f[i], event_active_nolock(f[i], e, k, one, "loop"), due)
    BY <1>3, <2>2, ActiveGoes
  <2>4. Went(f[i], f[i], due)
    BY <1>3, WentNowhere
  <2> QED BY <2>1, <2>3, <2>4
<1>4. Went(s, f[N], due)
  BY <1>1, <1>2, <1>3, LoopGoes
<1> QED BY <1>2, <1>4

(* The loops of win32_dispatch. *)
LEMMA FdsActiveGo ==
    ASSUME NEW s, NEW due, Fit(s, due), NEW fds \in Seq(Descriptors), NEW k
    PROVE  Went(s, ActivateFds(s, fds, k), due)
<1> DEFINE N == Len(fds)
<1>1. N \in Nat /\ DOMAIN fds = 1..N /\ \A i \in 0..N : i < N => fds[i + 1] \in Descriptors
  OBVIOUS
<1> HIDE DEF N
<1>r. PICK f : FdRun(f, s, fds, N, k)
  BY <1>1, FdTurns
<1>2. /\ f[0] = s
      /\ f[N] = ActivateFds(s, fds, k)
      /\ \A i \in 0..N : i < N => f[i + 1] = evmap_io_active(f[i], fds[i + 1], k)
  BY <1>r DEF FdRun
<1>3. \A i \in 0..N : i < N /\ Fit(f[i], due) => Went(f[i], f[i + 1], due)
  BY <1>1, <1>2, IoActiveGoes
<1>4. Went(s, f[N], due)
  BY <1>1, <1>2, <1>3, LoopGoes
<1> QED BY <1>2, <1>4

(* The head of the heap of timeouts. *)
LEMMA HeapHead ==
    ASSUME NEW s, Good(s), s.timeheap # <<>>
    PROVE  /\ Head(s.timeheap) \in ToSet(s.timeheap) /\ Head(s.timeheap) \in Events \ (Commons \cup Sockets)
           /\ \A x \in ToSet(s.timeheap) : s.ev_timeout[Head(s.timeheap)] <= s.ev_timeout[x]
           /\ s.ev_timeout[Head(s.timeheap)] \in Int
<1> DEFINE h == s.timeheap
           key == s.ev_timeout
<1>1. h \in Seq(Events) /\ IsHeap(h, key) /\ key \in [Events -> Int] /\ h # <<>>
  BY DEF Good, TimeInv, HeapInv
<1>2. ToSet(h) \subseteq Events \ (Commons \cup Sockets)
  BY TimeoutsAre
<1> HIDE DEF h, key
<1>3. /\ Head(h) \in ToSet(h) /\ \A x \in ToSet(h) : key[Head(h)] <= key[x]
  BY <1>1, HeapMin
<1> QED BY <1>1, <1>2, <1>3 DEF h, key

(* event_del followed by event_active, as when a timeout fires. *)
LEMMA FireGoes ==
    ASSUME NEW s, NEW due, Fit(s, due), NEW e \in Events \ Sockets, NEW calls
    PROVE  Went(s, event_active_nolock(event_del_internal(s, e, "loop"), e, "timeout", calls, "loop"), due)
<1> DEFINE t == "loop"
           res == "timeout"
           no == FALSE
           s1 == event_del_internal(s, e, t)
           r == event_active_nolock(s1, e, res, calls, t)
<1>0. t = "loop" /\ Good(s) /\ e \in Events /\ e # "th_notify" /\ no = FALSE
  BY DEF Fit, Sockets
<1> HIDE DEF t, res, no
<1>1. CASE e # "ctl_timeout"
  <2>1. Went(s, s1, due)
    BY <1>0, <1>1, DelGoes
  <2>2. Fit(s1, due)
    BY <2>1 DEF Went
  <2> HIDE DEF s1
  <2>3. Went(s1, r, due)
    BY <1>0, <2>2, ActiveGoes
  <2>4. Went(s, r, due)
    BY <2>1, <2>3, WentTwice
  <2> QED BY <2>4 DEF t, res, r, s1
<1>2. CASE e = "ctl_timeout"
  <2>0. Fit(s, no)
    BY <1>0 DEF Fit
  <2>1. Went(s, s1, no)
    BY <1>0, <2>0, DelGoes
  <2>2. Fit(s1, no) /\ Good(s1)
    BY <2>1 DEF Went, Fit
  <2> HIDE DEF s1
  <2>3. Went(s1, r, no)
    BY <1>0, <2>2, ActiveGoes
  <2>4. Went(s, r, no)
    BY <2>1, <2>3, WentTwice
  <2>5. Activated(s1, r, e)
    BY <2>2, <1>0, ActiveIs
  <2>6. Due(r)
    BY <2>5, <1>2 DEF Activated, Due
  <2>7. Went(s, r, due)
    BY <2>4, <2>6 DEF Went, Fit
  <2> QED BY <2>7 DEF t, res, r, s1
<1> QED BY <1>1, <1>2

(* One turn of timeout_process. *)
LEMMA FireTopGoes ==
    ASSUME NEW s, NEW due, Fit(s, due)
    PROVE  Went(s, FireTop(s), due)
<1>1. CASE s.timeheap = <<>> \/ s.ev_timeout[Head(s.timeheap)] > gettime(s)
  BY <1>1, WentNowhere DEF FireTop
<1>2. CASE ~(s.timeheap = <<>> \/ s.ev_timeout[Head(s.timeheap)] > gettime(s))
  <2> DEFINE e == Head(s.timeheap)
             one == 1
  <2>1. FireTop(s) = event_active_nolock(event_del_internal(s, e, "loop"), e, "timeout", one, "loop")
    BY <1>2 DEF FireTop
  <2>2. e \in Events \ Sockets
    BY <1>2, HeapHead DEF Fit
  <2> HIDE DEF e, one
  <2> QED BY <2>1, <2>2, FireGoes
<1> QED BY <1>1, <1>2

(* One turn of common_timeout_callback. *)
LEMMA FireCommonGoes ==
    ASSUME NEW s, NEW due, Fit(s, due)
    PROVE  Went(s, FireCommon(s), due)
<1>1. CASE s.common = <<>> \/ s.ev_timeout[Head(s.common)] > gettime(s)
  BY <1>1, WentNowhere DEF FireCommon
<1>2. CASE ~(s.common = <<>> \/ s.ev_timeout[Head(s.common)] > gettime(s))
  <2> DEFINE e == Head(s.common)
             one == 1
  <2>1. FireCommon(s) = event_active_nolock(event_del_internal(s, e, "loop"), e, "timeout", one, "loop")
    BY <1>2 DEF FireCommon
  <2>2. e \in Events \ Sockets
    BY <1>2, CommonHead, EventKinds DEF Fit
  <2> HIDE DEF e, one
  <2> QED BY <2>1, <2>2, FireGoes
<1> QED BY <1>1, <1>2

(* timeout_process. *)
LEMMA TimeoutProcessGoes ==
    ASSUME NEW s, NEW due, Fit(s, due)
    PROVE  Went(s, timeout_process(s), due)
<1> DEFINE q == s.timeheap
           N == Len(q)
<1>0. q \in Seq(Events)
  BY DEF Fit, Good, TimeInv, HeapInv
<1>d. timeout_process(s) = FireAll(s, q)
  BY DEF timeout_process, FireAll
<1> HIDE DEF q
<1>1. N \in Nat /\ DOMAIN q = 1..N
  BY <1>0
<1> HIDE DEF N
<1>r. PICK f : FireRun(f, s, q, N)
  BY <1>1, FireTurns
<1>2. /\ f[0] = s
      /\ f[N] = timeout_process(s)
      /\ \A i \in 0..N : i < N => f[i + 1] = FireTop(f[i])
  BY <1>r, <1>d DEF FireRun
<1>3. \A i \in 0..N : i < N /\ Fit(f[i], due) => Went(f[i], f[i + 1], due)
  BY <1>2, FireTopGoes
<1>4. Went(s, f[N], due)
  BY <1>1, <1>2, <1>3, LoopGoes
<1> QED BY <1>2, <1>4

(* The callback of the list leaves it scheduled, also when it was not. *)
LEMMA CommonCallbackGoes ==
    ASSUME NEW s, Fit(s, FALSE)
    PROVE  Went(s, common_timeout_callback(s), TRUE)
<1> DEFINE q == s.common
           N == Len(q)
           no == FALSE
           t == "loop"
           r == common_timeout_callback(s)
<1>0. q \in Seq(Commons) /\ no = FALSE /\ t = "loop" /\ Fit(s, no)
  BY DEF Fit, Good, TimeInv, CommonInv
<1> DEFINE s1 == FireCommons(s, q)
<1>d. r = IF s1.common = <<>> THEN s1 ELSE ScheduleCommon(s1, t)
  BY DEF common_timeout_callback, FireCommons
<1> HIDE DEF q, no, t, r
<1>1. N \in Nat /\ DOMAIN q = 1..N
  BY <1>0
<1> HIDE DEF N
<1>r. PICK f : CommonRun(f, s, q, N)
  BY <1>1, CommonTurns
<1>2. /\ f[0] = s
      /\ f[N] = s1
      /\ \A i \in 0..N : i < N => f[i + 1] = FireCommon(f[i])
  BY <1>r DEF CommonRun
<1> HIDE DEF s1
<1>3. \A i \in 0..N : i < N /\ Fit(f[i], no) => Went(f[i], f[i + 1], no)
  BY <1>2, FireCommonGoes
<1>4. Went(s, s1, no)
  <2>1. Went(s, f[N], no)
    BY <1>0, <1>1, <1>2, <1>3, LoopGoes
  <2> QED BY <2>1, <1>2
<1>5. Good(s1) /\ "th_notify" \in s1.inserted
  BY <1>4 DEF Went, Fit
<1>6. CASE s1.common = <<>>
  <2>1. Due(s1)
    BY <1>5, <1>6, CommonEmpty DEF Due
  <2>2. Went(s, s1, TRUE)
    BY <1>4, <2>1 DEF Went, Fit
  <2> QED BY <2>2, <1>6, <1>d DEF r
<1>7. CASE s1.common # <<>>
  <2>1. r = ScheduleCommon(s1, t)
    BY <1>7, <1>d
  <2> DEFINE c == "ctl_timeout"
             d == s1.ev_timeout[Head(s1.common)]
  <2>2. Good(r) /\ Due(r) /\ TimedAt(s1, r, c, d) /\ Quiet(s1, r, t)
    BY <2>1, <1>5, <1>7, ScheduleCommonIs
  <2> HIDE DEF c, d
  <2>3. GoodCall(s1, r, t)
    BY <2>2, TimedIsCall
  <2>4. r.inserted = s1.inserted
    BY <2>2, <1>5, FieldNames DEF TimedAt, Touches, Good, Notified
  <2>5. Went(s1, r, no)
    BY <2>2, <2>3, <2>4, <1>0, <1>5 DEF Went, Fit, GoodCall, Quiet
  <2>6. Went(s, r, no)
    BY <1>4, <2>5, WentTwice
  <2>7. Went(s, r, TRUE)
    BY <2>2, <2>6 DEF Went, Fit
  <2> QED BY <2>7 DEF r
<1> QED BY <1>6, <1>7

(* Timeouts that all move by the same time keep their order. *)
LEMMA HeapShift ==
    ASSUME NEW h \in Seq(Events), NEW key \in [Events -> Int], NEW new \in [Events -> Int], NEW d \in Int,
           \A x \in ToSet(h) : new[x] = key[x] - d, IsHeap(h, key)
    PROVE  IsHeap(h, new)
<1>1. \A i \in 1..Len(h) : h[i] \in ToSet(h) /\ h[i] \in Events
  BY DEF ToSet
<1>2. ASSUME NEW i \in 2..Len(h) PROVE new[h[Parent(i)]] <= new[h[i]]
  <2>1. i \in Nat /\ i >= 2 /\ i <= Len(h) /\ Len(h) \in Nat
    OBVIOUS
  <2>2. Parent(i) \in Nat /\ Parent(i) >= 1 /\ Parent(i) < i
    BY <2>1, ParentFacts
  <2>3. Parent(i) \in 1..Len(h) /\ i \in 1..Len(h)
    BY <2>1, <2>2
  <2> DEFINE x == h[Parent(i)]
             y == h[i]
  <2>4. x \in ToSet(h) /\ x \in Events /\ y \in ToSet(h) /\ y \in Events
    BY <1>1, <2>3
  <2>5. key[x] <= key[y]
    BY DEF IsHeap
  <2> HIDE DEF x, y
  <2>6. /\ new[x] = key[x] - d /\ new[y] = key[y] - d
        /\ key[x] \in Int /\ key[y] \in Int
    BY <2>4
  <2>7. new[x] <= new[y]
    BY <2>5, <2>6, SMTT(30)
  <2> QED BY <2>7 DEF x, y
<1> QED BY <1>2 DEF IsHeap

(* The common list stays sorted when all times move by the same amount. *)
LEMMA OrderShift ==
    ASSUME NEW q \in Seq(Commons), NEW key \in [Events -> Int], NEW new \in [Events -> Int], NEW d \in Int,
           \A x \in ToSet(q) : new[x] = key[x] - d, InOrder(q, key)
    PROVE  InOrder(q, new)
<1>1. \A i \in 1..Len(q) : q[i] \in ToSet(q) /\ q[i] \in Events
  BY EventKinds DEF ToSet
<1>2. ASSUME NEW i \in 1..Len(q), NEW j \in 1..Len(q), i < j PROVE new[q[i]] <= new[q[j]]
  <2> DEFINE x == q[i]
             y == q[j]
  <2>4. x \in ToSet(q) /\ x \in Events /\ y \in ToSet(q) /\ y \in Events
    BY <1>1
  <2>5. key[x] <= key[y]
    BY <1>2 DEF InOrder
  <2> HIDE DEF x, y
  <2>6. /\ new[x] = key[x] - d /\ new[y] = key[y] - d
        /\ key[x] \in Int /\ key[y] \in Int
    BY <2>4
  <2>7. new[x] <= new[y]
    BY <2>5, <2>6
  <2> QED BY <2>7 DEF x, y
<1> QED BY <1>2 DEF InOrder

(* timeout_correct. *)
LEMMA TimeoutCorrectIs ==
    ASSUME NEW s, NEW due, Fit(s, due), clock \in Int
    PROVE  /\ Fit(timeout_correct(s), due)
           /\ Touches(s, timeout_correct(s), {"event_tv", "ev_timeout"})
<1> DEFINE r == timeout_correct(s)
           now == gettime(s)
           d == s.event_tv - now
           moved == ToSet(s.timeheap) \cup ToSet(s.common)
<1>0. Good(s) /\ s.tv_cache \in Int /\ s.event_tv \in Int
  BY DEF Fit, Good, LoopInv
<1>n. now \in Int /\ d \in Int
  BY <1>0 DEF gettime
<1>f. "event_tv" \in DOMAIN s /\ "ev_timeout" \in DOMAIN s /\ s.ev_timeout \in [Events -> Int]
  BY <1>0, FieldNames DEF Good, TimeInv
<1>1. Touches(s, r, {"event_tv", "ev_timeout"})
  BY DEF Touches, timeout_correct
<1>2. /\ r.event_tv = now
      /\ r.ev_timeout = s.ev_timeout \/
         r.ev_timeout = [e \in Events |-> IF e \in moved THEN s.ev_timeout[e] - d ELSE s.ev_timeout[e]]
  BY <1>f DEF timeout_correct
<1> HIDE DEF r
<1>3. /\ r.ev_timeout \in [Events -> Int]
      /\ \E c \in Int : \A x \in moved : r.ev_timeout[x] = s.ev_timeout[x] - c
  <2>m. moved \subseteq Events
    BY <1>0, TimeoutsAre, EventKinds
  <2>1. CASE r.ev_timeout = s.ev_timeout
    <3> DEFINE c == 0
    <3>1. \A x \in moved : s.ev_timeout[x] - c = s.ev_timeout[x]
      BY <2>m, <1>f
    <3>2. c \in Int
      OBVIOUS
    <3> QED BY <2>1, <1>f, <3>1, <3>2
  <2>2. CASE r.ev_timeout = [e \in Events |-> IF e \in moved THEN s.ev_timeout[e] - d ELSE s.ev_timeout[e]]
    <3>1. \A x \in Events : s.ev_timeout[x] - d \in Int /\ s.ev_timeout[x] \in Int
      BY <1>f, <1>n
    <3> HIDE DEF d, moved
    <3> QED BY <2>2, <1>n, <3>1, <2>m
  <2> QED BY <1>2, <2>1, <2>2
<1>4. PICK c \in Int : \A x \in moved : r.ev_timeout[x] = s.ev_timeout[x] - c
  BY <1>3
<1>5. /\ r.timeheap = s.timeheap /\ r.common = s.common /\ r.activequeues = s.activequeues
      /\ r.inserted = s.inserted /\ r.tv_cache = s.tv_cache /\ r.watched = s.watched
  BY <1>0, <1>1, FieldNames DEF Touches, Good
<1>6. /\ s.timeheap \in Seq(Events) /\ IsInjective(s.timeheap) /\ IsHeap(s.timeheap, s.ev_timeout)
      /\ ToSet(s.timeheap) \cap (Commons \cup Sockets) = {}
      /\ s.common \in Seq(Commons) /\ IsInjective(s.common) /\ InOrder(s.common, s.ev_timeout)
  BY <1>0 DEF Good, TimeInv, HeapInv, CommonInv
<1>7. IsHeap(s.timeheap, r.ev_timeout)
  BY <1>f, <1>3, <1>4, <1>6, HeapShift
<1>8. InOrder(s.common, r.ev_timeout)
  BY <1>f, <1>3, <1>4, <1>6, OrderShift
<1>9. TimeInv(r)
  BY <1>3, <1>5, <1>6, <1>7, <1>8 DEF TimeInv, HeapInv, CommonInv
<1> DEFINE u == [s EXCEPT !.ev_timeout = r.ev_timeout]
<1>10. /\ Touches(s, u, Harmless \cup {"timeheap", "common", "ev_timeout"})
       /\ u.timeheap = s.timeheap /\ u.common = s.common /\ u.ev_timeout = r.ev_timeout
  BY <1>f DEF Touches
<1>11. Touches(u, r, Harmless \cup {"tv_cache", "event_tv", "watched"})
  BY <1>1, <1>f DEF Touches
<1> HIDE DEF u
<1>12. TimeInv(u)
  BY <1>9, <1>5, <1>10 DEF TimeInv, HeapInv, CommonInv
<1>13. Good(u)
  BY <1>0, <1>10, <1>12, TimesChange
<1>14. LoopInv(r)
  BY <1>0, <1>2, <1>5, <1>n DEF Good, LoopInv
<1>15. Good(r)
  BY <1>11, <1>13, <1>14, LoopChanges
<1>16. ASSUME Due(s) PROVE Due(r)
  <2> DEFINE k == "ctl_timeout"
  <2>1. ActiveSet(r) = ActiveSet(s)
    BY <1>5 DEF ActiveSet
  <2>2. SUFFICES ASSUME NEW x \in ToSet(s.common), k \in ToSet(s.timeheap), s.ev_timeout[k] <= s.ev_timeout[x]
                 PROVE  r.ev_timeout[k] <= r.ev_timeout[x]
    BY <1>16, <1>5, <2>1 DEF Due
  <2> HIDE DEF k
  <2>3. k \in moved /\ x \in moved /\ k \in Events /\ x \in Events
    BY <2>2, <1>0, TimeoutsAre, EventKinds
  <2>4. /\ r.ev_timeout[k] = s.ev_timeout[k] - c /\ r.ev_timeout[x] = s.ev_timeout[x] - c
        /\ s.ev_timeout[k] \in Int /\ s.ev_timeout[x] \in Int
    BY <2>3, <1>4, <1>f
  <2> QED BY <2>2, <2>4
<1>17. Fit(r, due)
  BY <1>15, <1>16, <1>5 DEF Fit
<1> QED BY <1>1, <1>17 DEF r

(* What the loop thread does not change in a step. *)
Alike(s, r) ==
    /\ r.is_notify_pending = s.is_notify_pending /\ r.notify_byte = s.notify_byte
    /\ r.deaf = s.deaf /\ r.virtual = s.virtual

(* The loop may wait for w: nothing is there to do before. *)
Asleep(s, w) ==
    /\ ActiveSet(s) = {} /\ s.deferred = <<>> /\ ~s.event_break
    /\ \A e \in s.inserted \cap IoEvents : {ev_fd(e)} \X ev_events(e) \subseteq s.watched
    /\ \A x \in ToSet(s.timeheap) : w > 0 /\ w <= s.ev_timeout[x] - s.event_tv
    /\ w >= 0 \/ event_haveevents(s)
Watching(s, w) == <<"th_notify", "read">> \in s.watched /\ (w = 0 \/ Asleep(s, w))

(* g is where the loop releases the lock, after it took it with s. *)
Landed(s, g) ==
    /\ Good(g.b) /\ "th_notify" \in g.b.inserted /\ Alike(s, g.b)
    /\ g.at \in {"out", "select", "callback", "no_call", "deferred"} /\ g.wait \in Int
    /\ g.b.running_loop <=> g.at # "out"
    /\ g.at \in {"callback", "no_call"} =>
          g.b.event_running_priority \in 0..1 /\ g.b.current_event \in Events
    /\ g.at \notin {"callback", "no_call"} => g.b.current_event = NoEvent
    /\ Due(g.b) \/ g.b.current_event = "ctl_timeout"
    /\ g.at = "no_call" => Due(g.b)
    /\ g.at = "select" => Watching(g.b, g.wait)

(* The loop thread between two events. *)
Between(s) == Fit(s, TRUE) /\ s.running_loop /\ s.current_event = NoEvent

(* What was changed before does not matter if these fields are alike. *)
LEMMA LandedFrom ==
    ASSUME NEW s, NEW r, NEW g, Alike(s, r), Landed(r, g)
    PROVE  Landed(s, g)
BY DEF Alike, Landed

(* Steps that leave the queues alone. *)
LEMMA FitKept ==
    ASSUME NEW s, NEW due, Fit(s, due), NEW r, Touches(s, r, Harmless \cup {"tv_cache", "event_tv", "watched"}),
           r.tv_cache \in Int, r.event_tv \in Int, r.watched \in SUBSET (Descriptors \X Kinds)
    PROVE  Fit(r, due) /\ ActiveSet(r) = ActiveSet(s)
<1>0. Good(s)
  BY DEF Fit
<1>1. LoopInv(r)
  BY DEF LoopInv
<1>2. Good(r)
  BY <1>0, <1>1, LoopChanges
<1>3. /\ r.timeheap = s.timeheap /\ r.common = s.common /\ r.activequeues = s.activequeues
      /\ r.inserted = s.inserted /\ r.ev_timeout = s.ev_timeout
  BY <1>0, FieldNames DEF Touches, Good, Harmless
<1>4. ActiveSet(r) = ActiveSet(s)
  BY <1>3 DEF ActiveSet
<1>5. Due(s) => Due(r)
  BY <1>3, <1>4, DueCongruence
<1> QED BY <1>2, <1>3, <1>4, <1>5 DEF Fit

(* The same for the fields of which Good says nothing. *)
LEMMA HarmlessFit ==
    ASSUME NEW s, NEW due, Fit(s, due), NEW r, Touches(s, r, Harmless)
    PROVE  Fit(r, due) /\ ActiveSet(r) = ActiveSet(s)
<1>0. Good(s)
  BY DEF Fit
<1>1. Touches(s, r, Harmless \cup {"tv_cache", "event_tv", "watched"})
  BY DEF Touches
<1>2. r.tv_cache \in Int /\ r.event_tv \in Int /\ r.watched \in SUBSET (Descriptors \X Kinds)
  <2>1. r.tv_cache = s.tv_cache /\ r.event_tv = s.event_tv /\ r.watched = s.watched
    BY <1>0, FieldNames DEF Touches, Good, Harmless
  <2> QED BY <2>1, <1>0 DEF Good, LoopInv
<1> QED BY <1>1, <1>2, FitKept

(* The loop is left. *)
LEMMA LeaveLoopLands ==
    ASSUME NEW s, Between(s)
    PROVE  Landed(s, LeaveLoop(s))
<1> DEFINE r == [s EXCEPT !.tv_cache = 0, !.running_loop = FALSE]
           w == -1
           g == LeaveLoop(s)
           yes == TRUE
<1>0. Good(s) /\ Fit(s, yes) /\ s.event_tv \in Int /\ s.watched \in SUBSET (Descriptors \X Kinds)
  BY DEF Between, Fit, Good, LoopInv
<1>1. Touches(s, r, {"tv_cache", "running_loop"})
  BY DEF Touches
<1>2. r.tv_cache = 0 /\ r.running_loop = FALSE
  BY <1>0, FieldNames DEF Good
<1>3. g.b = r /\ g.at = "out" /\ g.wait = w /\ w \in Int
  BY DEF LeaveLoop, Go
<1> HIDE DEF r, g, w, yes
<1>4. /\ Alike(s, r) /\ r.current_event = s.current_event
      /\ r.event_tv = s.event_tv /\ r.watched = s.watched
  BY <1>0, <1>1, FieldNames DEF Touches, Good, Alike
<1>5. Fit(r, yes)
  <2>1. Touches(s, r, Harmless \cup {"tv_cache", "event_tv", "watched"})
    BY <1>1 DEF Touches, Harmless
  <2>2. r.tv_cache \in Int
    BY <1>2
  <2> QED BY <1>0, <1>4, <2>1, <2>2, FitKept
<1>6. Good(r) /\ "th_notify" \in r.inserted /\ Due(r)
  BY <1>5 DEF Fit, yes
<1>7. Landed(s, g)
  BY <1>2, <1>3, <1>4, <1>6 DEF Landed, Between
<1> QED BY <1>7 DEF g

(* n counts, and so is 0 for no event and 1 for one. *)
LEMMA CountIs ==
    ASSUME NEW io, NEW on \in SUBSET IoEvents, MapIs(io, on), NEW e \in on, NEW k \in ev_events(e)
    PROVE  /\ io.n[ev_fd(e)][k] \in Nat \ {0}
           /\ io.n[ev_fd(e)][k] # 1 => \E x \in on \ {e} : ev_fd(x) = ev_fd(e) /\ k \in ev_events(x)
<1> DEFINE fd == ev_fd(e)
           S == {x \in on : ev_fd(x) = fd /\ k \in ev_events(x)}
<1>1. fd \in Descriptors /\ k \in Kinds /\ io.n[fd][k] = Cardinality(S)
  BY EventFacts DEF MapIs
<1>2. IsFiniteSet(S) /\ e \in S
  BY FiniteEvents
<1>3. Cardinality(S) \in Nat /\ Cardinality(S) # 0
  BY <1>2, FS_CardinalityType, FS_EmptySet
<1>4. ASSUME Cardinality(S) # 1 PROVE \E x \in S : x # e
  <2>1. CASE S = {e}
    BY <2>1, <1>4, FS_Singleton
  <2>2. CASE S # {e}
    BY <2>2, <1>2
  <2> QED BY <2>1, <2>2
<1> QED BY <1>1, <1>3, <1>4

(* select() is given what the events need. *)
LEMMA CopyIs ==
    ASSUME NEW io, NEW on \in SUBSET IoEvents, MapIs(io, on)
    PROVE  /\ fd_set_copy(io) \in SUBSET (Descriptors \X Kinds)
           /\ \A e \in on : {ev_fd(e)} \X ev_events(e) \subseteq fd_set_copy(io)
<1>0. io.set \in [Kinds -> Seq(Descriptors)]
  BY DEF MapIs, IoType
<1>1. \A k \in Kinds : \A fd \in ToSet(io.set[k]) : fd \in Descriptors
  <2> TAKE k \in Kinds
  <2>1. io.set[k] \in Seq(Descriptors)
    BY <1>0
  <2> QED BY <2>1, MembersAre
<1>2. \A k \in Kinds : \A fd : <<fd, k>> \in fd_set_copy(io) <=> fd \in ToSet(io.set[k])
  BY DEF fd_set_copy
<1>3. fd_set_copy(io) \in SUBSET (Descriptors \X Kinds)
  BY <1>1 DEF fd_set_copy
<1>4. ASSUME NEW e \in on, NEW k \in ev_events(e) PROVE <<ev_fd(e), k>> \in fd_set_copy(io)
  <2> DEFINE fd == ev_fd(e)
             q == io.set[k]
             i == io.pos[fd][k]
  <2>1. fd \in Descriptors /\ k \in Kinds
    BY EventFacts
  <2>2. io.n[fd][k] # 0
    BY CountIs
  <2>3. i \in 1..Len(q) /\ q[i] = fd
    BY <2>1, <2>2 DEF MapIs, ArrayOK, Busy
  <2>4. q \in Seq(Descriptors)
    BY <1>0, <2>1
  <2> HIDE DEF q, i, fd
  <2>5. fd \in ToSet(q)
    BY <2>3, <2>4, MembersAre
  <2> QED BY <2>5, <2>1, <1>2 DEF q, fd
<1> QED BY <1>3, <1>4

(* N_ACTIVE_CALLBACKS counts the active events and deferred callbacks. *)
LEMMA CallbacksAre ==
    ASSUME NEW s, Good(s)
    PROVE  /\ N_ACTIVE_CALLBACKS(s) \in Nat
           /\ N_ACTIVE_CALLBACKS(s) = 0 <=> ActiveSet(s) = {} /\ s.deferred = <<>>
<1> DEFINE n == N_ACTIVE_EVENTS(s)
           q == s.deferred
<1>1. n \in Nat /\ (n = 0 <=> ActiveSet(s) = {})
  BY ActiveSetIs
<1>2. q \in Seq(Deferreds)
  BY DEF Good, DeferInv
<1>3. N_ACTIVE_CALLBACKS(s) = n + Len(q)
  BY DEF N_ACTIVE_CALLBACKS
<1> HIDE DEF n, q
<1>4. Len(q) \in Nat /\ (Len(q) = 0 <=> q = <<>>)
  BY <1>2
<1>5. /\ N_ACTIVE_CALLBACKS(s) \in Nat
      /\ N_ACTIVE_CALLBACKS(s) = 0 <=> n = 0 /\ q = <<>>
  BY <1>1, <1>3, <1>4
<1> QED BY <1>1, <1>5 DEF q

(* What there is to wait for, by sets. *)
LEMMA HaveEventsIs ==
    ASSUME NEW s, Good(s)
    PROVE  event_haveevents(s) <=>
             \/ s.virtual > 0
             \/ \E e \in Events \ Internal :
                   e \in s.inserted \cup ToSet(s.timeheap) \cup ToSet(s.common) \cup ActiveSet(s)
<1>1. \A e \in Events : IsActive(s, e) <=> e \in ActiveSet(s)
  BY ActiveSetIs
<1>2. \A e : HasTimeout(s, e) <=> e \in ToSet(s.timeheap) \cup ToSet(s.common)
  BY TimeoutsAre
<1> QED BY <1>1, <1>2 DEF event_haveevents

(* The head of the while loop: it leaves, or waits for nothing that it misses. *)
LEMMA LoopTopLands ==
    ASSUME NEW s, Between(s), clock \in Int, NEW f
    PROVE  Landed(s, LoopTop(s, f))
<1> DEFINE s1 == [s EXCEPT !.event_continue = FALSE]
           s2 == timeout_correct(s1)
           r == [s2 EXCEPT !.event_tv = gettime(s2), !.tv_cache = 0, !.watched = fd_set_copy(s2.io)]
           w == IF N_ACTIVE_CALLBACKS(s2) = 0 /\ f # "nonblock" THEN timeout_next(s2) ELSE 0
           g == LoopTop(s, f)
           yes == TRUE
<1>0. Good(s) /\ Fit(s, yes)
  BY DEF Between, Fit
<1>g. g = IF s1.event_gotterm \/ s1.event_break THEN LeaveLoop(s1)
          ELSE IF ~event_haveevents(s2) /\ N_ACTIVE_CALLBACKS(s2) = 0 THEN LeaveLoop(s2)
          ELSE [b |-> r, at |-> "select", wait |-> w]
  BY DEF LoopTop, Go
<1>1. Touches(s, s1, {"event_continue"})
  BY DEF Touches
<1>2. Touches(s, s1, Harmless)
  BY <1>1 DEF Touches, Harmless
<1> HIDE DEF g, yes
<1>3. Fit(s1, yes) /\ Good(s1)
  <2>1. Fit(s1, yes)
    BY <1>0, <1>2, HarmlessFit
  <2> QED BY <2>1 DEF Fit
<1>4. Alike(s, s1) /\ Between(s1)
  BY <1>0, <1>1, <1>3, FieldNames DEF Touches, Good, Alike, Between, yes
<1> HIDE DEF s1
<1>5. Fit(s2, yes) /\ Touches(s1, s2, {"event_tv", "ev_timeout"})
  BY <1>3, TimeoutCorrectIs
<1>6. Good(s2) /\ "th_notify" \in s2.inserted /\ Due(s2)
  BY <1>5 DEF Fit, yes
<1> HIDE DEF s2
<1>7. Alike(s, s2) /\ Between(s2) /\ s2.event_break = s1.event_break
  BY <1>3, <1>4, <1>5, FieldNames DEF Touches, Good, Alike, Between, yes
<1>8. CASE s1.event_gotterm \/ s1.event_break
  <2>1. g = LeaveLoop(s1)
    BY <1>8, <1>g
  <2>2. Landed(s1, LeaveLoop(s1))
    BY <1>4, LeaveLoopLands
  <2>3. Landed(s, g)
    BY <2>1, <2>2, <1>4, LandedFrom
  <2> QED BY <2>3 DEF g
<1>9. CASE ~(s1.event_gotterm \/ s1.event_break) /\ ~event_haveevents(s2) /\ N_ACTIVE_CALLBACKS(s2) = 0
  <2>1. g = LeaveLoop(s2)
    BY <1>9, <1>g
  <2>2. Landed(s2, LeaveLoop(s2))
    BY <1>7, LeaveLoopLands
  <2>3. Landed(s, g)
    BY <2>1, <2>2, <1>7, LandedFrom
  <2> QED BY <2>3 DEF g
<1>10. CASE ~(s1.event_gotterm \/ s1.event_break) /\ (event_haveevents(s2) \/ N_ACTIVE_CALLBACKS(s2) # 0)
  <2>1. g.b = r /\ g.at = "select" /\ g.wait = w
    BY <1>10, <1>g
  <2> DEFINE now == gettime(s2)
             copy == fd_set_copy(s2.io)
  <2>2. now \in Int /\ s2.ev_timeout \in [Events -> Int]
    BY <1>6 DEF gettime, Good, LoopInv, TimeInv
  <2>3. MapIs(s2.io, s2.inserted \cap IoEvents)
    BY <1>6 DEF Good, MapInv
  <2>4. /\ copy \in SUBSET (Descriptors \X Kinds)
        /\ \A e \in s2.inserted \cap IoEvents : {ev_fd(e)} \X ev_events(e) \subseteq copy
    BY <2>3, CopyIs
  <2>5. /\ r.event_tv = now /\ r.tv_cache = 0 /\ r.watched = copy
        /\ Touches(s2, r, {"event_tv", "tv_cache", "watched"})
    BY <1>6, FieldNames DEF Good, Touches
  <2>w. w = IF N_ACTIVE_CALLBACKS(s2) = 0 /\ f # "nonblock" THEN timeout_next(s2) ELSE 0
    OBVIOUS
  <2> HIDE DEF r, w, now, copy
  <2>6. Fit(r, yes)
    <3>1. Touches(s2, r, Harmless \cup {"tv_cache", "event_tv", "watched"})
      BY <2>5 DEF Touches
    <3>2. r.tv_cache \in Int /\ r.event_tv \in Int /\ r.watched \in SUBSET (Descriptors \X Kinds)
      BY <2>2, <2>4, <2>5
    <3> QED BY <1>5, <3>1, <3>2, FitKept
  <2>7. Good(r) /\ "th_notify" \in r.inserted /\ Due(r)
    BY <2>6 DEF Fit, yes
  <2>8. /\ r.timeheap = s2.timeheap /\ r.common = s2.common /\ r.activequeues = s2.activequeues
        /\ r.inserted = s2.inserted /\ r.ev_timeout = s2.ev_timeout /\ r.deferred = s2.deferred
        /\ r.event_break = s2.event_break /\ r.virtual = s2.virtual
        /\ Alike(s2, r) /\ r.running_loop = s2.running_loop /\ r.current_event = s2.current_event
    BY <2>5, <1>6, FieldNames DEF Touches, Good, Alike
  <2>9. ActiveSet(r) = ActiveSet(s2)
    BY <2>8 DEF ActiveSet
  <2>10. <<"th_notify", "read">> \in r.watched
    <3> DEFINE e == "th_notify"
    <3>1. e \in s2.inserted \cap IoEvents /\ ev_fd(e) = e /\ "read" \in ev_events(e)
      <4>1. e \notin Writers \cup Sharing /\ e \in IoEvents
        BY UsersAssumption, KindsAssumption DEF Users, IoEvents, Internal
      <4> QED BY <4>1, <1>6 DEF ev_fd, ev_events
    <3>2. <<ev_fd(e), "read">> \in {ev_fd(e)} \X ev_events(e)
      BY <3>1
    <3> HIDE DEF e
    <3>3. <<e, "read">> \in copy
      BY <2>4, <3>1, <3>2
    <3> QED BY <3>3, <2>5 DEF e
  <2>11. w \in Int /\ (w = 0 \/ Asleep(r, w))
    <3>1. CASE ~(N_ACTIVE_CALLBACKS(s2) = 0 /\ f # "nonblock")
      BY <3>1, <2>w
    <3>2. CASE N_ACTIVE_CALLBACKS(s2) = 0 /\ f # "nonblock"
      <4>1. w = timeout_next(s2) /\ event_haveevents(s2)
        BY <3>2, <2>w, <1>10
      <4>2. ActiveSet(r) = {} /\ r.deferred = <<>>
        BY <3>2, <2>8, <2>9, <1>6, CallbacksAre
      <4>3. ~r.event_break
        BY <1>10, <1>7, <2>8
      <4>4. event_haveevents(r)
        BY <4>1, <1>6, <2>7, <2>8, <2>9, HaveEventsIs
      <4>5. \A e \in r.inserted \cap IoEvents : {ev_fd(e)} \X ev_events(e) \subseteq r.watched
        BY <2>4, <2>5, <2>8
      <4>6. CASE s2.timeheap = <<>>
        <5>1. w = -1 /\ w \in Int
          BY <4>6, <4>1 DEF timeout_next
        <5>2. ToSet(r.timeheap) = {}
          BY <4>6, <2>8, <2>7, CommonEmpty
        <5> QED BY <5>1, <5>2, <4>2, <4>3, <4>4, <4>5 DEF Asleep
      <4>7. CASE s2.timeheap # <<>>
        <5> DEFINE t == s2.ev_timeout[Head(s2.timeheap)]
        <5>1. t \in Int /\ \A x \in ToSet(s2.timeheap) : t <= s2.ev_timeout[x] /\ x \in Events
          BY <4>7, <1>6, HeapHead, TimeoutsAre
        <5>2. w = IF t - now <= 0 THEN 0 ELSE t - now
          BY <4>7, <4>1 DEF timeout_next, now
        <5> HIDE DEF t
        <5>3. w \in Int /\ w >= 0
          BY <5>1, <5>2, <2>2
        <5>4. w # 0 => \A x \in ToSet(r.timeheap) : w > 0 /\ w <= r.ev_timeout[x] - r.event_tv
          <6> SUFFICES ASSUME w # 0, NEW x \in ToSet(s2.timeheap)
                       PROVE  w > 0 /\ w <= s2.ev_timeout[x] - now
            BY <2>5, <2>8
          <6>1. s2.ev_timeout[x] \in Int /\ t <= s2.ev_timeout[x]
            BY <5>1, <2>2
          <6> QED BY <6>1, <5>1, <5>2, <2>2
        <5> QED BY <5>3, <5>4, <4>2, <4>3, <4>4, <4>5 DEF Asleep
      <4> QED BY <4>6, <4>7
    <3> QED BY <3>1, <3>2
  <2>12. Alike(s, r)
    BY <1>7, <2>8 DEF Alike
  <2>13. Landed(s, g)
    BY <2>1, <2>7, <2>8, <2>10, <2>11, <2>12, <1>7 DEF Landed, Watching, Between
  <2> QED BY <2>13 DEF g
<1> QED BY <1>8, <1>9, <1>10

(* The first event of a queue. *)
LEMMA QueueHead ==
    ASSUME NEW S, NEW q \in Seq(S), q # <<>>
    PROVE  Head(q) \in S /\ Head(q) \in ToSet(q)
<1>1. Head(q) = q[1] /\ 1 \in 1..Len(q) /\ q[1] \in S
  OBVIOUS
<1> QED BY <1>1, MembersAre

(* The least of a set of numbers. *)
LEMMA LeastOf ==
    ASSUME NEW T \in SUBSET Nat, T # {}
    PROVE  Min(T) \in T
<1>1. \E x \in T : \A y \in T : x <= y
  BY LeastNumber
<1> QED BY <1>1 DEF Min

(* Steps of the loop thread between two events. *)
LEMMA WentBetween ==
    ASSUME NEW s, Between(s), NEW r, Went(s, r, TRUE)
    PROVE  Between(r) /\ Alike(s, r)
BY FieldNames DEF Between, Went, Fit, Good, Touches, Api, Alike

(* The loop thread has an event. *)
Running(s) ==
    /\ Good(s) /\ "th_notify" \in s.inserted /\ s.running_loop
    /\ s.event_running_priority \in 0..1 /\ s.current_event \in Events
    /\ Due(s) \/ s.current_event = "ctl_timeout"

(* The lock is released for a callback. *)
LEMMA CallbackLands ==
    ASSUME NEW s, Running(s), NEW place \in {"callback", "no_call"}, place = "no_call" => Due(s)
    PROVE  Landed(s, Go(s, place, -1))
<1> DEFINE g == Go(s, place, -1)
<1>1. g.b = s /\ g.at = place /\ g.wait \in Int
  BY DEF Go
<1> HIDE DEF g
<1>2. Landed(s, g)
  BY <1>1 DEF Landed, Running, Alike
<1> QED BY <1>2 DEF g

(* The end of event_process_active. *)
LEMMA EndProcessLands ==
    ASSUME NEW s, Between(s), clock \in Int, NEW n
    PROVE  Landed(s, EndProcess(s, n))
<1> DEFINE r == [s EXCEPT !.event_running_priority = -1]
           g == EndProcess(s, n)
           yes == TRUE
<1>0. Good(s) /\ Fit(s, yes)
  BY DEF Between, Fit
<1>1. Touches(s, r, {"event_running_priority"})
  BY DEF Touches
<1>2. Touches(s, r, Harmless)
  BY <1>1 DEF Touches, Harmless
<1>3. g = LeaveLoop(r) \/ g = LoopTop(r, flags)
  BY DEF EndProcess
<1> HIDE DEF r, g, yes
<1>4. Fit(r, yes)
  BY <1>0, <1>2, HarmlessFit
<1>5. Alike(s, r) /\ Between(r)
  BY <1>0, <1>1, <1>4, FieldNames DEF Touches, Good, Alike, Between, yes
<1>6. Landed(r, LeaveLoop(r)) /\ Landed(r, LoopTop(r, flags))
  BY <1>5, LeaveLoopLands, LoopTopLands
<1>7. Landed(r, g)
  BY <1>3, <1>6
<1>8. Landed(s, g)
  BY <1>5, <1>7, LandedFrom
<1> QED BY <1>8 DEF g

(* event_process_deferred_callbacks. *)
LEMMA NextDeferredLands ==
    ASSUME NEW s, Between(s), clock \in Int, NEW n
    PROVE  Landed(s, NextDeferred(s, n))
<1> DEFINE r == [s EXCEPT !.deferred = Tail(@), !.dcount = n]
           g == NextDeferred(s, n)
           c == s.count
<1>0. /\ Good(s) /\ s.deferred \in Seq(Deferreds) /\ IsInjective(s.deferred)
      /\ "th_notify" \in s.inserted /\ Due(s)
  BY DEF Between, Fit, Good, DeferInv
<1>1. CASE s.deferred = <<>> \/ n = MaxDeferred
  <2>1. g = EndProcess(s, c)
    BY <1>1 DEF NextDeferred
  <2> HIDE DEF c, g
  <2>2. Landed(s, EndProcess(s, c))
    BY EndProcessLands
  <2> QED BY <2>1, <2>2 DEF g
<1>2. CASE ~(s.deferred = <<>> \/ n = MaxDeferred)
  <2>1. g.b = r /\ g.at = "deferred" /\ g.wait \in Int
    BY <1>2 DEF NextDeferred, Go
  <2>2. Touches(s, r, {"deferred", "dcount"}) /\ r.deferred = Tail(s.deferred)
    BY <1>0, FieldNames DEF Touches, Good
  <2> HIDE DEF r, g
  <2>3. DeferInv(r)
    BY <1>0, <1>2, <2>2, TailOfQueue DEF DeferInv
  <2>4. Touches(s, r, Harmless \cup {"deferred"})
    BY <2>2 DEF Touches, Harmless
  <2>5. Good(r)
    BY <1>0, <2>3, <2>4, DeferredsChange
  <2>6. /\ r.timeheap = s.timeheap /\ r.common = s.common /\ r.activequeues = s.activequeues
        /\ r.inserted = s.inserted /\ r.ev_timeout = s.ev_timeout /\ Alike(s, r)
        /\ r.running_loop = s.running_loop /\ r.current_event = s.current_event
    BY <1>0, <2>2, FieldNames DEF Touches, Good, Alike
  <2>7. Due(r)
    BY <1>0, <2>6, DueCongruence DEF ActiveSet
  <2>8. Landed(s, g)
    BY <1>0, <2>1, <2>5, <2>6, <2>7 DEF Landed, Between
  <2> QED BY <2>8 DEF g
<1> QED BY <1>1, <1>2

(* The calls of a signal. *)
LEMMA RunningKept ==
    ASSUME NEW s, Running(s), NEW r, Touches(s, r, {"ncalls", "ev_ncalls", "ev_pncalls"})
    PROVE  Running(r) /\ Alike(s, r) /\ (Due(s) => Due(r))
<1> DEFINE no == FALSE
           yes == TRUE
<1>0. Fit(s, no) /\ (Due(s) => Fit(s, yes))
  BY DEF Running, Fit
<1> HIDE DEF no, yes
<1>1. Touches(s, r, Harmless)
  BY DEF Touches, Harmless
<1>2. Fit(r, no) /\ (Due(s) => Fit(r, yes))
  BY <1>0, <1>1, HarmlessFit
<1>3. Good(r) /\ (Due(s) => Due(r)) /\ "th_notify" \in r.inserted
  BY <1>2 DEF Fit, yes
<1>4. /\ Alike(s, r) /\ r.running_loop = s.running_loop /\ r.current_event = s.current_event
      /\ r.event_running_priority = s.event_running_priority
  BY FieldNames DEF Touches, Good, Alike, Running
<1> QED BY <1>3, <1>4 DEF Running

(* One call of a signal closure. *)
LEMMA SignalCallLands ==
    ASSUME NEW s, Running(s), NEW e
    PROVE  Landed(s, SignalCall(s, e))
<1> DEFINE r == [s EXCEPT !.ncalls = @ - 1, !.ev_ncalls[e] = s.ncalls - 1,
                          !.ev_pncalls[e] = s.ncalls > 1]
           g == SignalCall(s, e)
           place == "callback"
<1>1. g = Go(r, place, -1) /\ place \in {"callback", "no_call"} /\ place # "no_call"
  BY DEF SignalCall
<1>2. Touches(s, r, {"ncalls", "ev_ncalls", "ev_pncalls"})
  BY DEF Touches
<1> HIDE DEF r, g, place
<1>3. Running(r) /\ Alike(s, r)
  BY <1>2, RunningKept
<1>4. Landed(r, Go(r, place, -1))
  BY <1>1, <1>3, CallbackLands
<1>5. Landed(s, g)
  BY <1>1, <1>3, <1>4, LandedFrom
<1> QED BY <1>5 DEF g

(* event_signal_closure. *)
LEMMA SignalClosureLands ==
    ASSUME NEW s, Running(s), Due(s), NEW e
    PROVE  Landed(s, event_signal_closure(s, e))
<1> DEFINE r == [s EXCEPT !.ncalls = s.ev_ncalls[e]]
           g == event_signal_closure(s, e)
           place == "no_call"
<1>1. (g = Go(r, place, -1) \/ g = SignalCall(r, e)) /\ place \in {"callback", "no_call"}
  BY DEF event_signal_closure
<1>2. Touches(s, r, {"ncalls", "ev_ncalls", "ev_pncalls"})
  BY DEF Touches
<1> HIDE DEF r, g, place
<1>3. Running(r) /\ Alike(s, r) /\ Due(r)
  BY <1>2, RunningKept
<1>4. Landed(r, Go(r, place, -1)) /\ Landed(r, SignalCall(r, e))
  BY <1>1, <1>3, CallbackLands, SignalCallLands
<1>5. Landed(s, g)
  BY <1>1, <1>3, <1>4, LandedFrom
<1> QED BY <1>5 DEF g

(* event_persist_closure. *)
LEMMA PersistClosureLands ==
    ASSUME NEW s, Running(s), Due(s), clock \in Int, NEW e \in Events, e # "ctl_timeout"
    PROVE  Landed(s, event_persist_closure(s, e))
<1> DEFINE d == NextFiring(s, e)
           t == "loop"
           yes == TRUE
           r == IF s.ev_io_timeout[e] = 0 THEN s ELSE event_add_internal(s, e, d, yes, t)
           place == "callback"
           g == event_persist_closure(s, e)
<1>1. g = Go(r, place, -1) /\ place \in {"callback", "no_call"} /\ place # "no_call" /\ t = "loop" /\ yes = TRUE
  BY DEF event_persist_closure
<1>2. d \in Int
  <2>1. s.tv_cache \in Int /\ s.ev_timeout[e] \in Int /\ s.ev_io_timeout[e] \in Int
    BY DEF Running, Good, LoopInv, TimeInv, IntervalInv
  <2>2. gettime(s) \in Int
    BY <2>1 DEF gettime
  <2> QED BY <2>1, <2>2 DEF NextFiring
<1>3. s.ev_io_timeout[e] # 0 => e \notin Sockets
  BY DEF Running, Good, IntervalInv
<1>4. Fit(s, yes) /\ Good(s)
  BY DEF Running, Fit
<1>r. r = s \/ (s.ev_io_timeout[e] # 0 /\ r = event_add_internal(s, e, d, yes, t))
  OBVIOUS
<1> HIDE DEF d, t, yes, r, place, g
<1>5. Went(s, r, yes)
  <2>1. CASE r = s
    BY <2>1, <1>4, WentNowhere
  <2>2. CASE s.ev_io_timeout[e] # 0 /\ r = event_add_internal(s, e, d, yes, t)
    <3>1. e \notin Sockets
      BY <2>2, <1>3
    <3> QED BY <2>2, <3>1, <1>1, <1>2, <1>4, AddGoes
  <2> QED BY <1>r, <2>1, <2>2
<1>6. Running(r) /\ Alike(s, r)
  <2>1. /\ Alike(s, r) /\ r.running_loop = s.running_loop /\ r.current_event = s.current_event
        /\ r.event_running_priority = s.event_running_priority
    BY <1>4, <1>5, FieldNames DEF Went, Touches, Good, Api, Alike
  <2> QED BY <2>1, <1>1, <1>5 DEF Running, Went, Fit
<1>7. Landed(r, Go(r, place, -1))
  BY <1>1, <1>6, CallbackLands
<1>8. Landed(s, g)
  BY <1>1, <1>6, <1>7, LandedFrom
<1> QED BY <1>8 DEF g

(* The body of event_process_active_single_queue. *)
LEMMA StartEventLands ==
    ASSUME NEW s, Between(s), clock \in Int, s.event_running_priority \in 0..1,
           s.activequeues[s.event_running_priority] # <<>>
    PROVE  Landed(s, StartEvent(s))
<1> DEFINE q == s.activequeues[s.event_running_priority]
           e == Head(q)
           t == "loop"
           s1 == IF IsPersistent(e) THEN RemoveActive(s, e) ELSE event_del_internal(s, e, t)
           s2 == [s1 EXCEPT !.count = IF e \in Internal THEN @ ELSE @ + 1,
                            !.current_event = e, !.waiters = FALSE]
           g == StartEvent(s)
           place == "callback"
           no == FALSE
           yes == TRUE
<1>0. Good(s) /\ Due(s) /\ "th_notify" \in s.inserted
  BY DEF Between, Fit
<1>1. q \in Seq(Events) /\ q # <<>>
  BY <1>0 DEF Good, ActiveInv
<1>g. g = CASE e \in Signals -> event_signal_closure(s2, e)
          [] IsPersistent(e) /\ e \notin Signals -> event_persist_closure(s2, e)
          [] OTHER -> Go(s2, place, -1)
  BY DEF StartEvent
<1>c. t = "loop" /\ place \in {"callback", "no_call"} /\ place # "no_call" /\ no = FALSE /\ yes = TRUE
  OBVIOUS
<1> HIDE DEF q, g, t, place, no, yes
<1>2. e \in Events
  BY <1>1, QueueHead
<1>3. /\ IsPersistent(e) => e # "ctl_timeout"
      /\ ~IsPersistent(e) => e # "th_notify"
      /\ e \in Signals => IsPersistent(e)
  BY UsersAssumption, KindsAssumption DEF IsPersistent, Internal
<1> HIDE DEF e
<1>4. /\ Good(s1) /\ (e # "ctl_timeout" => Due(s1)) /\ "th_notify" \in s1.inserted
      /\ Touches(s, s1, Api) /\ s1.is_notify_pending = s.is_notify_pending
      /\ s1.notify_byte = s.notify_byte
  <2>1. CASE IsPersistent(e)
    <3>1. s1 = RemoveActive(s, e)
      BY <2>1
    <3> HIDE DEF s1
    <3>2. /\ Good(s1) /\ Touches(s, s1, {"activequeues"}) /\ ActiveSet(s1) = ActiveSet(s) \ {e}
      BY <3>1, <1>0, <1>2, RemoveActiveIs
    <3>3. /\ s1.timeheap = s.timeheap /\ s1.common = s.common /\ s1.ev_timeout = s.ev_timeout
          /\ s1.inserted = s.inserted
          /\ s1.is_notify_pending = s.is_notify_pending /\ s1.notify_byte = s.notify_byte
      BY <3>2, <1>0, FieldNames DEF Touches, Good
    <3>4. e # "ctl_timeout" => Due(s1)
      BY <3>2, <3>3, <1>0 DEF Due
    <3>5. Touches(s, s1, Api)
      BY <3>2 DEF Touches, Api
    <3> QED BY <3>2, <3>3, <3>4, <3>5, <1>0
  <2>2. CASE ~IsPersistent(e)
    <3>1. s1 = event_del_internal(s, e, t)
      BY <2>2
    <3> HIDE DEF s1
    <3>2. /\ GoodCall(s, s1, t) /\ Deleted(s, s1, e)
          /\ Due(s) /\ e # "ctl_timeout" => Due(s1)
      BY <3>1, <1>0, <1>2, DelIs
    <3> QED BY <3>2, <1>0, <1>3, <1>c, <2>2 DEF GoodCall, Quiet, Deleted
  <2> QED BY <2>1, <2>2
<1> HIDE DEF s1
<1>5. Touches(s1, s2, {"count", "current_event", "waiters"}) /\ s2.current_event = e
  BY <1>4, FieldNames DEF Touches, Good
<1> HIDE DEF s2
<1>6. Touches(s1, s2, Harmless)
  BY <1>5 DEF Touches, Harmless
<1>7. Fit(s1, no) /\ (e # "ctl_timeout" => Fit(s1, yes))
  BY <1>4, <1>c DEF Fit
<1>8. Fit(s2, no) /\ (e # "ctl_timeout" => Fit(s2, yes))
  BY <1>6, <1>7, HarmlessFit
<1>9. /\ s2.running_loop = s.running_loop /\ s2.event_running_priority = s.event_running_priority
      /\ Alike(s, s2)
  BY <1>0, <1>4, <1>5, FieldNames DEF Touches, Good, Api, Alike
<1>10. Running(s2) /\ (e # "ctl_timeout" => Due(s2))
  BY <1>2, <1>5, <1>8, <1>9, <1>c DEF Running, Fit, Between
<1>11. /\ e \in Signals => Landed(s2, event_signal_closure(s2, e))
       /\ Landed(s2, Go(s2, place, -1))
       /\ IsPersistent(e) => Landed(s2, event_persist_closure(s2, e))
  BY <1>2, <1>3, <1>10, <1>c, SignalClosureLands, PersistClosureLands, CallbackLands
<1>12. Landed(s2, g)
  BY <1>g, <1>11
<1>13. Landed(s, g)
  BY <1>9, <1>12, LandedFrom
<1> QED BY <1>13 DEF g

(* The counters of event_process_active. *)
LEMMA CountKept ==
    ASSUME NEW s, Between(s), NEW r, Touches(s, r, {"count", "event_running_priority"})
    PROVE  Between(r) /\ Alike(s, r) /\ r.activequeues = s.activequeues
<1> DEFINE yes == TRUE
<1>0. Fit(s, yes) /\ Good(s)
  BY DEF Between, Fit
<1> HIDE DEF yes
<1>1. Touches(s, r, Harmless)
  BY DEF Touches, Harmless
<1>2. Fit(r, yes)
  BY <1>0, <1>1, HarmlessFit
<1>3. /\ r.running_loop = s.running_loop /\ r.current_event = s.current_event
      /\ Alike(s, r) /\ r.activequeues = s.activequeues
  BY <1>0, FieldNames DEF Touches, Good, Alike
<1> QED BY <1>2, <1>3 DEF Between, yes

(* event_process_active. *)
LEMMA StartQueueLands ==
    ASSUME NEW s, Between(s), clock \in Int, NEW i \in Nat
    PROVE  Landed(s, StartQueue(s, i))
<1> DEFINE nonempty == {q \in i..1 : s.activequeues[q] # <<>>}
           m == Min(nonempty)
           r == [s EXCEPT !.event_running_priority = m, !.count = 0]
           u == [s EXCEPT !.count = 0]
           g == StartQueue(s, i)
           zero == 0
<1>0. Good(s)
  BY DEF Between, Fit
<1>g. g = IF nonempty = {} THEN NextDeferred(u, zero) ELSE StartEvent(r)
  BY DEF StartQueue
<1>1. CASE nonempty = {}
  <2>1. g = NextDeferred(u, zero)
    BY <1>1, <1>g
  <2>2. Touches(s, u, {"count", "event_running_priority"})
    BY DEF Touches
  <2> HIDE DEF u, g, zero
  <2>3. Between(u) /\ Alike(s, u)
    BY <2>2, CountKept
  <2>4. Landed(u, NextDeferred(u, zero))
    BY <2>3, NextDeferredLands
  <2>5. Landed(s, g)
    BY <2>1, <2>3, <2>4, LandedFrom
  <2> QED BY <2>5 DEF g
<1>2. CASE nonempty # {}
  <2>1. g = StartEvent(r)
    BY <1>2, <1>g
  <2>2. nonempty \in SUBSET Nat
    OBVIOUS
  <2>3. m \in nonempty
    BY <1>2, <2>2, LeastOf
  <2>4. m \in 0..1 /\ s.activequeues[m] # <<>>
    BY <2>3
  <2> HIDE DEF m, nonempty
  <2>5. Touches(s, r, {"count", "event_running_priority"}) /\ r.event_running_priority = m
    BY <1>0, FieldNames DEF Touches, Good
  <2> HIDE DEF r, g
  <2>6. Between(r) /\ Alike(s, r) /\ r.activequeues = s.activequeues
    BY <2>5, CountKept
  <2>7. Landed(r, StartEvent(r))
    BY <2>4, <2>5, <2>6, StartEventLands
  <2>8. Landed(s, g)
    BY <2>1, <2>6, <2>7, LandedFrom
  <2> QED BY <2>8 DEF g
<1> QED BY <1>1, <1>2

(* After a callback. *)
LEMMA FinishEventLands ==
    ASSUME NEW s, Fit(s, TRUE), s.running_loop, s.event_running_priority \in 0..1, clock \in Int
    PROVE  Landed(s, FinishEvent(s))
<1> DEFINE r == [s EXCEPT !.current_event = NoEvent, !.waiters = FALSE]
           q == r.event_running_priority
           g == FinishEvent(s)
           zero == 0
           minus == -1
           yes == TRUE
<1>0. Good(s) /\ Fit(s, yes)
  BY DEF Fit
<1>g. g = IF r.event_break THEN EndProcess(r, minus)
          ELSE IF ~r.event_continue /\ r.activequeues[q] # <<>> THEN StartEvent(r)
          ELSE IF r.count > 0 THEN NextDeferred(r, zero)
          ELSE StartQueue(r, q + 1)
  BY DEF FinishEvent
<1>1. Touches(s, r, {"current_event", "waiters"}) /\ r.current_event = NoEvent
  BY <1>0, FieldNames DEF Touches, Good
<1> HIDE DEF r, g, zero, minus, yes
<1>2. Touches(s, r, Harmless)
  BY <1>1 DEF Touches, Harmless
<1>3. Fit(r, yes)
  BY <1>0, <1>2, HarmlessFit
<1>4. /\ r.running_loop = s.running_loop /\ Alike(s, r)
      /\ r.event_running_priority = s.event_running_priority
  BY <1>0, <1>1, FieldNames DEF Touches, Good, Alike
<1>5. Between(r)
  BY <1>1, <1>3, <1>4 DEF Between, yes
<1>6. q \in 0..1 /\ q + 1 \in Nat
  BY <1>4
<1>7. /\ Landed(r, EndProcess(r, minus)) /\ Landed(r, NextDeferred(r, zero))
      /\ Landed(r, StartQueue(r, q + 1))
      /\ r.activequeues[q] # <<>> => Landed(r, StartEvent(r))
  BY <1>5, <1>6, EndProcessLands, NextDeferredLands, StartQueueLands, StartEventLands
<1>8. Landed(r, g)
  BY <1>g, <1>7
<1>9. Landed(s, g)
  BY <1>4, <1>8, LandedFrom
<1> QED BY <1>9 DEF g

(* The while loop after the dispatch call. *)
LEMMA AfterDispatchLands ==
    ASSUME NEW s, Between(s), clock \in Int
    PROVE  Landed(s, AfterDispatch(s))
<1> DEFINE u == [s EXCEPT !.tv_cache = clock]
           r == timeout_process(u)
           g == AfterDispatch(s)
           zero == 0
           yes == TRUE
<1>0. Good(s) /\ Fit(s, yes) /\ s.event_tv \in Int /\ s.watched \in SUBSET (Descriptors \X Kinds) /\ zero \in Nat /\ yes = TRUE
  BY DEF Between, Fit, Good, LoopInv
<1>g. g = IF N_ACTIVE_CALLBACKS(r) > 0 THEN StartQueue(r, zero)
          ELSE IF flags = "nonblock" THEN LeaveLoop(r) ELSE LoopTop(r, flags)
  BY DEF AfterDispatch
<1>1. Touches(s, u, {"tv_cache"}) /\ u.tv_cache = clock
  BY <1>0, FieldNames DEF Touches, Good
<1> HIDE DEF u, g, zero, yes
<1>2. /\ u.running_loop = s.running_loop /\ Alike(s, u) /\ u.current_event = s.current_event
      /\ u.event_tv = s.event_tv /\ u.watched = s.watched
  BY <1>0, <1>1, FieldNames DEF Touches, Good, Alike
<1>3. Fit(u, yes)
  <2>1. Touches(s, u, Harmless \cup {"tv_cache", "event_tv", "watched"})
    BY <1>1 DEF Touches
  <2> QED BY <1>0, <1>1, <1>2, <2>1, FitKept
<1>4. Between(u)
  BY <1>0, <1>2, <1>3 DEF Between
<1>5. Went(u, r, yes)
  BY <1>3, TimeoutProcessGoes
<1> HIDE DEF r
<1>6. Between(r) /\ Alike(u, r)
  BY <1>0, <1>4, <1>5, WentBetween
<1>7. Landed(r, StartQueue(r, zero)) /\ Landed(r, LeaveLoop(r)) /\ Landed(r, LoopTop(r, flags))
  BY <1>0, <1>6, StartQueueLands, LeaveLoopLands, LoopTopLands
<1>8. Landed(r, g)
  BY <1>g, <1>7
<1>9. Alike(s, r)
  BY <1>2, <1>6 DEF Alike
<1>10. Landed(s, g)
  BY <1>8, <1>9, LandedFrom
<1> QED BY <1>10 DEF g

-----------------------------------------------------------------------------
(* What a call of the other thread owes to a loop that sleeps.             *)

(* A notification that is pending has its byte in the socket. *)
Alert(s) == s.is_notify_pending => s.notify_byte

(* The loop in select() with the timeout w misses nothing. *)
Covered(s, w) == s.notify_byte \/ Asleep(s, w)

(* The other thread may call. *)
Calls(s, t) == Good(s) /\ Alert(s) /\ s.running_loop /\ t # "loop"

(* A notification that is needed leaves a byte. *)
LEMMA NotifyCovers ==
    ASSUME NEW s, NEW t, Calls(s, t), NEW needed, NEW w, ~needed => Covered(s, w)
    PROVE  Covered(NotifyIf(s, needed, t), w)
<1>1. CASE ~needed
  <2>1. NotifyIf(s, needed, t) = s
    BY <1>1 DEF NotifyIf
  <2> QED BY <1>1, <2>1
<1>2. CASE needed
  <2>1. "is_notify_pending" \in DOMAIN s /\ "notify_byte" \in DOMAIN s
    BY FieldNames DEF Calls, Good
  <2>2. NotifyIf(s, needed, t) = evthread_notify_base(s)
    BY <1>2 DEF NotifyIf, EVBASE_NEED_NOTIFY, Calls
  <2>3. evthread_notify_base(s).notify_byte
    BY <2>1 DEF evthread_notify_base, Calls, Alert
  <2> QED BY <2>2, <2>3 DEF Covered
<1> QED BY <1>1, <1>2

(* After a call, the next one finds the same situation. *)
LEMMA CallsAgain ==
    ASSUME NEW s, NEW t, Calls(s, t), NEW r, GoodCall(s, r, t)
    PROVE  Calls(r, t)
<1>1. r.running_loop = s.running_loop
  BY FieldNames DEF Calls, GoodCall, Good, Touches, Api
<1> QED BY <1>1 DEF Calls, GoodCall, Quiet, Alert

(* Fields that say nothing about what there is to wait for. *)
Unseen == {"ev_io_timeout", "is_notify_pending", "ev_res", "event_continue", "waiters"}

(* Fields on which sleeping does not depend. *)
LEMMA SameFields ==
    ASSUME NEW s, Good(s), NEW w, NEW r, Touches(s, r, Unseen),
           r.notify_byte = s.notify_byte, Covered(s, w)
    PROVE  Covered(r, w)
<1>1. /\ r.timeheap = s.timeheap /\ r.common = s.common /\ r.activequeues = s.activequeues
      /\ r.inserted = s.inserted /\ r.ev_timeout = s.ev_timeout /\ r.deferred = s.deferred
      /\ r.event_break = s.event_break /\ r.virtual = s.virtual /\ r.event_tv = s.event_tv
      /\ r.watched = s.watched
  BY FieldNames DEF Unseen, Touches, Good
<1>2. event_haveevents(s) <=> event_haveevents(r)
  BY <1>1 DEF event_haveevents, HasTimeout, IsActive
<1> QED BY <1>1, <1>2 DEF Covered, Asleep, ActiveSet

(* There is no less to wait for. *)
LEMMA HaveMore ==
    ASSUME NEW s, Good(s), NEW r, Good(r), r.virtual = s.virtual, s.inserted \subseteq r.inserted,
           ToSet(s.timeheap) \subseteq ToSet(r.timeheap), ToSet(s.common) \subseteq ToSet(r.common),
           ActiveSet(s) \subseteq ActiveSet(r), event_haveevents(s)
    PROVE  event_haveevents(r)
BY HaveEventsIs

(* The loop does not sleep over a descriptor that joins. *)
LEMMA InsertCovers ==
    ASSUME NEW s, NEW t, Calls(s, t), NEW e \in (IoEvents \cup Signals) \ s.inserted, NEW w, Covered(s, w)
    PROVE  Covered(Insert(s, e, t), w)
<1> DEFINE u == Insert(s, e, t)
           needed == e \in Signals \/ Added(s.io, ev_fd(e), ev_events(e)) # {}
<1>0. Good(s)
  BY DEF Calls
<1>1. Quiet(s, u, t) /\ Joins(s, e, t)
  BY <1>0, InsertIs
<1>2. PICK r : /\ Good(r) /\ Touches(s, r, {"inserted", "io"}) /\ r.inserted = s.inserted \cup {e}
               /\ u = NotifyIf(r, needed, t)
  BY <1>1 DEF Joins
<1>3. /\ r.timeheap = s.timeheap /\ r.common = s.common /\ r.activequeues = s.activequeues
      /\ r.ev_timeout = s.ev_timeout /\ r.deferred = s.deferred
      /\ r.event_break = s.event_break /\ r.virtual = s.virtual /\ r.event_tv = s.event_tv
      /\ r.watched = s.watched /\ r.notify_byte = s.notify_byte
      /\ r.is_notify_pending = s.is_notify_pending /\ r.running_loop = s.running_loop
  BY <1>0, <1>2, FieldNames DEF Touches, Good
<1>4. Calls(r, t)
  BY <1>2, <1>3 DEF Calls, Alert
<1>5. ASSUME ~needed PROVE Covered(r, w)
  <2>1. CASE s.notify_byte
    BY <2>1, <1>3 DEF Covered
  <2>2. CASE Asleep(s, w)
    <3>1. e \in IoEvents /\ \A k \in ev_events(e) : s.io.n[ev_fd(e)][k] # 0
      BY <1>5 DEF Added
    <3>2. ASSUME NEW k \in ev_events(e) PROVE <<ev_fd(e), k>> \in s.watched
      <4> DEFINE fd == ev_fd(e)
                 on == s.inserted \cap IoEvents
                 S == {x \in on : ev_fd(x) = fd /\ k \in ev_events(x)}
      <4>1. fd \in Descriptors /\ k \in Kinds
        BY <3>1, EventFacts
      <4>2. s.io.n[fd][k] = Cardinality(S)
        BY <4>1, <1>0 DEF Good, MapInv, MapIs
      <4>3. S # {}
        BY <4>2, <3>1, FS_EmptySet
      <4>4. PICK y \in S : TRUE
        BY <4>3
      <4>5. y \in on /\ <<fd, k>> \in {ev_fd(y)} \X ev_events(y)
        BY <4>4
      <4> QED BY <4>5, <2>2 DEF Asleep
    <3>3. \A x \in r.inserted \cap IoEvents : {ev_fd(x)} \X ev_events(x) \subseteq r.watched
      BY <3>2, <2>2, <1>2, <1>3 DEF Asleep
    <3>4. event_haveevents(s) => event_haveevents(r)
      <4>1. ActiveSet(r) = ActiveSet(s)
        BY <1>3 DEF ActiveSet
      <4> QED BY <4>1, <1>0, <1>2, <1>3, HaveMore
    <3>5. Asleep(r, w)
      BY <3>3, <3>4, <1>3, <2>2 DEF Asleep, ActiveSet
    <3> QED BY <3>5 DEF Covered
  <2> QED BY <2>1, <2>2 DEF Covered
<1> HIDE DEF needed
<1>6. Covered(NotifyIf(r, needed, t), w)
  BY <1>4, <1>5, NotifyCovers
<1> QED BY <1>2, <1>6

(* The loop does not sleep over a registration. *)
LEMMA RegisterCovers ==
    ASSUME NEW s, NEW t, Calls(s, t), NEW e, NEW w, Covered(s, w)
    PROVE  Covered(Register(s, e, t), w)
<1> DEFINE sig == "ev_signal"
           s1 == IF e \in Signals /\ sig \notin s.inserted THEN Insert(s, sig, t) ELSE s
           r == Register(s, e, t)
<1>0. Good(s)
  BY DEF Calls
<1>1. CASE e \notin IoEvents \cup Signals \/ e \in s.inserted \/ IsActive(s, e)
  <2>1. r = s
    BY <1>1 DEF Register
  <2> QED BY <2>1
<1>2. CASE ~(e \notin IoEvents \cup Signals \/ e \in s.inserted \/ IsActive(s, e))
  <2>1. r = Insert(s1, e, t)
    BY <1>2 DEF Register
  <2>2. sig \in IoEvents /\ sig \notin Signals
    BY EventKinds DEF Sockets
  <2> HIDE DEF sig, r
  <2>3. /\ Calls(s1, t) /\ Covered(s1, w) /\ s1.inserted \in {s.inserted, s.inserted \cup {sig}}
        /\ e \in Signals \/ s1.inserted = s.inserted
    <3>1. CASE e \in Signals /\ sig \notin s.inserted
      <4>1. s1 = Insert(s, sig, t)
        BY <3>1
      <4>2. sig \in (IoEvents \cup Signals) \ s.inserted
        BY <2>2, <3>1
      <4>3. Covered(Insert(s, sig, t), w)
        BY <4>2, InsertCovers
      <4> HIDE DEF s1
      <4>4. /\ Good(s1) /\ s1.inserted = s.inserted \cup {sig}
            /\ Touches(s, s1, {"inserted", "io"} \cup Notified) /\ Quiet(s, s1, t)
        BY <4>1, <4>2, <1>0, InsertIs
      <4>5. GoodCall(s, s1, t)
        BY <4>4 DEF GoodCall, Touches, Api, Notified
      <4>6. Calls(s1, t)
        BY <4>5, CallsAgain
      <4> QED BY <4>1, <4>3, <4>4, <4>6, <3>1
    <3>2. CASE ~(e \in Signals /\ sig \notin s.inserted)
      <4>1. s1 = s
        BY <3>2
      <4> QED BY <4>1
    <3> QED BY <3>1, <3>2
  <2> HIDE DEF s1
  <2>4. e \in (IoEvents \cup Signals) \ s1.inserted
    BY <1>2, <2>2, <2>3
  <2>5. Covered(Insert(s1, e, t), w)
    BY <2>3, <2>4, InsertCovers
  <2> QED BY <2>1, <2>5 DEF r
<1> QED BY <1>1, <1>2

(* The loop does not sleep over a timeout. *)
LEMMA SetTimeoutCovers ==
    ASSUME NEW s, NEW t, Calls(s, t), NEW e \in Events \ Sockets, NEW d \in Int, NEW w \in Int, Covered(s, w)
    PROVE  Covered(SetTimeout(s, e, d, t), w)
<1>0. Good(s)
  BY DEF Calls
<1>1. PICK r : /\ Good(r) /\ Rearmed(s, r, e, d)
               /\ SetTimeout(s, e, d, t) =
                       NotifyIf(r, \/ HasTimeout(s, e) /\ IsTop(s, e)
                                   \/ e \notin Commons /\ IsTop(r, e), t)
  BY <1>0, SetTimeoutIs, ZenonT(30)
<1> DEFINE needed == \/ HasTimeout(s, e) /\ IsTop(s, e)
                     \/ e \notin Commons /\ IsTop(r, e)
<1>2. SetTimeout(s, e, d, t) = NotifyIf(r, needed, t)
  BY <1>1
<1>3. /\ r.inserted = s.inserted /\ r.deferred = s.deferred
      /\ r.event_break = s.event_break /\ r.virtual = s.virtual /\ r.event_tv = s.event_tv
      /\ r.watched = s.watched /\ r.notify_byte = s.notify_byte
      /\ r.is_notify_pending = s.is_notify_pending /\ r.running_loop = s.running_loop
  BY <1>0, <1>1, FieldNames DEF Touches, Good, Rearmed
<1>4. Calls(r, t)
  BY <1>1, <1>3 DEF Calls, Alert
<1>5. ASSUME ~needed PROVE Covered(r, w)
  <2>1. CASE s.notify_byte
    BY <2>1, <1>3 DEF Covered
  <2>2. CASE Asleep(s, w)
    <3>1. /\ ToSet(r.timeheap) = IF e \in Commons THEN ToSet(s.timeheap) ELSE ToSet(s.timeheap) \cup {e}
          /\ ToSet(r.common) = IF e \in Commons THEN ToSet(s.common) \cup {e} ELSE ToSet(s.common)
          /\ r.ev_timeout = [s.ev_timeout EXCEPT ![e] = d]
          /\ ActiveSet(r) \subseteq ActiveSet(s)
      BY <1>1 DEF Rearmed
    <3>2. ActiveSet(r) = {} /\ ActiveSet(s) = {}
      BY <3>1, <2>2 DEF Asleep
    <3>3. event_haveevents(s) => event_haveevents(r)
      BY <3>1, <3>2, <1>0, <1>1, <1>3, HaveMore
    <3>k. /\ s.ev_timeout \in [Events -> Int] /\ r.ev_timeout \in [Events -> Int] /\ s.event_tv \in Int
          /\ ToSet(s.timeheap) \subseteq Events \ Commons /\ ToSet(r.timeheap) \subseteq Events
      BY <1>0, <1>1, TimeoutsAre DEF Good, TimeInv, LoopInv
    <3>4. \A x \in ToSet(r.timeheap) : w > 0 /\ w <= r.ev_timeout[x] - r.event_tv
      <4>1. CASE e \in Commons
        BY <4>1, <3>1, <3>k, <2>2, <1>3 DEF Asleep
      <4>2. CASE e \notin Commons
        <5> DEFINE h == Head(r.timeheap)
        <5>1. r.timeheap # <<>>
          BY <3>1, <4>2, <1>1, CommonEmpty
        <5>2. h # e
          BY <5>1, <4>2, <1>5 DEF IsTop
        <5>3. h \in ToSet(r.timeheap) /\ \A x \in ToSet(r.timeheap) : r.ev_timeout[h] <= r.ev_timeout[x]
          BY <5>1, <1>1, HeapHead
        <5> HIDE DEF h
        <5>4. h \in ToSet(s.timeheap) /\ r.ev_timeout[h] = s.ev_timeout[h]
          BY <5>2, <5>3, <3>1, <4>2, <3>k
        <5>5. w > 0 /\ w <= r.ev_timeout[h] - r.event_tv
          BY <5>4, <2>2, <1>3 DEF Asleep
        <5> TAKE x \in ToSet(r.timeheap)
        <5>6. /\ r.ev_timeout[h] <= r.ev_timeout[x] /\ r.ev_timeout[h] \in Int
              /\ r.ev_timeout[x] \in Int /\ r.event_tv \in Int
          BY <5>3, <3>k, <1>3
        <5> QED BY <5>5, <5>6
      <4> QED BY <4>1, <4>2
    <3>5. Asleep(r, w)
      BY <3>2, <3>3, <3>4, <2>2, <1>3 DEF Asleep
    <3> QED BY <3>5 DEF Covered
  <2> QED BY <2>1, <2>2 DEF Covered
<1> HIDE DEF needed
<1>6. Covered(NotifyIf(r, needed, t), w)
  BY <1>4, <1>5, NotifyCovers
<1> QED BY <1>2, <1>6

(* The loop does not sleep over a timeout and the common timer. *)
LEMMA AddTimeoutCovers ==
    ASSUME NEW s, NEW t, Calls(s, t), NEW e \in Events \ Sockets, e # "ctl_timeout",
           NEW tv \in Int, NEW absolute, clock \in Int, NEW w \in Int, Covered(s, w)
    PROVE  Covered(AddTimeout(s, e, tv, absolute, t), w)
<1> DEFINE s1 == Interval(s, e, tv, absolute)
           d == FiringAt(s1, tv, absolute)
           s2 == SetTimeout(s1, e, d, t)
           r == AddTimeout(s, e, tv, absolute, t)
<1>i. Good(s)
  BY DEF Calls
<1>0. r = IF e \in Commons /\ Head(s2.common) = e THEN ScheduleCommon(s2, t) ELSE s2
  BY DEF AddTimeout, Interval, FiringAt
<1>1. GoodCall(s, s1, t) /\ d \in Int /\ Touches(s, s1, {"ev_io_timeout"})
  BY <1>i, IntervalIs
<1> HIDE DEF s1, d, r
<1>2. Calls(s1, t)
  BY <1>1, CallsAgain
<1>3. Covered(s1, w)
  <2>1. /\ Touches(s, s1, Unseen)
        /\ s1.notify_byte = s.notify_byte
    BY <1>1, <1>i, FieldNames DEF Unseen, Touches, Good
  <2> QED BY <2>1, <1>i, SameFields
<1>4. Covered(s2, w)
  BY <1>1, <1>2, <1>3, SetTimeoutCovers
<1>5. Good(s2) /\ TimedAt(s1, s2, e, d) /\ Quiet(s1, s2, t)
  BY <1>1, <1>2, SetTimeoutSets DEF Calls
<1> HIDE DEF s2
<1>6. GoodCall(s1, s2, t)
  BY <1>5, TimedIsCall
<1>7. Calls(s2, t)
  BY <1>2, <1>6, CallsAgain
<1>8. CASE ~(e \in Commons /\ Head(s2.common) = e)
  BY <1>8, <1>0, <1>4 DEF r
<1>9. CASE e \in Commons /\ Head(s2.common) = e
  <2> DEFINE c == "ctl_timeout"
             x == s2.ev_timeout[Head(s2.common)]
  <2>1. r = SetTimeout(s2, c, x, t)
    BY <1>9, <1>0 DEF ScheduleCommon
  <2>2. c \in Events \ Sockets
    BY EventKinds
  <2>3. x \in Int
    BY <1>5, <1>9, EventKinds DEF Good, TimeInv
  <2> HIDE DEF c, x
  <2>4. Covered(SetTimeout(s2, c, x, t), w)
    BY <2>2, <2>3, <1>4, <1>7, SetTimeoutCovers
  <2> QED BY <2>1, <2>4 DEF r
<1> QED BY <1>8, <1>9

(* The loop does not sleep over event_add. *)
LEMMA AddCovers ==
    ASSUME NEW s, NEW t, Calls(s, t), NEW e \in Events, e # "ctl_timeout", NEW tv \in Int,
           tv = -1 \/ e \notin Sockets, NEW absolute, clock \in Int, NEW w \in Int, Covered(s, w)
    PROVE  Covered(event_add_internal(s, e, tv, absolute, t), w)
<1> DEFINE s1 == Register(s, e, t)
           r == event_add_internal(s, e, tv, absolute, t)
<1>i. Good(s)
  BY DEF Calls
<1>0. r = IF tv = -1 THEN s1 ELSE AddTimeout(s1, e, tv, absolute, t)
  BY DEF event_add_internal
<1>1. /\ Good(s1) /\ Touches(s, s1, {"inserted", "io"} \cup Notified) /\ Quiet(s, s1, t)
  BY <1>i, RegisterIs
<1>2. Covered(s1, w)
  BY RegisterCovers
<1> HIDE DEF s1, r
<1>3. GoodCall(s, s1, t)
  BY <1>1 DEF GoodCall, Touches, Api, Notified
<1>4. Calls(s1, t)
  BY <1>3, CallsAgain
<1>5. CASE tv = -1
  BY <1>0, <1>2, <1>5 DEF r
<1>6. CASE tv # -1
  <2>1. e \in Events \ Sockets
    BY <1>6
  <2>2. Covered(AddTimeout(s1, e, tv, absolute, t), w)
    BY <2>1, <1>2, <1>4, AddTimeoutCovers
  <2> QED BY <1>0, <1>6, <2>2 DEF r
<1> QED BY <1>5, <1>6

(* When another event of its descriptor goes on to need it. *)
LEMMA OthersStay ==
    ASSUME NEW s, Good(s), NEW e \in s.inserted, e \notin Signals \cup Internal,
           Removed(s.io, ev_fd(e), ev_events(e)) = {}
    PROVE  \E x \in Events \ Internal : x \in s.inserted \ {e}
<1> DEFINE on == s.inserted \cap IoEvents
<1>1. e \in on /\ on \in SUBSET IoEvents /\ MapIs(s.io, on)
  BY DEF Good, MapInv
<1>2. PICK k \in ev_events(e) : TRUE
  BY <1>1, EventFacts
<1>3. s.io.n[ev_fd(e)][k] # 1
  BY DEF Removed
<1> HIDE DEF on
<1>4. PICK x \in on \ {e} : ev_fd(x) = ev_fd(e)
  BY <1>1, <1>2, <1>3, CountIs
<1>5. x \in IoEvents /\ x \in s.inserted \ {e}
  BY <1>4 DEF on
<1>6. x \notin Internal
  <2>1. "ctl_timeout" \notin IoEvents
    BY EventKinds
  <2>2. ev_fd("th_notify") = "th_notify" /\ ev_fd("ev_signal") = "ev_signal"
    BY UsersAssumption, KindsAssumption DEF Users, Internal, ev_fd
  <2>3. ev_fd(e) = e \/ ev_fd(e) = "shared"
    BY DEF ev_fd
  <2>4. CASE x = "th_notify"
    <3>1. ev_fd(e) = "th_notify"
      BY <1>4, <2>2, <2>4
    <3> QED BY <3>1, <2>3 DEF Internal
  <2>5. CASE x = "ev_signal"
    <3>1. ev_fd(e) = "ev_signal"
      BY <1>4, <2>2, <2>5
    <3> QED BY <3>1, <2>3 DEF Internal
  <2> QED BY <1>5, <2>1, <2>4, <2>5 DEF Internal
<1> QED BY <1>5, <1>6, EventKinds

(* The loop does not sleep over event_del, which may leave nothing to wait for. *)
LEMMA DelCovers ==
    ASSUME NEW s, NEW t, Calls(s, t), Due(s), NEW e \in Events, NEW w \in Int, Covered(s, w)
    PROVE  Covered(event_del_internal(s, e, t), w)
<1> DEFINE u == Unqueued(s, e)
           r == event_del_internal(s, e, t)
<1>i. Good(s)
  BY DEF Calls
<1>0. r = IF e \in u.inserted THEN Uninsert(u, e, t) ELSE u
  BY DEF event_del_internal, Unqueued
<1>1. /\ Good(u) /\ Touches(s, u, {"timeheap", "common", "activequeues", "ncalls", "stray"})
      /\ ToSet(u.timeheap) = ToSet(s.timeheap) \ {e}
      /\ ToSet(u.common) = ToSet(s.common) \ {e}
      /\ ActiveSet(u) = ActiveSet(s) \ {e}
  BY <1>i, UnqueuedIs
<1> HIDE DEF u, r
<1>2. /\ u.inserted = s.inserted /\ u.deferred = s.deferred /\ u.ev_timeout = s.ev_timeout
      /\ u.event_break = s.event_break /\ u.virtual = s.virtual /\ u.event_tv = s.event_tv
      /\ u.watched = s.watched /\ u.notify_byte = s.notify_byte /\ u.io = s.io
      /\ u.is_notify_pending = s.is_notify_pending /\ u.running_loop = s.running_loop
  BY <1>i, <1>1, FieldNames DEF Touches, Good
<1>3. Calls(u, t)
  BY <1>1, <1>2 DEF Calls, Alert
<1> DEFINE Left == \/ s.virtual > 0
                   \/ \E x \in Events \ Internal : x \in s.inserted \ {e}
<1>4. ASSUME NEW x, Good(x), x.inserted = s.inserted \ {e}, Left,
             Touches(u, x, {"inserted", "io"}), Covered(s, w)
      PROVE  Covered(x, w)
  <2>1. /\ x.timeheap = u.timeheap /\ x.common = u.common /\ x.activequeues = u.activequeues
        /\ x.deferred = u.deferred /\ x.ev_timeout = u.ev_timeout
        /\ x.event_break = u.event_break /\ x.virtual = u.virtual /\ x.event_tv = u.event_tv
        /\ x.watched = u.watched /\ x.notify_byte = u.notify_byte
    BY <1>1, <1>4, FieldNames DEF Touches, Good
  <2>2. ActiveSet(x) = ActiveSet(s) \ {e}
    BY <1>1, <2>1 DEF ActiveSet
  <2>3. event_haveevents(x)
    BY <1>2, <1>4, <2>1, HaveEventsIs
  <2>4. ASSUME Asleep(s, w) PROVE Asleep(x, w)
    BY <1>1, <1>2, <1>4, <2>1, <2>2, <2>3, <2>4 DEF Asleep
  <2> QED BY <1>2, <2>1, <2>4 DEF Covered
<1>5. ASSUME NEW x, Good(x), x.inserted = s.inserted \ {e}, w >= 0,
             Touches(u, x, {"inserted", "io"}), Covered(s, w)
      PROVE  Covered(x, w)
  <2>1. /\ x.timeheap = u.timeheap /\ x.common = u.common /\ x.activequeues = u.activequeues
        /\ x.deferred = u.deferred /\ x.ev_timeout = u.ev_timeout
        /\ x.event_break = u.event_break /\ x.virtual = u.virtual /\ x.event_tv = u.event_tv
        /\ x.watched = u.watched /\ x.notify_byte = u.notify_byte
    BY <1>1, <1>5, FieldNames DEF Touches, Good
  <2>2. ActiveSet(x) = ActiveSet(s) \ {e}
    BY <1>1, <2>1 DEF ActiveSet
  <2>4. ASSUME Asleep(s, w) PROVE Asleep(x, w)
    BY <1>1, <1>2, <1>5, <2>1, <2>2, <2>4 DEF Asleep
  <2> QED BY <1>2, <2>1, <2>4 DEF Covered
<1>6. ASSUME Asleep(s, w), ~(w >= 0) PROVE s.virtual > 0 \/ \E x \in Events \ Internal : x \in s.inserted
  <2>1. ToSet(s.timeheap) = {}
    BY <1>6 DEF Asleep
  <2>2. ToSet(s.common) = {} /\ ActiveSet(s) = {}
    BY <1>6, <2>1 DEF Asleep, Due
  <2>3. event_haveevents(s)
    BY <1>6 DEF Asleep
  <2> QED BY <2>1, <2>2, <2>3, <1>i, HaveEventsIs
<1>7. CASE e \notin s.inserted
  <2>1. r = u /\ u.inserted = s.inserted \ {e}
    BY <1>0, <1>2, <1>7
  <2>2. Touches(u, u, {"inserted", "io"})
    BY DEF Touches
  <2>3. CASE w >= 0
    BY <2>1, <2>2, <2>3, <1>1, <1>5 DEF r
  <2>4. CASE ~(w >= 0) /\ Asleep(s, w)
    <3>1. Left
      BY <2>4, <1>6, <1>7
    <3> QED BY <3>1, <2>1, <2>2, <1>1, <1>4 DEF r
  <2>5. CASE s.notify_byte
    BY <2>5, <2>1, <1>2 DEF Covered, r
  <2> QED BY <2>3, <2>4, <2>5 DEF Covered
<1>8. CASE e \in s.inserted
  <2>0. r = Uninsert(u, e, t) /\ e \in u.inserted
    BY <1>0, <1>2, <1>8
  <2>1. Parts(u, e, t)
    BY <2>0, <1>1, UninsertIs
  <2> DEFINE needed == e \in Signals \/ Removed(u.io, ev_fd(e), ev_events(e)) # {}
  <2>2. PICK x : /\ Good(x) /\ Touches(u, x, {"inserted", "io"}) /\ x.inserted = u.inserted \ {e}
                 /\ r = NotifyIf(x, needed, t)
    BY <2>0, <2>1 DEF Parts
  <2>3. /\ x.notify_byte = s.notify_byte
        /\ x.is_notify_pending = s.is_notify_pending /\ x.running_loop = s.running_loop
    BY <1>1, <1>2, <2>2, FieldNames DEF Touches, Good
  <2>4. Calls(x, t)
    BY <2>2, <2>3 DEF Calls, Alert
  <2>5. ASSUME ~needed PROVE Covered(x, w)
    <3>0. x.inserted = s.inserted \ {e}
      BY <2>2, <1>2
    <3>1. CASE w >= 0
      BY <3>0, <3>1, <2>2, <1>5
    <3>2. CASE ~(w >= 0) /\ Asleep(s, w)
      <4>1. e \notin Signals /\ Removed(s.io, ev_fd(e), ev_events(e)) = {}
        BY <2>5, <1>2
      <4>2. Left
        <5>1. CASE e \in Internal
          BY <5>1, <3>2, <1>6
        <5>2. CASE e \notin Internal
          <6>1. \E y \in Events \ Internal : y \in s.inserted \ {e}
            BY <5>2, <4>1, <1>8, <1>i, OthersStay
          <6> QED BY <6>1
        <5> QED BY <5>1, <5>2
      <4> QED BY <4>2, <3>0, <2>2, <1>4
    <3>3. CASE s.notify_byte
      BY <3>3, <2>3 DEF Covered
    <3> QED BY <3>1, <3>2, <3>3 DEF Covered
  <2> HIDE DEF needed
  <2>6. Covered(NotifyIf(x, needed, t), w)
    BY <2>4, <2>5, NotifyCovers
  <2> QED BY <2>2, <2>6 DEF r
<1> QED BY <1>7, <1>8

(* The loop does not sleep over an active event. *)
LEMMA QueueActiveCovers ==
    ASSUME NEW s, NEW t, Calls(s, t), NEW e \in Events, NEW calls, NEW w
    PROVE  Covered(QueueActive(s, e, calls, t), w)
<1> DEFINE s1 == IF e \in Signals
                 THEN [s EXCEPT !.ev_ncalls[e] = calls, !.ev_pncalls[e] = FALSE] ELSE s
           s2 == InsertActive(s1, e)
           yes == TRUE
<1>0. QueueActive(s, e, calls, t) = NotifyIf(s2, yes, t) /\ yes /\ Good(s)
  BY DEF QueueActive, Calls
<1>1. Touches(s, s1, {"ev_ncalls", "ev_pncalls"})
  BY DEF Touches
<1> HIDE DEF s1, yes
<1>2. Good(s1)
  <2>1. Touches(s, s1, Harmless)
    BY <1>1 DEF Touches, Harmless
  <2> QED BY <2>1, <1>0, HarmlessIsGood
<1>3. Good(s2) /\ Touches(s1, s2, {"activequeues"})
  BY <1>2, InsertActiveIs
<1> HIDE DEF s2
<1>4. /\ s2.notify_byte = s.notify_byte
      /\ s2.is_notify_pending = s.is_notify_pending /\ s2.running_loop = s.running_loop
  BY <1>0, <1>1, <1>2, <1>3, FieldNames DEF Touches, Good
<1>5. Calls(s2, t)
  BY <1>3, <1>4 DEF Calls, Alert
<1>6. Covered(NotifyIf(s2, yes, t), w)
  BY <1>0, <1>5, NotifyCovers
<1> QED BY <1>0, <1>6

(* A result that is noted does not matter to the loop in select(). *)
LEMMA MarkCovers ==
    ASSUME NEW s, NEW t, Calls(s, t), NEW e, NEW res, NEW w
    PROVE  Calls(MarkResult(s, e, res), t) /\ (Covered(s, w) => Covered(MarkResult(s, e, res), w))
<1> DEFINE r == MarkResult(s, e, res)
<1>i. Good(s)
  BY DEF Calls
<1>1. Good(r) /\ Touches(s, r, {"ev_res", "event_continue"})
  BY <1>i, MarkResultIs
<1> HIDE DEF r
<1>2. /\ r.notify_byte = s.notify_byte
      /\ r.is_notify_pending = s.is_notify_pending /\ r.running_loop = s.running_loop
  BY <1>i, <1>1, FieldNames DEF Touches, Good
<1>3. Calls(r, t)
  BY <1>1, <1>2 DEF Calls, Alert
<1>4. Touches(s, r, Unseen)
  BY <1>1 DEF Unseen, Touches
<1>5. Covered(s, w) => Covered(r, w)
  BY <1>i, <1>2, <1>4, SameFields
<1> QED BY <1>3, <1>5 DEF r

(* The loop does not sleep over event_active. *)
LEMMA ActiveCovers ==
    ASSUME NEW s, NEW t, Calls(s, t), NEW e \in Events, NEW res, NEW calls, NEW w, Covered(s, w)
    PROVE  Covered(event_active_nolock(s, e, res, calls, t), w)
<1> DEFINE m == MarkResult(s, e, res)
           r == event_active_nolock(s, e, res, calls, t)
<1>i. Good(s)
  BY DEF Calls
<1>1. CASE IsActive(s, e)
  <2>1. r = [s EXCEPT !.ev_res[e] = @ \cup {res}]
    BY <1>1 DEF event_active_nolock
  <2>2. Touches(s, r, {"ev_res"})
    BY <2>1 DEF Touches
  <2> HIDE DEF r
  <2>3. Touches(s, r, Unseen)
    BY <2>2 DEF Unseen, Touches
  <2>4. r.notify_byte = s.notify_byte
    BY <1>i, <2>2, FieldNames DEF Touches, Good
  <2>5. Covered(r, w)
    BY <1>i, <2>3, <2>4, SameFields
  <2> QED BY <2>5 DEF r
<1>2. CASE ~IsActive(s, e)
  <2>1. r = QueueActive(m, e, calls, t)
    BY <1>2 DEF event_active_nolock
  <2>2. Calls(m, t)
    BY MarkCovers
  <2> HIDE DEF m
  <2>3. Covered(QueueActive(m, e, calls, t), w)
    BY <2>2, QueueActiveCovers
  <2> QED BY <2>1, <2>3
<1> QED BY <1>1, <1>2

-----------------------------------------------------------------------------
(* The calls of the API.                                                   *)

(* The fields that a call may change. *)
CallFields == Api \cup {"deferred", "event_break", "virtual", "waiters"}

(* What a call of thread t leaves. *)
Served(s, r, t) ==
    /\ Good(r) /\ Touches(s, r, CallFields) /\ Quiet(s, r, t)
    /\ "th_notify" \in s.inserted => "th_notify" \in r.inserted
    /\ Due(s) => Due(r)
    /\ s.virtual \in 0..1 => r.virtual \in 0..1
    /\ \A w \in Int : Calls(s, t) /\ Due(s) /\ Covered(s, w) => Covered(r, w)

(* A call that leaves the other fields alone. *)
LEMMA CallServes ==
    ASSUME NEW s, Good(s), NEW r, NEW t, GoodCall(s, r, t), Due(s) => Due(r),
           "th_notify" \in s.inserted => "th_notify" \in r.inserted,
           \A w \in Int : Calls(s, t) /\ Due(s) /\ Covered(s, w) => Covered(r, w)
    PROVE  Served(s, r, t)
<1>1. r.virtual = s.virtual
  BY FieldNames DEF GoodCall, Touches, Api, Good
<1>2. Touches(s, r, CallFields)
  BY DEF GoodCall, Touches, CallFields
<1> QED BY <1>1, <1>2 DEF Served, GoodCall

(* event_add. *)
LEMMA AddServes ==
    ASSUME NEW s, Good(s), NEW e \in Events \ Sockets, e # "ctl_timeout", NEW tv \in Int,
           NEW absolute, NEW t, clock \in Int
    PROVE  Served(s, event_add_internal(s, e, tv, absolute, t), t)
<1> DEFINE r == event_add_internal(s, e, tv, absolute, t)
<1>1. GoodCall(s, r, t) /\ (Due(s) => Due(r)) /\ s.inserted \subseteq r.inserted
  BY AddIs
<1>2. \A w \in Int : Calls(s, t) /\ Due(s) /\ Covered(s, w) => Covered(r, w)
  BY AddCovers
<1> HIDE DEF r
<1>3. Served(s, r, t)
  BY <1>1, <1>2, CallServes
<1> QED BY <1>3 DEF r

(* event_del. *)
LEMMA DelServes ==
    ASSUME NEW s, Good(s), NEW e \in Events \ Sockets, e # "ctl_timeout", NEW t
    PROVE  Served(s, event_del_internal(s, e, t), t)
<1> DEFINE r == event_del_internal(s, e, t)
<1>1. GoodCall(s, r, t) /\ (Due(s) => Due(r)) /\ Deleted(s, r, e)
  BY DelIs
<1>2. \A w \in Int : Calls(s, t) /\ Due(s) /\ Covered(s, w) => Covered(r, w)
  BY DelCovers
<1> HIDE DEF r
<1>3. "th_notify" \in s.inserted => "th_notify" \in r.inserted
  BY <1>1 DEF Deleted, Sockets
<1>4. Served(s, r, t)
  BY <1>1, <1>2, <1>3, CallServes
<1> QED BY <1>4 DEF r

(* event_active. *)
LEMMA ActiveServes ==
    ASSUME NEW s, Good(s), NEW e \in Events, NEW res, NEW calls, NEW t
    PROVE  Served(s, event_active_nolock(s, e, res, calls, t), t)
<1> DEFINE r == event_active_nolock(s, e, res, calls, t)
<1>1. GoodCall(s, r, t) /\ Activated(s, r, e)
  BY ActiveIs
<1>2. \A w \in Int : Calls(s, t) /\ Due(s) /\ Covered(s, w) => Covered(r, w)
  BY ActiveCovers
<1> HIDE DEF r
<1>3. r.inserted = s.inserted /\ (Due(s) => Due(r))
  BY <1>1, ActivatedIsDue, FieldNames DEF Activated, Touches, Good, Notified
<1>4. Served(s, r, t)
  BY <1>1, <1>2, <1>3, CallServes
<1> QED BY <1>4 DEF r

(* event_active, after it waited. *)
LEMMA QueueActiveServes ==
    ASSUME NEW s, Good(s), NEW e \in Events, NEW calls, NEW t
    PROVE  Served(s, QueueActive(s, e, calls, t), t)
<1> DEFINE r == QueueActive(s, e, calls, t)
<1>1. GoodCall(s, r, t) /\ Activated(s, r, e)
  BY QueueActiveIs
<1>2. \A w \in Int : Calls(s, t) /\ Due(s) /\ Covered(s, w) => Covered(r, w)
  BY QueueActiveCovers
<1> HIDE DEF r
<1>3. r.inserted = s.inserted /\ (Due(s) => Due(r))
  BY <1>1, ActivatedIsDue, FieldNames DEF Activated, Touches, Good, Notified
<1>4. Served(s, r, t)
  BY <1>1, <1>2, <1>3, CallServes
<1> QED BY <1>4 DEF r

(* A call that waits for the callback. *)
LEMMA WaitServes ==
    ASSUME NEW s, Good(s), NEW r, Touches(s, r, {"ev_res", "event_continue", "waiters"}), NEW t
    PROVE  Served(s, r, t)
<1>1. Touches(s, r, Harmless) /\ Touches(s, r, CallFields) /\ Touches(s, r, Unseen)
  BY DEF Touches, Harmless, CallFields, Api, Unseen
<1>2. Good(r)
  BY <1>1, HarmlessIsGood
<1>3. /\ r.notify_byte = s.notify_byte /\ r.is_notify_pending = s.is_notify_pending
      /\ r.inserted = s.inserted /\ r.virtual = s.virtual
      /\ r.timeheap = s.timeheap /\ r.common = s.common /\ r.activequeues = s.activequeues
      /\ r.ev_timeout = s.ev_timeout
  BY FieldNames DEF Touches, Good
<1>4. Due(s) => Due(r)
  BY <1>3, DueCongruence DEF ActiveSet
<1>5. \A w \in Int : Covered(s, w) => Covered(r, w)
  BY <1>1, <1>3, SameFields
<1> QED BY <1>1, <1>2, <1>3, <1>4, <1>5 DEF Served, Quiet

(* Calls that leave the queues of events alone and then notify. *)
LEMMA NotifyServes ==
    ASSUME NEW s, Good(s), NEW r, Good(r), Touches(s, r, {"deferred", "event_break", "virtual"}),
           s.virtual \in 0..1 => r.virtual \in 0..1, NEW needed, NEW t,
           \A w \in Int : Asleep(s, w) /\ ~needed /\ s.virtual \in 0..1 => Asleep(r, w)
    PROVE  s.virtual \in 0..1 => Served(s, NotifyIf(r, needed, t), t)
<1> SUFFICES ASSUME s.virtual \in 0..1 PROVE Served(s, NotifyIf(r, needed, t), t)
  OBVIOUS
<1> DEFINE u == NotifyIf(r, needed, t)
<1>1. Good(u) /\ Touches(r, u, Notified) /\ Quiet(r, u, t)
  BY NotifyIfIs
<1>2. ASSUME NEW w \in Int, Calls(s, t), Covered(s, w) PROVE Covered(u, w)
  <2>1. /\ r.notify_byte = s.notify_byte /\ r.is_notify_pending = s.is_notify_pending
        /\ r.running_loop = s.running_loop
    BY FieldNames DEF Touches, Good
  <2>2. Calls(r, t)
    BY <1>2, <2>1 DEF Calls, Alert
  <2>3. ~needed => Covered(r, w)
    BY <1>2, <2>1 DEF Covered
  <2> QED BY <2>2, <2>3, NotifyCovers
<1> HIDE DEF u
<1>3. /\ r.notify_byte = s.notify_byte /\ r.is_notify_pending = s.is_notify_pending
      /\ u.inserted = s.inserted /\ u.virtual = r.virtual
      /\ u.timeheap = s.timeheap /\ u.common = s.common /\ u.activequeues = s.activequeues
      /\ u.ev_timeout = s.ev_timeout
  BY <1>1, FieldNames DEF Touches, Good, Notified
<1>4. Due(s) => Due(u)
  BY <1>3, DueCongruence DEF ActiveSet
<1>5. Touches(s, u, CallFields)
  BY <1>1 DEF Touches, CallFields, Notified, Api
<1>6. Served(s, u, t)
  BY <1>1, <1>2, <1>3, <1>4, <1>5 DEF Served, Quiet
<1> QED BY <1>6 DEF u

(* event_deferred_cb_schedule. *)
LEMMA ScheduleServes ==
    ASSUME NEW s, Good(s), s.virtual \in 0..1, NEW d \in Deferreds, NEW t
    PROVE  Served(s, event_deferred_cb_schedule(s, d, t), t)
<1> DEFINE r == [s EXCEPT !.deferred = Append(@, d)]
           yes == TRUE
<1>0. s.deferred \in Seq(Deferreds) /\ IsInjective(s.deferred) /\ "deferred" \in DOMAIN s /\ yes
  BY FieldNames DEF Good, DeferInv
<1>1. CASE Contains(s.deferred, d)
  <2>1. event_deferred_cb_schedule(s, d, t) = s
    BY <1>1 DEF event_deferred_cb_schedule
  <2>2. Touches(s, s, {"ev_res", "event_continue", "waiters"})
    BY DEF Touches
  <2> QED BY <2>1, <2>2, WaitServes
<1>2. CASE ~Contains(s.deferred, d)
  <2>1. event_deferred_cb_schedule(s, d, t) = NotifyIf(r, yes, t)
    BY <1>2 DEF event_deferred_cb_schedule
  <2>2. Touches(s, r, {"deferred"}) /\ r.deferred = Append(s.deferred, d)
    BY <1>0 DEF Touches
  <2> HIDE DEF r, yes
  <2>3. DeferInv(r)
    <3> DEFINE q == s.deferred
    <3> HIDE DEF q
    <3>1. q \in Seq(Deferreds) /\ IsInjective(q) /\ ~Contains(q, d) /\ r.deferred = Append(q, d)
      BY <1>0, <1>2, <2>2 DEF q
    <3>2. d \notin ToSet(q)
      BY <3>1, MembersAre
    <3>3. r.deferred \in Seq(Deferreds) /\ IsInjective(r.deferred)
      BY <3>1, <3>2, AppendToQueue
    <3> QED BY <3>3 DEF DeferInv
  <2>4. Good(r)
    <3>1. Touches(s, r, Harmless \cup {"deferred"})
      BY <2>2 DEF Touches
    <3> QED BY <3>1, <2>3, DeferredsChange
  <2>5. Touches(s, r, {"deferred", "event_break", "virtual"}) /\ r.virtual = s.virtual
    BY <2>2, FieldNames DEF Touches, Good
  <2> QED BY <1>0, <2>1, <2>4, <2>5, NotifyServes
<1> QED BY <1>1, <1>2

(* Nothing that the loop waits for has changed. *)
LEMMA AsleepKept ==
    ASSUME NEW s, Good(s), NEW r, Touches(s, r, {"deferred", "event_break", "virtual"}), NEW w, Asleep(s, w),
           r.deferred = s.deferred, r.event_break = s.event_break, r.virtual = s.virtual \/ r.virtual > 0
    PROVE  Asleep(r, w)
<1>1. /\ r.timeheap = s.timeheap /\ r.common = s.common /\ r.activequeues = s.activequeues
      /\ r.inserted = s.inserted /\ r.ev_timeout = s.ev_timeout
      /\ r.event_tv = s.event_tv /\ r.watched = s.watched
  BY FieldNames DEF Touches, Good
<1>2. event_haveevents(s) => event_haveevents(r)
  BY <1>1 DEF event_haveevents, HasTimeout, IsActive
<1> QED BY <1>1, <1>2 DEF Asleep, ActiveSet

(* event_deferred_cb_cancel. *)
LEMMA CancelServes ==
    ASSUME NEW s, Good(s), s.virtual \in 0..1, NEW d, NEW t
    PROVE  Served(s, event_deferred_cb_cancel(s, d), t)
<1> DEFINE r == event_deferred_cb_cancel(s, d)
           no == FALSE
<1>0. s.deferred \in Seq(Deferreds) /\ IsInjective(s.deferred) /\ "deferred" \in DOMAIN s /\ ~no
  BY FieldNames DEF Good, DeferInv
<1>1. Touches(s, r, {"deferred"}) /\ r.deferred = RemoveFirst(s.deferred, d)
  BY <1>0 DEF Touches, event_deferred_cb_cancel
<1>2. NotifyIf(r, no, t) = r
  BY DEF NotifyIf
<1> HIDE DEF r, no
<1>q. /\ RemoveFirst(s.deferred, d) \in Seq(Deferreds) /\ IsInjective(RemoveFirst(s.deferred, d))
      /\ d \notin ToSet(s.deferred) => RemoveFirst(s.deferred, d) = s.deferred
  <2> DEFINE q == s.deferred
  <2> HIDE DEF q
  <2>1. q \in Seq(Deferreds) /\ IsInjective(q)
    BY <1>0 DEF q
  <2>2. /\ RemoveFirst(q, d) \in Seq(Deferreds) /\ IsInjective(RemoveFirst(q, d))
        /\ d \notin ToSet(q) => RemoveFirst(q, d) = q
    BY <2>1, RemoveFromQueue
  <2> QED BY <2>2 DEF q
<1>3. DeferInv(r)
  BY <1>1, <1>q DEF DeferInv
<1>4. Good(r)
  <2>1. Touches(s, r, Harmless \cup {"deferred"})
    BY <1>1 DEF Touches
  <2> QED BY <2>1, <1>3, DeferredsChange
<1>5. /\ Touches(s, r, {"deferred", "event_break", "virtual"}) /\ r.virtual = s.virtual
      /\ r.event_break = s.event_break
  BY <1>1, FieldNames DEF Touches, Good
<1>6. ASSUME NEW w \in Int, Asleep(s, w) PROVE Asleep(r, w)
  <2>1. s.deferred = <<>>
    BY <1>6 DEF Asleep
  <2>2. d \notin ToSet(s.deferred)
    BY <2>1, <1>0, EmptyQueue
  <2>3. r.deferred = s.deferred
    BY <2>2, <1>1, <1>q
  <2> QED BY <2>3, <1>5, <1>6, AsleepKept
<1>7. Served(s, NotifyIf(r, no, t), t)
  BY <1>4, <1>5, <1>6, NotifyServes
<1> QED BY <1>2, <1>7 DEF r

(* event_base_loopbreak. *)
LEMMA BreakServes ==
    ASSUME NEW s, Good(s), s.virtual \in 0..1, NEW t
    PROVE  Served(s, event_base_loopbreak(s, t), t)
<1> DEFINE r == [s EXCEPT !.event_break = TRUE]
           yes == TRUE
<1>1. event_base_loopbreak(s, t) = NotifyIf(r, yes, t) /\ yes
  BY DEF event_base_loopbreak
<1>2. Touches(s, r, {"event_break"})
  BY DEF Touches
<1> HIDE DEF r, yes
<1>3. Touches(s, r, Harmless) /\ Touches(s, r, {"deferred", "event_break", "virtual"})
  BY <1>2 DEF Touches, Harmless
<1>4. Good(r) /\ r.virtual = s.virtual
  BY <1>2, <1>3, HarmlessIsGood, FieldNames DEF Touches, Good
<1> QED BY <1>1, <1>3, <1>4, NotifyServes

(* event_base_add_virtual and event_base_del_virtual. *)
LEMMA VirtualServes ==
    ASSUME NEW s, Good(s), s.virtual \in 0..1, NEW t
    PROVE  Served(s, IF s.virtual = 0 THEN event_base_add_virtual(s) ELSE event_base_del_virtual(s, t), t)
<1> DEFINE add == [s EXCEPT !.virtual = @ + 1]
           del == [s EXCEPT !.virtual = @ - 1]
           no == FALSE
           needed == s.virtual = 1
<1>0. "virtual" \in DOMAIN s
  BY FieldNames DEF Good
<1>1. /\ event_base_add_virtual(s) = NotifyIf(add, no, t) /\ ~no
      /\ event_base_del_virtual(s, t) = NotifyIf(del, needed, t)
  BY DEF event_base_add_virtual, event_base_del_virtual, NotifyIf
<1>2. /\ Touches(s, add, {"virtual"}) /\ add.virtual = s.virtual + 1
      /\ Touches(s, del, {"virtual"}) /\ del.virtual = s.virtual - 1
  BY <1>0 DEF Touches
<1> HIDE DEF add, del, no
<1>3. /\ Touches(s, add, Harmless) /\ Touches(s, add, {"deferred", "event_break", "virtual"})
      /\ Touches(s, del, Harmless) /\ Touches(s, del, {"deferred", "event_break", "virtual"})
  BY <1>2 DEF Touches, Harmless
<1>4. Good(add) /\ Good(del)
  BY <1>3, HarmlessIsGood
<1>5. CASE s.virtual = 0
  <2>1. add.virtual = 1 /\ add.virtual \in 0..1 /\ add.virtual > 0
    BY <1>2, <1>5
  <2>2. add.deferred = s.deferred /\ add.event_break = s.event_break
    BY <1>2, FieldNames DEF Touches, Good
  <2>3. \A w : Asleep(s, w) => Asleep(add, w)
    BY <2>1, <2>2, <1>3, AsleepKept
  <2>4. Served(s, NotifyIf(add, no, t), t)
    BY <2>1, <2>3, <1>3, <1>4, NotifyServes
  <2> QED BY <2>4, <1>1, <1>5
<1>6. CASE s.virtual # 0
  <2>1. s.virtual = 1
    BY <1>6
  <2>2. needed /\ del.virtual \in 0..1
    BY <1>2, <2>1
  <2> HIDE DEF needed
  <2>3. Served(s, NotifyIf(del, needed, t), t)
    BY <2>2, <1>3, <1>4, NotifyServes
  <2> QED BY <2>3, <1>1, <1>6
<1> QED BY <1>5, <1>6

-----------------------------------------------------------------------------
(* event_base_new, event_reinit and event_base_free.                       *)

(* No descriptor has an event. *)
LEMMA EmptyMap ==
    MapIs(win32_init(Descriptors), {})
<1> DEFINE io == win32_init(Descriptors)
<1>1. /\ DOMAIN io = {"events", "n", "pos", "set"}
      /\ io.events = [fd \in Descriptors |-> <<>>]
      /\ io.n = [fd \in Descriptors |-> [k \in Kinds |-> 0]]
      /\ io.pos = [fd \in Descriptors |-> [k \in Kinds |-> 0]]
      /\ io.set = [k \in Kinds |-> <<>>]
      /\ io = [events |-> io.events, n |-> io.n, pos |-> io.pos, set |-> io.set]
  BY DEF win32_init
<1> HIDE DEF io
<1>2. /\ io.events \in [Descriptors -> Seq(IoEvents)] /\ io.n \in [Descriptors -> [Kinds -> Nat]]
      /\ io.pos \in [Descriptors -> [Kinds -> Nat]] /\ io.set \in [Kinds -> Seq(Descriptors)]
  BY <1>1
<1>3. io \in IoType
  BY <1>1, <1>2 DEF IoType
<1>4. \A S : {x \in {} : x \in S} = {}
  OBVIOUS
<1>5. ASSUME NEW fd \in Descriptors
      PROVE  IsInjective(io.events[fd]) /\ ToSet(io.events[fd]) = {e \in {} : ev_fd(e) = fd}
  <2>1. io.events[fd] = <<>>
    BY <1>1
  <2>2. IsInjective(<<>>) /\ ToSet(<<>>) = {}
    BY DEF IsInjective, ToSet
  <2> QED BY <2>1, <2>2
<1>6. ASSUME NEW fd \in Descriptors, NEW k \in Kinds
      PROVE  io.n[fd][k] = Cardinality({e \in {} : ev_fd(e) = fd /\ k \in ev_events(e)})
  <2>1. {e \in {} : ev_fd(e) = fd /\ k \in ev_events(e)} = {}
    OBVIOUS
  <2>2. io.n[fd][k] = 0
    BY <1>1
  <2> QED BY <2>1, <2>2, FS_EmptySet
<1>7. ASSUME NEW k \in Kinds PROVE ArrayOK(io, k, Busy(io, k))
  <2>1. /\ \A fd \in Descriptors : io.n[fd][k] = 0 /\ io.pos[fd][k] = 0
        /\ Len(io.set[k]) = 0
    BY <1>1
  <2>2. Busy(io, k) = {}
    BY <2>1 DEF Busy
  <2> QED BY <2>1, <2>2 DEF ArrayOK
<1>8. MapIs(io, {})
  BY <1>3, <1>5, <1>6, <1>7 DEF MapIs
<1> QED BY <1>8 DEF io

(* The event of the notification socket. *)
LEMMA NotifyEvent ==
    ev_fd("th_notify") = "th_notify" /\ ev_events("th_notify") = {"read"}
<1>1. "th_notify" \notin Users
  BY KindsAssumption DEF Internal
<1>2. "th_notify" \notin Sharing /\ "th_notify" \notin Writers
  BY <1>1, UsersAssumption DEF Users
<1> QED BY <1>2 DEF ev_fd, ev_events

(* event_base_new gives a well-formed base. *)
LEMMA NewBaseIsGood ==
    Good(event_base_new) /\ Due(event_base_new)
<1> DEFINE s == event_base_new
           empty == win32_init(Descriptors)
           non == {}
           e == "th_notify"
<1>1. /\ DOMAIN s = Fields
      /\ s.inserted = {"th_notify"}
      /\ s.io = evmap_io_add(empty, "th_notify", "th_notify", {"read"})
      /\ s.activequeues = [q \in 0..1 |-> <<>>]
      /\ s.timeheap = <<>> /\ s.common = <<>> /\ s.deferred = <<>>
      /\ s.ev_timeout = [x \in Events |-> 0] /\ s.ev_io_timeout = [x \in Events |-> 0]
      /\ s.watched = {} /\ s.tv_cache = 0 /\ s.event_tv = 1
  BY DEF event_base_new, Fields
<1>2. /\ e = "th_notify" /\ non = {} /\ e \in IoEvents /\ e \notin non
      /\ non \in SUBSET IoEvents /\ non \cup {e} = {"th_notify"}
  BY EventKinds DEF Sockets
<1>3. MapIs(empty, non)
  BY EmptyMap
<1> HIDE DEF s, empty, non, e
<1>4. MapIs(evmap_io_add(empty, ev_fd(e), e, ev_events(e)), non \cup {e})
  BY <1>2, <1>3, MapAdd
<1>5. MapInv(s)
  <2>1. s.io = evmap_io_add(empty, ev_fd(e), e, ev_events(e))
    BY <1>1, <1>2, NotifyEvent
  <2>2. s.inserted \cap IoEvents = non \cup {e}
    BY <1>1, <1>2
  <2>3. s.inserted \in SUBSET (IoEvents \cup Signals)
    BY <1>1, <1>2
  <2> QED BY <2>1, <2>2, <2>3, <1>4 DEF MapInv
<1>6. \A S : <<>> \in Seq(S) /\ IsInjective(<<>>) /\ ToSet(<<>>) = {} /\ Len(<<>>) = 0
  BY DEF IsInjective, ToSet
<1>7. TimeInv(s)
  <2>1. s.ev_timeout \in [Events -> Int]
    BY <1>1
  <2>2. IsHeap(<<>>, s.ev_timeout)
    BY <1>6 DEF IsHeap
  <2>3. HeapInv(s)
    BY <1>1, <1>6, <2>2 DEF HeapInv
  <2>4. CommonInv(s)
    BY <1>1, <1>6 DEF CommonInv, InOrder
  <2> QED BY <2>1, <2>3, <2>4 DEF TimeInv
<1>8. IntervalInv(s)
  BY <1>1, EventKinds DEF IntervalInv
<1>9. ActiveInv(s)
  <2>1. s.activequeues \in [0..1 -> Seq(Events)] /\ \A q \in 0..1 : s.activequeues[q] = <<>>
    BY <1>1
  <2> QED BY <2>1, <1>6 DEF ActiveInv
<1>10. DeferInv(s) /\ LoopInv(s)
  BY <1>1, <1>6 DEF DeferInv, LoopInv
<1>11. Good(s)
  BY <1>1, <1>5, <1>7, <1>8, <1>9, <1>10 DEF Good
<1>12. Due(s)
  BY <1>1, <1>6 DEF Due
<1> QED BY <1>11, <1>12 DEF s

(* A map is built from a list of events. *)
LEMMA MapAllIs ==
    ASSUME NEW q \in Seq(IoEvents), IsInjective(q)
    PROVE  MapIs(MapAll(win32_init(Descriptors), q), ToSet(q))
<1> DEFINE s == win32_init(Descriptors)
           N == Len(q)
           to(i) == {q[j] : j \in 1..i}
<1>1. N \in Nat /\ DOMAIN q = 1..N /\ \A i \in 1..N : q[i] \in IoEvents
  OBVIOUS
<1>2. \A i, j \in 1..N : q[i] = q[j] => i = j
  BY <1>1 DEF IsInjective
<1>3. PICK f : MapRun(f, s, q, N)
  BY <1>1, MapTurns
<1>4. /\ f[0] = s /\ f[N] = MapAll(s, q)
      /\ \A i \in 0..N : i < N =>
            f[i + 1] = evmap_io_add(f[i], ev_fd(q[i + 1]), q[i + 1], ev_events(q[i + 1]))
  BY <1>3 DEF MapRun
<1> DEFINE P == {i \in 0..N : MapIs(f[i], to(i))}
<1>5. MapIs(s, {})
  BY EmptyMap
<1> HIDE DEF s, N
<1>6. 0 \in P
  <2>1. to(0) = {}
    OBVIOUS
  <2>2. MapIs(f[0], to(0))
    <3> HIDE DEF to
    <3> QED BY <2>1, <1>4, <1>5
  <2>3. 0 \in 0..N
    BY <1>1
  <2> QED BY <2>2, <2>3
<1>7. ASSUME NEW i \in 0..N, i < N, i \in P PROVE i + 1 \in P
  <2> DEFINE on == to(i)
             io == f[i]
             e == q[i + 1]
  <2>1. i \in Nat /\ i + 1 \in 1..N /\ i + 1 \in 0..N
    BY <1>1, <1>7
  <2>2. e \in IoEvents
    BY <1>1, <2>1
  <2>3. on \in SUBSET IoEvents
    BY <1>1, <2>1
  <2>4. e \notin on
    <3>1. ASSUME NEW j \in 1..i PROVE q[j] # q[i + 1]
      <4>1. j \in 1..N /\ j # i + 1
        BY <2>1, <1>1
      <4> QED BY <4>1, <2>1, <1>2
    <3> QED BY <3>1
  <2>5. to(i + 1) = on \cup {e}
    <3>1. 1..(i + 1) = (1..i) \cup {i + 1}
      BY <2>1
    <3> QED BY <3>1
  <2>6. MapIs(io, on)
    BY <1>7
  <2>7. f[i + 1] = evmap_io_add(io, ev_fd(e), e, ev_events(e))
    BY <1>4, <1>7
  <2> HIDE DEF on, io, e
  <2>8. MapIs(evmap_io_add(io, ev_fd(e), e, ev_events(e)), on \cup {e})
    BY <2>2, <2>3, <2>4, <2>6, MapAdd
  <2>9. MapIs(f[i + 1], to(i + 1))
    BY <2>5, <2>7, <2>8
  <2> QED BY <2>1, <2>9
<1>8. 0..N \subseteq P
  <2> HIDE DEF P
  <2> QED BY <1>1, <1>6, <1>7, UpTo
<1>9. MapIs(f[N], to(N))
  <2>1. N \in 0..N
    BY <1>1
  <2>2. N \in P
    BY <1>8, <2>1
  <2> QED BY <2>2
<1>10. to(N) = ToSet(q)
  BY <1>1 DEF ToSet
<1> QED BY <1>4, <1>9, <1>10 DEF s

(* Two lists one after the other. *)
LEMMA ConcatQueues ==
    ASSUME NEW S, NEW p \in Seq(S), NEW q \in Seq(S)
    PROVE  /\ p \o q \in Seq(S)
           /\ ToSet(p \o q) = ToSet(p) \cup ToSet(q)
           /\ IsInjective(p) /\ IsInjective(q) /\ ToSet(p) \cap ToSet(q) = {} => IsInjective(p \o q)
<1>1. /\ p \o q \in Seq(S) /\ Len(p \o q) = Len(p) + Len(q)
      /\ Len(p) \in Nat /\ Len(q) \in Nat
      /\ \A i \in 1..(Len(p) + Len(q)) : (p \o q)[i] = IF i <= Len(p) THEN p[i] ELSE q[i - Len(p)]
  OBVIOUS
<1> DEFINE r == p \o q
           m == Len(p)
           n == Len(q)
<1>2. /\ r \in Seq(S) /\ Len(r) = m + n /\ m \in Nat /\ n \in Nat
      /\ \A i \in 1..m : r[i] = p[i] /\ i \in 1..(m + n)
      /\ \A i \in 1..n : r[m + i] = q[i] /\ m + i \in 1..(m + n)
      /\ \A i \in 1..(m + n) : i \in 1..m \/ \E j \in 1..n : i = m + j
  <2>1. \A i \in 1..m : r[i] = p[i] /\ i \in 1..(m + n)
    BY <1>1
  <2>2. ASSUME NEW i \in 1..n PROVE r[m + i] = q[i] /\ m + i \in 1..(m + n)
    <3>1. m + i \in 1..(m + n) /\ ~(m + i <= m) /\ (m + i) - m = i
      BY <1>1
    <3> QED BY <3>1, <1>1
  <2>3. ASSUME NEW i \in 1..(m + n), i \notin 1..m PROVE \E j \in 1..n : i = m + j
    <3>1. i - m \in 1..n /\ i = m + (i - m)
      BY <1>1, <2>3
    <3> QED BY <3>1
  <2> QED BY <1>1, <2>1, <2>2, <2>3
<1>3. /\ DOMAIN r = 1..(m + n) /\ DOMAIN p = 1..m /\ DOMAIN q = 1..n
      /\ Len(p) = m /\ Len(q) = n
  BY <1>2
<1> HIDE DEF r, m, n
<1>4. ASSUME NEW x PROVE x \in ToSet(r) <=> x \in ToSet(p) \cup ToSet(q)
  <2>1. /\ x \in ToSet(r) <=> \E i \in 1..(m + n) : x = r[i]
        /\ x \in ToSet(p) <=> \E i \in 1..m : x = p[i]
        /\ x \in ToSet(q) <=> \E i \in 1..n : x = q[i]
    BY <1>3 DEF ToSet
  <2>2. ASSUME x \in ToSet(r) PROVE x \in ToSet(p) \cup ToSet(q)
    <3>1. PICK i \in 1..(m + n) : x = r[i]
      BY <2>1, <2>2
    <3>2. CASE i \in 1..m
      BY <3>1, <3>2, <2>1, <1>2
    <3>3. CASE i \notin 1..m
      <4>1. PICK j \in 1..n : i = m + j
        BY <3>3, <1>2
      <4> QED BY <4>1, <3>1, <2>1, <1>2
    <3> QED BY <3>2, <3>3
  <2>3. ASSUME x \in ToSet(p) PROVE x \in ToSet(r)
    BY <2>1, <2>3, <1>2
  <2>4. ASSUME x \in ToSet(q) PROVE x \in ToSet(r)
    BY <2>1, <2>4, <1>2
  <2> QED BY <2>2, <2>3, <2>4
<1>5. ASSUME IsInjective(p), IsInjective(q), ToSet(p) \cap ToSet(q) = {} PROVE IsInjective(r)
  <2>1. SUFFICES ASSUME NEW i \in 1..(m + n), NEW j \in 1..(m + n), r[i] = r[j] PROVE i = j
    BY <1>3 DEF IsInjective
  <2>2. \A y \in 1..m, z \in 1..n : p[y] # q[z]
    BY <1>3, <1>5 DEF ToSet
  <2>3. \A y, z \in 1..m : p[y] = p[z] => y = z
    BY <1>3, <1>5 DEF IsInjective
  <2>4. \A y, z \in 1..n : q[y] = q[z] => y = z
    BY <1>3, <1>5 DEF IsInjective
  <2>5. CASE i \in 1..m /\ j \in 1..m
    BY <2>1, <2>3, <2>5, <1>2
  <2>6. CASE i \in 1..m /\ j \notin 1..m
    <3>1. PICK z \in 1..n : j = m + z
      BY <2>6, <1>2
    <3> QED BY <3>1, <2>1, <2>2, <2>6, <1>2, SMTT(30)
  <2>7. CASE i \notin 1..m /\ j \in 1..m
    <3>1. PICK z \in 1..n : i = m + z
      BY <2>7, <1>2
    <3> QED BY <3>1, <2>1, <2>2, <2>7, <1>2
  <2>8. CASE i \notin 1..m /\ j \notin 1..m
    <3>1. PICK y \in 1..n : i = m + y
      BY <2>8, <1>2
    <3>2. PICK z \in 1..n : j = m + z
      BY <2>8, <1>2
    <3>3. q[y] = q[z]
      BY <3>1, <3>2, <2>1, <1>2
    <3> QED BY <3>1, <3>2, <3>3, <2>4
  <2> QED BY <2>5, <2>6, <2>7, <2>8
<1>6. r \in Seq(S) /\ ToSet(r) = ToSet(p) \cup ToSet(q)
  BY <1>2, <1>4
<1> QED BY <1>5, <1>6 DEF r

(* event_reinit, as a function of the base. *)
Listed(s) == IF s.inserted \cap Signals = {} THEN {} ELSE {"ev_signal"}
Reopened(s) == (s.inserted \cap IoEvents) \ Sockets
Reinit(s) ==
    [RemoveActive(RemoveActive(s, "th_notify"), "ev_signal") EXCEPT
       !.inserted = (@ \ Sockets) \cup Listed(s) \cup {"th_notify"},
       !.io = MapAll(win32_init(Descriptors),
                     SetToSeq(Reopened(s)) \o SetToSeq(Listed(s)) \o <<"th_notify">>),
       !.notify_byte = FALSE,
       !.deaf = s.is_notify_pending]

(* The list from which event_reinit builds the map again. *)
LEMMA ReinitQueue ==
    ASSUME NEW s, Good(s)
    PROVE  MapIs(MapAll(win32_init(Descriptors),
                        SetToSeq(Reopened(s)) \o SetToSeq(Listed(s)) \o <<"th_notify">>),
                 Reopened(s) \cup Listed(s) \cup {"th_notify"})
<1> DEFINE A == Reopened(s)
           B == Listed(s)
           p == SetToSeq(A)
           q == SetToSeq(B)
           r == <<"th_notify">>
           pq == p \o q
           all == pq \o r
<1>1. /\ A \in SUBSET IoEvents /\ B \in SUBSET IoEvents /\ "th_notify" \in IoEvents
      /\ A \cap B = {} /\ (A \cup B) \cap {"th_notify"} = {}
  BY EventKinds DEF Reopened, Listed, Sockets
<1>2. r \in Seq(IoEvents) /\ IsInjective(r) /\ ToSet(r) = {"th_notify"}
  BY <1>1 DEF IsInjective, ToSet
<1> HIDE DEF A, B, p, q, r, pq, all
<1>3. IsFiniteSet(A) /\ IsFiniteSet(B)
  BY <1>1, FiniteEvents
<1>4. p \in Seq(A) /\ IsInjective(p) /\ ToSet(p) = A
  BY <1>3, Enumerated DEF p
<1>5. q \in Seq(B) /\ IsInjective(q) /\ ToSet(q) = B
  BY <1>3, Enumerated DEF q
<1>6. p \in Seq(IoEvents) /\ q \in Seq(IoEvents)
  BY <1>1, <1>4, <1>5
<1>7. p \o q \in Seq(IoEvents) /\ ToSet(p \o q) = A \cup B /\ IsInjective(p \o q)
  <2>1. ToSet(p) \cap ToSet(q) = {}
    BY <1>1, <1>4, <1>5
  <2> QED BY <2>1, <1>4, <1>5, <1>6, ConcatQueues
<1>8. pq \in Seq(IoEvents) /\ ToSet(pq) = A \cup B /\ IsInjective(pq)
  BY <1>7 DEF pq
<1>9. pq \o r \in Seq(IoEvents) /\ ToSet(pq \o r) = A \cup B \cup {"th_notify"} /\ IsInjective(pq \o r)
  <2>1. ToSet(pq) \cap ToSet(r) = {}
    BY <1>1, <1>2, <1>8
  <2> QED BY <2>1, <1>2, <1>8, ConcatQueues
<1>10. all \in Seq(IoEvents) /\ ToSet(all) = A \cup B \cup {"th_notify"} /\ IsInjective(all)
  BY <1>9 DEF all
<1>11. MapIs(MapAll(win32_init(Descriptors), all), ToSet(all))
  BY <1>10, MapAllIs
<1> QED BY <1>10, <1>11 DEF all, pq, p, q, r, A, B

(* event_reinit leaves a well-formed base. *)
LEMMA ReinitIs ==
    ASSUME NEW s, Good(s)
    PROVE  /\ Good(Reinit(s)) /\ "th_notify" \in Reinit(s).inserted
           /\ Touches(s, Reinit(s), {"inserted", "io", "activequeues", "notify_byte", "deaf"})
           /\ Reinit(s).deaf = s.is_notify_pending
           /\ Due(s) => Due(Reinit(s))
<1> DEFINE m == RemoveActive(s, "th_notify")
           n == RemoveActive(m, "ev_signal")
           new == MapAll(win32_init(Descriptors),
                         SetToSeq(Reopened(s)) \o SetToSeq(Listed(s)) \o <<"th_notify">>)
           r == Reinit(s)
           e1 == "th_notify"
           e2 == "ev_signal"
<1>1. MapIs(new, Reopened(s) \cup Listed(s) \cup {"th_notify"})
  BY ReinitQueue
<1>2. e1 \in Events /\ e2 \in Events /\ e1 # "ctl_timeout" /\ e2 # "ctl_timeout"
  BY EventKinds DEF Sockets
<1>3. r = [n EXCEPT !.inserted = (@ \ Sockets) \cup Listed(s) \cup {"th_notify"},
                    !.io = new, !.notify_byte = FALSE, !.deaf = s.is_notify_pending]
  BY DEF Reinit
<1>4. m = RemoveActive(s, e1) /\ n = RemoveActive(m, e2)
  OBVIOUS
<1> HIDE DEF m, n, new, r, e1, e2
<1>5. /\ Good(m) /\ Touches(s, m, {"activequeues"}) /\ ActiveSet(m) = ActiveSet(s) \ {e1}
      /\ Good(n) /\ Touches(m, n, {"activequeues"}) /\ ActiveSet(n) = ActiveSet(m) \ {e2}
  <2>1. Good(m) /\ Touches(s, m, {"activequeues"}) /\ ActiveSet(m) = ActiveSet(s) \ {e1}
    BY <1>2, <1>4, RemoveActiveIs
  <2>2. Good(n) /\ Touches(m, n, {"activequeues"}) /\ ActiveSet(n) = ActiveSet(m) \ {e2}
    BY <2>1, <1>2, <1>4, RemoveActiveIs
  <2> QED BY <2>1, <2>2
<1>6. /\ DOMAIN n = Fields
      /\ n.inserted = s.inserted /\ n.timeheap = s.timeheap /\ n.common = s.common
      /\ n.ev_timeout = s.ev_timeout
  BY <1>5, FieldNames DEF Touches, Good
<1>7. /\ Touches(n, r, {"inserted", "io", "notify_byte", "deaf"})
      /\ r.inserted = (s.inserted \ Sockets) \cup Listed(s) \cup {"th_notify"}
      /\ r.io = new /\ r.deaf = s.is_notify_pending
  BY <1>3, <1>6, FieldNames DEF Touches
<1>8. MapInv(r)
  <2>1. /\ s.inserted \in SUBSET (IoEvents \cup Signals) /\ Listed(s) \subseteq IoEvents
        /\ "th_notify" \in IoEvents
    BY EventKinds DEF Good, MapInv, Listed, Sockets
  <2>2. r.inserted \in SUBSET (IoEvents \cup Signals)
    BY <1>7, <2>1
  <2>3. r.inserted \cap IoEvents = Reopened(s) \cup Listed(s) \cup {"th_notify"}
    BY <1>7, <2>1 DEF Reopened
  <2> QED BY <1>1, <1>7, <2>2, <2>3 DEF MapInv
<1>9. Good(r)
  <2>1. Touches(n, r, Harmless \cup {"inserted", "io"})
    BY <1>7 DEF Touches, Harmless
  <2> QED BY <1>5, <1>8, <2>1, MapChanges
<1>10. Touches(s, r, {"inserted", "io", "activequeues", "notify_byte", "deaf"})
  BY <1>5, <1>7 DEF Touches
<1>11. ASSUME Due(s) PROVE Due(r)
  <2>1. /\ r.timeheap = s.timeheap /\ r.common = s.common /\ r.ev_timeout = s.ev_timeout
        /\ r.activequeues = n.activequeues
    BY <1>6, <1>7, FieldNames DEF Touches
  <2>2. "ctl_timeout" \in ActiveSet(s) => "ctl_timeout" \in ActiveSet(r)
    BY <2>1, <1>2, <1>5 DEF ActiveSet
  <2> QED BY <1>11, <2>1, <2>2 DEF Due
<1>12. "th_notify" \in r.inserted
  BY <1>7
<1> QED BY <1>7, <1>9, <1>10, <1>11, <1>12 DEF r

(* A loop of event_del over the events of a set. *)
Purged(s, r, es) ==
    /\ Good(r) /\ Touches(s, r, Api)
    /\ r.is_notify_pending = s.is_notify_pending /\ r.notify_byte = s.notify_byte
    /\ ToSet(r.timeheap) = ToSet(s.timeheap) \ es
    /\ ToSet(r.common) = ToSet(s.common) \ es
    /\ ActiveSet(r) = ActiveSet(s) \ es
    /\ r.inserted = s.inserted \ es

(* One turn of such a loop. *)
LEMMA PurgeOneMore ==
    ASSUME NEW s, NEW r, NEW es, Purged(s, r, es), NEW e \in Events
    PROVE  Purged(s, event_del_internal(r, e, "loop"), es \cup {e})
<1> DEFINE t == "loop"
           u == event_del_internal(r, e, t)
<1>1. t = "loop" /\ Good(r)
  BY DEF Purged
<1> HIDE DEF t
<1>2. GoodCall(r, u, t) /\ Deleted(r, u, e)
  BY <1>1, DelIs
<1> HIDE DEF u
<1>3. u.is_notify_pending = r.is_notify_pending /\ u.notify_byte = r.notify_byte /\ Good(u)
  BY <1>1, <1>2 DEF GoodCall, Quiet
<1>4. Touches(r, u, Api)
  BY <1>2 DEF GoodCall
<1>5. Touches(s, u, Api)
  BY <1>4, TouchesTwice DEF Purged
<1>6. /\ ToSet(u.timeheap) = ToSet(s.timeheap) \ (es \cup {e})
      /\ ToSet(u.common) = ToSet(s.common) \ (es \cup {e})
      /\ ActiveSet(u) = ActiveSet(s) \ (es \cup {e})
      /\ u.inserted = s.inserted \ (es \cup {e})
  BY <1>2 DEF Purged, Deleted
<1>7. Purged(s, u, es \cup {e})
  BY <1>3, <1>5, <1>6 DEF Purged
<1> QED BY <1>1, <1>7 DEF u

(* The whole loop. *)
LEMMA DeleteAllPurges ==
    ASSUME NEW s, Good(s), NEW es \in SUBSET Events
    PROVE  Purged(s, DeleteAll(s, es), es)
<1> DEFINE q == SetToSeq(es)
           N == Cardinality(es)
           to(i) == {q[j] : j \in 1..i}
<1>1. IsFiniteSet(es)
  <2>1. IsFiniteSet(Users)
    BY KindsAssumption
  <2>2. IsFiniteSet(Users \cup {"th_notify"})
    BY <2>1, FS_AddElement
  <2>3. IsFiniteSet((Users \cup {"th_notify"}) \cup {"ev_signal"})
    BY <2>2, FS_AddElement
  <2>4. IsFiniteSet(((Users \cup {"th_notify"}) \cup {"ev_signal"}) \cup {"ctl_timeout"})
    BY <2>3, FS_AddElement
  <2>5. IsFiniteSet((((Users \cup {"th_notify"}) \cup {"ev_signal"}) \cup {"ctl_timeout"}) \cup {"loopexit"})
    BY <2>4, FS_AddElement
  <2>6. Events = (((Users \cup {"th_notify"}) \cup {"ev_signal"}) \cup {"ctl_timeout"}) \cup {"loopexit"}
    BY DEF Events, Internal
  <2>7. IsFiniteSet(Events)
    BY <2>5, <2>6
  <2> QED BY <2>7, FS_Subset
<1>2. N \in Nat /\ DOMAIN q = 1..N /\ q \in Seq(es) /\ ToSet(q) = es
  BY <1>1, Enumerated
<1>3. DeleteAll(s, es) = DeleteEach(s, q)
  BY DEF DeleteAll, DeleteEach
<1> HIDE DEF q, N
<1>4. PICK f : DeleteRun(f, s, q, N)
  BY <1>2, DeleteTurns
<1>5. /\ f[0] = s /\ f[N] = DeleteEach(s, q)
      /\ \A i \in 0..N : i < N => f[i + 1] = event_del_internal(f[i], q[i + 1], "loop")
  BY <1>4 DEF DeleteRun
<1>6. \A i \in 1..N : q[i] \in Events
  BY <1>2
<1> DEFINE P == {i \in 0..N : Purged(s, f[i], to(i))}
<1>7. 0 \in P
  <2>1. to(0) = {}
    OBVIOUS
  <2>2. Touches(s, s, Api)
    BY DEF Touches
  <2>3. Purged(s, s, {})
    BY <2>2 DEF Purged
  <2>4. Purged(s, f[0], to(0))
    <3> HIDE DEF to
    <3> QED BY <2>1, <2>3, <1>5
  <2>5. 0 \in 0..N
    BY <1>2
  <2> QED BY <2>4, <2>5
<1>8. ASSUME NEW i \in 0..N, i < N, i \in P PROVE i + 1 \in P
  <2> DEFINE on == to(i)
             r == f[i]
             e == q[i + 1]
  <2>1. i \in Nat /\ i + 1 \in 1..N /\ i + 1 \in 0..N
    BY <1>2, <1>8
  <2>2. e \in Events
    BY <1>6, <2>1
  <2>3. to(i + 1) = on \cup {e}
    <3>1. 1..(i + 1) = (1..i) \cup {i + 1}
      BY <2>1
    <3> QED BY <3>1
  <2>4. Purged(s, r, on)
    BY <1>8
  <2>5. f[i + 1] = event_del_internal(r, e, "loop")
    BY <1>5, <1>8
  <2> HIDE DEF on, r, e
  <2>6. Purged(s, event_del_internal(r, e, "loop"), on \cup {e})
    BY <2>2, <2>4, PurgeOneMore
  <2>7. Purged(s, f[i + 1], to(i + 1))
    BY <2>3, <2>5, <2>6
  <2> QED BY <2>1, <2>7
<1>9. 0..N \subseteq P
  <2> HIDE DEF P
  <2> QED BY <1>2, <1>7, <1>8, UpTo
<1>10. Purged(s, f[N], to(N))
  <2>1. N \in 0..N
    BY <1>2
  <2>2. N \in P
    BY <1>9, <2>1
  <2> QED BY <2>2
<1>11. to(N) = ToSet(q)
  BY <1>2 DEF ToSet
<1> QED BY <1>2, <1>3, <1>5, <1>10, <1>11

(* event_base_free, as a function of the base. *)
Free(s) ==
    LET s1 == DeleteAll(s, {"th_notify"})
        s2 == DeleteAll(s1, s1.inserted \ Internal)
        s3 == DeleteAll(s2, ToSet(s2.timeheap))
        s4 == DeleteAll(s3, {"ctl_timeout"} \cup ToSet(s3.common))
        s5 == DeleteAll(s4, (ToSet(s4.activequeues[0]) \cup ToSet(s4.activequeues[1])) \ Internal)
    IN  DeleteAll(s5, {"ev_signal"})

(* The queues hold events, and the timer of the common list has no descriptor. *)
LEMMA QueuesAreOfEvents ==
    ASSUME NEW s, Good(s)
    PROVE  /\ ToSet(s.timeheap) \in SUBSET Events /\ ToSet(s.common) \in SUBSET Events
           /\ ActiveSet(s) \in SUBSET Events /\ s.inserted \in SUBSET Events
           /\ "ctl_timeout" \notin s.inserted
<1>1. ToSet(s.timeheap) \subseteq Events /\ ToSet(s.common) \subseteq Commons
  BY TimeoutsAre
<1> QED BY <1>1, ActiveSetIs, EventKinds DEF Good, MapInv

(* event_base_free leaves no event in any queue. *)
LEMMA FreeIs ==
    ASSUME NEW s, Good(s)
    PROVE  /\ Good(Free(s)) /\ Touches(s, Free(s), Api)
           /\ Free(s).is_notify_pending = s.is_notify_pending
           /\ Free(s).notify_byte = s.notify_byte
           /\ ToSet(Free(s).timeheap) = {} /\ ToSet(Free(s).common) = {}
           /\ ActiveSet(Free(s)) = {} /\ Free(s).inserted = {}
<1> DEFINE e1 == {"th_notify"}
           s1 == DeleteAll(s, e1)
           e2 == s1.inserted \ Internal
           s2 == DeleteAll(s1, e2)
           e3 == ToSet(s2.timeheap)
           s3 == DeleteAll(s2, e3)
           e4 == {"ctl_timeout"} \cup ToSet(s3.common)
           s4 == DeleteAll(s3, e4)
           e5 == ActiveSet(s4) \ Internal
           s5 == DeleteAll(s4, e5)
           e6 == {"ev_signal"}
           s6 == DeleteAll(s5, e6)
<1>0. Free(s) = s6
  BY DEF Free, ActiveSet
<1>1. Purged(s, s1, e1)
  <2>1. e1 \in SUBSET Events
    BY EventKinds DEF Sockets
  <2> HIDE DEF e1
  <2> QED BY <2>1, DeleteAllPurges
<1>2. Purged(s1, s2, e2)
  <2> HIDE DEF s1
  <2>1. Good(s1)
    BY <1>1 DEF Purged
  <2>2. e2 \in SUBSET Events
    BY <2>1, QueuesAreOfEvents
  <2> HIDE DEF e2
  <2> QED BY <2>1, <2>2, DeleteAllPurges
<1>3. Purged(s2, s3, e3)
  <2> HIDE DEF s2
  <2>1. Good(s2)
    BY <1>2 DEF Purged
  <2>2. e3 \in SUBSET Events
    BY <2>1, QueuesAreOfEvents
  <2> HIDE DEF e3
  <2> QED BY <2>1, <2>2, DeleteAllPurges
<1>4. Purged(s3, s4, e4)
  <2> HIDE DEF s3
  <2>1. Good(s3)
    BY <1>3 DEF Purged
  <2>2. e4 \in SUBSET Events
    BY <2>1, QueuesAreOfEvents, EventKinds
  <2> HIDE DEF e4
  <2> QED BY <2>1, <2>2, DeleteAllPurges
<1>5. Purged(s4, s5, e5)
  <2> HIDE DEF s4
  <2>1. Good(s4)
    BY <1>4 DEF Purged
  <2>2. e5 \in SUBSET Events
    BY <2>1, QueuesAreOfEvents
  <2> HIDE DEF e5
  <2> QED BY <2>1, <2>2, DeleteAllPurges
<1>6. Purged(s5, s6, e6)
  <2> HIDE DEF s5
  <2>1. Good(s5)
    BY <1>5 DEF Purged
  <2>2. e6 \in SUBSET Events
    BY EventKinds DEF Sockets
  <2> HIDE DEF e6
  <2> QED BY <2>1, <2>2, DeleteAllPurges
<1> HIDE DEF s1, s2, s3, s4, s5, s6
<1>7. Good(s6) /\ Touches(s, s6, Api)
  <2>1. Touches(s, s2, Api)
    BY <1>1, <1>2, TouchesTwice DEF Purged
  <2>2. Touches(s, s3, Api)
    BY <2>1, <1>3, TouchesTwice DEF Purged
  <2>3. Touches(s, s4, Api)
    BY <2>2, <1>4, TouchesTwice DEF Purged
  <2>4. Touches(s, s5, Api)
    BY <2>3, <1>5, TouchesTwice DEF Purged
  <2>5. Touches(s, s6, Api)
    BY <2>4, <1>6, TouchesTwice DEF Purged
  <2> QED BY <2>5, <1>6 DEF Purged
<1>8. s6.is_notify_pending = s.is_notify_pending /\ s6.notify_byte = s.notify_byte
  BY <1>1, <1>2, <1>3, <1>4, <1>5, <1>6 DEF Purged
<1>9. ToSet(s6.timeheap) = {} /\ ToSet(s6.common) = {}
  <2>1. ToSet(s3.timeheap) = {}
    BY <1>3 DEF Purged
  <2>2. ToSet(s4.common) = {}
    BY <1>4 DEF Purged
  <2> HIDE DEF e4, e5, e6
  <2> QED BY <2>1, <2>2, <1>4, <1>5, <1>6 DEF Purged
<1>10. ActiveSet(s6) = {}
  <2>1. "th_notify" \notin ActiveSet(s1)
    BY <1>1 DEF Purged
  <2>2. "th_notify" \notin ActiveSet(s3)
    BY <2>1, <1>2, <1>3 DEF Purged
  <2>3. "th_notify" \notin ActiveSet(s4) /\ "ctl_timeout" \notin ActiveSet(s4)
    BY <2>2, <1>4 DEF Purged
  <2>4. ActiveSet(s5) \subseteq {"ev_signal"}
    BY <2>3, <1>5 DEF Purged, Internal
  <2> QED BY <2>4, <1>6 DEF Purged
<1>11. s6.inserted = {}
  <2>1. s2.inserted \subseteq {"ev_signal"}
    <3>1. "th_notify" \notin s1.inserted
      BY <1>1 DEF Purged
    <3>2. "ctl_timeout" \notin s1.inserted
      BY <1>1, QueuesAreOfEvents DEF Purged
    <3> QED BY <3>1, <3>2, <1>2 DEF Purged, Internal
  <2>2. s5.inserted \subseteq {"ev_signal"}
    BY <2>1, <1>3, <1>4, <1>5 DEF Purged
  <2> QED BY <2>2, <1>6 DEF Purged
<1> QED BY <1>0, <1>7, <1>8, <1>9, <1>10, <1>11

-----------------------------------------------------------------------------
(* The inductive invariant.                                                *)

(* Where the loop thread runs the callback of an event. *)
Calling == {"callback", "drained", "no_call"}

(* What holds of the base s when the loop thread is at p, in select() for  *)
(* the time w.                                                             *)
Base(s, p, w) ==
    /\ Good(s) /\ s.virtual \in 0..1 /\ w \in Int /\ p \in Positions
    /\ p # "freed" => "th_notify" \in s.inserted
    /\ s.running_loop <=> p \notin {"out", "freed"}
    /\ p \in Calling => s.event_running_priority \in 0..1 /\ s.current_event \in Events
    /\ p \notin Calling => s.current_event = NoEvent
    /\ p = "drained" => s.current_event = "th_notify"
    /\ Due(s) \/ s.current_event = "ctl_timeout"
    /\ p = "no_call" => Due(s)
    /\ ~s.deaf /\ p # "drained" => Alert(s)
    /\ p = "select" /\ ~s.deaf =>
          <<"th_notify", "read">> \in s.watched /\ (w = 0 \/ Covered(s, w))
    /\ p = "freed" => /\ ToSet(s.timeheap) = {} /\ ToSet(s.common) = {}
                      /\ ActiveSet(s) = {} /\ s.inserted = {}

(* What the other thread waits with. *)
Waiting(o, p) ==
    /\ DOMAIN o = {"op", "ev", "tv", "woken"} /\ o.op \in {"none", "add", "del", "active"}
    /\ o.op # "none" => o.ev \in Users /\ o.tv \in Int /\ p # "freed"

(* The inductive invariant. *)
Inv == Base(b, at, wait) /\ Waiting(other, at) /\ clock \in Int

(* No event is the null pointer. *)
LEMMA NoEventIsNone ==
    NoEvent \notin Events /\ NoEvent # "ctl_timeout"
BY KindsAssumption DEF NoEvent, Events, Internal

(* Where the loop thread releases the lock, the invariant holds. *)
LEMMA LandedIsBase ==
    ASSUME NEW s, NEW g, Landed(s, g), s.virtual \in 0..1, ~s.deaf => Alert(s)
    PROVE  Base(g.b, g.at, g.wait) /\ g.at # "freed"
<1> DEFINE r == g.b
           p == g.at
           w == g.wait
<1>1. /\ Good(r) /\ "th_notify" \in r.inserted /\ Alike(s, r)
      /\ p \in {"out", "select", "callback", "no_call", "deferred"} /\ w \in Int
      /\ r.running_loop <=> p # "out"
      /\ p \in {"callback", "no_call"} => r.event_running_priority \in 0..1 /\ r.current_event \in Events
      /\ p \notin {"callback", "no_call"} => r.current_event = NoEvent
      /\ Due(r) \/ r.current_event = "ctl_timeout"
      /\ p = "no_call" => Due(r)
      /\ p = "select" => Watching(r, w)
  BY DEF Landed
<1> HIDE DEF r, p, w
<1>2. r.virtual \in 0..1 /\ (~r.deaf => Alert(r))
  BY <1>1 DEF Alike, Alert
<1>3. p = "select" => <<"th_notify", "read">> \in r.watched /\ (w = 0 \/ Covered(r, w))
  BY <1>1 DEF Watching, Covered
<1>4. /\ p \in Positions /\ p # "freed" /\ p # "drained"
      /\ p \in Calling <=> p \in {"callback", "no_call"}
      /\ p \notin {"out", "freed"} <=> p # "out"
  BY <1>1 DEF Positions, Calling
<1>5. Base(r, p, w)
  BY <1>1, <1>2, <1>3, <1>4 DEF Base
<1> QED BY <1>4, <1>5 DEF r, p, w

(* A call of the other thread, or of a callback, keeps the invariant. *)
LEMMA ServedIsBase ==
    ASSUME NEW s, NEW p, NEW w, Base(s, p, w), p # "freed", NEW r, NEW t, Served(s, r, t),
           t = "loop" => p # "select"
    PROVE  Base(r, p, w)
<1>1. /\ r.running_loop = s.running_loop /\ r.event_running_priority = s.event_running_priority
      /\ r.current_event = s.current_event /\ r.deaf = s.deaf /\ r.watched = s.watched
  BY FieldNames DEF Served, Touches, CallFields, Api, Base, Good
<1>2. Good(r) /\ r.virtual \in 0..1 /\ "th_notify" \in r.inserted /\ (Due(s) => Due(r))
  BY DEF Served, Base
<1>3. Alert(s) => Alert(r)
  BY DEF Served, Quiet, Alert
<1>4. ASSUME p = "select", ~r.deaf
      PROVE  <<"th_notify", "read">> \in r.watched /\ (w = 0 \/ Covered(r, w))
  <2>1. /\ <<"th_notify", "read">> \in s.watched /\ (w = 0 \/ Covered(s, w))
        /\ Alert(s) /\ s.running_loop /\ w \in Int /\ t # "loop" /\ Good(s)
        /\ s.current_event = NoEvent /\ (Due(s) \/ s.current_event = "ctl_timeout")
    BY <1>1, <1>4 DEF Base, Calling
  <2>2. Due(s)
    BY <2>1, NoEventIsNone
  <2>3. Calls(s, t)
    BY <2>1 DEF Calls
  <2>4. Covered(s, w) => Covered(r, w)
    BY <2>1, <2>2, <2>3 DEF Served
  <2> QED BY <1>1, <2>1, <2>4
<1> QED BY <1>1, <1>2, <1>3, <1>4 DEF Base

(* Time passes in select(). *)
LEMMA TimePasses ==
    ASSUME NEW s, NEW p, NEW w, Base(s, p, w), w > 0
    PROVE  Base(s, p, w - 1)
<1>1. w \in Int /\ w - 1 \in Int /\ w - 1 >= 0
  BY DEF Base
<1>2. ASSUME Asleep(s, w), w - 1 # 0 PROVE Asleep(s, w - 1)
  <2>1. Good(s)
    BY DEF Base
  <2>2. ASSUME NEW x \in ToSet(s.timeheap) PROVE w - 1 > 0 /\ w - 1 <= s.ev_timeout[x] - s.event_tv
    <3>1. s.ev_timeout[x] \in Int /\ s.event_tv \in Int
      BY <2>1, QueuesAreOfEvents DEF Good, TimeInv, LoopInv
    <3>2. w <= s.ev_timeout[x] - s.event_tv
      BY <1>2 DEF Asleep
    <3> QED BY <1>1, <1>2, <3>1, <3>2
  <2> QED BY <1>1, <1>2, <2>2 DEF Asleep
<1>3. w = 0 \/ Covered(s, w) => w - 1 = 0 \/ Covered(s, w - 1)
  BY <1>1, <1>2 DEF Covered
<1> DEFINE v == w - 1
<1>4. v \in Int /\ (w = 0 \/ Covered(s, w) => v = 0 \/ Covered(s, v))
  BY <1>1, <1>3
<1> HIDE DEF v
<1>5. Base(s, p, v)
  BY <1>4 DEF Base
<1> QED BY <1>5 DEF v

(* A callback returns. *)
LEMMA Finished ==
    ASSUME NEW s, NEW p, NEW w, Base(s, p, w), p \in Calling, clock \in Int,
           NEW r, Fit(r, TRUE),
           r.running_loop = s.running_loop, r.event_running_priority = s.event_running_priority,
           r.virtual = s.virtual, r.deaf = s.deaf, ~r.deaf => Alert(r)
    PROVE  /\ Base(FinishEvent(r).b, FinishEvent(r).at, FinishEvent(r).wait)
           /\ FinishEvent(r).at # "freed"
<1>1. r.running_loop /\ r.event_running_priority \in 0..1 /\ r.virtual \in 0..1
  BY DEF Base, Calling
<1>2. Landed(r, FinishEvent(r))
  BY <1>1, FinishEventLands
<1> DEFINE g == FinishEvent(r)
<1> HIDE DEF g
<1>3. Base(g.b, g.at, g.wait) /\ g.at # "freed"
  BY <1>1, <1>2, LandedIsBase DEF g
<1> QED BY <1>3 DEF g

(* The other thread waits wherever the loop thread goes. *)
LEMMA StillWaiting ==
    ASSUME NEW o, NEW p, Waiting(o, p), NEW q, q # "freed"
    PROVE  Waiting(o, q) /\ Waiting([o EXCEPT !.woken = TRUE], q)
BY DEF Waiting

-----------------------------------------------------------------------------
(* Its preservation, action by action.                                     *)

(* event_base_new establishes the invariant. *)
LEMMA InitHolds ==
    Init => Inv
<1> SUFFICES ASSUME Init PROVE Inv
  OBVIOUS
<1>1. b = event_base_new /\ at = "out" /\ wait = -1 /\ clock = 1 /\ other = Idle
  BY DEF Init
<1>2. Good(b) /\ Due(b)
  BY <1>1, NewBaseIsGood
<1>3. /\ b.virtual = 0 /\ "th_notify" \in b.inserted /\ b.running_loop = FALSE
      /\ b.current_event = NoEvent /\ b.is_notify_pending = FALSE
  BY <1>1 DEF event_base_new
<1>4. Base(b, at, wait)
  BY <1>1, <1>2, <1>3 DEF Base, Positions, Calling, Alert
<1>5. Waiting(other, at)
  BY <1>1 DEF Waiting, Idle
<1> QED BY <1>1, <1>4, <1>5 DEF Inv

(* The part common to the steps that end a callback. *)
LEMMA Ends ==
    ASSUME Inv, NEW g, Base(g.b, g.at, g.wait), g.at # "freed", b' = g.b, at' = g.at, wait' = g.wait,
           clock' = clock, Broadcast \/ UNCHANGED other
    PROVE  Inv'
<1>1. Waiting(other, at) /\ clock \in Int
  BY DEF Inv
<1>2. other' = other \/ other' = [other EXCEPT !.woken = TRUE]
  BY DEF Broadcast
<1>3. Waiting(other', at')
  <2>1. Waiting(other, g.at) /\ Waiting([other EXCEPT !.woken = TRUE], g.at)
    BY <1>1, StillWaiting
  <2> QED BY <1>2, <2>1
<1>4. Base(b', at', wait') /\ clock' \in Int
  BY <1>1
<1> QED BY <1>3, <1>4 DEF Inv

(* event_base_loop. *)
LEMMA LoopStarts ==
    ASSUME Inv, NEW f, event_base_loop(f)
    PROVE  Inv'
<1> DEFINE s == [b EXCEPT !.running_loop = TRUE, !.tv_cache = 0,
                          !.event_gotterm = FALSE, !.event_break = FALSE]
           g == LoopTop(s, f)
<1>1. /\ Base(b, at, wait) /\ at = "out" /\ clock \in Int /\ Waiting(other, at)
      /\ b' = g.b /\ at' = g.at /\ wait' = g.wait /\ clock' = clock /\ other' = other
  BY DEF Inv, event_base_loop, Step
<1>2. /\ Good(b) /\ "th_notify" \in b.inserted /\ Due(b) /\ b.current_event = NoEvent
      /\ b.virtual \in 0..1 /\ (~b.deaf => Alert(b))
  BY <1>1, NoEventIsNone DEF Base, Calling
<1>3. /\ Touches(b, s, Harmless \cup {"tv_cache", "event_tv", "watched"})
      /\ s.running_loop = TRUE /\ s.tv_cache = 0 /\ s.event_tv = b.event_tv /\ s.watched = b.watched
      /\ s.current_event = b.current_event /\ s.virtual = b.virtual /\ s.deaf = b.deaf
      /\ s.is_notify_pending = b.is_notify_pending /\ s.notify_byte = b.notify_byte
  BY <1>2, FieldNames DEF Touches, Harmless, Good
<1> HIDE DEF s
<1>4. Between(s)
  <2> DEFINE yes == TRUE
  <2>1. Fit(b, yes) /\ yes
    BY <1>2 DEF Fit
  <2>2. s.tv_cache \in Int /\ s.event_tv \in Int /\ s.watched \in SUBSET (Descriptors \X Kinds)
    BY <1>2, <1>3 DEF Good, LoopInv
  <2> HIDE DEF yes
  <2>3. Fit(s, yes)
    BY <1>3, <2>1, <2>2, FitKept
  <2> QED BY <1>2, <1>3, <2>1, <2>3 DEF Between, Fit
<1>5. Landed(s, g)
  BY <1>1, <1>4, LoopTopLands
<1> HIDE DEF g
<1>6. Base(g.b, g.at, g.wait) /\ g.at # "freed"
  BY <1>2, <1>3, <1>5, LandedIsBase DEF Alert
<1> QED BY <1>1, <1>6, Ends

(* The descriptors that select() reports. *)
LEMMA OrdersAre ==
    ASSUME NEW W \in SUBSET (Descriptors \X Kinds), NEW k,
           NEW fds \in SetToSeqs({p[1] : p \in {q \in W : q[2] = k}})
    PROVE  fds \in Seq(Descriptors)
<1> DEFINE S == {p[1] : p \in {q \in W : q[2] = k}}
           D == 1..Cardinality(S)
<1>1. S \subseteq Descriptors
  OBVIOUS
<1>2. fds \in [D -> S]
  BY DEF SetToSeqs
<1>3. IsFiniteSet(Descriptors)
  <2>1. IsFiniteSet(IoEvents)
    BY FiniteEvents
  <2> DEFINE F == [e \in IoEvents |-> ev_fd(e)]
  <2>2. Descriptors = {F[e] : e \in IoEvents}
    BY DEF Descriptors
  <2> HIDE DEF F
  <2>3. Descriptors = Range(F)
    BY <2>2 DEF Range, F
  <2>4. F \in Surjection(IoEvents, Descriptors)
    BY <2>2 DEF Surjection, F
  <2> QED BY <2>1, <2>4, FS_Surjection
<1>4. Cardinality(S) \in Nat
  BY <1>1, <1>3, FS_Subset, FS_CardinalityType
<1> HIDE DEF S
<1> QED BY <1>1, <1>2, <1>4

(* What Base says while the loop thread is in the loop and in no callback. *)
LEMMA BetweenEvents ==
    ASSUME NEW s, NEW p, NEW w, Base(s, p, w), p \in {"select", "deferred"}
    PROVE  Between(s) /\ s.virtual \in 0..1 /\ (~s.deaf => Alert(s))
<1>1. /\ Good(s) /\ "th_notify" \in s.inserted /\ s.running_loop /\ s.current_event = NoEvent
      /\ Due(s) \/ s.current_event = "ctl_timeout"
      /\ s.virtual \in 0..1 /\ (~s.deaf => Alert(s))
  BY DEF Base, Calling
<1> QED BY <1>1, NoEventIsNone DEF Between, Fit

(* win32_dispatch and what follows it. *)
LEMMA Dispatches ==
    ASSUME Inv, win32_dispatch
    PROVE  Inv'
<1> DEFINE found == b.watched \cap Readable
<1>1. PICK rs \in SetToSeqs({p[1] : p \in {q \in found : q[2] = "read"}}),
           ws \in SetToSeqs({p[1] : p \in {q \in found : q[2] = "write"}}) :
              Step(AfterDispatch(ActivateFds(ActivateFds(b, rs, "read"), ws, "write")))
  BY DEF win32_dispatch
<1> DEFINE m == ActivateFds(b, rs, "read")
           n == ActivateFds(m, ws, "write")
           g == AfterDispatch(n)
<1>2. /\ Base(b, at, wait) /\ at = "select" /\ clock \in Int
      /\ b' = g.b /\ at' = g.at /\ wait' = g.wait /\ clock' = clock /\ UNCHANGED other
  BY <1>1 DEF Inv, win32_dispatch, Step
<1>3. Between(b) /\ b.virtual \in 0..1 /\ (~b.deaf => Alert(b))
  BY <1>2, BetweenEvents
<1>4. found \in SUBSET (Descriptors \X Kinds)
  BY <1>3 DEF Between, Fit, Good, LoopInv
<1>5. rs \in Seq(Descriptors) /\ ws \in Seq(Descriptors)
  <2> HIDE DEF found
  <2> QED BY <1>4, OrdersAre
<1>6. Went(b, n, TRUE)
  <2> DEFINE yes == TRUE
             k == "read"
             l == "write"
  <2>1. yes /\ Fit(b, yes) /\ m = ActivateFds(b, rs, k) /\ n = ActivateFds(m, ws, l)
    BY <1>3 DEF Between
  <2> HIDE DEF yes, k, l, m, n
  <2>2. Went(b, m, yes)
    BY <2>1, <1>5, FdsActiveGo
  <2>3. Went(m, n, yes)
    BY <2>1, <2>2, <1>5, FdsActiveGo, ZenonT(30) DEF Went
  <2>4. Went(b, n, yes)
    BY <2>2, <2>3, WentTwice
  <2> QED BY <2>1, <2>4 DEF Went, Fit
<1> HIDE DEF m, n
<1>7. Between(n) /\ Alike(b, n)
  BY <1>3, <1>6, WentBetween
<1>8. Landed(n, g)
  BY <1>2, <1>7, AfterDispatchLands
<1> HIDE DEF g
<1>9. n.virtual \in 0..1 /\ (~n.deaf => Alert(n))
  BY <1>3, <1>7 DEF Alike, Alert
<1>10. Base(g.b, g.at, g.wait) /\ g.at # "freed"
  BY <1>8, <1>9, LandedIsBase
<1> QED BY <1>2, <1>10, Ends

(* select() fails. *)
LEMMA Fails ==
    ASSUME Inv, DispatchFails
    PROVE  Inv'
<1> DEFINE g == LeaveLoop(b)
<1>1. /\ Base(b, at, wait) /\ at = "select"
      /\ b' = g.b /\ at' = g.at /\ wait' = g.wait /\ clock' = clock /\ UNCHANGED other
  BY DEF Inv, DispatchFails, Step
<1>2. Between(b) /\ b.virtual \in 0..1 /\ (~b.deaf => Alert(b))
  BY <1>1, BetweenEvents
<1>3. Landed(b, g)
  BY <1>2, LeaveLoopLands
<1> HIDE DEF g
<1>4. Base(g.b, g.at, g.wait) /\ g.at # "freed"
  BY <1>2, <1>3, LandedIsBase
<1> QED BY <1>1, <1>4, Ends

(* A deferred callback returns. *)
LEMMA DeferredEnds ==
    ASSUME Inv, DeferredReturns
    PROVE  Inv'
<1> DEFINE g1 == EndProcess(b, b.count)
           g2 == NextDeferred(b, b.dcount + 1)
           g == IF b.event_break THEN g1 ELSE g2
<1>1. /\ Base(b, at, wait) /\ at = "deferred" /\ clock \in Int
      /\ b' = g.b /\ at' = g.at /\ wait' = g.wait /\ clock' = clock /\ UNCHANGED other
  BY DEF Inv, DeferredReturns, Step
<1>2. Between(b) /\ b.virtual \in 0..1 /\ (~b.deaf => Alert(b))
  BY <1>1, BetweenEvents
<1>3. Landed(b, g1) /\ Landed(b, g2)
  BY <1>1, <1>2, EndProcessLands, NextDeferredLands
<1> HIDE DEF g1, g2
<1>4. Landed(b, g)
  BY <1>3
<1> HIDE DEF g
<1>5. Base(g.b, g.at, g.wait) /\ g.at # "freed"
  BY <1>2, <1>4, LandedIsBase
<1> QED BY <1>1, <1>5, Ends

(* What Base says while a callback runs. *)
LEMMA InCallback ==
    ASSUME NEW s, NEW p, NEW w, Base(s, p, w), p \in Calling
    PROVE  /\ Good(s) /\ "th_notify" \in s.inserted /\ s.running_loop
           /\ s.event_running_priority \in 0..1 /\ s.virtual \in 0..1
           /\ s.current_event # "ctl_timeout" => Fit(s, TRUE)
           /\ p = "no_call" => Fit(s, TRUE)
           /\ p # "drained" /\ ~s.deaf => Alert(s)
           /\ s.current_event \in Events
BY DEF Base, Calling, Fit

(* evthread_notify_drain_default reads the bytes. *)
LEMMA Drains ==
    ASSUME Inv, DrainNotify
    PROVE  Inv'
<1>1. /\ Base(b, at, wait) /\ at = "callback" /\ b.current_event = "th_notify"
      /\ Waiting(other, at) /\ clock \in Int
      /\ b' = [b EXCEPT !.notify_byte = FALSE] /\ at' = "drained"
      /\ wait' = wait /\ clock' = clock /\ other' = other
  BY DEF Inv, DrainNotify
<1> DEFINE r == [b EXCEPT !.notify_byte = FALSE]
           p == "drained"
<1>2. Touches(b, r, {"notify_byte"})
  BY DEF Touches
<1> HIDE DEF r
<1>3. /\ Good(b) /\ "th_notify" \in b.inserted /\ b.running_loop
      /\ b.event_running_priority \in 0..1 /\ b.virtual \in 0..1
      /\ Fit(b, TRUE) /\ wait \in Int
  <2>1. at \in Calling
    BY <1>1 DEF Calling
  <2>2. wait \in Int
    BY <1>1 DEF Base
  <2> QED BY <1>1, <2>1, <2>2, InCallback
<1>4. Fit(r, TRUE)
  <2> DEFINE yes == TRUE
  <2>1. Fit(b, yes) /\ Touches(b, r, Harmless) /\ yes
    BY <1>2, <1>3 DEF Touches, Harmless
  <2> HIDE DEF yes
  <2>2. Fit(r, yes)
    BY <2>1, HarmlessFit
  <2> QED BY <2>1, <2>2 DEF Fit
<1>5. /\ r.running_loop = b.running_loop /\ r.event_running_priority = b.event_running_priority
      /\ r.virtual = b.virtual /\ r.current_event = b.current_event
  BY <1>2, <1>3, FieldNames DEF Touches, Good
<1>6. "th_notify" \in Events
  BY EventKinds DEF Sockets
<1>7. Base(r, p, wait)
  BY <1>1, <1>3, <1>4, <1>5, <1>6 DEF Base, Calling, Positions, Fit
<1>8. Waiting(other, p)
  BY <1>1 DEF Waiting
<1>9. b' = r /\ at' = p
  BY <1>1 DEF r
<1>10. Base(b', at', wait') /\ Waiting(other', at') /\ clock' \in Int
  BY <1>1, <1>7, <1>8, <1>9
<1> QED BY <1>10 DEF Inv

(* evthread_notify_drain_default clears the flag. *)
LEMMA Clears ==
    ASSUME Inv, ClearNotify
    PROVE  Inv'
<1> DEFINE r == [b EXCEPT !.is_notify_pending = FALSE]
           g == FinishEvent(r)
<1>1. /\ Base(b, at, wait) /\ at = "drained" /\ at \in Calling /\ clock \in Int
      /\ b.current_event = "th_notify"
      /\ b' = g.b /\ at' = g.at /\ wait' = g.wait /\ clock' = clock /\ Broadcast
  BY DEF Inv, ClearNotify, Step, Base, Calling
<1>2. Good(b) /\ Fit(b, TRUE)
  BY <1>1, InCallback
<1>3. Touches(b, r, {"is_notify_pending"}) /\ r.is_notify_pending = FALSE
  BY <1>2, FieldNames DEF Touches, Good
<1> HIDE DEF r
<1>4. Fit(r, TRUE)
  <2> DEFINE yes == TRUE
  <2>1. Fit(b, yes) /\ Touches(b, r, Harmless) /\ yes
    BY <1>2, <1>3 DEF Touches, Harmless
  <2> HIDE DEF yes
  <2>2. Fit(r, yes)
    BY <2>1, HarmlessFit
  <2> QED BY <2>1, <2>2 DEF Fit
<1>5. /\ r.running_loop = b.running_loop /\ r.event_running_priority = b.event_running_priority
      /\ r.virtual = b.virtual /\ r.deaf = b.deaf
  BY <1>2, <1>3, FieldNames DEF Touches, Good
<1>6. Base(g.b, g.at, g.wait) /\ g.at # "freed"
  BY <1>1, <1>3, <1>4, <1>5, Finished DEF Alert
<1> HIDE DEF g
<1> QED BY <1>1, <1>6, Ends

(* A callback in which the loop thread went on with the base. *)
LEMMA CallbackEnds ==
    ASSUME Inv, at \in {"callback", "no_call"}, NEW r, Fit(r, TRUE), Touches(b, r, Api \cup {"event_gotterm"}),
           r.is_notify_pending = b.is_notify_pending, r.notify_byte = b.notify_byte,
           b' = FinishEvent(r).b, at' = FinishEvent(r).at, wait' = FinishEvent(r).wait,
           clock' = clock, Broadcast
    PROVE  Inv'
<1> DEFINE g == FinishEvent(r)
<1>1. Base(b, at, wait) /\ at \in Calling /\ at # "drained" /\ clock \in Int
  BY DEF Inv, Calling
<1>2. Good(b) /\ (~b.deaf => Alert(b))
  BY <1>1, InCallback
<1>3. /\ r.running_loop = b.running_loop /\ r.event_running_priority = b.event_running_priority
      /\ r.virtual = b.virtual /\ r.deaf = b.deaf
  BY <1>2, FieldNames DEF Touches, Good, Api
<1>4. ~r.deaf => Alert(r)
  BY <1>2, <1>3 DEF Alert
<1>5. Base(g.b, g.at, g.wait) /\ g.at # "freed"
  BY <1>1, <1>3, <1>4, Finished
<1>6. b' = g.b /\ at' = g.at /\ wait' = g.wait
  OBVIOUS
<1> HIDE DEF g
<1> QED BY <1>5, <1>6, Ends

(* evsig_cb. *)
LEMMA SignalsRead ==
    ASSUME Inv, evsig_cb
    PROVE  Inv'
<1> DEFINE hit == {e \in Signals \cap b.inserted : caught[e] > 0}
           es == SetToSeq(hit)
           r == ActivateAll(b, es, "signal", caught)
<1>1. /\ Base(b, at, wait) /\ at = "callback" /\ b.current_event = "ev_signal" /\ at \in Calling
      /\ b' = FinishEvent(r).b /\ at' = FinishEvent(r).at /\ wait' = FinishEvent(r).wait
      /\ clock' = clock /\ Broadcast
  BY DEF Inv, evsig_cb, Step, Calling
<1>2. Fit(b, TRUE)
  BY <1>1, InCallback
<1>3. es \in Seq(Events)
  <2>1. hit \subseteq Users /\ hit \subseteq Events
    BY EventKinds DEF Users
  <2>2. IsFiniteSet(hit)
    BY <2>1, KindsAssumption, FS_Subset
  <2> HIDE DEF hit
  <2>3. SetToSeq(hit) \in Seq(hit)
    BY <2>2, Enumerated
  <2> QED BY <2>1, <2>3
<1>4. Went(b, r, TRUE)
  <2> DEFINE yes == TRUE
             res == "signal"
  <2>1. Fit(b, yes) /\ r = ActivateAll(b, es, res, caught) /\ yes
    BY <1>2
  <2> HIDE DEF yes, res, es, r
  <2>2. Went(b, r, yes)
    BY <2>1, <1>3, ActivateAllGoes
  <2> QED BY <2>1, <2>2 DEF Went, Fit
<1> HIDE DEF r
<1>5. /\ Fit(r, TRUE) /\ Touches(b, r, Api \cup {"event_gotterm"})
      /\ r.is_notify_pending = b.is_notify_pending /\ r.notify_byte = b.notify_byte
  BY <1>4 DEF Went, Touches
<1> QED BY <1>1, <1>5, CallbackEnds

(* common_timeout_callback: afterwards the rest of the list is due. *)
LEMMA CommonTimeoutEnds ==
    ASSUME Inv, CommonTimeoutCallback
    PROVE  Inv'
<1> DEFINE r == common_timeout_callback(b)
<1>1. /\ Base(b, at, wait) /\ at = "callback" /\ at \in Calling
      /\ b' = FinishEvent(r).b /\ at' = FinishEvent(r).at /\ wait' = FinishEvent(r).wait
      /\ clock' = clock /\ Broadcast
  BY DEF Inv, CommonTimeoutCallback, Step, Calling
<1>2. Fit(b, FALSE)
  BY <1>1, InCallback DEF Fit
<1>3. Went(b, r, TRUE)
  BY <1>2, CommonCallbackGoes
<1> HIDE DEF r
<1>4. /\ Fit(r, TRUE) /\ Touches(b, r, Api \cup {"event_gotterm"})
      /\ r.is_notify_pending = b.is_notify_pending /\ r.notify_byte = b.notify_byte
  BY <1>3 DEF Went, Touches
<1> QED BY <1>1, <1>4, CallbackEnds

(* event_loopexit_cb. *)
LEMMA LoopexitEnds ==
    ASSUME Inv, event_loopexit_cb
    PROVE  Inv'
<1> DEFINE r == [b EXCEPT !.event_gotterm = TRUE]
<1>1. /\ Base(b, at, wait) /\ at = "callback" /\ at \in Calling /\ b.current_event = "loopexit"
      /\ b' = FinishEvent(r).b /\ at' = FinishEvent(r).at /\ wait' = FinishEvent(r).wait
      /\ clock' = clock /\ Broadcast
  BY DEF Inv, event_loopexit_cb, Step, Calling
<1>2. Fit(b, TRUE) /\ Good(b)
  BY <1>1, InCallback
<1>3. Touches(b, r, {"event_gotterm"})
  BY DEF Touches
<1> HIDE DEF r
<1>4. Fit(r, TRUE)
  <2> DEFINE yes == TRUE
  <2>1. Fit(b, yes) /\ Touches(b, r, Harmless) /\ yes
    BY <1>2, <1>3 DEF Touches, Harmless
  <2> HIDE DEF yes
  <2>2. Fit(r, yes)
    BY <2>1, HarmlessFit
  <2> QED BY <2>1, <2>2 DEF Fit
<1>5. /\ Touches(b, r, Api \cup {"event_gotterm"})
      /\ r.is_notify_pending = b.is_notify_pending /\ r.notify_byte = b.notify_byte
  BY <1>2, <1>3, FieldNames DEF Touches, Good
<1> QED BY <1>1, <1>4, <1>5, CallbackEnds

(* A signal closure without calls. *)
LEMMA NoCallEnds ==
    ASSUME Inv, NoCallMade
    PROVE  Inv'
<1>1. /\ Base(b, at, wait) /\ at = "no_call" /\ at \in Calling
      /\ b' = FinishEvent(b).b /\ at' = FinishEvent(b).at /\ wait' = FinishEvent(b).wait
      /\ clock' = clock /\ Broadcast
  BY DEF Inv, NoCallMade, Step, Calling
<1>2. Fit(b, TRUE)
  BY <1>1, InCallback
<1>3. Touches(b, b, Api \cup {"event_gotterm"})
  BY DEF Touches
<1> QED BY <1>1, <1>2, <1>3, CallbackEnds

(* A callback of the user returns, or is called for the next signal. *)
LEMMA CallbackEndsOrGoesOn ==
    ASSUME Inv, CallbackReturns
    PROVE  Inv'
<1> DEFINE again == b.current_event \in Signals /\ b.ncalls > 0
           r == IF again THEN [b EXCEPT !.ev_pncalls[b.current_event] = FALSE] ELSE b
           g == SignalCall(b, b.current_event)
<1>1. /\ Base(b, at, wait) /\ at = "callback" /\ at \in Calling /\ b.current_event \in Users
      /\ clock' = clock /\ at # "drained"
  BY DEF Inv, CallbackReturns, Calling
<1>2. \/ b' = g.b /\ at' = g.at /\ wait' = g.wait /\ UNCHANGED other
      \/ /\ b' = FinishEvent(r).b /\ at' = FinishEvent(r).at /\ wait' = FinishEvent(r).wait
         /\ Broadcast
  BY DEF CallbackReturns, Step
<1>3. b.current_event # "ctl_timeout"
  BY <1>1, EventKinds
<1>4. /\ Good(b) /\ "th_notify" \in b.inserted /\ b.running_loop
      /\ b.event_running_priority \in 0..1 /\ b.virtual \in 0..1 /\ b.current_event \in Events
      /\ Fit(b, TRUE) /\ (~b.deaf => Alert(b))
  BY <1>1, <1>3, InCallback
<1>5. CASE b' = g.b /\ at' = g.at /\ wait' = g.wait /\ UNCHANGED other
  <2>1. Running(b)
    BY <1>4 DEF Running, Fit
  <2>2. Landed(b, g)
    BY <2>1, SignalCallLands
  <2> HIDE DEF g
  <2>3. Base(g.b, g.at, g.wait) /\ g.at # "freed"
    BY <1>4, <2>2, LandedIsBase
  <2> QED BY <1>1, <1>5, <2>3, Ends
<1>6. CASE /\ b' = FinishEvent(r).b /\ at' = FinishEvent(r).at /\ wait' = FinishEvent(r).wait
           /\ Broadcast
  <2>1. Touches(b, r, {"ev_pncalls"})
    BY DEF Touches
  <2> HIDE DEF r
  <2>2. Fit(r, TRUE)
    <3> DEFINE yes == TRUE
    <3>1. Fit(b, yes) /\ Touches(b, r, Harmless) /\ yes
      BY <1>4, <2>1 DEF Touches, Harmless
    <3> HIDE DEF yes
    <3>2. Fit(r, yes)
      BY <3>1, HarmlessFit
    <3> QED BY <3>1, <3>2 DEF Fit
  <2>3. /\ Touches(b, r, Api \cup {"event_gotterm"})
        /\ r.is_notify_pending = b.is_notify_pending /\ r.notify_byte = b.notify_byte
    BY <1>4, <2>1, FieldNames DEF Touches, Good, Api
  <2> QED BY <1>1, <1>6, <2>2, <2>3, CallbackEnds
<1> QED BY <1>2, <1>5, <1>6

(* A call of thread t that does not block leaves the loop thread where it was. *)
LEMMA CallKeepsInv ==
    ASSUME Inv, at # "freed", NEW r, NEW t, Served(b, r, t), t = "loop" => at # "select",
           b' = r, at' = at, wait' = wait, clock' = clock, Waiting(other', at)
    PROVE  Inv'
<1>1. Base(b, at, wait) /\ clock \in Int
  BY DEF Inv
<1>2. Base(r, at, wait)
  BY <1>1, ServedIsBase
<1>3. Base(b', at', wait') /\ Waiting(other', at') /\ clock' \in Int
  BY <1>1, <1>2
<1> QED BY <1>3 DEF Inv

(* The events of the user are not those of the base. *)
LEMMA UserEvents ==
    ASSUME NEW e \in Users
    PROVE  e \in Events \ Sockets /\ e # "ctl_timeout" /\ e \in Events
BY EventKinds

(* The timeouts that the user gives. *)
LEMMA TimeoutsAreInts ==
    ASSUME NEW e
    PROVE  Timeouts(e) \subseteq Int
BY BoundsAssumption DEF Timeouts

(* What MayCall and Called say. *)
LEMMA CallFrame ==
    ASSUME NEW t, MayCall(t), Called
    PROVE  /\ at # "freed" /\ (t = "loop" => at # "select")
           /\ at' = at /\ wait' = wait /\ clock' = clock
BY DEF MayCall, Called

(* What the other thread waits with. *)
LEMMA Blocked ==
    ASSUME NEW op \in {"add", "del", "active"}, NEW e \in Users, NEW tv \in Int, NEW s, Block(op, e, tv, s),
           at # "freed"
    PROVE  Waiting(other', at)
BY DEF Block, Waiting

(* A call that begins to wait. *)
LEMMA BlockServes ==
    ASSUME NEW s, Good(s), NEW r, Touches(s, r, {"ev_res", "event_continue"}), NEW t
    PROVE  Served(s, [r EXCEPT !.waiters = TRUE], t)
<1> DEFINE u == [r EXCEPT !.waiters = TRUE]
<1>1. Touches(s, u, {"ev_res", "event_continue", "waiters"})
  BY DEF Touches
<1> HIDE DEF u
<1>2. Served(s, u, t)
  BY <1>1, WaitServes
<1> QED BY <1>2 DEF u

(* event_add keeps the invariant. *)
LEMMA AddKeepsInv ==
    ASSUME Inv, NEW e \in Users, NEW t, event_add(e, t)
    PROVE  Inv'
<1>1. /\ MayCall(t) /\ Called /\ Good(b) /\ Waiting(other, at) /\ clock \in Int
  BY DEF Inv, Base, event_add
<1>2. /\ at # "freed" /\ (t = "loop" => at # "select")
      /\ at' = at /\ wait' = wait /\ clock' = clock
  BY <1>1, CallFrame
<1>3. PICK tv \in Timeouts(e) :
        \/ Block("add", e, tv, b)
        \/ b' = event_add_internal(b, e, tv, FALSE, t) /\ other' = other
  BY DEF event_add
<1>4. tv \in Int
  BY TimeoutsAreInts
<1>5. CASE Block("add", e, tv, b)
  <2> DEFINE op == "add"
             r == [b EXCEPT !.waiters = TRUE]
  <2>1. op \in {"add", "del", "active"} /\ Block(op, e, tv, b) /\ b' = r
    BY <1>5 DEF Block
  <2>2. Touches(b, b, {"ev_res", "event_continue"})
    BY DEF Touches
  <2>3. Served(b, r, t)
    BY <1>1, <2>2, BlockServes
  <2> HIDE DEF op, r
  <2>4. Waiting(other', at)
    BY <1>2, <1>4, <2>1, Blocked
  <2> QED BY <1>2, <2>1, <2>3, <2>4, CallKeepsInv
<1>6. CASE b' = event_add_internal(b, e, tv, FALSE, t) /\ other' = other
  <2> DEFINE r == event_add_internal(b, e, tv, FALSE, t)
             no == FALSE
  <2>1. b' = r /\ Waiting(other', at) /\ r = event_add_internal(b, e, tv, no, t)
    BY <1>1, <1>6
  <2> HIDE DEF r, no
  <2>2. Served(b, r, t)
    BY <1>1, <1>4, <2>1, AddServes, UserEvents
  <2> QED BY <1>2, <2>1, <2>2, CallKeepsInv
<1> QED BY <1>3, <1>5, <1>6

(* event_del keeps the invariant. *)
LEMMA DelKeepsInv ==
    ASSUME Inv, NEW e \in Users, NEW t, event_del(e, t)
    PROVE  Inv'
<1>1. /\ MayCall(t) /\ Called /\ Good(b) /\ Waiting(other, at)
  BY DEF Inv, Base, event_del
<1>2. /\ at # "freed" /\ (t = "loop" => at # "select")
      /\ at' = at /\ wait' = wait /\ clock' = clock
  BY <1>1, CallFrame
<1>3. \/ Block("del", e, -1, b)
      \/ b' = event_del_internal(b, e, t) /\ other' = other
  BY DEF event_del
<1>5. CASE Block("del", e, -1, b)
  <2> DEFINE op == "del"
             r == [b EXCEPT !.waiters = TRUE]
             tv == -1
  <2>1. op \in {"add", "del", "active"} /\ Block(op, e, tv, b) /\ b' = r /\ tv \in Int
    BY <1>5 DEF Block
  <2>2. Touches(b, b, {"ev_res", "event_continue"})
    BY DEF Touches
  <2>3. Served(b, r, t)
    BY <1>1, <2>2, BlockServes
  <2> HIDE DEF op, r, tv
  <2>4. Waiting(other', at)
    BY <1>2, <2>1, Blocked
  <2> QED BY <1>2, <2>1, <2>3, <2>4, CallKeepsInv
<1>6. CASE b' = event_del_internal(b, e, t) /\ other' = other
  <2> DEFINE r == event_del_internal(b, e, t)
  <2>1. b' = r /\ Waiting(other', at)
    BY <1>1, <1>6
  <2>2. Served(b, r, t)
    BY <1>1, DelServes, UserEvents
  <2> HIDE DEF r
  <2> QED BY <1>2, <2>1, <2>2, CallKeepsInv
<1> QED BY <1>3, <1>5, <1>6

(* event_active keeps the invariant. *)
LEMMA ActiveKeepsInv ==
    ASSUME Inv, NEW e \in Users, NEW t, event_active(e, t)
    PROVE  Inv'
<1> DEFINE res == IF e \in Signals THEN "signal" ELSE "read"
           m == MarkResult(b, e, "signal")
<1>1. /\ MayCall(t) /\ Called /\ Good(b) /\ Waiting(other, at)
  BY DEF Inv, Base, event_active
<1>2. /\ at # "freed" /\ (t = "loop" => at # "select")
      /\ at' = at /\ wait' = wait /\ clock' = clock
  BY <1>1, CallFrame
<1>3. \/ Block("active", e, -1, m)
      \/ b' = event_active_nolock(b, e, res, 1, t) /\ other' = other
  BY DEF event_active
<1>4. Touches(b, m, {"ev_res", "event_continue"})
  BY <1>1, MarkResultIs
<1> HIDE DEF res, m
<1>5. CASE Block("active", e, -1, m)
  <2> DEFINE op == "active"
             r == [m EXCEPT !.waiters = TRUE]
             tv == -1
  <2>1. op \in {"add", "del", "active"} /\ Block(op, e, tv, m) /\ b' = r /\ tv \in Int
    BY <1>5 DEF Block
  <2>3. Served(b, r, t)
    BY <1>1, <1>4, BlockServes
  <2> HIDE DEF op, r, tv
  <2>4. Waiting(other', at)
    BY <1>2, <2>1, Blocked
  <2> QED BY <1>2, <2>1, <2>3, <2>4, CallKeepsInv
<1>6. CASE b' = event_active_nolock(b, e, res, 1, t) /\ other' = other
  <2> DEFINE r == event_active_nolock(b, e, res, 1, t)
             one == 1
  <2>1. b' = r /\ Waiting(other', at) /\ r = event_active_nolock(b, e, res, one, t)
    BY <1>1, <1>6
  <2> HIDE DEF r, one
  <2>2. Served(b, r, t)
    BY <1>1, <2>1, ActiveServes, UserEvents
  <2> QED BY <1>2, <2>1, <2>2, CallKeepsInv
<1> QED BY <1>3, <1>5, <1>6

(* The other thread goes on after its wait. *)
LEMMA ResumeKeepsInv ==
    ASSUME Inv, Resume
    PROVE  Inv'
<1> DEFINE e == other.ev
           tv == other.tv
           t == "other"
           no == FALSE
           one == 1
<1>1. /\ Good(b) /\ clock \in Int /\ Waiting(other, at) /\ other.op # "none"
      /\ at' = at /\ wait' = wait /\ clock' = clock /\ other' = Idle
      /\ t = "other" /\ t # "loop" /\ ~no /\ one = 1
  BY DEF Inv, Base, Resume
<1>2. e \in Users /\ tv \in Int /\ at # "freed" /\ other.op \in {"add", "del", "active"}
  BY <1>1 DEF Waiting
<1>3. /\ other.op = "add" => b' = event_add_internal(b, e, tv, no, t)
      /\ other.op = "del" => b' = event_del_internal(b, e, t)
      /\ other.op = "active" => b' = QueueActive(b, e, one, t)
  BY DEF Resume
<1>4. Waiting(other', at)
  BY <1>1 DEF Waiting, Idle
<1> DEFINE r1 == event_add_internal(b, e, tv, no, t)
           r2 == event_del_internal(b, e, t)
           r3 == QueueActive(b, e, one, t)
<1> HIDE DEF e, tv, t, no, one
<1>5. Served(b, r1, t) /\ Served(b, r2, t) /\ Served(b, r3, t)
  BY <1>1, <1>2, UserEvents, AddServes, DelServes, QueueActiveServes
<1>6. b' = r1 \/ b' = r2 \/ b' = r3
  BY <1>2, <1>3
<1> HIDE DEF r1, r2, r3
<1>7. CASE b' = r1
  BY <1>1, <1>2, <1>4, <1>5, <1>7, CallKeepsInv
<1>8. CASE b' = r2
  BY <1>1, <1>2, <1>4, <1>5, <1>8, CallKeepsInv
<1>9. CASE b' = r3
  BY <1>1, <1>2, <1>4, <1>5, <1>9, CallKeepsInv
<1> QED BY <1>6, <1>7, <1>8, <1>9

(* The calls that never block. *)
LEMMA SimpleCallKeepsInv ==
    ASSUME Inv, NEW t, MayCall(t), Called, UNCHANGED other, NEW r, b' = r, Served(b, r, t)
    PROVE  Inv'
<1>1. /\ at # "freed" /\ (t = "loop" => at # "select")
      /\ at' = at /\ wait' = wait /\ clock' = clock
  BY CallFrame
<1>2. Waiting(other', at)
  BY DEF Inv
<1> QED BY <1>1, <1>2, CallKeepsInv

(* Every call keeps the invariant. *)
LEMMA CallsKeepInv ==
    ASSUME Inv, NEW t, Call(t)
    PROVE  Inv'
<1>1. Good(b) /\ b.virtual \in 0..1 /\ clock \in Int
  BY DEF Inv, Base
<1>2. ASSUME NEW e \in Users, event_add(e, t) \/ event_del(e, t) \/ event_active(e, t) PROVE Inv'
  BY <1>2, AddKeepsInv, DelKeepsInv, ActiveKeepsInv
<1>3. ASSUME NEW d \in Deferreds, ScheduleDeferred(d, t) PROVE Inv'
  <2> DEFINE r == event_deferred_cb_schedule(b, d, t)
  <2>1. MayCall(t) /\ Called /\ UNCHANGED other /\ b' = r
    BY <1>3 DEF ScheduleDeferred
  <2>2. Served(b, r, t)
    BY <1>1, ScheduleServes
  <2> HIDE DEF r
  <2> QED BY <2>1, <2>2, SimpleCallKeepsInv
<1>4. ASSUME NEW d \in Deferreds, CancelDeferred(d, t) PROVE Inv'
  <2> DEFINE r == event_deferred_cb_cancel(b, d)
  <2>1. MayCall(t) /\ Called /\ UNCHANGED other /\ b' = r
    BY <1>4 DEF CancelDeferred
  <2>2. Served(b, r, t)
    BY <1>1, CancelServes
  <2> HIDE DEF r
  <2> QED BY <2>1, <2>2, SimpleCallKeepsInv
<1>5. ASSUME LoopBreak(t) PROVE Inv'
  <2> DEFINE r == event_base_loopbreak(b, t)
  <2>1. MayCall(t) /\ Called /\ UNCHANGED other /\ b' = r
    BY <1>5 DEF LoopBreak
  <2>2. Served(b, r, t)
    BY <1>1, BreakServes
  <2> HIDE DEF r
  <2> QED BY <2>1, <2>2, SimpleCallKeepsInv
<1>6. ASSUME event_base_loopexit(t) PROVE Inv'
  <2>1. PICK tv \in Delays : b' = event_add_internal(b, "loopexit", tv, FALSE, t)
    BY <1>6 DEF event_base_loopexit
  <2> DEFINE e == "loopexit"
             no == FALSE
             r == event_add_internal(b, e, tv, no, t)
  <2>2. MayCall(t) /\ Called /\ UNCHANGED other /\ b' = r
    BY <1>6, <2>1 DEF event_base_loopexit
  <2>3. e \in Events \ Sockets /\ e # "ctl_timeout" /\ tv \in Int
    BY EventKinds, BoundsAssumption
  <2> HIDE DEF e, no
  <2>4. Served(b, r, t)
    BY <1>1, <2>3, AddServes
  <2> HIDE DEF r
  <2> QED BY <2>2, <2>4, SimpleCallKeepsInv
<1>7. ASSUME Virtual(t) PROVE Inv'
  <2> DEFINE r == IF b.virtual = 0 THEN event_base_add_virtual(b) ELSE event_base_del_virtual(b, t)
  <2>1. MayCall(t) /\ Called /\ UNCHANGED other /\ b' = r
    BY <1>7 DEF Virtual
  <2>2. Served(b, r, t)
    BY <1>1, VirtualServes
  <2> HIDE DEF r
  <2> QED BY <2>1, <2>2, SimpleCallKeepsInv
<1> QED BY <1>2, <1>3, <1>4, <1>5, <1>6, <1>7 DEF Call

(* event_reinit keeps the invariant; a base with a notification pending is deaf. *)
LEMMA ReinitKeepsInv ==
    ASSUME Inv, event_reinit
    PROVE  Inv'
<1> DEFINE r == Reinit(b)
<1>1. /\ Base(b, at, wait) /\ at = "out" /\ Waiting(other, at) /\ clock \in Int
      /\ at' = at /\ wait' = wait /\ clock' = clock /\ other' = other
  BY DEF Inv, event_reinit
<1>2. b' = r
  BY DEF event_reinit, Reinit, MapAll, Reopened, Listed, Sockets
<1>3. /\ Good(b) /\ Due(b) /\ ~b.running_loop /\ b.virtual \in 0..1 /\ wait \in Int
      /\ b.current_event = NoEvent
  BY <1>1, NoEventIsNone DEF Base, Calling
<1>4. /\ Good(r) /\ "th_notify" \in r.inserted /\ Due(r)
      /\ Touches(b, r, {"inserted", "io", "activequeues", "notify_byte", "deaf"})
      /\ r.deaf = b.is_notify_pending
  BY <1>3, ReinitIs
<1> HIDE DEF r
<1>5. /\ r.running_loop = b.running_loop /\ r.virtual = b.virtual /\ r.current_event = b.current_event
      /\ r.is_notify_pending = b.is_notify_pending
  BY <1>3, <1>4, FieldNames DEF Touches, Good
<1>6. ~r.deaf => Alert(r)
  BY <1>4, <1>5 DEF Alert
<1>7. Base(r, at, wait)
  BY <1>1, <1>3, <1>4, <1>5, <1>6 DEF Base, Positions, Calling
<1>8. Base(b', at', wait') /\ Waiting(other', at') /\ clock' \in Int
  BY <1>1, <1>2, <1>7
<1> QED BY <1>8 DEF Inv

(* event_base_free establishes that the queues are empty. *)
LEMMA FreeKeepsInv ==
    ASSUME Inv, event_base_free
    PROVE  Inv'
<1> DEFINE r == Free(b)
           p == "freed"
<1>1. /\ Base(b, at, wait) /\ at = "out" /\ Waiting(other, at) /\ clock \in Int /\ other.op = "none"
      /\ at' = p /\ wait' = wait /\ clock' = clock /\ other' = other
  BY DEF Inv, event_base_free
<1>2. b' = r
  BY DEF event_base_free, Free
<1>3. /\ Good(b) /\ ~b.running_loop /\ b.virtual \in 0..1 /\ wait \in Int
      /\ b.current_event = NoEvent /\ (~b.deaf => Alert(b))
  BY <1>1 DEF Base, Calling
<1>4. /\ Good(r) /\ Touches(b, r, Api)
      /\ r.is_notify_pending = b.is_notify_pending /\ r.notify_byte = b.notify_byte
      /\ ToSet(r.timeheap) = {} /\ ToSet(r.common) = {} /\ ActiveSet(r) = {} /\ r.inserted = {}
  BY <1>3, FreeIs
<1> HIDE DEF r
<1>5. /\ r.running_loop = b.running_loop /\ r.virtual = b.virtual /\ r.current_event = b.current_event
      /\ r.deaf = b.deaf
  BY <1>3, <1>4, FieldNames DEF Touches, Good, Api
<1>6. ~r.deaf => Alert(r)
  BY <1>3, <1>4, <1>5 DEF Alert
<1>7. Due(r)
  BY <1>4 DEF Due
<1>8. Base(r, p, wait)
  BY <1>3, <1>4, <1>5, <1>6, <1>7 DEF Base, Positions, Calling
<1>9. Waiting(other, p)
  BY <1>1 DEF Waiting
<1> HIDE DEF p
<1>10. Base(b', at', wait') /\ Waiting(other', at') /\ clock' \in Int
  BY <1>1, <1>2, <1>8, <1>9
<1> QED BY <1>10 DEF Inv

(* Time passes. *)
LEMMA TickKeepsInv ==
    ASSUME Inv, Tick
    PROVE  Inv'
<1>1. /\ Base(b, at, wait) /\ Waiting(other, at) /\ clock \in Int
      /\ b' = b /\ at' = at /\ other' = other /\ clock' = clock + 1
      /\ wait' = IF wait > 0 THEN wait - 1 ELSE wait
  BY DEF Inv, Tick
<1>2. clock' \in Int
  BY <1>1
<1>3. Base(b, at, wait')
  <2>1. CASE wait > 0
    BY <1>1, <2>1, TimePasses
  <2>2. CASE ~(wait > 0)
    BY <1>1, <2>2
  <2> QED BY <2>1, <2>2
<1>4. Base(b', at', wait') /\ Waiting(other', at')
  BY <1>1, <1>3
<1> QED BY <1>2, <1>4 DEF Inv

(* What the environment does otherwise. *)
LEMMA EnvironmentKeepsInv ==
    ASSUME Inv, ClockSetBack \/ DataArrives \/ evsig_handler \/ UNCHANGED vars
    PROVE  Inv'
<1>1. /\ Base(b, at, wait) /\ Waiting(other, at) /\ clock \in Int
      /\ b' = b /\ at' = at /\ wait' = wait /\ other' = other /\ (clock' = clock \/ clock' = clock - 1)
  BY DEF Inv, ClockSetBack, DataArrives, evsig_handler, vars
<1>2. clock' \in Int
  BY <1>1
<1>3. Base(b', at', wait') /\ Waiting(other', at')
  BY <1>1
<1> QED BY <1>2, <1>3 DEF Inv

(* Every step keeps the invariant. *)
LEMMA NextKeepsInv ==
    Inv /\ [Next]_vars => Inv'
<1> SUFFICES ASSUME Inv, [Next]_vars PROVE Inv'
  OBVIOUS
<1>1. ASSUME NEW f, event_base_loop(f) PROVE Inv'
  BY <1>1, LoopStarts
<1>2. ASSUME LoopStep PROVE Inv'
  BY <1>2, Dispatches, Drains, Clears, SignalsRead, CommonTimeoutEnds, LoopexitEnds,
     CallbackEndsOrGoesOn, NoCallEnds, DeferredEnds DEF LoopStep
<1>3. ASSUME DispatchFails PROVE Inv'
  BY <1>3, Fails
<1>4. ASSUME NEW t, Call(t) PROVE Inv'
  BY <1>4, CallsKeepInv
<1>5. ASSUME Resume \/ event_reinit \/ event_base_free PROVE Inv'
  BY <1>5, ResumeKeepsInv, ReinitKeepsInv, FreeKeepsInv
<1>6. ASSUME Tick PROVE Inv'
  BY <1>6, TickKeepsInv
<1>7. ASSUME ClockSetBack \/ DataArrives \/ evsig_handler \/ UNCHANGED vars PROVE Inv'
  BY <1>7, EnvironmentKeepsInv
<1> QED BY <1>1, <1>2, <1>3, <1>4, <1>5, <1>6, <1>7 DEF Next

-----------------------------------------------------------------------------
(* The theorems.                                                           *)

(* The invariant holds of every event_base, however its owner and another  *)
(* thread use event_add, event_del, event_active, the deferred callbacks,  *)
(* event_base_loop, loopbreak and loopexit, event_reinit and               *)
(* event_base_free, and whatever the clock does.                           *)
THEOREM Invariance == Spec => []Inv
<1>1. Init => Inv
  BY InitHolds
<1>2. Inv /\ [Next]_vars => Inv'
  BY NextKeepsInv
<1> QED BY <1>1, <1>2, PTL DEF Spec

(* The invariant gives the types. *)
LEMMA InvGivesTypeOK == Inv => TypeOK
<1> SUFFICES ASSUME Inv PROVE TypeOK
  OBVIOUS
<1>1. Base(b, at, wait) /\ Waiting(other, at) /\ Good(b)
  BY DEF Inv, Base
<1>2. at \in Positions /\ other.op \in {"none", "add", "del", "active"} /\ b.virtual \in 0..1
  BY <1>1 DEF Base, Waiting
<1>3. b.inserted \subseteq Events
  BY <1>1, QueuesAreOfEvents
<1>4. \A q \in 0..1 : \A e \in ToSet(b.activequeues[q]) : e \in Events /\ ev_pri(e) = q
  <2>1. \A q \in 0..1 : \A e \in ToSet(b.activequeues[q]) : ev_pri(e) = q
    BY <1>1 DEF Good, ActiveInv
  <2>2. \A q \in 0..1 : ToSet(b.activequeues[q]) \subseteq ActiveSet(b)
    BY DEF ActiveSet
  <2> QED BY <1>1, <2>1, <2>2, QueuesAreOfEvents
<1>5. ToSet(b.timeheap) \subseteq Events /\ ToSet(b.common) \subseteq Commons
  BY <1>1, TimeoutsAre
<1>6. ToSet(b.deferred) \subseteq Deferreds
  <2>1. b.deferred \in Seq(Deferreds)
    BY <1>1 DEF Good, DeferInv
  <2> QED BY <2>1, MembersAre
<1>7. b.running_loop <=> at \notin {"out", "freed"}
  BY <1>1 DEF Base
<1>8. b.current_event # NoEvent <=> at \in {"callback", "drained", "no_call"}
  BY <1>1, NoEventIsNone DEF Base, Calling
<1> QED BY <1>2, <1>3, <1>4, <1>5, <1>6, <1>7, <1>8 DEF TypeOK

(* The invariant gives the order of the queues. *)
LEMMA InvGivesQueuesOK == Inv => QueuesOK
<1> SUFFICES ASSUME Inv PROVE QueuesOK
  OBVIOUS
<1>1. Good(b)
  BY DEF Inv, Base
<1>2. IsHeap(b.timeheap, b.ev_timeout)
  BY <1>1 DEF Good, TimeInv, HeapInv
<1>3. \A i \in 2..Len(b.common) : b.ev_timeout[b.common[i - 1]] =< b.ev_timeout[b.common[i]]
  <2>1. InOrder(b.common, b.ev_timeout) /\ b.common \in Seq(Commons)
    BY <1>1 DEF Good, TimeInv, CommonInv
  <2> TAKE i \in 2..Len(b.common)
  <2>2. Len(b.common) \in Nat
    BY <2>1
  <2>3. i - 1 \in 1..Len(b.common) /\ i \in 1..Len(b.common) /\ i - 1 < i
    BY <2>2
  <2> QED BY <2>1, <2>3 DEF InOrder
<1>4. /\ IsInjective(b.timeheap) /\ IsInjective(b.common) /\ IsInjective(b.deferred)
      /\ IsInjective(b.activequeues[0]) /\ IsInjective(b.activequeues[1])
  BY <1>1 DEF Good, TimeInv, HeapInv, CommonInv, DeferInv, ActiveInv
<1>5. ToSet(b.timeheap) \cap ToSet(b.common) = {}
  BY <1>1, TimeoutsAre
<1> QED BY <1>2, <1>3, <1>4, <1>5 DEF QueuesOK

(* The invariant gives the map and the arrays. *)
LEMMA InvGivesMapOK == Inv => MapOK
<1> SUFFICES ASSUME Inv, NEW fd \in Descriptors
             PROVE  LET on == {e \in b.inserted \cap IoEvents : ev_fd(e) = fd}
                    IN  /\ IsInjective(b.io.events[fd]) /\ ToSet(b.io.events[fd]) = on
                        /\ \A k \in Kinds :
                              /\ b.io.n[fd][k] = Cardinality({e \in on : k \in ev_events(e)})
                              /\ {i \in 1..Len(b.io.set[k]) : b.io.set[k][i] = fd}
                                   = (IF b.io.n[fd][k] = 0 THEN {} ELSE {b.io.pos[fd][k]})
  BY DEF MapOK
<1> DEFINE all == b.inserted \cap IoEvents
           on == {e \in all : ev_fd(e) = fd}
           io == b.io
<1>1. MapIs(io, all)
  BY DEF Inv, Base, Good, MapInv
<1>2. IsInjective(io.events[fd]) /\ ToSet(io.events[fd]) = on
  BY <1>1 DEF MapIs
<1>3. ASSUME NEW k \in Kinds PROVE io.n[fd][k] = Cardinality({e \in on : k \in ev_events(e)})
  <2>1. {e \in on : k \in ev_events(e)} = {e \in all : ev_fd(e) = fd /\ k \in ev_events(e)}
    OBVIOUS
  <2> HIDE DEF on, all, io
  <2> QED BY <1>1, <2>1 DEF MapIs
<1>4. ASSUME NEW k \in Kinds
      PROVE  {i \in 1..Len(io.set[k]) : io.set[k][i] = fd}
               = (IF io.n[fd][k] = 0 THEN {} ELSE {io.pos[fd][k]})
  <2> DEFINE q == io.set[k]
  <2>1. ArrayOK(io, k, Busy(io, k)) /\ q \in Seq(Descriptors)
    BY <1>1 DEF MapIs, IoType
  <2>2. \A i \in 1..Len(q) : io.pos[q[i]][k] = i
    BY <2>1 DEF ArrayOK
  <2>3. CASE io.n[fd][k] = 0
    <3>1. fd \in Descriptors \ Busy(io, k)
      BY <2>3 DEF Busy
    <3>2. io.pos[fd][k] = 0
      BY <2>1, <3>1 DEF ArrayOK
    <3>3. \A i \in 1..Len(q) : q[i] # fd
      BY <2>2, <3>2
    <3> QED BY <2>3, <3>3
  <2>4. CASE io.n[fd][k] # 0
    <3>1. fd \in Busy(io, k)
      BY <2>4 DEF Busy
    <3>2. io.pos[fd][k] \in 1..Len(q) /\ q[io.pos[fd][k]] = fd
      BY <2>1, <3>1 DEF ArrayOK
    <3>3. \A i \in 1..Len(q) : q[i] = fd => i = io.pos[fd][k]
      BY <2>2
    <3> QED BY <2>4, <3>2, <3>3
  <2> QED BY <2>3, <2>4
<1> QED BY <1>2, <1>3, <1>4

(* The invariant gives the timer of the common list. *)
LEMMA InvGivesCommon == Inv => CommonTimeoutScheduled
<1> SUFFICES ASSUME Inv, b.common # <<>>
             PROVE  \/ /\ Contains(b.timeheap, "ctl_timeout")
                       /\ b.ev_timeout["ctl_timeout"] =< b.ev_timeout[Head(b.common)]
                    \/ IsActive(b, "ctl_timeout") \/ b.current_event = "ctl_timeout"
  BY DEF CommonTimeoutScheduled
<1> DEFINE c == "ctl_timeout"
<1>1. Good(b) /\ (Due(b) \/ b.current_event = c) /\ c \in Events
  BY EventKinds DEF Inv, Base
<1>2. Head(b.common) \in ToSet(b.common)
  BY <1>1, CommonHead
<1>3. ASSUME Due(b)
      PROVE  \/ c \in ToSet(b.timeheap) /\ b.ev_timeout[c] <= b.ev_timeout[Head(b.common)]
             \/ c \in ActiveSet(b)
  BY <1>2, <1>3 DEF Due
<1> HIDE DEF c
<1>4. /\ Contains(b.timeheap, c) <=> c \in ToSet(b.timeheap)
      /\ IsActive(b, c) <=> c \in ActiveSet(b)
  BY <1>1, TimeoutsAre, ActiveSetIs
<1>5. \/ Contains(b.timeheap, c) /\ b.ev_timeout[c] <= b.ev_timeout[Head(b.common)]
      \/ IsActive(b, c) \/ b.current_event = c
  BY <1>1, <1>3, <1>4
<1> QED BY <1>5 DEF c

(* The invariant gives the wakeup. *)
LEMMA InvGivesWakeup == Inv => NoLostWakeup
<1> SUFFICES ASSUME Inv, at = "select", ~b.deaf
             PROVE  /\ N_ACTIVE_CALLBACKS(b) > 0 \/ b.event_break => Woken \/ wait = 0
                    /\ \A e \in b.inserted \cap IoEvents :
                          {ev_fd(e)} \X ev_events(e) \subseteq b.watched \/ Woken \/ wait = 0
                    /\ b.timeheap # <<>> =>
                          \/ Woken \/ wait = 0
                          \/ wait > 0 /\ wait =< b.ev_timeout[Head(b.timeheap)] - b.event_tv
                    /\ ~event_haveevents(b) => Woken \/ wait >= 0
  BY DEF NoLostWakeup
<1>1. /\ Good(b) /\ wait \in Int
      /\ <<"th_notify", "read">> \in b.watched /\ (wait = 0 \/ Covered(b, wait))
  BY DEF Inv, Base
<1>2. CASE wait = 0
  BY <1>2
<1>3. CASE b.notify_byte
  BY <1>1, <1>3 DEF Woken
<1>4. CASE Asleep(b, wait)
  <2>1. ~(N_ACTIVE_CALLBACKS(b) > 0) /\ ~b.event_break
    <3>1. N_ACTIVE_CALLBACKS(b) = 0
      BY <1>1, <1>4, CallbacksAre DEF Asleep
    <3> QED BY <3>1, <1>4 DEF Asleep
  <2>2. \A e \in b.inserted \cap IoEvents : {ev_fd(e)} \X ev_events(e) \subseteq b.watched
    BY <1>4 DEF Asleep
  <2>3. b.timeheap # <<>> => wait > 0 /\ wait =< b.ev_timeout[Head(b.timeheap)] - b.event_tv
    BY <1>1, <1>4, HeapHead DEF Asleep
  <2>4. wait >= 0 \/ event_haveevents(b)
    BY <1>4 DEF Asleep
  <2> QED BY <2>1, <2>2, <2>3, <2>4
<1> QED BY <1>1, <1>2, <1>3, <1>4 DEF Covered

(* The invariant gives the empty queues. *)
LEMMA InvGivesEmpty == Inv => FreedEmpty
<1> SUFFICES ASSUME Inv, at = "freed"
             PROVE  /\ N_ACTIVE_EVENTS(b) = 0
                    /\ b.timeheap = <<>> /\ b.common = <<>> /\ b.inserted = {}
  BY DEF FreedEmpty
<1>1. /\ Good(b) /\ ToSet(b.timeheap) = {} /\ ToSet(b.common) = {}
      /\ ActiveSet(b) = {} /\ b.inserted = {}
  BY DEF Inv, Base
<1> QED BY <1>1, ActiveSetIs, CommonEmpty

(* Every queue of the event_base holds events of the base, each in the     *)
(* active queue of its priority, and running_loop and current_event say    *)
(* where event_base_loop is.                                               *)
THEOREM TypeCorrect == Spec => []TypeOK
BY Invariance, InvGivesTypeOK, PTL

(* evmap_io_add, evmap_io_del and do_fd_clear: after any sequence of       *)
(* event_add and event_del the list of every descriptor, its counters, the *)
(* arrays for select() and the positions in them agree.                    *)
THEOREM MapCorrect == Spec => []MapOK
BY Invariance, InvGivesMapOK, PTL

(* event_base_assert_ok: min_heap_push and min_heap_erase keep a heap,     *)
(* insert_common_timeout_inorder a sorted list, timeout_correct both of them *)
(* when the clock is set back, and no event is twice in a queue.           *)
THEOREM QueuesCorrect == Spec => []QueuesOK
BY Invariance, InvGivesQueuesOK, PTL

(* common_timeout_schedule, common_timeout_callback: while events wait for *)
(* the common timeout, the internal timer of the list is due no later than *)
(* the first of them, or its callback is.                                  *)
THEOREM CommonTimeoutsFire == Spec => []CommonTimeoutScheduled
BY Invariance, InvGivesCommon, PTL

(* evthread_notify_base, evthread_notify_drain_default: event_base_loop does *)
(* not stay in select() over what another thread did, unless the base was  *)
(* reinitialised with a notification pending.                              *)
THEOREM LoopWakes == Spec => []NoLostWakeup
BY Invariance, InvGivesWakeup, PTL

(* The assertions of event_base_free: it leaves no event in the heap, in the *)
(* common list, in the active queues or inserted.                          *)
THEOREM FreeEmpties == Spec => []FreedEmpty
BY Invariance, InvGivesEmpty, PTL

=============================================================================
