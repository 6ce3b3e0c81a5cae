----------------------- MODULE BuffereventAsyncProofs -----------------------
(***************************************************************************)
(* Proofs about module BuffereventAsync: whatever the kernel, the user and *)
(* the user's callbacks do, a bufferevent lives exactly as long as someone *)
(* refers to it.                                                           *)
(***************************************************************************)
EXTENDS BuffereventAsync, TLAPS

(* A reference more. *)
LEMMA IncrefGood ==
    ASSUME NEW k \in Nat, NEW s, Good(s, k), s.life = "live"
    PROVE  Good(Incref(s), k + 1)
BY DEF Good, BevState, Bit, Incref

(* The virtual events of the loop. *)
LEMMA DelReadGood ==
    ASSUME NEW k \in Nat, NEW s, Good(s, k)
    PROVE  Good(DelRead(s), k)
<1> DEFINE v == s.virtual - s.radd
<1>1. s \in BevState /\ v \in Int
  BY DEF Good, BevState, Bit
<1>2. DelRead(s) = [s EXCEPT !.radd = 0, !.virtual = v]
  BY DEF DelRead
<1>3. v = 0 + s.wadd
  BY DEF Good, BevState, Bit
<1> HIDE DEF v
<1>4. DelRead(s) \in BevState
  BY ZenonT(60), <1>1, <1>2 DEF BevState, Bit
<1> QED
  BY <1>1, <1>2, <1>3, <1>4 DEF Good, BevState, Bit

LEMMA DelWriteGood ==
    ASSUME NEW k \in Nat, NEW s, Good(s, k)
    PROVE  Good(DelWrite(s), k)
<1> DEFINE v == s.virtual - s.wadd
<1>1. s \in BevState /\ v \in Int
  BY DEF Good, BevState, Bit
<1>2. DelWrite(s) = [s EXCEPT !.wadd = 0, !.virtual = v]
  BY DEF DelWrite
<1>3. v = 0 + s.radd
  BY DEF Good, BevState, Bit
<1> HIDE DEF v
<1>4. DelWrite(s) \in BevState
  BY ZenonT(60), <1>1, <1>2 DEF BevState, Bit
<1> QED
  BY <1>1, <1>2, <1>3, <1>4 DEF Good, BevState, Bit

LEMMA AddReadGood ==
    ASSUME NEW k \in Nat, NEW s, Good(s, k), s.life = "live"
    PROVE  Good(AddRead(s), k)
<1> DEFINE v == s.virtual + (1 - s.radd)
<1>1. s \in BevState /\ v \in Int
  BY DEF Good, BevState, Bit
<1>2. AddRead(s) = [s EXCEPT !.radd = 1, !.virtual = v]
  BY DEF AddRead
<1>3. v = 1 + s.wadd
  BY DEF Good, BevState, Bit
<1> HIDE DEF v
<1>4. AddRead(s) \in BevState
  BY ZenonT(60), <1>1, <1>2 DEF BevState, Bit
<1> QED
  BY <1>1, <1>2, <1>3, <1>4 DEF Good, BevState, Bit

LEMMA AddWriteGood ==
    ASSUME NEW k \in Nat, NEW s, Good(s, k), s.life = "live"
    PROVE  Good(AddWrite(s), k)
<1> DEFINE v == s.virtual + (1 - s.wadd)
<1>1. s \in BevState /\ v \in Int
  BY DEF Good, BevState, Bit
<1>2. AddWrite(s) = [s EXCEPT !.wadd = 1, !.virtual = v]
  BY DEF AddWrite
<1>3. v = 1 + s.radd
  BY DEF Good, BevState, Bit
<1> HIDE DEF v
<1>4. AddWrite(s) \in BevState
  BY ZenonT(60), <1>1, <1>2 DEF BevState, Bit
<1> QED
  BY <1>1, <1>2, <1>3, <1>4 DEF Good, BevState, Bit

(* The last reference is dropped: the bufferevent is destructed. *)
LEMMA DestructGood ==
    ASSUME NEW s \in BevState, s.refcnt = 0,
           s.user = 0, s.rip = 0, s.wip = 0, s.inref = 1, s.outref = 1,
           s.kread = 0, s.kwrite = 0, s.cb = 0, s.ok = 0,
           s.virtual = s.radd + s.wadd, s.asserts = 0, s.ends <= 1
    PROVE  Good(Destruct(s), 0)
<1> DEFINE p == s.virtual - s.radd
           c == s.closes + 1
           d == [s EXCEPT !.radd = 0, !.virtual = p]
           w == [d EXCEPT !.wadd = 0, !.virtual = 0]
           t == [w EXCEPT !.closes = c, !.inref = 0, !.outref = 0, !.life = "freed"]
<1>1. p \in Int /\ p - s.wadd = 0 /\ c \in Nat
  BY DEF BevState, Bit
<1>2. Assert(s, s.rip = 0 /\ s.wip = 0) = s
  BY DEF Assert, BevState
<1>3. DelRead(s) = d
  BY DEF DelRead
<1> HIDE DEF p, c
<1>4. d \in BevState
  BY <1>1 DEF BevState, Bit
<1>5. /\ d.wadd = s.wadd /\ d.virtual = p /\ d.radd = 0
      /\ d.closes = s.closes /\ d.inref = 1 /\ d.outref = 1
      /\ d.refcnt = 0 /\ d.user = 0 /\ d.rip = 0 /\ d.wip = 0
      /\ d.kread = 0 /\ d.kwrite = 0 /\ d.cb = 0 /\ d.ok = 0
      /\ d.asserts = 0 /\ d.ends <= 1
  BY DEF BevState
<1> HIDE DEF d
<1>6. DelWrite(d) = w
  BY <1>1, <1>5 DEF DelWrite
<1>7. w \in BevState
  BY <1>4 DEF BevState, Bit
<1>8. /\ w.wadd = 0 /\ w.virtual = 0 /\ w.radd = 0
      /\ w.closes = s.closes /\ w.inref = 1 /\ w.outref = 1
      /\ w.refcnt = 0 /\ w.user = 0 /\ w.rip = 0 /\ w.wip = 0
      /\ w.kread = 0 /\ w.kwrite = 0 /\ w.cb = 0 /\ w.ok = 0
      /\ w.asserts = 0 /\ w.ends <= 1
  BY <1>4, <1>5 DEF BevState
<1> HIDE DEF w
<1>9. w.closes + 1 = c /\ w.inref - 1 = 0 /\ w.outref - 1 = 0
  BY <1>8 DEF c
<1>10. Destruct(s) = t
  BY <1>2, <1>3, <1>6, <1>9 DEF Destruct
<1>11. t \in BevState
  BY <1>1, <1>7 DEF BevState, Bit
<1> QED
  BY <1>7, <1>8, <1>10, <1>11 DEF Good, BevState, Bit

(* A reference less; the last one destructs the bufferevent. *)
LEMMA DecrefGood ==
    ASSUME NEW k \in Nat, NEW s, Good(s, k + 1)
    PROVE  Good(Decref(s), k)
<1>1. s \in BevState /\ s.refcnt > 0
  BY DEF Good, BevState, Bit
<1> DEFINE t == [Assert(s, s.refcnt > 0) EXCEPT !.refcnt = @ - 1]
<1>2. Assert(s, s.refcnt > 0) = s
  BY <1>1 DEF Assert, BevState
<1>3. t = [s EXCEPT !.refcnt = s.refcnt - 1] /\ t \in BevState
  BY <1>1, <1>2 DEF BevState
<1>4. Decref(s) = IF t.refcnt = 0 THEN Destruct(t) ELSE t
  BY DEF Decref
<1> HIDE DEF t
<1>5. CASE t.refcnt = 0
  <2>1. k = 0 /\ s.refcnt = 1
    BY <1>1, <1>3, <1>5 DEF Good, BevState, Bit
  <2>2. /\ t.user = 0 /\ t.rip = 0 /\ t.wip = 0
        /\ t.inref = 1 /\ t.outref = 1 /\ t.kread = 0 /\ t.kwrite = 0
        /\ t.cb = 0 /\ t.ok = 0 /\ t.virtual = t.radd + t.wadd
        /\ t.asserts = 0 /\ t.ends <= 1
    BY <1>1, <1>3, <2>1 DEF Good, BevState, Bit
  <2> QED
    BY <1>3, <1>4, <1>5, <2>1, <2>2, DestructGood
<1>6. CASE t.refcnt # 0
  BY <1>1, <1>3, <1>4, <1>6 DEF Good, BevState, Bit
<1> QED
  BY <1>5, <1>6

(* A bufferevent that someone refers to is alive. *)
LEMMA Alive ==
    ASSUME NEW k \in Nat, NEW s, Good(s, k), k > 0 \/ s.user = 1 \/ s.ok = 1
    PROVE  s.life = "live" /\ (s.ok = 1 => s.user = 1 /\ s.ends = 0)
BY DEF Good, BevState, Bit

(* bufferevent_free turns the reference of the user into one of the call,  *)
(* and drops it.                                                           *)
LEMMA FreeGood ==
    ASSUME NEW k \in Nat, NEW s, Good(s, k), s.user = 1
    PROVE  Good(Free(s), k)
<1> DEFINE u == [s EXCEPT !.cb = 0, !.user = 0]
           c == s.closes + 1
           v == [u EXCEPT !.closes = c, !.ok = 0]
<1>1. s \in BevState /\ c \in Nat
  BY DEF Good, BevState
<1>2. u \in BevState /\ u.closes = s.closes
  BY <1>1 DEF BevState, Bit
<1>3. CancelAll(u) = v
  BY <1>2 DEF CancelAll
<1> HIDE DEF c
<1>4. v \in BevState
  BY <1>1, <1>2 DEF BevState, Bit
<1>5. Good(v, k + 1)
  BY <1>1, <1>4 DEF Good, BevState, Bit
<1> HIDE DEF v
<1> QED
  BY <1>3, <1>5, DecrefGood DEF Free

(* The event callback is run once, after ok was cleared, and may free the  *)
(* bufferevent.                                                            *)
LEMMA RunEventcbGood ==
    ASSUME NEW k \in Nat, NEW s, Good(s, k), s.ok = 0, s.ends = 0,
           NEW t \in RunEventcb(s)
    PROVE  Good(t, k)
<1> DEFINE u == [s EXCEPT !.ends = 1]
<1>1. CASE s.cb = 0
  BY <1>1 DEF RunEventcb
<1>2. CASE s.cb # 0
  <2>1. s.user = 1 /\ s \in BevState
    BY <1>2 DEF Good, BevState, Bit
  <2>2. [s EXCEPT !.ends = @ + 1] = u
    OBVIOUS
  <2>3. t \in {u, Free(u)}
    BY <1>2, <2>2 DEF RunEventcb
  <2>4. u \in BevState /\ u.user = 1
    BY <2>1 DEF BevState
  <2>5. Good(u, k)
    BY <2>4 DEF Good, BevState, Bit
  <2> HIDE DEF u
  <2> QED
    BY <2>3, <2>4, <2>5, FreeGood
<1> QED
  BY <1>1, <1>2

(* The fields a launched operation changes keep their types. *)
LEMMA ReadLaunchType ==
    ASSUME NEW s \in BevState, NEW m \in Int
    PROVE  [s EXCEPT !.kread = 1, !.inref = m, !.rip = 1] \in BevState
BY DEF BevState, Bit

LEMMA WriteLaunchType ==
    ASSUME NEW s \in BevState, NEW m \in Int, NEW n \in Nat
    PROVE  [s EXCEPT !.kwrite = n, !.outref = m, !.wip = 1] \in BevState
BY DEF BevState, Bit

(* A read is launched with a reference of its own, or it fails and the     *)
(* event callback runs.                                                    *)
LEMMA ConsiderReadingGood ==
    ASSUME NEW k \in Nat, NEW s, Good(s, k), NEW t \in ConsiderReading(s)
    PROVE  Good(t, k)
<1>1. CASE s.rip = 1
  BY <1>1 DEF ConsiderReading
<1>2. CASE s.rip # 1 /\ (s.ok = 0 \/ "read" \notin s.enabled)
  BY <1>2, DelReadGood DEF ConsiderReading
<1>3. CASE s.rip # 1 /\ s.ok # 0 /\ "read" \in s.enabled
  <2> DEFINE i == Incref(s)
             x == [i EXCEPT !.kread = 1, !.inref = @ + 1, !.rip = 1]
             y == [i EXCEPT !.ok = 0]
  <2>1. s.ok = 1 /\ s.rip = 0 /\ s.life = "live" /\ s.ends = 0
    BY <1>3, Alive DEF Good, BevState, Bit
  <2>2. Good(i, k + 1)
    BY <2>1, IncrefGood
  <2>3. i.rip = 0 /\ i.life = "live" /\ i.ends = 0 /\ i.inref = 1
    BY <2>1 DEF Incref, Good, BevState
  <2>4. t \in {AddRead(x)} \cup {Decref(u) : u \in RunEventcb(y)}
    BY <1>3 DEF ConsiderReading
  <2> HIDE DEF i
  <2>5. x = [i EXCEPT !.kread = 1, !.inref = 2, !.rip = 1]
    BY <2>3
  <2>6. Good(x, k) /\ x.life = "live"
    <3>1. i \in BevState
      BY <2>2 DEF Good
    <3> DEFINE m == 2
    <3>2. m \in Int /\ m = 2 /\ x = [i EXCEPT !.kread = 1, !.inref = m, !.rip = 1]
      BY <2>5
    <3> HIDE DEF m
    <3>3. [i EXCEPT !.kread = 1, !.inref = m, !.rip = 1] \in BevState
      BY <3>1, <3>2, ReadLaunchType
    <3> QED
      BY <2>2, <2>3, <2>5, <3>2, <3>3 DEF Good, BevState, Bit
  <2>7. Good(y, k + 1) /\ y.ok = 0 /\ y.ends = 0
    <3>1. y \in BevState
      BY <2>2 DEF Good, BevState, Bit
    <3> QED
      BY <2>2, <2>3, <3>1 DEF Good, BevState, Bit
  <2> HIDE DEF x, y
  <2>8. CASE t = AddRead(x)
    BY <2>6, <2>8, AddReadGood
  <2>9. CASE t \in {Decref(u) : u \in RunEventcb(y)}
    <3>1. PICK u \in RunEventcb(y) : t = Decref(u)
      BY <2>9
    <3>2. Good(u, k + 1)
      BY <2>7, RunEventcbGood
    <3> QED
      BY <3>1, <3>2, DecrefGood
  <2> QED
    BY <2>4, <2>8, <2>9
<1> QED
  BY <1>1, <1>2, <1>3

(* A write is launched likewise; when it fails, its reference is gone      *)
(* before the event callback runs.                                         *)
LEMMA ConsiderWritingGood ==
    ASSUME NEW k \in Nat, NEW s, Good(s, k), NEW t \in ConsiderWriting(s)
    PROVE  Good(t, k)
<1>1. CASE s.wip = 1
  BY <1>1 DEF ConsiderWriting
<1>2. CASE s.wip # 1 /\ (s.ok = 0 \/ "write" \notin s.enabled \/ s.outlen = 0)
  BY <1>2, DelWriteGood DEF ConsiderWriting
<1>3. CASE s.wip # 1 /\ s.ok # 0 /\ "write" \in s.enabled /\ s.outlen # 0
  <2> DEFINE i == Incref(s)
             x(n) == [i EXCEPT !.kwrite = n, !.outref = @ + 1, !.wip = 1]
             y == [s EXCEPT !.ok = 0]
  <2>1. /\ s.ok = 1 /\ s.wip = 0 /\ s.life = "live" /\ s.ends = 0
        /\ s.outlen \in Int
    BY <1>3, Alive DEF Good, BevState, Bit
  <2>2. Good(i, k + 1)
    BY <2>1, IncrefGood
  <2>3. i.wip = 0 /\ i.life = "live" /\ i.outref = 1
    BY <2>1 DEF Incref, Good, BevState
  <2>4. t \in {AddWrite(x(n)) : n \in 1..s.outlen} \cup RunEventcb(y)
    BY <1>3 DEF ConsiderWriting
  <2> HIDE DEF i
  <2>5. ASSUME NEW n \in 1..s.outlen
        PROVE  Good(x(n), k) /\ x(n).life = "live"
    <3>1. x(n) = [i EXCEPT !.kwrite = n, !.outref = 2, !.wip = 1]
      BY <2>3
    <3>2. n \in Nat /\ n > 0
      BY <2>1
    <3>3. i \in BevState
      BY <2>2 DEF Good
    <3> DEFINE m == 2
    <3>4. m \in Int /\ m = 2 /\ x(n) = [i EXCEPT !.kwrite = n, !.outref = m, !.wip = 1]
      BY <3>1
    <3> HIDE DEF m
    <3>5. [i EXCEPT !.kwrite = n, !.outref = m, !.wip = 1] \in BevState
      BY <3>2, <3>3, <3>4, WriteLaunchType
    <3> QED
      BY <2>2, <2>3, <3>1, <3>2, <3>4, <3>5 DEF Good, BevState, Bit
  <2>6. Good(y, k) /\ y.ok = 0 /\ y.ends = 0
    <3>1. y \in BevState
      BY DEF Good, BevState, Bit
    <3> QED
      BY <2>1, <3>1 DEF Good, BevState, Bit
  <2> HIDE DEF x, y
  <2>7. CASE t \in {AddWrite(x(n)) : n \in 1..s.outlen}
    BY <2>5, <2>7, AddWriteGood
  <2>8. CASE t \in RunEventcb(y)
    BY <2>6, <2>8, RunEventcbGood
  <2> QED
    BY <2>4, <2>7, <2>8
<1> QED
  BY <1>1, <1>2, <1>3

-----------------------------------------------------------------------------
(* The calls of the user *)

(* The stream is over: ok is cleared. *)
LEMMA NotOkGood ==
    ASSUME NEW k \in Nat, NEW s, Good(s, k), s.ok = 1
    PROVE  /\ Good([s EXCEPT !.ok = 0], k)
           /\ [s EXCEPT !.ok = 0].ok = 0
           /\ [s EXCEPT !.ok = 0].ends = 0
<1>1. s \in BevState /\ s.ends = 0
  BY Alive DEF Good
<1>2. [s EXCEPT !.ok = 0] \in BevState
  BY <1>1 DEF BevState, Bit
<1> QED
  BY <1>1, <1>2 DEF Good, BevState, Bit

(* Draining the input, in a call that holds a reference of its own. *)
LEMMA ReadGood ==
    ASSUME NEW k \in Nat, NEW s, Good(s, k), s.life = "live",
           NEW n \in Int, NEW t \in Read(s, n)
    PROVE  Good(t, k)
<1> DEFINE l == s.inlen - n
           u == [s EXCEPT !.inlen = l]
<1>1. s \in BevState /\ l \in Int
  BY DEF Good, BevState
<1>2. PICK v \in ConsiderReading(Incref(u)) : t = Decref(v)
  BY DEF Read
<1> HIDE DEF l
<1>3. u \in BevState
  BY <1>1 DEF BevState
<1>4. Good(u, k) /\ u.life = "live"
  BY <1>1, <1>3 DEF Good, BevState, Bit
<1> HIDE DEF u
<1>5. Good(Incref(u), k + 1)
  BY <1>4, IncrefGood
<1>6. Good(v, k + 1)
  BY <1>5, ConsiderReadingGood
<1> QED
  BY <1>2, <1>6, DecrefGood

(* Adding to the output, likewise. *)
LEMMA WriteGood ==
    ASSUME NEW k \in Nat, NEW s, Good(s, k), s.life = "live", NEW t \in Write(s)
    PROVE  Good(t, k)
<1> DEFINE l == s.outlen + 1
           u == [s EXCEPT !.outlen = l]
<1>1. s \in BevState /\ l \in Int
  BY DEF Good, BevState
<1>2. PICK v \in ConsiderWriting(Incref(u)) : t = Decref(v)
  BY DEF Write
<1> HIDE DEF l
<1>3. u \in BevState
  BY <1>1 DEF BevState
<1>4. Good(u, k) /\ u.life = "live"
  BY <1>1, <1>3 DEF Good, BevState, Bit
<1> HIDE DEF u
<1>5. Good(Incref(u), k + 1)
  BY <1>4, IncrefGood
<1>6. Good(v, k + 1)
  BY <1>5, ConsiderWritingGood
<1> QED
  BY <1>2, <1>6, DecrefGood

LEMMA UserReadsGood ==
    ASSUME NEW k \in Nat, NEW s, Good(s, k), s.life = "live", NEW t \in UserReads(s)
    PROVE  Good(t, k)
<1>1. CASE s.inlen = 0
  BY <1>1 DEF UserReads
<1>2. CASE s.inlen # 0
  <2>1. PICK n \in 1..s.inlen : t \in Read(s, n)
    BY <1>2 DEF UserReads
  <2>2. n \in Int
    BY DEF Good, BevState
  <2> QED
    BY <2>1, <2>2, ReadGood
<1> QED
  BY <1>1, <1>2

LEMMA UserWritesGood ==
    ASSUME NEW k \in Nat, NEW s, Good(s, k), s.life = "live", NEW t \in UserWrites(s)
    PROVE  Good(t, k)
BY WriteGood DEF UserWrites

(* The callbacks run while the completion holds its reference: the         *)
(* bufferevent outlives them, even if they free it.                        *)
LEMMA RunReadcbGood ==
    ASSUME NEW k \in Nat, k > 0, NEW s, Good(s, k), NEW t \in RunReadcb(s)
    PROVE  Good(t, k)
<1>1. CASE s.cb = 0
  BY <1>1 DEF RunReadcb
<1>2. CASE s.cb # 0
  <2>1. s.user = 1 /\ s.life = "live"
    BY <1>2, Alive DEF Good, BevState, Bit
  <2>2. \/ t \in {s, Free(s)} \/ t \in UserReads(s) \/ t \in UserWrites(s)
        \/ t \in UNION {UserWrites(u) : u \in UserReads(s)}
    BY <1>2 DEF RunReadcb
  <2>3. CASE t \in {s, Free(s)}
    BY <2>1, <2>3, FreeGood
  <2>4. CASE t \in UserReads(s)
    BY <2>1, <2>4, UserReadsGood
  <2>5. CASE t \in UserWrites(s)
    BY <2>1, <2>5, UserWritesGood
  <2>6. CASE t \in UNION {UserWrites(u) : u \in UserReads(s)}
    <3>1. PICK u \in UserReads(s) : t \in UserWrites(u)
      BY <2>6
    <3>2. Good(u, k)
      BY <2>1, UserReadsGood
    <3>3. u.life = "live"
      BY <3>2, Alive
    <3> QED
      BY <3>1, <3>2, <3>3, UserWritesGood
  <2> QED
    BY <2>2, <2>3, <2>4, <2>5, <2>6
<1> QED
  BY <1>1, <1>2

LEMMA RunWritecbGood ==
    ASSUME NEW k \in Nat, k > 0, NEW s, Good(s, k), NEW t \in RunWritecb(s)
    PROVE  Good(t, k)
<1>1. CASE s.cb = 0 \/ s.outlen > 0
  BY <1>1 DEF RunWritecb
<1>2. CASE ~(s.cb = 0 \/ s.outlen > 0)
  <2>1. s.user = 1 /\ s.life = "live"
    BY <1>2, Alive DEF Good, BevState, Bit
  <2>2. t \in {s, Free(s)} \/ t \in UserWrites(s)
    BY <1>2 DEF RunWritecb
  <2> QED
    BY <2>1, <2>2, FreeGood, UserWritesGood
<1> QED
  BY <1>1, <1>2

-----------------------------------------------------------------------------
(* The completions *)

(* The reference of the operation becomes one of the call. *)
LEMMA CommitReadGood ==
    ASSUME NEW s, Good(s, 0), s.kread = 1, NEW n \in Int
    PROVE  Good(CommitRead(s, n), 1)
<1> DEFINE l == s.inlen + n
           m == s.inref - 1
           u == [s EXCEPT !.kread = 0, !.inlen = l, !.inref = m, !.rip = 0]
<1>1. s \in BevState /\ l \in Int /\ m \in Int
  BY DEF Good, BevState
<1>2. s.rip = 1 /\ m = 1 /\ s.life = "live"
  BY DEF Good, BevState, Bit
<1>3. Assert(s, s.rip = 1 /\ s.kread = 1) = s
  BY <1>1, <1>2 DEF Assert, BevState
<1>4. CommitRead(s, n) = u
  BY <1>3 DEF CommitRead
<1> HIDE DEF l, m
<1>5. u \in BevState
  BY <1>1 DEF BevState, Bit
<1> QED
  BY <1>1, <1>2, <1>4, <1>5 DEF Good, BevState, Bit

LEMMA CommitWriteGood ==
    ASSUME NEW s, Good(s, 0), s.kwrite > 0, NEW n \in Int
    PROVE  Good(CommitWrite(s, n), 1)
<1> DEFINE l == s.outlen - n
           m == s.outref - 1
           u == [s EXCEPT !.kwrite = 0, !.outlen = l, !.outref = m, !.wip = 0]
<1>1. s \in BevState /\ l \in Int /\ m \in Int
  BY DEF Good, BevState
<1>2. s.wip = 1 /\ m = 1 /\ s.life = "live"
  BY DEF Good, BevState, Bit
<1>3. Assert(s, s.wip = 1 /\ s.kwrite > 0) = s
  BY <1>1, <1>2 DEF Assert, BevState
<1>4. CommitWrite(s, n) = u
  BY <1>3 DEF CommitWrite
<1> HIDE DEF l, m
<1>5. u \in BevState
  BY <1>1 DEF BevState, Bit
<1> QED
  BY <1>1, <1>2, <1>4, <1>5 DEF Good, BevState, Bit

LEMMA ReadCompleteGood ==
    ASSUME NEW s, Good(s, 0), s.kread = 1, NEW n \in Int, NEW success,
           NEW t \in ReadComplete(s, n, success)
    PROVE  Good(t, 0)
<1> DEFINE c == CommitRead(s, n)
           e == [c EXCEPT !.ok = 0]
           handled == IF c.ok = 0 THEN {c}
                      ELSE IF success /\ n > 0
                      THEN UNION {ConsiderReading(u) : u \in RunReadcb(c)}
                      ELSE RunEventcb(e)
<1>1. PICK h \in handled : t = Decref(h)
  BY DEF ReadComplete
<1>2. Good(c, 1)
  BY CommitReadGood
<1>3. c.ok \in Bit
  BY <1>2 DEF Good, BevState
<1> HIDE DEF c
<1>4. Good(h, 1)
  <2>1. CASE c.ok = 0
    BY <1>1, <1>2, <2>1
  <2>2. CASE c.ok = 1 /\ success /\ n > 0
    <3>1. PICK u \in RunReadcb(c) : h \in ConsiderReading(u)
      BY <1>1, <2>2
    <3>2. Good(u, 1)
      BY <1>2, RunReadcbGood
    <3> QED
      BY <3>1, <3>2, ConsiderReadingGood
  <2>3. CASE c.ok = 1 /\ ~(success /\ n > 0)
    <3>1. h \in RunEventcb(e)
      BY <1>1, <2>3
    <3>2. Good(e, 1) /\ e.ok = 0 /\ e.ends = 0
      BY <1>2, <2>3, NotOkGood
    <3> HIDE DEF e
    <3> QED
      BY <3>1, <3>2, RunEventcbGood
  <2> QED
    BY <1>3, <2>1, <2>2, <2>3 DEF Bit
<1>5. Good(h, 0 + 1)
  BY <1>4
<1> QED
  BY <1>1, <1>5, DecrefGood

LEMMA WriteCompleteGood ==
    ASSUME NEW s, Good(s, 0), s.kwrite > 0, NEW n \in Int, NEW success,
           NEW t \in WriteComplete(s, n, success)
    PROVE  Good(t, 0)
<1> DEFINE c == CommitWrite(s, n)
           e == [c EXCEPT !.ok = 0]
           handled == IF c.ok = 0 THEN {c}
                      ELSE IF success /\ n > 0
                      THEN UNION {ConsiderWriting(u) : u \in RunWritecb(c)}
                      ELSE RunEventcb(e)
<1>1. PICK h \in handled : t = Decref(h)
  BY DEF WriteComplete
<1>2. Good(c, 1)
  BY CommitWriteGood
<1>3. c.ok \in Bit
  BY <1>2 DEF Good, BevState
<1> HIDE DEF c
<1>4. Good(h, 1)
  <2>1. CASE c.ok = 0
    BY <1>1, <1>2, <2>1
  <2>2. CASE c.ok = 1 /\ success /\ n > 0
    <3>1. PICK u \in RunWritecb(c) : h \in ConsiderWriting(u)
      BY <1>1, <2>2
    <3>2. Good(u, 1)
      BY <1>2, RunWritecbGood
    <3> QED
      BY <3>1, <3>2, ConsiderWritingGood
  <2>3. CASE c.ok = 1 /\ ~(success /\ n > 0)
    <3>1. h \in RunEventcb(e)
      BY <1>1, <2>3
    <3>2. Good(e, 1) /\ e.ok = 0 /\ e.ends = 0
      BY <1>2, <2>3, NotOkGood
    <3> HIDE DEF e
    <3> QED
      BY <3>1, <3>2, RunEventcbGood
  <2> QED
    BY <1>3, <2>1, <2>2, <2>3 DEF Bit
<1>5. Good(h, 0 + 1)
  BY <1>4
<1> QED
  BY <1>1, <1>5, DecrefGood

LEMMA EnableGood ==
    ASSUME NEW s, Good(s, 0), s.user = 1, NEW what \in {"read", "write"},
           NEW t \in Enable(s, what)
    PROVE  Good(t, 0)
<1> DEFINE e == s.enabled \cup {what}
           u == [s EXCEPT !.enabled = e]
           i == Incref(u)
           considered == IF i.ok = 0 THEN {i}
                         ELSE IF what = "read" THEN ConsiderReading(i)
                         ELSE ConsiderWriting(i)
<1>1. s \in BevState /\ e \in SUBSET {"read", "write"} /\ s.life = "live"
  BY Alive DEF Good, BevState
<1>2. PICK c \in considered : t = Decref(c)
  BY DEF Enable
<1> HIDE DEF e
<1>3. u \in BevState
  BY <1>1 DEF BevState
<1>4. Good(u, 0) /\ u.life = "live"
  BY <1>1, <1>3 DEF Good, BevState, Bit
<1> HIDE DEF u
<1>5. Good(i, 0 + 1)
  BY <1>4, IncrefGood
<1> HIDE DEF i
<1>6. Good(c, 0 + 1)
  BY <1>2, <1>5, ConsiderReadingGood, ConsiderWritingGood
<1> QED
  BY <1>2, <1>6, DecrefGood

LEMMA DisableGood ==
    ASSUME NEW s, Good(s, 0), NEW what \in {"read", "write"}
    PROVE  Good(Disable(s, what), 0)
<1> DEFINE e == s.enabled \ {what}
           u == [s EXCEPT !.enabled = e]
<1>1. s \in BevState /\ e \in SUBSET {"read", "write"}
  BY DEF Good, BevState
<1>2. Disable(s, what) = IF what = "read" THEN DelRead(u) ELSE DelWrite(u)
  BY DEF Disable
<1> HIDE DEF e
<1>3. u \in BevState
  BY <1>1 DEF BevState
<1>4. Good(u, 0)
  BY <1>1, <1>3 DEF Good, BevState, Bit
<1> HIDE DEF u
<1> QED
  BY <1>2, <1>4, DelReadGood, DelWriteGood

LEMMA CreatedGood == Good(Unborn, 0) /\ Good(Created, 0)
<1>1. Unborn \in BevState
  BY DEF Unborn, BevState, Bit
<1>2. Good(Unborn, 0)
  BY <1>1 DEF Good, Unborn
<1>3. /\ Unborn.rip = 0 /\ Unborn.wip = 0 /\ Unborn.radd = 0 /\ Unborn.wadd = 0
      /\ Unborn.virtual = 0 /\ Unborn.kread = 0 /\ Unborn.kwrite = 0
      /\ Unborn.ends = 0 /\ Unborn.asserts = 0
  BY DEF Unborn
<1> DEFINE one == 1
           a == [Unborn EXCEPT !.life = "live", !.refcnt = one, !.user = 1, !.cb = 1]
           c == [a EXCEPT !.ok = 1, !.enabled = {"write"}, !.inref = one, !.outref = one]
<1>4. one \in Int /\ one = 1 /\ Created = c
  BY DEF Created
<1> HIDE DEF one
<1>5. a \in BevState
  BY <1>1, <1>4 DEF BevState, Bit
<1>6. /\ a.life = "live" /\ a.refcnt = 1 /\ a.user = 1 /\ a.cb = 1
      /\ a.rip = 0 /\ a.wip = 0 /\ a.radd = 0 /\ a.wadd = 0
      /\ a.virtual = 0 /\ a.kread = 0 /\ a.kwrite = 0
      /\ a.ends = 0 /\ a.asserts = 0
  BY <1>1, <1>3, <1>4 DEF BevState
<1> HIDE DEF a
<1>7. c \in BevState
  BY ZenonT(60), <1>4, <1>5 DEF BevState, Bit
<1>8. Good(c, 0)
  BY <1>4, <1>5, <1>6, <1>7 DEF Good, BevState, Bit
<1> QED
  BY <1>2, <1>4, <1>8

-----------------------------------------------------------------------------
(* A step of one bufferevent to a good state keeps the invariant: the      *)
(* others are left alone.                                                  *)
LEMMA UpdateKeepsInv ==
    ASSUME BevInv, NEW b \in Bufferevents, NEW t, Good(t, 0),
           bev' = [bev EXCEPT ![b] = t]
    PROVE  BevInv'
BY DEF BevInv

LEMMA StepKeepsInv ==
    ASSUME BevInv, NEW b \in Bufferevents, NEW states,
           \A t \in states : Good(t, 0), Step(b, states)
    PROVE  BevInv'
BY UpdateKeepsInv DEF Step

LEMMA InitBevInv == Init => BevInv
BY CreatedGood DEF Init, BevInv

LEMMA NextBevInv == BevInv /\ [Next]_vars => BevInv'
<1> SUFFICES ASSUME BevInv, [Next]_vars
             PROVE  BevInv'
  OBVIOUS
<1>1. CASE UNCHANGED vars
  BY <1>1 DEF vars, BevInv
<1>2. CASE Next
  <2>1. PICK b \in Bufferevents :
            \/ \E h \in Handles : New(b, h)
            \/ \E what \in {"read", "write"} : UserEnable(b, what)
            \/ \E what \in {"read", "write"} : UserDisable(b, what)
            \/ UserRead(b)
            \/ UserWrite(b)
            \/ UserFree(b)
            \/ CompleteRead(b)
            \/ CompleteWrite(b)
    BY <1>2 DEF Next
  <2> DEFINE s == bev[b]
  <2>2. Good(s, 0)
    BY DEF BevInv
  <2>3. CASE \E h \in Handles : New(b, h)
    BY <2>3, CreatedGood, UpdateKeepsInv DEF New
  <2>4. CASE \E what \in {"read", "write"} : UserEnable(b, what)
    <3>1. PICK what \in {"read", "write"} : UserEnable(b, what)
      BY <2>4
    <3>2. \A t \in Enable(s, what) : Good(t, 0)
      BY <2>2, <3>1, EnableGood DEF UserEnable
    <3> QED
      BY <3>1, <3>2, StepKeepsInv DEF UserEnable
  <2>5. CASE \E what \in {"read", "write"} : UserDisable(b, what)
    <3>1. PICK what \in {"read", "write"} : UserDisable(b, what)
      BY <2>5
    <3>2. \A t \in {Disable(s, what)} : Good(t, 0)
      BY <2>2, DisableGood
    <3> QED
      BY <3>1, <3>2, StepKeepsInv DEF UserDisable
  <2>6. CASE UserRead(b)
    <3>1. s.life = "live"
      BY <2>2, <2>6, Alive DEF UserRead
    <3>2. \A t \in UserReads(s) : Good(t, 0)
      BY <2>2, <3>1, UserReadsGood
    <3> QED
      BY <2>6, <3>2, StepKeepsInv DEF UserRead
  <2>7. CASE UserWrite(b)
    <3>1. s.life = "live"
      BY <2>2, <2>7, Alive DEF UserWrite
    <3>2. \A t \in Write(s) : Good(t, 0)
      BY <2>2, <3>1, WriteGood
    <3> QED
      BY <2>7, <3>2, StepKeepsInv DEF UserWrite
  <2>8. CASE UserFree(b)
    <3>1. \A t \in {Free(s)} : Good(t, 0)
      BY <2>2, <2>8, FreeGood DEF UserFree
    <3> QED
      BY <2>8, <3>1, StepKeepsInv DEF UserFree
  <2>9. CASE CompleteRead(b)
    <3>1. \A n \in Int, success \in BOOLEAN :
             \A t \in ReadComplete(s, n, success) : Good(t, 0)
      BY <2>2, <2>9, ReadCompleteGood DEF CompleteRead
    <3>2. \/ \E n \in 0..1 : Step(b, ReadComplete(s, n, TRUE))
          \/ Step(b, ReadComplete(s, 0, FALSE))
      BY <2>9 DEF CompleteRead
    <3>3. CASE \E n \in 0..1 : Step(b, ReadComplete(s, n, TRUE))
      <4>1. PICK n \in 0..1 : Step(b, ReadComplete(s, n, TRUE))
        BY <3>3
      <4>2. n \in Int
        BY SMT
      <4>3. \A t \in ReadComplete(s, n, TRUE) : Good(t, 0)
        BY <3>1, <4>2
      <4> QED
        BY <4>1, <4>3, StepKeepsInv
    <3>4. CASE Step(b, ReadComplete(s, 0, FALSE))
      <4>1. 0 \in Int /\ FALSE \in BOOLEAN
        OBVIOUS
      <4>2. \A t \in ReadComplete(s, 0, FALSE) : Good(t, 0)
        BY <3>1, <4>1, Zenon
      <4> QED
        BY <3>4, <4>2, StepKeepsInv
    <3> QED
      BY <3>2, <3>3, <3>4
  <2>10. CASE CompleteWrite(b)
    <3>1. \A n \in Int, success \in BOOLEAN :
             \A t \in WriteComplete(s, n, success) : Good(t, 0)
      BY <2>2, <2>10, WriteCompleteGood DEF CompleteWrite
    <3>2. s.kwrite \in Nat
      BY <2>2 DEF Good, BevState
    <3>3. \/ \E n \in 0..s.kwrite : Step(b, WriteComplete(s, n, TRUE))
          \/ Step(b, WriteComplete(s, 0, FALSE))
      BY <2>10 DEF CompleteWrite
    <3>4. CASE \E n \in 0..s.kwrite : Step(b, WriteComplete(s, n, TRUE))
      <4>1. PICK n \in 0..s.kwrite : Step(b, WriteComplete(s, n, TRUE))
        BY <3>4
      <4>2. n \in Int
        BY <3>2
      <4>3. \A t \in WriteComplete(s, n, TRUE) : Good(t, 0)
        BY <3>1, <4>2
      <4> QED
        BY <4>1, <4>3, StepKeepsInv
    <3>5. CASE Step(b, WriteComplete(s, 0, FALSE))
      <4>1. 0 \in Int /\ FALSE \in BOOLEAN
        OBVIOUS
      <4>2. \A t \in WriteComplete(s, 0, FALSE) : Good(t, 0)
        BY <3>1, <4>1, Zenon
      <4> QED
        BY <3>5, <4>2, StepKeepsInv
    <3> QED
      BY <3>3, <3>4, <3>5
  <2> QED
    BY <2>1, <2>3, <2>4, <2>5, <2>6, <2>7, <2>8, <2>9, <2>10
<1> QED
  BY <1>1, <1>2

-----------------------------------------------------------------------------
(* The theorems *)

(* Between the operations of bufferevent_async.c, every bufferevent is in  *)
(* good order, for any number of bufferevents and handles, any length of   *)
(* the buffers and any behaviour of the callbacks.                         *)
THEOREM BevInvariant == Spec => []BevInv
<1> QED
  BY InitBevInv, NextBevInv, PTL DEF Spec

(* A bufferevent is destructed exactly when the user freed it and nothing  *)
(* is in flight (_bufferevent_decref_and_unlock).                          *)
THEOREM BevReferencesCounted == Spec => []ReferencesCounted
<1>1. BevInv => ReferencesCounted
  BY DEF BevInv, Good, BevState, Bit, ReferencesCounted
<1> QED
  BY <1>1, BevInvariant, PTL

(* The kernel never works on the buffers of a bufferevent that             *)
(* be_async_destruct released.                                             *)
THEOREM BevKernelOwnsLiveBuffers == Spec => []KernelOwnsLiveBuffers
<1>1. BevInv => KernelOwnsLiveBuffers
  BY DEF BevInv, Good, BevState, Bit, KernelOwnsLiveBuffers
<1> QED
  BY <1>1, BevInvariant, PTL

(* No EVUTIL_ASSERT of the completion handlers, the commits, the decref    *)
(* and the destructor fails.                                               *)
THEOREM BevNoAssertionFails == Spec => []NoAssertionFails
<1>1. BevInv => NoAssertionFails
  BY DEF BevInv, Good, NoAssertionFails
<1> QED
  BY <1>1, BevInvariant, PTL

(* When _bufferevent_decref_and_unlock releases the two buffers, nobody    *)
(* else holds a reference to them.                                         *)
THEOREM BevBuffersGo == Spec => []BuffersGoWithBufferevent
<1>1. BevInv => BuffersGoWithBufferevent
  BY DEF BevInv, Good, BevState, Bit, BuffersGoWithBufferevent
<1> QED
  BY <1>1, BevInvariant, PTL

(* Whatever completes after the stream ended, the user hears of the end    *)
(* once (the ok flag of bufferevent_async).                                *)
THEOREM BevOneEnd == Spec => []OneEnd
<1>1. BevInv => OneEnd
  BY DEF BevInv, Good, OneEnd
<1> QED
  BY <1>1, BevInvariant, PTL

(* A destructed bufferevent returned its virtual events to the loop.       *)
THEOREM BevVirtualEventsReturned == Spec => []VirtualEventsReturned
<1>1. BevInv => VirtualEventsReturned
  BY DEF BevInv, Good, VirtualEventsReturned
<1> QED
  BY <1>1, BevInvariant, PTL

-----------------------------------------------------------------------------
(* No stall: every operation that may leave a bufferevent without a read   *)
(* or a write in flight ends by considering one.                           *)

ReadsOn(s) == s.ok = 1 /\ "read" \in s.enabled => s.rip = 1
WritesOn(s) == s.ok = 1 /\ "write" \in s.enabled /\ s.outlen > 0 => s.wip = 1

(* What the reference counts and the virtual events have no part in. *)
Kept(s, t) ==
    /\ t.ok = s.ok /\ t.enabled = s.enabled /\ t.rip = s.rip
    /\ t.wip = s.wip /\ t.outlen = s.outlen

LEMMA KeptOn ==
    ASSUME NEW s, NEW t, Kept(s, t)
    PROVE  (ReadsOn(s) <=> ReadsOn(t)) /\ (WritesOn(s) <=> WritesOn(t))
BY DEF Kept, ReadsOn, WritesOn

LEMMA AssertKept ==
    ASSUME NEW s \in BevState, NEW condition
    PROVE  Assert(s, condition) \in BevState /\ Kept(s, Assert(s, condition))
<1> DEFINE n == s.asserts + (IF condition THEN 0 ELSE 1)
<1>1. n \in Nat
  BY DEF BevState
<1>2. Assert(s, condition) = [s EXCEPT !.asserts = n]
  BY DEF Assert
<1> HIDE DEF n
<1> QED
  BY <1>1, <1>2 DEF Kept, BevState

LEMMA EventsKept ==
    ASSUME NEW s \in BevState
    PROVE  /\ DelRead(s) \in BevState /\ Kept(s, DelRead(s))
           /\ DelWrite(s) \in BevState /\ Kept(s, DelWrite(s))
           /\ Kept(s, AddRead(s)) /\ Kept(s, AddWrite(s)) /\ Kept(s, Incref(s))
<1> DEFINE r == s.virtual - s.radd
           w == s.virtual - s.wadd
<1>1. r \in Int /\ w \in Int
  BY DEF BevState, Bit
<1>2. DelRead(s) = [s EXCEPT !.radd = 0, !.virtual = r]
  BY DEF DelRead
<1>3. DelWrite(s) = [s EXCEPT !.wadd = 0, !.virtual = w]
  BY DEF DelWrite
<1> HIDE DEF r, w
<1>4. DelRead(s) \in BevState /\ Kept(s, DelRead(s))
  BY ZenonT(60), <1>1, <1>2 DEF Kept, BevState, Bit
<1>5. DelWrite(s) \in BevState /\ Kept(s, DelWrite(s))
  BY ZenonT(60), <1>1, <1>3 DEF Kept, BevState, Bit
<1>6. Kept(s, AddRead(s)) /\ Kept(s, AddWrite(s)) /\ Kept(s, Incref(s))
  BY DEF Kept, BevState, AddRead, AddWrite, Incref
<1> QED
  BY <1>4, <1>5, <1>6

LEMMA DecrefKept ==
    ASSUME NEW s \in BevState
    PROVE  Kept(s, Decref(s))
<1> DEFINE a == Assert(s, s.refcnt > 0)
           m == a.refcnt - 1
           t == [a EXCEPT !.refcnt = m]
<1>1. a \in BevState /\ Kept(s, a)
  BY AssertKept
<1>2. Decref(s) = IF t.refcnt = 0 THEN Destruct(t) ELSE t
  BY DEF Decref
<1>3. m \in Int
  BY <1>1 DEF BevState
<1> HIDE DEF a, m
<1>4. t \in BevState /\ Kept(a, t)
  BY <1>1, <1>3 DEF Kept, BevState
<1> HIDE DEF t
<1> DEFINE b == Assert(t, t.rip = 0 /\ t.wip = 0)
           c == DelRead(b)
           d == DelWrite(c)
<1>5. b \in BevState /\ Kept(t, b)
  BY <1>4, AssertKept
<1> HIDE DEF b
<1>6. c \in BevState /\ Kept(b, c)
  BY <1>5, EventsKept
<1> HIDE DEF c
<1>7. d \in BevState /\ Kept(c, d)
  BY <1>6, EventsKept
<1>8. Destruct(t) = [d EXCEPT !.closes = @ + 1, !.inref = @ - 1,
                              !.outref = @ - 1, !.life = "freed"]
  BY DEF Destruct, b, c
<1> HIDE DEF d
<1>9. Kept(d, Destruct(t))
  BY <1>7, <1>8 DEF Kept, BevState
<1> QED
  BY <1>1, <1>2, <1>4, <1>5, <1>6, <1>7, <1>9 DEF Kept

(* Once ok is cleared nothing is asked of the bufferevent. *)
LEMMA OverOn ==
    ASSUME NEW s, s.ok = 0
    PROVE  ReadsOn(s) /\ WritesOn(s)
BY DEF ReadsOn, WritesOn

LEMMA FreeOver ==
    ASSUME NEW k \in Nat, NEW s, Good(s, k)
    PROVE  Free(s).ok = 0
<1> DEFINE u == [s EXCEPT !.cb = 0, !.user = 0]
           c == s.closes + 1
           v == [u EXCEPT !.closes = c, !.ok = 0]
<1>1. s \in BevState /\ c \in Nat
  BY DEF Good, BevState
<1>2. u \in BevState /\ u.closes = s.closes
  BY <1>1 DEF BevState, Bit
<1>3. CancelAll(u) = v
  BY <1>2 DEF CancelAll
<1> HIDE DEF c
<1>4. v \in BevState /\ v.ok = 0
  BY <1>1, <1>2 DEF BevState, Bit
<1> HIDE DEF v
<1>5. Kept(v, Decref(v))
  BY <1>4, DecrefKept
<1> QED
  BY <1>3, <1>4, <1>5 DEF Free, Kept

LEMMA RunEventcbOver ==
    ASSUME NEW k \in Nat, NEW s, Good(s, k), s.ok = 0, s.ends = 0,
           NEW t \in RunEventcb(s)
    PROVE  t.ok = 0
<1> DEFINE u == [s EXCEPT !.ends = 1]
<1>1. CASE s.cb = 0
  BY <1>1 DEF RunEventcb
<1>2. CASE s.cb # 0
  <2>1. s \in BevState
    BY DEF Good
  <2>2. [s EXCEPT !.ends = @ + 1] = u
    OBVIOUS
  <2>3. t \in {u, Free(u)}
    BY <1>2, <2>2 DEF RunEventcb
  <2>4. u \in BevState /\ u.ok = 0
    BY <2>1 DEF BevState
  <2>5. Good(u, k)
    BY <2>4 DEF Good, BevState, Bit
  <2> HIDE DEF u
  <2> QED
    BY <2>3, <2>4, <2>5, FreeOver
<1> QED
  BY <1>1, <1>2

(* bev_async_consider_reading leaves a read in flight where one is wanted, *)
(* and the writing as it was or over.                                      *)
LEMMA ConsiderReadingOn ==
    ASSUME NEW k \in Nat, NEW s, Good(s, k), NEW t \in ConsiderReading(s)
    PROVE  ReadsOn(t) /\ (WritesOn(s) => WritesOn(t))
<1>0. s \in BevState
  BY DEF Good
<1>1. CASE s.rip = 1
  BY <1>1 DEF ConsiderReading, ReadsOn
<1>2. CASE s.rip # 1 /\ (s.ok = 0 \/ "read" \notin s.enabled)
  <2>1. t = DelRead(s)
    BY <1>2 DEF ConsiderReading
  <2>2. Kept(s, t)
    BY <1>0, <2>1, EventsKept
  <2> QED
    BY <1>2, <2>2 DEF Kept, ReadsOn, WritesOn
<1>3. CASE s.rip # 1 /\ s.ok # 0 /\ "read" \in s.enabled
  <2> DEFINE i == Incref(s)
             x == [i EXCEPT !.kread = 1, !.inref = @ + 1, !.rip = 1]
             y == [i EXCEPT !.ok = 0]
  <2>1. s.ok = 1 /\ s.life = "live" /\ s.ends = 0
    BY <1>3, Alive DEF Good, BevState, Bit
  <2>2. Good(i, k + 1) /\ Kept(s, i)
    BY <1>0, <2>1, IncrefGood, EventsKept
  <2>3. t \in {AddRead(x)} \cup {Decref(u) : u \in RunEventcb(y)}
    BY <1>3 DEF ConsiderReading
  <2>4. i.ends = 0
    BY <1>0, <2>1 DEF Incref, BevState
  <2> HIDE DEF i
  <2>5. i \in BevState /\ i.ok = 1
    BY <2>1, <2>2 DEF Good, Kept
  <2>6. x \in BevState /\ x.rip = 1 /\ (WritesOn(i) => WritesOn(x))
    <3> DEFINE m == i.inref + 1
    <3>1. m \in Int /\ x = [i EXCEPT !.kread = 1, !.inref = m, !.rip = 1]
      BY <2>5 DEF BevState
    <3> HIDE DEF m
    <3>2. x \in BevState
      BY <2>5, <3>1, ReadLaunchType
    <3> QED
      BY <2>5, <3>1, <3>2 DEF BevState, WritesOn
  <2>7. Good(y, k + 1) /\ y.ok = 0 /\ y.ends = 0
    BY <2>2, <2>4, <2>5, NotOkGood
  <2> HIDE DEF x, y
  <2>8. CASE t = AddRead(x)
    <3>1. Kept(x, t)
      BY <2>6, <2>8, EventsKept
    <3> QED
      BY <2>2, <2>6, <3>1, KeptOn DEF ReadsOn
  <2>9. CASE t \in {Decref(u) : u \in RunEventcb(y)}
    <3>1. PICK u \in RunEventcb(y) : t = Decref(u)
      BY <2>9
    <3>2. Good(u, k + 1) /\ u.ok = 0
      BY <2>7, RunEventcbGood, RunEventcbOver
    <3>3. u \in BevState
      BY <3>2 DEF Good
    <3>4. t.ok = 0
      BY <3>1, <3>2, <3>3, DecrefKept DEF Kept
    <3> QED
      BY <3>4, OverOn
  <2> QED
    BY <2>3, <2>8, <2>9
<1> QED
  BY <1>1, <1>2, <1>3

LEMMA ConsiderWritingOn ==
    ASSUME NEW k \in Nat, NEW s, Good(s, k), NEW t \in ConsiderWriting(s)
    PROVE  WritesOn(t) /\ (ReadsOn(s) => ReadsOn(t))
<1>0. s \in BevState
  BY DEF Good
<1>1. CASE s.wip = 1
  BY <1>1 DEF ConsiderWriting, WritesOn
<1>2. CASE s.wip # 1 /\ (s.ok = 0 \/ "write" \notin s.enabled \/ s.outlen = 0)
  <2>1. t = DelWrite(s)
    BY <1>2 DEF ConsiderWriting
  <2>2. Kept(s, t)
    BY <1>0, <2>1, EventsKept
  <2> QED
    BY <1>2, <2>2 DEF Kept, ReadsOn, WritesOn
<1>3. CASE s.wip # 1 /\ s.ok # 0 /\ "write" \in s.enabled /\ s.outlen # 0
  <2> DEFINE i == Incref(s)
             x(n) == [i EXCEPT !.kwrite = n, !.outref = @ + 1, !.wip = 1]
             y == [s EXCEPT !.ok = 0]
  <2>1. s.ok = 1 /\ s.life = "live" /\ s.outlen \in Int
    BY <1>0, <1>3, Alive DEF BevState, Bit
  <2>2. Good(i, k + 1) /\ Kept(s, i)
    BY <1>0, <2>1, IncrefGood, EventsKept
  <2>3. t \in {AddWrite(x(n)) : n \in 1..s.outlen} \cup RunEventcb(y)
    BY <1>3 DEF ConsiderWriting
  <2> HIDE DEF i
  <2>4. i \in BevState
    BY <2>2 DEF Good
  <2>5. ASSUME NEW n \in 1..s.outlen
        PROVE  x(n) \in BevState /\ x(n).wip = 1 /\ (ReadsOn(i) => ReadsOn(x(n)))
    <3> DEFINE m == i.outref + 1
    <3>1. m \in Int /\ x(n) = [i EXCEPT !.kwrite = n, !.outref = m, !.wip = 1]
      BY <2>4 DEF BevState
    <3>2. n \in Nat
      BY <2>1
    <3> HIDE DEF m
    <3>3. x(n) \in BevState
      BY <2>4, <3>1, <3>2, WriteLaunchType
    <3> QED
      BY <2>4, <3>1, <3>3 DEF BevState, ReadsOn
  <2>6. Good(y, k) /\ y.ok = 0 /\ y.ends = 0
    BY <2>1, NotOkGood
  <2> HIDE DEF x, y
  <2>7. CASE t \in {AddWrite(x(n)) : n \in 1..s.outlen}
    <3>1. PICK n \in 1..s.outlen : t = AddWrite(x(n))
      BY <2>7
    <3>2. Kept(x(n), t)
      BY <2>5, <3>1, EventsKept
    <3> QED
      BY <2>2, <2>5, <3>2, KeptOn DEF WritesOn
  <2>8. CASE t \in RunEventcb(y)
    <3>1. t.ok = 0
      BY <2>6, <2>8, RunEventcbOver
    <3> QED
      BY <3>1, OverOn
  <2> QED
    BY <2>3, <2>7, <2>8
<1> QED
  BY <1>1, <1>2, <1>3

(* Draining the input considers reading, adding to the output writing. *)
LEMMA ReadOn ==
    ASSUME NEW k \in Nat, NEW s, Good(s, k), s.life = "live",
           NEW n \in Int, NEW t \in Read(s, n)
    PROVE  ReadsOn(t) /\ (WritesOn(s) => WritesOn(t))
<1> DEFINE l == s.inlen - n
           u == [s EXCEPT !.inlen = l]
<1>1. s \in BevState /\ l \in Int
  BY DEF Good, BevState
<1>2. PICK v \in ConsiderReading(Incref(u)) : t = Decref(v)
  BY DEF Read
<1> HIDE DEF l
<1>3. u \in BevState /\ Kept(s, u)
  BY <1>1 DEF BevState, Kept
<1>4. Good(u, k) /\ u.life = "live"
  BY <1>1, <1>3 DEF Good, BevState, Bit
<1> HIDE DEF u
<1>5. Good(Incref(u), k + 1) /\ Kept(u, Incref(u))
  BY <1>3, <1>4, IncrefGood, EventsKept
<1>6. Good(v, k + 1) /\ ReadsOn(v) /\ (WritesOn(Incref(u)) => WritesOn(v))
  BY <1>5, ConsiderReadingGood, ConsiderReadingOn
<1>7. Kept(v, t)
  BY <1>2, <1>6, DecrefKept DEF Good
<1> QED
  BY <1>3, <1>5, <1>6, <1>7, KeptOn

LEMMA WriteOn ==
    ASSUME NEW k \in Nat, NEW s, Good(s, k), s.life = "live", NEW t \in Write(s)
    PROVE  WritesOn(t) /\ (ReadsOn(s) => ReadsOn(t))
<1> DEFINE l == s.outlen + 1
           u == [s EXCEPT !.outlen = l]
<1>1. s \in BevState /\ l \in Int
  BY DEF Good, BevState
<1>2. PICK v \in ConsiderWriting(Incref(u)) : t = Decref(v)
  BY DEF Write
<1> HIDE DEF l
<1>3. u \in BevState /\ (ReadsOn(s) => ReadsOn(u))
  BY <1>1 DEF BevState, ReadsOn
<1>4. Good(u, k) /\ u.life = "live"
  BY <1>1, <1>3 DEF Good, BevState, Bit
<1> HIDE DEF u
<1>5. Good(Incref(u), k + 1) /\ Kept(u, Incref(u))
  BY <1>3, <1>4, IncrefGood, EventsKept
<1>6. Good(v, k + 1) /\ WritesOn(v) /\ (ReadsOn(Incref(u)) => ReadsOn(v))
  BY <1>5, ConsiderWritingGood, ConsiderWritingOn
<1>7. Kept(v, t)
  BY <1>2, <1>6, DecrefKept DEF Good
<1> QED
  BY <1>3, <1>5, <1>6, <1>7, KeptOn

LEMMA UserReadsOn ==
    ASSUME NEW k \in Nat, NEW s, Good(s, k), s.life = "live", NEW t \in UserReads(s)
    PROVE  (ReadsOn(s) => ReadsOn(t)) /\ (WritesOn(s) => WritesOn(t))
<1>1. CASE s.inlen = 0
  BY <1>1 DEF UserReads
<1>2. CASE s.inlen # 0
  <2>1. PICK n \in 1..s.inlen : t \in Read(s, n)
    BY <1>2 DEF UserReads
  <2>2. n \in Int
    BY DEF Good, BevState
  <2> QED
    BY <2>1, <2>2, ReadOn
<1> QED
  BY <1>1, <1>2

LEMMA UserWritesOn ==
    ASSUME NEW k \in Nat, NEW s, Good(s, k), s.life = "live", NEW t \in UserWrites(s)
    PROVE  (ReadsOn(s) => ReadsOn(t)) /\ (WritesOn(s) => WritesOn(t))
BY WriteOn DEF UserWrites

(* A callback leaves writing on, or reading, when it was. *)
LEMMA RunReadcbOn ==
    ASSUME NEW k \in Nat, k > 0, NEW s, Good(s, k), NEW t \in RunReadcb(s)
    PROVE  WritesOn(s) => WritesOn(t)
<1>1. CASE s.cb = 0
  BY <1>1 DEF RunReadcb
<1>2. CASE s.cb # 0
  <2>1. s.life = "live"
    BY Alive
  <2>2. \/ t \in {s, Free(s)} \/ t \in UserReads(s) \/ t \in UserWrites(s)
        \/ t \in UNION {UserWrites(u) : u \in UserReads(s)}
    BY <1>2 DEF RunReadcb
  <2>3. CASE t \in {s, Free(s)}
    BY <2>3, FreeOver, OverOn
  <2>4. CASE t \in UserReads(s)
    BY <2>1, <2>4, UserReadsOn
  <2>5. CASE t \in UserWrites(s)
    BY <2>1, <2>5, UserWritesOn
  <2>6. CASE t \in UNION {UserWrites(u) : u \in UserReads(s)}
    <3>1. PICK u \in UserReads(s) : t \in UserWrites(u)
      BY <2>6
    <3>2. Good(u, k) /\ (WritesOn(s) => WritesOn(u))
      BY <2>1, UserReadsGood, UserReadsOn
    <3>3. u.life = "live"
      BY <3>2, Alive
    <3> QED
      BY <3>1, <3>2, <3>3, UserWritesOn
  <2> QED
    BY <2>2, <2>3, <2>4, <2>5, <2>6
<1> QED
  BY <1>1, <1>2

LEMMA RunWritecbOn ==
    ASSUME NEW k \in Nat, k > 0, NEW s, Good(s, k), NEW t \in RunWritecb(s)
    PROVE  ReadsOn(s) => ReadsOn(t)
<1>1. CASE s.cb = 0 \/ s.outlen > 0
  BY <1>1 DEF RunWritecb
<1>2. CASE ~(s.cb = 0 \/ s.outlen > 0)
  <2>1. s.life = "live"
    BY Alive
  <2>2. t \in {s, Free(s)} \/ t \in UserWrites(s)
    BY <1>2 DEF RunWritecb
  <2>3. CASE t \in {s, Free(s)}
    BY <2>3, FreeOver, OverOn
  <2>4. CASE t \in UserWrites(s)
    BY <2>1, <2>4, UserWritesOn
  <2> QED
    BY <2>2, <2>3, <2>4
<1> QED
  BY <1>1, <1>2

(* The completions: a committed operation is followed by another, unless   *)
(* the stream is over.                                                     *)
LEMMA ReadCompleteOn ==
    ASSUME NEW s, Good(s, 0), s.kread = 1, NEW n \in Int, NEW success,
           NEW t \in ReadComplete(s, n, success), WritesOn(s)
    PROVE  ReadsOn(t) /\ WritesOn(t)
<1> DEFINE c == CommitRead(s, n)
           e == [c EXCEPT !.ok = 0]
           handled == IF c.ok = 0 THEN {c}
                      ELSE IF success /\ n > 0
                      THEN UNION {ConsiderReading(u) : u \in RunReadcb(c)}
                      ELSE RunEventcb(e)
<1>1. PICK h \in handled : t = Decref(h)
  BY DEF ReadComplete
<1>2. Good(c, 1)
  BY CommitReadGood
<1>3. WritesOn(c)
  <2> DEFINE a == Assert(s, s.rip = 1 /\ s.kread = 1)
  <2>1. a \in BevState /\ Kept(s, a)
    BY AssertKept DEF Good
  <2>2. c = [a EXCEPT !.kread = 0, !.inlen = @ + n, !.inref = @ - 1, !.rip = 0]
    BY DEF CommitRead
  <2> HIDE DEF a
  <2> QED
    BY <2>1, <2>2 DEF BevState, Kept, WritesOn
<1>4. c.ok \in Bit
  BY <1>2 DEF Good, BevState
<1> HIDE DEF c
<1>5. Good(h, 1) /\ ReadsOn(h) /\ WritesOn(h)
  <2>1. CASE c.ok = 0
    BY <1>1, <1>2, <2>1, OverOn
  <2>2. CASE c.ok = 1 /\ success /\ n > 0
    <3>1. PICK u \in RunReadcb(c) : h \in ConsiderReading(u)
      BY <1>1, <2>2
    <3>2. Good(u, 1) /\ WritesOn(u)
      BY <1>2, <1>3, RunReadcbGood, RunReadcbOn
    <3> QED
      BY <3>1, <3>2, ConsiderReadingGood, ConsiderReadingOn
  <2>3. CASE c.ok = 1 /\ ~(success /\ n > 0)
    <3>1. h \in RunEventcb(e)
      BY <1>1, <2>3
    <3>2. Good(e, 1) /\ e.ok = 0 /\ e.ends = 0
      BY <1>2, <2>3, NotOkGood
    <3> HIDE DEF e
    <3> QED
      BY <3>1, <3>2, RunEventcbGood, RunEventcbOver, OverOn
  <2> QED
    BY <1>4, <2>1, <2>2, <2>3 DEF Bit
<1>6. Kept(h, t)
  BY <1>1, <1>5, DecrefKept DEF Good
<1> QED
  BY <1>5, <1>6, KeptOn

LEMMA WriteCompleteOn ==
    ASSUME NEW s, Good(s, 0), s.kwrite > 0, NEW n \in Int, NEW success,
           NEW t \in WriteComplete(s, n, success), ReadsOn(s)
    PROVE  ReadsOn(t) /\ WritesOn(t)
<1> DEFINE c == CommitWrite(s, n)
           e == [c EXCEPT !.ok = 0]
           handled == IF c.ok = 0 THEN {c}
                      ELSE IF success /\ n > 0
                      THEN UNION {ConsiderWriting(u) : u \in RunWritecb(c)}
                      ELSE RunEventcb(e)
<1>1. PICK h \in handled : t = Decref(h)
  BY DEF WriteComplete
<1>2. Good(c, 1)
  BY CommitWriteGood
<1>3. ReadsOn(c)
  <2> DEFINE a == Assert(s, s.wip = 1 /\ s.kwrite > 0)
  <2>1. a \in BevState /\ Kept(s, a)
    BY AssertKept DEF Good
  <2>2. c = [a EXCEPT !.kwrite = 0, !.outlen = @ - n, !.outref = @ - 1, !.wip = 0]
    BY DEF CommitWrite
  <2> HIDE DEF a
  <2> QED
    BY <2>1, <2>2 DEF BevState, Kept, ReadsOn
<1>4. c.ok \in Bit
  BY <1>2 DEF Good, BevState
<1> HIDE DEF c
<1>5. Good(h, 1) /\ ReadsOn(h) /\ WritesOn(h)
  <2>1. CASE c.ok = 0
    BY <1>1, <1>2, <2>1, OverOn
  <2>2. CASE c.ok = 1 /\ success /\ n > 0
    <3>1. PICK u \in RunWritecb(c) : h \in ConsiderWriting(u)
      BY <1>1, <2>2
    <3>2. Good(u, 1) /\ ReadsOn(u)
      BY <1>2, <1>3, RunWritecbGood, RunWritecbOn
    <3> QED
      BY <3>1, <3>2, ConsiderWritingGood, ConsiderWritingOn
  <2>3. CASE c.ok = 1 /\ ~(success /\ n > 0)
    <3>1. h \in RunEventcb(e)
      BY <1>1, <2>3
    <3>2. Good(e, 1) /\ e.ok = 0 /\ e.ends = 0
      BY <1>2, <2>3, NotOkGood
    <3> HIDE DEF e
    <3> QED
      BY <3>1, <3>2, RunEventcbGood, RunEventcbOver, OverOn
  <2> QED
    BY <1>4, <2>1, <2>2, <2>3 DEF Bit
<1>6. Kept(h, t)
  BY <1>1, <1>5, DecrefKept DEF Good
<1> QED
  BY <1>5, <1>6, KeptOn

LEMMA EnableOn ==
    ASSUME NEW s, Good(s, 0), s.user = 1, NEW what \in {"read", "write"},
           NEW t \in Enable(s, what), ReadsOn(s), WritesOn(s)
    PROVE  ReadsOn(t) /\ WritesOn(t)
<1> DEFINE e == s.enabled \cup {what}
           u == [s EXCEPT !.enabled = e]
           i == Incref(u)
           considered == IF i.ok = 0 THEN {i}
                         ELSE IF what = "read" THEN ConsiderReading(i)
                         ELSE ConsiderWriting(i)
<1>1. s \in BevState /\ e \in SUBSET {"read", "write"} /\ s.life = "live"
  BY Alive DEF Good, BevState
<1>2. PICK c \in considered : t = Decref(c)
  BY DEF Enable
<1>3. /\ what = "read" => ("write" \in e <=> "write" \in s.enabled)
      /\ what = "write" => ("read" \in e <=> "read" \in s.enabled)
  OBVIOUS
<1> HIDE DEF e
<1>4. u \in BevState
  BY <1>1 DEF BevState
<1>5. Good(u, 0) /\ u.life = "live"
  BY <1>1, <1>4 DEF Good, BevState, Bit
<1>6. /\ what = "read" => WritesOn(u)
      /\ what = "write" => ReadsOn(u)
  BY <1>1, <1>3, <1>4 DEF BevState, ReadsOn, WritesOn
<1> HIDE DEF u
<1>7. Good(i, 0 + 1) /\ Kept(u, i)
  BY <1>4, <1>5, IncrefGood, EventsKept
<1>8. /\ what = "read" => WritesOn(i)
      /\ what = "write" => ReadsOn(i)
  BY <1>6, <1>7, KeptOn
<1> HIDE DEF i
<1>9. Good(c, 0 + 1) /\ ReadsOn(c) /\ WritesOn(c)
  <2>1. CASE i.ok = 0
    BY <1>2, <1>7, <2>1, OverOn
  <2>2. CASE i.ok # 0 /\ what = "read"
    BY <1>2, <1>7, <1>8, <2>2, ConsiderReadingGood, ConsiderReadingOn
  <2>3. CASE i.ok # 0 /\ what = "write"
    BY <1>2, <1>7, <1>8, <2>3, ConsiderWritingGood, ConsiderWritingOn
  <2> QED
    BY <2>1, <2>2, <2>3
<1>10. Kept(c, t)
  BY <1>2, <1>9, DecrefKept DEF Good
<1> QED
  BY <1>9, <1>10, KeptOn

LEMMA DisableOn ==
    ASSUME NEW s, Good(s, 0), NEW what \in {"read", "write"}, ReadsOn(s), WritesOn(s)
    PROVE  ReadsOn(Disable(s, what)) /\ WritesOn(Disable(s, what))
<1> DEFINE e == s.enabled \ {what}
           u == [s EXCEPT !.enabled = e]
<1>1. s \in BevState /\ e \in SUBSET {"read", "write"} /\ e \subseteq s.enabled
  BY DEF Good, BevState
<1>2. Disable(s, what) = IF what = "read" THEN DelRead(u) ELSE DelWrite(u)
  BY DEF Disable
<1> HIDE DEF e
<1>3. u \in BevState /\ ReadsOn(u) /\ WritesOn(u)
  BY <1>1 DEF BevState, ReadsOn, WritesOn
<1> HIDE DEF u
<1> QED
  BY <1>2, <1>3, EventsKept, KeptOn

LEMMA CreatedOn ==
    ReadsOn(Unborn) /\ WritesOn(Unborn) /\ ReadsOn(Created) /\ WritesOn(Created)
BY DEF Unborn, Created, ReadsOn, WritesOn

(* The work of every bufferevent goes on. *)
Going == \A b \in Bufferevents : ReadsOn(bev[b]) /\ WritesOn(bev[b])

LEMMA UpdateKeepsGoing ==
    ASSUME BevInv, Going, NEW b \in Bufferevents, NEW t, ReadsOn(t), WritesOn(t),
           bev' = [bev EXCEPT ![b] = t]
    PROVE  Going'
<1>1. \A c \in Bufferevents : bev'[c] = IF c = b THEN t ELSE bev[c]
  BY DEF BevInv
<1> QED
  BY <1>1 DEF Going

LEMMA StepKeepsGoing ==
    ASSUME BevInv, Going, NEW b \in Bufferevents, NEW states,
           \A t \in states : ReadsOn(t) /\ WritesOn(t), Step(b, states)
    PROVE  Going'
BY UpdateKeepsGoing DEF Step

LEMMA NextGoing == ASSUME BevInv, Going, [Next]_vars PROVE Going'
<1>1. CASE UNCHANGED vars
  BY <1>1 DEF vars, Going
<1>2. CASE Next
  <2>1. PICK b \in Bufferevents :
            \/ \E h \in Handles : New(b, h)
            \/ \E what \in {"read", "write"} : UserEnable(b, what)
            \/ \E what \in {"read", "write"} : UserDisable(b, what)
            \/ UserRead(b)
            \/ UserWrite(b)
            \/ UserFree(b)
            \/ CompleteRead(b)
            \/ CompleteWrite(b)
    BY <1>2 DEF Next
  <2> DEFINE s == bev[b]
  <2>2. Good(s, 0) /\ ReadsOn(s) /\ WritesOn(s)
    BY DEF BevInv, Going
  <2>3. CASE \E h \in Handles : New(b, h)
    BY <2>3, CreatedOn, UpdateKeepsGoing DEF New
  <2>4. CASE \E what \in {"read", "write"} : UserEnable(b, what)
    <3>1. PICK what \in {"read", "write"} : UserEnable(b, what)
      BY <2>4
    <3>2. \A t \in Enable(s, what) : ReadsOn(t) /\ WritesOn(t)
      BY <2>2, <3>1, EnableOn DEF UserEnable
    <3> QED
      BY <3>1, <3>2, StepKeepsGoing DEF UserEnable
  <2>5. CASE \E what \in {"read", "write"} : UserDisable(b, what)
    <3>1. PICK what \in {"read", "write"} : UserDisable(b, what)
      BY <2>5
    <3>2. \A t \in {Disable(s, what)} : ReadsOn(t) /\ WritesOn(t)
      BY <2>2, DisableOn
    <3> QED
      BY <3>1, <3>2, StepKeepsGoing DEF UserDisable
  <2>6. CASE UserRead(b)
    <3>1. s.life = "live"
      BY <2>2, <2>6, Alive DEF UserRead
    <3>2. \A t \in UserReads(s) : ReadsOn(t) /\ WritesOn(t)
      BY <2>2, <3>1, UserReadsOn
    <3> QED
      BY <2>6, <3>2, StepKeepsGoing DEF UserRead
  <2>7. CASE UserWrite(b)
    <3>1. s.life = "live"
      BY <2>2, <2>7, Alive DEF UserWrite
    <3>2. \A t \in Write(s) : ReadsOn(t) /\ WritesOn(t)
      BY <2>2, <3>1, WriteOn
    <3> QED
      BY <2>7, <3>2, StepKeepsGoing DEF UserWrite
  <2>8. CASE UserFree(b)
    <3>1. \A t \in {Free(s)} : ReadsOn(t) /\ WritesOn(t)
      BY <2>2, FreeOver, OverOn
    <3> QED
      BY <2>8, <3>1, StepKeepsGoing DEF UserFree
  <2>9. CASE CompleteRead(b)
    <3>1. PICK n \in Int, success \in BOOLEAN : Step(b, ReadComplete(s, n, success))
      <4>1. CASE \E n \in 0..1 : Step(b, ReadComplete(s, n, TRUE))
        <5>1. PICK m \in 0..1 : Step(b, ReadComplete(s, m, TRUE))
          BY <4>1
        <5>2. m \in Int /\ TRUE \in BOOLEAN
          BY SMT
        <5> QED
          BY <5>1, <5>2, Zenon
      <4>2. CASE Step(b, ReadComplete(s, 0, FALSE))
        <5>1. 0 \in Int /\ FALSE \in BOOLEAN
          OBVIOUS
        <5> QED
          BY <4>2, <5>1, Zenon
      <4> QED
        BY <2>9, <4>1, <4>2 DEF CompleteRead
    <3>2. \A t \in ReadComplete(s, n, success) : ReadsOn(t) /\ WritesOn(t)
      BY <2>2, <2>9, ReadCompleteOn DEF CompleteRead
    <3> QED
      BY <3>1, <3>2, StepKeepsGoing
  <2>10. CASE CompleteWrite(b)
    <3>0. s.kwrite \in Nat
      BY <2>2 DEF Good, BevState
    <3>1. PICK n \in Int, success \in BOOLEAN : Step(b, WriteComplete(s, n, success))
      <4>1. CASE \E n \in 0..s.kwrite : Step(b, WriteComplete(s, n, TRUE))
        <5>1. PICK m \in 0..s.kwrite : Step(b, WriteComplete(s, m, TRUE))
          BY <4>1
        <5>2. m \in Int /\ TRUE \in BOOLEAN
          BY <3>0
        <5> QED
          BY <5>1, <5>2, Zenon
      <4>2. CASE Step(b, WriteComplete(s, 0, FALSE))
        <5>1. 0 \in Int /\ FALSE \in BOOLEAN
          OBVIOUS
        <5> QED
          BY <4>2, <5>1, Zenon
      <4> QED
        BY <2>10, <4>1, <4>2 DEF CompleteWrite
    <3>2. \A t \in WriteComplete(s, n, success) : ReadsOn(t) /\ WritesOn(t)
      BY <2>2, <2>10, WriteCompleteOn DEF CompleteWrite
    <3> QED
      BY <3>1, <3>2, StepKeepsGoing
  <2> QED
    BY <2>1, <2>3, <2>4, <2>5, <2>6, <2>7, <2>8, <2>9, <2>10
<1> QED
  BY <1>1, <1>2

(* No wakeup is lost: a bufferevent that reads, or has something to write, *)
(* always has an operation in flight, whatever its callbacks did and in    *)
(* whatever order the completions came (bev_async_consider_reading and     *)
(* bev_async_consider_writing).                                            *)
THEOREM BevNoStall == Spec => []NoStall
<1>1. Init => Going
  BY CreatedOn DEF Init, Going
<1>2. BevInv /\ Going /\ [Next]_vars => Going'
  BY NextGoing
<1>3. Going => NoStall
  BY DEF Going, ReadsOn, WritesOn, NoStall
<1> QED
  BY <1>1, <1>2, <1>3, BevInvariant, PTL DEF Spec

=============================================================================
