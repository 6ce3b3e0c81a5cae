------------------------ MODULE BuffereventSockProofs ------------------------
(* Socket bufferevents for any number of bufferevents, any rates and any    *)
(* set of operations in a program: IInv of module BuffereventSock is        *)
(* inductive, and it implies the properties that its run checks.            *)
EXTENDS BuffereventSock, FiniteSetTheorems, TLAPS

(* Two records that differ only in the events and in what suspends them.    *)
Alike(q, r) ==
    /\ q.refcnt = r.refcnt /\ q.user = r.user /\ q.cbs = r.cbs /\ q.queued = r.queued
    /\ q.defer = r.defer /\ q.lookup = r.lookup /\ q.join = r.join
    /\ q.enabled = r.enabled /\ q.connecting = r.connecting /\ q.fd = r.fd /\ q.failed = r.failed
    /\ q.in = r.in /\ q.out = r.out /\ q.high = r.high /\ q.low = r.low
    /\ q.cfg = r.cfg /\ q.lim = r.lim /\ q.age = r.age /\ q.refill = r.refill

-----------------------------------------------------------------------------
(* Adding and deleting events.                                              *)

LEMMA EnableEvents ==
    ASSUME NEW r \in Bevent, NEW ds \in SUBSET Dirs
    PROVE  /\ be_socket_enable(r, ds) \in Bevent
           /\ Alike(be_socket_enable(r, ds), r)
           /\ be_socket_enable(r, ds).susp = r.susp
           /\ be_socket_enable(r, ds).pend = r.pend \cup ds
           /\ be_socket_enable(r, ds).active = r.active
<1> DEFINE p == r.pend \cup ds
<1> DEFINE t == r.timed \cup (ds \cap r.tmo)
<1>1. p \in SUBSET Dirs /\ t \in SUBSET Dirs
  BY DEF Bevent
<1>2. be_socket_enable(r, ds) = [r EXCEPT !.pend = p, !.timed = t]
  BY DEF be_socket_enable
<1> HIDE DEF p, t
<1>3. [r EXCEPT !.pend = p, !.timed = t] \in Bevent
  BY <1>1 DEF Bevent
<1>4. /\ Alike([r EXCEPT !.pend = p, !.timed = t], r)
      /\ [r EXCEPT !.pend = p, !.timed = t].susp = r.susp
      /\ [r EXCEPT !.pend = p, !.timed = t].pend = p
      /\ [r EXCEPT !.pend = p, !.timed = t].active = r.active
  BY DEF Bevent, Alike
<1> QED
  BY <1>2, <1>3, <1>4 DEF p

LEMMA DelEvents ==
    ASSUME NEW r \in Bevent, NEW ds \in SUBSET Dirs
    PROVE  /\ del_event(r, ds) \in Bevent
           /\ Alike(del_event(r, ds), r)
           /\ del_event(r, ds).susp = r.susp
           /\ del_event(r, ds).pend = r.pend \ ds
           /\ del_event(r, ds).active = (r.active /\ "W" \notin ds)
<1> DEFINE p == r.pend \ ds
<1> DEFINE t == r.timed \ ds
<1> DEFINE a == r.active /\ "W" \notin ds
<1>1. p \in SUBSET Dirs /\ t \in SUBSET Dirs /\ a \in BOOLEAN
  BY DEF Bevent
<1> DEFINE q == [r EXCEPT !.pend = p, !.timed = t, !.active = a]
<1>2. del_event(r, ds) = q
  BY DEF del_event
<1> HIDE DEF p, t, a
<1>3. q \in Bevent
  BY <1>1 DEF Bevent
<1>4. Alike(q, r) /\ q.susp = r.susp /\ q.pend = p /\ q.active = a
  BY DEF Bevent, Alike
<1> QED
  BY <1>2, <1>3, <1>4 DEF p, a

(* suspend and unsuspend keep the events right, whatever else suspends.     *)
LEMMA Suspend ==
    ASSUME NEW r \in Bevent, NEW d \in Dirs, NEW why \in Reasons
    PROVE  /\ suspend(r, d, why) \in Bevent
           /\ Alike(suspend(r, d, why), r)
           /\ suspend(r, d, why).susp = [r.susp EXCEPT ![d] = @ \cup {why}]
           /\ \A w : EventsOK(r, w) => EventsOK(suspend(r, d, why), w)
<1> DEFINE ds == IF r.connecting THEN {d} \ {"W"} ELSE {d}
<1> DEFINE n == IF r.susp[d] = {} THEN del_event(r, ds) ELSE r
<1> DEFINE v == [r.susp EXCEPT ![d] = @ \cup {why}]
<1>1. ds \in SUBSET Dirs
  OBVIOUS
<1>2. /\ n \in Bevent /\ Alike(n, r) /\ n.susp = r.susp
      /\ n.pend = IF r.susp[d] = {} THEN r.pend \ ds ELSE r.pend
      /\ n.active = IF r.susp[d] = {} THEN r.active /\ "W" \notin ds ELSE r.active
  <2> HIDE DEF ds
  <2>1. Alike(r, r)
    BY DEF Alike
  <2>2. CASE r.susp[d] = {}
    BY <1>1, <2>2, DelEvents
  <2>3. CASE r.susp[d] # {}
    BY <2>1, <2>3
  <2> QED
    BY <2>2, <2>3
<1>3. suspend(r, d, why) = [n EXCEPT !.susp[d] = @ \cup {why}]
  BY DEF suspend, be_socket_disable
<1> HIDE DEF n
<1>4. v \in [Dirs -> SUBSET Reasons]
  BY DEF Bevent
<1>5. [n EXCEPT !.susp[d] = @ \cup {why}] = [n EXCEPT !.susp = v]
  BY <1>2
<1> DEFINE q == [n EXCEPT !.susp = v]
<1> HIDE DEF v
<1>6. q \in Bevent
  BY <1>2, <1>4 DEF Bevent
<1>7. Alike(q, n) /\ q.susp = v /\ q.pend = n.pend /\ q.active = n.active
  BY <1>2 DEF Bevent, Alike
<1> HIDE DEF q
<1>8. Alike(q, r)
  BY <1>2, <1>7 DEF Alike
<1>9. ASSUME NEW w, EventsOK(r, w) PROVE EventsOK(q, w)
  <2>1. r.susp \in [Dirs -> SUBSET Reasons] /\ r.pend \in SUBSET Dirs /\ r.connecting \in BOOLEAN
    BY DEF Bevent
  <2>2. v[d] # {} /\ \A e \in Dirs : e # d => v[e] = r.susp[e]
    BY <2>1 DEF v
  <2>3. q.pend = n.pend /\ q.active = n.active /\ q.susp = v
    BY <1>7
  <2>4. CASE d = "R"
    BY <1>2, <1>8, <1>9, <2>1, <2>2, <2>3, <2>4 DEF EventsOK, Alike, Dirs
  <2>5. CASE d = "W"
    BY <1>2, <1>8, <1>9, <2>1, <2>2, <2>3, <2>5 DEF EventsOK, Alike, Dirs
  <2> QED
    BY <2>4, <2>5 DEF Dirs
<1>10. suspend(r, d, why) = q
  BY <1>3, <1>5 DEF q
<1> QED
  BY <1>6, <1>7, <1>8, <1>9, <1>10 DEF v

LEMMA Unsuspend ==
    ASSUME NEW r \in Bevent, NEW d \in Dirs, NEW why \in Reasons
    PROVE  /\ unsuspend(r, d, why) \in Bevent
           /\ Alike(unsuspend(r, d, why), r)
           /\ unsuspend(r, d, why).susp = [r.susp EXCEPT ![d] = @ \ {why}]
           /\ \A w : EventsOK(r, w) => EventsOK(unsuspend(r, d, why), w)
<1> DEFINE v == [r.susp EXCEPT ![d] = @ \ {why}]
<1>1. v \in [Dirs -> SUBSET Reasons]
  BY DEF Bevent
<1>2. [r EXCEPT !.susp[d] = @ \ {why}] = [r EXCEPT !.susp = v]
  OBVIOUS
<1> DEFINE n == [r EXCEPT !.susp = v]
<1> DEFINE q == IF n.susp[d] = {} /\ d \in n.enabled THEN be_socket_enable(n, {d}) ELSE n
<1>3. unsuspend(r, d, why) = q
  BY <1>2 DEF unsuspend
<1> HIDE DEF v
<1>4. n \in Bevent
  BY <1>1 DEF Bevent
<1>5. Alike(n, r) /\ n.susp = v /\ n.pend = r.pend /\ n.active = r.active
  BY DEF Bevent, Alike
<1> HIDE DEF n
<1>6. /\ q \in Bevent /\ Alike(q, n) /\ q.susp = n.susp /\ q.active = n.active
      /\ q.pend = IF n.susp[d] = {} /\ d \in n.enabled THEN n.pend \cup {d} ELSE n.pend
  <2>1. Alike(n, n)
    BY DEF Alike
  <2>2. CASE n.susp[d] = {} /\ d \in n.enabled
    BY <1>4, <2>2, EnableEvents
  <2>3. CASE ~(n.susp[d] = {} /\ d \in n.enabled)
    BY <1>4, <2>1, <2>3
  <2> QED
    BY <2>2, <2>3
<1> HIDE DEF q
<1>7. Alike(q, r)
  BY <1>5, <1>6 DEF Alike
<1>8. ASSUME NEW w, EventsOK(r, w) PROVE EventsOK(q, w)
  <2>1. r.susp \in [Dirs -> SUBSET Reasons] /\ r.pend \in SUBSET Dirs
    BY DEF Bevent
  <2>2. v[d] = r.susp[d] \ {why} /\ \A e \in Dirs : e # d => v[e] = r.susp[e]
    BY <2>1 DEF v
  <2>3. q.susp = v /\ q.active = r.active
    BY <1>5, <1>6
  <2>6. q.pend = IF v[d] = {} /\ d \in r.enabled THEN r.pend \cup {d} ELSE r.pend
    BY <1>5, <1>6 DEF Alike
  <2>4. CASE d = "R"
    BY <1>7, <1>8, <2>1, <2>2, <2>3, <2>4, <2>6 DEF EventsOK, Alike, Dirs
  <2>5. CASE d = "W"
    BY <1>7, <1>8, <2>1, <2>2, <2>3, <2>5, <2>6 DEF EventsOK, Alike, Dirs
  <2> QED
    BY <2>4, <2>5 DEF Dirs
<1> QED
  BY <1>3, <1>5, <1>6, <1>7, <1>8 DEF v

-----------------------------------------------------------------------------
(* What a bufferevent that is alive satisfies by itself, and what the steps *)
(* of a handler keep of it.                                                 *)

Sound(r, w) == r \in Bevent /\ EventsOK(r, w) /\ SuspensionsOK(r)
Kept(q, r) ==
    /\ q.refcnt = r.refcnt /\ q.user = r.user /\ q.queued = r.queued /\ q.lookup = r.lookup
    /\ q.join = r.join /\ q.connecting = r.connecting
    /\ \A d \in Dirs : "group" \in q.susp[d] => "group" \in r.susp[d]

LEMMA SuspendSound ==
    ASSUME NEW r, NEW w, Sound(r, w), NEW d \in Dirs, NEW why \in Reasons,
           why = "wm" => d = "R" /\ r.high # 0 /\ r.in >= r.high,
           why = "lookup" => r.lookup,
           why = "bw" => r.refill /\ r.cfg # 0
    PROVE  /\ Sound(suspend(r, d, why), w)
           /\ Alike(suspend(r, d, why), r)
           /\ suspend(r, d, why).susp = [r.susp EXCEPT ![d] = @ \cup {why}]
           /\ why # "group" => Kept(suspend(r, d, why), r)
<1> DEFINE q == suspend(r, d, why)
<1>1. r \in Bevent
  BY DEF Sound
<1>2. q \in Bevent /\ Alike(q, r) /\ q.susp = [r.susp EXCEPT ![d] = @ \cup {why}] /\ EventsOK(q, w)
  BY <1>1, Suspend DEF Sound
<1> HIDE DEF q
<1>3. r.susp \in [Dirs -> SUBSET Reasons]
  BY <1>1 DEF Bevent
<1>4. SuspensionsOK(q)
  BY <1>2, <1>3 DEF Sound, SuspensionsOK, Alike, Dirs
<1>5. why # "group" => Kept(q, r)
  BY <1>2, <1>3 DEF Kept, Alike
<1> QED
  BY <1>2, <1>4, <1>5 DEF Sound, q

LEMMA UnsuspendSound ==
    ASSUME NEW r, NEW w, Sound(r, w), NEW d \in Dirs, NEW why \in Reasons,
           why = "bw" => r.cfg = 0 \/ r.lim[d] > 0
    PROVE  /\ Sound(unsuspend(r, d, why), w)
           /\ Alike(unsuspend(r, d, why), r)
           /\ unsuspend(r, d, why).susp = [r.susp EXCEPT ![d] = @ \ {why}]
           /\ Kept(unsuspend(r, d, why), r)
<1> DEFINE q == unsuspend(r, d, why)
<1>1. r \in Bevent
  BY DEF Sound
<1>2. q \in Bevent /\ Alike(q, r) /\ q.susp = [r.susp EXCEPT ![d] = @ \ {why}] /\ EventsOK(q, w)
  BY <1>1, Unsuspend DEF Sound
<1> HIDE DEF q
<1>3. r.susp \in [Dirs -> SUBSET Reasons] /\ r.lim \in [Dirs -> Int]
  BY <1>1 DEF Bevent
<1>4. SuspensionsOK(q)
  BY <1>2, <1>3 DEF Sound, SuspensionsOK, Alike, Dirs
<1>5. Kept(q, r)
  BY <1>2, <1>3 DEF Kept, Alike
<1> QED
  BY <1>2, <1>4, <1>5 DEF Sound, q

(* The input has v bytes now, and the watermark is looked at.               *)
LEMMA InputChanged ==
    ASSUME NEW r, NEW w, Sound(r, w), NEW v \in Int
    PROVE  LET q == inbuf_wm_cb([r EXCEPT !.in = v]) IN Sound(q, w) /\ Kept(q, r)
<1> DEFINE n == [r EXCEPT !.in = v]
<1> DEFINE q == inbuf_wm_cb(n)
<1> SUFFICES Sound(q, w) /\ Kept(q, r)
  OBVIOUS
<1>1. r \in Bevent
  BY DEF Sound
<1>2. /\ n \in Bevent /\ n.in = v /\ n.high = r.high /\ n.susp = r.susp
      /\ n.cfg = r.cfg /\ n.lim = r.lim /\ n.refill = r.refill /\ n.lookup = r.lookup
      /\ Kept(n, r)
  BY <1>1 DEF Bevent, Kept
<1>3. EventsOK(n, w)
  BY <1>1 DEF Sound, EventsOK, Bevent
<1> HIDE DEF n
<1>4. CASE n.high = 0
  <2>1. SuspensionsOK(n)
    BY <1>2, <1>4 DEF Sound, SuspensionsOK
  <2>2. q = n
    BY <1>4 DEF inbuf_wm_cb
  <2> HIDE DEF q
  <2> QED
    BY <1>2, <1>3, <2>1, <2>2 DEF Sound
<1>5. CASE n.high # 0
  <2> DEFINE why == "wm"
  <2>1. q = IF n.in >= n.high THEN suspend(n, "R", "wm") ELSE unsuspend(n, "R", "wm")
    BY <1>5 DEF inbuf_wm_cb, SuspendIf
  <2> HIDE DEF q
  <2>2. r.susp \in [Dirs -> SUBSET Reasons] /\ "R" \in Dirs /\ "wm" \in Reasons
    BY <1>1 DEF Bevent, Dirs, Reasons
  <2>3. CASE n.in >= n.high
    <3>1. /\ q \in Bevent /\ Alike(q, n) /\ q.susp = [n.susp EXCEPT !["R"] = @ \cup {"wm"}]
          /\ EventsOK(q, w)
      BY <1>2, <1>3, <2>1, <2>2, <2>3, Suspend
    <3>2. SuspensionsOK(q)
      BY <1>2, <1>5, <2>2, <2>3, <3>1 DEF Sound, SuspensionsOK, Alike, Dirs
    <3>3. Kept(q, r)
      BY <1>2, <2>2, <3>1 DEF Kept, Alike
    <3> QED
      BY <3>1, <3>2, <3>3 DEF Sound
  <2>4. CASE ~(n.in >= n.high)
    <3>1. /\ q \in Bevent /\ Alike(q, n) /\ q.susp = [n.susp EXCEPT !["R"] = @ \ {"wm"}]
          /\ EventsOK(q, w)
      BY <1>2, <1>3, <2>1, <2>2, <2>4, Unsuspend
    <3>2. SuspensionsOK(q)
      BY <1>2, <1>5, <2>2, <2>4, <3>1 DEF Sound, SuspensionsOK, Alike, Dirs
    <3>3. Kept(q, r)
      BY <1>2, <2>2, <3>1 DEF Kept, Alike
    <3> QED
      BY <3>1, <3>2, <3>3 DEF Sound
  <2> QED
    BY <2>3, <2>4
<1> QED
  BY <1>4, <1>5

LEMMA DrainSound ==
    ASSUME NEW r, NEW w, Sound(r, w)
    PROVE  Sound(Drain(r), w) /\ Kept(Drain(r), r)
<1>1. Kept(r, r)
  BY DEF Kept
<1>2. LET q == inbuf_wm_cb([r EXCEPT !.in = 0]) IN Sound(q, w) /\ Kept(q, r)
  BY InputChanged
<1> QED
  BY <1>1, <1>2 DEF Drain

(* Bytes leave the output.                                                  *)
LEMMA OutputSent ==
    ASSUME NEW r, NEW w, Sound(r, w), NEW n \in Nat
    PROVE  LET q == [r EXCEPT !.out = @ - n] IN Sound(q, w) /\ Kept(q, r)
<1> DEFINE v == r.out - n
<1> DEFINE q == [r EXCEPT !.out = v]
<1>1. r \in Bevent
  BY DEF Sound
<1>2. v \in Int /\ (v > 0 => r.out > 0)
  BY <1>1 DEF Bevent
<1> HIDE DEF v
<1>3. q \in Bevent /\ Kept(q, r)
  BY <1>1, <1>2 DEF Bevent, Kept
<1>4. EventsOK(q, w) /\ SuspensionsOK(q)
  BY <1>1, <1>2 DEF Sound, EventsOK, SuspensionsOK, Bevent
<1> QED
  BY <1>3, <1>4 DEF Sound, v

LEMMA WriteSound ==
    ASSUME NEW r, NEW w, Sound(r, w)
    PROVE  Sound(Write(r), w) /\ Kept(Write(r), r)
<1> DEFINE v == r.out + 1
<1> DEFINE n == [r EXCEPT !.out = v]
<1>1. r \in Bevent
  BY DEF Sound
<1>2. v \in Int
  BY <1>1 DEF Bevent
<1>3. Write(r) = outbuf_cb(n)
  BY DEF Write
<1> HIDE DEF v
<1>4. /\ n \in Bevent /\ Kept(n, r)
      /\ n.susp = r.susp /\ n.pend = r.pend /\ n.enabled = r.enabled /\ n.fd = r.fd
      /\ n.failed = r.failed /\ n.active = r.active /\ n.in = r.in /\ n.high = r.high
      /\ n.cfg = r.cfg /\ n.lim = r.lim /\ n.refill = r.refill
  BY <1>1, <1>2 DEF Bevent, Kept
<1> HIDE DEF n
<1>5. CASE "W" \in n.enabled /\ "W" \notin n.pend /\ n.susp["W"] = {}
  <2> DEFINE q == be_socket_enable(n, {"W"})
  <2>1. q \in Bevent /\ Alike(q, n) /\ q.susp = n.susp /\ q.pend = n.pend \cup {"W"} /\ q.active = n.active
    BY <1>4, EnableEvents DEF Dirs
  <2>2. Write(r) = q
    BY <1>3, <1>5 DEF outbuf_cb
  <2> HIDE DEF q
  <2>3. Kept(q, r) /\ SuspensionsOK(q)
    BY <1>4, <2>1 DEF Kept, Alike, Sound, SuspensionsOK
  <2>4. EventsOK(q, w)
    BY <1>4, <1>5, <2>1 DEF Kept, Alike, Sound, EventsOK
  <2> QED
    BY <2>1, <2>2, <2>3, <2>4 DEF Sound
<1>6. CASE ~("W" \in n.enabled /\ "W" \notin n.pend /\ n.susp["W"] = {})
  <2>1. EventsOK(n, w) /\ SuspensionsOK(n)
    BY <1>4, <1>6 DEF Kept, Sound, EventsOK, SuspensionsOK
  <2> QED
    BY <1>3, <1>4, <1>6, <2>1 DEF Sound, outbuf_cb
<1> QED
  BY <1>5, <1>6

LEMMA DisableSound ==
    ASSUME NEW r, NEW w, Sound(r, w), NEW ds \in SUBSET Dirs
    PROVE  Sound(disable(r, ds), w) /\ Kept(disable(r, ds), r)
<1> DEFINE v == r.enabled \ ds
<1> DEFINE n == [r EXCEPT !.enabled = v]
<1> DEFINE gone == IF r.connecting THEN ds \ {"W"} ELSE ds
<1> DEFINE q == del_event(n, gone)
<1>1. r \in Bevent
  BY DEF Sound
<1>2. v \in SUBSET Dirs /\ gone \in SUBSET Dirs
  BY <1>1 DEF Bevent
<1>3. /\ n \in Bevent /\ Kept(n, r)
      /\ n.susp = r.susp /\ n.pend = r.pend /\ n.enabled = v /\ n.fd = r.fd
      /\ n.failed = r.failed /\ n.active = r.active /\ n.in = r.in /\ n.high = r.high
      /\ n.cfg = r.cfg /\ n.lim = r.lim /\ n.refill = r.refill /\ n.out = r.out
  <2> HIDE DEF v
  <2> QED
    BY <1>1, <1>2 DEF Bevent, Kept
<1>4. disable(r, ds) = q
  BY <1>1, <1>3 DEF disable, be_socket_disable, Kept
<1> HIDE DEF n, gone
<1>5. /\ q \in Bevent /\ Alike(q, n) /\ q.susp = n.susp /\ q.pend = n.pend \ gone
      /\ q.active = (n.active /\ "W" \notin gone)
  BY <1>2, <1>3, DelEvents
<1> HIDE DEF q
<1>6. Kept(q, r) /\ SuspensionsOK(q)
  BY <1>3, <1>5 DEF Kept, Alike, Sound, SuspensionsOK
<1>7. EventsOK(q, w)
  BY <1>1, <1>3, <1>5 DEF Kept, Alike, Sound, EventsOK, Bevent, gone
<1> QED
  BY <1>4, <1>5, <1>6, <1>7 DEF Sound

(* Another enabled set, with the events that follow from it.                *)
LEMMA EnableSound ==
    ASSUME NEW r, NEW w, Sound(r, w), NEW ds \in SUBSET Dirs
    PROVE  Sound(enable(r, ds), w) /\ Kept(enable(r, ds), r)
<1> DEFINE v == r.enabled \cup ds
<1> DEFINE n == [r EXCEPT !.enabled = v]
<1> DEFINE more == {d \in ds : r.susp[d] = {}}
<1> DEFINE q == be_socket_enable(n, more)
<1>1. r \in Bevent
  BY DEF Sound
<1>2. v \in SUBSET Dirs /\ more \in SUBSET Dirs
  BY <1>1 DEF Bevent
<1>3. /\ n \in Bevent /\ Kept(n, r)
      /\ n.susp = r.susp /\ n.pend = r.pend /\ n.enabled = v /\ n.fd = r.fd
      /\ n.failed = r.failed /\ n.active = r.active /\ n.in = r.in /\ n.high = r.high
      /\ n.cfg = r.cfg /\ n.lim = r.lim /\ n.refill = r.refill /\ n.out = r.out
  <2> HIDE DEF v
  <2> QED
    BY <1>1, <1>2 DEF Bevent, Kept
<1>4. enable(r, ds) = q
  BY DEF enable
<1> HIDE DEF n, more
<1>5. q \in Bevent /\ Alike(q, n) /\ q.susp = n.susp /\ q.pend = n.pend \cup more /\ q.active = n.active
  BY <1>2, <1>3, EnableEvents
<1> HIDE DEF q
<1>6. Kept(q, r) /\ SuspensionsOK(q)
  BY <1>3, <1>5 DEF Kept, Alike, Sound, SuspensionsOK
<1>7. EventsOK(q, w)
  <2>1. "R" \in more <=> "R" \in ds /\ r.susp["R"] = {}
    BY DEF more
  <2>2. "W" \in more <=> "W" \in ds /\ r.susp["W"] = {}
    BY DEF more
  <2> QED
    BY <1>1, <1>3, <1>5, <2>1, <2>2 DEF Kept, Alike, Sound, EventsOK
<1> QED
  BY <1>4, <1>5, <1>6, <1>7 DEF Sound

LEMMA DisableHardSound ==
    ASSUME NEW r, Sound(r, "idle")
    PROVE  /\ Sound(disable_hard(r, Dirs), "idle")
           /\ Held(disable_hard(r, Dirs)) = Held(r)
           /\ disable_hard(r, Dirs).refcnt = r.refcnt /\ disable_hard(r, Dirs).user = r.user
           /\ disable_hard(r, Dirs).lookup = r.lookup /\ disable_hard(r, Dirs).join = r.join
           /\ disable_hard(r, Dirs).susp = r.susp
<1> DEFINE v == r.enabled \ Dirs
<1> DEFINE n == [r EXCEPT !.enabled = v, !.connecting = FALSE]
<1> DEFINE q == del_event(n, Dirs)
<1>1. r \in Bevent
  BY DEF Sound
<1>2. v \in SUBSET Dirs
  BY <1>1 DEF Bevent
<1>3. /\ n \in Bevent /\ n.connecting = FALSE
      /\ n.refcnt = r.refcnt /\ n.user = r.user /\ n.queued = r.queued
      /\ n.lookup = r.lookup /\ n.join = r.join
      /\ n.susp = r.susp /\ n.pend = r.pend /\ n.enabled = v /\ n.fd = r.fd
      /\ n.failed = r.failed /\ n.active = r.active /\ n.in = r.in /\ n.high = r.high
      /\ n.cfg = r.cfg /\ n.lim = r.lim /\ n.refill = r.refill /\ n.out = r.out
  <2> HIDE DEF v
  <2> QED
    BY <1>1, <1>2 DEF Bevent
<1>4. disable_hard(r, Dirs) = q
  BY <1>3 DEF disable_hard, be_socket_disable
<1> HIDE DEF n
<1>5. q \in Bevent /\ Alike(q, n) /\ q.susp = n.susp /\ q.pend = n.pend \ Dirs
  BY <1>3, DelEvents
<1> HIDE DEF q
<1>6. SuspensionsOK(q) /\ Held(q) = Held(r)
  BY <1>3, <1>5 DEF Alike, Sound, SuspensionsOK, Held
<1>7. EventsOK(q, "idle")
  BY <1>3, <1>5 DEF Alike, EventsOK, Dirs
<1> QED
  BY <1>3, <1>4, <1>5, <1>6, <1>7 DEF Sound, Alike

(* bufferevent_writecb, once nothing is connecting, deletes the write event *)
(* when there is nothing to write, or when writing is not wanted.           *)
LEMMA DelWriteSound ==
    ASSUME NEW r, NEW w, Sound(r, w), ~r.connecting,
           r.out <= 0 \/ "W" \notin r.enabled \/ r.susp["W"] # {}
    PROVE  Sound(del_event(r, {"W"}), "idle") /\ Kept(del_event(r, {"W"}), r)
<1> DEFINE q == del_event(r, {"W"})
<1>1. r \in Bevent
  BY DEF Sound
<1>2. q \in Bevent /\ Alike(q, r) /\ q.susp = r.susp /\ q.pend = r.pend \ {"W"}
  BY <1>1, DelEvents DEF Dirs
<1> HIDE DEF q
<1>3. Kept(q, r) /\ SuspensionsOK(q)
  BY <1>2 DEF Kept, Alike, Sound, SuspensionsOK
<1>4. r.out \in Int
  BY <1>1 DEF Bevent
<1>5. EventsOK(q, "idle")
  BY <1>2, <1>4 DEF Alike, Sound, EventsOK
<1> QED
  BY <1>2, <1>3, <1>5 DEF Sound, q

(* Exempting the write event is no loss; and it ends where writing is       *)
(* wanted.                                                                  *)
LEMMA SoundExempt ==
    ASSUME NEW r, Sound(r, "idle")
    PROVE  Sound(r, "connected")
  BY DEF Sound, EventsOK

LEMMA SoundWanted ==
    ASSUME NEW r, NEW w, Sound(r, w), "W" \in r.enabled, r.susp["W"] = {}
    PROVE  Sound(r, "idle")
  BY DEF Sound, EventsOK

-----------------------------------------------------------------------------
(* Buckets.                                                                 *)

(* An update leaves a bucket that was not empty not empty.                  *)
LEMMA RefilledPositive ==
    ASSUME NEW lim \in Int, NEW c \in {1, 2}, NEW n \in Nat
    PROVE  Refilled(lim, c, n) \in Int /\ (lim > 0 => Refilled(lim, c, n) > 0)
<1>1. Rate[c] \in Nat /\ Burst[c] \in Nat /\ Burst[c] > 0
  BY RateAssumption DEF ev_token_bucket_cfg_new
<1>2. n * Rate[c] \in Nat
  BY <1>1
<1> DEFINE more == n * Rate[c]
<1> HIDE DEF more
<1>3. more \in Nat
  BY <1>2 DEF more
<1>4. Refilled(lim, c, n) = lim \/ Refilled(lim, c, n) = Burst[c] \/ Refilled(lim, c, n) = lim + more
  BY DEF Refilled, more
<1> QED
  BY <1>1, <1>3, <1>4

LEMMA UpdateSound ==
    ASSUME NEW r, NEW w, Sound(r, w), r.cfg # 0
    PROVE  /\ Sound(update_buckets(r), w) /\ Kept(update_buckets(r), r)
           /\ update_buckets(r).susp = r.susp
           /\ update_buckets(r).cfg = r.cfg
<1> DEFINE v == [d \in Dirs |-> Refilled(r.lim[d], r.cfg, r.age)]
<1> DEFINE q == [r EXCEPT !.lim = v, !.age = 0]
<1>1. r \in Bevent
  BY DEF Sound
<1>2. r.lim \in [Dirs -> Int] /\ r.cfg \in {1, 2} /\ r.age \in Nat
  BY <1>1 DEF Bevent
<1>3. v \in [Dirs -> Int] /\ \A d \in Dirs : r.lim[d] > 0 => v[d] > 0
  BY <1>2, RefilledPositive
<1>4. update_buckets(r) = q
  BY DEF update_buckets
<1> HIDE DEF v
<1>5. q \in Bevent
  BY <1>1, <1>3 DEF Bevent
<1>6. /\ Kept(q, r) /\ q.susp = r.susp /\ q.pend = r.pend /\ q.enabled = r.enabled /\ q.fd = r.fd
      /\ q.failed = r.failed /\ q.active = r.active /\ q.in = r.in /\ q.high = r.high
      /\ q.cfg = r.cfg /\ q.lim = v /\ q.refill = r.refill /\ q.out = r.out
  BY <1>1 DEF Bevent, Kept
<1> HIDE DEF q
<1>7. EventsOK(q, w)
  BY <1>6 DEF Kept, Sound, EventsOK
<1>8. SuspensionsOK(q)
  <2>1. \A d \in Dirs : v[d] <= 0 => r.lim[d] <= 0
    BY <1>2, <1>3
  <2> QED
    BY <1>6, <2>1 DEF Kept, Sound, SuspensionsOK
<1> QED
  BY <1>4, <1>5, <1>6, <1>7, <1>8 DEF Sound

(* A record with another bucket, or whose timer was added or deleted.       *)
LEMMA SetLim ==
    ASSUME NEW r \in Bevent, NEW d \in Dirs, NEW v \in Int
    PROVE  LET n == [r EXCEPT !.lim[d] = v]
           IN  /\ n \in Bevent /\ Kept(n, r) /\ \A w : EventsOK(r, w) => EventsOK(n, w)
               /\ n.lim = [r.lim EXCEPT ![d] = v] /\ n.susp = r.susp
               /\ n.cfg = r.cfg /\ n.in = r.in /\ n.high = r.high /\ n.refill = r.refill
<1> DEFINE u == [r.lim EXCEPT ![d] = v]
<1> DEFINE n == [r EXCEPT !.lim = u]
<1>1. u \in [Dirs -> Int]
  BY DEF Bevent
<1>2. [r EXCEPT !.lim[d] = v] = n
  OBVIOUS
<1> HIDE DEF u
<1>3. n \in Bevent
  BY <1>1 DEF Bevent
<1>4. /\ n.lim = u /\ n.susp = r.susp /\ Kept(n, r)
      /\ n.cfg = r.cfg /\ n.in = r.in /\ n.high = r.high /\ n.refill = r.refill
  BY DEF Bevent, Kept
<1>5. ASSUME NEW w, EventsOK(r, w) PROVE EventsOK(n, w)
  BY <1>5 DEF EventsOK, Bevent
<1> QED
  BY <1>2, <1>3, <1>4, <1>5 DEF u

LEMMA SetRefill ==
    ASSUME NEW r \in Bevent, NEW f \in BOOLEAN
    PROVE  LET q == [r EXCEPT !.refill = f]
           IN  /\ q \in Bevent /\ Kept(q, r) /\ \A w : EventsOK(r, w) => EventsOK(q, w)
               /\ q.refill = f /\ q.susp = r.susp
               /\ q.cfg = r.cfg /\ q.in = r.in /\ q.high = r.high /\ q.lim = r.lim
<1> DEFINE q == [r EXCEPT !.refill = f]
<1>1. q \in Bevent
  BY DEF Bevent
<1>2. /\ Kept(q, r) /\ q.cfg = r.cfg /\ q.in = r.in /\ q.high = r.high
      /\ q.lim = r.lim /\ q.susp = r.susp /\ q.refill = f
  BY DEF Bevent, Kept
<1>3. ASSUME NEW w, EventsOK(r, w) PROVE EventsOK(q, w)
  BY <1>3 DEF EventsOK, Bevent
<1> QED
  BY <1>1, <1>2, <1>3

(* The bucket has tokens again, and the timer goes on for the other.        *)
LEMMA LiftOwnSound ==
    ASSUME NEW r, NEW w, Sound(r, w), NEW d \in Dirs, r.lim[d] > 0
    PROVE  Sound(LiftOwn(r, d), w) /\ Kept(LiftOwn(r, d), r)
<1> DEFINE f == r.refill /\ "bw" \in r.susp[Other(d)]
<1> DEFINE n == [r EXCEPT !.refill = f]
<1> DEFINE q == unsuspend(n, d, "bw")
<1>1. r \in Bevent /\ f \in BOOLEAN /\ "bw" \in Reasons
  BY DEF Sound, Bevent, Reasons
<1>2. Other(d) \in Dirs /\ \A e \in Dirs : e = d \/ e = Other(d)
  <2>1. \E e \in Dirs : e # d
    BY DEF Dirs
  <2>2. Other(d) \in Dirs /\ Other(d) # d
    BY <2>1 DEF Other
  <2> QED
    BY <2>2 DEF Dirs
<1>3. LiftOwn(r, d) = q
  BY DEF LiftOwn
<1> HIDE DEF f
<1>4. /\ n \in Bevent /\ Kept(n, r) /\ EventsOK(n, w) /\ n.refill = f /\ n.susp = r.susp
      /\ n.cfg = r.cfg /\ n.in = r.in /\ n.high = r.high /\ n.lim = r.lim
  BY <1>1, SetRefill DEF Sound
<1> HIDE DEF n
<1>5. /\ q \in Bevent /\ Alike(q, n) /\ EventsOK(q, w)
      /\ q.susp = [n.susp EXCEPT ![d] = @ \ {"bw"}]
  BY <1>1, <1>4, Unsuspend
<1> HIDE DEF q
<1>6. r.susp \in [Dirs -> SUBSET Reasons] /\ r.lim \in [Dirs -> Int]
  BY <1>1 DEF Bevent
<1>7. /\ q.susp[d] = r.susp[d] \ {"bw"}
      /\ \A e \in Dirs : e # d => q.susp[e] = r.susp[e]
  BY <1>4, <1>5, <1>6
<1>8. \A e \in Dirs : "bw" \in q.susp[e] => q.refill /\ q.cfg # 0
  BY ZenonT(60), <1>2, <1>4, <1>5, <1>7 DEF Sound, SuspensionsOK, Alike, f
<1>9. SuspensionsOK(q)
  BY <1>4, <1>5, <1>6, <1>7, <1>8 DEF Sound, SuspensionsOK, Alike, Kept, Dirs
<1>10. Kept(q, r)
  BY <1>4, <1>5, <1>7 DEF Kept, Alike
<1> QED
  BY <1>3, <1>5, <1>9, <1>10 DEF Sound

(* The bucket has run out, and the timer is going to refill it.             *)
LEMMA SuspendOwnSound ==
    ASSUME NEW r, NEW w, Sound(r, w), NEW d \in Dirs, NEW v \in Int, r.cfg # 0
    PROVE  LET q == [suspend([r EXCEPT !.lim[d] = v], d, "bw") EXCEPT !.refill = TRUE]
           IN  Sound(q, w) /\ Kept(q, r)
<1> DEFINE n == [r EXCEPT !.lim[d] = v]
<1> DEFINE o == suspend(n, d, "bw")
<1> DEFINE q == [o EXCEPT !.refill = TRUE]
<1> SUFFICES Sound(q, w) /\ Kept(q, r)
  OBVIOUS
<1>1. r \in Bevent /\ "bw" \in Reasons
  BY DEF Sound, Reasons
<1>2. /\ n \in Bevent /\ Kept(n, r) /\ EventsOK(n, w)
      /\ n.lim = [r.lim EXCEPT ![d] = v] /\ n.susp = r.susp
      /\ n.cfg = r.cfg /\ n.in = r.in /\ n.high = r.high /\ n.refill = r.refill
  BY <1>1, SetLim DEF Sound
<1> HIDE DEF n
<1>3. /\ o \in Bevent /\ Alike(o, n) /\ EventsOK(o, w)
      /\ o.susp = [n.susp EXCEPT ![d] = @ \cup {"bw"}]
  BY <1>1, <1>2, Suspend
<1> HIDE DEF o
<1>4. /\ q \in Bevent /\ Kept(q, o) /\ EventsOK(q, w)
      /\ q.refill = TRUE /\ q.susp = o.susp
      /\ q.cfg = o.cfg /\ q.in = o.in /\ q.high = o.high /\ q.lim = o.lim
  BY <1>3, SetRefill
<1> HIDE DEF q
<1>5. r.susp \in [Dirs -> SUBSET Reasons] /\ r.lim \in [Dirs -> Int]
  BY <1>1 DEF Bevent
<1>6. /\ q.susp[d] = r.susp[d] \cup {"bw"} /\ q.cfg = r.cfg /\ q.in = r.in /\ q.high = r.high
      /\ \A e \in Dirs : e # d => q.susp[e] = r.susp[e] /\ q.lim[e] = r.lim[e]
  BY <1>2, <1>3, <1>4, <1>5 DEF Alike
<1>7. SuspensionsOK(q)
  BY <1>2, <1>3, <1>4, <1>5, <1>6 DEF Sound, SuspensionsOK, Alike, Kept, Dirs
<1>8. Kept(q, r)
  BY <1>2, <1>3, <1>4, <1>6 DEF Kept, Alike
<1> QED
  BY <1>4, <1>7, <1>8 DEF Sound

(* Another number of tokens, above zero as before or suspended as before.   *)
LEMMA SetLimSound ==
    ASSUME NEW r, NEW w, Sound(r, w), NEW d \in Dirs, NEW v \in Int,
           v > 0 \/ r.lim[d] <= 0
    PROVE  LET q == [r EXCEPT !.lim[d] = v] IN Sound(q, w) /\ Kept(q, r) /\ q.susp = r.susp /\ q.lim[d] = v
<1> DEFINE q == [r EXCEPT !.lim[d] = v]
<1> SUFFICES Sound(q, w) /\ Kept(q, r) /\ q.susp = r.susp /\ q.lim[d] = v
  OBVIOUS
<1>1. r \in Bevent
  BY DEF Sound
<1>2. /\ q \in Bevent /\ Kept(q, r) /\ EventsOK(q, w)
      /\ q.lim = [r.lim EXCEPT ![d] = v] /\ q.susp = r.susp
      /\ q.cfg = r.cfg /\ q.in = r.in /\ q.high = r.high /\ q.refill = r.refill
  BY <1>1, SetLim DEF Sound
<1> HIDE DEF q
<1>3. r.lim \in [Dirs -> Int]
  BY <1>1 DEF Bevent
<1>4. q.lim[d] = v /\ \A e \in Dirs : e # d => q.lim[e] = r.lim[e]
  BY <1>2, <1>3
<1>5. \A e \in Dirs : q.lim[e] <= 0 => r.lim[e] <= 0
  BY <1>3, <1>4
<1>6. SuspensionsOK(q)
  BY <1>2, <1>5 DEF Sound, SuspensionsOK, Kept
<1> QED
  BY <1>2, <1>4, <1>6 DEF Sound

LEMMA DecrementOwnSound ==
    ASSUME NEW r, NEW w, Sound(r, w), NEW d \in Dirs, NEW n \in Int
    PROVE  Sound(decrement_own(r, d, n), w) /\ Kept(decrement_own(r, d, n), r)
<1> DEFINE v == r.lim[d] - n
<1> DEFINE own == [r EXCEPT !.lim[d] = v]
<1>1. r \in Bevent
  BY DEF Sound
<1>2. v \in Int /\ own.lim[d] = v /\ own.susp = r.susp /\ r.lim[d] \in Int
  BY <1>1 DEF Bevent
<1>3. decrement_own(r, d, n) =
        IF r.cfg = 0 THEN r
        ELSE IF own.lim[d] <= 0 THEN [suspend(own, d, "bw") EXCEPT !.refill = TRUE]
        ELSE IF "bw" \in own.susp[d] THEN LiftOwn(own, d) ELSE own
  BY DEF decrement_own
<1> HIDE DEF v
<1>4. CASE r.cfg = 0
  <2>1. decrement_own(r, d, n) = r
    BY <1>3, <1>4
  <2> QED
    BY <2>1 DEF Kept
<1>5. CASE r.cfg # 0 /\ v <= 0
  <2>1. decrement_own(r, d, n) = [suspend(own, d, "bw") EXCEPT !.refill = TRUE]
    BY <1>2, <1>3, <1>5
  <2> QED
    BY <1>2, <1>5, <2>1, SuspendOwnSound
<1>6. CASE r.cfg # 0 /\ v > 0
  <2>1. Sound(own, w) /\ Kept(own, r) /\ own.lim[d] > 0
    BY <1>2, <1>6, SetLimSound
  <2>3. decrement_own(r, d, n) = own \/ decrement_own(r, d, n) = LiftOwn(own, d)
    BY <1>2, <1>3, <1>6
  <2> HIDE DEF own
  <2>2. Sound(LiftOwn(own, d), w) /\ Kept(LiftOwn(own, d), own)
    BY <2>1, LiftOwnSound
  <2> QED
    BY <2>1, <2>2, <2>3 DEF Kept
<1> QED
  BY <1>2, <1>4, <1>5, <1>6

LEMMA DecrementLimitSound ==
    ASSUME NEW r, NEW w, Sound(r, w), NEW d \in Dirs, NEW n \in Int, r.cfg # 0
    PROVE  Sound(decrement_limit(r, d, n), w) /\ Kept(decrement_limit(r, d, n), r)
<1> DEFINE v == r.lim[d] - n
<1> DEFINE own == [r EXCEPT !.lim[d] = v]
<1>1. r \in Bevent
  BY DEF Sound
<1>2. v \in Int /\ own.lim[d] = v /\ own.susp = r.susp /\ r.lim[d] \in Int
  BY <1>1 DEF Bevent
<1>3. decrement_limit(r, d, n) =
        IF r.lim[d] > 0 /\ ~(own.lim[d] > 0) THEN [suspend(own, d, "bw") EXCEPT !.refill = TRUE]
        ELSE IF ~(r.lim[d] > 0) /\ own.lim[d] > 0 THEN LiftOwn(own, d) ELSE own
  BY DEF decrement_limit
<1> HIDE DEF v
<1>4. CASE r.lim[d] > 0 /\ ~(v > 0)
  <2>1. decrement_limit(r, d, n) = [suspend(own, d, "bw") EXCEPT !.refill = TRUE]
    BY <1>2, <1>3, <1>4
  <2> QED
    BY <1>2, <2>1, SuspendOwnSound
<1>5. CASE ~(r.lim[d] > 0 /\ ~(v > 0))
  <2>1. Sound(own, w) /\ Kept(own, r)
    BY <1>2, <1>5, SetLimSound
  <2>3. decrement_limit(r, d, n) = own \/ (v > 0 /\ decrement_limit(r, d, n) = LiftOwn(own, d))
    BY <1>2, <1>3, <1>5
  <2>4. own.lim[d] = v
    BY <1>2
  <2> HIDE DEF own
  <2>2. v > 0 => Sound(LiftOwn(own, d), w) /\ Kept(LiftOwn(own, d), own)
    BY <2>1, <2>4, LiftOwnSound
  <2> QED
    BY <2>1, <2>2, <2>3 DEF Kept
<1> QED
  BY <1>4, <1>5

(* Suspending or not, as full says.                                         *)
LEMMA SuspendIfEvents ==
    ASSUME NEW r \in Bevent, NEW d \in Dirs, NEW why \in Reasons, NEW full \in BOOLEAN
    PROVE  LET q == SuspendIf(r, d, why, full)
           IN  /\ q \in Bevent /\ Alike(q, r) /\ \A w : EventsOK(r, w) => EventsOK(q, w)
               /\ why \in q.susp[d] <=> full
               /\ \A e \in Dirs, y \in Reasons :
                     e # d \/ y # why => (y \in q.susp[e] <=> y \in r.susp[e])
<1> DEFINE q == SuspendIf(r, d, why, full)
<1>1. r.susp \in [Dirs -> SUBSET Reasons]
  BY DEF Bevent
<1>2. CASE full
  <2>1. /\ q \in Bevent /\ Alike(q, r) /\ q.susp = [r.susp EXCEPT ![d] = @ \cup {why}]
        /\ \A w : EventsOK(r, w) => EventsOK(q, w)
    BY <1>2, Suspend DEF SuspendIf
  <2> HIDE DEF q
  <2>2. /\ why \in q.susp[d]
        /\ \A e \in Dirs, y \in Reasons : e # d \/ y # why => (y \in q.susp[e] <=> y \in r.susp[e])
    BY <1>1, <2>1
  <2> QED
    BY <1>2, <2>1, <2>2 DEF q
<1>3. CASE ~full
  <2>1. /\ q \in Bevent /\ Alike(q, r) /\ q.susp = [r.susp EXCEPT ![d] = @ \ {why}]
        /\ \A w : EventsOK(r, w) => EventsOK(q, w)
    BY <1>3, Unsuspend DEF SuspendIf
  <2> HIDE DEF q
  <2>2. /\ why \notin q.susp[d]
        /\ \A e \in Dirs, y \in Reasons : e # d \/ y # why => (y \in q.susp[e] <=> y \in r.susp[e])
    BY <1>1, <2>1
  <2> QED
    BY <1>3, <2>1, <2>2 DEF q
<1> QED
  BY <1>2, <1>3

(* Both directions suspended or not for one reason.                         *)
LEMMA SuspendBoth ==
    ASSUME NEW r \in Bevent, NEW why \in Reasons, NEW f \in BOOLEAN, NEW g \in BOOLEAN
    PROVE  LET q == SuspendIf(SuspendIf(r, "R", why, f), "W", why, g)
           IN  /\ q \in Bevent /\ Alike(q, r) /\ \A w : EventsOK(r, w) => EventsOK(q, w)
               /\ why \in q.susp["R"] <=> f
               /\ why \in q.susp["W"] <=> g
               /\ \A e \in Dirs, y \in Reasons : y # why => (y \in q.susp[e] <=> y \in r.susp[e])
<1> DEFINE n == SuspendIf(r, "R", why, f)
<1> DEFINE q == SuspendIf(n, "W", why, g)
<1>1. "R" \in Dirs /\ "W" \in Dirs
  BY DEF Dirs
<1>2. /\ n \in Bevent /\ Alike(n, r) /\ \A w : EventsOK(r, w) => EventsOK(n, w)
      /\ why \in n.susp["R"] <=> f
      /\ \A e \in Dirs, y \in Reasons : e # "R" \/ y # why => (y \in n.susp[e] <=> y \in r.susp[e])
  BY <1>1, SuspendIfEvents
<1> HIDE DEF n
<1>3. /\ q \in Bevent /\ Alike(q, n) /\ \A w : EventsOK(n, w) => EventsOK(q, w)
      /\ why \in q.susp["W"] <=> g
      /\ \A e \in Dirs, y \in Reasons : e # "W" \/ y # why => (y \in q.susp[e] <=> y \in n.susp[e])
  BY <1>1, <1>2, SuspendIfEvents
<1> HIDE DEF q
<1>4. Alike(q, r)
  BY <1>2, <1>3 DEF Alike
<1>5. why \in q.susp["R"] <=> f
  BY <1>1, <1>2, <1>3
<1>6. \A e \in Dirs, y \in Reasons : y # why => (y \in q.susp[e] <=> y \in r.susp[e])
  BY <1>2, <1>3
<1> QED
  BY <1>2, <1>3, <1>4, <1>5, <1>6 DEF q, n

(* A record with buckets and a timer that say the same as its suspensions.  *)
LEMMA BucketsSound ==
    ASSUME NEW r, NEW w, Sound(r, w), NEW q \in Bevent, EventsOK(q, w),
           q.in = r.in, q.high = r.high, q.lookup = r.lookup,
           \A e \in Dirs, y \in Reasons : y # "bw" => (y \in q.susp[e] <=> y \in r.susp[e]),
           \A e \in Dirs : /\ "bw" \in q.susp[e] => q.refill /\ q.cfg # 0
                           /\ q.cfg # 0 /\ q.lim[e] <= 0 => "bw" \in q.susp[e]
    PROVE  Sound(q, w) /\ \A e \in Dirs : "group" \in q.susp[e] => "group" \in r.susp[e]
<1>1. \A e \in Dirs : /\ "wm" \in q.susp[e] <=> "wm" \in r.susp[e]
                      /\ "lookup" \in q.susp[e] <=> "lookup" \in r.susp[e]
                      /\ "group" \in q.susp[e] <=> "group" \in r.susp[e]
  BY DEF Reasons
<1>2. SuspensionsOK(q)
  BY <1>1 DEF Sound, SuspensionsOK, Dirs
<1> QED
  BY <1>1, <1>2 DEF Sound

(* Lifting the suspension by a bucket where c holds.                        *)
LEMMA LiftIfEvents ==
    ASSUME NEW r \in Bevent, NEW d \in Dirs, NEW c \in BOOLEAN
    PROVE  LET q == IF c THEN unsuspend(r, d, "bw") ELSE r
           IN  /\ q \in Bevent /\ Alike(q, r) /\ \A w : EventsOK(r, w) => EventsOK(q, w)
               /\ "bw" \in q.susp[d] <=> "bw" \in r.susp[d] /\ ~c
               /\ \A e \in Dirs, y \in Reasons :
                     e # d \/ y # "bw" => (y \in q.susp[e] <=> y \in r.susp[e])
<1> DEFINE q == IF c THEN unsuspend(r, d, "bw") ELSE r
<1>1. CASE c
  <2>1. "bw" \in Reasons /\ q = SuspendIf(r, d, "bw", FALSE)
    BY <1>1 DEF Reasons, SuspendIf
  <2>2. r.susp \in [Dirs -> SUBSET Reasons]
    BY DEF Bevent
  <2>3. /\ q \in Bevent /\ Alike(q, r) /\ q.susp = [r.susp EXCEPT ![d] = @ \ {"bw"}]
        /\ \A w : EventsOK(r, w) => EventsOK(q, w)
    BY <1>1, <2>1, Unsuspend
  <2> HIDE DEF q
  <2>4. /\ "bw" \notin q.susp[d]
        /\ \A e \in Dirs, y \in Reasons : e # d \/ y # "bw" => (y \in q.susp[e] <=> y \in r.susp[e])
    BY <2>2, <2>3
  <2> QED
    BY <1>1, <2>3, <2>4 DEF q
<1>2. CASE ~c
  <2>1. q = r /\ Alike(r, r)
    BY <1>2 DEF Alike
  <2> QED
    BY <1>2, <2>1
<1> QED
  BY <1>1, <1>2

(* An update, whatever the timer.                                           *)
LEMMA UpdateEvents ==
    ASSUME NEW r \in Bevent, r.cfg # 0
    PROVE  LET q == update_buckets(r)
           IN  /\ q \in Bevent /\ Kept(q, r) /\ \A w : EventsOK(r, w) => EventsOK(q, w)
               /\ \A d \in Dirs : q.lim[d] \in Int /\ (r.lim[d] > 0 => q.lim[d] > 0)
               /\ q.susp = r.susp /\ q.cfg = r.cfg /\ q.refill = r.refill
               /\ q.in = r.in /\ q.high = r.high
<1> DEFINE v == [d \in Dirs |-> Refilled(r.lim[d], r.cfg, r.age)]
<1> DEFINE q == [r EXCEPT !.lim = v, !.age = 0]
<1>1. r.lim \in [Dirs -> Int] /\ r.cfg \in {1, 2} /\ r.age \in Nat
  BY DEF Bevent
<1>2. v \in [Dirs -> Int] /\ \A d \in Dirs : r.lim[d] > 0 => v[d] > 0
  BY <1>1, RefilledPositive
<1>3. update_buckets(r) = q
  BY DEF update_buckets
<1> HIDE DEF v
<1>4. q \in Bevent
  BY <1>2 DEF Bevent
<1>5. /\ Kept(q, r) /\ q.susp = r.susp /\ q.pend = r.pend /\ q.enabled = r.enabled /\ q.fd = r.fd
      /\ q.failed = r.failed /\ q.active = r.active /\ q.in = r.in /\ q.high = r.high
      /\ q.cfg = r.cfg /\ q.lim = v /\ q.refill = r.refill /\ q.out = r.out
  BY DEF Bevent, Kept
<1> HIDE DEF q
<1>6. ASSUME NEW w, EventsOK(r, w) PROVE EventsOK(q, w)
  BY <1>5, <1>6 DEF Kept, EventsOK
<1> QED
  BY <1>2, <1>3, <1>4, <1>5, <1>6

(* _bev_refill_callback                                                     *)
LEMMA RefillSound ==
    ASSUME NEW r, NEW w, Sound(r, w), r.cfg # 0
    PROVE  Sound(refill(r), w) /\ Kept(refill(r), r)
<1> DEFINE a == [r EXCEPT !.refill = FALSE]
<1> DEFINE u == update_buckets(a)
<1> DEFINE c(d) == "bw" \in u.susp[d] /\ u.lim[d] > 0
<1> DEFINE x == IF c("R") THEN unsuspend(u, "R", "bw") ELSE u
<1> DEFINE y == IF c("W") THEN unsuspend(x, "W", "bw") ELSE x
<1> DEFINE again == \E d \in Dirs : "bw" \in u.susp[d] /\ u.lim[d] <= 0
<1> DEFINE q == [y EXCEPT !.refill = again]
<1>1. refill(r) = q
  BY DEF refill
<1>2. r \in Bevent /\ FALSE \in BOOLEAN /\ again \in BOOLEAN /\ c("R") \in BOOLEAN /\ c("W") \in BOOLEAN
  BY DEF Sound
<1>3. /\ a \in Bevent /\ Kept(a, r) /\ EventsOK(a, w) /\ a.susp = r.susp
      /\ a.cfg = r.cfg /\ a.in = r.in /\ a.high = r.high /\ a.lim = r.lim
  BY <1>2, SetRefill DEF Sound
<1> HIDE DEF a
<1>4. /\ u \in Bevent /\ Kept(u, a) /\ EventsOK(u, w)
      /\ \A d \in Dirs : u.lim[d] \in Int /\ (a.lim[d] > 0 => u.lim[d] > 0)
      /\ u.susp = a.susp /\ u.cfg = a.cfg /\ u.in = a.in /\ u.high = a.high
  BY <1>3, UpdateEvents
<1> HIDE DEF u
<1> DEFINE cR == c("R")
<1> DEFINE cW == c("W")
<1> HIDE DEF again
<1>5. /\ x \in Bevent /\ Alike(x, u) /\ EventsOK(x, w)
      /\ "bw" \in x.susp["R"] <=> "bw" \in u.susp["R"] /\ ~cR
      /\ \A e \in Dirs, z \in Reasons : e # "R" \/ z # "bw" => (z \in x.susp[e] <=> z \in u.susp[e])
  <2> HIDE DEF c
  <2> QED
    BY <1>2, <1>4, LiftIfEvents DEF Dirs
<1> HIDE DEF x
<1>6. /\ y \in Bevent /\ Alike(y, x) /\ EventsOK(y, w)
      /\ "bw" \in y.susp["W"] <=> "bw" \in x.susp["W"] /\ ~cW
      /\ \A e \in Dirs, z \in Reasons : e # "W" \/ z # "bw" => (z \in y.susp[e] <=> z \in x.susp[e])
  <2> HIDE DEF c
  <2> QED
    BY <1>2, <1>5, LiftIfEvents DEF Dirs
<1> HIDE DEF y
<1>7. /\ q \in Bevent /\ Kept(q, y) /\ EventsOK(q, w) /\ q.refill = again /\ q.susp = y.susp
      /\ q.cfg = y.cfg /\ q.in = y.in /\ q.high = y.high /\ q.lim = y.lim
  BY <1>2, <1>6, SetRefill
<1> HIDE DEF q
<1>8. "bw" \in Reasons /\ "R" \in Dirs /\ "W" \in Dirs /\ \A e \in Dirs : e = "R" \/ e = "W"
  BY DEF Reasons, Dirs
<1>9. /\ "bw" \in q.susp["R"] <=> "bw" \in r.susp["R"] /\ ~(u.lim["R"] > 0)
      /\ "bw" \in q.susp["W"] <=> "bw" \in r.susp["W"] /\ ~(u.lim["W"] > 0)
  BY <1>3, <1>4, <1>5, <1>6, <1>7, <1>8
<1>10. q.cfg = r.cfg /\ q.lim = u.lim /\ q.in = r.in /\ q.high = r.high /\ q.lookup = r.lookup
  BY <1>3, <1>4, <1>5, <1>6, <1>7 DEF Alike, Kept
<1>11. \A e \in Dirs, z \in Reasons : z # "bw" => (z \in q.susp[e] <=> z \in r.susp[e])
  BY <1>3, <1>4, <1>5, <1>6, <1>7
<1>12. \A e \in Dirs : /\ "bw" \in q.susp[e] => q.refill /\ q.cfg # 0
                       /\ q.cfg # 0 /\ q.lim[e] <= 0 => "bw" \in q.susp[e]
  <2>1. r.lim \in [Dirs -> Int]
    BY <1>2 DEF Bevent
  <2>2. \A e \in Dirs : u.lim[e] <= 0 => "bw" \in r.susp[e]
    BY <1>3, <1>4, <2>1 DEF Sound, SuspensionsOK
  <2>3. \A e \in Dirs : "bw" \in q.susp[e] => again
    BY <1>3, <1>4, <1>8, <1>9 DEF again
  <2> QED
    BY <1>4, <1>7, <1>8, <1>9, <1>10, <2>2, <2>3
<1>13. Sound(q, w) /\ \A e \in Dirs : "group" \in q.susp[e] => "group" \in r.susp[e]
  BY <1>7, <1>10, <1>11, <1>12, BucketsSound
<1>14. Kept(q, r)
  BY <1>3, <1>4, <1>5, <1>6, <1>7, <1>13 DEF Alike, Kept
<1> QED
  BY <1>1, <1>13, <1>14

(* bufferevent_set_rate_limit                                               *)
LEMMA SetRateLimitSound ==
    ASSUME NEW r, NEW w, Sound(r, w), NEW c \in 0..2
    PROVE  Sound(set_rate_limit(r, c), w) /\ Kept(set_rate_limit(r, c), r)
<1>1. r \in Bevent /\ "R" \in Dirs /\ "W" \in Dirs /\ "bw" \in Reasons /\ \A e \in Dirs : e = "R" \/ e = "W"
  BY DEF Sound, Dirs, Reasons
<1>2. r.susp \in [Dirs -> SUBSET Reasons] /\ r.lim \in [Dirs -> Int] /\ r.cfg \in 0..2 /\ r.age \in Nat
  BY <1>1 DEF Bevent
<1>3. CASE c = 0
  <2> DEFINE a == [r EXCEPT !.cfg = 0]
  <2> DEFINE x == unsuspend(a, "R", "bw")
  <2> DEFINE y == unsuspend(x, "W", "bw")
  <2> DEFINE q == [y EXCEPT !.refill = FALSE]
  <2>1. set_rate_limit(r, c) = q
    BY <1>3 DEF set_rate_limit
  <2>2. /\ a \in Bevent /\ Kept(a, r) /\ a.susp = r.susp /\ a.cfg = 0
        /\ a.in = r.in /\ a.high = r.high
    BY <1>1 DEF Bevent, Kept
  <2>3. EventsOK(a, w)
    BY <1>1 DEF Sound, EventsOK, Bevent
  <2> HIDE DEF a
  <2>4. /\ x \in Bevent /\ Alike(x, a) /\ EventsOK(x, w)
        /\ x.susp = [a.susp EXCEPT !["R"] = @ \ {"bw"}]
    BY <1>1, <2>2, <2>3, Unsuspend
  <2> HIDE DEF x
  <2>5. /\ y \in Bevent /\ Alike(y, x) /\ EventsOK(y, w)
        /\ y.susp = [x.susp EXCEPT !["W"] = @ \ {"bw"}]
    <3>1. x \in Bevent /\ EventsOK(x, w)
      BY <2>4
    <3> QED
      BY <1>1, <3>1, Unsuspend
  <2> HIDE DEF y
  <2>6. /\ q \in Bevent /\ Kept(q, y) /\ EventsOK(q, w) /\ q.susp = y.susp
        /\ q.cfg = y.cfg /\ q.in = y.in /\ q.high = y.high
    BY <2>5, SetRefill
  <2> HIDE DEF q
  <2>7. \A e \in Dirs : q.susp[e] = r.susp[e] \ {"bw"}
    BY <1>1, <1>2, <2>2, <2>4, <2>5, <2>6
  <2>8. q.in = r.in /\ q.high = r.high /\ q.lookup = r.lookup /\ q.cfg = 0
    BY <2>2, <2>4, <2>5, <2>6 DEF Alike, Kept
  <2>9. Sound(q, w) /\ \A e \in Dirs : "group" \in q.susp[e] => "group" \in r.susp[e]
    BY <2>6, <2>7, <2>8, BucketsSound
  <2>10. Kept(q, r)
    BY <2>2, <2>4, <2>5, <2>6, <2>9 DEF Alike, Kept
  <2> QED
    BY <2>1, <2>9, <2>10
<1>4. CASE c # 0 /\ c = r.cfg
  <2>1. set_rate_limit(r, c) = r
    BY <1>4 DEF set_rate_limit
  <2> QED
    BY <2>1 DEF Kept
<1>5. CASE c # 0 /\ c # r.cfg
  <2> DEFINE lim == [d \in Dirs |-> IF r.cfg = 0 THEN Rate[c]
                                    ELSE IF r.lim[d] > Burst[c] THEN Burst[c] ELSE r.lim[d]]
  <2> DEFINE g == IF r.cfg = 0 THEN 0 ELSE r.age
  <2> DEFINE a == [r EXCEPT !.cfg = c, !.lim = lim, !.age = g]
  <2> DEFINE f(d) == lim[d] <= 0
  <2> DEFINE y == SuspendIf(SuspendIf(a, "R", "bw", f("R")), "W", "bw", f("W"))
  <2> DEFINE again == \E d \in Dirs : lim[d] <= 0
  <2> DEFINE q == [y EXCEPT !.refill = again]
  <2>1. set_rate_limit(r, c) = q
    BY <1>5 DEF set_rate_limit
  <2>2. Rate[c] \in Int /\ Burst[c] \in Int
    BY <1>5, RateAssumption DEF ev_token_bucket_cfg_new
  <2>3. lim \in [Dirs -> Int] /\ g \in Nat
    BY <1>2, <2>2
  <2> HIDE DEF lim, g
  <2>4. /\ a \in Bevent /\ Kept(a, r) /\ a.susp = r.susp /\ a.cfg = c /\ a.lim = lim
        /\ a.in = r.in /\ a.high = r.high
    BY <1>1, <2>3 DEF Bevent, Kept
  <2>5. EventsOK(a, w)
    BY <1>1 DEF Sound, EventsOK, Bevent
  <2> HIDE DEF a
  <2> DEFINE fR == f("R")
  <2> DEFINE fW == f("W")
  <2>6. fR \in BOOLEAN /\ fW \in BOOLEAN /\ again \in BOOLEAN
    BY <1>1, <2>3
  <2>7. /\ y \in Bevent /\ Alike(y, a) /\ EventsOK(y, w)
        /\ "bw" \in y.susp["R"] <=> fR
        /\ "bw" \in y.susp["W"] <=> fW
        /\ \A e \in Dirs, z \in Reasons : z # "bw" => (z \in y.susp[e] <=> z \in a.susp[e])
    <3>1. a \in Bevent /\ EventsOK(a, w)
      BY <2>4, <2>5
    <3> HIDE DEF f
    <3> QED
      BY <1>1, <3>1, <2>6, SuspendBoth
  <2> HIDE DEF y, again
  <2>8. /\ q \in Bevent /\ Kept(q, y) /\ EventsOK(q, w) /\ q.susp = y.susp /\ q.refill = again
        /\ q.cfg = y.cfg /\ q.in = y.in /\ q.high = y.high /\ q.lim = y.lim
    BY <2>6, <2>7, SetRefill
  <2> HIDE DEF q
  <2>9. /\ q.in = r.in /\ q.high = r.high /\ q.lookup = r.lookup /\ q.cfg = c /\ q.lim = lim
    BY <2>4, <2>7, <2>8 DEF Alike, Kept
  <2>10. \A e \in Dirs, z \in Reasons : z # "bw" => (z \in q.susp[e] <=> z \in r.susp[e])
    BY <2>4, <2>7, <2>8
  <2>11. \A e \in Dirs : "bw" \in q.susp[e] <=> lim[e] <= 0
    BY <1>1, <2>7, <2>8
  <2>12. \A e \in Dirs : /\ "bw" \in q.susp[e] => q.refill /\ q.cfg # 0
                         /\ q.cfg # 0 /\ q.lim[e] <= 0 => "bw" \in q.susp[e]
    BY <1>5, <2>8, <2>9, <2>11 DEF again
  <2>13. Sound(q, w) /\ \A e \in Dirs : "group" \in q.susp[e] => "group" \in r.susp[e]
    BY <2>8, <2>9, <2>10, <2>12, BucketsSound
  <2>14. Kept(q, r)
    BY <2>4, <2>7, <2>8, <2>13 DEF Alike, Kept
  <2> QED
    BY <2>1, <2>13, <2>14
<1> QED
  BY <1>3, <1>4, <1>5

-----------------------------------------------------------------------------
(* The other calls and the steps of the handlers.                           *)

(* Fields that nothing here looks at may change.                            *)
Same(q, r) ==
    /\ q.fd = r.fd /\ q.failed = r.failed /\ q.susp = r.susp /\ q.enabled = r.enabled
    /\ q.pend = r.pend /\ q.out = r.out /\ q.connecting = r.connecting /\ q.active = r.active
    /\ q.high = r.high /\ q.in = r.in /\ q.lookup = r.lookup /\ q.join = r.join
    /\ q.refill = r.refill /\ q.cfg = r.cfg /\ q.lim = r.lim

LEMMA SameSound ==
    ASSUME NEW r, NEW w, Sound(r, w), NEW q \in Bevent, Same(q, r)
    PROVE  Sound(q, w)
  BY DEF Sound, Same, EventsOK, SuspensionsOK

LEMMA TimeoutsSound ==
    ASSUME NEW r, NEW w, Sound(r, w), NEW ds \in SUBSET Dirs
    PROVE  LET q == be_socket_enable([r EXCEPT !.tmo = ds], r.pend) IN Sound(q, w) /\ Kept(q, r)
<1> DEFINE n == [r EXCEPT !.tmo = ds]
<1> DEFINE q == be_socket_enable(n, r.pend)
<1> SUFFICES Sound(q, w) /\ Kept(q, r)
  OBVIOUS
<1>1. r \in Bevent /\ r.pend \in SUBSET Dirs
  BY DEF Sound, Bevent
<1>2. n \in Bevent /\ Same(n, r) /\ n.refcnt = r.refcnt /\ n.user = r.user /\ n.queued = r.queued
  BY <1>1 DEF Bevent, Same
<1> HIDE DEF n
<1>3. /\ q \in Bevent /\ Alike(q, n) /\ q.susp = n.susp /\ q.active = n.active
      /\ q.pend = n.pend \cup r.pend
  BY <1>1, <1>2, EnableEvents
<1> HIDE DEF q
<1>4. Same(q, r)
  BY <1>2, <1>3 DEF Alike, Same
<1>5. Kept(q, r)
  BY <1>2, <1>3, <1>4 DEF Alike, Same, Kept
<1> QED
  BY <1>3, <1>4, <1>5, SameSound

(* bufferevent_setwatermark                                                 *)
LEMMA WatermarkSound ==
    ASSUME NEW r, NEW w, Sound(r, w), NEW low \in Int, NEW high \in Int
    PROVE  LET q == SuspendIf([r EXCEPT !.low = low, !.high = high], "R", "wm",
                              high # 0 /\ r.in >= high)
           IN  Sound(q, w) /\ Kept(q, r)
<1> DEFINE n == [r EXCEPT !.low = low, !.high = high]
<1> DEFINE full == high # 0 /\ r.in >= high
<1> DEFINE q == SuspendIf(n, "R", "wm", full)
<1> SUFFICES Sound(q, w) /\ Kept(q, r)
  OBVIOUS
<1>1. r \in Bevent /\ full \in BOOLEAN /\ "R" \in Dirs /\ "wm" \in Reasons
  BY DEF Sound, Dirs, Reasons
<1>2. /\ n \in Bevent /\ n.susp = r.susp /\ n.lookup = r.lookup /\ n.refill = r.refill
      /\ n.cfg = r.cfg /\ n.lim = r.lim /\ n.in = r.in /\ n.high = high /\ Kept(n, r)
  BY <1>1 DEF Bevent, Kept
<1>3. EventsOK(n, w)
  BY <1>1 DEF Sound, EventsOK, Bevent
<1> HIDE DEF n, full
<1>4. /\ q \in Bevent /\ Alike(q, n) /\ EventsOK(q, w)
      /\ "wm" \in q.susp["R"] <=> full
      /\ \A e \in Dirs, y \in Reasons : e # "R" \/ y # "wm" => (y \in q.susp[e] <=> y \in n.susp[e])
  BY <1>1, <1>2, <1>3, SuspendIfEvents
<1> HIDE DEF q
<1>5. \A e \in Dirs : /\ "bw" \in q.susp[e] <=> "bw" \in r.susp[e]
                      /\ "lookup" \in q.susp[e] <=> "lookup" \in r.susp[e]
                      /\ "group" \in q.susp[e] <=> "group" \in r.susp[e]
  BY <1>2, <1>4 DEF Reasons
<1>6. "wm" \notin q.susp["W"]
  BY <1>2, <1>4 DEF Reasons, Dirs, Sound, SuspensionsOK
<1>7. SuspensionsOK(q)
  BY <1>2, <1>4, <1>5, <1>6 DEF Sound, SuspensionsOK, Alike, full
<1>8. Kept(q, r)
  BY <1>2, <1>4, <1>5 DEF Kept, Alike
<1> QED
  BY <1>4, <1>7, <1>8 DEF Sound

(* be_socket_setfd, whatever the events were.                               *)
LEMMA SetFdEvents ==
    ASSUME NEW r \in Bevent, NEW fd \in BOOLEAN
    PROVE  LET q == be_socket_setfd(r, fd)
           IN  /\ q \in Bevent /\ q.fd = fd /\ ~q.failed /\ ~q.active
               /\ q.pend = IF fd THEN {d \in r.enabled : r.susp[d] = {}} ELSE {}
               /\ q.refcnt = r.refcnt /\ q.user = r.user /\ q.queued = r.queued
               /\ q.lookup = r.lookup /\ q.join = r.join /\ q.connecting = r.connecting
               /\ q.enabled = r.enabled /\ q.susp = r.susp
               /\ q.in = r.in /\ q.high = r.high /\ q.cfg = r.cfg /\ q.lim = r.lim
               /\ q.refill = r.refill
<1> DEFINE a == del_event(r, Dirs)
<1> DEFINE n == [a EXCEPT !.fd = fd, !.failed = FALSE]
<1> DEFINE v == n.enabled \cup r.enabled
<1> DEFINE o == [n EXCEPT !.enabled = v]
<1> DEFINE more == {d \in r.enabled : n.susp[d] = {}}
<1> DEFINE q == be_socket_enable(o, more)
<1>1. be_socket_setfd(r, fd) = IF fd THEN q ELSE n
  BY DEF be_socket_setfd, enable
<1>2. /\ a \in Bevent /\ Alike(a, r) /\ a.susp = r.susp /\ a.pend = r.pend \ Dirs
      /\ a.active = (r.active /\ "W" \notin Dirs)
  BY DelEvents
<1> HIDE DEF a
<1>3. /\ n \in Bevent /\ n.fd = fd /\ ~n.failed /\ n.active = a.active /\ n.pend = a.pend
      /\ n.refcnt = a.refcnt /\ n.user = a.user /\ n.queued = a.queued
      /\ n.lookup = a.lookup /\ n.join = a.join /\ n.connecting = a.connecting
      /\ n.enabled = a.enabled /\ n.susp = a.susp
      /\ n.in = a.in /\ n.high = a.high /\ n.cfg = a.cfg /\ n.lim = a.lim
      /\ n.refill = a.refill
  BY ZenonT(60), <1>2 DEF Bevent
<1>4. r.enabled \in SUBSET Dirs /\ r.pend \in SUBSET Dirs /\ n.enabled = r.enabled
  BY <1>2, <1>3 DEF Bevent, Alike
<1>5. n.pend = {} /\ ~n.active
  BY <1>2, <1>3, <1>4 DEF Dirs
<1> HIDE DEF n
<1>6. v = r.enabled /\ more \in SUBSET Dirs /\ more = {d \in r.enabled : r.susp[d] = {}}
  BY <1>2, <1>3, <1>4
<1> HIDE DEF v, more
<1>7. /\ o \in Bevent /\ o.fd = n.fd /\ o.failed = n.failed /\ o.active = n.active /\ o.pend = n.pend
      /\ o.refcnt = n.refcnt /\ o.user = n.user /\ o.queued = n.queued
      /\ o.lookup = n.lookup /\ o.join = n.join /\ o.connecting = n.connecting
      /\ o.enabled = v /\ o.susp = n.susp
      /\ o.in = n.in /\ o.high = n.high /\ o.cfg = n.cfg /\ o.lim = n.lim
      /\ o.refill = n.refill
  BY <1>3, <1>4, <1>6 DEF Bevent
<1> HIDE DEF o
<1>8. q \in Bevent /\ Alike(q, o) /\ q.susp = o.susp /\ q.pend = o.pend \cup more /\ q.active = o.active
  BY <1>6, <1>7, EnableEvents
<1> HIDE DEF q
<1>9. q.pend = more
  BY <1>5, <1>7, <1>8
<1>10. CASE fd
  <2>1. be_socket_setfd(r, fd) = q
    BY <1>1, <1>10
  <2>2. /\ q \in Bevent /\ q.fd = fd /\ ~q.failed /\ ~q.active
        /\ q.pend = {d \in r.enabled : r.susp[d] = {}}
    BY <1>3, <1>5, <1>6, <1>7, <1>8, <1>9 DEF Alike
  <2>3. /\ q.refcnt = r.refcnt /\ q.user = r.user /\ q.queued = r.queued
        /\ q.lookup = r.lookup /\ q.join = r.join /\ q.connecting = r.connecting
        /\ q.enabled = r.enabled /\ q.susp = r.susp
        /\ q.in = r.in /\ q.high = r.high /\ q.cfg = r.cfg /\ q.lim = r.lim
        /\ q.refill = r.refill
    BY <1>2, <1>3, <1>6, <1>7, <1>8 DEF Alike
  <2> QED
    BY <1>10, <2>1, <2>2, <2>3
<1>11. CASE ~fd
  <2>1. be_socket_setfd(r, fd) = n
    BY <1>1, <1>11
  <2> QED
    BY <1>2, <1>3, <1>5, <1>11, <2>1 DEF Alike
<1> QED
  BY <1>10, <1>11

LEMMA SetFdSound ==
    ASSUME NEW r, Sound(r, "idle"), ~r.connecting, NEW fd \in BOOLEAN
    PROVE  Sound(be_socket_setfd(r, fd), "idle") /\ Kept(be_socket_setfd(r, fd), r)
<1> DEFINE q == be_socket_setfd(r, fd)
<1>1. r \in Bevent
  BY DEF Sound
<1>2. /\ q \in Bevent /\ q.fd = fd /\ ~q.failed /\ ~q.active
      /\ q.pend = IF fd THEN {d \in r.enabled : r.susp[d] = {}} ELSE {}
      /\ q.refcnt = r.refcnt /\ q.user = r.user /\ q.queued = r.queued
      /\ q.lookup = r.lookup /\ q.join = r.join /\ q.connecting = r.connecting
      /\ q.enabled = r.enabled /\ q.susp = r.susp
      /\ q.in = r.in /\ q.high = r.high /\ q.cfg = r.cfg /\ q.lim = r.lim
      /\ q.refill = r.refill
  BY <1>1, SetFdEvents
<1> HIDE DEF q
<1>3. SuspensionsOK(q) /\ Kept(q, r)
  BY <1>2 DEF Sound, SuspensionsOK, Kept
<1>4. \A d \in {"R", "W"} : d \in q.pend <=> fd /\ d \in q.enabled /\ q.susp[d] = {}
  BY <1>2
<1>5. EventsOK(q, "idle")
  BY <1>2, <1>4 DEF EventsOK
<1> QED
  BY <1>2, <1>3, <1>5 DEF Sound, q

(* What a step keeps that may start or end the connecting.                  *)
Counted(q, r) ==
    /\ q.refcnt = r.refcnt /\ q.user = r.user /\ q.queued = r.queued /\ q.lookup = r.lookup
    /\ q.join = r.join /\ q.susp = r.susp

LEMMA StartConnectSound ==
    ASSUME NEW r, Sound(r, "idle"), NEW x \in {"wait", "done", "refused"}
    PROVE  Sound(StartConnect(r, x), "idle") /\ Counted(StartConnect(r, x), r)
<1> DEFINE a == be_socket_setfd(r, TRUE)
<1> DEFINE n == [a EXCEPT !.connecting = TRUE]
<1> DEFINE q == StartConnect(r, x)
<1>1. r \in Bevent
  BY DEF Sound
<1>2. /\ a \in Bevent /\ a.fd = TRUE /\ ~a.failed
      /\ a.pend = {d \in r.enabled : r.susp[d] = {}}
      /\ a.refcnt = r.refcnt /\ a.user = r.user /\ a.queued = r.queued
      /\ a.lookup = r.lookup /\ a.join = r.join
      /\ a.enabled = r.enabled /\ a.susp = r.susp
      /\ a.in = r.in /\ a.high = r.high /\ a.cfg = r.cfg /\ a.lim = r.lim
      /\ a.refill = r.refill
  <2>1. ASSUME NEW fd \in BOOLEAN, fd
        PROVE  LET z == be_socket_setfd(r, fd)
               IN /\ z \in Bevent /\ z.fd = fd /\ ~z.failed
                  /\ z.pend = {d \in r.enabled : r.susp[d] = {}}
                  /\ z.refcnt = r.refcnt /\ z.user = r.user /\ z.queued = r.queued
                  /\ z.lookup = r.lookup /\ z.join = r.join
                  /\ z.enabled = r.enabled /\ z.susp = r.susp
                  /\ z.in = r.in /\ z.high = r.high /\ z.cfg = r.cfg /\ z.lim = r.lim
                  /\ z.refill = r.refill
    BY <1>1, <2>1, SetFdEvents
  <2> QED
    BY <2>1
<1> HIDE DEF a
<1>3. /\ n \in Bevent /\ n.connecting = TRUE /\ n.fd = a.fd /\ n.failed = a.failed /\ n.pend = a.pend
      /\ n.refcnt = a.refcnt /\ n.user = a.user /\ n.queued = a.queued
      /\ n.lookup = a.lookup /\ n.join = a.join /\ n.enabled = a.enabled /\ n.susp = a.susp
      /\ n.in = a.in /\ n.high = a.high /\ n.cfg = a.cfg /\ n.lim = a.lim
      /\ n.refill = a.refill
  BY <1>2 DEF Bevent
<1> HIDE DEF n
<1>4. /\ q \in Bevent /\ Counted(q, n) /\ q.in = n.in /\ q.high = n.high /\ q.cfg = n.cfg
      /\ q.lim = n.lim /\ q.refill = n.refill /\ q.enabled = n.enabled
      /\ q.connecting = n.connecting /\ q.fd = n.fd /\ q.failed = n.failed
      /\ n.pend \subseteq q.pend /\ q.pend \subseteq n.pend \cup {"W"}
      /\ "W" \in q.pend \/ q.active
  <2>1. CASE x = "wait"
    <3>1. q = be_socket_enable(n, {"W"})
      BY <2>1 DEF StartConnect, n, a
    <3> HIDE DEF q
    <3>2. /\ q \in Bevent /\ Alike(q, n) /\ q.susp = n.susp /\ q.pend = n.pend \cup {"W"}
      BY <1>3, <3>1, EnableEvents DEF Dirs
    <3> QED
      BY <3>2 DEF Alike, Counted
  <2>2. CASE x = "done"
    <3>1. q = [n EXCEPT !.active = TRUE]
      BY <2>2 DEF StartConnect, n, a
    <3> HIDE DEF q
    <3> QED
      BY <1>3, <3>1 DEF Counted, Bevent
  <2>3. CASE x = "refused"
    <3>1. q = [n EXCEPT !.active = TRUE, !.refused = TRUE]
      BY <2>3 DEF StartConnect, n, a
    <3> HIDE DEF q
    <3> QED
      BY <1>3, <3>1 DEF Counted, Bevent
  <2> QED
    BY <2>1, <2>2, <2>3
<1> HIDE DEF q
<1>5. SuspensionsOK(q) /\ Counted(q, r)
  BY <1>2, <1>3, <1>4 DEF Sound, SuspensionsOK, Counted
<1>6. \A d \in {"R", "W"} : d \in n.pend <=> d \in r.enabled /\ r.susp[d] = {}
  BY <1>2, <1>3
<1>7. EventsOK(q, "idle")
  BY <1>2, <1>3, <1>4, <1>5, <1>6 DEF EventsOK, Counted
<1> QED
  BY <1>4, <1>5, <1>7 DEF Sound, q

(* bufferevent_writecb: the event is no longer active; then the connecting  *)
(* is over, and the socket may be closed.                                   *)
LEMMA InactiveSound ==
    ASSUME NEW r, Sound(r, "idle"), r.connecting => "W" \in r.pend
    PROVE  LET q == [r EXCEPT !.active = FALSE] IN Sound(q, "idle") /\ Kept(q, r)
<1> DEFINE q == [r EXCEPT !.active = FALSE]
<1>1. r \in Bevent
  BY DEF Sound
<1>2. q \in Bevent /\ Kept(q, r)
  BY <1>1 DEF Bevent, Kept
<1>3. EventsOK(q, "idle") /\ SuspensionsOK(q)
  BY <1>1 DEF Sound, EventsOK, SuspensionsOK, Bevent
<1> QED
  BY <1>2, <1>3 DEF Sound

LEMMA ConnectedSound ==
    ASSUME NEW r, Sound(r, "idle")
    PROVE  LET q == [r EXCEPT !.active = FALSE, !.refused = FALSE, !.connecting = FALSE]
           IN  Sound(q, "connected") /\ Counted(q, r) /\ ~q.connecting
<1> DEFINE q == [r EXCEPT !.active = FALSE, !.refused = FALSE, !.connecting = FALSE]
<1>1. r \in Bevent
  BY DEF Sound
<1>2. q \in Bevent /\ Counted(q, r) /\ ~q.connecting
  BY <1>1 DEF Bevent, Counted
<1>3. EventsOK(q, "connected") /\ SuspensionsOK(q)
  BY <1>1 DEF Sound, EventsOK, SuspensionsOK, Bevent
<1> QED
  BY <1>2, <1>3 DEF Sound

LEMMA GoneSound ==
    ASSUME NEW r, Sound(r, "connected"), ~r.connecting
    PROVE  LET q == [del_event(r, Dirs) EXCEPT !.failed = TRUE]
           IN  Sound(q, "idle") /\ Counted(q, r)
<1> DEFINE a == del_event(r, Dirs)
<1> DEFINE q == [a EXCEPT !.failed = TRUE]
<1> SUFFICES Sound(q, "idle") /\ Counted(q, r)
  OBVIOUS
<1>1. r \in Bevent
  BY DEF Sound
<1>2. a \in Bevent /\ Alike(a, r) /\ a.susp = r.susp /\ a.pend = r.pend \ Dirs
  BY <1>1, DelEvents
<1> HIDE DEF a
<1>3. /\ q \in Bevent /\ Counted(q, a) /\ q.failed = TRUE /\ q.pend = a.pend
      /\ q.connecting = a.connecting /\ q.in = a.in /\ q.high = a.high /\ q.cfg = a.cfg
      /\ q.lim = a.lim /\ q.refill = a.refill
  BY <1>2 DEF Bevent, Counted
<1> HIDE DEF q
<1>4. SuspensionsOK(q) /\ Counted(q, r)
  BY <1>2, <1>3 DEF Sound, SuspensionsOK, Counted, Alike
<1>5. EventsOK(q, "idle")
  BY <1>2, <1>3 DEF EventsOK, Alike, Dirs
<1> QED
  BY <1>3, <1>4, <1>5 DEF Sound

-----------------------------------------------------------------------------
(* References.                                                              *)

LEMMA BitValue ==
    ASSUME NEW p
    PROVE  Bit(p) \in {0, 1} /\ (p => Bit(p) = 1) /\ (~p => Bit(p) = 0)
  BY DEF Bit

LEMMA IncrefSound ==
    ASSUME NEW r, NEW w, Sound(r, w)
    PROVE  /\ Sound(incref(r), w) /\ Same(incref(r), r)
           /\ incref(r).refcnt = r.refcnt + 1 /\ Held(incref(r)) = Held(r) + 1
           /\ incref(r).user = r.user /\ incref(r).queued = r.queued /\ incref(r).cbs = r.cbs
           /\ incref(r).refused = r.refused
<1> DEFINE v == r.refcnt + 1
<1> DEFINE q == [r EXCEPT !.refcnt = v]
<1>1. r \in Bevent /\ v \in Int /\ r.refcnt \in Int
  BY DEF Sound, Bevent
<1>2. incref(r) = q
  BY DEF incref
<1> HIDE DEF v
<1>3. /\ q \in Bevent /\ Same(q, r) /\ q.refcnt = v /\ q.user = r.user /\ q.queued = r.queued
      /\ q.cbs = r.cbs /\ q.refused = r.refused
  BY <1>1 DEF Bevent, Same
<1> HIDE DEF q
<1>4. Sound(q, w)
  BY <1>3, SameSound
<1>5. Bit(r.user) \in {0, 1} /\ Bit(r.queued) \in {0, 1}
  BY BitValue
<1>6. Held(q) = Held(r) + 1
  BY <1>1, <1>3, <1>5 DEF Held, v
<1> QED
  BY <1>2, <1>3, <1>4, <1>6 DEF v

LEMMA DeferredSound ==
    ASSUME NEW r, NEW w, Sound(r, w), NEW what \in {"connected", "read", "write", "end"}
    PROVE  /\ Sound(Deferred(r, what), w) /\ Same(Deferred(r, what), r)
           /\ Deferred(r, what).refcnt >= r.refcnt /\ Held(Deferred(r, what)) = Held(r)
<1> DEFINE v == r.pending \cup {what}
<1>1. r \in Bevent /\ v \in SUBSET {"connected", "read", "write", "end"} /\ r.refcnt \in Int
  BY DEF Sound, Bevent
<1>2. Bit(r.user) \in {0, 1} /\ Bit(r.queued) \in {0, 1}
  BY BitValue
<1>3. CASE r.queued
  <2> DEFINE q == [r EXCEPT !.pending = v]
  <2>1. Deferred(r, what) = q
    BY <1>3 DEF Deferred
  <2> HIDE DEF v
  <2>2. q \in Bevent /\ Same(q, r) /\ q.refcnt = r.refcnt /\ q.user = r.user /\ q.queued = r.queued
    BY <1>1 DEF Bevent, Same
  <2> HIDE DEF q
  <2>3. Sound(q, w) /\ Held(q) = Held(r) /\ q.refcnt >= r.refcnt
    BY <1>1, <2>2, SameSound DEF Held
  <2> QED
    BY <2>1, <2>2, <2>3
<1>4. CASE ~r.queued
  <2> DEFINE n == r.refcnt + 1
  <2> DEFINE q == [r EXCEPT !.refcnt = n, !.pending = v, !.queued = TRUE]
  <2>1. Deferred(r, what) = q
    BY <1>1, <1>4 DEF Deferred, incref, Bevent
  <2>2. n \in Int
    BY <1>1
  <2> HIDE DEF v, n
  <2>3. q \in Bevent /\ Same(q, r) /\ q.refcnt = n /\ q.user = r.user /\ q.queued = TRUE
    BY <1>1, <2>2 DEF Bevent, Same
  <2> HIDE DEF q
  <2>4. Bit(r.queued) = 0 /\ Bit(q.queued) = 1
    BY <1>4, <2>3, BitValue
  <2>5. Sound(q, w)
    BY <2>3, SameSound
  <2>6. Held(q) = Held(r) /\ q.refcnt >= r.refcnt
    BY <1>1, <1>2, <2>3, <2>4 DEF Held, n
  <2> QED
    BY <2>1, <2>3, <2>5, <2>6
<1> QED
  BY <1>3, <1>4

(* bufferevent_socket_connect_hostname and the end of the lookup            *)
LEMMA LookupSound ==
    ASSUME NEW r, Sound(r, "idle")
    PROVE  LET q == [incref(suspend(suspend(r, "W", "lookup"), "R", "lookup")) EXCEPT !.lookup = TRUE]
           IN  /\ Sound(q, "idle") /\ q.lookup = TRUE
               /\ q.refcnt = r.refcnt + 1 /\ Held(q) = Held(r) + 1
               /\ \A d \in Dirs : "group" \in q.susp[d] => "group" \in r.susp[d]
<1> DEFINE x == suspend(r, "W", "lookup")
<1> DEFINE y == suspend(x, "R", "lookup")
<1> DEFINE n == y.refcnt + 1
<1> DEFINE q == [y EXCEPT !.refcnt = n, !.lookup = TRUE]
<1>1. r \in Bevent /\ "W" \in Dirs /\ "R" \in Dirs /\ "lookup" \in Reasons /\ EventsOK(r, "idle")
  BY DEF Sound, Dirs, Reasons
<1>2. /\ x \in Bevent /\ Alike(x, r) /\ EventsOK(x, "idle")
      /\ x.susp = [r.susp EXCEPT !["W"] = @ \cup {"lookup"}]
  BY <1>1, Suspend
<1>3. x \in Bevent /\ EventsOK(x, "idle")
  BY <1>2
<1> HIDE DEF x
<1>4. /\ y \in Bevent /\ Alike(y, x) /\ EventsOK(y, "idle")
      /\ y.susp = [x.susp EXCEPT !["R"] = @ \cup {"lookup"}]
  BY <1>1, <1>3, Suspend
<1>5. incref(y) = [y EXCEPT !.refcnt = n]
  BY DEF incref
<1> HIDE DEF y
<1>6. [incref(y) EXCEPT !.lookup = TRUE] = q
  BY <1>4, <1>5 DEF Bevent
<1>7. n \in Int /\ r.refcnt \in Int
  BY <1>1, <1>4 DEF Bevent
<1>8. n = r.refcnt + 1
  BY <1>2, <1>4 DEF Alike
<1> HIDE DEF n
<1>9. /\ q \in Bevent /\ q.refcnt = n /\ q.lookup = TRUE /\ q.user = y.user /\ q.queued = y.queued
      /\ q.susp = y.susp /\ q.in = y.in /\ q.high = y.high /\ q.cfg = y.cfg
      /\ q.lim = y.lim /\ q.refill = y.refill
  BY <1>4, <1>7 DEF Bevent
<1>10. EventsOK(q, "idle")
  BY <1>4 DEF EventsOK, Bevent
<1> HIDE DEF q
<1>11. r.susp \in [Dirs -> SUBSET Reasons] /\ \A d \in Dirs : d = "R" \/ d = "W"
  BY <1>1 DEF Bevent, Dirs
<1>12. \A d \in Dirs : q.susp[d] = r.susp[d] \cup {"lookup"}
  BY <1>1, <1>2, <1>4, <1>9, <1>11
<1>13. SuspensionsOK(q)
  <2>1. /\ q.in = r.in /\ q.high = r.high /\ q.cfg = r.cfg /\ q.lim = r.lim
        /\ q.refill = r.refill /\ SuspensionsOK(r)
    BY <1>2, <1>4, <1>9 DEF Alike, Sound
  <2> QED
    BY <1>1, <1>12, <2>1, <1>9 DEF SuspensionsOK
<1>14. Bit(r.user) \in {0, 1} /\ Bit(r.queued) \in {0, 1} /\ q.user = r.user /\ q.queued = r.queued
  BY <1>2, <1>4, <1>9, BitValue DEF Alike
<1>15. Held(q) = Held(r) + 1
  BY <1>7, <1>8, <1>9, <1>14 DEF Held
<1>16. Sound(q, "idle") /\ \A d \in Dirs : "group" \in q.susp[d] => "group" \in r.susp[d]
  BY <1>9, <1>10, <1>12, <1>13 DEF Sound
<1> QED
  BY <1>6, <1>8, <1>9, <1>15, <1>16 DEF y, x

LEMMA LookupDoneSound ==
    ASSUME NEW r, Sound(r, "idle")
    PROVE  LET q == [unsuspend(unsuspend(r, "W", "lookup"), "R", "lookup") EXCEPT !.lookup = FALSE]
           IN  /\ Sound(q, "idle") /\ q.lookup = FALSE
               /\ q.refcnt = r.refcnt /\ Held(q) = Held(r)
               /\ \A d \in Dirs : "group" \in q.susp[d] => "group" \in r.susp[d]
<1> DEFINE x == unsuspend(r, "W", "lookup")
<1> DEFINE y == unsuspend(x, "R", "lookup")
<1> DEFINE q == [y EXCEPT !.lookup = FALSE]
<1>1. r \in Bevent /\ "W" \in Dirs /\ "R" \in Dirs /\ "lookup" \in Reasons /\ EventsOK(r, "idle")
  BY DEF Sound, Dirs, Reasons
<1>2. /\ x \in Bevent /\ Alike(x, r) /\ EventsOK(x, "idle")
      /\ x.susp = [r.susp EXCEPT !["W"] = @ \ {"lookup"}]
  BY <1>1, Unsuspend
<1>3. x \in Bevent /\ EventsOK(x, "idle")
  BY <1>2
<1> HIDE DEF x
<1>4. /\ y \in Bevent /\ Alike(y, x) /\ EventsOK(y, "idle")
      /\ y.susp = [x.susp EXCEPT !["R"] = @ \ {"lookup"}]
  BY <1>1, <1>3, Unsuspend
<1> HIDE DEF y
<1>5. /\ q \in Bevent /\ q.refcnt = y.refcnt /\ q.lookup = FALSE /\ q.user = y.user
      /\ q.queued = y.queued /\ q.susp = y.susp /\ q.in = y.in /\ q.high = y.high /\ q.cfg = y.cfg
      /\ q.lim = y.lim /\ q.refill = y.refill
  BY <1>4 DEF Bevent
<1>6. EventsOK(q, "idle")
  BY <1>4 DEF EventsOK, Bevent
<1> HIDE DEF q
<1>7. r.susp \in [Dirs -> SUBSET Reasons] /\ \A d \in Dirs : d = "R" \/ d = "W"
  BY <1>1 DEF Bevent, Dirs
<1>8. \A d \in Dirs : q.susp[d] = r.susp[d] \ {"lookup"}
  BY <1>1, <1>2, <1>4, <1>5, <1>7
<1>9. SuspensionsOK(q)
  <2>1. /\ q.in = r.in /\ q.high = r.high /\ q.cfg = r.cfg /\ q.lim = r.lim
        /\ q.refill = r.refill /\ SuspensionsOK(r)
    BY <1>2, <1>4, <1>5 DEF Alike, Sound
  <2> QED
    BY <1>1, <1>8, <2>1, <1>5 DEF SuspensionsOK
<1>10. Held(q) = Held(r) /\ q.refcnt = r.refcnt
  BY <1>2, <1>4, <1>5 DEF Held, Alike
<1>11. Sound(q, "idle") /\ \A d \in Dirs : "group" \in q.susp[d] => "group" \in r.susp[d]
  BY <1>5, <1>6, <1>8, <1>9 DEF Sound
<1> QED
  BY <1>5, <1>10, <1>11 DEF q, y, x

-----------------------------------------------------------------------------
(* A handler at work on b: k counts the references that are neither the     *)
(* user's nor a queued callback's, l says whether a lookup is in flight,    *)
(* and w is "plain" or "connected" once nothing is connecting.              *)

Memory == [bev : [Bevs -> Bevent], grp : Group]
Good(r, b, g, k, s) == BevOK(r, b, g) /\ Held(r) = Holders(r.lookup, k, s) /\ JoinOK(r, b, g, k)
Rest(m, b) == \A c \in Bevs : c # b => Good(m.bev[c], c, m.grp, lock[c], stage[c])
Mid(m, b, w, k, l) ==
    /\ m \in Memory /\ Sound(m.bev[b], w) /\ GroupOK(m.bev[b], b, m.grp)
    /\ m.bev[b].refcnt > 0 /\ Held(m.bev[b]) = k /\ m.bev[b].lookup = l
    /\ w # "idle" => ~m.bev[b].connecting
    /\ Rest(m, b)

LEMMA OnValue ==
    ASSUME NEW m \in Memory, NEW b \in Bevs, NEW q \in Bevent
    PROVE  /\ On(m, b, q) \in Memory /\ On(m, b, q).grp = m.grp /\ On(m, b, q).bev[b] = q
           /\ \A c \in Bevs : c # b => On(m, b, q).bev[c] = m.bev[c]
<1> DEFINE f == [m.bev EXCEPT ![b] = q]
<1>1. f \in [Bevs -> Bevent] /\ f[b] = q /\ \A c \in Bevs : c # b => f[c] = m.bev[c]
  BY DEF Memory
<1>2. On(m, b, q) = [m EXCEPT !.bev = f]
  BY DEF On
<1> HIDE DEF f
<1>3. [m EXCEPT !.bev = f] \in Memory /\ [m EXCEPT !.bev = f].bev = f /\ [m EXCEPT !.bev = f].grp = m.grp
  BY <1>1 DEF Memory
<1> QED
  BY <1>1, <1>2, <1>3

LEMMA OnMid ==
    ASSUME NEW m, NEW b \in Bevs, NEW w0, NEW k0, NEW l0, Mid(m, b, w0, k0, l0),
           NEW q, NEW w, NEW k, NEW l, Sound(q, w), q.refcnt > 0, Held(q) = k, q.lookup = l,
           w # "idle" => ~q.connecting,
           \A d \in Dirs : "group" \in q.susp[d] => "group" \in m.bev[b].susp[d]
    PROVE  Mid(On(m, b, q), b, w, k, l) /\ On(m, b, q).bev[b] = q /\ On(m, b, q).grp = m.grp
<1> DEFINE n == On(m, b, q)
<1>1. m \in Memory /\ q \in Bevent
  BY DEF Mid, Sound
<1>2. n \in Memory /\ n.grp = m.grp /\ n.bev[b] = q /\ \A c \in Bevs : c # b => n.bev[c] = m.bev[c]
  BY <1>1, OnValue
<1> HIDE DEF n
<1>3. Rest(n, b)
  BY <1>2 DEF Mid, Rest
<1>4. GroupOK(n.bev[b], b, n.grp)
  BY <1>2 DEF Mid, GroupOK
<1> QED
  BY <1>2, <1>3, <1>4 DEF Mid, n

LEMMA KeptMid ==
    ASSUME NEW m, NEW b \in Bevs, NEW w, NEW k, NEW l, Mid(m, b, w, k, l),
           NEW q, Sound(q, w), Kept(q, m.bev[b])
    PROVE  Mid(On(m, b, q), b, w, k, l) /\ On(m, b, q).bev[b] = q /\ On(m, b, q).grp = m.grp
<1>1. /\ q.refcnt > 0 /\ Held(q) = k /\ q.lookup = l /\ (w # "idle" => ~q.connecting)
      /\ \A d \in Dirs : "group" \in q.susp[d] => "group" \in m.bev[b].susp[d]
  BY DEF Mid, Kept, Held
<1> QED
  BY <1>1, OnMid

LEMMA SameMid ==
    ASSUME NEW m, NEW b \in Bevs, NEW w, NEW k, NEW l, Mid(m, b, w, k, l),
           NEW q \in Bevent, Same(q, m.bev[b]), q.refcnt > 0
    PROVE  Mid(On(m, b, q), b, w, Held(q), l) /\ On(m, b, q).bev[b] = q /\ On(m, b, q).grp = m.grp
<1>1. Sound(q, w)
  BY SameSound DEF Mid
<1>2. /\ q.lookup = l /\ (w # "idle" => ~q.connecting)
      /\ \A d \in Dirs : "group" \in q.susp[d] => "group" \in m.bev[b].susp[d]
  BY DEF Mid, Same
<1> DEFINE h == Held(q)
<1>3. h = Held(q)
  OBVIOUS
<1> HIDE DEF h
<1>4. Mid(On(m, b, q), b, w, h, l) /\ On(m, b, q).bev[b] = q /\ On(m, b, q).grp = m.grp
  BY <1>1, <1>2, <1>3, OnMid
<1> QED
  BY <1>3, <1>4

(* Mid bounds the references from below.                                    *)
LEMMA MidCount ==
    ASSUME NEW m, NEW b \in Bevs, NEW w, NEW k \in Int, NEW l, Mid(m, b, w, k, l)
    PROVE  /\ m \in Memory /\ m.bev[b] \in Bevent /\ m.bev[b].refcnt \in Int
           /\ m.bev[b].refcnt = k + Bit(m.bev[b].user) + Bit(m.bev[b].queued)
           /\ Bit(m.bev[b].user) \in {0, 1} /\ Bit(m.bev[b].queued) \in {0, 1}
<1>1. m \in Memory /\ m.bev[b] \in Bevent /\ m.bev[b].refcnt \in Int
  BY DEF Mid, Sound, Bevent
<1>2. Bit(m.bev[b].user) \in {0, 1} /\ Bit(m.bev[b].queued) \in {0, 1}
  BY BitValue
<1>3. Held(m.bev[b]) = k
  BY DEF Mid
<1> QED
  BY <1>1, <1>2, <1>3 DEF Held

LEMMA IncrefMid ==
    ASSUME NEW m, NEW b \in Bevs, NEW w, NEW k \in Int, NEW l, Mid(m, b, w, k, l)
    PROVE  LET n == On(m, b, incref(m.bev[b]))
           IN  /\ Mid(n, b, w, k + 1, l) /\ n.bev[b] = incref(m.bev[b]) /\ n.grp = m.grp
<1> DEFINE r == m.bev[b]
<1> DEFINE q == incref(r)
<1>1. Sound(r, w) /\ r.refcnt \in Int /\ r.refcnt > 0 /\ Held(r) = k
  BY MidCount DEF Mid
<1>2. Sound(q, w) /\ Same(q, r) /\ q.refcnt = r.refcnt + 1 /\ Held(q) = Held(r) + 1
  BY <1>1, IncrefSound
<1> HIDE DEF q
<1>3. q.refcnt > 0 /\ q \in Bevent
  BY <1>1, <1>2 DEF Sound
<1>4. Mid(On(m, b, q), b, w, Held(q), l) /\ On(m, b, q).bev[b] = q /\ On(m, b, q).grp = m.grp
  BY <1>2, <1>3, SameMid
<1>5. Held(q) = k + 1
  BY <1>1, <1>2
<1> QED
  BY <1>4, <1>5 DEF q

(* A reference that is not the last is let go.                              *)
LEMMA DecrefMid ==
    ASSUME NEW m, NEW b \in Bevs, NEW w, NEW k \in Int, NEW l, Mid(m, b, w, k, l),
           m.bev[b].refcnt > 1
    PROVE  Mid(decref(m, b), b, w, k - 1, l)
<1> DEFINE r == m.bev[b]
<1> DEFINE v == r.refcnt - 1
<1> DEFINE q == [r EXCEPT !.refcnt = v]
<1>1. r \in Bevent /\ r.refcnt \in Int /\ r.refcnt > 1 /\ v \in Int /\ v > 0 /\ Held(r) = k
  BY MidCount DEF Mid
<1>2. Bit(r.user) \in {0, 1} /\ Bit(r.queued) \in {0, 1}
  BY BitValue
<1>3. decref(m, b) = On(m, b, q)
  BY <1>1 DEF decref
<1> HIDE DEF v
<1>4. q \in Bevent /\ Same(q, r) /\ q.refcnt = v /\ q.user = r.user /\ q.queued = r.queued
  BY <1>1 DEF Bevent, Same
<1> HIDE DEF q
<1>5. Mid(On(m, b, q), b, w, Held(q), l)
  BY <1>1, <1>4, SameMid
<1>6. Held(q) = k - 1
  <2>1. r.refcnt \in Int /\ Bit(r.user) \in {0, 1} /\ Bit(r.queued) \in {0, 1}
    BY <1>1, <1>2
  <2>2. r.refcnt - Bit(r.user) - Bit(r.queued) = k
    BY <1>1 DEF Held
  <2>3. Held(q) = (r.refcnt - 1) - Bit(r.user) - Bit(r.queued)
    BY <1>4 DEF Held, v
  <2>4. ASSUME NEW x \in Int, NEW y \in {0, 1}, NEW z \in {0, 1}, x - y - z = k
        PROVE  (x - 1) - y - z = k - 1
    BY <2>4
  <2> QED
    BY <2>1, <2>2, <2>3, <2>4
<1> QED
  BY <1>3, <1>5, <1>6

(* The user frees b while somebody holds a reference.                       *)
LEMMA FreeMid ==
    ASSUME NEW m, NEW b \in Bevs, NEW w, NEW k \in Int, NEW l, Mid(m, b, w, k, l), k >= 1,
           m.bev[b].user
    PROVE  Mid(bufferevent_free(m, b), b, w, k, l)
<1> DEFINE r == m.bev[b]
<1> DEFINE q == [r EXCEPT !.cbs = FALSE, !.user = FALSE]
<1> DEFINE n == On(m, b, q)
<1>1. /\ r \in Bevent /\ r.refcnt \in Int /\ r.refcnt = k + Bit(r.user) + Bit(r.queued)
      /\ Bit(r.queued) \in {0, 1} /\ Bit(r.user) = 1
  BY MidCount, BitValue
<1>2. bufferevent_free(m, b) = decref(n, b)
  BY DEF bufferevent_free
<1>3. q \in Bevent /\ Same(q, r) /\ q.refcnt = r.refcnt /\ q.user = FALSE /\ q.queued = r.queued
  BY <1>1 DEF Bevent, Same
<1> HIDE DEF q
<1>4. r.refcnt = k + 1 + Bit(r.queued) /\ Bit(r.queued) \in {0, 1}
  BY <1>1
<1>5. Bit(q.user) = 0 /\ q.refcnt = r.refcnt /\ q.queued = r.queued
  BY <1>3, BitValue
<1>6. Held(q) = k + 1 /\ q.refcnt > 1
  <2>1. Held(q) = r.refcnt - 0 - Bit(r.queued)
    BY <1>5 DEF Held
  <2> QED
    BY <1>4, <1>5, <2>1
<1>7. Mid(n, b, w, k + 1, l) /\ n.bev[b] = q
  <2>1. q \in Bevent /\ Same(q, m.bev[b]) /\ q.refcnt > 0
    BY <1>3, <1>4, <1>5
  <2>2. Mid(n, b, w, Held(q), l) /\ n.bev[b] = q
    BY <2>1, SameMid
  <2> QED
    BY <1>6, <2>2
<1> HIDE DEF n
<1> DEFINE h == k + 1
<1>8. h \in Int /\ h - 1 = k
  OBVIOUS
<1>9. Mid(n, b, w, h, l)
  BY <1>7
<1> HIDE DEF h
<1>10. Mid(decref(n, b), b, w, h - 1, l)
  BY <1>6, <1>7, <1>8, <1>9, DecrefMid
<1> QED
  BY <1>2, <1>8, <1>10

LEMMA ActMid ==
    ASSUME NEW m, NEW b \in Bevs, NEW w, NEW k \in Int, NEW l, Mid(m, b, w, k, l), k >= 1,
           NEW act
    PROVE  Mid(Act(m, b, act), b, w, k, l)
<1> DEFINE r == m.bev[b]
<1>1. Sound(r, w)
  BY DEF Mid
<1>2. CASE act = "free" /\ r.user
  <2>1. Act(m, b, act) = bufferevent_free(m, b)
    BY <1>2 DEF Act
  <2> QED
    BY <1>2, <2>1, FreeMid
<1>3. CASE act = "drain"
  <2>1. Act(m, b, act) = On(m, b, Drain(r))
    BY <1>3 DEF Act
  <2>2. Sound(Drain(r), w) /\ Kept(Drain(r), r)
    BY <1>1, DrainSound
  <2> QED
    BY <2>1, <2>2, KeptMid
<1>4. CASE act = "write" /\ r.out < MaxLen
  <2>1. Act(m, b, act) = On(m, b, Write(r))
    BY <1>4 DEF Act
  <2>2. Sound(Write(r), w) /\ Kept(Write(r), r)
    BY <1>1, WriteSound
  <2> QED
    BY <2>1, <2>2, KeptMid
<1>5. CASE act = "disable"
  <2>1. Act(m, b, act) = On(m, b, disable(r, Dirs))
    BY <1>5 DEF Act
  <2>2. Sound(disable(r, Dirs), w) /\ Kept(disable(r, Dirs), r)
    BY <1>1, DisableSound
  <2> QED
    BY <2>1, <2>2, KeptMid
<1>6. CASE /\ ~(act = "free" /\ r.user) /\ act # "drain" /\ ~(act = "write" /\ r.out < MaxLen)
           /\ act # "disable"
  <2>1. Act(m, b, act) = m
    BY <1>6 DEF Act
  <2> QED
    BY <2>1
<1> QED
  BY <1>2, <1>3, <1>4, <1>5, <1>6

(* A callback keeps the bufferevent whole, whatever the user does in it, as *)
(* long as its caller holds a reference.                                    *)
LEMMA RunCbMid ==
    ASSUME NEW m, NEW b \in Bevs, NEW w, NEW k \in Int, NEW l, Mid(m, b, w, k, l), k >= 1,
           NEW what \in {"connected", "read", "write", "end"}, NEW act
    PROVE  Mid(run_cb(m, b, what, act), b, w, k, l)
<1> DEFINE r == m.bev[b]
<1>1. Sound(r, w) /\ r.refcnt \in Int /\ r.refcnt > 0 /\ Held(r) = k
  BY MidCount DEF Mid
<1>2. Mid(Act(m, b, act), b, w, k, l)
  BY ActMid
<1>3. Mid(On(m, b, Deferred(r, what)), b, w, k, l)
  <2> DEFINE q == Deferred(r, what)
  <2>1. Sound(q, w) /\ Same(q, r) /\ q.refcnt >= r.refcnt /\ Held(q) = Held(r)
    BY <1>1, DeferredSound
  <2> HIDE DEF q
  <2>2. q \in Bevent /\ q.refcnt \in Int
    BY <2>1 DEF Sound, Bevent
  <2>3. q.refcnt > 0
    BY <1>1, <2>1, <2>2
  <2>4. Mid(On(m, b, q), b, w, Held(q), l)
    BY <2>1, <2>2, <2>3, SameMid
  <2> QED
    BY <1>1, <2>1, <2>4 DEF q
<1>4. \/ run_cb(m, b, what, act) = m
      \/ run_cb(m, b, what, act) = Act(m, b, act)
      \/ run_cb(m, b, what, act) = On(m, b, Deferred(r, what))
  BY DEF run_cb
<1> QED
  BY <1>2, <1>3, <1>4

-----------------------------------------------------------------------------
(* What the group does to its members: each stays sound, knows of no        *)
(* suspension that the group does not know of, and keeps its references.    *)

Known(g) == g.susp \cup g.pending_unsuspend
Carries(n, m) ==
    /\ n \in Memory /\ n.grp.members = m.grp.members
    /\ \A c \in Bevs : Alike(n.bev[c], m.bev[c]) /\ (c \notin m.grp.members => n.bev[c] = m.bev[c])
    /\ \A c \in Bevs : \A w : Sound(m.bev[c], w) /\ GroupOK(m.bev[c], c, m.grp)
                            => Sound(n.bev[c], w) /\ GroupOK(n.bev[c], c, n.grp)
    /\ \A c \in Bevs : lock[c] = "adding" /\ c \in m.grp.members /\ m.bev[c].join \subseteq Known(m.grp)
                         => m.bev[c].join \subseteq Known(n.grp)

LEMMA CarriesGood ==
    ASSUME NEW m \in Memory, NEW n, Carries(n, m), NEW c \in Bevs,
           Good(m.bev[c], c, m.grp, lock[c], stage[c])
    PROVE  Good(n.bev[c], c, n.grp, lock[c], stage[c])
<1> DEFINE r == m.bev[c]
<1> DEFINE q == n.bev[c]
<1>1. q \in Bevent /\ Alike(q, r) /\ n.grp.members = m.grp.members
  BY DEF Carries, Memory
<1>2. r \in Bevent /\ r.refcnt \in Int
  BY DEF Memory, Bevent
<1>3. Held(q) = Holders(q.lookup, lock[c], stage[c])
  BY <1>1 DEF Good, Held, Alike
<1>4. JoinOK(q, c, n.grp, lock[c])
  BY <1>1 DEF Good, JoinOK, Carries, Known, Alike
<1>5. CASE r.refcnt > 0
  <2>1. Sound(r, "idle") /\ GroupOK(r, c, m.grp)
    BY <1>2, <1>5 DEF Good, BevOK, Sound
  <2>2. Sound(q, "idle") /\ GroupOK(q, c, n.grp)
    BY <2>1 DEF Carries
  <2>3. q.refcnt = r.refcnt
    BY <1>1 DEF Alike
  <2>4. BevOK(q, c, n.grp)
    BY <1>2, <1>5, <2>2, <2>3 DEF BevOK, Sound
  <2> QED
    BY <1>3, <1>4, <2>4 DEF Good
<1>6. CASE ~(r.refcnt > 0)
  <2>1. DeadOK(r, c, m.grp)
    BY <1>2, <1>6 DEF Good, BevOK
  <2>2. q = r /\ DeadOK(q, c, n.grp)
    BY <1>1, <2>1 DEF DeadOK, Carries
  <2>3. BevOK(q, c, n.grp)
    BY <1>6, <2>2 DEF BevOK
  <2> QED
    BY <1>3, <1>4, <2>3 DEF Good
<1> QED
  BY <1>5, <1>6

LEMMA CarriesMid ==
    ASSUME NEW m, NEW n, Carries(n, m), NEW b \in Bevs, NEW w, NEW k, NEW l, Mid(m, b, w, k, l)
    PROVE  Mid(n, b, w, k, l)
<1>1. /\ Sound(n.bev[b], w) /\ GroupOK(n.bev[b], b, n.grp) /\ Alike(n.bev[b], m.bev[b])
      /\ m \in Memory /\ n \in Memory
  BY DEF Carries, Mid
<1>2. Rest(n, b)
  BY <1>1, CarriesGood DEF Mid, Rest
<1>3. /\ n.bev[b].refcnt > 0 /\ Held(n.bev[b]) = k /\ n.bev[b].lookup = l
      /\ w # "idle" => ~n.bev[b].connecting
  BY <1>1 DEF Mid, Alike, Held
<1> QED
  BY <1>1, <1>2, <1>3 DEF Mid

(* Another number of tokens in the bucket of the group.                     *)
LEMMA GroupLimCarries ==
    ASSUME NEW m \in Memory, NEW g \in Group, g.members = m.grp.members, g.susp = m.grp.susp,
           g.pending_unsuspend = m.grp.pending_unsuspend
    PROVE  Carries([m EXCEPT !.grp = g], m) /\ [m EXCEPT !.grp = g].grp = g
<1> DEFINE n == [m EXCEPT !.grp = g]
<1>1. n \in Memory /\ n.bev = m.bev /\ n.grp = g
  BY DEF Memory
<1> HIDE DEF n
<1>2. \A c \in Bevs : Alike(n.bev[c], m.bev[c])
  BY <1>1 DEF Alike
<1>3. \A c \in Bevs : GroupOK(m.bev[c], c, m.grp) => GroupOK(n.bev[c], c, n.grp)
  BY <1>1 DEF GroupOK
<1> QED
  BY <1>1, <1>2, <1>3 DEF Carries, Known, n

LEMMA GroupSuspendCarries ==
    ASSUME NEW m \in Memory, NEW held, NEW d \in Dirs
    PROVE  Carries(group_suspend(m, held, d), m)
<1> DEFINE s == m.grp.susp \cup {d}
<1> DEFINE p == m.grp.pending_unsuspend \ {d}
<1> DEFINE g == [m.grp EXCEPT !.susp = s, !.pending_unsuspend = p]
<1> DEFINE L == Lockable(m, held)
<1> DEFINE f == [c \in Bevs |-> IF c \in L THEN suspend(m.bev[c], d, "group") ELSE m.bev[c]]
<1> DEFINE n == [grp |-> g, bev |-> f]
<1>1. group_suspend(m, held, d) = n
  BY DEF group_suspend
<1>2. m.grp \in Group /\ s \in SUBSET Dirs /\ p \in SUBSET Dirs /\ \A c \in Bevs : m.bev[c] \in Bevent
  BY DEF Memory, Group
<1>3. L \subseteq m.grp.members /\ "group" \in Reasons
  BY DEF Lockable, Reasons
<1>4. g \in Group /\ g.members = m.grp.members /\ g.susp = s /\ g.pending_unsuspend = p
  <2> HIDE DEF s, p
  <2> QED
    BY <1>2 DEF Group
<1>5. Known(g) = Known(m.grp) \cup {d}
  BY <1>4 DEF Known
<1> HIDE DEF g, L
<1>6. \A c \in Bevs : f[c] \in Bevent /\ Alike(f[c], m.bev[c]) /\ (c \notin L => f[c] = m.bev[c])
  <2>1. \A c \in Bevs : Alike(m.bev[c], m.bev[c])
    BY DEF Alike
  <2> QED
    BY <1>2, <1>3, <2>1, Suspend
<1>7. n \in Memory /\ n.grp = g /\ n.bev = f
  <2>1. f \in [Bevs -> Bevent]
    BY <1>6
  <2> HIDE DEF f
  <2> QED
    BY <1>4, <2>1 DEF Memory
<1>8. ASSUME NEW c \in Bevs, NEW w, Sound(m.bev[c], w), GroupOK(m.bev[c], c, m.grp)
      PROVE  Sound(f[c], w) /\ GroupOK(f[c], c, g)
  <2>1. CASE c \in L
    <3> DEFINE q == suspend(m.bev[c], d, "group")
    <3>1. f[c] = q
      BY <2>1
    <3>2. Sound(q, w) /\ q.susp = [m.bev[c].susp EXCEPT ![d] = @ \cup {"group"}]
      BY <1>3, <1>8, SuspendSound
    <3> HIDE DEF q, f
    <3>3. m.bev[c].susp \in [Dirs -> SUBSET Reasons]
      BY <1>2 DEF Bevent
    <3>4. \A e \in Dirs : "group" \in q.susp[e] => e = d \/ "group" \in m.bev[c].susp[e]
      BY <3>2, <3>3
    <3>5. c \in g.members
      BY <1>3, <1>4, <2>1
    <3>6. \A e \in Dirs : "group" \in q.susp[e] => e \in Known(g)
      BY <1>5, <1>8, <3>4 DEF GroupOK, Known
    <3>7. GroupOK(q, c, g)
      BY <3>5, <3>6 DEF GroupOK, Known
    <3> QED
      BY <3>1, <3>2, <3>7
  <2>2. CASE c \notin L
    <3>1. f[c] = m.bev[c]
      BY <2>2
    <3>2. \A e \in Dirs : "group" \in m.bev[c].susp[e] => e \in Known(g)
      BY <1>5, <1>8 DEF GroupOK, Known
    <3>3. GroupOK(m.bev[c], c, g)
      BY <1>4, <1>8, <3>2 DEF GroupOK, Known
    <3> QED
      BY <1>8, <3>1, <3>3
  <2> QED
    BY <2>1, <2>2
<1> HIDE DEF f
<1>9. \A c \in Bevs : c \notin m.grp.members => f[c] = m.bev[c]
  BY <1>3, <1>6
<1> HIDE DEF n
<1> QED
  BY <1>1, <1>4, <1>5, <1>6, <1>7, <1>8, <1>9 DEF Carries

(* Who cannot be locked is left to the next refill.                         *)
LEMMA GroupUnsuspendCarries ==
    ASSUME NEW m \in Memory, NEW held, \A c \in held : lock[c] # "adding", NEW d \in Dirs
    PROVE  Carries(group_unsuspend(m, held, d), m)
<1> DEFINE s == m.grp.susp \ {d}
<1> DEFINE L == Lockable(m, held)
<1> DEFINE p == IF L = m.grp.members THEN m.grp.pending_unsuspend \ {d}
                                     ELSE m.grp.pending_unsuspend \cup {d}
<1> DEFINE g == [m.grp EXCEPT !.susp = s, !.pending_unsuspend = p]
<1> DEFINE f == [c \in Bevs |-> IF c \in L THEN unsuspend(m.bev[c], d, "group") ELSE m.bev[c]]
<1> DEFINE n == [grp |-> g, bev |-> f]
<1>1. group_unsuspend(m, held, d) = n
  BY DEF group_unsuspend
<1>2. m.grp \in Group /\ s \in SUBSET Dirs /\ p \in SUBSET Dirs /\ \A c \in Bevs : m.bev[c] \in Bevent
  BY DEF Memory, Group
<1>3. L \subseteq m.grp.members /\ "group" \in Reasons /\ \A c \in L : lock[c] # "adding"
  BY DEF Lockable, Reasons
<1>4. g \in Group /\ g.members = m.grp.members /\ g.susp = s /\ g.pending_unsuspend = p
  <2> HIDE DEF s, p
  <2> QED
    BY <1>2 DEF Group
<1>5. /\ \A e \in Known(m.grp) : e # d => e \in Known(g)
      /\ L # m.grp.members => d \in Known(g)
  BY <1>4 DEF Known
<1> HIDE DEF g, L
<1>6. \A c \in Bevs : f[c] \in Bevent /\ Alike(f[c], m.bev[c]) /\ (c \notin L => f[c] = m.bev[c])
  <2>1. \A c \in Bevs : Alike(m.bev[c], m.bev[c])
    BY DEF Alike
  <2> QED
    BY <1>2, <1>3, <2>1, Unsuspend
<1>7. n \in Memory /\ n.grp = g /\ n.bev = f
  <2>1. f \in [Bevs -> Bevent]
    BY <1>6
  <2> HIDE DEF f
  <2> QED
    BY <1>4, <2>1 DEF Memory
<1>8. ASSUME NEW c \in Bevs, NEW w, Sound(m.bev[c], w), GroupOK(m.bev[c], c, m.grp)
      PROVE  Sound(f[c], w) /\ GroupOK(f[c], c, g)
  <2>1. CASE c \in L
    <3> DEFINE q == unsuspend(m.bev[c], d, "group")
    <3>1. f[c] = q
      BY <2>1
    <3>2. Sound(q, w) /\ q.susp = [m.bev[c].susp EXCEPT ![d] = @ \ {"group"}]
      BY <1>3, <1>8, UnsuspendSound
    <3> HIDE DEF q, f
    <3>3. m.bev[c].susp \in [Dirs -> SUBSET Reasons]
      BY <1>2 DEF Bevent
    <3>4. \A e \in Dirs : "group" \in q.susp[e] => e # d /\ "group" \in m.bev[c].susp[e]
      BY <3>2, <3>3
    <3>5. c \in g.members
      BY <1>3, <1>4, <2>1
    <3>6. \A e \in Dirs : "group" \in q.susp[e] => e \in Known(g)
      BY <1>5, <1>8, <3>4 DEF GroupOK, Known
    <3>7. GroupOK(q, c, g)
      BY <3>5, <3>6 DEF GroupOK, Known
    <3> QED
      BY <3>1, <3>2, <3>7
  <2>2. CASE c \notin L
    <3>1. f[c] = m.bev[c]
      BY <2>2
    <3> HIDE DEF f
    <3>2. ASSUME NEW e \in Dirs, "group" \in m.bev[c].susp[e] PROVE c \in g.members /\ e \in Known(g)
      <4>1. c \in m.grp.members /\ e \in Known(m.grp)
        BY <1>8, <3>2 DEF GroupOK, Known
      <4>2. L # m.grp.members
        BY <2>2, <4>1
      <4> QED
        BY <1>4, <1>5, <4>1, <4>2
    <3>3. GroupOK(m.bev[c], c, g)
      BY <3>2 DEF GroupOK, Known
    <3> QED
      BY <1>8, <3>1, <3>3
  <2> QED
    BY <2>1, <2>2
<1> HIDE DEF f
<1>9. \A c \in Bevs : c \notin m.grp.members => f[c] = m.bev[c]
  BY <1>3, <1>6
<1>10. ASSUME NEW c \in Bevs, lock[c] = "adding", c \in m.grp.members, m.bev[c].join \subseteq Known(m.grp)
       PROVE  m.bev[c].join \subseteq Known(g)
  <2>1. L # m.grp.members
    BY <1>3, <1>10
  <2> QED
    BY <1>5, <1>10, <2>1
<1> HIDE DEF n
<1> QED
  BY <1>1, <1>4, <1>6, <1>7, <1>8, <1>9, <1>10 DEF Carries

-----------------------------------------------------------------------------
(* The handlers of the loop, step by step.                                  *)

LEMMA MaxMid ==
    ASSUME NEW m, NEW b \in Bevs, NEW w, NEW k, NEW l, Mid(m, b, w, k, l), NEW d \in Dirs
    PROVE  Mid(get_rlim_max(m, b, d).m, b, w, k, l)
<1> DEFINE r0 == m.bev[b]
<1> DEFINE r == IF r0.cfg = 0 THEN r0 ELSE update_buckets(r0)
<1> DEFINE out == b \in m.grp.members /\ d \in m.grp.susp
<1> DEFINE q == IF out THEN suspend(r, d, "group") ELSE r
<1>1. get_rlim_max(m, b, d).m = On(m, b, q)
  BY DEF get_rlim_max
<1>2. Sound(r0, w) /\ GroupOK(r0, b, m.grp) /\ Kept(r0, r0) /\ "group" \in Reasons /\ m \in Memory
  BY DEF Mid, Kept, Reasons
<1>3. Sound(r, w) /\ Kept(r, r0)
  BY <1>2, UpdateSound
<1> HIDE DEF r
<1>4. r \in Bevent /\ r.susp \in [Dirs -> SUBSET Reasons] /\ Alike(r, r)
  BY <1>3 DEF Sound, Bevent, Alike
<1>5. /\ Sound(q, w) /\ Alike(q, r)
      /\ \A e \in Dirs : "group" \in q.susp[e] => "group" \in r.susp[e] \/ (out /\ e = d)
  <2>1. CASE out
    <3>1. q = suspend(r, d, "group")
      BY <2>1
    <3> HIDE DEF q, out
    <3>2. Sound(q, w) /\ Alike(q, r) /\ q.susp = [r.susp EXCEPT ![d] = @ \cup {"group"}]
      BY <1>2, <1>3, <3>1, SuspendSound
    <3> QED
      BY <1>4, <2>1, <3>2
  <2>2. CASE ~out
    <3>1. q = r
      BY <2>2
    <3> QED
      BY <1>3, <1>4, <3>1
  <2> QED
    BY <2>1, <2>2
<1> HIDE DEF q
<1>6. GroupOK(q, b, m.grp)
  BY <1>2, <1>3, <1>5 DEF GroupOK, Kept
<1>7. /\ q.refcnt > 0 /\ Held(q) = k /\ q.lookup = l /\ (w # "idle" => ~q.connecting)
  BY <1>3, <1>5 DEF Mid, Kept, Alike, Held
<1> DEFINE n == On(m, b, q)
<1>8. n \in Memory /\ n.grp = m.grp /\ n.bev[b] = q /\ \A c \in Bevs : c # b => n.bev[c] = m.bev[c]
  BY <1>2, <1>5, OnValue DEF Sound
<1> HIDE DEF n
<1>9. Rest(n, b)
  BY <1>8 DEF Mid, Rest
<1>10. Mid(n, b, w, k, l)
  BY <1>5, <1>6, <1>7, <1>8, <1>9 DEF Mid
<1> QED
  BY <1>1, <1>10 DEF n

(* What a member may read or write is never nothing, unless it is           *)
(* suspended: an empty bucket suspends, and the share has a minimum.        *)
LEMMA MaxPositive ==
    ASSUME NEW m, NEW b \in Bevs, NEW w, NEW k, NEW l, Mid(m, b, w, k, l), NEW d \in Dirs,
           get_rlim_max(m, b, d).m.bev[b].susp[d] = {}, MinShare > 0
    PROVE  get_rlim_max(m, b, d).max \in Int /\ get_rlim_max(m, b, d).max > 0
<1> DEFINE r0 == m.bev[b]
<1> DEFINE r == IF r0.cfg = 0 THEN r0 ELSE update_buckets(r0)
<1> DEFINE own == IF r.cfg = 0 THEN MAX_EVER ELSE r.lim[d]
<1> DEFINE member == b \in m.grp.members
<1> DEFINE out == member /\ d \in m.grp.susp
<1> DEFINE even == m.grp.lim[d] \div Cardinality(m.grp.members)
<1> DEFINE share == IF out THEN 0 ELSE IF even < MinShare THEN MinShare ELSE even
<1> DEFINE max == IF member /\ share < own THEN share ELSE own
<1> DEFINE q == IF out THEN suspend(r, d, "group") ELSE r
<1>1. /\ get_rlim_max(m, b, d).max = IF max < 0 THEN 0 ELSE max
      /\ get_rlim_max(m, b, d).m = On(m, b, q)
  BY DEF get_rlim_max
<1>2. Sound(r0, w) /\ m \in Memory /\ m.grp \in Group /\ "group" \in Reasons
  BY DEF Mid, Memory, Reasons
<1>3. Sound(r, w)
  BY <1>2, UpdateSound
<1>4. r \in Bevent /\ SuspensionsOK(r)
  BY <1>3 DEF Sound
<1>5. r.susp \in [Dirs -> SUBSET Reasons] /\ r.lim \in [Dirs -> Int] /\ r.cfg \in 0..2
  BY <1>4 DEF Bevent
<1> HIDE DEF r
<1>6. q \in Bevent /\ (out => q.susp = [r.susp EXCEPT ![d] = @ \cup {"group"}])
  BY <1>2, <1>4, Suspend
<1>7. q.susp[d] = {}
  BY <1>1, <1>2, <1>6, OnValue
<1>8. ~out
  BY <1>5, <1>6, <1>7
<1>9. r.susp[d] = {}
  BY <1>7, <1>8
<1>10. own \in Int /\ own > 0
  <2>1. r.cfg # 0 => r.lim[d] \in Int /\ ~(r.lim[d] <= 0)
    BY <1>4, <1>5, <1>9 DEF SuspensionsOK
  <2> QED
    BY <2>1, SizeAssumption
<1>11. member => share \in Int /\ share > 0
  <2> SUFFICES ASSUME member PROVE share \in Int /\ share > 0
    OBVIOUS
  <2> DEFINE size == Cardinality(m.grp.members)
  <2>1. m.grp.members \subseteq Bevs /\ m.grp.lim[d] \in Int
    BY <1>2 DEF Group
  <2>2. IsFiniteSet(m.grp.members)
    BY <2>1, SizeAssumption, FS_Subset
  <2>3. size \in Nat /\ size # 0
    BY <2>2, FS_CardinalityType, FS_EmptySet
  <2> HIDE DEF size
  <2>4. m.grp.lim[d] \div size \in Int
    BY <2>1, <2>3
  <2>5. even \in Int
    BY <2>4 DEF size
  <2> HIDE DEF even
  <2> QED
    BY <1>8, <2>5, SizeAssumption
<1> HIDE DEF own, share, member
<1>12. max \in Int /\ max > 0
  BY <1>10, <1>11
<1> QED
  BY <1>1, <1>12

(* The handler that leaves x tried to read or write at least a byte.        *)
Busy(x) == x.io => x.max \in Int /\ x.max > 0

LEMMA DecrementMid ==
    ASSUME NEW m, NEW b \in Bevs, NEW w, NEW k, NEW l, Mid(m, b, w, k, l), lock[b] # "adding",
           NEW d \in Dirs, NEW n \in Int
    PROVE  Mid(decrement_buckets(m, b, d, n), b, w, k, l)
<1> DEFINE q == decrement_own(m.bev[b], d, n)
<1> DEFINE o == On(m, b, q)
<1> DEFINE v == o.grp.lim[d] - n
<1> DEFINE lim == [o.grp.lim EXCEPT ![d] = v]
<1> DEFINE gr == [o.grp EXCEPT !.lim = lim]
<1> DEFINE g == [o EXCEPT !.grp = gr]
<1>1. Sound(m.bev[b], w)
  BY DEF Mid
<1>2. Sound(q, w) /\ Kept(q, m.bev[b])
  BY <1>1, DecrementOwnSound
<1> HIDE DEF q
<1>3. Mid(o, b, w, k, l)
  BY <1>2, KeptMid
<1>4. decrement_buckets(m, b, d, n) = decrement_group(o, b, d, n)
  BY DEF decrement_buckets, q
<1> HIDE DEF o
<1>5. o \in Memory /\ o.grp \in Group /\ o.grp.lim \in [Dirs -> Int]
  BY <1>3 DEF Mid, Memory, Group
<1>6. lim \in [Dirs -> Int]
  BY <1>5
<1>7. [o EXCEPT !.grp.lim[d] = @ - n] = g
  OBVIOUS
<1>8. decrement_group(o, b, d, n) =
        IF b \notin o.grp.members THEN o
        ELSE IF g.grp.lim[d] <= 0 THEN group_suspend(g, {b}, d)
        ELSE IF d \in g.grp.susp THEN group_unsuspend(g, {b}, d) ELSE g
  BY <1>7 DEF decrement_group
<1> HIDE DEF lim
<1>9. /\ gr \in Group /\ gr.members = o.grp.members /\ gr.susp = o.grp.susp
      /\ gr.pending_unsuspend = o.grp.pending_unsuspend
  BY <1>5, <1>6 DEF Group
<1> HIDE DEF gr
<1>10. Carries(g, o)
  BY <1>5, <1>9, GroupLimCarries
<1>11. Mid(g, b, w, k, l)
  BY <1>3, <1>10, CarriesMid
<1> HIDE DEF g
<1>12. g \in Memory
  BY <1>11 DEF Mid
<1>13. Mid(group_suspend(g, {b}, d), b, w, k, l)
  BY <1>11, <1>12, GroupSuspendCarries, CarriesMid
<1>14. Mid(group_unsuspend(g, {b}, d), b, w, k, l)
  <2>1. Carries(group_unsuspend(g, {b}, d), g)
    BY <1>12, GroupUnsuspendCarries
  <2> QED
    BY <1>11, <2>1, CarriesMid
<1> QED
  BY <1>3, <1>4, <1>8, <1>11, <1>13, <1>14

LEMMA ReadSomeMid ==
    ASSUME NEW got, NEW b \in Bevs, NEW k \in Int, NEW l, Mid(got.m, b, "idle", k, l), k >= 1,
           lock[b] # "adding", NEW res \in Int, NEW act
    PROVE  Mid(ReadSome(got, b, res, act).m, b, "idle", k, l)
<1> DEFINE m == got.m
<1> DEFINE r == m.bev[b]
<1> DEFINE v == r.in + res
<1> DEFINE o == On(m, b, inbuf_wm_cb([r EXCEPT !.in = v]))
<1> DEFINE n == decrement_buckets(o, b, "R", res)
<1> DEFINE e == On(m, b, disable(r, {"R"}))
<1>1. Sound(r, "idle") /\ r.in \in Int /\ v \in Int /\ "R" \in Dirs /\ {"R"} \in SUBSET Dirs
  BY DEF Mid, Sound, Bevent, Dirs
<1>2. ReadSome(got, b, res, act).m = m \/ ReadSome(got, b, res, act).m = run_cb(e, b, "end", act)
        \/ ReadSome(got, b, res, act).m = ReadDone(n, b, act)
  BY DEF ReadSome, ReadBytes
<1>3. Mid(run_cb(e, b, "end", act), b, "idle", k, l)
  <2>1. Sound(disable(r, {"R"}), "idle") /\ Kept(disable(r, {"R"}), r)
    BY <1>1, DisableSound
  <2>2. Mid(e, b, "idle", k, l)
    BY <2>1, KeptMid
  <2> HIDE DEF e
  <2> QED
    BY <2>2, RunCbMid
<1>4. Mid(ReadDone(n, b, act), b, "idle", k, l)
  <2>1. LET q == inbuf_wm_cb([r EXCEPT !.in = v]) IN Sound(q, "idle") /\ Kept(q, r)
    <3> HIDE DEF v
    <3> QED
      BY <1>1, InputChanged
  <2>2. Mid(o, b, "idle", k, l)
    BY <2>1, KeptMid
  <2> HIDE DEF o
  <2>3. Mid(n, b, "idle", k, l)
    BY <1>1, <2>2, DecrementMid
  <2> HIDE DEF n
  <2>4. Mid(run_cb(n, b, "read", act), b, "idle", k, l)
    BY <2>3, RunCbMid
  <2> QED
    BY <2>3, <2>4 DEF ReadDone
<1> QED
  BY <1>2, <1>3, <1>4

(* The body of bufferevent_readcb, between the reference and its release.   *)
ReadBody(m, b, res, act) ==
    IF m.bev[b].high # 0 /\ m.bev[b].in >= m.bev[b].high
    THEN On(m, b, suspend(m.bev[b], "R", "wm"))
    ELSE ReadSome(get_rlim_max(m, b, "R"), b, res, act).m

LEMMA ReadBodyMid ==
    ASSUME NEW m, NEW b \in Bevs, NEW k \in Int, NEW l, Mid(m, b, "idle", k, l), k >= 1,
           lock[b] # "adding", NEW res \in Int, NEW act
    PROVE  Mid(ReadBody(m, b, res, act), b, "idle", k, l)
<1> DEFINE r == m.bev[b]
<1>1. Sound(r, "idle") /\ "R" \in Dirs /\ "wm" \in Reasons
  BY DEF Mid, Dirs, Reasons
<1>2. CASE r.high # 0 /\ r.in >= r.high
  <2>1. Sound(suspend(r, "R", "wm"), "idle") /\ Kept(suspend(r, "R", "wm"), r)
    BY <1>1, <1>2, SuspendSound
  <2> QED
    BY <1>2, <2>1, KeptMid DEF ReadBody
<1>3. CASE ~(r.high # 0 /\ r.in >= r.high)
  <2> DEFINE got == get_rlim_max(m, b, "R")
  <2>1. Mid(got.m, b, "idle", k, l)
    BY <1>1, MaxMid
  <2>2. ReadBody(m, b, res, act) = ReadSome(got, b, res, act).m
    BY <1>3 DEF ReadBody
  <2> HIDE DEF got
  <2> QED
    BY <2>1, <2>2, ReadSomeMid
<1> QED
  BY <1>2, <1>3

(* Below the high watermark there is room when the socket is read.          *)
LEMMA ReadCbBusy ==
    ASSUME NEW m0, NEW b \in Bevs, NEW k \in Int, NEW l, Mid(m0, b, "idle", k, l), k >= 0,
           MinShare > 0, NEW res, NEW act
    PROVE  Busy(readcb(m0, b, res, act))
<1> DEFINE i == incref(m0.bev[b])
<1> DEFINE m == On(m0, b, i)
<1> DEFINE full == i.high # 0 /\ i.in >= i.high
<1> DEFINE got == get_rlim_max(m, b, "R")
<1> DEFINE r == got.m.bev[b]
<1> DEFINE howmuch == IF r.high # 0 /\ r.high - r.in < got.max THEN r.high - r.in ELSE got.max
<1> DEFINE x == readcb(m0, b, res, act)
<1>1. /\ full => x.io = FALSE
      /\ ~full => x.io = (r.susp["R"] = {}) /\ x.max = howmuch
  BY DEF readcb, ReadSome
<1>2. Mid(m, b, "idle", k + 1, l) /\ m.bev[b] = i /\ "R" \in Dirs
  BY IncrefMid DEF Dirs
<1> HIDE DEF m, i
<1>3. r.susp["R"] = {} => got.max \in Int /\ got.max > 0
  BY <1>2, MaxPositive
<1>4. i \in Bevent /\ Sound(i, "idle") /\ m \in Memory
  BY <1>2 DEF Mid, Sound
<1>5. r.high = i.high /\ r.in = i.in
  <2> DEFINE u == IF i.cfg = 0 THEN i ELSE update_buckets(i)
  <2> DEFINE q == IF b \in m.grp.members /\ "R" \in m.grp.susp THEN suspend(u, "R", "group") ELSE u
  <2>1. got.m = On(m, b, q)
    BY <1>2 DEF get_rlim_max
  <2>2. u \in Bevent /\ "group" \in Reasons
    BY <1>4, UpdateSound DEF Sound, Reasons
  <2>3. u.high = i.high /\ u.in = i.in
    BY <1>4 DEF update_buckets, Bevent
  <2> HIDE DEF u
  <2>4. q \in Bevent /\ q.high = u.high /\ q.in = u.in
    BY <1>2, <2>2, Suspend DEF Alike
  <2> HIDE DEF q
  <2>5. r = q
    BY <1>4, <2>1, <2>4, OnValue
  <2> QED
    BY <2>3, <2>4, <2>5
<1>6. i.high \in Int /\ i.in \in Int
  BY <1>4 DEF Bevent
<1> HIDE DEF x, r, got
<1>7. ~full /\ r.susp["R"] = {} => howmuch \in Int /\ howmuch > 0
  BY <1>3, <1>5, <1>6
<1> HIDE DEF full, howmuch
<1>8. x.io => x.max \in Int /\ x.max > 0
  BY <1>1, <1>7, Zenon
<1> QED
  BY <1>8 DEF Busy, x

LEMMA PlainIdle ==
    ASSUME NEW m, NEW b, NEW k, NEW l, Mid(m, b, "plain", k, l)
    PROVE  Mid(m, b, "idle", k, l)
<1>1. Sound(m.bev[b], "idle")
  BY DEF Mid, Sound, EventsOK
<1> QED
  BY <1>1 DEF Mid

LEMMA WriteDoneMid ==
    ASSUME NEW m, NEW b \in Bevs, NEW k \in Int, NEW l, Mid(m, b, "plain", k, l), k >= 1,
           NEW report, NEW act
    PROVE  Mid(WriteDone(m, b, report, act), b, "idle", k, l)
<1> DEFINE r == m.bev[b]
<1> DEFINE done == IF r.out = 0 THEN On(m, b, del_event(r, {"W"})) ELSE m
<1>1. Mid(m, b, "idle", k, l) /\ Sound(r, "plain") /\ ~r.connecting
  BY PlainIdle DEF Mid
<1>2. Mid(done, b, "idle", k, l)
  <2>1. CASE r.out = 0
    <3>1. Sound(del_event(r, {"W"}), "idle") /\ Kept(del_event(r, {"W"}), r)
      BY <1>1, <2>1, DelWriteSound
    <3> QED
      BY <1>1, <2>1, <3>1, KeptMid
  <2> QED
    BY <1>1, <2>1
<1>3. WriteDone(m, b, report, act) = done \/ WriteDone(m, b, report, act) = run_cb(done, b, "write", act)
  BY DEF WriteDone
<1> HIDE DEF done
<1>4. Mid(run_cb(done, b, "write", act), b, "idle", k, l)
  BY <1>2, RunCbMid
<1> QED
  BY <1>2, <1>3, <1>4

LEMMA WriteOutMid ==
    ASSUME NEW m0, NEW b \in Bevs, NEW k \in Int, NEW l, Mid(m0, b, "plain", k, l), k >= 1,
           lock[b] # "adding", NEW connected, NEW res \in Int, res >= -1, NEW act
    PROVE  Mid(write_out(m0, b, connected, res, act).m, b, "idle", k, l)
<1> DEFINE got == get_rlim_max(m0, b, "W")
<1> DEFINE m == got.m
<1> DEFINE r == m.bev[b]
<1> DEFINE io == r.susp["W"] = {} /\ r.out > 0
<1> DEFINE e == On(m, b, disable(r, {"W"}))
<1> DEFINE sent == WriteBytes(m, b, res)
<1> DEFINE q == write_out(m0, b, connected, res, act).m
<1>1. Mid(m, b, "plain", k, l)
  BY MaxMid DEF Dirs
<1>2. \/ q = m \/ q = run_cb(e, b, "end", act)
      \/ q = WriteDone(m, b, io \/ ~connected, act)
      \/ res # -1 /\ q = WriteDone(sent, b, io \/ ~connected, act)
  BY DEF write_out, WriteSome
<1> HIDE DEF q, got, io
<1>3. Sound(r, "plain") /\ "W" \in Dirs /\ {"W"} \in SUBSET Dirs /\ Mid(m, b, "idle", k, l)
  BY <1>1, PlainIdle DEF Mid, Dirs
<1>4. Mid(run_cb(e, b, "end", act), b, "idle", k, l)
  <2>1. Sound(disable(r, {"W"}), "plain") /\ Kept(disable(r, {"W"}), r)
    BY <1>3, DisableSound
  <2>2. Mid(e, b, "plain", k, l)
    BY <1>1, <2>1, KeptMid
  <2> HIDE DEF e
  <2>3. Mid(e, b, "idle", k, l)
    BY <2>2, PlainIdle
  <2> QED
    BY <2>3, RunCbMid
<1>5. Mid(WriteDone(m, b, io \/ ~connected, act), b, "idle", k, l)
  BY <1>1, WriteDoneMid
<1>6. res # -1 => Mid(WriteDone(sent, b, io \/ ~connected, act), b, "idle", k, l)
  <2> SUFFICES ASSUME res # -1 PROVE Mid(WriteDone(sent, b, io \/ ~connected, act), b, "idle", k, l)
    OBVIOUS
  <2> DEFINE x == [r EXCEPT !.out = @ - res]
  <2> DEFINE o == On(m, b, x)
  <2>1. Sound(x, "plain") /\ Kept(x, r)
    BY <1>3, OutputSent
  <2>2. sent = decrement_buckets(o, b, "W", res)
    BY DEF WriteBytes
  <2> HIDE DEF x
  <2>3. Mid(o, b, "plain", k, l)
    BY <1>1, <2>1, KeptMid
  <2> HIDE DEF o
  <2>4. Mid(sent, b, "plain", k, l)
    BY <1>3, <2>2, <2>3, DecrementMid
  <2> HIDE DEF sent
  <2> QED
    BY <2>4, WriteDoneMid
<1> QED
  BY <1>2, <1>3, <1>4, <1>5, <1>6 DEF q

LEMMA ConnectedMid ==
    ASSUME NEW m, NEW b \in Bevs, NEW k \in Int, NEW l, Mid(m, b, "connected", k, l), k >= 1,
           lock[b] # "adding", NEW res \in Int, res >= -1, NEW act
    PROVE  Mid(Connected(m, b, res, act).m, b, "idle", k, l)
<1> DEFINE r == m.bev[b]
<1>1. Sound(r, "connected") /\ ~r.connecting
  BY DEF Mid
<1>2. CASE "W" \notin r.enabled \/ r.susp["W"] # {}
  <2> DEFINE q == del_event(r, {"W"})
  <2>1. Sound(q, "idle") /\ Kept(q, r)
    BY <1>1, <1>2, DelWriteSound
  <2>2. Connected(m, b, res, act).m = On(m, b, q)
    BY <1>2 DEF Connected, NoIO
  <2> HIDE DEF q
  <2>3. /\ q.refcnt > 0 /\ Held(q) = k /\ q.lookup = l
        /\ \A d \in Dirs : "group" \in q.susp[d] => "group" \in r.susp[d]
    BY <2>1 DEF Mid, Kept, Held
  <2> DEFINE w == "idle"
  <2>4. w = "idle" /\ Sound(q, w) /\ (w # "idle" => ~q.connecting)
    BY <2>1
  <2> HIDE DEF w
  <2>5. Mid(On(m, b, q), b, w, k, l)
    BY <2>3, <2>4, OnMid
  <2> QED
    BY <2>2, <2>4, <2>5
<1>3. CASE ~("W" \notin r.enabled \/ r.susp["W"] # {})
  <2>1. Sound(r, "plain")
    BY <1>1, <1>3 DEF Sound, EventsOK
  <2>2. Mid(m, b, "plain", k, l)
    BY <1>1, <2>1 DEF Mid
  <2>3. Mid(write_out(m, b, TRUE, res, act).m, b, "idle", k, l)
    BY <2>2, WriteOutMid
  <2> QED
    BY <1>3, <2>3 DEF Connected
<1> QED
  BY <1>2, <1>3

(* The output is there when the socket is asked to write.                   *)
LEMMA WriteOutBusy ==
    ASSUME NEW m, NEW b \in Bevs, NEW w, NEW k, NEW l, Mid(m, b, w, k, l), MinShare > 0,
           NEW connected, NEW res, NEW act
    PROVE  Busy(write_out(m, b, connected, res, act))
<1> DEFINE got == get_rlim_max(m, b, "W")
<1> DEFINE r == got.m.bev[b]
<1> DEFINE x == write_out(m, b, connected, res, act)
<1>1. /\ x.io = (r.susp["W"] = {} /\ r.out > 0)
      /\ x.max = IF got.max < r.out THEN got.max ELSE r.out
  BY DEF write_out, WriteSome
<1>2. "W" \in Dirs
  BY DEF Dirs
<1>3. Mid(got.m, b, w, k, l)
  BY <1>2, MaxMid
<1>4. r \in Bevent
  BY <1>3 DEF Mid, Sound
<1>5. r.out \in Int
  BY <1>4 DEF Bevent
<1>6. r.susp["W"] = {} => got.max \in Int /\ got.max > 0
  BY <1>2, MaxPositive
<1> HIDE DEF x, r, got
<1>7. x.io => x.max \in Int /\ x.max > 0
  BY <1>1, <1>5, <1>6
<1> QED
  BY <1>7 DEF Busy, x

LEMMA ConnectedBusy ==
    ASSUME NEW m, NEW b \in Bevs, NEW w, NEW k, NEW l, Mid(m, b, w, k, l), MinShare > 0,
           NEW res, NEW act
    PROVE  Busy(Connected(m, b, res, act))
<1>1. \A n : Busy(NoIO(n))
  BY DEF Busy, NoIO
<1>2. Busy(write_out(m, b, TRUE, res, act))
  BY WriteOutBusy
<1> QED
  BY <1>1, <1>2 DEF Connected

LEMMA WriteCb ==
    ASSUME NEW m, NEW b \in Bevs, NEW k \in Int, NEW l, Mid(m, b, "idle", k, l), k >= 0,
           lock[b] # "adding", NEW res \in Int, res >= -1, NEW act1, NEW act,
           NEW c \in {"yes", "no", "wait"}, m.bev[b].active => c # "wait"
    PROVE  /\ \E n : /\ Mid(n, b, "idle", k + 1, l)
                     /\ writecb(m, b, c, res, act1, act).m = decref(n, b)
           /\ MinShare > 0 => Busy(writecb(m, b, c, res, act1, act))
<1> DEFINE r0 == m.bev[b]
<1> DEFINE i == incref(r0)
<1> DEFINE h == k + 1
<1> DEFINE r == [i EXCEPT !.active = FALSE]
<1> DEFINE known == [r EXCEPT !.refused = FALSE, !.connecting = FALSE]
<1> DEFINE gone == [del_event(known, Dirs) EXCEPT !.failed = TRUE]
<1> DEFINE ans == IF r.refused THEN "no" ELSE c
<1> DEFINE q == writecb(m, b, c, res, act1, act).m
<1>1. Sound(r0, "idle") /\ r0.refcnt \in Int /\ r0.refcnt > 0 /\ Held(r0) = k
  BY MidCount DEF Mid
<1>2. Sound(i, "idle") /\ Same(i, r0) /\ i.refcnt = r0.refcnt + 1 /\ Held(i) = Held(r0) + 1
  BY <1>1, IncrefSound
<1>3. /\ ~r.connecting => q = decref(write_out(On(m, b, r), b, FALSE, res, act).m, b)
      /\ r.connecting /\ ans = "wait" => q = decref(On(m, b, [r EXCEPT !.refused = FALSE]), b)
      /\ r.connecting /\ ans = "no" => q = decref(run_cb(On(m, b, gone), b, "end", act1), b)
      /\ r.connecting /\ ans \notin {"wait", "no"} =>
           q = decref(Connected(run_cb(On(m, b, known), b, "connected", act1), b, res, act).m, b)
  BY DEF writecb, NoIO
<1> DEFINE y == writecb(m, b, c, res, act1, act)
<1> DEFINE busy == MinShare > 0 => Busy(y)
<1>body. LET z == CASE ~r.connecting -> write_out(On(m, b, r), b, FALSE, res, act)
                 [] r.connecting /\ ans = "wait" -> NoIO(On(m, b, [r EXCEPT !.refused = FALSE]))
                 [] r.connecting /\ ans = "no" -> NoIO(run_cb(On(m, b, gone), b, "end", act1))
                 [] OTHER -> Connected(run_cb(On(m, b, known), b, "connected", act1), b, res, act)
      IN  y.io = z.io /\ y.max = z.max
  BY DEF writecb
<1> SUFFICES (\E n : Mid(n, b, "idle", h, l) /\ q = decref(n, b)) /\ busy
  OBVIOUS
<1>io. /\ ~r.connecting /\ Busy(write_out(On(m, b, r), b, FALSE, res, act)) => Busy(y)
       /\ r.connecting /\ ans \in {"wait", "no"} => Busy(y)
       /\ /\ r.connecting /\ ans \notin {"wait", "no"}
          /\ Busy(Connected(run_cb(On(m, b, known), b, "connected", act1), b, res, act))
          => Busy(y)
  <2> HIDE DEF y, r, ans, known, gone
  <2> QED
    BY <1>body DEF Busy, NoIO
<1> HIDE DEF q, y
<1>4. i.refcnt > 0 /\ Held(i) = h /\ i.lookup = l /\ h \in Int /\ h >= 1 /\ i \in Bevent
  BY <1>1, <1>2 DEF Mid, Same, Sound
<1>5. \A d \in Dirs : "group" \in i.susp[d] => "group" \in r0.susp[d]
  BY <1>2 DEF Same
<1> HIDE DEF i, h
<1>6. r \in Bevent /\ r.connecting = i.connecting /\ r.refused = i.refused
  BY <1>4 DEF Bevent
<1>7. CASE ~r.connecting
  <2>1. Sound(r, "idle") /\ Kept(r, i)
    BY <1>2, <1>6, <1>7, InactiveSound
  <2> HIDE DEF r
  <2>2. Sound(r, "plain")
    BY <2>1 DEF Sound, EventsOK
  <2>3. /\ r.refcnt > 0 /\ Held(r) = h /\ r.lookup = l
        /\ \A d \in Dirs : "group" \in r.susp[d] => "group" \in r0.susp[d]
    BY <1>4, <1>5, <2>1 DEF Kept, Held
  <2>4. Mid(On(m, b, r), b, "plain", h, l)
    BY <1>7, <2>2, <2>3, OnMid
  <2>5. Mid(write_out(On(m, b, r), b, FALSE, res, act).m, b, "idle", h, l)
    BY <1>4, <2>4, WriteOutMid
  <2>6. MinShare > 0 => Busy(write_out(On(m, b, r), b, FALSE, res, act))
    BY <2>4, WriteOutBusy
  <2>7. \E n : Mid(n, b, "idle", h, l) /\ q = decref(n, b)
    BY <1>3, <1>7, <2>5
  <2>8. busy
    BY <1>7, <1>io, <2>6
  <2> QED
    BY <2>7, <2>8
<1>8. CASE r.connecting /\ ans = "wait"
  <2> DEFINE x == [r EXCEPT !.refused = FALSE]
  <2>1. ~r0.active
    BY <1>8
  <2>2. i.connecting => "W" \in i.pend
    BY <1>2, <2>1 DEF Sound, EventsOK, Same
  <2>3. Sound(r, "idle") /\ Kept(r, i)
    BY <1>2, <2>2, InactiveSound
  <2> HIDE DEF r
  <2>4. x \in Bevent /\ Same(x, r) /\ x.refcnt = r.refcnt /\ x.user = r.user /\ x.queued = r.queued
    BY <1>6 DEF Bevent, Same
  <2> HIDE DEF x
  <2>5. Sound(x, "idle")
    BY <2>3, <2>4, SameSound
  <2>6. /\ x.refcnt > 0 /\ Held(x) = h /\ x.lookup = l
        /\ \A d \in Dirs : "group" \in x.susp[d] => "group" \in r0.susp[d]
    BY <1>4, <1>5, <2>3, <2>4 DEF Kept, Held, Same
  <2>7. Mid(On(m, b, x), b, "idle", h, l)
    BY <2>5, <2>6, OnMid
  <2>8. \E n : Mid(n, b, "idle", h, l) /\ q = decref(n, b)
    BY <1>3, <1>8, <2>7 DEF x
  <2>9. busy
    BY <1>8, <1>io
  <2> QED
    BY <2>8, <2>9
<1>9. known = [i EXCEPT !.active = FALSE, !.refused = FALSE, !.connecting = FALSE]
  BY <1>4 DEF Bevent
<1>10. Sound(known, "connected") /\ Counted(known, i) /\ ~known.connecting
  BY <1>2, <1>9, ConnectedSound
<1> HIDE DEF r, known
<1>11. CASE r.connecting /\ ans = "no"
  <2>1. Sound(gone, "idle") /\ Counted(gone, known)
    BY <1>10, GoneSound
  <2> HIDE DEF gone
  <2>2. /\ gone.refcnt > 0 /\ Held(gone) = h /\ gone.lookup = l
        /\ \A d \in Dirs : "group" \in gone.susp[d] => "group" \in r0.susp[d]
    BY <1>4, <1>5, <1>10, <2>1 DEF Counted, Held
  <2>3. Mid(On(m, b, gone), b, "idle", h, l)
    BY <2>1, <2>2, OnMid
  <2>4. Mid(run_cb(On(m, b, gone), b, "end", act1), b, "idle", h, l)
    BY <1>4, <2>3, RunCbMid
  <2>5. \E n : Mid(n, b, "idle", h, l) /\ q = decref(n, b)
    BY <1>3, <1>11, <2>4
  <2>6. busy
    BY <1>11, <1>io
  <2> QED
    BY <2>5, <2>6
<1>12. CASE r.connecting /\ ans \notin {"wait", "no"}
  <2> DEFINE n == run_cb(On(m, b, known), b, "connected", act1)
  <2>1. /\ known.refcnt > 0 /\ Held(known) = h /\ known.lookup = l
        /\ \A d \in Dirs : "group" \in known.susp[d] => "group" \in r0.susp[d]
    BY <1>4, <1>5, <1>10 DEF Counted, Held
  <2>2. Mid(On(m, b, known), b, "connected", h, l)
    BY <1>10, <2>1, OnMid
  <2>3. Mid(n, b, "connected", h, l)
    BY <1>4, <2>2, RunCbMid
  <2> HIDE DEF n
  <2>4. Mid(Connected(n, b, res, act).m, b, "idle", h, l)
    BY <1>4, <2>3, ConnectedMid
  <2>5. MinShare > 0 => Busy(Connected(n, b, res, act))
    BY <2>3, ConnectedBusy
  <2>6. \E x : Mid(x, b, "idle", h, l) /\ q = decref(x, b)
    BY <1>3, <1>12, <2>4 DEF n
  <2>7. busy
    BY <1>12, <1>io, <2>5 DEF n
  <2> QED
    BY <2>6, <2>7
<1>13. QED
  BY <1>7, <1>8, <1>11, <1>12

-----------------------------------------------------------------------------
(* From the invariant to a handler at work, and back.                       *)

AllGood(m, lk, sg) == m \in Memory /\ \A c \in Bevs : Good(m.bev[c], c, m.grp, lk[c], sg[c])

LEMMA HoldersNat ==
    ASSUME NEW l, NEW k, NEW s
    PROVE  Holders(l, k, s) \in Int /\ Holders(l, k, s) >= 0
<1>1. Bit(l) \in {0, 1} /\ Bit(k = "user") \in {0, 1} /\ Bit(s # "idle") \in {0, 1}
  BY DEF Bit
<1> QED
  BY <1>1 DEF Holders

LEMMA Opened ==
    ASSUME IInv
    PROVE  AllGood(M, lock, stage) /\ M.bev = bev /\ M.grp = grp
<1>1. M.bev = bev /\ M.grp = grp
  BY DEF M
<1>2. M \in Memory
  BY DEF M, Memory, IInv, TypeOK
<1> QED
  BY <1>1, <1>2 DEF AllGood, IInv, Good

LEMMA Closed ==
    ASSUME NEW m, AllGood(m, lock', stage'), bev' = m.bev, grp' = m.grp,
           lock' \in [Bevs -> {"free", "user", "adding"}],
           stage' \in [Bevs -> {"idle", "connected", "read", "write", "end"}],
           emptyIO' \in BOOLEAN
    PROVE  IInv'
<1>1. bev' \in [Bevs -> Bevent] /\ grp' \in Group
  BY DEF AllGood, Memory
<1>2. TypeOK'
  BY <1>1 DEF TypeOK
<1>3. ASSUME NEW b \in Bevs
      PROVE  /\ BevOK(bev'[b], b, grp')
             /\ Held(bev'[b]) = Holders(bev'[b].lookup, lock'[b], stage'[b])
             /\ JoinOK(bev'[b], b, grp', lock'[b])
  BY DEF AllGood, Good
<1> QED
  BY <1>2, <1>3 DEF IInv

LEMMA Start ==
    ASSUME IInv, NEW b \in Bevs, bev[b].refcnt > 0
    PROVE  Mid(M, b, "idle", Holders(bev[b].lookup, lock[b], stage[b]), bev[b].lookup)
<1>1. AllGood(M, lock, stage) /\ M.bev = bev /\ M.grp = grp
  BY Opened
<1>2. M \in Memory /\ \A c \in Bevs : Good(M.bev[c], c, M.grp, lock[c], stage[c])
  BY <1>1 DEF AllGood
<1> HIDE DEF M
<1>3. bev[b] \in Bevent
  BY <1>1, <1>2 DEF Memory
<1>4. BevOK(bev[b], b, grp) /\ Held(bev[b]) = Holders(bev[b].lookup, lock[b], stage[b])
  BY <1>1, <1>2 DEF Good
<1>5. Sound(bev[b], "idle") /\ GroupOK(bev[b], b, grp)
  BY <1>3, <1>4 DEF Sound, BevOK
<1> QED
  BY <1>1, <1>2, <1>4, <1>5 DEF Mid, Rest

(* Who belongs to the user is alive.                                        *)
LEMMA UserLive ==
    ASSUME IInv, NEW b \in Bevs, bev[b].user
    PROVE  bev[b].refcnt > 0
<1>1. Held(bev[b]) = Holders(bev[b].lookup, lock[b], stage[b]) /\ bev[b].refcnt \in Int
  BY DEF IInv, TypeOK, Bevent
<1>2. Bit(bev[b].user) = 1 /\ Bit(bev[b].queued) \in {0, 1}
  BY BitValue
<1> DEFINE h == Holders(bev[b].lookup, lock[b], stage[b])
<1>3. h \in Int /\ h >= 0
  BY HoldersNat
<1>4. bev[b].refcnt - Bit(bev[b].user) - Bit(bev[b].queued) = h
  BY <1>1 DEF Held
<1> HIDE DEF h
<1>5. ASSUME NEW x \in Int, NEW y \in {0, 1}, x - 1 - y = h PROVE x > 0
  BY <1>3, <1>5
<1> QED
  BY <1>1, <1>2, <1>4, <1>5

LEMMA Settle ==
    ASSUME NEW m, NEW b \in Bevs, NEW k, NEW l, Mid(m, b, "idle", k, l), NEW lk, NEW sg,
           k = Holders(l, lk[b], sg[b]), lk[b] # "adding",
           \A c \in Bevs : c # b => lk[c] = lock[c] /\ sg[c] = stage[c]
    PROVE  AllGood(m, lk, sg)
<1> DEFINE r == m.bev[b]
<1>1. r \in Bevent /\ r.refcnt \in Int /\ r.refcnt > 0
  BY DEF Mid, Sound, Bevent
<1>2. BevOK(r, b, m.grp)
  BY <1>1 DEF Mid, Sound, BevOK
<1>3. Good(r, b, m.grp, lk[b], sg[b])
  BY <1>2 DEF Mid, Good, JoinOK
<1>4. \A c \in Bevs : c # b => Good(m.bev[c], c, m.grp, lk[c], sg[c])
  BY DEF Mid, Rest
<1> QED
  BY <1>3, <1>4 DEF AllGood, Mid

(* The last reference of the handler is let go: either somebody else has    *)
(* one, or nobody has, and nothing is left of the bufferevent.              *)
LEMMA Release ==
    ASSUME NEW m, NEW b \in Bevs, NEW k, NEW l, Mid(m, b, "idle", k, l), NEW lk, NEW sg,
           k = Holders(l, lk[b], sg[b]) + 1, lk[b] # "adding",
           \A c \in Bevs : c # b => lk[c] = lock[c] /\ sg[c] = stage[c]
    PROVE  AllGood(decref(m, b), lk, sg)
<1> DEFINE r0 == m.bev[b]
<1> DEFINE h == Holders(l, lk[b], sg[b])
<1>1. h \in Int /\ h >= 0 /\ k = h + 1
  BY HoldersNat
<1> HIDE DEF h
<1>2. /\ m \in Memory /\ r0 \in Bevent /\ r0.refcnt \in Int /\ r0.refcnt > 0 /\ r0.lookup = l
      /\ r0.refcnt = k + Bit(r0.user) + Bit(r0.queued)
      /\ Bit(r0.user) \in {0, 1} /\ Bit(r0.queued) \in {0, 1}
  BY <1>1, MidCount DEF Mid
<1>3. CASE r0.refcnt > 1
  <2>1. k \in Int /\ k - 1 = h
    BY <1>1
  <2>2. Mid(decref(m, b), b, "idle", k - 1, l)
    BY <1>3, <2>1, DecrefMid
  <2>3. k - 1 = Holders(l, lk[b], sg[b])
    BY <2>1 DEF h
  <2> QED
    BY <2>2, <2>3, Settle
<1>4. CASE r0.refcnt = 1
  <2> DEFINE r1 == [r0 EXCEPT !.refcnt = 0]
  <2> DEFINE d == del_event(r1, Dirs)
  <2> DEFINE q == [d EXCEPT !.fd = FALSE, !.in = 0, !.out = 0, !.refill = FALSE]
  <2> DEFINE n == On(m, b, r1)
  <2> DEFINE o == On(n, b, q)
  <2> DEFINE ms == m.grp.members \ {b}
  <2> DEFINE g == [m.grp EXCEPT !.members = ms]
  <2>1. h = 0 /\ Bit(r0.user) = 0 /\ Bit(r0.queued) = 0
    <3>1. 1 = (h + 1) + Bit(r0.user) + Bit(r0.queued)
      BY <1>1, <1>2, <1>4
    <3>2. ASSUME NEW x \in {0, 1}, NEW y \in {0, 1}, 1 = (h + 1) + x + y PROVE h = 0 /\ x = 0 /\ y = 0
      BY <1>1, <3>2
    <3> QED
      BY <1>2, <3>1, <3>2
  <2>2. ~r0.user /\ ~r0.queued
    BY <2>1 DEF Bit
  <2>3. r1 \in Bevent /\ r1.refcnt = 0 /\ r1.user = r0.user /\ r1.queued = r0.queued /\ r1.lookup = l
    BY <1>2 DEF Bevent
  <2>4. decref(m, b) = destruct(n, b)
    BY <1>2, <1>4, <2>3 DEF decref
  <2> HIDE DEF r1
  <2>5. n \in Memory /\ n.grp = m.grp /\ n.bev[b] = r1 /\ \A c \in Bevs : c # b => n.bev[c] = m.bev[c]
    BY <1>2, <2>3, OnValue
  <2>6. /\ d \in Bevent /\ Alike(d, r1) /\ d.pend = r1.pend \ Dirs
        /\ d.active = (r1.active /\ "W" \notin Dirs)
    BY <2>3, DelEvents
  <2>7. decref(m, b) = [o EXCEPT !.grp.members = @ \ {b}]
    BY <2>4, <2>5 DEF destruct, remove_from_group
  <2> HIDE DEF n, d
  <2>8. /\ q \in Bevent /\ q.refcnt = d.refcnt /\ q.user = d.user /\ q.queued = d.queued
        /\ q.lookup = d.lookup /\ q.pend = d.pend /\ q.active = d.active /\ ~q.refill
    <3>1. d \in Bevent
      BY <2>6
    <3>2. q \in Bevent
      <4> DEFINE no == FALSE
      <4> DEFINE none == 0
      <4>1. no \in BOOLEAN /\ none \in Int
        OBVIOUS
      <4>2. q = [d EXCEPT !.fd = no, !.in = none, !.out = none, !.refill = no]
        OBVIOUS
      <4> HIDE DEF no, none, q
      <4>3. [d EXCEPT !.fd = no, !.in = none, !.out = none, !.refill = no] \in Bevent
        BY <3>1, <4>1 DEF Bevent
      <4> QED
        BY <4>2, <4>3
    <3> QED
      BY <3>1, <3>2 DEF Bevent
  <2> HIDE DEF q
  <2>9. /\ o \in Memory /\ o.grp = m.grp /\ o.bev[b] = q /\ \A c \in Bevs : c # b => o.bev[c] = m.bev[c]
    BY <2>5, <2>8, OnValue
  <2> HIDE DEF o
  <2>10. decref(m, b) = [o EXCEPT !.grp = g]
    BY <2>7, <2>9
  <2>11. m.grp \in Group /\ ms \subseteq Bevs
    BY <1>2 DEF Memory, Group
  <2>12. b \notin ms /\ \A c \in Bevs : c # b => (c \in ms <=> c \in m.grp.members)
    OBVIOUS
  <2> HIDE DEF ms
  <2>13. /\ g \in Group /\ g.members = ms /\ g.susp = m.grp.susp
         /\ g.pending_unsuspend = m.grp.pending_unsuspend
    BY <2>11 DEF Group
  <2> HIDE DEF g
  <2> DEFINE z == [o EXCEPT !.grp = g]
  <2>14. z \in Memory /\ z.grp = g /\ z.bev = o.bev
    BY <2>9, <2>13 DEF Memory
  <2> HIDE DEF z
  <2>15. Good(z.bev[b], b, z.grp, lk[b], sg[b])
    <3>1. q.refcnt = 0 /\ ~q.user /\ ~q.queued /\ q.lookup = l
      BY <2>2, <2>3, <2>6, <2>8 DEF Alike
    <3>2. q.pend = {} /\ ~q.active
      <4>1. r1.pend \in SUBSET Dirs
        BY <2>3 DEF Bevent
      <4> QED
        BY <2>6, <2>8, <4>1 DEF Dirs
    <3>3. DeadOK(q, b, g)
      BY <2>8, <2>12, <2>13, <3>2 DEF DeadOK
    <3>4. BevOK(q, b, g)
      BY <3>1, <3>3 DEF BevOK
    <3>5. Held(q) = h
      <4>1. Bit(q.user) = 0 /\ Bit(q.queued) = 0
        BY <3>1, BitValue
      <4>2. Held(q) = 0 - 0 - 0
        BY <3>1, <4>1 DEF Held
      <4> QED
        BY <2>1, <4>2
    <3> QED
      BY <2>9, <2>14, <3>1, <3>4, <3>5 DEF Good, JoinOK, h
  <2>16. ASSUME NEW c \in Bevs, c # b
         PROVE  Good(z.bev[c], c, z.grp, lk[c], sg[c])
    <3>1. Good(m.bev[c], c, m.grp, lk[c], sg[c])
      BY <2>16 DEF Mid, Rest
    <3>2. z.bev[c] = m.bev[c] /\ (c \in g.members <=> c \in m.grp.members)
      BY <2>9, <2>12, <2>13, <2>14, <2>16
    <3>3. Good(m.bev[c], c, g, lk[c], sg[c])
      BY <2>13, <3>1, <3>2 DEF Good, BevOK, GroupOK, DeadOK, JoinOK
    <3> QED
      BY <2>14, <3>2, <3>3
  <2>17. AllGood(z, lk, sg)
    BY <2>14, <2>15, <2>16 DEF AllGood
  <2> QED
    BY <2>10, <2>17 DEF z
<1> QED
  BY <1>2, <1>3, <1>4

-----------------------------------------------------------------------------
(* The actions. First those that change one bufferevent and nothing else.   *)

LEMMA QuietClosed ==
    ASSUME IInv, NEW m, AllGood(m, lock, stage), Becomes(m), Quiet
    PROVE  IInv'
<1>1. lock' = lock /\ stage' = stage /\ emptyIO' = emptyIO /\ bev' = m.bev /\ grp' = m.grp
  BY DEF Quiet, Becomes
<1>2. /\ lock \in [Bevs -> {"free", "user", "adding"}]
      /\ stage \in [Bevs -> {"idle", "connected", "read", "write", "end"}]
      /\ emptyIO \in BOOLEAN
  BY DEF IInv, TypeOK
<1>3. AllGood(m, lock', stage')
  BY <1>1
<1> QED
  BY <1>1, <1>2, <1>3, Closed

LEMMA CallLive ==
    ASSUME IInv, NEW b \in Bevs, NEW op, Call(op, b)
    PROVE  bev[b].refcnt > 0 /\ lock[b] # "adding" /\ Sound(bev[b], "idle") /\ M.bev[b] = bev[b]
<1>1. bev[b].user /\ lock[b] # "adding"
  BY DEF Call
<1>2. bev[b].refcnt > 0
  BY <1>1, UserLive
<1>3. M.bev = bev
  BY Opened
<1>4. Sound(M.bev[b], "idle")
  BY <1>2, Start DEF Mid
<1> QED
  BY <1>1, <1>2, <1>3, <1>4

LEMMA LoopLive ==
    ASSUME IInv, NEW b \in Bevs, LoopMayRun(b)
    PROVE  /\ bev[b].refcnt > 0 /\ lock[b] = "free" /\ stage[b] = "idle"
           /\ Sound(bev[b], "idle") /\ M.bev[b] = bev[b]
<1>1. bev[b].refcnt > 0 /\ lock[b] = "free" /\ stage[b] = "idle"
  BY DEF LoopMayRun, LoopFree
<1>2. M.bev = bev
  BY Opened
<1>3. Sound(M.bev[b], "idle")
  BY <1>1, Start DEF Mid
<1> QED
  BY <1>1, <1>2, <1>3

LEMMA Changed ==
    ASSUME IInv, NEW b \in Bevs, bev[b].refcnt > 0, lock[b] # "adding",
           NEW q, Sound(q, "idle"), q.refcnt > 0, Held(q) = Held(bev[b]), q.lookup = bev[b].lookup,
           \A d \in Dirs : "group" \in q.susp[d] => "group" \in bev[b].susp[d],
           Becomes(On(M, b, q)), Quiet
    PROVE  IInv'
<1> DEFINE k == Holders(bev[b].lookup, lock[b], stage[b])
<1> DEFINE l == bev[b].lookup
<1>1. Mid(M, b, "idle", k, l) /\ M.bev = bev
  BY Start, Opened
<1>2. Held(bev[b]) = k
  BY <1>1 DEF Mid
<1> HIDE DEF k, l
<1>3. Held(q) = k /\ q.lookup = l
  BY <1>2 DEF l
<1>4. Mid(On(M, b, q), b, "idle", k, l)
  BY <1>1, <1>3, OnMid
<1>5. AllGood(On(M, b, q), lock, stage)
  BY <1>4, Settle DEF k, l
<1> QED
  BY <1>5, QuietClosed

LEMMA ChangedKept ==
    ASSUME IInv, NEW b \in Bevs, bev[b].refcnt > 0, lock[b] # "adding",
           NEW q, Sound(q, "idle"), Kept(q, bev[b]), Becomes(On(M, b, q)), Quiet
    PROVE  IInv'
<1>1. /\ q.refcnt > 0 /\ Held(q) = Held(bev[b]) /\ q.lookup = bev[b].lookup
      /\ \A d \in Dirs : "group" \in q.susp[d] => "group" \in bev[b].susp[d]
  BY DEF Kept, Held
<1> QED
  BY <1>1, Changed

LEMMA EnableStep ==
    ASSUME IInv, NEW b \in Bevs, NEW ds \in SUBSET Dirs, Enable(b, ds)
    PROVE  IInv'
<1>1. Call("basic", b) /\ Becomes(On(M, b, enable(bev[b], ds))) /\ Quiet
  BY DEF Enable
<1>2. bev[b].refcnt > 0 /\ lock[b] # "adding" /\ Sound(bev[b], "idle")
  BY <1>1, CallLive
<1>3. Sound(enable(bev[b], ds), "idle") /\ Kept(enable(bev[b], ds), bev[b])
  BY <1>2, EnableSound
<1> QED
  BY <1>1, <1>2, <1>3, ChangedKept

LEMMA DisableStep ==
    ASSUME IInv, NEW b \in Bevs, NEW ds \in SUBSET Dirs, Disable(b, ds)
    PROVE  IInv'
<1>1. Call("basic", b) /\ Becomes(On(M, b, disable(bev[b], ds))) /\ Quiet
  BY DEF Disable
<1>2. bev[b].refcnt > 0 /\ lock[b] # "adding" /\ Sound(bev[b], "idle")
  BY <1>1, CallLive
<1>3. Sound(disable(bev[b], ds), "idle") /\ Kept(disable(bev[b], ds), bev[b])
  BY <1>2, DisableSound
<1> QED
  BY <1>1, <1>2, <1>3, ChangedKept

LEMMA UserWriteStep ==
    ASSUME IInv, NEW b \in Bevs, UserWrite(b)
    PROVE  IInv'
<1>1. Call("basic", b) /\ Becomes(On(M, b, Write(bev[b]))) /\ Quiet
  BY DEF UserWrite
<1>2. bev[b].refcnt > 0 /\ lock[b] # "adding" /\ Sound(bev[b], "idle")
  BY <1>1, CallLive
<1>3. Sound(Write(bev[b]), "idle") /\ Kept(Write(bev[b]), bev[b])
  BY <1>2, WriteSound
<1> QED
  BY <1>1, <1>2, <1>3, ChangedKept

LEMMA UserDrainStep ==
    ASSUME IInv, NEW b \in Bevs, UserDrain(b)
    PROVE  IInv'
<1>1. Call("basic", b) /\ Becomes(On(M, b, Drain(bev[b]))) /\ Quiet
  BY DEF UserDrain
<1>2. bev[b].refcnt > 0 /\ lock[b] # "adding" /\ Sound(bev[b], "idle")
  BY <1>1, CallLive
<1>3. Sound(Drain(bev[b]), "idle") /\ Kept(Drain(bev[b]), bev[b])
  BY <1>2, DrainSound
<1> QED
  BY <1>1, <1>2, <1>3, ChangedKept

LEMMA SetTimeoutsStep ==
    ASSUME IInv, NEW b \in Bevs, NEW ds \in SUBSET Dirs, SetTimeouts(b, ds)
    PROVE  IInv'
<1> DEFINE q == be_socket_enable([bev[b] EXCEPT !.tmo = ds], bev[b].pend)
<1>1. Call("timeouts", b) /\ Becomes(On(M, b, q)) /\ Quiet
  BY DEF SetTimeouts
<1>2. bev[b].refcnt > 0 /\ lock[b] # "adding" /\ Sound(bev[b], "idle")
  BY <1>1, CallLive
<1>3. Sound(q, "idle") /\ Kept(q, bev[b])
  BY <1>2, TimeoutsSound
<1> HIDE DEF q
<1> QED
  BY <1>1, <1>2, <1>3, ChangedKept

LEMMA SetWatermarkStep ==
    ASSUME IInv, NEW b \in Bevs, NEW low \in Int, NEW high \in Int, SetWatermark(b, low, high)
    PROVE  IInv'
<1> DEFINE q == SuspendIf([bev[b] EXCEPT !.low = low, !.high = high], "R", "wm",
                          high # 0 /\ bev[b].in >= high)
<1>1. Call("wm", b) /\ Becomes(On(M, b, q)) /\ Quiet
  BY DEF SetWatermark
<1>2. bev[b].refcnt > 0 /\ lock[b] # "adding" /\ Sound(bev[b], "idle")
  BY <1>1, CallLive
<1>3. Sound(q, "idle") /\ Kept(q, bev[b])
  BY <1>2, WatermarkSound
<1> HIDE DEF q
<1> QED
  BY <1>1, <1>2, <1>3, ChangedKept

LEMMA SetRateLimitStep ==
    ASSUME IInv, NEW b \in Bevs, NEW c \in 0..2, SetRateLimit(b, c)
    PROVE  IInv'
<1> DEFINE q == set_rate_limit(bev[b], c)
<1>1. Call("rate", b) /\ Becomes(On(M, b, q)) /\ Quiet
  BY DEF SetRateLimit
<1>2. bev[b].refcnt > 0 /\ lock[b] # "adding" /\ Sound(bev[b], "idle")
  BY <1>1, CallLive
<1>3. Sound(q, "idle") /\ Kept(q, bev[b])
  BY <1>2, SetRateLimitSound
<1> HIDE DEF q
<1> QED
  BY <1>1, <1>2, <1>3, ChangedKept

LEMMA DecrementLimitStep ==
    ASSUME IInv, NEW b \in Bevs, NEW d \in Dirs, NEW n \in Int, DecrementLimit(b, d, n)
    PROVE  IInv'
<1> DEFINE q == decrement_limit(bev[b], d, n)
<1>1. Call("rate", b) /\ bev[b].cfg # 0 /\ Becomes(On(M, b, q)) /\ Quiet
  BY DEF DecrementLimit
<1>2. bev[b].refcnt > 0 /\ lock[b] # "adding" /\ Sound(bev[b], "idle")
  BY <1>1, CallLive
<1>3. Sound(q, "idle") /\ Kept(q, bev[b])
  BY <1>1, <1>2, DecrementLimitSound
<1> HIDE DEF q
<1> QED
  BY <1>1, <1>2, <1>3, ChangedKept

LEMMA SetFdStep ==
    ASSUME IInv, NEW b \in Bevs, NEW fd \in BOOLEAN, SetFd(b, fd)
    PROVE  IInv'
<1> DEFINE q == be_socket_setfd(bev[b], fd)
<1>1. Call("connect", b) /\ ~bev[b].connecting /\ Becomes(On(M, b, q)) /\ Quiet
  BY DEF SetFd
<1>2. bev[b].refcnt > 0 /\ lock[b] # "adding" /\ Sound(bev[b], "idle")
  BY <1>1, CallLive
<1>3. Sound(q, "idle") /\ Kept(q, bev[b])
  BY <1>1, <1>2, SetFdSound
<1> HIDE DEF q
<1> QED
  BY <1>1, <1>2, <1>3, ChangedKept

LEMMA DisableHardStep ==
    ASSUME IInv, NEW b \in Bevs, DisableHard(b)
    PROVE  IInv'
<1> DEFINE q == disable_hard(bev[b], Dirs)
<1>1. Call("connect", b) /\ Becomes(On(M, b, q)) /\ Quiet
  BY DEF DisableHard
<1>2. bev[b].refcnt > 0 /\ lock[b] # "adding" /\ Sound(bev[b], "idle")
  BY <1>1, CallLive
<1>3. /\ Sound(q, "idle") /\ Held(q) = Held(bev[b]) /\ q.refcnt = bev[b].refcnt
      /\ q.lookup = bev[b].lookup /\ q.susp = bev[b].susp
  BY <1>2, DisableHardSound
<1> HIDE DEF q
<1> QED
  BY <1>1, <1>2, <1>3, Changed

LEMMA RefillStep ==
    ASSUME IInv, NEW b \in Bevs, Refill(b)
    PROVE  IInv'
<1> DEFINE q == refill(bev[b])
<1>1. LoopMayRun(b) /\ bev[b].cfg # 0 /\ Becomes(On(M, b, q)) /\ Quiet
  BY DEF Refill
<1>2. bev[b].refcnt > 0 /\ lock[b] # "adding" /\ Sound(bev[b], "idle")
  BY <1>1, LoopLive
<1>3. Sound(q, "idle") /\ Kept(q, bev[b])
  BY <1>1, <1>2, RefillSound
<1> HIDE DEF q
<1> QED
  BY <1>1, <1>2, <1>3, ChangedKept

(* How many hold a reference, before and after one more does.               *)
LEMMA HoldersMore ==
    ASSUME NEW l, NEW k, NEW s
    PROVE  /\ ~l => \A x : x => Holders(x, k, s) = Holders(l, k, s) + 1
           /\ Holders(l, "user", s) = Holders(l, "free", s) + 1
           /\ Holders(l, "adding", s) = Holders(l, "free", s)
           /\ s # "idle" => Holders(l, k, s) = Holders(l, k, "idle") + 1
  BY DEF Holders, Bit

LEMMA GetMaxStep ==
    ASSUME IInv, NEW b \in Bevs, NEW d \in Dirs, GetMax(b, d)
    PROVE  IInv'
<1> DEFINE k == Holders(bev[b].lookup, lock[b], stage[b])
<1> DEFINE l == bev[b].lookup
<1> DEFINE m == get_rlim_max(M, b, d).m
<1>1. Call("rate", b) /\ Becomes(m) /\ Quiet
  BY DEF GetMax
<1>2. bev[b].refcnt > 0 /\ lock[b] # "adding"
  BY <1>1, CallLive
<1>3. Mid(M, b, "idle", k, l)
  BY <1>2, Start
<1> HIDE DEF k, l
<1>4. Mid(m, b, "idle", k, l)
  BY <1>3, MaxMid
<1> HIDE DEF m
<1>5. AllGood(m, lock, stage)
  BY <1>2, <1>4, Settle DEF k, l
<1> QED
  BY <1>1, <1>5, QuietClosed

LEMMA FreeStep ==
    ASSUME IInv, NEW b \in Bevs, Free(b)
    PROVE  IInv'
<1> DEFINE k == Holders(bev[b].lookup, lock[b], stage[b])
<1> DEFINE l == bev[b].lookup
<1> DEFINE r == bev[b]
<1> DEFINE q == [r EXCEPT !.cbs = FALSE, !.user = FALSE]
<1> DEFINE n == On(M, b, q)
<1>1. Call("free", b) /\ Becomes(bufferevent_free(M, b)) /\ Quiet /\ r.user
  BY DEF Free, Call
<1>2. r.refcnt > 0 /\ lock[b] # "adding" /\ M.bev[b] = r
  BY <1>1, CallLive
<1>3. Mid(M, b, "idle", k, l) /\ k \in Int
  BY <1>2, Start, HoldersNat
<1>4. bufferevent_free(M, b) = decref(n, b)
  BY <1>2 DEF bufferevent_free
<1> HIDE DEF k, l
<1>5. /\ r \in Bevent /\ r.refcnt \in Int /\ r.refcnt = k + Bit(r.user) + Bit(r.queued)
      /\ Bit(r.queued) \in {0, 1} /\ Bit(r.user) = 1
  <2>1. Bit(r.user) = 1
    BY <1>1, BitValue
  <2> QED
    BY <1>2, <1>3, <2>1, MidCount
<1>6. q \in Bevent /\ Same(q, r) /\ q.refcnt = r.refcnt /\ ~q.user /\ q.queued = r.queued
  BY <1>5 DEF Bevent, Same
<1> HIDE DEF q
<1>7. Bit(q.user) = 0 /\ q.refcnt = r.refcnt /\ q.queued = r.queued
  BY <1>6, BitValue
<1>8. Held(q) = k + 1
  <2>1. Held(q) = r.refcnt - 0 - Bit(r.queued)
    BY <1>7 DEF Held
  <2>2. r.refcnt = k + 1 + Bit(r.queued) /\ Bit(r.queued) \in {0, 1}
    BY <1>5
  <2> QED
    BY <1>3, <2>1, <2>2
<1>9. Mid(n, b, "idle", k + 1, l)
  <2>1. Mid(n, b, "idle", Held(q), l)
    BY <1>2, <1>3, <1>6, SameMid
  <2> QED
    BY <1>8, <2>1
<1> HIDE DEF n
<1>10. AllGood(decref(n, b), lock, stage)
  <2>1. k + 1 = Holders(l, lock[b], stage[b]) + 1
    BY DEF k, l
  <2> QED
    BY <1>2, <1>9, <2>1, Release
<1> QED
  BY <1>1, <1>4, <1>10, QuietClosed

(* What a handler of the loop leaves that has a reference of its own.       *)
LEMMA LoopRelease ==
    ASSUME IInv, NEW b \in Bevs, LoopMayRun(b), NEW n, NEW k, NEW l,
           Mid(n, b, "idle", k + 1, l), k = Holders(l, lock[b], stage[b])
    PROVE  AllGood(decref(n, b), lock, stage)
<1>1. lock[b] # "adding"
  BY LoopLive
<1> DEFINE h == k + 1
<1>2. h = Holders(l, lock[b], stage[b]) + 1 /\ Mid(n, b, "idle", h, l)
  OBVIOUS
<1> HIDE DEF h
<1> QED
  BY <1>1, <1>2, Release

LEMMA TimeoutStep ==
    ASSUME IInv, NEW b \in Bevs, NEW d \in Dirs, NEW act, Timeout(b, d, act)
    PROVE  IInv'
<1> DEFINE k == Holders(bev[b].lookup, lock[b], stage[b])
<1> DEFINE l == bev[b].lookup
<1> DEFINE h == k + 1
<1> DEFINE i == incref(bev[b])
<1> DEFINE q == disable(i, {d})
<1> DEFINE n == On(M, b, q)
<1> DEFINE m == run_cb(n, b, "end", act)
<1>1. LoopMayRun(b) /\ Becomes(decref(m, b)) /\ Quiet
  BY DEF Timeout
<1>2. bev[b].refcnt > 0 /\ lock[b] # "adding" /\ Sound(bev[b], "idle") /\ M.bev[b] = bev[b]
  BY <1>1, LoopLive
<1>3. Mid(M, b, "idle", k, l) /\ k \in Int /\ k >= 0 /\ h \in Int /\ h >= 1
  BY <1>2, Start, HoldersNat
<1> HIDE DEF k, l
<1>4. bev[b].refcnt \in Int /\ Held(bev[b]) = k /\ bev[b].lookup = l
  BY <1>2, <1>3, MidCount DEF Mid
<1>5. Sound(i, "idle") /\ Same(i, bev[b]) /\ i.refcnt = bev[b].refcnt + 1 /\ Held(i) = Held(bev[b]) + 1
  BY <1>2, IncrefSound
<1> HIDE DEF i
<1>6. Sound(q, "idle") /\ Kept(q, i)
  <2>1. {d} \in SUBSET Dirs
    OBVIOUS
  <2> QED
    BY <1>5, <2>1, DisableSound
<1> HIDE DEF q
<1>7. /\ q.refcnt = bev[b].refcnt + 1 /\ Held(q) = h /\ q.lookup = l
      /\ \A e \in Dirs : "group" \in q.susp[e] => "group" \in bev[b].susp[e]
  BY <1>4, <1>5, <1>6 DEF Kept, Held, Same
<1>8. q.refcnt > 0
  BY <1>2, <1>4, <1>7
<1> HIDE DEF h
<1>9. Mid(n, b, "idle", h, l)
  BY <1>2, <1>3, <1>6, <1>7, <1>8, OnMid
<1> HIDE DEF n
<1>10. Mid(m, b, "idle", h, l)
  BY <1>3, <1>9, RunCbMid
<1> HIDE DEF m
<1>11. AllGood(decref(m, b), lock, stage)
  <2>1. Mid(m, b, "idle", k + 1, l) /\ k = Holders(l, lock[b], stage[b])
    BY <1>10 DEF h, k, l
  <2> QED
    BY <1>1, <2>1, LoopRelease
<1> QED
  BY <1>1, <1>11, QuietClosed

LEMMA HandledClosed ==
    ASSUME IInv, NEW x, NEW res, Handled(x, res), AllGood(x.m, lock, stage)
    PROVE  IInv'
<1>1. /\ bev' = x.m.bev /\ grp' = x.m.grp /\ lock' = lock /\ stage' = stage
      /\ emptyIO' = (emptyIO \/ (x.io /\ x.max = 0))
  BY DEF Handled, Becomes
<1>2. /\ lock \in [Bevs -> {"free", "user", "adding"}]
      /\ stage \in [Bevs -> {"idle", "connected", "read", "write", "end"}]
      /\ emptyIO' \in BOOLEAN
  BY <1>1 DEF IInv, TypeOK
<1>3. AllGood(x.m, lock', stage')
  BY <1>1
<1> DEFINE m == x.m
<1> HIDE DEF m
<1> QED
  BY <1>1, <1>2, <1>3, Closed

LEMMA ReadReadyStep ==
    ASSUME IInv, NEW b \in Bevs, NEW res \in Int, NEW act, ReadReady(b, res, act)
    PROVE  IInv'
<1> DEFINE k == Holders(bev[b].lookup, lock[b], stage[b])
<1> DEFINE l == bev[b].lookup
<1> DEFINE h == k + 1
<1> DEFINE n == On(M, b, incref(M.bev[b]))
<1> DEFINE m == ReadBody(n, b, res, act)
<1> DEFINE x == readcb(M, b, res, act)
<1>1. LoopMayRun(b) /\ Handled(x, res)
  BY DEF ReadReady
<1>2. bev[b].refcnt > 0 /\ lock[b] # "adding"
  BY <1>1, LoopLive
<1>3. Mid(M, b, "idle", k, l) /\ k \in Int /\ k >= 0 /\ h \in Int /\ h >= 1
  BY <1>2, Start, HoldersNat
<1> HIDE DEF k, l
<1>4. Mid(n, b, "idle", k + 1, l) /\ n.bev[b] = incref(M.bev[b])
  BY <1>3, IncrefMid
<1>5. x.m = decref(m, b)
  BY <1>4 DEF readcb, ReadBody
<1> HIDE DEF n, x
<1>6. Mid(m, b, "idle", h, l)
  <2>1. Mid(n, b, "idle", h, l)
    BY <1>4
  <2> HIDE DEF h
  <2> QED
    BY <1>2, <1>3, <2>1, ReadBodyMid
<1> HIDE DEF m
<1>7. AllGood(x.m, lock, stage)
  <2>1. Mid(m, b, "idle", k + 1, l) /\ k = Holders(l, lock[b], stage[b])
    BY <1>6 DEF k, l
  <2> QED
    BY <1>1, <1>5, <2>1, LoopRelease
<1> QED
  BY <1>1, <1>7, HandledClosed

LEMMA WriteReadyStep ==
    ASSUME IInv, NEW b \in Bevs, NEW c \in {"yes", "no", "wait"}, NEW res \in Int, res >= -1,
           NEW act1, NEW act, WriteReady(b, c, res, act1, act)
    PROVE  IInv'
<1> DEFINE k == Holders(bev[b].lookup, lock[b], stage[b])
<1> DEFINE l == bev[b].lookup
<1> DEFINE x == writecb(M, b, c, res, act1, act)
<1>1. LoopMayRun(b) /\ Handled(x, res) /\ (bev[b].active => c # "wait")
  BY DEF WriteReady
<1>2. bev[b].refcnt > 0 /\ lock[b] # "adding" /\ M.bev[b] = bev[b]
  BY <1>1, LoopLive
<1>3. Mid(M, b, "idle", k, l) /\ k \in Int /\ k >= 0
  BY <1>2, Start, HoldersNat
<1> HIDE DEF k, l
<1>4. PICK n : Mid(n, b, "idle", k + 1, l) /\ x.m = decref(n, b)
  BY <1>1, <1>2, <1>3, WriteCb
<1> HIDE DEF x
<1>5. AllGood(x.m, lock, stage)
  <2>1. k = Holders(l, lock[b], stage[b])
    BY DEF k, l
  <2> QED
    BY <1>1, <1>4, <2>1, LoopRelease
<1> QED
  BY <1>1, <1>5, HandledClosed

(* Connecting: what bufferevent_socket_connect does under its reference.    *)
ConnectBody(m, b, x, act) ==
    CASE x = "nosocket" -> On(m, b, incref(m.bev[b]))
      [] x = "fails" -> run_cb(On(m, b, incref(m.bev[b])), b, "end", act)
      [] OTHER -> On(m, b, StartConnect(incref(m.bev[b]), x))

LEMMA ConnectBodyMid ==
    ASSUME NEW m, NEW b \in Bevs, NEW k \in Int, NEW l, Mid(m, b, "idle", k, l), k >= 0,
           NEW x \in {"nosocket", "fails", "wait", "done", "refused"}, NEW act
    PROVE  Mid(ConnectBody(m, b, x, act), b, "idle", k + 1, l)
<1> DEFINE r == m.bev[b]
<1> DEFINE i == incref(r)
<1> DEFINE h == k + 1
<1>1. Sound(r, "idle") /\ r.refcnt \in Int /\ r.refcnt > 0 /\ Held(r) = k /\ r.lookup = l
  BY MidCount DEF Mid
<1>2. Mid(On(m, b, i), b, "idle", h, l) /\ h \in Int /\ h >= 1
  BY IncrefMid
<1>3. Sound(i, "idle") /\ Same(i, r) /\ i.refcnt = r.refcnt + 1 /\ Held(i) = Held(r) + 1
  BY <1>1, IncrefSound
<1>4. CASE x = "fails"
  <2>1. ConnectBody(m, b, x, act) = run_cb(On(m, b, i), b, "end", act)
    BY <1>4 DEF ConnectBody
  <2> HIDE DEF i, h
  <2>2. Mid(run_cb(On(m, b, i), b, "end", act), b, "idle", h, l)
    BY <1>2, RunCbMid
  <2> QED
    BY <2>1, <2>2 DEF h
<1>5. CASE x \notin {"nosocket", "fails"}
  <2> DEFINE q == StartConnect(i, x)
  <2>1. ConnectBody(m, b, x, act) = On(m, b, q)
    BY <1>5 DEF ConnectBody
  <2> HIDE DEF i
  <2>2. Sound(q, "idle") /\ Counted(q, i)
    BY <1>3, <1>5, StartConnectSound
  <2> HIDE DEF q
  <2>3. /\ q.refcnt = r.refcnt + 1 /\ Held(q) = h /\ q.lookup = l
        /\ \A d \in Dirs : "group" \in q.susp[d] => "group" \in r.susp[d]
    BY <1>1, <1>3, <2>2 DEF Counted, Held, Same
  <2>4. q.refcnt > 0
    BY <1>1, <2>3
  <2> HIDE DEF h
  <2>5. Mid(On(m, b, q), b, "idle", h, l)
    BY <2>2, <2>3, <2>4, OnMid
  <2> QED
    BY <2>1, <2>5 DEF h
<1>6. CASE x = "nosocket"
  <2>1. ConnectBody(m, b, x, act) = On(m, b, i)
    BY <1>6 DEF ConnectBody
  <2> QED
    BY <1>2, <2>1
<1> QED
  BY <1>4, <1>5, <1>6

LEMMA ConnectStep ==
    ASSUME IInv, NEW b \in Bevs, NEW x \in {"nosocket", "fails", "wait", "done", "refused"}, NEW act,
           Connect(b, x, act)
    PROVE  IInv'
<1> DEFINE k == Holders(bev[b].lookup, lock[b], stage[b])
<1> DEFINE l == bev[b].lookup
<1> DEFINE h == k + 1
<1> DEFINE n == ConnectBody(M, b, x, act)
<1>1. Call("connect", b) /\ Becomes(decref(n, b)) /\ Quiet
  BY DEF Connect, socket_connect, ConnectBody
<1>2. bev[b].refcnt > 0 /\ lock[b] # "adding"
  BY <1>1, CallLive
<1>3. Mid(M, b, "idle", k, l) /\ k \in Int /\ k >= 0
  BY <1>2, Start, HoldersNat
<1> HIDE DEF k, l
<1>4. Mid(n, b, "idle", h, l)
  BY <1>3, ConnectBodyMid
<1>5. h = Holders(l, lock[b], stage[b]) + 1
  BY DEF k, l
<1> HIDE DEF n, h
<1>6. AllGood(decref(n, b), lock, stage)
  BY <1>2, <1>4, <1>5, Release
<1> QED
  BY <1>1, <1>6, QuietClosed

LEMMA ConnectHostnameStep ==
    ASSUME IInv, NEW b \in Bevs, ConnectHostname(b)
    PROVE  IInv'
<1> DEFINE k == Holders(bev[b].lookup, lock[b], stage[b])
<1> DEFINE r == bev[b]
<1> DEFINE q == [incref(suspend(suspend(r, "W", "lookup"), "R", "lookup")) EXCEPT !.lookup = TRUE]
<1>1. Call("connect", b) /\ Becomes(On(M, b, q)) /\ Quiet /\ ~r.lookup
  BY DEF ConnectHostname
<1>2. r.refcnt > 0 /\ lock[b] # "adding" /\ Sound(r, "idle") /\ M.bev[b] = r
  BY <1>1, CallLive
<1>3. Mid(M, b, "idle", k, r.lookup) /\ k \in Int /\ k >= 0
  BY <1>2, Start, HoldersNat
<1>4. /\ Sound(q, "idle") /\ q.lookup = TRUE
      /\ q.refcnt = r.refcnt + 1 /\ Held(q) = Held(r) + 1
      /\ \A d \in Dirs : "group" \in q.susp[d] => "group" \in r.susp[d]
  BY <1>2, LookupSound
<1> HIDE DEF q
<1> DEFINE l == q.lookup
<1>5. Holders(l, lock[b], stage[b]) = k + 1
  BY <1>1, <1>4, HoldersMore
<1> HIDE DEF k, l
<1>6. r.refcnt \in Int /\ Held(r) = k
  BY <1>2, <1>3, MidCount DEF Mid
<1>7. Held(q) = Holders(l, lock[b], stage[b]) /\ q.refcnt > 0 /\ q.lookup = l
  BY <1>2, <1>4, <1>5, <1>6 DEF l
<1> DEFINE h == Held(q)
<1>8. Mid(On(M, b, q), b, "idle", h, l)
  BY <1>2, <1>3, <1>4, <1>7, OnMid
<1>9. h = Holders(l, lock[b], stage[b])
  BY <1>7
<1> HIDE DEF h
<1>10. AllGood(On(M, b, q), lock, stage)
  BY <1>2, <1>8, <1>9, Settle
<1> QED
  BY <1>1, <1>10, QuietClosed

LEMMA LookupDoneStep ==
    ASSUME IInv, NEW b \in Bevs, NEW x \in {"unknown", "nosocket", "fails", "wait", "done", "refused"}, NEW act,
           LookupDone(b, x, act)
    PROVE  IInv'
<1> DEFINE h == Holders(bev[b].lookup, lock[b], stage[b])
<1> DEFINE r == bev[b]
<1> DEFINE q == [unsuspend(unsuspend(r, "W", "lookup"), "R", "lookup") EXCEPT !.lookup = FALSE]
<1> DEFINE m == On(M, b, q)
<1> DEFINE n == IF x = "unknown" THEN run_cb(m, b, "end", act)
                ELSE decref(ConnectBody(m, b, x, act), b)
<1>1. LoopMayRun(b) /\ Becomes(decref(n, b)) /\ Quiet /\ r.lookup
  BY DEF LookupDone, socket_connect, ConnectBody
<1>2. r.refcnt > 0 /\ lock[b] # "adding" /\ Sound(r, "idle") /\ M.bev[b] = r
  BY <1>1, LoopLive
<1>3. Mid(M, b, "idle", h, r.lookup) /\ h \in Int
  BY <1>2, Start, HoldersNat
<1>4. /\ Sound(q, "idle") /\ q.lookup = FALSE /\ q.refcnt = r.refcnt /\ Held(q) = Held(r)
      /\ \A d \in Dirs : "group" \in q.susp[d] => "group" \in r.susp[d]
  BY <1>2, LookupDoneSound
<1> HIDE DEF q
<1> DEFINE l == q.lookup
<1> DEFINE k == Holders(l, lock[b], stage[b])
<1>5. h = k + 1 /\ k \in Int /\ k >= 0
  <2>1. ~l /\ bev[b].lookup
    BY <1>1, <1>4
  <2>2. k \in Int /\ k >= 0
    BY HoldersNat
  <2> HIDE DEF l
  <2>3. h = k + 1
    <3>1. Bit(l) = 0 /\ Bit(bev[b].lookup) = 1
      BY <2>1, BitValue
    <3>2. Bit(lock[b] = "user") \in {0, 1} /\ Bit(stage[b] # "idle") \in {0, 1}
      BY DEF Bit
    <3> QED
      BY <3>1, <3>2 DEF Holders
  <2> QED
    BY <2>2, <2>3
<1> HIDE DEF h, l
<1>6. Held(q) = h /\ q.refcnt > 0 /\ q.lookup = l
  BY <1>2, <1>3, <1>4 DEF Mid, l
<1>7. Mid(m, b, "idle", h, l)
  BY <1>2, <1>3, <1>4, <1>6, OnMid
<1>8. h \in Int /\ h >= 1
  BY <1>3, <1>5
<1> HIDE DEF m, k
<1>9. Mid(n, b, "idle", h, l)
  <2>1. CASE x = "unknown"
    <3>1. n = run_cb(m, b, "end", act)
      BY <2>1
    <3> QED
      BY <1>7, <1>8, <3>1, RunCbMid
  <2>2. CASE x # "unknown"
    <3> DEFINE o == ConnectBody(m, b, x, act)
    <3> DEFINE h1 == h + 1
    <3>1. n = decref(o, b)
      BY <2>2
    <3>2. Mid(o, b, "idle", h1, l)
      BY <1>7, <1>8, <2>2, ConnectBodyMid
    <3>3. h1 \in Int /\ h1 - 1 = h /\ h1 >= 2
      BY <1>8
    <3> HIDE DEF o, h1, n
    <3>4. o.bev[b].refcnt > 1
      <4>1. /\ o.bev[b].refcnt = h1 + Bit(o.bev[b].user) + Bit(o.bev[b].queued)
            /\ Bit(o.bev[b].user) \in {0, 1} /\ Bit(o.bev[b].queued) \in {0, 1}
        BY <3>2, <3>3, MidCount
      <4>2. ASSUME NEW y \in {0, 1}, NEW z \in {0, 1} PROVE h1 + y + z > 1
        BY <3>3
      <4> QED
        BY <4>1, <4>2
    <3>5. Mid(decref(o, b), b, "idle", h1 - 1, l)
      BY <3>2, <3>3, <3>4, DecrefMid
    <3> QED
      BY <3>1, <3>3, <3>5
  <2> QED
    BY <2>1, <2>2
<1> HIDE DEF n
<1>10. AllGood(decref(n, b), lock, stage)
  <2>1. Mid(n, b, "idle", k + 1, l) /\ k = Holders(l, lock[b], stage[b])
    BY <1>5, <1>9 DEF k
  <2> QED
    BY <1>1, <2>1, LoopRelease
<1> QED
  BY <1>1, <1>10, QuietClosed

-----------------------------------------------------------------------------
(* Deferred callbacks and the lock of the user, which hold a reference from *)
(* one step to another.                                                     *)

LEMMA HeldLive ==
    ASSUME IInv, NEW b \in Bevs, lock[b] = "user" \/ stage[b] # "idle"
    PROVE  bev[b].refcnt > 0
<1> DEFINE h == Holders(bev[b].lookup, lock[b], stage[b])
<1>1. Held(bev[b]) = h /\ bev[b].refcnt \in Int
  BY DEF IInv, TypeOK, Bevent
<1>2. Bit(bev[b].user) \in {0, 1} /\ Bit(bev[b].queued) \in {0, 1} /\ Bit(bev[b].lookup) \in {0, 1}
  BY BitValue
<1>3. h \in Int /\ h >= 1
  <2>1. /\ Bit(lock[b] = "user") \in {0, 1} /\ Bit(stage[b] # "idle") \in {0, 1}
        /\ Bit(lock[b] = "user") = 1 \/ Bit(stage[b] # "idle") = 1
    BY DEF Bit
  <2> QED
    BY <1>2, <2>1 DEF Holders
<1>4. bev[b].refcnt - Bit(bev[b].user) - Bit(bev[b].queued) = h
  BY <1>1 DEF Held
<1> HIDE DEF h
<1>5. ASSUME NEW x \in Int, NEW y \in {0, 1}, NEW z \in {0, 1}, x - y - z = h PROVE x > 0
  BY <1>3, <1>5
<1> QED
  BY <1>1, <1>2, <1>4, <1>5

LEMMA DeferStartStep ==
    ASSUME IInv, NEW b \in Bevs, DeferStart(b)
    PROVE  IInv'
<1> DEFINE k == Holders(bev[b].lookup, lock[b], stage[b])
<1> DEFINE r == bev[b]
<1> DEFINE l == r.lookup
<1> DEFINE q == [r EXCEPT !.queued = FALSE]
<1> DEFINE n == On(M, b, q)
<1> DEFINE sg == [stage EXCEPT ![b] = "connected"]
<1>1. /\ LoopMayRun(b) /\ r.queued /\ bev' = n.bev /\ grp' = n.grp /\ lock' = lock /\ emptyIO' = emptyIO
      /\ stage' = sg
  BY DEF DeferStart, Becomes, Order
<1>2. r.refcnt > 0 /\ lock[b] # "adding" /\ stage[b] = "idle" /\ M.bev[b] = r
  BY <1>1, LoopLive
<1>3. Mid(M, b, "idle", k, l) /\ k \in Int /\ k >= 0
  BY <1>2, Start, HoldersNat
<1>4. k = Holders(l, lock[b], "idle")
  BY <1>2
<1> HIDE DEF k, l
<1>5. /\ r \in Bevent /\ r.refcnt \in Int /\ r.refcnt = k + Bit(r.user) + Bit(r.queued)
      /\ Bit(r.user) \in {0, 1} /\ Bit(r.queued) = 1
  <2>1. Bit(r.queued) = 1
    BY <1>1, BitValue
  <2> QED
    BY <1>2, <1>3, <2>1, MidCount
<1>6. q \in Bevent /\ Same(q, r) /\ q.refcnt = r.refcnt /\ ~q.queued /\ q.user = r.user
  BY <1>5 DEF Bevent, Same
<1> HIDE DEF q
<1>7. Held(q) = k + 1
  <2>1. Bit(q.queued) = 0 /\ q.refcnt = r.refcnt /\ q.user = r.user
    BY <1>6, BitValue
  <2>2. Held(q) = r.refcnt - Bit(r.user) - 0
    BY <2>1 DEF Held
  <2>3. r.refcnt = k + Bit(r.user) + 1 /\ Bit(r.user) \in {0, 1}
    BY <1>5
  <2> QED
    BY <1>3, <2>2, <2>3
<1>8. Mid(n, b, "idle", k + 1, l)
  <2>1. Mid(n, b, "idle", Held(q), l)
    BY <1>2, <1>3, <1>6, SameMid
  <2> QED
    BY <1>7, <2>1
<1> HIDE DEF n
<1>9. stage \in [Bevs -> {"idle", "connected", "read", "write", "end"}]
  BY DEF IInv, TypeOK
<1>10. /\ sg \in [Bevs -> {"idle", "connected", "read", "write", "end"}] /\ sg[b] = "connected"
       /\ \A c \in Bevs : c # b => sg[c] = stage[c]
  BY <1>9
<1> HIDE DEF sg
<1>11. AllGood(n, lock, sg)
  <2> DEFINE h == k + 1
  <2>1. h = Holders(l, lock[b], sg[b])
    BY <1>4, <1>10, HoldersMore
  <2>2. Mid(n, b, "idle", h, l)
    BY <1>8
  <2> HIDE DEF h
  <2> QED
    BY <1>2, <1>10, <2>1, <2>2, Settle
<1>12. lock \in [Bevs -> {"free", "user", "adding"}] /\ emptyIO \in BOOLEAN
  BY DEF IInv, TypeOK
<1> QED
  BY <1>1, <1>10, <1>11, <1>12, Closed

LEMMA DeferStepStep ==
    ASSUME IInv, NEW b \in Bevs, NEW act, DeferStep(b, act)
    PROVE  IInv'
<1> DEFINE k == Holders(bev[b].lookup, lock[b], stage[b])
<1> DEFINE r == bev[b]
<1> DEFINE l == r.lookup
<1> DEFINE i == CHOOSE j \in DOMAIN Order : Order[j] = stage[b]
<1> DEFINE p == r.pending \ {stage[b]}
<1> DEFINE q == [r EXCEPT !.pending = p]
<1> DEFINE m == IF stage[b] \in r.pending /\ r.cbs THEN Act(On(M, b, q), b, act) ELSE M
<1> DEFINE s == IF i = Len(Order) THEN "idle" ELSE Order[i + 1]
<1> DEFINE sg == [stage EXCEPT ![b] = s]
<1> DEFINE n == IF i = Len(Order) THEN decref(m, b) ELSE m
<1>1. /\ stage[b] # "idle" /\ lock[b] = "free" /\ bev' = n.bev /\ grp' = n.grp /\ lock' = lock
      /\ emptyIO' = emptyIO /\ stage' = sg
  BY DEF DeferStep, Becomes
<1>2. r.refcnt > 0
  BY <1>1, HeldLive
<1>3. /\ stage \in [Bevs -> {"idle", "connected", "read", "write", "end"}]
      /\ lock \in [Bevs -> {"free", "user", "adding"}] /\ emptyIO \in BOOLEAN
      /\ M.bev = bev
  BY Opened DEF IInv, TypeOK
<1>4. /\ s \in {"idle", "read", "write", "end"}
      /\ i = Len(Order) => s = "idle"
      /\ i # Len(Order) => s # "idle"
  <2>1. DOMAIN Order = 1..4 /\ Len(Order) = 4
    BY DEF Order
  <2>2. /\ Order[1] = "connected" /\ Order[2] = "read" /\ Order[3] = "write" /\ Order[4] = "end"
    BY DEF Order
  <2>3. \E j \in 1..4 : Order[j] = stage[b]
    <3>1. \/ Order[1] = stage[b] \/ Order[2] = stage[b] \/ Order[3] = stage[b] \/ Order[4] = stage[b]
      BY <1>1, <1>3, <2>2
    <3> QED
      BY <3>1
  <2>4. i \in 1..4
    BY <2>1, <2>3
  <2> HIDE DEF i
  <2>5. i # 4 => s = Order[2] \/ s = Order[3] \/ s = Order[4]
    <3>1. i # 4 => i + 1 = 2 \/ i + 1 = 3 \/ i + 1 = 4
      BY <2>4
    <3>2. i # 4 => s = Order[i + 1]
      BY <2>1
    <3> QED
      BY <3>1, <3>2
  <2> QED
    BY <2>1, <2>2, <2>5
<1> HIDE DEF i, s
<1>5. Mid(M, b, "idle", k, l) /\ k \in Int /\ k >= 0
  BY <1>2, Start, HoldersNat
<1>6. k = Holders(l, lock[b], "idle") + 1
  BY <1>1, HoldersMore
<1>7. Holders(l, lock[b], "idle") \in Int /\ Holders(l, lock[b], "idle") >= 0
  BY HoldersNat
<1> HIDE DEF k, l
<1>8. k >= 1
  BY <1>6, <1>7
<1>9. Mid(m, b, "idle", k, l)
  <2>1. r \in Bevent /\ p \in SUBSET {"connected", "read", "write", "end"} /\ Held(r) = k
    BY <1>3, <1>5 DEF Mid, Sound, Bevent
  <2> HIDE DEF p
  <2>2. q \in Bevent /\ Same(q, r) /\ q.refcnt = r.refcnt /\ q.queued = r.queued /\ q.user = r.user
    BY <2>1 DEF Bevent, Same
  <2> HIDE DEF q
  <2>3. Held(q) = k /\ q.refcnt > 0
    BY <1>2, <2>1, <2>2 DEF Held
  <2>4. Mid(On(M, b, q), b, "idle", k, l)
    <3>1. Mid(On(M, b, q), b, "idle", Held(q), l)
      BY <1>3, <1>5, <2>2, <2>3, SameMid
    <3> QED
      BY <2>3, <3>1
  <2>5. Mid(Act(On(M, b, q), b, act), b, "idle", k, l)
    BY <1>5, <1>8, <2>4, ActMid
  <2> QED
    BY <1>5, <2>5
<1> HIDE DEF m
<1>10. /\ sg \in [Bevs -> {"idle", "connected", "read", "write", "end"}] /\ sg[b] = s
       /\ \A c \in Bevs : c # b => sg[c] = stage[c]
  BY <1>3, <1>4
<1> HIDE DEF sg
<1>11. AllGood(n, lock, sg)
  <2>1. CASE i = Len(Order)
    <3>1. n = decref(m, b) /\ sg[b] = "idle"
      BY <1>4, <1>10, <2>1
    <3>2. k = Holders(l, lock[b], sg[b]) + 1
      BY <1>6, <3>1
    <3> QED
      BY <1>1, <1>9, <1>10, <3>1, <3>2, Release
  <2>2. CASE i # Len(Order)
    <3>1. n = m /\ sg[b] # "idle"
      BY <1>4, <1>10, <2>2
    <3>2. k = Holders(l, lock[b], sg[b])
      BY <1>6, <3>1, HoldersMore
    <3> QED
      BY <1>1, <1>9, <1>10, <3>1, <3>2, Settle
  <2> QED
    BY <2>1, <2>2
<1> HIDE DEF n
<1> QED
  BY <1>1, <1>3, <1>10, <1>11, Closed

LEMMA LockStep ==
    ASSUME IInv, NEW b \in Bevs, Lock(b)
    PROVE  IInv'
<1> DEFINE k == Holders(bev[b].lookup, lock[b], stage[b])
<1> DEFINE l == bev[b].lookup
<1> DEFINE h == k + 1
<1> DEFINE n == On(M, b, incref(M.bev[b]))
<1> DEFINE lk == [lock EXCEPT ![b] = "user"]
<1>1. M.bev = bev
  BY Opened
<1>2. /\ Call("lock", b) /\ lock[b] = "free" /\ bev' = n.bev /\ grp' = n.grp /\ lock' = lk
      /\ stage' = stage /\ emptyIO' = emptyIO
  BY <1>1 DEF Lock, Becomes
<1>3. bev[b].refcnt > 0
  BY <1>2, CallLive
<1>4. Mid(M, b, "idle", k, l) /\ k \in Int
  BY <1>3, Start, HoldersNat
<1>5. k = Holders(l, "free", stage[b])
  BY <1>2
<1> HIDE DEF k, l
<1>6. Mid(n, b, "idle", h, l)
  BY <1>4, IncrefMid
<1>7. /\ lock \in [Bevs -> {"free", "user", "adding"}] /\ emptyIO \in BOOLEAN
      /\ stage \in [Bevs -> {"idle", "connected", "read", "write", "end"}]
  BY DEF IInv, TypeOK
<1>8. /\ lk \in [Bevs -> {"free", "user", "adding"}] /\ lk[b] = "user"
      /\ \A c \in Bevs : c # b => lk[c] = lock[c]
  BY <1>7
<1> HIDE DEF lk, n
<1>9. h = Holders(l, lk[b], stage[b])
  BY <1>5, <1>8, HoldersMore
<1> HIDE DEF h
<1>10. AllGood(n, lk, stage)
  BY <1>6, <1>8, <1>9, Settle
<1> QED
  BY <1>2, <1>7, <1>8, <1>10, Closed

LEMMA UnlockStep ==
    ASSUME IInv, NEW b \in Bevs, Unlock(b)
    PROVE  IInv'
<1> DEFINE k == Holders(bev[b].lookup, lock[b], stage[b])
<1> DEFINE l == bev[b].lookup
<1> DEFINE n == decref(M, b)
<1> DEFINE lk == [lock EXCEPT ![b] = "free"]
<1>1. /\ lock[b] = "user" /\ bev' = n.bev /\ grp' = n.grp /\ lock' = lk
      /\ stage' = stage /\ emptyIO' = emptyIO
  BY DEF Unlock, Becomes
<1>2. bev[b].refcnt > 0
  BY <1>1, HeldLive
<1>3. Mid(M, b, "idle", k, l)
  BY <1>2, Start
<1>4. k = Holders(l, "free", stage[b]) + 1
  BY <1>1, HoldersMore
<1> HIDE DEF k, l
<1>5. /\ lock \in [Bevs -> {"free", "user", "adding"}] /\ emptyIO \in BOOLEAN
      /\ stage \in [Bevs -> {"idle", "connected", "read", "write", "end"}]
  BY DEF IInv, TypeOK
<1>6. /\ lk \in [Bevs -> {"free", "user", "adding"}] /\ lk[b] = "free"
      /\ \A c \in Bevs : c # b => lk[c] = lock[c]
  BY <1>5
<1> HIDE DEF lk
<1>7. AllGood(n, lk, stage)
  <2>1. k = Holders(l, lk[b], stage[b]) + 1
    BY <1>4, <1>6
  <2> QED
    BY <1>3, <1>6, <2>1, Release
<1> HIDE DEF n
<1> QED
  BY <1>1, <1>5, <1>6, <1>7, Closed

-----------------------------------------------------------------------------
(* The group.                                                               *)

LEMMA CarriesAll ==
    ASSUME NEW m, AllGood(m, lock, stage), NEW n, Carries(n, m)
    PROVE  AllGood(n, lock, stage)
<1>1. m \in Memory /\ n \in Memory
  BY DEF AllGood, Carries
<1> QED
  BY <1>1, CarriesGood DEF AllGood

LEMMA LiftGroupAll ==
    ASSUME NEW m, AllGood(m, lock, stage), NEW d \in Dirs
    PROVE  AllGood(LiftGroup(m, d), lock, stage)
<1>1. m \in Memory /\ \A c \in {} : lock[c] # "adding"
  BY DEF AllGood
<1>2. Carries(group_unsuspend(m, {}, d), m)
  BY <1>1, GroupUnsuspendCarries
<1>3. AllGood(group_unsuspend(m, {}, d), lock, stage)
  BY <1>2, CarriesAll
<1> QED
  BY <1>3 DEF LiftGroup

LEMMA GroupRefillStep ==
    ASSUME IInv, GroupRefill
    PROVE  IInv'
<1> DEFINE lim == [d \in Dirs |-> Refilled(M.grp.lim[d], M.grp.cfg, M.grp.age)]
<1> DEFINE g == [M.grp EXCEPT !.lim = lim, !.age = 0]
<1> DEFINE n == [M EXCEPT !.grp = g]
<1> DEFINE z == LiftGroup(LiftGroup(n, "R"), "W")
<1>1. AllGood(M, lock, stage) /\ M \in Memory
  BY Opened DEF AllGood
<1>2. [M EXCEPT !.grp.lim = lim, !.grp.age = 0] = n
  BY <1>1 DEF Memory
<1>3. Becomes(z) /\ Quiet
  BY <1>2 DEF GroupRefill, group_refill
<1>4. M.grp \in Group /\ M.grp.lim \in [Dirs -> Int] /\ M.grp.cfg \in {1, 2} /\ M.grp.age \in Nat
  BY <1>1 DEF Memory, Group
<1> HIDE DEF M
<1>5. lim \in [Dirs -> Int]
  BY <1>4, RefilledPositive
<1> HIDE DEF lim
<1>6. /\ g \in Group /\ g.members = M.grp.members /\ g.susp = M.grp.susp
      /\ g.pending_unsuspend = M.grp.pending_unsuspend
  BY <1>4, <1>5 DEF Group
<1> HIDE DEF g
<1>7. AllGood(n, lock, stage)
  BY <1>1, <1>6, GroupLimCarries, CarriesAll
<1> HIDE DEF n
<1>8. AllGood(z, lock, stage)
  BY <1>7, LiftGroupAll DEF Dirs
<1> HIDE DEF z
<1> QED
  BY <1>3, <1>8, QuietClosed

LEMMA GroupDecrementStep ==
    ASSUME IInv, NEW d \in Dirs, NEW j \in Int, GroupDecrement(d, j)
    PROVE  IInv'
<1> DEFINE v == M.grp.lim[d] - j
<1> DEFINE lim == [M.grp.lim EXCEPT ![d] = v]
<1> DEFINE g == [M.grp EXCEPT !.lim = lim]
<1> DEFINE n == [M EXCEPT !.grp = g]
<1>1. AllGood(M, lock, stage) /\ M \in Memory
  BY Opened DEF AllGood
<1>2. [M EXCEPT !.grp.lim[d] = @ - j] = n
  OBVIOUS
<1>3. /\ \/ Becomes(n) \/ Becomes(group_suspend(n, {}, d)) \/ Becomes(group_unsuspend(n, {}, d))
      /\ Quiet
  BY <1>2 DEF GroupDecrement
<1>4. M.grp \in Group /\ M.grp.lim \in [Dirs -> Int]
  BY <1>1 DEF Memory, Group
<1> HIDE DEF M
<1>5. lim \in [Dirs -> Int]
  BY <1>4
<1> HIDE DEF lim
<1>6. /\ g \in Group /\ g.members = M.grp.members /\ g.susp = M.grp.susp
      /\ g.pending_unsuspend = M.grp.pending_unsuspend
  BY <1>4, <1>5 DEF Group
<1> HIDE DEF g
<1>7. AllGood(n, lock, stage)
  BY <1>1, <1>6, GroupLimCarries, CarriesAll
<1> HIDE DEF n
<1>8. n \in Memory /\ \A c \in {} : lock[c] # "adding"
  BY <1>7 DEF AllGood
<1>9. AllGood(group_suspend(n, {}, d), lock, stage)
  <2>1. Carries(group_suspend(n, {}, d), n)
    BY <1>8, GroupSuspendCarries
  <2> QED
    BY <1>7, <2>1, CarriesAll
<1>10. AllGood(group_unsuspend(n, {}, d), lock, stage)
  <2>1. Carries(group_unsuspend(n, {}, d), n)
    BY <1>8, GroupUnsuspendCarries
  <2> QED
    BY <1>7, <2>1, CarriesAll
<1> QED
  BY <1>3, <1>7, <1>9, <1>10, QuietClosed

LEMMA GroupSetCfgStep ==
    ASSUME IInv, NEW c \in {1, 2}, GroupSetCfg(c)
    PROVE  IInv'
<1> DEFINE lim == [d \in Dirs |-> IF grp.lim[d] > Burst[c] THEN Burst[c] ELSE grp.lim[d]]
<1> DEFINE g == [grp EXCEPT !.cfg = c, !.lim = lim]
<1> DEFINE n == [M EXCEPT !.grp = g]
<1>1. AllGood(M, lock, stage) /\ M \in Memory /\ M.grp = grp /\ M.bev = bev
  BY Opened DEF AllGood
<1>2. grp' = g /\ bev' = bev /\ lock' = lock /\ stage' = stage /\ emptyIO' = emptyIO
  BY DEF GroupSetCfg, Quiet
<1>3. grp \in Group /\ grp.lim \in [Dirs -> Int] /\ Burst[c] \in Int
  BY RateAssumption DEF IInv, TypeOK, Group, ev_token_bucket_cfg_new
<1> HIDE DEF M
<1>4. lim \in [Dirs -> Int]
  BY <1>3
<1> HIDE DEF lim
<1>5. /\ g \in Group /\ g.members = grp.members /\ g.susp = grp.susp
      /\ g.pending_unsuspend = grp.pending_unsuspend
  BY <1>3, <1>4 DEF Group
<1> HIDE DEF g
<1>6. Carries(n, M) /\ n.grp = g
  BY <1>1, <1>5, GroupLimCarries
<1>7. AllGood(n, lock, stage)
  BY <1>1, <1>6, CarriesAll
<1>8. n.bev = bev
  BY <1>1 DEF Memory
<1> HIDE DEF n
<1>9. /\ lock \in [Bevs -> {"free", "user", "adding"}] /\ emptyIO \in BOOLEAN
      /\ stage \in [Bevs -> {"idle", "connected", "read", "write", "end"}]
  BY DEF IInv, TypeOK
<1>10. AllGood(n, lock', stage')
  BY <1>2, <1>7
<1> QED
  BY <1>2, <1>6, <1>8, <1>9, <1>10, Closed

(* Joining: under the lock of the group b learns what is suspended, and     *)
(* until b has been suspended too the group does not forget it.             *)
LEMMA AddToGroupStep ==
    ASSUME IInv, NEW b \in Bevs, AddToGroup(b)
    PROVE  IInv'
<1> DEFINE r == bev[b]
<1> DEFINE j == grp.susp
<1> DEFINE q == [r EXCEPT !.join = j]
<1> DEFINE f == [bev EXCEPT ![b] = q]
<1> DEFINE ms == grp.members \cup {b}
<1> DEFINE g == [grp EXCEPT !.members = ms]
<1> DEFINE lk == [lock EXCEPT ![b] = "adding"]
<1> DEFINE n == [bev |-> f, grp |-> g]
<1>1. /\ Call("group", b) /\ lock[b] = "free" /\ r.user /\ lock' = lk /\ grp' = g /\ bev' = f
      /\ stage' = stage /\ emptyIO' = emptyIO
  BY DEF AddToGroup, Call
<1>2. r.refcnt > 0 /\ Sound(r, "idle")
  BY <1>1, CallLive
<1>3. /\ bev \in [Bevs -> Bevent] /\ grp \in Group /\ emptyIO \in BOOLEAN
      /\ lock \in [Bevs -> {"free", "user", "adding"}]
      /\ stage \in [Bevs -> {"idle", "connected", "read", "write", "end"}]
      /\ \A c \in Bevs : Good(bev[c], c, grp, lock[c], stage[c])
  BY DEF IInv, TypeOK, Good
<1>4. j \in SUBSET Dirs /\ ms \in SUBSET Bevs /\ r \in Bevent /\ r.refcnt \in Int
  BY <1>3 DEF Group, Bevent
<1>5. q \in Bevent /\ q.join = j /\ q.user = r.user /\ q.refcnt = r.refcnt /\ q.queued = r.queued
  <2> HIDE DEF j
  <2> QED
    BY <1>4 DEF Bevent
<1>6. /\ q.susp = r.susp /\ q.lookup = r.lookup
      /\ EventsOK(q, "idle") /\ SuspensionsOK(q)
  BY <1>2, <1>4 DEF Bevent, Sound, EventsOK, SuspensionsOK
<1>7. /\ g \in Group /\ g.members = ms /\ g.susp = grp.susp
      /\ g.pending_unsuspend = grp.pending_unsuspend
  <2> HIDE DEF ms
  <2> QED
    BY <1>3, <1>4 DEF Group
<1>8. b \in ms /\ \A c \in Bevs : c # b => (c \in ms <=> c \in grp.members)
  OBVIOUS
<1> HIDE DEF q, g, ms
<1>9. f \in [Bevs -> Bevent] /\ f[b] = q /\ \A c \in Bevs : c # b => f[c] = bev[c]
  BY <1>3, <1>5
<1>10. /\ lk \in [Bevs -> {"free", "user", "adding"}] /\ lk[b] = "adding"
       /\ \A c \in Bevs : c # b => lk[c] = lock[c]
  BY <1>3
<1> HIDE DEF f, lk
<1>11. Good(q, b, g, lk[b], stage[b])
  <2>1. GroupOK(r, b, grp) /\ Held(r) = Holders(r.lookup, "free", stage[b])
    BY <1>1, <1>2, <1>3, <1>4 DEF Good, BevOK
  <2>2. GroupOK(q, b, g)
    BY <1>6, <1>7, <1>8, <2>1 DEF GroupOK
  <2>3. BevOK(q, b, g)
    BY <1>2, <1>4, <1>5, <1>6, <2>2 DEF BevOK
  <2>4. Held(q) = Holders(q.lookup, lk[b], stage[b])
    <3>1. Held(q) = Held(r)
      BY <1>5 DEF Held
    <3>2. Holders(r.lookup, "adding", stage[b]) = Holders(r.lookup, "free", stage[b])
      BY HoldersMore
    <3> QED
      BY <1>6, <1>10, <2>1, <3>1, <3>2
  <2>5. JoinOK(q, b, g, lk[b])
    BY <1>1, <1>5, <1>7, <1>8 DEF JoinOK
  <2> QED
    BY <2>3, <2>4, <2>5 DEF Good
<1>12. ASSUME NEW c \in Bevs, c # b
       PROVE  Good(f[c], c, g, lk[c], stage[c])
  <2>1. f[c] = bev[c] /\ lk[c] = lock[c] /\ (c \in g.members <=> c \in grp.members)
    BY <1>7, <1>8, <1>9, <1>10, <1>12
  <2>2. Good(bev[c], c, grp, lock[c], stage[c])
    BY <1>3
  <2>3. Good(bev[c], c, g, lock[c], stage[c])
    BY <1>7, <2>1, <2>2 DEF Good, BevOK, GroupOK, DeadOK, JoinOK
  <2> QED
    BY <2>1, <2>3
<1>13. n \in Memory /\ n.bev = f /\ n.grp = g
  BY <1>7, <1>9 DEF Memory
<1> HIDE DEF n
<1>14. AllGood(n, lk, stage)
  BY <1>9, <1>11, <1>12, <1>13 DEF AllGood
<1> QED
  BY <1>1, <1>3, <1>10, <1>13, <1>14, Closed

LEMMA AddToGroupEndsStep ==
    ASSUME IInv, NEW b \in Bevs, AddToGroupEnds(b)
    PROVE  IInv'
<1> DEFINE r == bev[b]
<1> DEFINE x == IF "R" \in r.join THEN suspend(r, "R", "group") ELSE r
<1> DEFINE y == IF "W" \in r.join THEN suspend(x, "W", "group") ELSE x
<1> DEFINE q == [y EXCEPT !.join = {}]
<1> DEFINE n == On(M, b, q)
<1> DEFINE l == r.lookup
<1> DEFINE k == Holders(r.lookup, lock[b], stage[b])
<1> DEFINE lk == [lock EXCEPT ![b] = "free"]
<1>1. /\ lock[b] = "adding" /\ bev' = n.bev /\ grp' = n.grp /\ lock' = lk
      /\ stage' = stage /\ emptyIO' = emptyIO
  BY DEF AddToGroupEnds, Becomes
<1>2. r.user /\ b \in grp.members /\ r.join \subseteq Known(grp) /\ GroupOK(r, b, grp)
  <2>1. JoinOK(r, b, grp, lock[b]) /\ BevOK(r, b, grp)
    BY DEF IInv
  <2>2. r.user /\ b \in grp.members /\ r.join \subseteq Known(grp)
    BY <1>1, <2>1 DEF JoinOK, Known
  <2> QED
    BY <2>1, <2>2, UserLive DEF BevOK
<1>3. r.refcnt > 0 /\ M.bev = bev /\ M.grp = grp
  BY <1>2, UserLive, Opened
<1>4. Mid(M, b, "idle", k, l)
  BY <1>3, Start
<1>5. k = Holders(l, "free", stage[b])
  BY <1>1, HoldersMore
<1> HIDE DEF k, l
<1>6. Sound(r, "idle") /\ Held(r) = k /\ r.lookup = l /\ r \in Bevent /\ M \in Memory /\ Rest(M, b)
  BY <1>3, <1>4 DEF Mid, Sound
<1>7. "R" \in Dirs /\ "W" \in Dirs /\ "group" \in Reasons /\ Alike(r, r)
  BY DEF Dirs, Reasons, Alike
<1>8. /\ Sound(x, "idle") /\ Alike(x, r)
      /\ \A e \in Dirs : "group" \in x.susp[e] => "group" \in r.susp[e] \/ e \in r.join
  <2>1. CASE "R" \in r.join
    <3>1. x = suspend(r, "R", "group")
      BY <2>1
    <3> HIDE DEF x
    <3>2. Sound(x, "idle") /\ Alike(x, r) /\ x.susp = [r.susp EXCEPT !["R"] = @ \cup {"group"}]
      BY <1>6, <1>7, <3>1, SuspendSound
    <3>3. r.susp \in [Dirs -> SUBSET Reasons]
      BY <1>6 DEF Bevent
    <3> QED
      BY <2>1, <3>2, <3>3
  <2>2. CASE "R" \notin r.join
    BY <1>6, <1>7, <2>2
  <2> QED
    BY <2>1, <2>2
<1> HIDE DEF x
<1>9. /\ Sound(y, "idle") /\ Alike(y, x)
      /\ \A e \in Dirs : "group" \in y.susp[e] => "group" \in x.susp[e] \/ e \in r.join
  <2>1. CASE "W" \in r.join
    <3>1. y = suspend(x, "W", "group")
      BY <2>1
    <3> HIDE DEF y
    <3>2. Sound(y, "idle") /\ Alike(y, x) /\ y.susp = [x.susp EXCEPT !["W"] = @ \cup {"group"}]
      BY <1>7, <1>8, <3>1, SuspendSound
    <3>3. x.susp \in [Dirs -> SUBSET Reasons]
      BY <1>8 DEF Sound, Bevent
    <3> QED
      BY <2>1, <3>2, <3>3
  <2>2. CASE "W" \notin r.join
    <3>1. y = x /\ Alike(x, x)
      BY <2>2 DEF Alike
    <3> HIDE DEF y
    <3> QED
      BY <1>8, <3>1
  <2> QED
    BY <2>1, <2>2
<1> HIDE DEF y
<1>10. q \in Bevent
  BY <1>9 DEF Sound, Bevent
<1>11. /\ q.refcnt = y.refcnt /\ q.user = y.user /\ q.queued = y.queued /\ q.lookup = y.lookup
       /\ q.susp = y.susp
  BY <1>9 DEF Sound, Bevent
<1>12. Sound(q, "idle")
  BY <1>9, <1>10 DEF Sound, EventsOK, SuspensionsOK, Bevent
<1> HIDE DEF q
<1>13. /\ q.refcnt = r.refcnt /\ q.refcnt > 0 /\ q.lookup = l /\ Held(q) = k
  BY <1>3, <1>6, <1>8, <1>9, <1>11 DEF Alike, Held
<1>14. GroupOK(q, b, grp)
  <2>1. \A e \in Dirs : "group" \in q.susp[e] => "group" \in r.susp[e] \/ e \in r.join
    BY <1>8, <1>9, <1>11
  <2> QED
    BY <1>2, <2>1 DEF GroupOK, Known
<1>15. n \in Memory /\ n.grp = grp /\ n.bev[b] = q /\ \A c \in Bevs : c # b => n.bev[c] = M.bev[c]
  BY <1>3, <1>6, <1>10, OnValue
<1> HIDE DEF n
<1>16. Rest(n, b)
  BY <1>3, <1>6, <1>15 DEF Rest
<1>17. Mid(n, b, "idle", k, l)
  BY <1>12, <1>13, <1>14, <1>15, <1>16 DEF Mid
<1>18. /\ emptyIO \in BOOLEAN /\ lock \in [Bevs -> {"free", "user", "adding"}]
       /\ stage \in [Bevs -> {"idle", "connected", "read", "write", "end"}]
  BY DEF IInv, TypeOK
<1>19. /\ lk \in [Bevs -> {"free", "user", "adding"}] /\ lk[b] = "free"
       /\ \A c \in Bevs : c # b => lk[c] = lock[c]
  BY <1>18
<1> HIDE DEF lk
<1>20. AllGood(n, lk, stage)
  <2>1. k = Holders(l, lk[b], stage[b])
    BY <1>5, <1>19
  <2> QED
    BY <1>17, <1>19, <2>1, Settle
<1> QED
  BY <1>1, <1>18, <1>19, <1>20, Closed

LEMMA RemoveFromGroupStep ==
    ASSUME IInv, NEW b \in Bevs, RemoveFromGroup(b)
    PROVE  IInv'
<1> DEFINE r == bev[b]
<1> DEFINE x == unsuspend(r, "R", "group")
<1> DEFINE q == unsuspend(x, "W", "group")
<1> DEFINE ms == grp.members \ {b}
<1> DEFINE g == [grp EXCEPT !.members = ms]
<1> DEFINE o == [M EXCEPT !.grp = g]
<1> DEFINE n == On(o, b, q)
<1> DEFINE l == r.lookup
<1> DEFINE k == Holders(r.lookup, lock[b], stage[b])
<1>1. M.bev = bev /\ M.grp = grp
  BY Opened
<1>2. [M EXCEPT !.grp.members = @ \ {b}] = o
  BY <1>1
<1>3. Call("group", b) /\ Becomes(n) /\ Quiet
  BY <1>1, <1>2 DEF RemoveFromGroup, remove_from_group
<1>4. r.refcnt > 0 /\ lock[b] # "adding"
  BY <1>3, CallLive
<1>5. Mid(M, b, "idle", k, l)
  BY <1>4, Start
<1>6. Sound(r, "idle") /\ Held(r) = k /\ r.lookup = l /\ M \in Memory /\ Rest(M, b) /\ r \in Bevent
  BY <1>1, <1>5 DEF Mid, Sound
<1> HIDE DEF k, l, M
<1>7. "R" \in Dirs /\ "W" \in Dirs /\ "group" \in Reasons /\ \A e \in Dirs : e = "R" \/ e = "W"
  BY DEF Dirs, Reasons
<1>8. /\ Sound(x, "idle") /\ Alike(x, r) /\ x.susp = [r.susp EXCEPT !["R"] = @ \ {"group"}]
  BY <1>6, <1>7, UnsuspendSound
<1> HIDE DEF x
<1>9. /\ Sound(q, "idle") /\ Alike(q, x) /\ q.susp = [x.susp EXCEPT !["W"] = @ \ {"group"}]
  <2>1. Sound(x, "idle")
    BY <1>8
  <2> QED
    BY <1>7, <2>1, UnsuspendSound
<1> HIDE DEF q
<1>10. r.susp \in [Dirs -> SUBSET Reasons]
  BY <1>6 DEF Bevent
<1>11. \A e \in Dirs : "group" \notin q.susp[e]
  BY <1>7, <1>8, <1>9, <1>10
<1>12. q.refcnt = r.refcnt /\ q.refcnt > 0 /\ q.lookup = l /\ Held(q) = k
  BY <1>4, <1>6, <1>8, <1>9 DEF Alike, Held
<1>13. grp \in Group /\ ms \in SUBSET Bevs
  BY DEF IInv, TypeOK, Group
<1>14. \A c \in Bevs : c # b => (c \in ms <=> c \in grp.members)
  OBVIOUS
<1> HIDE DEF ms
<1>15. /\ g \in Group /\ g.members = ms /\ g.susp = grp.susp
       /\ g.pending_unsuspend = grp.pending_unsuspend
  BY <1>13 DEF Group
<1> HIDE DEF g
<1>16. o \in Memory /\ o.grp = g /\ o.bev = M.bev
  BY <1>6, <1>15 DEF Memory
<1> HIDE DEF o
<1>17. n \in Memory /\ n.grp = g /\ n.bev[b] = q /\ \A c \in Bevs : c # b => n.bev[c] = o.bev[c]
  BY <1>9, <1>16, OnValue DEF Sound
<1> HIDE DEF n
<1>18. ASSUME NEW c \in Bevs, c # b
       PROVE  Good(n.bev[c], c, n.grp, lock[c], stage[c])
  <2>1. n.bev[c] = bev[c] /\ (c \in g.members <=> c \in grp.members)
    BY <1>1, <1>14, <1>15, <1>16, <1>17, <1>18
  <2>2. Good(bev[c], c, grp, lock[c], stage[c])
    BY <1>1, <1>6, <1>18 DEF Rest
  <2>3. Good(bev[c], c, g, lock[c], stage[c])
    BY <1>15, <2>1, <2>2 DEF Good, BevOK, GroupOK, DeadOK, JoinOK
  <2> QED
    BY <1>17, <2>1, <2>3
<1>19. Rest(n, b) /\ GroupOK(q, b, g)
  BY <1>11, <1>18 DEF Rest, GroupOK
<1>20. Mid(n, b, "idle", k, l)
  BY <1>9, <1>12, <1>17, <1>19 DEF Mid
<1>21. AllGood(n, lock, stage)
  BY <1>4, <1>20, Settle DEF k, l
<1> QED
  BY <1>3, <1>21, QuietClosed

LEMMA TickStep ==
    ASSUME IInv, Tick
    PROVE  IInv'
<1> DEFINE f == [b \in Bevs |-> IF bev[b].cfg = 0 THEN bev[b] ELSE [bev[b] EXCEPT !.age = Older(@)]]
<1> DEFINE g == IF grp.members = {} THEN grp ELSE [grp EXCEPT !.age = Older(@)]
<1> DEFINE n == [bev |-> f, grp |-> g]
<1>1. bev' = f /\ grp' = g /\ lock' = lock /\ stage' = stage /\ emptyIO' = emptyIO
  BY DEF Tick
<1>2. /\ bev \in [Bevs -> Bevent] /\ grp \in Group /\ emptyIO \in BOOLEAN
      /\ lock \in [Bevs -> {"free", "user", "adding"}]
      /\ stage \in [Bevs -> {"idle", "connected", "read", "write", "end"}]
      /\ \A c \in Bevs : Good(bev[c], c, grp, lock[c], stage[c])
  BY DEF IInv, TypeOK, Good
<1>3. \A a \in Nat : Older(a) \in Nat
  BY DEF Older
<1>4. /\ g \in Group /\ g.members = grp.members /\ g.susp = grp.susp
      /\ g.pending_unsuspend = grp.pending_unsuspend
  <2> DEFINE a == Older(grp.age)
  <2>1. a \in Nat
    BY <1>2, <1>3 DEF Group
  <2>2. g = IF grp.members = {} THEN grp ELSE [grp EXCEPT !.age = a]
    OBVIOUS
  <2> HIDE DEF a, g
  <2> QED
    BY <1>2, <2>1, <2>2 DEF Group
<1> HIDE DEF g
<1>5. ASSUME NEW c \in Bevs
      PROVE  f[c] \in Bevent /\ Good(f[c], c, g, lock[c], stage[c])
  <2> DEFINE r == bev[c]
  <2> DEFINE a == Older(r.age)
  <2> DEFINE q == [r EXCEPT !.age = a]
  <2>1. r \in Bevent /\ a \in Nat /\ Good(r, c, grp, lock[c], stage[c])
    BY <1>2, <1>3 DEF Bevent
  <2>2. f[c] = r \/ f[c] = q
    OBVIOUS
  <2>3. Good(r, c, g, lock[c], stage[c])
    BY <1>4, <2>1 DEF Good, BevOK, GroupOK, DeadOK, JoinOK
  <2> HIDE DEF a
  <2>4. q \in Bevent
    BY <2>1 DEF Bevent
  <2>5. Same(q, r) /\ q.refcnt = r.refcnt /\ q.user = r.user /\ q.queued = r.queued
    BY <2>1 DEF Bevent, Same
  <2> HIDE DEF q, f
  <2>6. BevOK(q, c, g)
    <3>1. r.refcnt > 0 => Sound(r, "idle") /\ GroupOK(r, c, g)
      BY <2>1, <2>3 DEF Good, BevOK, Sound
    <3>2. r.refcnt > 0 => Sound(q, "idle") /\ GroupOK(q, c, g)
      BY <2>4, <2>5, <3>1, SameSound DEF GroupOK, Same
    <3>3. r.refcnt <= 0 => DeadOK(q, c, g)
      BY <2>3, <2>5 DEF Good, BevOK, DeadOK, Same
    <3> QED
      BY <2>5, <3>2, <3>3 DEF BevOK, Sound
  <2>7. Good(q, c, g, lock[c], stage[c])
    BY <2>3, <2>5, <2>6 DEF Good, Held, JoinOK, Same
  <2> QED
    BY <2>1, <2>2, <2>3, <2>4, <2>7
<1>6. n \in Memory /\ n.bev = f /\ n.grp = g
  <2>1. f \in [Bevs -> Bevent]
    BY <1>5
  <2> HIDE DEF f
  <2> QED
    BY <1>4, <2>1 DEF Memory
<1> HIDE DEF f, n
<1>7. AllGood(n, lock, stage)
  BY <1>5, <1>6 DEF AllGood
<1>8. AllGood(n, lock', stage')
  BY <1>1, <1>7
<1> QED
  BY <1>1, <1>2, <1>6, <1>8, Closed

-----------------------------------------------------------------------------
(* The invariant.                                                           *)

Fresh(q) ==
    /\ Sound(q, "idle") /\ q.refcnt = 1 /\ q.user /\ ~q.queued /\ ~q.lookup
    /\ \A d \in Dirs : "group" \notin q.susp[d]

LEMMA FreshIf ==
    ASSUME NEW q \in Bevent, q.refcnt = 1, q.user, ~q.queued, ~q.lookup, ~q.connecting, q.cfg = 0,
           \A d \in Dirs : q.susp[d] = {},
           q.pend = q.enabled \/ (q.pend = {} /\ "R" \notin q.enabled /\ q.out = 0)
    PROVE  Fresh(q)
<1>1. q.susp["R"] = {} /\ q.susp["W"] = {}
  BY DEF Dirs
<1>2. EventsOK(q, "idle")
  BY <1>1 DEF EventsOK
<1>3. SuspensionsOK(q)
  BY <1>1 DEF SuspensionsOK
<1> QED
  BY <1>2, <1>3 DEF Fresh, Sound

LEMMA NewBevFresh ==
    ASSUME NEW defer \in {"no", "locked", "unlocked"}, NEW fd \in BOOLEAN
    PROVE  LET n == NewBev(defer, fd)
           IN  /\ Fresh(n)
               /\ Fresh([n EXCEPT !.enabled = {"R"}, !.pend = {"R"}])
               /\ Fresh([n EXCEPT !.enabled = Dirs, !.pend = Dirs, !.out = MaxLen])
<1> DEFINE none == [d \in Dirs |-> {}]
<1> DEFINE zero == [d \in Dirs |-> 0]
<1> DEFINE n == NewBev(defer, fd)
<1>1. none \in [Dirs -> SUBSET Reasons] /\ zero \in [Dirs -> Int] /\ \A d \in Dirs : none[d] = {}
  OBVIOUS
<1>2. n = [refcnt |-> 1, user |-> TRUE, cbs |-> TRUE, defer |-> defer, queued |-> FALSE,
           pending |-> {}, enabled |-> {"W"}, susp |-> none, pend |-> {},
           timed |-> {}, tmo |-> {}, active |-> FALSE, in |-> 0, out |-> 0, low |-> 0,
           high |-> 0, connecting |-> FALSE, refused |-> FALSE, fd |-> fd, failed |-> FALSE,
           lookup |-> FALSE, cfg |-> 0, lim |-> zero, age |-> 0,
           refill |-> FALSE, join |-> {}]
  BY DEF NewBev
<1> HIDE DEF none, zero, n
<1>3. n \in Bevent
  <2>1. {"W"} \in SUBSET Dirs
    BY DEF Dirs
  <2> QED
    BY <1>1, <1>2, <2>1 DEF Bevent
<1>4. /\ n.susp = none /\ n.enabled = {"W"} /\ n.pend = {} /\ n.out = 0 /\ ~n.connecting
      /\ n.cfg = 0 /\ n.refcnt = 1 /\ n.user /\ ~n.queued /\ ~n.lookup
  BY <1>2
<1>5. Fresh(n)
  BY <1>1, <1>3, <1>4, FreshIf
<1>6. ASSUME NEW ds \in SUBSET Dirs
      PROVE  Fresh([n EXCEPT !.enabled = ds, !.pend = ds])
  <2> DEFINE q == [n EXCEPT !.enabled = ds, !.pend = ds]
  <2>1. q \in Bevent
    BY <1>3 DEF Bevent
  <2>2. /\ q.susp = none /\ q.enabled = ds /\ q.pend = ds /\ ~q.connecting
        /\ q.cfg = 0 /\ q.refcnt = 1 /\ q.user /\ ~q.queued /\ ~q.lookup
    BY <1>3, <1>4 DEF Bevent
  <2> HIDE DEF q
  <2>3. Fresh(q)
    BY <1>1, <2>1, <2>2, FreshIf
  <2> QED
    BY <2>3 DEF q
<1>7. ASSUME NEW ds \in SUBSET Dirs, NEW out \in Int
      PROVE  Fresh([n EXCEPT !.enabled = ds, !.pend = ds, !.out = out])
  <2> DEFINE q == [n EXCEPT !.enabled = ds, !.pend = ds, !.out = out]
  <2>1. q \in Bevent
    BY <1>3 DEF Bevent
  <2>2. /\ q.susp = none /\ q.enabled = ds /\ q.pend = ds /\ ~q.connecting
        /\ q.cfg = 0 /\ q.refcnt = 1 /\ q.user /\ ~q.queued /\ ~q.lookup
    BY <1>3, <1>4 DEF Bevent
  <2> HIDE DEF q
  <2>3. Fresh(q)
    BY <1>1, <2>1, <2>2, FreshIf
  <2> QED
    BY <2>3 DEF q
<1>8. {"R"} \in SUBSET Dirs /\ Dirs \in SUBSET Dirs /\ MaxLen \in Int
  BY SizeAssumption DEF Dirs
<1> QED
  BY <1>5, <1>6, <1>7, <1>8 DEF n

LEMMA InitIInv ==
    Init => IInv
<1> SUFFICES ASSUME Init PROVE IInv
  OBVIOUS
<1>1. PICK defer \in {"no", "locked", "unlocked"} :
         LET new == NewBev(defer, "connect" \notin program)
             old == CASE "group" \in program ->
                           [new EXCEPT !.enabled = {"R"}, !.pend = {"R"}]
                      [] "rate" \in program ->
                           [new EXCEPT !.enabled = Dirs, !.pend = Dirs, !.out = MaxLen]
                      [] OTHER -> new
         IN  bev = [b \in Bevs |-> IF "group" \in program \/ b = First THEN old ELSE new]
  BY ZenonT(60) DEF Init
<1> DEFINE fd == "connect" \notin program
<1> DEFINE new == NewBev(defer, fd)
<1> DEFINE reads == [new EXCEPT !.enabled = {"R"}, !.pend = {"R"}]
<1> DEFINE both == [new EXCEPT !.enabled = Dirs, !.pend = Dirs, !.out = MaxLen]
<1>2. fd \in BOOLEAN
  OBVIOUS
<1>3. bev = [b \in Bevs |-> bev[b]]
  BY <1>1
<1>4. \A b \in Bevs : bev[b] = new \/ bev[b] = reads \/ bev[b] = both
  <2> DEFINE old == CASE "group" \in program -> reads [] "rate" \in program -> both [] OTHER -> new
  <2>1. bev = [b \in Bevs |-> IF "group" \in program \/ b = First THEN old ELSE new]
    BY <1>1
  <2>2. old = reads \/ old = both \/ old = new
    <3> HIDE DEF reads, both, new
    <3> QED
      OBVIOUS
  <2> HIDE DEF old, reads, both, new
  <2> QED
    BY <2>1, <2>2
<1>5. \A b \in Bevs : Fresh(bev[b])
  <2>1. Fresh(new) /\ Fresh(reads) /\ Fresh(both)
    <3> HIDE DEF fd
    <3> QED
      BY <1>2, NewBevFresh
  <2> HIDE DEF reads, both, new
  <2> QED
    BY <1>4, <2>1
<1>6. /\ grp.members = {} /\ grp \in Group /\ lock = [b \in Bevs |-> "free"]
      /\ stage = [b \in Bevs |-> "idle"] /\ emptyIO = FALSE
  <2> DEFINE lim == [d \in Dirs |-> Rate[1]]
  <2>1. lim \in [Dirs -> Int]
    BY RateAssumption DEF ev_token_bucket_cfg_new
  <2>2. grp = [members |-> {}, susp |-> {}, pending_unsuspend |-> {}, cfg |-> 1,
               lim |-> lim, age |-> 0]
    BY DEF Init
  <2>3. lock = [b \in Bevs |-> "free"] /\ stage = [b \in Bevs |-> "idle"] /\ emptyIO = FALSE
    BY DEF Init
  <2> HIDE DEF lim
  <2> QED
    BY <2>1, <2>2, <2>3 DEF Group
<1>7. bev \in [Bevs -> Bevent]
  <2>1. \A b \in Bevs : bev[b] \in Bevent
    BY <1>5 DEF Fresh, Sound
  <2>2. bev = [b \in Bevs |-> bev[b]]
    BY <1>3
  <2> QED
    BY <2>1, <2>2
<1>8. TypeOK
  BY <1>6, <1>7 DEF TypeOK
<1>9. ASSUME NEW b \in Bevs
      PROVE  /\ BevOK(bev[b], b, grp) /\ JoinOK(bev[b], b, grp, lock[b])
             /\ Held(bev[b]) = Holders(bev[b].lookup, lock[b], stage[b])
  <2>1. BevOK(bev[b], b, grp)
    BY <1>5 DEF BevOK, Sound, GroupOK, Fresh
  <2>2. JoinOK(bev[b], b, grp, lock[b])
    BY <1>6 DEF JoinOK
  <2>3. Held(bev[b]) = 0
    <3>1. Bit(bev[b].user) = 1 /\ Bit(bev[b].queued) = 0 /\ bev[b].refcnt = 1
      BY <1>5, BitValue DEF Fresh
    <3> QED
      BY <3>1 DEF Held
  <2>4. Holders(bev[b].lookup, lock[b], stage[b]) = 0
    <3>1. Bit(bev[b].lookup) = 0 /\ Bit(lock[b] = "user") = 0 /\ Bit(stage[b] # "idle") = 0
      BY <1>5, <1>6, BitValue DEF Fresh
    <3> QED
      BY <3>1 DEF Holders
  <2> QED
    BY <2>1, <2>2, <2>3, <2>4
<1> QED
  BY <1>8, <1>9 DEF IInv


(* Every step of the program keeps the invariant: one case for each         *)
(* operation, callback and loop step of Next.                               *)
LEMMA NextIInv ==
    IInv /\ [Next]_vars => IInv'
<1> SUFFICES ASSUME IInv, [Next]_vars PROVE IInv'
  OBVIOUS
<1>1. CASE UNCHANGED vars
  <2>1. bev' = bev /\ grp' = grp /\ lock' = lock /\ stage' = stage /\ emptyIO' = emptyIO
    BY <1>1 DEF vars
  <2> QED
    BY <2>1 DEF IInv, TypeOK
<1>2. CASE Tick \/ GroupRefill
  BY <1>2, TickStep, GroupRefillStep
<1>3. CASE \E n \in {-2, 1} : GroupDecrement("R", n)
  <2>1. PICK n \in {-2, 1} : GroupDecrement("R", n)
    BY <1>3
  <2>2. n \in Int /\ "R" \in Dirs
    BY DEF Dirs
  <2> QED
    BY <2>1, <2>2, GroupDecrementStep
<1>4. CASE \E c \in {1, 2} : GroupSetCfg(c)
  BY <1>4, GroupSetCfgStep
<1>5. ASSUME NEW b \in Bevs,
             NEW act,
             \/ \E res \in -1..MaxLen : ReadReady(b, res, act)
             \/ \E d \in Dirs : Timeout(b, d, act)
             \/ \E c \in {"yes", "no", "wait"}, res \in -1..MaxLen, act1 \in Acts :
                  WriteReady(b, c, res, act1, act)
             \/ DeferStep(b, act)
             \/ \E r \in {"nosocket", "fails", "wait", "done", "refused"} : Connect(b, r, act)
             \/ \E r \in {"unknown", "nosocket", "fails", "wait", "done", "refused"} : LookupDone(b, r, act)
      PROVE  IInv'
  <2>1. \A res \in -1..MaxLen : res \in Int /\ res >= -1
    BY SizeAssumption
  <2>2. CASE \E res \in -1..MaxLen : ReadReady(b, res, act)
    BY <2>1, <2>2, ReadReadyStep
  <2>3. CASE \E d \in Dirs : Timeout(b, d, act)
    BY <2>3, TimeoutStep
  <2>4. CASE \E c \in {"yes", "no", "wait"}, res \in -1..MaxLen, act1 \in Acts :
                  WriteReady(b, c, res, act1, act)
    <3>1. PICK c \in {"yes", "no", "wait"}, res \in -1..MaxLen, act1 \in Acts :
                  WriteReady(b, c, res, act1, act)
      BY <2>4
    <3>2. res \in Int /\ res >= -1
      BY <2>1
    <3> QED
      BY <3>1, <3>2, WriteReadyStep
  <2>5. CASE DeferStep(b, act)
    BY <2>5, DeferStepStep
  <2>6. CASE \E r \in {"nosocket", "fails", "wait", "done", "refused"} : Connect(b, r, act)
    <3>1. PICK r \in {"nosocket", "fails", "wait", "done", "refused"} : Connect(b, r, act)
      BY <2>6
    <3> QED
      BY <3>1, ConnectStep
  <2>7. CASE \E r \in {"unknown", "nosocket", "fails", "wait", "done", "refused"} : LookupDone(b, r, act)
    <3>1. PICK r \in {"unknown", "nosocket", "fails", "wait", "done", "refused"} : LookupDone(b, r, act)
      BY <2>7
    <3> QED
      BY <3>1, LookupDoneStep
  <2> QED
    BY <1>5, <2>2, <2>3, <2>4, <2>5, <2>6, <2>7
<1>6. ASSUME NEW b \in Bevs,
             \/ DeferStart(b) \/ Refill(b)
             \/ ConnectHostname(b) \/ DisableHard(b)
             \/ \E fd \in BOOLEAN : SetFd(b, fd)
             \/ \E ds \in SUBSET Dirs \ {{}} : Enable(b, ds) \/ Disable(b, ds)
             \/ UserWrite(b) \/ UserDrain(b) \/ Free(b)
             \/ \E ds \in SUBSET Dirs : SetTimeouts(b, ds)
      PROVE  IInv'
  <2>1. CASE DeferStart(b)
    BY <2>1, DeferStartStep
  <2>2. CASE Refill(b)
    BY <2>2, RefillStep
  <2>3. CASE ConnectHostname(b)
    BY <2>3, ConnectHostnameStep
  <2>4. CASE DisableHard(b)
    BY <2>4, DisableHardStep
  <2>5. CASE \E fd \in BOOLEAN : SetFd(b, fd)
    <3>1. PICK fd \in BOOLEAN : SetFd(b, fd)
      BY <2>5
    <3> QED
      BY <3>1, SetFdStep
  <2>6. CASE \E ds \in SUBSET Dirs \ {{}} : Enable(b, ds) \/ Disable(b, ds)
    <3>1. PICK ds \in SUBSET Dirs \ {{}} : Enable(b, ds) \/ Disable(b, ds)
      BY <2>6
    <3>2. ds \in SUBSET Dirs
      OBVIOUS
    <3> QED
      BY <3>1, <3>2, EnableStep, DisableStep
  <2>7. CASE UserWrite(b)
    BY <2>7, UserWriteStep
  <2>8. CASE UserDrain(b)
    BY <2>8, UserDrainStep
  <2>9. CASE Free(b)
    BY <2>9, FreeStep
  <2>10. CASE \E ds \in SUBSET Dirs : SetTimeouts(b, ds)
    BY <2>10, SetTimeoutsStep
  <2> QED
    BY <1>6, <2>1, <2>2, <2>3, <2>4, <2>5, <2>6, <2>7, <2>8, <2>9, <2>10
<1>7. ASSUME NEW b \in Bevs,
             \/ \E low \in {0, 2}, high \in 0..2 : SetWatermark(b, low, high)
             \/ Lock(b) \/ Unlock(b)
             \/ \E c \in 0..2 : SetRateLimit(b, c)
             \/ \E d \in Dirs, n \in {-2, 1} : DecrementLimit(b, d, n)
             \/ \E d \in Dirs : GetMax(b, d)
             \/ AddToGroup(b) \/ AddToGroupEnds(b) \/ RemoveFromGroup(b)
      PROVE  IInv'
  <2>1. CASE \E low \in {0, 2}, high \in 0..2 : SetWatermark(b, low, high)
    <3>1. PICK low \in {0, 2}, high \in 0..2 : SetWatermark(b, low, high)
      BY <2>1
    <3>2. low \in Int /\ high \in Int
      OBVIOUS
    <3> QED
      BY <3>1, <3>2, SetWatermarkStep
  <2>2. CASE Lock(b)
    BY <2>2, LockStep
  <2>3. CASE Unlock(b)
    BY <2>3, UnlockStep
  <2>4. CASE \E c \in 0..2 : SetRateLimit(b, c)
    BY <2>4, SetRateLimitStep
  <2>5. CASE \E d \in Dirs, n \in {-2, 1} : DecrementLimit(b, d, n)
    <3>1. PICK d \in Dirs, n \in {-2, 1} : DecrementLimit(b, d, n)
      BY <2>5
    <3>2. n \in Int
      OBVIOUS
    <3> QED
      BY <3>1, <3>2, DecrementLimitStep
  <2>6. CASE \E d \in Dirs : GetMax(b, d)
    BY <2>6, GetMaxStep
  <2>7. CASE AddToGroup(b)
    BY <2>7, AddToGroupStep
  <2>8. CASE AddToGroupEnds(b)
    BY <2>8, AddToGroupEndsStep
  <2>9. CASE RemoveFromGroup(b)
    BY <2>9, RemoveFromGroupStep
  <2> QED
    BY <1>7, <2>1, <2>2, <2>3, <2>4, <2>5, <2>6, <2>7, <2>8, <2>9
<1> QED
  BY <1>1, <1>2, <1>3, <1>4, <1>5, <1>6, <1>7 DEF Next

(* The three parts of the invariant hold in every reachable state, for      *)
(* every set of bufferevents, every choice of programs and every rate and   *)
(* burst: a live bufferevent waits for what it should and is suspended for  *)
(* a reason that will end, a dead one left nothing behind, the reference    *)
(* count of bufferevent_private is the number of holders.                   *)
THEOREM SockInvariant ==
    Spec => []IInv
<1> QED
  BY InitIInv, NextIInv, PTL DEF Spec

(* What bufferevent_enable and bufferevent_disable promise follows from the *)
(* invariant; that the dead have no deferred callback queued follows from   *)
(* the reference count.                                                     *)
LEMMA IInvEvents ==
    IInv => EventsAsEnabled
<1> SUFFICES ASSUME IInv, NEW b \in Bevs
             PROVE  LET r == bev[b] IN
        /\ Live(b) /\ r.fd /\ ~r.failed /\ r.susp["R"] = {} /\ "R" \in r.enabled => "R" \in r.pend
        /\ Live(b) /\ r.fd /\ ~r.failed /\ r.susp["W"] = {} /\ "W" \in r.enabled
             /\ r.out > 0 /\ ~r.connecting => "W" \in r.pend
        /\ \A d \in r.pend : (d \in r.enabled /\ r.susp[d] = {}) \/ (d = "W" /\ r.connecting)
        /\ r.connecting => "W" \in r.pend \/ r.active \/ ~Live(b)
        /\ ~Live(b) => /\ r.pend = {} /\ ~r.active /\ ~r.refill /\ ~r.queued
                       /\ b \notin grp.members
        /\ r.refcnt = Bit(r.user) + Bit(r.queued) + Bit(r.lookup) + Bit(lock[b] = "user")
                        + Bit(stage[b] # "idle")
  BY DEF EventsAsEnabled
<1> DEFINE r == bev[b]
<1>1. r \in Bevent /\ BevOK(r, b, grp)
  BY DEF IInv, TypeOK
<1>2. r.refcnt \in Int /\ r.pend \subseteq Dirs
  BY <1>1 DEF Bevent
<1>3. Held(r) = Holders(r.lookup, lock[b], stage[b])
  BY DEF IInv
<1> DEFINE u == Bit(r.user)
<1> DEFINE v == Bit(r.queued)
<1> DEFINE w == Bit(r.lookup)
<1> DEFINE x == Bit(lock[b] = "user")
<1> DEFINE y == Bit(stage[b] # "idle")
<1>4. u \in {0, 1} /\ v \in {0, 1} /\ w \in {0, 1} /\ x \in {0, 1} /\ y \in {0, 1}
  BY DEF Bit
<1>5. r.refcnt - u - v = w + x + y
  BY <1>3 DEF Held, Holders
<1>6. r.queued => v = 1
  BY DEF Bit
<1>7. r.refcnt = u + v + w + x + y /\ (~(r.refcnt > 0) => ~r.queued)
  <2> HIDE DEF u, v, w, x, y, r
  <2> QED
    BY <1>2, <1>4, <1>5, <1>6
<1>8. CASE r.refcnt > 0
  <2>1. EventsOK(r, "idle")
    BY <1>1, <1>8 DEF BevOK
  <2> HIDE DEF u, v, w, x, y
  <2>2. /\ r.fd /\ ~r.failed /\ r.susp["R"] = {} /\ "R" \in r.enabled => "R" \in r.pend
        /\ r.fd /\ ~r.failed /\ r.susp["W"] = {} /\ "W" \in r.enabled /\ r.out > 0 => "W" \in r.pend
        /\ r.connecting => "W" \in r.pend \/ r.active
    BY <2>1 DEF EventsOK
  <2>3. \A d \in r.pend : (d \in r.enabled /\ r.susp[d] = {}) \/ (d = "W" /\ r.connecting)
    BY <1>2, <2>1 DEF EventsOK, Dirs
  <2>4. Live(b)
    BY <1>8 DEF Live
  <2> QED
    BY <1>7, <2>2, <2>3, <2>4 DEF u, v, w, x, y
<1>9. CASE ~(r.refcnt > 0)
  <2>1. DeadOK(r, b, grp)
    BY <1>1, <1>2, <1>9 DEF BevOK
  <2>2. r.pend = {} /\ ~r.active /\ ~r.refill /\ b \notin grp.members
    BY <2>1 DEF DeadOK
  <2>3. ~Live(b)
    BY <1>9 DEF Live
  <2> QED
    BY <1>7, <1>9, <2>2, <2>3
<1> QED
  BY <1>8, <1>9

(* A suspension of a live bufferevent has a reason that will end.           *)
LEMMA IInvSuspensions ==
    IInv => SuspensionsEnd
<1> SUFFICES ASSUME IInv, NEW b \in Bevs, NEW d \in Dirs, Live(b)
             PROVE  /\ "wm" \in bev[b].susp[d] => d = "R" /\ bev[b].high # 0 /\ bev[b].in >= bev[b].high
                    /\ "lookup" \in bev[b].susp[d] => bev[b].lookup
                    /\ "bw" \in bev[b].susp[d] => bev[b].refill /\ bev[b].cfg # 0
                    /\ "group" \in bev[b].susp[d] =>
                         b \in grp.members /\ d \in grp.susp \cup grp.pending_unsuspend
  BY DEF SuspensionsEnd
<1>1. SuspensionsOK(bev[b]) /\ GroupOK(bev[b], b, grp)
  BY DEF IInv, BevOK, Live
<1> QED
  BY <1>1 DEF SuspensionsOK, GroupOK, Dirs

(* EventsAsEnabled in every reachable state: what be_socket_enable and      *)
(* be_socket_disable leave in the event base is what was enabled and not    *)
(* suspended, and nothing of a freed bufferevent is left there.             *)
THEOREM EventsAsEnabledThm ==
    Spec => []EventsAsEnabled
<1> QED
  BY SockInvariant, IInvEvents, PTL

(* SuspensionsEnd in every reachable state: bufferevent_suspend_read and    *)
(* bufferevent_suspend_write never leave a flag that nothing will clear.    *)
THEOREM SuspensionsEndThm ==
    Spec => []SuspensionsEnd
<1> QED
  BY SockInvariant, IInvSuspensions, PTL

(* A bucket or a share that is used up suspends the bufferevent before a    *)
(* read or a write of zero bytes can be tried, provided that the smallest   *)
(* share of a group is not zero: only bufferevent_readcb and                *)
(* bufferevent_writecb ask the socket, and what _bufferevent_get_rlim_max   *)
(* lets them ask for is positive unless it has suspended them.              *)
LEMMA NextNoEmptyIO ==
    MinShare > 0 /\ IInv /\ NoEmptyIO /\ [Next]_vars => NoEmptyIO'
<1> SUFFICES ASSUME MinShare > 0, IInv, NoEmptyIO, [Next]_vars PROVE NoEmptyIO'
  OBVIOUS
<1>1. ASSUME NEW x, NEW res, Handled(x, res), Busy(x) PROVE NoEmptyIO'
  <2>1. ~(x.io /\ x.max = 0)
    <3> SUFFICES ASSUME x.io, x.max = 0 PROVE FALSE
      OBVIOUS
    <3>1. x.max > 0
      BY <1>1 DEF Busy
    <3> QED
      BY <3>1
  <2>2. emptyIO' = (emptyIO \/ (x.io /\ x.max = 0))
    BY <1>1 DEF Handled
  <2> QED
    BY <2>1, <2>2, Zenon DEF NoEmptyIO
<1>2. ASSUME NEW b \in Bevs, NEW res, NEW act, ReadReady(b, res, act) PROVE NoEmptyIO'
  <2> DEFINE k == Holders(bev[b].lookup, lock[b], stage[b])
  <2>1. LoopMayRun(b) /\ Handled(readcb(M, b, res, act), res)
    BY <1>2 DEF ReadReady
  <2>2. bev[b].refcnt > 0 /\ lock[b] # "adding"
    BY <2>1, LoopLive
  <2>3. Mid(M, b, "idle", k, bev[b].lookup) /\ k \in Int /\ k >= 0
    BY <2>2, Start, HoldersNat
  <2> HIDE DEF k
  <2>4. Busy(readcb(M, b, res, act))
    BY <2>3, ReadCbBusy
  <2> QED
    BY <1>1, <2>1, <2>4
<1>3. ASSUME NEW b \in Bevs, NEW c \in {"yes", "no", "wait"}, NEW res \in -1..MaxLen,
             NEW act1, NEW act, WriteReady(b, c, res, act1, act)
      PROVE  NoEmptyIO'
  <2> DEFINE k == Holders(bev[b].lookup, lock[b], stage[b])
  <2>1. /\ LoopMayRun(b) /\ Handled(writecb(M, b, c, res, act1, act), res)
        /\ bev[b].active => c # "wait"
    BY <1>3 DEF WriteReady
  <2>2. bev[b].refcnt > 0 /\ lock[b] # "adding" /\ M.bev[b] = bev[b]
    BY <2>1, LoopLive
  <2>3. Mid(M, b, "idle", k, bev[b].lookup) /\ k \in Int /\ k >= 0
    BY <2>2, Start, HoldersNat
  <2>4. res \in Int /\ res >= -1
    BY SizeAssumption
  <2> HIDE DEF k
  <2>5. Busy(writecb(M, b, c, res, act1, act))
    BY <2>1, <2>2, <2>3, <2>4, WriteCb
  <2> QED
    BY <1>1, <2>1, <2>5
<1>4. ASSUME emptyIO' = emptyIO PROVE NoEmptyIO'
  BY <1>4 DEF NoEmptyIO
<1>5. CASE UNCHANGED vars
  BY <1>4, <1>5 DEF vars
<1>6. CASE Tick \/ GroupRefill \/ (\E n \in {-2, 1} : GroupDecrement("R", n))
             \/ (\E c \in {1, 2} : GroupSetCfg(c))
  BY <1>4, <1>6 DEF Tick, GroupRefill, GroupDecrement, GroupSetCfg, Quiet
<1>7. ASSUME NEW b \in Bevs, NEW act,
             \/ \E d \in Dirs : Timeout(b, d, act)
             \/ DeferStep(b, act)
             \/ \E r \in {"nosocket", "fails", "wait", "done", "refused"} : Connect(b, r, act)
             \/ \E r \in {"unknown", "nosocket", "fails", "wait", "done", "refused"} : LookupDone(b, r, act)
      PROVE  NoEmptyIO'
  BY <1>4, <1>7 DEF Timeout, DeferStep, Connect, LookupDone, Quiet
<1>8. ASSUME NEW b \in Bevs,
             \/ DeferStart(b) \/ Refill(b)
             \/ ConnectHostname(b) \/ DisableHard(b)
             \/ \E fd \in BOOLEAN : SetFd(b, fd)
             \/ \E ds \in SUBSET Dirs \ {{}} : Enable(b, ds) \/ Disable(b, ds)
             \/ UserWrite(b) \/ UserDrain(b) \/ Free(b)
             \/ \E ds \in SUBSET Dirs : SetTimeouts(b, ds)
      PROVE  NoEmptyIO'
  BY <1>4, <1>8 DEF DeferStart, Refill, ConnectHostname, DisableHard, SetFd, Enable, Disable,
                    UserWrite, UserDrain, Free, SetTimeouts, Quiet
<1>9. ASSUME NEW b \in Bevs,
             \/ \E low \in {0, 2}, high \in 0..2 : SetWatermark(b, low, high)
             \/ Lock(b) \/ Unlock(b)
             \/ \E c \in 0..2 : SetRateLimit(b, c)
             \/ \E d \in Dirs, n \in {-2, 1} : DecrementLimit(b, d, n)
             \/ \E d \in Dirs : GetMax(b, d)
             \/ AddToGroup(b) \/ AddToGroupEnds(b) \/ RemoveFromGroup(b)
      PROVE  NoEmptyIO'
  BY <1>4, <1>9 DEF SetWatermark, Lock, Unlock, SetRateLimit, DecrementLimit, GetMax, AddToGroup,
                    AddToGroupEnds, RemoveFromGroup, Quiet
<1> QED
  BY <1>2, <1>3, <1>5, <1>6, <1>7, <1>8, <1>9 DEF Next

(* NoEmptyIO in every reachable state: no byte of a stream is taken for its *)
(* end because a rate limit had run out.                                    *)
THEOREM NoEmptyIOThm ==
    ASSUME MinShare > 0
    PROVE  Spec => []NoEmptyIO
<1>1. Init => NoEmptyIO
  BY DEF Init, NoEmptyIO
<1>2. IInv /\ NoEmptyIO /\ [Next]_vars => NoEmptyIO'
  BY NextNoEmptyIO
<1> QED
  BY <1>1, <1>2, SockInvariant, PTL DEF Spec

=============================================================================
