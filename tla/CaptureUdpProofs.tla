-------------------------- MODULE CaptureUdpProofs --------------------------
(***************************************************************************)
(* Whatever number of flows is captured, and however their packets are     *)
(* lost, repeated, delayed and started again: the records of a stage come  *)
(* from one start of one sender and are numbered as they were sent, no     *)
(* packet disappears in silence, and the sample of a stage is a beginning. *)
(*                                                                         *)
(* Each function of struct Capture has a lemma that says what it does to   *)
(* the stages, and each invariant is followed through these.               *)
(***************************************************************************)
EXTENDS CaptureUdp, FiniteSetTheorems, SequenceTheorems, TLAPS

\* The types.  What a payload type was negotiated for and by whom comes from
\* the offers.
Codecs   == {None} \cup UNION {{b.codecs[t] : t \in DOMAIN b.codecs} : b \in Offers}
Sessions == {None} \cup {b.session : b \in Offers}
Reports  == {[flow |-> f, pt |-> 200] : f \in Flows}
Records  == {[p EXCEPT !.extended = x] : p \in Packets, x \in Int}

Warnings == {"restart", "stage", "unconfirmed", "isolated", "stream_limit", "sample_limit",
             "mixed_codec", "late_codec", "timeline_cut", "rtcp_unattributed",
             "rtcp_unparsed", "binding_limit"}

Stage ==
    [key : Flows, numbers : SUBSET Int, extended : Int, pending : {None} \cup Packets,
     codec : Codecs, mixed : BOOLEAN, session : Sessions, duplicates : Nat, events : Nat,
     spool : Seq(Records), limited : BOOLEAN, truncated : BOOLEAN, rtcp : Seq(Reports),
     warnings : SUBSET Warnings]

CaptureType ==
    [states : Seq(Stage), routes : UNION {[S -> Nat] : S \in SUBSET Flows},
     bindings : Seq(Offers), sample : Nat, warnings : SUBSET Warnings]

Numbers == 0..(Len(Payloads) - 1)

\* The spool holds what was counted, up to the first that found no room.
Tallied(s) ==
    /\ IsFiniteSet(s.numbers) /\ s.truncated = s.limited
    /\ IF s.limited THEN Len(s.spool) < Cardinality(s.numbers)
       ELSE Len(s.spool) = Cardinality(s.numbers)

\* What a stage counts comes from the e-th start of its sender, and number n of
\* that has become k + n.
Placed(s, e, k) ==
    /\ e \in DOMAIN Bases[s.key] /\ k % SequenceMod = Bases[s.key][e] % SequenceMod
    /\ s.extended \in s.numbers
    /\ \A x \in s.numbers : x - k \in Numbers /\ x <= s.extended
    /\ \A a \in DOMAIN s.spool :
          LET r == s.spool[a]
          IN  /\ r.flow = s.key /\ r.epoch = e
              /\ r.extended = k + r.n /\ r.extended \in s.numbers
    /\ \A a, b \in DOMAIN s.spool : a # b => s.spool[a].extended # s.spool[b].extended

Kept(s) ==
    /\ s.pending # None => s.pending.flow = s.key
    /\ \A x \in DOMAIN s.rtcp : s.rtcp[x].flow = s.key

StageGood(s) ==
    Tallied(s) /\ Kept(s) /\ \E e \in DOMAIN Bases[s.key], k \in Int : Placed(s, e, k)

Routed(c) ==
    \A f \in DOMAIN c.routes :
        c.routes[f] \in DOMAIN c.states /\ c.states[c.routes[f]].key = f

Good(c) ==
    c \in CaptureType /\ Routed(c) /\ \A i \in DOMAIN c.states : StageGood(c.states[i])

-----------------------------------------------------------------------------
\* Sequence numbers: the low bits of a number.
Low(x) == x % SequenceMod

\* The sizes.
LEMMA Sizes ==
    /\ SequenceMod \in Nat \ {0} /\ SequenceMod % 2 = 0 /\ SequenceMod \div 2 \in Nat
    /\ SequenceMod = 2 * (SequenceMod \div 2) /\ Len(Payloads) \in Nat
    /\ Len(Payloads) <= SequenceMod \div 2 /\ JumpFrom \in Int /\ JumpTo \in Int
    /\ 1 < JumpFrom /\ JumpFrom <= SequenceMod \div 2 /\ SequenceMod \div 2 < JumpTo
    /\ JumpTo < SequenceMod /\ None \notin Nat /\ None \notin Packets
    /\ MaxStreams \in Nat /\ MaxSample \in Nat /\ MaxEvents \in Nat
<1>1. \A m \in Nat \ {0} : m % 2 = 0 => m \div 2 \in Nat /\ m = 2 * (m \div 2)
  OBVIOUS
<1>2. \A n, h \in Nat : 2 * n <= 2 * h => n <= h
  OBVIOUS
<1>3. SequenceMod \in Nat \ {0} /\ SequenceMod % 2 = 0 /\ Len(Payloads) \in Nat
  BY StreamsAssumption, UdpAssumption
<1>4. SequenceMod \div 2 \in Nat /\ SequenceMod = 2 * (SequenceMod \div 2)
  BY <1>1, <1>3
<1>5. 2 * Len(Payloads) <= SequenceMod
  BY StartsAssumption
<1>6. Len(Payloads) <= SequenceMod \div 2
  BY <1>2, <1>3, <1>4, <1>5
<1> QED
  BY <1>3, <1>4, <1>6, StreamsAssumption, UdpAssumption

\* Multiples of the modulus.
Times(q) == SequenceMod * q

LEMMA Multiples ==
    \A c, d \in Int : /\ Times(c) \in Int
                      /\ Times(c) - Times(d) = Times(c - d)
                      /\ Times(c) + Times(d) = Times(c + d)
<1> SUFFICES ASSUME NEW c \in Int, NEW d \in Int
             PROVE  /\ Times(c) \in Int
                    /\ Times(c) - Times(d) = Times(c - d)
                    /\ Times(c) + Times(d) = Times(c + d)
  OBVIOUS
<1> DEFINE m == SequenceMod
<1>1. m \in Int
  BY Sizes
<1> HIDE DEF m
<1>2. m * c \in Int /\ m * c - m * d = m * (c - d) /\ m * c + m * d = m * (c + d)
  BY <1>1
<1> QED
  BY <1>2 DEF m, Times

LEMMA Division ==
    \A z \in Int : \E q \in Int : z = Times(q) + Low(z) /\ Low(z) \in 0..(SequenceMod - 1)
<1> SUFFICES ASSUME NEW z \in Int
             PROVE  \E q \in Int : z = Times(q) + Low(z)
                                   /\ Low(z) \in 0..(SequenceMod - 1)
  OBVIOUS
<1> DEFINE m == SequenceMod
<1>1. m \in Nat \ {0}
  BY Sizes
<1> HIDE DEF m
<1>2. z \div m \in Int /\ z % m \in 0..(m - 1) /\ z = m * (z \div m) + (z % m)
  BY <1>1
<1> QED
  BY <1>2 DEF m, Low, Times

LEMMA LowIs ==
    \A q \in Int, r \in 0..(SequenceMod - 1) : Low(Times(q) + r) = r /\ Low(r) = r
<1> SUFFICES ASSUME NEW q \in Int, NEW r \in 0..(SequenceMod - 1)
             PROVE  Low(Times(q) + r) = r /\ Low(r) = r
  OBVIOUS
<1> DEFINE m == SequenceMod
<1>1. m \in Nat \ {0} /\ r \in 0..(m - 1)
  BY Sizes
<1> HIDE DEF m
<1>2. (m * q + r) % m = r /\ r % m = r
  BY <1>1
<1> QED
  BY <1>2 DEF m, Low, Times

LEMMA LowOf == \A x \in Int : Low(x) \in 0..(SequenceMod - 1) /\ Low(Low(x)) = Low(x)
BY Division, LowIs

\* Differences of congruent numbers are congruent, ...
LEMMA Congruent ==
    ASSUME NEW x \in Int, NEW y \in Int, NEW u \in Int, NEW v \in Int,
           Low(x) = Low(u), Low(y) = Low(v)
    PROVE  Low(x - y) = Low(u - v)
<1> DEFINE m == SequenceMod
<1>1. m \in Int /\ \A z \in Int : \E q \in Int : z = Times(q) + Low(z) /\ Low(z) \in 0..(m - 1)
  BY Sizes, Division
<1>2. \A q \in Int, r \in 0..(m - 1) : Low(Times(q) + r) = r
  BY LowIs
<1> HIDE DEF m
<1>3. PICK r \in Int, s \in Int : r = Low(x) /\ s = Low(y)
  BY <1>1
<1>4. PICK p \in Int, q \in Int : x = Times(p) + r /\ y = Times(q) + s
  BY <1>1, <1>3
<1>5. PICK a \in Int, b \in Int : u = Times(a) + r /\ v = Times(b) + s
  <2>1. PICK a \in Int : u = Times(a) + Low(u)
    BY <1>1
  <2>2. PICK b \in Int : v = Times(b) + Low(v)
    BY <1>1
  <2> QED
    BY <1>3, <2>1, <2>2
<1>6. PICK t \in Int, w \in 0..(m - 1) : r - s = Times(t) + w
  <2>1. PICK z \in Int : z = r - s
    OBVIOUS
  <2> QED
    BY <1>1, <2>1
<1>7. \A c, d \in Int : Times(c) - Times(d) + Times(t) = Times(c - d + t)
  <2> SUFFICES ASSUME NEW c \in Int, NEW d \in Int
               PROVE  Times(c) - Times(d) + Times(t) = Times(c - d + t)
    OBVIOUS
  <2>1. PICK z \in Int : z = c - d
    OBVIOUS
  <2>2. Times(c) - Times(d) = Times(z)
    BY <2>1, Multiples
  <2>3. Times(z) + Times(t) = Times(z + t)
    BY Multiples
  <2> QED
    BY <2>1, <2>2, <2>3
<1>8. /\ Times(p) \in Int /\ Times(q) \in Int /\ Times(a) \in Int /\ Times(b) \in Int
      /\ Times(t) \in Int /\ w \in Int
  <2>1. \A c \in Int : Times(c) \in Int
    BY Multiples
  <2>2. w \in Int
    BY <1>1
  <2> QED
    BY <2>1, <2>2
<1>9. x - y = Times(p - q + t) + w
  <2>1. x - y = Times(p) - Times(q) + Times(t) + w
    BY <1>3, <1>4, <1>6, <1>8
  <2> QED
    BY <1>7, <2>1
<1>10. u - v = Times(a - b + t) + w
  <2>1. u - v = Times(a) - Times(b) + Times(t) + w
    BY <1>3, <1>5, <1>6, <1>8
  <2> QED
    BY <1>7, <2>1
<1>11. p - q + t \in Int /\ a - b + t \in Int
  OBVIOUS
<1>12. Low(x - y) = w
  BY <1>2, <1>9, <1>11
<1>13. Low(u - v) = w
  BY <1>2, <1>10, <1>11
<1> QED
  BY <1>12, <1>13

\* ... and sums with one number.
LEMMA CongruentSum ==
    ASSUME NEW x \in Int, NEW u \in Int, NEW c \in Int, Low(x) = Low(u)
    PROVE  Low(x + c) = Low(u + c)
<1>1. PICK d \in Int : d = 0 - c
  OBVIOUS
<1>2. Low(x - d) = Low(u - d)
  BY Congruent
<1>3. x - d = x + c /\ u - d = u + c
  BY <1>1
<1> QED
  BY <1>2, <1>3

\* How far a packet is ahead of another one, as the code sees it.
LEMMA Ahead ==
    ASSUME NEW x \in Int, NEW h \in Int, NEW y \in Int, Low(h) = Low(y)
    PROVE  /\ Low(Low(x) - h) = Low(x - y)
           /\ Low(Low(x) - Low(h)) = Low(x - y)
<1>1. PICK v \in Int : v = Low(x) /\ Low(v) = Low(x)
  BY LowOf
<1>2. PICK w \in Int : w = Low(h) /\ Low(w) = Low(y)
  BY LowOf
<1>3. Low(v - h) = Low(x - y)
  BY <1>1, Congruent
<1>4. Low(v - w) = Low(x - y)
  <2>1. Low(v) = Low(x) /\ Low(w) = Low(y)
    BY <1>1, <1>2
  <2> QED
    BY <2>1, Congruent
<1> QED
  BY <1>1, <1>2, <1>3, <1>4

\* A packet of the same start gets its number back, however far it was overtaken.
LEMMA ExtendIs ==
    ASSUME NEW k \in Int, NEW b \in Int, Low(k) = Low(b),
           NEW n \in Numbers, NEW m \in Numbers
    PROVE  Extend(k + m, Low(b + n)) = k + n
<1> DEFINE M == SequenceMod
           H == SequenceMod \div 2
           d == Low(Low(b + n) - (k + m))
<1>1. /\ M \in Nat \ {0} /\ H \in Nat /\ M = 2 * H /\ Len(Payloads) \in Nat
      /\ Len(Payloads) <= H /\ n \in Int /\ m \in Int
  BY Sizes DEF Numbers
<1>2. Low(k + m) = Low(b + m)
  BY <1>1, CongruentSum
<1>3. d = Low(n - m)
  <2>1. PICK x \in Int : x = b + n
    BY <1>1
  <2>2. PICK y \in Int : y = b + m
    BY <1>1
  <2>3. PICK h \in Int : h = k + m
    BY <1>1
  <2>4. Low(Low(x) - h) = Low(x - y)
    BY <1>2, <2>2, <2>3, Ahead
  <2>5. x - y = n - m
    BY <1>1, <2>1, <2>2
  <2> QED
    BY <2>1, <2>3, <2>4, <2>5
<1>4. Extend(k + m, Low(b + n)) = k + m + (IF d < H THEN d ELSE d - M)
  BY DEF Extend, Low
<1>5. \A q \in Int, r \in 0..(M - 1) : Low(Times(q) + r) = r /\ Low(r) = r
  BY LowIs
<1> HIDE DEF d, H, M
<1>6. CASE n >= m
  <2>1. n - m \in 0..(M - 1) /\ n - m < H
    BY <1>1, <1>6 DEF Numbers
  <2>2. d = n - m
    BY <1>3, <1>5, <2>1
  <2> QED
    BY <1>1, <1>4, <2>1, <2>2
<1>7. CASE n < m
  <2>1. n - m + M \in 0..(M - 1) /\ ~(n - m + M < H)
    BY <1>1, <1>7 DEF Numbers
  <2>2. PICK r \in 0..(M - 1) : r = n - m + M
    BY <2>1
  <2>3. Times(-1) + r = n - m
    BY <1>1, <2>2 DEF Times, M
  <2>4. d = r
    BY <1>3, <1>5, <2>3
  <2> QED
    BY <1>1, <1>4, <2>1, <2>2, <2>4
<1> QED
  BY <1>1, <1>6, <1>7

-----------------------------------------------------------------------------
\* A packet in flight is a numbered packet of one start of its sender.
LEMMA PacketIs ==
    ASSUME NEW p \in Packets
    PROVE  /\ p.flow \in Flows /\ p.epoch \in DOMAIN Bases[p.flow] /\ p.n \in Numbers
           /\ p.seq = Low(Bases[p.flow][p.epoch] + p.n) /\ p.pt = 96 /\ p.size \in Nat
           /\ Bases[p.flow][p.epoch] \in Int /\ p.n \in Int /\ p.seq \in Int
<1>0. PICK f \in Flows : \E e \in DOMAIN Bases[f], n \in Numbers : p = PacketOf(f, e, n)
  BY DEF Packets, Numbers
<1>1. PICK e \in DOMAIN Bases[f], n \in Numbers : p = PacketOf(f, e, n)
  BY <1>0
<1>2. n \in Int /\ 1 + (n % 2) \in Nat
  BY Sizes DEF Numbers
<1>3. Bases[f][e] \in Int
  <2>1. Bases[f] \in Seq(Nat)
    BY UdpAssumption
  <2> QED
    BY <2>1
<1>4. Low(Bases[f][e] + n) \in Int
  <2>1. PICK x \in Int : x = Bases[f][e] + n
    BY <1>2, <1>3
  <2> QED
    BY <2>1, LowOf, Sizes
<1> QED
  BY <1>1, <1>2, <1>3, <1>4 DEF PacketOf, Low

\* What an observer writes: the packet with its number, unwrapped.
LEMMA RecordIs ==
    ASSUME NEW p \in Packets, NEW x \in Int
    PROVE  LET r == [p EXCEPT !.extended = x]
           IN  /\ r \in Records /\ r.extended = x /\ r.flow = p.flow /\ r.epoch = p.epoch
               /\ r.n = p.n /\ r.size = p.size /\ r.seq = p.seq
<1>0. PICK f \in Flows : \E e \in DOMAIN Bases[f], n \in Numbers : p = PacketOf(f, e, n)
  BY DEF Packets, Numbers
<1>1. PICK e \in DOMAIN Bases[f], n \in Numbers : p = PacketOf(f, e, n)
  BY <1>0
<1>2. [p EXCEPT !.extended = x] \in Records
  BY DEF Records
<1> QED
  BY <1>1, <1>2 DEF PacketOf

\* What a note in a stage leaves as it was.
Noted(s, t) ==
    /\ t \in Stage /\ t.key = s.key /\ t.numbers = s.numbers /\ t.extended = s.extended
    /\ t.duplicates = s.duplicates /\ t.spool = s.spool /\ t.limited = s.limited
    /\ t.truncated = s.truncated /\ t.rtcp = s.rtcp /\ s.warnings \subseteq t.warnings

LEMMA StageIs ==
    ASSUME NEW s \in Stage
    PROVE  /\ s.key \in Flows /\ s.numbers \in SUBSET Int /\ s.extended \in Int
           /\ s.pending \in {None} \cup Packets /\ s.codec \in Codecs /\ s.mixed \in BOOLEAN
           /\ s.session \in Sessions /\ s.duplicates \in Nat /\ s.events \in Nat
           /\ s.spool \in Seq(Records) /\ s.limited \in BOOLEAN /\ s.truncated \in BOOLEAN
           /\ s.rtcp \in Seq(Reports) /\ s.warnings \in SUBSET Warnings
BY DEF Stage

LEMMA WithWarning ==
    ASSUME NEW s \in Stage, NEW w \in Warnings
    PROVE  LET t == [s EXCEPT !.warnings = @ \cup {w}]
           IN  Noted(s, t) /\ t.pending = s.pending /\ w \in t.warnings
BY DEF Stage, Noted

LEMMA WithPending ==
    ASSUME NEW s \in Stage, NEW p \in {None} \cup Packets
    PROVE  LET t == [s EXCEPT !.pending = p] IN Noted(s, t) /\ t.pending = p
BY DEF Stage, Noted

LEMMA WithSession ==
    ASSUME NEW s \in Stage, NEW x \in Sessions
    PROVE  LET t == [s EXCEPT !.session = x] IN Noted(s, t) /\ t.pending = s.pending
BY DEF Stage, Noted

LEMMA WithCodec ==
    ASSUME NEW s \in Stage, NEW x \in Codecs
    PROVE  Noted(s, Recoded(s, x)) /\ Recoded(s, x).pending = s.pending
<1>1. \A v \in SUBSET Warnings : s.warnings \subseteq v =>
         LET t == [s EXCEPT !.codec = x, !.mixed = TRUE, !.warnings = v]
         IN  Noted(s, t) /\ t.pending = s.pending
  BY DEF Stage, Noted
<1>2. \A v \in SUBSET Warnings : s.warnings \subseteq v =>
         LET t == [s EXCEPT !.codec = x, !.warnings = v]
         IN  Noted(s, t) /\ t.pending = s.pending
  BY DEF Stage, Noted
<1>3. Noted(s, s)
  BY DEF Noted
<1>4. CASE x = None
  BY <1>3, <1>4 DEF Recoded
<1>5. CASE x # None /\ s.codec # None /\ s.codec # x
  <2>1. PICK v \in SUBSET Warnings : v = s.warnings \cup {"mixed_codec"}
    BY StageIs DEF Warnings
  <2>2. Recoded(s, x) = [s EXCEPT !.codec = x, !.mixed = TRUE, !.warnings = v]
    BY <1>5, <2>1 DEF Recoded
  <2>3. s.warnings \subseteq v
    BY <2>1
  <2>4. LET t == [s EXCEPT !.codec = x, !.mixed = TRUE, !.warnings = v]
        IN  Noted(s, t) /\ t.pending = s.pending
    BY <1>1, <2>3
  <2> QED
    BY <2>2, <2>4
<1>6. CASE x # None /\ s.codec = None
  <2>1. PICK v \in SUBSET Warnings : v = s.warnings \cup {"late_codec"}
    BY StageIs DEF Warnings
  <2>2. Recoded(s, x) = [s EXCEPT !.codec = x, !.warnings = v]
    BY <1>6, <2>1 DEF Recoded
  <2>3. s.warnings \subseteq v
    BY <2>1
  <2>4. LET t == [s EXCEPT !.codec = x, !.warnings = v]
        IN  Noted(s, t) /\ t.pending = s.pending
    BY <1>2, <2>3
  <2> QED
    BY <2>2, <2>4
<1>7. CASE x # None /\ s.codec = x
  BY <1>3, <1>7 DEF Recoded
<1> QED
  BY <1>4, <1>5, <1>6, <1>7

LEMMA WithEvent ==
    ASSUME NEW s \in Stage, NEW n \in Nat
    PROVE  LET t == [s EXCEPT !.events = n] IN Noted(s, t) /\ t.pending = s.pending
BY DEF Stage, Noted

LEMMA WithTimeline ==
    ASSUME NEW s \in Stage, NEW r
    PROVE  Noted(s, Timeline(s, r)) /\ Timeline(s, r).pending = s.pending
<1>1. LET t == [s EXCEPT !.events = @ + 1] IN Noted(s, t) /\ t.pending = s.pending
  <2>1. PICK n \in Nat : n = s.events + 1
    BY StageIs
  <2> QED
    BY <2>1, WithEvent
<1>2. LET t == [s EXCEPT !.warnings = @ \cup {"timeline_cut"}]
      IN  Noted(s, t) /\ t.pending = s.pending
  <2>1. PICK w \in Warnings : w = "timeline_cut"
    BY DEF Warnings
  <2> QED
    BY <2>1, WithWarning
<1>3. Noted(s, s)
  BY DEF Noted
<1> QED
  BY <1>1, <1>2, <1>3 DEF Timeline

-----------------------------------------------------------------------------
\* d is c with another stage at i, and perhaps another sample and more warnings.
Writes(c, d, i) ==
    /\ d \in CaptureType /\ d.routes = c.routes
    /\ c.warnings \subseteq d.warnings /\ DOMAIN d.states = DOMAIN c.states
    /\ \A j \in DOMAIN c.states : j # i => d.states[j] = c.states[j]

LEMMA CaptureIs ==
    ASSUME NEW c \in CaptureType
    PROVE  /\ c.states \in Seq(Stage) /\ c.bindings \in Seq(Offers) /\ c.sample \in Nat
           /\ c.warnings \in SUBSET Warnings /\ DOMAIN c.routes \in SUBSET Flows
           /\ c.routes \in [DOMAIN c.routes -> Nat] /\ Len(c.states) \in Nat
           /\ DOMAIN c.states = 1..Len(c.states)
           /\ \A i \in DOMAIN c.states : c.states[i] \in Stage
<1>1. /\ c.states \in Seq(Stage) /\ c.bindings \in Seq(Offers) /\ c.sample \in Nat
      /\ c.warnings \in SUBSET Warnings
      /\ c.routes \in UNION {[S -> Nat] : S \in SUBSET Flows}
  BY DEF CaptureType
<1>2. PICK S \in SUBSET Flows : c.routes \in [S -> Nat]
  BY <1>1
<1> QED
  BY <1>1, <1>2

PutBoth(c, i, t, n) == [c EXCEPT !.states[i] = t, !.sample = n]

LEMMA PutBothIs ==
    ASSUME NEW c \in CaptureType, NEW i \in DOMAIN c.states, NEW t \in Stage, NEW n \in Nat
    PROVE  LET d == PutBoth(c, i, t, n)
           IN  Writes(c, d, i) /\ d.states[i] = t /\ d.sample = n
<1> DEFINE d == PutBoth(c, i, t, n)
<1>1. c.states \in Seq(Stage) /\ i \in 1..Len(c.states) /\ DOMAIN c.states = 1..Len(c.states)
  BY CaptureIs
<1>2. PICK T : T = [c.states EXCEPT ![i] = t]
  OBVIOUS
<1>3. T \in Seq(Stage) /\ Len(T) = Len(c.states)
  BY <1>1, <1>2, ExceptSeq
<1>4. T[i] = t /\ DOMAIN T = DOMAIN c.states
      /\ \A j \in DOMAIN c.states : j # i => T[j] = c.states[j]
  BY <1>1, <1>2
<1>5. d = [c EXCEPT !.states = T, !.sample = n]
  BY <1>2 DEF CaptureType, PutBoth
<1>6. /\ d \in CaptureType /\ d.states = T /\ d.routes = c.routes
      /\ d.bindings = c.bindings /\ d.sample = n /\ d.warnings = c.warnings
  BY <1>3, <1>5 DEF CaptureType
<1> QED
  BY <1>4, <1>6 DEF Writes

LEMMA PutIs ==
    ASSUME NEW c \in CaptureType, NEW i \in DOMAIN c.states, NEW t \in Stage
    PROVE  LET d == [c EXCEPT !.states[i] = t]
           IN  Writes(c, d, i) /\ d.states[i] = t /\ d.sample = c.sample
<1>1. PICK n \in Nat : n = c.sample
  BY CaptureIs
<1>2. [c EXCEPT !.states[i] = t] = PutBoth(c, i, t, n)
  BY <1>1 DEF CaptureType, PutBoth
<1>3. PICK d : d = PutBoth(c, i, t, n)
  OBVIOUS
<1>4. Writes(c, d, i) /\ d.states[i] = t /\ d.sample = n
  BY <1>3, PutBothIs
<1> QED
  BY <1>1, <1>2, <1>3, <1>4

LEMMA WarnIs ==
    ASSUME NEW c \in CaptureType, NEW w \in Warnings
    PROVE  /\ Warn(c, w) \in CaptureType /\ Warn(c, w).states = c.states
           /\ Warn(c, w).routes = c.routes /\ Warn(c, w).bindings = c.bindings
           /\ c.warnings \subseteq Warn(c, w).warnings /\ w \in Warn(c, w).warnings
BY DEF CaptureType, Warn

LEMMA WarnStageIs ==
    ASSUME NEW c \in CaptureType, NEW i \in DOMAIN c.states, NEW w \in Warnings
    PROVE  LET d == WarnStage(c, i, w)
           IN  /\ Writes(c, d, i) /\ Noted(c.states[i], d.states[i])
               /\ d.states[i].pending = c.states[i].pending /\ w \in d.states[i].warnings
<1>1. c.states[i] \in Stage
  BY CaptureIs
<1>2. PICK t : t = [c.states[i] EXCEPT !.warnings = @ \cup {w}]
  OBVIOUS
<1>3. /\ Noted(c.states[i], t) /\ t.pending = c.states[i].pending /\ w \in t.warnings
      /\ t \in Stage
  BY <1>1, <1>2, WithWarning DEF Noted
<1>4. WarnStage(c, i, w) = [c EXCEPT !.states[i] = t]
  BY <1>2 DEF WarnStage
<1> QED
  BY <1>3, <1>4, PutIs

LEMMA WritesOn ==
    ASSUME NEW c, NEW d, NEW e, NEW i, Writes(c, d, i), Writes(d, e, i)
    PROVE  Writes(c, e, i)
BY DEF Writes

-----------------------------------------------------------------------------
\* What observe does to its stage: the number of the packet is new or not, and
\* a new one goes to the spool unless that has ended.
Observed(s, t, p) ==
    LET x == Extend(s.extended, p.seq)
    IN  /\ t \in Stage /\ t.key = s.key /\ t.pending = s.pending /\ t.rtcp = s.rtcp
        /\ s.warnings \subseteq t.warnings
        /\ t.extended = IF x > s.extended THEN x ELSE s.extended
        /\ \/ /\ x \in s.numbers /\ t.numbers = s.numbers
              /\ t.duplicates = s.duplicates + 1
              /\ t.spool = s.spool /\ t.limited = s.limited /\ t.truncated = s.truncated
           \/ /\ x \notin s.numbers /\ t.numbers = s.numbers \cup {x}
              /\ t.duplicates = s.duplicates
              /\ \/ /\ s.limited /\ t.limited = s.limited
                    /\ t.truncated = s.truncated /\ t.spool = s.spool
                 \/ ~s.limited /\ t.limited /\ t.truncated /\ t.spool = s.spool
                 \/ /\ ~s.limited /\ t.limited = s.limited /\ t.truncated = s.truncated
                    /\ t.spool = Append(s.spool, [p EXCEPT !.extended = x])

LEMMA ExtendType ==
    \A h \in Int, seq \in Int : Extend(h, seq) \in Int
<1> SUFFICES ASSUME NEW h \in Int, NEW seq \in Int PROVE Extend(h, seq) \in Int
  OBVIOUS
<1>1. PICK z \in Int : z = seq - h
  OBVIOUS
<1>2. Low(z) \in Int
  BY LowOf, Sizes
<1> QED
  BY <1>1, <1>2, Sizes DEF Extend, Low

\* The spool of stage i, for a record of the packet just counted.
LEMMA SpooledIs ==
    ASSUME NEW c \in CaptureType, NEW i \in DOMAIN c.states, NEW r \in Records,
           r.size \in Nat
    PROVE  LET d == Spooled(c, i, r)
               s == c.states[i]
               t == d.states[i]
           IN  /\ Writes(c, d, i)
               /\ t \in Stage /\ t.key = s.key /\ t.pending = s.pending /\ t.rtcp = s.rtcp
               /\ s.warnings \subseteq t.warnings /\ t.extended = s.extended
               /\ t.numbers = s.numbers /\ t.duplicates = s.duplicates
               /\ \/ /\ s.limited /\ t.limited = s.limited
                     /\ t.truncated = s.truncated /\ t.spool = s.spool
                  \/ ~s.limited /\ t.limited /\ t.truncated /\ t.spool = s.spool
                  \/ /\ ~s.limited /\ t.limited = s.limited /\ t.truncated = s.truncated
                     /\ t.spool = Append(s.spool, r)
<1> DEFINE s == c.states[i]
<1>1. s \in Stage /\ c.sample \in Nat
  BY CaptureIs
<1>2. CASE s.limited
  <2>1. Spooled(c, i, r) = c
    BY <1>2 DEF Spooled
  <2>2. Writes(c, c, i)
    BY DEF Writes
  <2> QED
    BY <1>1, <1>2, <2>1, <2>2
<1>3. CASE ~s.limited /\ c.sample + r.size > MaxSample
  <2>1. PICK v \in SUBSET Warnings : v = s.warnings \cup {"sample_limit"}
    BY <1>1, StageIs DEF Warnings
  <2>2. PICK t : t = [s EXCEPT !.limited = TRUE, !.truncated = TRUE, !.warnings = v]
    OBVIOUS
  <2>3. /\ t \in Stage /\ t.key = s.key /\ t.pending = s.pending /\ t.rtcp = s.rtcp
        /\ t.warnings = v /\ t.extended = s.extended
        /\ t.numbers = s.numbers /\ t.duplicates = s.duplicates
        /\ t.limited /\ t.truncated /\ t.spool = s.spool
    BY <1>1, <2>2 DEF Stage
  <2>4. Spooled(c, i, r) = [c EXCEPT !.states[i] = t]
    BY <1>3, <2>1, <2>2 DEF Spooled
  <2>5. Writes(c, Spooled(c, i, r), i) /\ Spooled(c, i, r).states[i] = t
    BY <2>3, <2>4, PutIs
  <2> QED
    BY <1>3, <2>1, <2>3, <2>5
<1>4. CASE ~s.limited /\ ~(c.sample + r.size > MaxSample)
  <2>1. PICK z \in Seq(Records) : z = Append(s.spool, r)
    BY <1>1, StageIs, AppendProperties
  <2>2. PICK t : t = [s EXCEPT !.spool = z]
    OBVIOUS
  <2>3. /\ t \in Stage /\ t.key = s.key /\ t.pending = s.pending /\ t.rtcp = s.rtcp
        /\ t.warnings = s.warnings /\ t.extended = s.extended
        /\ t.numbers = s.numbers /\ t.duplicates = s.duplicates
        /\ t.limited = s.limited /\ t.truncated = s.truncated /\ t.spool = z
    BY <1>1, <2>2 DEF Stage
  <2>4. PICK n \in Nat : n = c.sample + r.size
    BY <1>1
  <2>5. Spooled(c, i, r) = PutBoth(c, i, t, n)
    BY <1>4, <2>1, <2>2, <2>4 DEF Spooled, PutBoth
  <2>6. Writes(c, Spooled(c, i, r), i) /\ Spooled(c, i, r).states[i] = t
    BY <2>3, <2>5, PutBothIs
  <2> QED
    BY <1>4, <2>1, <2>3, <2>6
<1> QED
  BY <1>2, <1>3, <1>4

LEMMA ObserveIs ==
    ASSUME NEW c \in CaptureType, NEW i \in DOMAIN c.states, NEW p \in Packets,
           NEW codec \in Codecs
    PROVE  LET d == Observe(c, i, p, codec)
           IN  Writes(c, d, i) /\ Observed(c.states[i], d.states[i], p)
<1> DEFINE o == c.states[i]
           x == Extend(o.extended, p.seq)
           r == [p EXCEPT !.extended = x]
           top == IF x > o.extended THEN x ELSE o.extended
           s == [Recoded(o, codec) EXCEPT !.extended = IF r.extended > @ THEN r.extended ELSE @]
           t == [Timeline(s, r) EXCEPT !.numbers = @ \cup {r.extended}]
<1>1. o \in Stage /\ x \in Int
  BY CaptureIs, StageIs, PacketIs, ExtendType
<1>2. r \in Records /\ r.extended = x /\ r.size \in Nat
  BY <1>1, RecordIs, PacketIs
<1>3. Noted(o, Recoded(o, codec)) /\ Recoded(o, codec).pending = o.pending
  BY <1>1, WithCodec
<1>4. top \in Int
  BY <1>1, StageIs
<1> HIDE DEF o, x, r, top
<1>5. s = [Recoded(o, codec) EXCEPT !.extended = top]
  BY <1>2, <1>3 DEF Noted, Stage, top
<1>6. /\ s \in Stage /\ s.key = o.key /\ s.numbers = o.numbers /\ s.extended = top
      /\ s.pending = o.pending /\ s.duplicates = o.duplicates /\ s.spool = o.spool
      /\ s.limited = o.limited /\ s.truncated = o.truncated /\ s.rtcp = o.rtcp
      /\ o.warnings \subseteq s.warnings
  BY <1>3, <1>4, <1>5 DEF Noted, Stage
<1> HIDE DEF s
<1>7. Noted(s, Timeline(s, r)) /\ Timeline(s, r).pending = s.pending
  BY <1>6, WithTimeline
<1>8. /\ t \in Stage /\ t.key = o.key /\ t.numbers = o.numbers \cup {x} /\ t.extended = top
      /\ t.pending = o.pending /\ t.duplicates = o.duplicates /\ t.spool = o.spool
      /\ t.limited = o.limited /\ t.truncated = o.truncated /\ t.rtcp = o.rtcp
      /\ o.warnings \subseteq t.warnings
  <2>1. PICK z \in SUBSET Int : z = o.numbers \cup {x}
    BY <1>1, StageIs
  <2>2. PICK y : y = Timeline(s, r) /\ Noted(s, y) /\ y.pending = s.pending
    BY <1>7
  <2>3. t = [y EXCEPT !.numbers = z]
    BY <1>2, <1>6, <2>1, <2>2 DEF Noted, Stage
  <2>4. /\ t \in Stage /\ t.key = y.key /\ t.numbers = z /\ t.extended = y.extended
        /\ t.pending = y.pending /\ t.duplicates = y.duplicates /\ t.spool = y.spool
        /\ t.limited = y.limited /\ t.truncated = y.truncated /\ t.rtcp = y.rtcp
        /\ t.warnings = y.warnings
    <3> HIDE DEF t
    <3>1. y \in Stage
      BY <2>2 DEF Noted
    <3> QED
      BY <2>1, <2>3, <3>1 DEF Stage
  <2> HIDE DEF t
  <2> QED
    BY <1>6, <2>1, <2>2, <2>4 DEF Noted
<1> HIDE DEF t
<1>9. Observe(c, i, p, codec) =
        IF x \in o.numbers THEN [c EXCEPT !.states[i] = [s EXCEPT !.duplicates = @ + 1]]
        ELSE Spooled([c EXCEPT !.states[i] = t], i, r)
  <2>1. Observe(c, i, p, codec) =
          IF r.extended \in s.numbers
          THEN [c EXCEPT !.states[i] = [s EXCEPT !.duplicates = @ + 1]]
          ELSE Spooled([c EXCEPT !.states[i] = t], i, r)
    BY Zenon DEF Observe, o, x, r, s, t
  <2> QED
    BY <1>2, <1>6, <2>1
<1>10. CASE x \in o.numbers
  <2>1. PICK n \in Nat : n = o.duplicates + 1 /\ n = s.duplicates + 1
    BY <1>1, <1>6, StageIs
  <2>2. PICK y : y = [s EXCEPT !.duplicates = n]
    OBVIOUS
  <2>3. /\ y \in Stage /\ y.key = o.key /\ y.numbers = o.numbers /\ y.extended = top
        /\ y.pending = o.pending /\ y.duplicates = n /\ y.spool = o.spool
        /\ y.limited = o.limited /\ y.truncated = o.truncated /\ y.rtcp = o.rtcp
        /\ o.warnings \subseteq y.warnings
    BY <1>6, <2>2 DEF Stage
  <2>4. Observe(c, i, p, codec) = [c EXCEPT !.states[i] = y]
    BY <1>9, <1>10, <2>1, <2>2
  <2>5. Writes(c, Observe(c, i, p, codec), i) /\ Observe(c, i, p, codec).states[i] = y
    BY <2>3, <2>4, PutIs
  <2>6. Observed(o, y, p)
    BY <1>10, <2>1, <2>3 DEF Observed, x, top
  <2> QED
    BY <2>5, <2>6 DEF o
<1>11. CASE x \notin o.numbers
  <2>0. PICK a : a = [c EXCEPT !.states[i] = t]
    OBVIOUS
  <2>1. /\ Writes(c, a, i) /\ a.states[i] = t
        /\ i \in DOMAIN a.states /\ a \in CaptureType
    <3>1. Writes(c, a, i) /\ a.states[i] = t
      BY <1>8, <2>0, PutIs
    <3> QED
      BY <3>1 DEF Writes
  <2>2. PICK b : b = Spooled(a, i, r)
    OBVIOUS
  <2>3. b = Observe(c, i, p, codec)
    BY <1>9, <1>11, <2>0, <2>2
  <2>4. PICK y : y = b.states[i]
    OBVIOUS
  <2>5. /\ Writes(a, b, i)
        /\ y \in Stage /\ y.key = t.key /\ y.pending = t.pending /\ y.rtcp = t.rtcp
        /\ t.warnings \subseteq y.warnings /\ y.extended = t.extended
        /\ y.numbers = t.numbers /\ y.duplicates = t.duplicates
        /\ \/ /\ t.limited /\ y.limited = t.limited
              /\ y.truncated = t.truncated /\ y.spool = t.spool
           \/ ~t.limited /\ y.limited /\ y.truncated /\ y.spool = t.spool
           \/ /\ ~t.limited /\ y.limited = t.limited /\ y.truncated = t.truncated
              /\ y.spool = Append(t.spool, r)
    BY <1>2, <2>1, <2>2, <2>4, SpooledIs
  <2>6. Observed(o, y, p)
    BY <1>8, <1>11, <2>5 DEF Observed, x, top, r
  <2>7. Writes(c, b, i)
    BY <2>1, <2>5, WritesOn
  <2> QED
    BY <2>3, <2>4, <2>6, <2>7 DEF o
<1> QED
  BY <1>10, <1>11

-----------------------------------------------------------------------------
\* What is counted and what is kept stay together.
LEMMA TalliedStays ==
    ASSUME NEW s \in Stage, NEW t, NEW p, Observed(s, t, p), Tallied(s)
    PROVE  Tallied(t)
<1> DEFINE x == Extend(s.extended, p.seq)
<1>1. /\ IsFiniteSet(s.numbers) /\ Cardinality(s.numbers) \in Nat /\ Len(s.spool) \in Nat
      /\ s.spool \in Seq(Records) /\ s.limited \in BOOLEAN /\ t.spool \in Seq(Records)
  BY StageIs, FS_CardinalityType DEF Tallied, Observed
<1>2. CASE x \in s.numbers
  BY <1>2 DEF Observed, Tallied
<1>3. CASE x \notin s.numbers
  <2>1. /\ IsFiniteSet(s.numbers \cup {x})
        /\ Cardinality(s.numbers \cup {x}) = Cardinality(s.numbers) + 1
    BY <1>1, <1>3, FS_AddElement
  <2>2. t.numbers = s.numbers \cup {x}
    BY <1>3 DEF Observed
  <2>3. PICK c \in Nat : c = Cardinality(s.numbers) /\ Cardinality(t.numbers) = c + 1
    BY <1>1, <2>1, <2>2
  <2>4. CASE s.limited
    <3>1. t.limited /\ t.truncated /\ t.spool = s.spool /\ Len(s.spool) < c
      BY <1>3, <2>3, <2>4 DEF Observed, Tallied
    <3> QED
      BY <1>1, <2>1, <2>2, <2>3, <3>1, StageIs DEF Tallied, Observed
  <2>5. CASE ~s.limited
    <3>1. Len(s.spool) = c
      BY <2>3, <2>5 DEF Tallied
    <3>2. CASE t.limited /\ t.truncated /\ t.spool = s.spool
      BY <1>1, <2>1, <2>2, <2>3, <3>1, <3>2 DEF Tallied, Observed, Stage
    <3>3. CASE t.limited = s.limited /\ t.truncated = s.truncated
               /\ t.spool = Append(s.spool, [p EXCEPT !.extended = x])
      <4>1. PICK r : r = [p EXCEPT !.extended = x]
        OBVIOUS
      <4>2. t.spool = Append(s.spool, r)
        BY <3>3, <4>1
      <4>3. Len(t.spool) = Len(s.spool) + 1
        BY <1>1, <4>2
      <4> QED
        BY <1>1, <2>1, <2>2, <2>3, <2>5, <3>1, <3>3, <4>3 DEF Tallied
    <3> QED
      BY <1>3, <2>5, <3>2, <3>3 DEF Observed
  <2> QED
    BY <2>4, <2>5
<1> QED
  BY <1>2, <1>3

\* What a record adds to a spool.
LEMMA Recorded ==
    ASSUME NEW s \in Stage, NEW t \in Stage, NEW r, t.spool = Append(s.spool, r)
    PROVE  /\ DOMAIN s.spool \subseteq DOMAIN t.spool
           /\ \A a \in DOMAIN s.spool : t.spool[a] = s.spool[a]
           /\ \A a \in DOMAIN t.spool \ DOMAIN s.spool :
                 t.spool[a] = r /\ a = Len(s.spool) + 1
<1>1. s.spool \in Seq(Records)
  BY StageIs
<1> QED
  BY <1>1

\* A packet of the start a stage counts takes its place.
LEMMA PlacedStays ==
    ASSUME NEW s \in Stage, NEW t, NEW p \in Packets, Observed(s, t, p),
           NEW e, NEW k \in Int, Placed(s, e, k), p.flow = s.key, p.epoch = e
    PROVE  Placed(t, e, k)
<1> DEFINE x == Extend(s.extended, p.seq)
           b == Bases[s.key][e]
<1>1. s.extended - k \in Numbers /\ s.extended \in Int /\ s.numbers \in SUBSET Int /\ t \in Stage
  BY StageIs DEF Placed, Observed
<1>2. p.n \in Numbers /\ p.seq = Low(b + p.n) /\ b \in Int /\ p.n \in Int /\ Low(k) = Low(b)
  BY PacketIs DEF Placed, Low
<1>3. x = k + p.n
  <2>1. PICK m \in Numbers : m = s.extended - k /\ s.extended = k + m
    BY <1>1
  <2>2. Extend(k + m, Low(b + p.n)) = k + p.n
    BY <1>2, ExtendIs
  <2> QED
    BY <1>2, <2>1, <2>2
<1>4. x \in Int /\ x - k \in Numbers
  BY <1>2, <1>3
<1> HIDE DEF x, b
<1>5. t.key = s.key /\ t.extended = IF x > s.extended THEN x ELSE s.extended
  BY DEF Observed, x
<1>6. t.numbers = s.numbers \cup {x}
  BY DEF Observed, x
<1>7. t.extended \in t.numbers /\ \A y \in t.numbers : y - k \in Numbers /\ y <= t.extended
  BY <1>1, <1>4, <1>5, <1>6 DEF Placed
<1>8. e \in DOMAIN Bases[t.key] /\ k % SequenceMod = Bases[t.key][e] % SequenceMod
  BY <1>5 DEF Placed
<1>9. CASE t.spool = s.spool
  BY <1>5, <1>6, <1>7, <1>8, <1>9 DEF Placed
<1>10. CASE t.spool # s.spool
  <2>1. x \notin s.numbers
    BY <1>10 DEF Observed, x
  <2>2. PICK r : r = [p EXCEPT !.extended = x]
    OBVIOUS
  <2>3. t.spool = Append(s.spool, r)
    BY <1>10, <2>2 DEF Observed, x
  <2>4. /\ DOMAIN s.spool \subseteq DOMAIN t.spool
        /\ \A a \in DOMAIN s.spool : t.spool[a] = s.spool[a]
        /\ \A a \in DOMAIN t.spool \ DOMAIN s.spool :
              t.spool[a] = r /\ a = Len(s.spool) + 1
    BY <1>1, <2>3, Recorded
  <2>5. r.flow = p.flow /\ r.epoch = p.epoch /\ r.n = p.n /\ r.extended = x
    BY <1>4, <2>2, RecordIs
  <2>6. \A a \in DOMAIN t.spool :
          LET q == t.spool[a]
          IN  q.flow = t.key /\ q.epoch = e /\ q.extended = k + q.n /\ q.extended \in t.numbers
    <3> SUFFICES ASSUME NEW a \in DOMAIN t.spool
                 PROVE  LET q == t.spool[a]
                        IN  q.flow = t.key /\ q.epoch = e /\ q.extended = k + q.n
                            /\ q.extended \in t.numbers
      OBVIOUS
    <3>1. CASE a \in DOMAIN s.spool
      BY <1>5, <1>6, <2>4, <3>1 DEF Placed
    <3>2. CASE a \notin DOMAIN s.spool
      BY <1>3, <1>5, <1>6, <2>4, <2>5, <3>2
    <3> QED
      BY <3>1, <3>2
  <2>7. \A a, c \in DOMAIN t.spool : a # c => t.spool[a].extended # t.spool[c].extended
    <3> SUFFICES ASSUME NEW a \in DOMAIN t.spool, NEW c \in DOMAIN t.spool, a # c
                 PROVE  t.spool[a].extended # t.spool[c].extended
      OBVIOUS
    <3>1. \A d \in DOMAIN s.spool : t.spool[d] = s.spool[d] /\ t.spool[d].extended \in s.numbers
      BY <2>4 DEF Placed
    <3>2. \A d \in DOMAIN t.spool \ DOMAIN s.spool : t.spool[d].extended = x
      BY <2>4, <2>5
    <3>3. CASE a \in DOMAIN s.spool /\ c \in DOMAIN s.spool
      BY <3>1, <3>3 DEF Placed
    <3>4. CASE a \in DOMAIN s.spool /\ c \notin DOMAIN s.spool
      BY <2>1, <3>1, <3>2, <3>4
    <3>5. CASE a \notin DOMAIN s.spool /\ c \in DOMAIN s.spool
      BY <2>1, <3>1, <3>2, <3>5
    <3>6. CASE a \notin DOMAIN s.spool /\ c \notin DOMAIN s.spool
      BY <2>4, <3>6
    <3> QED
      BY <3>3, <3>4, <3>5, <3>6
  <2> QED
    BY <1>7, <1>8, <2>6, <2>7 DEF Placed
<1> QED
  BY <1>9, <1>10

\* A stage that was opened for a packet and has not counted it yet.
Fresh(s, p) ==
    /\ s.key = p.flow /\ s.numbers = {} /\ s.extended = p.seq /\ s.pending = None
    /\ s.duplicates = 0 /\ s.spool = <<>> /\ ~s.limited /\ ~s.truncated /\ s.rtcp = <<>>

LEMMA FreshIsTallied ==
    ASSUME NEW s \in Stage, NEW p, Fresh(s, p)
    PROVE  Tallied(s)
BY StageIs, FS_EmptySet DEF Fresh, Tallied

\* The packet that opens a stage decides what the stage counts.
LEMMA PlacedFirst ==
    ASSUME NEW s \in Stage, NEW t, NEW p \in Packets, Observed(s, t, p), Fresh(s, p)
    PROVE  \E k \in Int : Placed(t, p.epoch, k)
<1> DEFINE b == Bases[p.flow][p.epoch]
<1>1. p.n \in Numbers /\ p.seq = Low(b + p.n) /\ b \in Int /\ p.n \in Int /\ p.seq \in Int
      /\ p.epoch \in DOMAIN Bases[p.flow]
  BY PacketIs
<1>2. t \in Stage /\ t.key = p.flow
  BY DEF Observed, Fresh
<1> HIDE DEF b
<1>3. Extend(p.seq, p.seq) = p.seq
  <2>1. Low(0) = 0
    BY LowOf, LowIs, Sizes
  <2>2. SequenceMod \div 2 \in Nat /\ 0 < SequenceMod \div 2
    BY Sizes
  <2>3. (p.seq - p.seq) % SequenceMod = 0
    BY <1>1, <2>1 DEF Low
  <2> QED
    BY <1>1, <2>2, <2>3 DEF Extend
<1>4. PICK k \in Int : k = p.seq - p.n /\ p.seq = k + p.n
  BY <1>1
<1>5. Low(k) = Low(b)
  <2>1. PICK y \in Int, c \in Int : y = b + p.n /\ c = 0 - p.n
    BY <1>1
  <2>2. Low(p.seq) = Low(y)
    BY <1>1, <2>1, LowOf
  <2>3. Low(p.seq + c) = Low(y + c)
    BY <1>1, <2>2, CongruentSum
  <2>4. p.seq + c = k /\ y + c = b
    BY <1>1, <1>4, <2>1
  <2> QED
    BY <2>3, <2>4
<1>6. t.numbers = {p.seq} /\ t.extended = p.seq
  BY <1>1, <1>3 DEF Observed, Fresh
<1>7. CASE t.spool = <<>>
  <2>1. DOMAIN t.spool = {}
    BY <1>7
  <2> QED
    BY <1>1, <1>2, <1>4, <1>5, <1>6, <2>1 DEF Placed, b, Low
<1>8. CASE t.spool # <<>>
  <2>1. PICK r : r = [p EXCEPT !.extended = p.seq]
    OBVIOUS
  <2>2. t.spool = Append(s.spool, r)
    BY <1>3, <1>8, <2>1 DEF Observed, Fresh
  <2>3. r.flow = p.flow /\ r.epoch = p.epoch /\ r.n = p.n /\ r.extended = p.seq
    BY <1>1, <2>1, RecordIs
  <2>4. DOMAIN t.spool = {1} /\ t.spool[1] = r
    BY <2>2 DEF Fresh
  <2>5. p.epoch \in DOMAIN Bases[t.key] /\ k % SequenceMod = Bases[t.key][p.epoch] % SequenceMod
    BY <1>1, <1>2, <1>5 DEF b, Low
  <2>6. t.extended \in t.numbers /\ \A x \in t.numbers : x - k \in Numbers /\ x <= t.extended
    BY <1>1, <1>4, <1>6
  <2>7. \A a \in DOMAIN t.spool :
          LET q == t.spool[a]
          IN  /\ q.flow = t.key /\ q.epoch = p.epoch
              /\ q.extended = k + q.n /\ q.extended \in t.numbers
    BY <1>2, <1>4, <1>6, <2>3, <2>4
  <2>8. \A a, c \in DOMAIN t.spool : a # c => t.spool[a].extended # t.spool[c].extended
    BY <2>4
  <2> QED
    BY <2>5, <2>6, <2>7, <2>8 DEF Placed
<1> QED
  BY <1>7, <1>8

\* A stage with numbers knows the highest.
LEMMA LastIs ==
    ASSUME NEW s \in Stage, NEW e, NEW k, Placed(s, e, k)
    PROVE  LastSequence(s) = Low(s.extended) /\ LastSequence(s) # None
<1>1. s.extended \in s.numbers /\ s.numbers \in SUBSET Int /\ s.extended \in Int
      /\ \A y \in s.numbers : y <= s.extended
  BY StageIs DEF Placed
<1>2. (CHOOSE h \in s.numbers : \A y \in s.numbers : y <= h) = s.extended
  BY <1>1
<1>3. LastSequence(s) = Low(s.extended)
  BY <1>1, <1>2 DEF LastSequence, Low
<1>4. Low(s.extended) \in Nat
  BY <1>1, LowOf, Sizes
<1> QED
  BY <1>3, <1>4, Sizes

\* What does not jump belongs to the start the stage counts.
LEMMA SameStart ==
    ASSUME NEW s \in Stage, NEW e, NEW k \in Int, Placed(s, e, k),
           NEW p \in Packets, p.flow = s.key, ~Jumps(s, p)
    PROVE  p.epoch = e
<1> SUFFICES ASSUME p.epoch # e
             PROVE  FALSE
  OBVIOUS
<1> DEFINE b == Bases[s.key][e]
           c == Bases[s.key][p.epoch]
<1>1. LastSequence(s) = Low(s.extended) /\ LastSequence(s) # None
  BY LastIs
<1>2. PICK m \in Numbers : m = s.extended - k /\ s.extended = k + m
  BY StageIs DEF Placed
<1>3. /\ s.key \in Flows /\ e \in DOMAIN Bases[s.key] /\ p.epoch \in DOMAIN Bases[s.key]
      /\ p.n \in Numbers /\ p.seq = Low(c + p.n) /\ c \in Int /\ p.n \in Int
      /\ m \in Int /\ s.extended \in Int
  <2>1. s.key \in Flows /\ e \in DOMAIN Bases[s.key] /\ s.extended \in Int
    BY StageIs DEF Placed
  <2>2. m \in Int
    BY Sizes DEF Numbers
  <2>3. /\ p.epoch \in DOMAIN Bases[s.key] /\ p.n \in Numbers
        /\ p.seq = Low(c + p.n) /\ c \in Int /\ p.n \in Int
    BY PacketIs
  <2> QED
    BY <2>1, <2>2, <2>3
<1>4. b \in Int
  <2>1. Bases[s.key] \in Seq(Nat)
    BY <1>3, UdpAssumption
  <2> QED
    BY <1>3, <2>1
<1>5. Low(k) = Low(b)
  BY DEF Placed, Low
<1>6. Low(c + p.n - (b + m)) \in JumpFrom..(JumpTo - 1)
  BY <1>3, StartsAssumption DEF Numbers, Low
<1> HIDE DEF b, c
<1>7. PICK x \in Int, y \in Int : x = c + p.n /\ y = b + m
  BY <1>3, <1>4
<1>8. Low(s.extended) = Low(y)
  <2>1. m \in Int
    BY <1>3
  <2>2. Low(k + m) = Low(b + m)
    BY <1>4, <1>5, <2>1, CongruentSum
  <2> QED
    BY <1>2, <1>7, <2>2
<1>9. Low(Low(x) - Low(s.extended)) = Low(x - y)
  <2>1. PICK h \in Int : h = s.extended
    BY <1>3
  <2>2. Low(h) = Low(y)
    BY <1>8, <2>1
  <2>3. Low(Low(x) - Low(h)) = Low(x - y)
    BY <2>2, Ahead
  <2> QED
    BY <2>1, <2>3
<1>10. Step(s, p) = Low(x - y)
  BY <1>1, <1>3, <1>7, <1>9 DEF Step, Low
<1>11. Step(s, p) \in JumpFrom..(JumpTo - 1)
  <2>1. x - y = c + p.n - (b + m)
    BY <1>3, <1>4, <1>7
  <2> QED
    BY <1>6, <1>10, <2>1
<1> QED
  BY <1>1, <1>11, Sizes DEF Jumps

\* What continues a jump belongs to the same start as the jump.
LEMMA ConfirmedStart ==
    ASSUME NEW q \in Packets, NEW p \in Packets, p.flow = q.flow, Confirms(q, p)
    PROVE  p.epoch = q.epoch
<1> SUFFICES ASSUME p.epoch # q.epoch
             PROVE  FALSE
  OBVIOUS
<1> DEFINE b == Bases[q.flow][q.epoch]
           c == Bases[q.flow][p.epoch]
<1>1. /\ q.flow \in Flows /\ q.epoch \in DOMAIN Bases[q.flow]
      /\ p.epoch \in DOMAIN Bases[q.flow] /\ p.n \in Numbers /\ q.n \in Numbers
      /\ p.seq = Low(c + p.n) /\ q.seq = Low(b + q.n)
      /\ b \in Int /\ c \in Int /\ p.n \in Int /\ q.n \in Int
  BY PacketIs
<1>2. Low(c + p.n - (b + q.n)) \in JumpFrom..(JumpTo - 1)
  BY <1>1, StartsAssumption DEF Numbers, Low
<1> HIDE DEF b, c
<1>3. PICK x \in Int, y \in Int : x = c + p.n /\ y = b + q.n
  BY <1>1
<1>4. PICK z \in Int : z = y + 1
  OBVIOUS
<1>5. Low(x) = Low(z)
  <2>1. Low(x) = Low(Low(y) + 1)
    BY <1>1, <1>3 DEF Confirms, Low
  <2>2. PICK w \in Int : w = Low(y) /\ Low(w) = Low(y)
    BY LowOf, Sizes
  <2>3. Low(w + 1) = Low(y + 1)
    BY <2>2, CongruentSum
  <2> QED
    BY <1>4, <2>1, <2>2, <2>3
<1>6. Low(x - y) = Low(z - y)
  BY <1>5, Congruent
<1>7. z - y = 1
  BY <1>4
<1>8. Low(1) = 1
  BY LowIs, Sizes
<1>9. Low(x - y) \in JumpFrom..(JumpTo - 1)
  <2>1. x - y = c + p.n - (b + q.n)
    BY <1>1, <1>3
  <2> QED
    BY <1>2, <2>1
<1> QED
  BY <1>6, <1>7, <1>8, <1>9, Sizes

-----------------------------------------------------------------------------
\* The packets of f that the stages of c account for.
Packed(c, f) ==
    UNION {Copies(i, c.states[i]) : i \in {j \in DOMAIN c.states : c.states[j].key = f}}

\* d accounts for k packets of f more than c.
Counts(c, d, f, k) ==
    IsFiniteSet(Packed(c, f)) =>
        /\ IsFiniteSet(Packed(d, f))
        /\ Cardinality(Packed(d, f)) = Cardinality(Packed(c, f)) + k

\* c and d differ in stage i at most, which is of the same flow.
Alike(c, d, i) ==
    /\ DOMAIN d.states = DOMAIN c.states /\ d.states[i].key = c.states[i].key
    /\ \A j \in DOMAIN c.states : j # i => d.states[j] = c.states[j]

LEMMA InPacked ==
    ASSUME NEW c, NEW f, NEW x
    PROVE  x \in Packed(c, f) <=>
               \E i \in DOMAIN c.states : c.states[i].key = f /\ x \in Copies(i, c.states[i])
BY DEF Packed

LEMMA CopiesAt ==
    ASSUME NEW i, NEW s, NEW x \in Copies(i, s)
    PROVE  x[1] = i
BY DEF Copies

LEMMA PackedAdds ==
    ASSUME NEW c, NEW d, NEW i \in DOMAIN c.states, Alike(c, d, i), NEW e, e[1] = i,
           e \notin Copies(i, c.states[i]),
           Copies(i, d.states[i]) = Copies(i, c.states[i]) \cup {e}
    PROVE  LET f == c.states[i].key
           IN  Packed(d, f) = Packed(c, f) \cup {e} /\ e \notin Packed(c, f)
<1> DEFINE f == c.states[i].key
<1>1. /\ DOMAIN d.states = DOMAIN c.states /\ d.states[i].key = f
      /\ \A j \in DOMAIN c.states : j # i => d.states[j] = c.states[j]
  BY DEF Alike
<1>2. e \notin Packed(c, f)
  <2> SUFFICES ASSUME NEW j \in DOMAIN c.states, e \in Copies(j, c.states[j])
               PROVE  FALSE
    BY InPacked
  <2>1. e[1] = j
    BY CopiesAt
  <2> QED
    BY <2>1
<1>3. ASSUME NEW x PROVE x \in Packed(d, f) <=> x \in Packed(c, f) \cup {e}
  <2>1. x \in Packed(d, f) <=>
            \E j \in DOMAIN c.states : d.states[j].key = f /\ x \in Copies(j, d.states[j])
    BY <1>1, InPacked
  <2>2. x \in Packed(c, f) <=>
            \E j \in DOMAIN c.states : c.states[j].key = f /\ x \in Copies(j, c.states[j])
    BY InPacked
  <2>3. x \in Copies(i, d.states[i]) <=> x \in Copies(i, c.states[i]) \/ x = e
    OBVIOUS
  <2> QED
    BY <1>1, <2>1, <2>2, <2>3
<1> QED
  BY <1>2, <1>3

LEMMA PackedElsewhere ==
    ASSUME NEW c, NEW d, NEW i \in DOMAIN c.states, Alike(c, d, i), NEW f,
           f # c.states[i].key \/ Copies(i, d.states[i]) = Copies(i, c.states[i])
    PROVE  Packed(d, f) = Packed(c, f)
<1>1. /\ DOMAIN d.states = DOMAIN c.states /\ d.states[i].key = c.states[i].key
      /\ \A j \in DOMAIN c.states : j # i => d.states[j] = c.states[j]
  BY DEF Alike
<1>2. ASSUME NEW x PROVE x \in Packed(d, f) <=> x \in Packed(c, f)
  <2>1. x \in Packed(d, f) <=>
            \E j \in DOMAIN c.states : d.states[j].key = f /\ x \in Copies(j, d.states[j])
    BY <1>1, InPacked
  <2>2. x \in Packed(c, f) <=>
            \E j \in DOMAIN c.states : c.states[j].key = f /\ x \in Copies(j, c.states[j])
    BY InPacked
  <2> QED
    BY <1>1, <2>1, <2>2
<1> QED
  BY <1>2

LEMMA CountsMore ==
    ASSUME NEW c, NEW d, NEW f, NEW e,
           Packed(d, f) = Packed(c, f) \cup {e}, e \notin Packed(c, f)
    PROVE  Counts(c, d, f, 1)
BY FS_AddElement DEF Counts

LEMMA CountsLess ==
    ASSUME NEW c, NEW d, NEW f, NEW e,
           Packed(c, f) = Packed(d, f) \cup {e}, e \notin Packed(d, f)
    PROVE  Counts(c, d, f, -1)
<1> SUFFICES ASSUME IsFiniteSet(Packed(c, f))
             PROVE  /\ IsFiniteSet(Packed(d, f))
                    /\ Cardinality(Packed(d, f)) = Cardinality(Packed(c, f)) + (-1)
  BY DEF Counts
<1>1. Packed(d, f) = Packed(c, f) \ {e} /\ e \in Packed(c, f)
  OBVIOUS
<1>2. IsFiniteSet(Packed(c, f) \ {e})
      /\ Cardinality(Packed(c, f) \ {e}) = Cardinality(Packed(c, f)) - 1
  BY <1>1, FS_RemoveElement
<1>3. Cardinality(Packed(c, f)) \in Nat
  BY FS_CardinalityType
<1> QED
  BY <1>1, <1>2, <1>3

LEMMA CountsSame ==
    ASSUME NEW c, NEW d, NEW f, Packed(d, f) = Packed(c, f)
    PROVE  Counts(c, d, f, 0)
BY FS_CardinalityType DEF Counts

LEMMA CountsOn ==
    ASSUME NEW c, NEW d, NEW e, NEW f, NEW k \in Int, NEW l \in Int,
           Counts(c, d, f, k), Counts(d, e, f, l)
    PROVE  Counts(c, e, f, k + l)
<1> SUFFICES ASSUME IsFiniteSet(Packed(c, f))
             PROVE  /\ IsFiniteSet(Packed(e, f))
                    /\ Cardinality(Packed(e, f)) = Cardinality(Packed(c, f)) + (k + l)
  BY DEF Counts
<1>1. Cardinality(Packed(c, f)) \in Nat
  BY FS_CardinalityType
<1> QED
  BY <1>1 DEF Counts

\* observe accounts for one packet more, ...
LEMMA ObservedCounts ==
    ASSUME NEW c \in CaptureType, NEW d, NEW i \in DOMAIN c.states, Writes(c, d, i),
           NEW p, Observed(c.states[i], d.states[i], p)
    PROVE  /\ Counts(c, d, c.states[i].key, 1)
           /\ \A f : f # c.states[i].key => Counts(c, d, f, 0)
<1> DEFINE s == c.states[i]
           t == d.states[i]
           x == Extend(s.extended, p.seq)
<1>1. s.duplicates \in Nat
  BY CaptureIs, StageIs
<1>2. Alike(c, d, i)
  BY DEF Writes, Alike, Observed
<1>3. \E e : e[1] = i /\ e \notin Copies(i, s) /\ Copies(i, t) = Copies(i, s) \cup {e}
  <2>1. CASE x \in s.numbers
    <3>1. t.numbers = s.numbers /\ t.duplicates = s.duplicates + 1 /\ t.pending = s.pending
      BY <2>1 DEF Observed
    <3>2. PICK e : e = <<i, "twice", s.duplicates + 1>>
      OBVIOUS
    <3>3. e[1] = i /\ e \notin Copies(i, s)
      BY <1>1, <3>2 DEF Copies
    <3>4. 1..t.duplicates = (1..s.duplicates) \cup {s.duplicates + 1}
      BY <1>1, <3>1
    <3>5. Copies(i, t) = Copies(i, s) \cup {e}
      BY <3>1, <3>2, <3>4, Zenon DEF Copies
    <3> QED
      BY <3>3, <3>5
  <2>2. CASE x \notin s.numbers
    <3>1. t.numbers = s.numbers \cup {x} /\ t.duplicates = s.duplicates
          /\ t.pending = s.pending
      BY <2>2 DEF Observed
    <3>2. PICK e : e = <<i, "counted", x>>
      OBVIOUS
    <3>3. e[1] = i /\ e \notin Copies(i, s)
      BY <2>2, <3>2 DEF Copies
    <3>4. Copies(i, t) = Copies(i, s) \cup {e}
      BY <3>1, <3>2, Zenon DEF Copies
    <3> QED
      BY <3>3, <3>4
  <2> QED
    BY <2>1, <2>2
<1>4. Counts(c, d, s.key, 1)
  BY <1>2, <1>3, PackedAdds, CountsMore
<1>5. \A f : f # s.key => Packed(d, f) = Packed(c, f)
  BY <1>2, PackedElsewhere
<1> QED
  BY <1>4, <1>5, CountsSame

\* ... and what waits for its continuation is one packet.
LEMMA PendingCounts ==
    ASSUME NEW c \in CaptureType, NEW d, NEW i \in DOMAIN c.states, Writes(c, d, i),
           d.states[i].key = c.states[i].key, d.states[i].numbers = c.states[i].numbers,
           d.states[i].duplicates = c.states[i].duplicates
    PROVE  LET Held(s) == IF s.pending = None THEN 0 ELSE 1
           IN  /\ Counts(c, d, c.states[i].key, Held(d.states[i]) - Held(c.states[i]))
               /\ \A f : f # c.states[i].key => Counts(c, d, f, 0)
<1> DEFINE s == c.states[i]
           t == d.states[i]
           f == s.key
           e == <<i, "held", 0>>
           both == {<<i, "counted", x>> : x \in s.numbers}
                       \cup {<<i, "twice", k>> : k \in 1..s.duplicates}
<1>1. Alike(c, d, i) /\ Alike(d, c, i) /\ i \in DOMAIN d.states
  BY DEF Writes, Alike
<1>2. \A g : g # f => Packed(d, g) = Packed(c, g)
  BY <1>1, PackedElsewhere
<1>3. /\ Copies(i, s) = both \cup (IF s.pending = None THEN {} ELSE {e})
      /\ Copies(i, t) = both \cup (IF t.pending = None THEN {} ELSE {e})
  BY DEF Copies
<1>4. e \notin both /\ e[1] = i
  OBVIOUS
<1> HIDE DEF both, e
<1>5. CASE (s.pending = None) = (t.pending = None)
  <2>1. Packed(d, f) = Packed(c, f)
    BY <1>1, <1>3, <1>5, PackedElsewhere
  <2> QED
    BY <1>2, <1>5, <2>1, CountsSame
<1>6. CASE s.pending = None /\ t.pending # None
  <2>1. e \notin Copies(i, s) /\ Copies(i, t) = Copies(i, s) \cup {e}
    BY <1>3, <1>4, <1>6
  <2>2. Packed(d, f) = Packed(c, f) \cup {e} /\ e \notin Packed(c, f)
    BY <1>1, <1>4, <2>1, PackedAdds
  <2>3. Counts(c, d, f, 1)
    BY <2>2, CountsMore
  <2> QED
    BY <1>2, <1>6, <2>3, CountsSame
<1>7. CASE s.pending # None /\ t.pending = None
  <2>1. e \notin Copies(i, t) /\ Copies(i, s) = Copies(i, t) \cup {e}
    BY <1>3, <1>4, <1>7
  <2>2. Packed(c, f) = Packed(d, f) \cup {e} /\ e \notin Packed(d, f)
    BY <1>1, <1>4, <2>1, PackedAdds
  <2>3. Counts(c, d, f, -1)
    BY <2>2, CountsLess
  <2> QED
    BY <1>2, <1>7, <2>3, CountsSame
<1> QED
  BY <1>5, <1>6, <1>7

-----------------------------------------------------------------------------
\* Everything but stage i is as it should be between two frames.
Partly(c, i) ==
    /\ c \in CaptureType /\ Routed(c) /\ i \in DOMAIN c.states
    /\ \A j \in DOMAIN c.states : j # i => StageGood(c.states[j])

\* The spool of a stage grows only while it holds all that is counted.
Later(s, t) ==
    /\ t.key = s.key /\ s.warnings \subseteq t.warnings
    /\ Len(t.spool) > Len(s.spool) => Len(s.spool) = Cardinality(s.numbers)

\* From c to d the stages of c are kept with what they count, or go on, and k
\* packets more are accounted for, all of them of f.
Onward(c, d, f, k) ==
    /\ d \in CaptureType /\ c.warnings \subseteq d.warnings
    /\ DOMAIN c.states \subseteq DOMAIN d.states
    /\ Counts(c, d, f, k) /\ \A g : g # f => Counts(c, d, g, 0)

Notes(c, d, f, k) ==
    Onward(c, d, f, k) /\ \A j \in DOMAIN c.states : Noted(c.states[j], d.states[j])

Moves(c, d, f, k) ==
    Onward(c, d, f, k) /\ \A j \in DOMAIN c.states : Later(c.states[j], d.states[j])

Warned(c, f) ==
    \/ c.warnings \cap {"stream_limit", "rtcp_unparsed"} # {}
    \/ \E i \in DOMAIN c.states : /\ c.states[i].key = f
                                  /\ c.states[i].warnings \cap {"unconfirmed", "isolated"} # {}

LEMMA GoodIsPartly ==
    ASSUME NEW c, NEW i \in DOMAIN c.states
    PROVE  Good(c) <=> Partly(c, i) /\ StageGood(c.states[i])
BY DEF Good, Partly

LEMMA NotedGood ==
    ASSUME NEW s, NEW t, Noted(s, t), StageGood(s), t.pending # None => t.pending.flow = t.key
    PROVE  StageGood(t)
<1>1. Tallied(t)
  BY DEF StageGood, Noted, Tallied
<1>2. Kept(t)
  BY DEF StageGood, Noted, Kept
<1>3. PICK e \in DOMAIN Bases[s.key], k \in Int : Placed(s, e, k)
  BY DEF StageGood
<1>4. e \in DOMAIN Bases[t.key] /\ Placed(t, e, k)
  BY <1>3 DEF Noted, Placed
<1> QED
  BY <1>1, <1>2, <1>4 DEF StageGood

LEMMA NotedTwice ==
    ASSUME NEW s, NEW t, NEW u, Noted(s, t), Noted(t, u)
    PROVE  Noted(s, u)
BY DEF Noted

LEMMA OnwardOn ==
    ASSUME NEW c, NEW d, NEW e, NEW f, NEW k \in Int, NEW l \in Int,
           Onward(c, d, f, k), Onward(d, e, f, l)
    PROVE  Onward(c, e, f, k + l)
<1>1. Counts(c, e, f, k + l)
  BY CountsOn DEF Onward
<1>2. ASSUME NEW g, g # f PROVE Counts(c, e, g, 0)
  <2>1. Counts(c, d, g, 0) /\ Counts(d, e, g, 0)
    BY <1>2 DEF Onward
  <2>2. Counts(c, e, g, 0 + 0)
    BY <2>1, CountsOn
  <2> QED
    BY <2>2
<1> QED
  BY <1>1, <1>2 DEF Onward

LEMMA NotesOn ==
    ASSUME NEW c, NEW d, NEW e, NEW f, NEW k \in Int, NEW l \in Int,
           Notes(c, d, f, k), Notes(d, e, f, l)
    PROVE  Notes(c, e, f, k + l)
<1>1. Onward(c, e, f, k + l)
  BY OnwardOn DEF Notes
<1>2. \A j \in DOMAIN c.states : Noted(c.states[j], e.states[j])
  BY NotedTwice DEF Notes, Onward
<1> QED
  BY <1>1, <1>2 DEF Notes

LEMMA MovesOn ==
    ASSUME NEW c, NEW d, NEW e, NEW f, NEW k \in Int, NEW l \in Int,
           Notes(c, d, f, k), Moves(d, e, f, l)
    PROVE  Moves(c, e, f, k + l)
<1>1. Onward(c, e, f, k + l)
  BY OnwardOn DEF Notes, Moves
<1>2. \A j \in DOMAIN c.states : Later(c.states[j], e.states[j])
  BY DEF Notes, Moves, Onward, Noted, Later
<1> QED
  BY <1>1, <1>2 DEF Moves

LEMMA NotesMove ==
    ASSUME NEW c, NEW d, NEW f, NEW k, Notes(c, d, f, k)
    PROVE  Moves(c, d, f, k)
<1>1. \A j \in DOMAIN c.states : Later(c.states[j], d.states[j])
  <2> SUFFICES ASSUME NEW j \in DOMAIN c.states
               PROVE  Later(c.states[j], d.states[j])
    OBVIOUS
  <2>1. Noted(c.states[j], d.states[j])
    BY DEF Notes
  <2>2. d.states[j].spool \in Seq(Records) /\ d.states[j].spool = c.states[j].spool
    BY <2>1, StageIs DEF Noted
  <2>3. Len(d.states[j].spool) \in Nat
    BY <2>2
  <2> QED
    BY <2>1, <2>2, <2>3 DEF Noted, Later
<1> QED
  BY <1>1 DEF Notes, Moves

LEMMA WarnedStays ==
    ASSUME NEW c, NEW d, NEW f, NEW g, NEW k, Moves(c, d, f, k), Warned(c, g)
    PROVE  Warned(d, g)
<1>1. CASE c.warnings \cap {"stream_limit", "rtcp_unparsed"} # {}
  BY <1>1 DEF Moves, Onward, Warned
<1>2. CASE \E i \in DOMAIN c.states : /\ c.states[i].key = g
                                      /\ c.states[i].warnings \cap {"unconfirmed", "isolated"} # {}
  BY <1>2 DEF Moves, Onward, Warned, Later
<1> QED
  BY <1>1, <1>2 DEF Warned

\* A write to one stage, as seen from all.
LEMMA WriteNotes ==
    ASSUME NEW c \in CaptureType, NEW d, NEW i \in DOMAIN c.states, Writes(c, d, i),
           Noted(c.states[i], d.states[i]), NEW k,
           Counts(c, d, c.states[i].key, k),
           \A g : g # c.states[i].key => Counts(c, d, g, 0)
    PROVE  Notes(c, d, c.states[i].key, k)
<1>1. Onward(c, d, c.states[i].key, k)
  BY DEF Writes, Onward
<1>2. ASSUME NEW j \in DOMAIN c.states PROVE Noted(c.states[j], d.states[j])
  <2>1. c.states[j] \in Stage
    BY CaptureIs
  <2>2. Noted(c.states[j], c.states[j])
    BY <2>1 DEF Noted
  <2> QED
    BY <2>2 DEF Writes
<1> QED
  BY <1>1, <1>2 DEF Notes

LEMMA WritePartly ==
    ASSUME NEW c, NEW i, Partly(c, i), NEW d, Writes(c, d, i),
           d.states[i].key = c.states[i].key
    PROVE  Partly(d, i)
<1>1. d \in CaptureType /\ i \in DOMAIN d.states
  BY DEF Partly, Writes
<1>2. Routed(d)
  BY DEF Partly, Writes, Routed
<1>3. \A j \in DOMAIN d.states : j # i => StageGood(d.states[j])
  BY DEF Partly, Writes
<1> QED
  BY <1>1, <1>2, <1>3 DEF Partly

LEMMA WarnNotes ==
    ASSUME NEW c, Good(c), NEW w \in Warnings, NEW f
    PROVE  Good(Warn(c, w)) /\ Notes(c, Warn(c, w), f, 0) /\ w \in Warn(c, w).warnings
<1>1. PICK d : d = Warn(c, w)
  OBVIOUS
<1>2. c \in CaptureType
  BY DEF Good
<1>3. /\ d \in CaptureType /\ d.states = c.states /\ d.routes = c.routes
      /\ d.bindings = c.bindings /\ c.warnings \subseteq d.warnings /\ w \in d.warnings
  BY <1>1, <1>2, WarnIs
<1>4. \A g : Packed(d, g) = Packed(c, g)
  BY <1>3 DEF Packed
<1>5. \A g : Counts(c, d, g, 0)
  BY <1>4, CountsSame
<1>6. Good(d)
  BY <1>3 DEF Good, Routed
<1>7. \A j \in DOMAIN c.states : Noted(c.states[j], d.states[j])
  <2>1. \A j \in DOMAIN c.states : c.states[j] \in Stage
    BY <1>2, CaptureIs
  <2> QED
    BY <1>3, <2>1 DEF Noted
<1> QED
  BY <1>1, <1>3, <1>5, <1>6, <1>7 DEF Notes, Onward

LEMMA WarnStageNotes ==
    ASSUME NEW c, NEW i, Partly(c, i), NEW w \in Warnings
    PROVE  LET d == WarnStage(c, i, w)
           IN  /\ Partly(d, i) /\ Notes(c, d, c.states[i].key, 0)
               /\ Noted(c.states[i], d.states[i])
               /\ d.states[i].pending = c.states[i].pending /\ w \in d.states[i].warnings
<1>1. PICK d : d = WarnStage(c, i, w)
  OBVIOUS
<1>2. c \in CaptureType /\ i \in DOMAIN c.states
  BY DEF Partly
<1>3. /\ Writes(c, d, i) /\ Noted(c.states[i], d.states[i])
      /\ d.states[i].pending = c.states[i].pending /\ w \in d.states[i].warnings
  BY <1>1, <1>2, WarnStageIs
<1>4. /\ Counts(c, d, c.states[i].key, 0)
      /\ \A f : f # c.states[i].key => Counts(c, d, f, 0)
  BY <1>2, <1>3, PendingCounts DEF Noted
<1>5. Notes(c, d, c.states[i].key, 0)
  BY <1>2, <1>3, <1>4, WriteNotes
<1>6. Partly(d, i)
  BY <1>3, WritePartly DEF Noted
<1> QED
  BY <1>1, <1>3, <1>5, <1>6

Held(q) == IF q = None THEN 0 ELSE 1

LEMMA PendingNotes ==
    ASSUME NEW c, NEW i, Partly(c, i), NEW q \in {None} \cup Packets
    PROVE  LET d == [c EXCEPT !.states[i].pending = q]
           IN  /\ Partly(d, i)
               /\ Notes(c, d, c.states[i].key, Held(q) - Held(c.states[i].pending))
               /\ Noted(c.states[i], d.states[i]) /\ d.states[i].pending = q
<1>1. c \in CaptureType /\ i \in DOMAIN c.states /\ c.states[i] \in Stage
  BY CaptureIs DEF Partly
<1>2. PICK t : t = [c.states[i] EXCEPT !.pending = q]
  OBVIOUS
<1>3. Noted(c.states[i], t) /\ t.pending = q /\ t \in Stage
  BY <1>1, <1>2, WithPending DEF Noted
<1>4. PICK d : d = [c EXCEPT !.states[i] = t]
  OBVIOUS
<1>5. [c EXCEPT !.states[i].pending = q] = d
  BY <1>2, <1>4
<1>6. Writes(c, d, i) /\ d.states[i] = t
  BY <1>1, <1>3, <1>4, PutIs
<1>7. /\ Counts(c, d, c.states[i].key, Held(q) - Held(c.states[i].pending))
      /\ \A f : f # c.states[i].key => Counts(c, d, f, 0)
  BY <1>1, <1>3, <1>6, PendingCounts DEF Noted, Held
<1>8. Notes(c, d, c.states[i].key, Held(q) - Held(c.states[i].pending))
  BY <1>1, <1>3, <1>6, <1>7, WriteNotes
<1>9. Partly(d, i)
  BY <1>3, <1>6, WritePartly DEF Noted
<1> QED
  BY <1>3, <1>5, <1>6, <1>8, <1>9

LEMMA SessionNotes ==
    ASSUME NEW c, NEW i, Partly(c, i), NEW x \in Sessions
    PROVE  LET d == [c EXCEPT !.states[i].session = x]
           IN  /\ Partly(d, i) /\ Notes(c, d, c.states[i].key, 0)
               /\ Noted(c.states[i], d.states[i])
               /\ d.states[i].pending = c.states[i].pending
<1>1. c \in CaptureType /\ i \in DOMAIN c.states /\ c.states[i] \in Stage
  BY CaptureIs DEF Partly
<1>2. PICK t : t = [c.states[i] EXCEPT !.session = x]
  OBVIOUS
<1>3. Noted(c.states[i], t) /\ t.pending = c.states[i].pending /\ t \in Stage
  BY <1>1, <1>2, WithSession DEF Noted
<1>4. PICK d : d = [c EXCEPT !.states[i] = t]
  OBVIOUS
<1>5. [c EXCEPT !.states[i].session = x] = d
  BY <1>2, <1>4
<1>6. Writes(c, d, i) /\ d.states[i] = t
  BY <1>1, <1>3, <1>4, PutIs
<1>7. /\ Counts(c, d, c.states[i].key, 0)
      /\ \A f : f # c.states[i].key => Counts(c, d, f, 0)
  BY <1>1, <1>3, <1>6, PendingCounts DEF Noted
<1>8. Notes(c, d, c.states[i].key, 0)
  BY <1>1, <1>3, <1>6, <1>7, WriteNotes
<1>9. Partly(d, i)
  BY <1>3, <1>6, WritePartly DEF Noted
<1> QED
  BY <1>3, <1>5, <1>6, <1>8, <1>9

-----------------------------------------------------------------------------
\* The packet is counted by a stage that counts its start, or was opened for it.
Takes(s, p) ==
    /\ s.key = p.flow
    /\ \/ Fresh(s, p)
       \/ Tallied(s) /\ Kept(s) /\ \E k \in Int : Placed(s, p.epoch, k)

LEMMA ObserveTakes ==
    ASSUME NEW c, NEW i, Partly(c, i), NEW p \in Packets, NEW codec \in Codecs,
           Takes(c.states[i], p)
    PROVE  LET d == Observe(c, i, p, codec)
           IN  /\ Good(d) /\ Writes(c, d, i) /\ Observed(c.states[i], d.states[i], p)
               /\ d.states[i].pending = c.states[i].pending
               /\ Tallied(d.states[i]) /\ Kept(d.states[i])
               /\ \E k \in Int : Placed(d.states[i], p.epoch, k)
<1>1. c \in CaptureType /\ i \in DOMAIN c.states /\ c.states[i] \in Stage
  BY CaptureIs DEF Partly
<1>2. PICK d, t : d = Observe(c, i, p, codec) /\ t = d.states[i]
  OBVIOUS
<1>3. Writes(c, d, i) /\ Observed(c.states[i], d.states[i], p)
  BY <1>1, <1>2, ObserveIs
<1>4. PICK s \in Stage : s = c.states[i]
  BY <1>1
<1>5. Observed(s, t, p)
  BY <1>2, <1>3, <1>4
<1>6. t.key = s.key /\ t.pending = s.pending /\ t.rtcp = s.rtcp
  BY <1>5 DEF Observed
<1>7. Tallied(t) /\ Kept(t) /\ \E k \in Int : Placed(t, p.epoch, k)
  <2>1. CASE Fresh(s, p)
    <3>1. Tallied(t)
      BY <1>5, <2>1, FreshIsTallied, TalliedStays
    <3>2. DOMAIN t.rtcp = {}
      BY <1>6, <2>1 DEF Fresh
    <3>3. Kept(t)
      BY <1>6, <2>1, <3>2 DEF Kept, Fresh
    <3>4. \E k \in Int : Placed(t, p.epoch, k)
      BY <1>5, <2>1, PlacedFirst
    <3> QED
      BY <3>1, <3>3, <3>4
  <2>2. CASE Tallied(s) /\ Kept(s) /\ \E k \in Int : Placed(s, p.epoch, k)
    <3>1. Tallied(t)
      BY <1>5, <2>2, TalliedStays
    <3>2. Kept(t)
      BY <1>6, <2>2 DEF Kept
    <3>3. PICK k \in Int : Placed(s, p.epoch, k)
      BY <2>2
    <3>4. p.flow = s.key
      BY <1>4 DEF Takes
    <3>5. Placed(t, p.epoch, k)
      BY <1>5, <3>3, <3>4, PlacedStays
    <3> QED
      BY <3>1, <3>2, <3>5
  <2> QED
    BY <1>4, <2>1, <2>2 DEF Takes
<1>8. Partly(d, i)
  BY <1>3, WritePartly DEF Observed
<1>9. StageGood(t)
  <2>1. PICK k \in Int : Placed(t, p.epoch, k)
    BY <1>7
  <2>2. p.epoch \in DOMAIN Bases[t.key]
    BY <2>1 DEF Placed
  <2> QED
    BY <1>7, <2>1, <2>2 DEF StageGood
<1>10. Good(d)
  <2>1. i \in DOMAIN d.states
    BY <1>8 DEF Partly
  <2> QED
    BY <1>2, <1>8, <1>9, <2>1, GoodIsPartly
<1> QED
  BY <1>2, <1>3, <1>4, <1>6, <1>7, <1>10

\* A stage that goes on, ...
LEMMA ObserveMoves ==
    ASSUME NEW c, NEW d, NEW i, Partly(c, i), NEW p, Tallied(c.states[i]),
           Writes(c, d, i), Observed(c.states[i], d.states[i], p)
    PROVE  Moves(c, d, c.states[i].key, 1)
<1>1. c \in CaptureType /\ i \in DOMAIN c.states /\ \A j \in DOMAIN c.states : c.states[j] \in Stage
  BY CaptureIs DEF Partly
<1>2. /\ Counts(c, d, c.states[i].key, 1)
      /\ \A f : f # c.states[i].key => Counts(c, d, f, 0)
  BY <1>1, ObservedCounts
<1>3. Onward(c, d, c.states[i].key, 1)
  BY <1>2 DEF Onward, Writes
<1>4. ASSUME NEW j \in DOMAIN c.states, j # i
      PROVE  Later(c.states[j], d.states[j])
  <2>1. d.states[j] = c.states[j] /\ c.states[j].spool \in Seq(Records)
    BY <1>1, <1>4, StageIs DEF Writes
  <2>2. Len(c.states[j].spool) \in Nat
    BY <2>1
  <2> QED
    BY <2>1, <2>2 DEF Later
<1>5. Later(c.states[i], d.states[i])
  <2>0. PICK t : t = d.states[i]
    OBVIOUS
  <2>1. PICK s \in Stage : s = c.states[i]
    BY <1>1
  <2>2. Observed(s, t, p) /\ Tallied(s) /\ Len(s.spool) \in Nat
    <3>1. s.spool \in Seq(Records)
      BY StageIs
    <3> QED
      BY <2>0, <2>1, <3>1
  <2>3. t.key = s.key /\ s.warnings \subseteq t.warnings
    BY <2>2 DEF Observed
  <2>4. CASE t.spool = s.spool
    BY <2>0, <2>1, <2>2, <2>3, <2>4 DEF Later
  <2>5. CASE t.spool # s.spool
    <3>1. ~s.limited
      BY <2>2, <2>5 DEF Observed
    <3>2. Len(s.spool) = Cardinality(s.numbers)
      BY <2>2, <3>1 DEF Tallied
    <3> QED
      BY <2>0, <2>1, <2>3, <3>2 DEF Later
  <2> QED
    BY <2>4, <2>5
<1> QED
  BY <1>3, <1>4, <1>5 DEF Moves

\* ... and one that was not there before.
LEMMA ObserveNotes ==
    ASSUME NEW c, NEW d, NEW e, NEW i, NEW k \in Int, NEW p,
           Partly(d, i), i \notin DOMAIN c.states, Notes(c, d, d.states[i].key, k),
           Writes(d, e, i), Observed(d.states[i], e.states[i], p)
    PROVE  Notes(c, e, d.states[i].key, k + 1)
<1> DEFINE f == d.states[i].key
<1>1. d \in CaptureType /\ i \in DOMAIN d.states
  BY DEF Partly
<1>2. Counts(d, e, f, 1) /\ \A g : g # f => Counts(d, e, g, 0)
  BY <1>1, ObservedCounts
<1>3. Onward(d, e, f, 1)
  BY <1>2 DEF Onward, Writes
<1>4. Onward(c, e, f, k + 1)
  BY <1>3, OnwardOn DEF Notes
<1>5. \A j \in DOMAIN c.states : e.states[j] = d.states[j]
  BY DEF Writes, Notes, Onward
<1>6. \A j \in DOMAIN c.states : Noted(c.states[j], e.states[j])
  BY <1>5 DEF Notes
<1> QED
  BY <1>4, <1>6 DEF Notes

\* new_stage.
LEMMA OpenedIs ==
    ASSUME NEW c, Good(c), NEW p \in Packets, NEW codec \in Codecs
    PROVE  LET d == Opened(c, p.flow, p, codec)
               j == Len(c.states) + 1
           IN  /\ Partly(d, j) /\ j \notin DOMAIN c.states /\ Notes(c, d, p.flow, 0)
               /\ Fresh(d.states[j], p) /\ Len(d.states) = j
               /\ p.flow \in DOMAIN d.routes /\ d.routes[p.flow] = j
<1>1. /\ c \in CaptureType /\ c.states \in Seq(Stage) /\ Len(c.states) \in Nat
      /\ DOMAIN c.states = 1..Len(c.states)
      /\ \A i \in DOMAIN c.states : c.states[i] \in Stage
      /\ DOMAIN c.routes \in SUBSET Flows /\ c.routes \in [DOMAIN c.routes -> Nat]
  BY CaptureIs DEF Good
<1>2. PICK j \in Nat : j = Len(c.states) + 1 /\ j \notin DOMAIN c.states
  BY <1>1
<1>3. PICK s : s = NewStage(p.flow, p, codec)
  OBVIOUS
<1>4. s \in Stage /\ Fresh(s, p)
  <2>1. p.flow \in Flows /\ p.seq \in Int
    BY PacketIs
  <2> QED
    BY <1>3, <2>1 DEF NewStage, Stage, Fresh, Codecs, Sessions
<1>5. PICK T : T = Append(c.states, s)
  OBVIOUS
<1>6. /\ T \in Seq(Stage) /\ Len(T) = j /\ DOMAIN T = DOMAIN c.states \cup {j} /\ T[j] = s
      /\ \A i \in DOMAIN c.states : T[i] = c.states[i]
  BY <1>1, <1>2, <1>4, <1>5
<1>7. PICK R : R = [k \in DOMAIN c.routes \cup {p.flow} |-> IF k = p.flow THEN j ELSE c.routes[k]]
  OBVIOUS
<1>8. /\ R \in UNION {[S -> Nat] : S \in SUBSET Flows}
      /\ DOMAIN R = DOMAIN c.routes \cup {p.flow} /\ R[p.flow] = j
      /\ \A k \in DOMAIN c.routes : k # p.flow => R[k] = c.routes[k]
  <2>1. p.flow \in Flows
    BY PacketIs
  <2>2. R \in [DOMAIN c.routes \cup {p.flow} -> Nat]
    BY <1>1, <1>7
  <2> QED
    BY <1>1, <1>7, <2>1, <2>2
<1>9. PICK d : d = Opened(c, p.flow, p, codec)
  OBVIOUS
<1>10. /\ d \in CaptureType /\ d.states = T /\ d.routes = R /\ d.bindings = c.bindings
       /\ d.warnings = c.warnings
  <2>1. d = [c EXCEPT !.states = T, !.routes = R]
    BY <1>1, <1>2, <1>3, <1>5, <1>7, <1>9 DEF Opened, CaptureType
  <2> QED
    BY <1>1, <1>6, <1>8, <2>1 DEF CaptureType
<1>11. Routed(d)
  <2> SUFFICES ASSUME NEW f \in DOMAIN d.routes
               PROVE  d.routes[f] \in DOMAIN d.states /\ d.states[d.routes[f]].key = f
    BY DEF Routed
  <2>1. CASE f = p.flow
    BY <1>4, <1>6, <1>8, <1>10, <2>1 DEF Fresh
  <2>2. CASE f # p.flow
    <3>1. f \in DOMAIN c.routes /\ d.routes[f] = c.routes[f]
      BY <1>8, <1>10, <2>2
    <3>2. c.routes[f] \in DOMAIN c.states /\ c.states[c.routes[f]].key = f
      BY <3>1 DEF Good, Routed
    <3> QED
      BY <1>6, <1>10, <3>1, <3>2
  <2> QED
    BY <2>1, <2>2
<1>12. Partly(d, j)
  BY <1>6, <1>10, <1>11 DEF Partly, Good
<1>13. \A f : Packed(d, f) = Packed(c, f)
  <2>1. Copies(j, s) = {}
    BY <1>4 DEF Copies, Fresh
  <2>2. ASSUME NEW f, NEW x PROVE x \in Packed(d, f) <=> x \in Packed(c, f)
    BY <1>6, <1>10, <2>1, InPacked
  <2> QED
    BY <2>2
<1>14. \A f : Counts(c, d, f, 0)
  BY <1>13, CountsSame
<1>15. \A i \in DOMAIN c.states : Noted(c.states[i], d.states[i])
  BY <1>1, <1>6, <1>10 DEF Noted
<1>16. Notes(c, d, p.flow, 0)
  BY <1>6, <1>10, <1>14, <1>15 DEF Notes, Onward
<1> QED
  BY <1>2, <1>4, <1>6, <1>8, <1>9, <1>10, <1>12, <1>16

-----------------------------------------------------------------------------
\* One packet of f: it is accounted for, or a warning says that one may not be.
Effect(c, d, f) ==
    Good(d) /\ \E k \in {-1, 0, 1} : Moves(c, d, f, k) /\ (k = 1 \/ Warned(d, f))

LEMMA EffectAfter ==
    ASSUME NEW c, NEW d, NEW e, NEW f, Notes(c, d, f, 0), Effect(d, e, f)
    PROVE  Effect(c, e, f)
<1>1. PICK k \in {-1, 0, 1} : Moves(d, e, f, k) /\ (k = 1 \/ Warned(e, f))
  BY DEF Effect
<1>2. Moves(c, e, f, 0 + k)
  BY <1>1, MovesOn
<1>3. 0 + k = k
  BY <1>1
<1> QED
  BY <1>1, <1>2, <1>3 DEF Effect

LEMMA EffectOfNotes ==
    ASSUME NEW c, NEW d, NEW f, NEW k \in {-1, 0, 1}, Good(d), Notes(c, d, f, k),
           k = 1 \/ Warned(d, f)
    PROVE  Effect(c, d, f)
BY NotesMove DEF Effect

LEMMA FreshStays ==
    ASSUME NEW s, NEW t, NEW p, Noted(s, t), t.pending = s.pending, Fresh(s, p)
    PROVE  Fresh(t, p)
BY DEF Noted, Fresh

LEMMA TakesStays ==
    ASSUME NEW s, NEW t, NEW p, Noted(s, t), t.pending = None \/ t.pending = s.pending,
           StageGood(s), NEW k \in Int, Placed(s, p.epoch, k), p.flow = s.key
    PROVE  Takes(t, p)
<1>1. Tallied(t) /\ Kept(t)
  BY DEF Noted, StageGood, Tallied, Kept
<1>2. Placed(t, p.epoch, k)
  BY DEF Noted, Placed
<1> QED
  BY <1>1, <1>2 DEF Takes, Noted

\* The jump is dropped from the stage: c without what waited.
LEMMA Dropped ==
    ASSUME NEW c, NEW i \in DOMAIN c.states, Good(c), NEW w \in Warnings,
           c.states[i].pending # None
    PROVE  LET d == [WarnStage(c, i, w) EXCEPT !.states[i].pending = None]
           IN  /\ Good(d) /\ i \in DOMAIN d.states /\ Notes(c, d, c.states[i].key, -1)
               /\ Noted(c.states[i], d.states[i]) /\ d.states[i].pending = None
               /\ w \in d.states[i].warnings
<1>1. Partly(c, i) /\ StageGood(c.states[i])
  BY GoodIsPartly
<1>2. PICK a : a = WarnStage(c, i, w)
  OBVIOUS
<1>3. /\ Partly(a, i) /\ Notes(c, a, c.states[i].key, 0) /\ Noted(c.states[i], a.states[i])
      /\ a.states[i].pending = c.states[i].pending /\ w \in a.states[i].warnings
  BY <1>1, <1>2, WarnStageNotes
<1>4. PICK d : d = [a EXCEPT !.states[i].pending = None]
  OBVIOUS
<1>5. /\ Partly(d, i)
      /\ Notes(a, d, a.states[i].key, Held(None) - Held(a.states[i].pending))
      /\ Noted(a.states[i], d.states[i]) /\ d.states[i].pending = None
  BY <1>3, <1>4, PendingNotes
<1>6. a.states[i].key = c.states[i].key /\ Held(None) - Held(a.states[i].pending) = -1
  BY <1>3 DEF Noted, Held
<1>7. Notes(c, d, c.states[i].key, 0 + (-1))
  BY <1>3, <1>5, <1>6, NotesOn
<1>8. Noted(c.states[i], d.states[i]) /\ w \in d.states[i].warnings
  BY <1>3, <1>5, NotedTwice DEF Noted
<1>9. StageGood(d.states[i])
  BY <1>1, <1>5, <1>8, NotedGood
<1>10. i \in DOMAIN d.states /\ Good(d)
  BY <1>5, <1>9, GoodIsPartly DEF Partly
<1>11. 0 + (-1) = -1
  OBVIOUS
<1> QED
  BY <1>2, <1>4, <1>5, <1>7, <1>8, <1>10, <1>11

\* The flow goes on.
LEMMA ContinuedEffect ==
    ASSUME NEW c, NEW i \in DOMAIN c.states, Good(c), NEW p \in Packets, NEW codec \in Codecs,
           p.flow = c.states[i].key, ~Jumps(c.states[i], p)
    PROVE  Effect(c, Continued(c, i, p, codec), p.flow)
<1> DEFINE s == c.states[i]
<1>1. Partly(c, i) /\ StageGood(s) /\ s \in Stage
  BY GoodIsPartly, CaptureIs DEF Good
<1>2. PICK e \in DOMAIN Bases[s.key], k \in Int : Placed(s, e, k)
  BY <1>1 DEF StageGood
<1>3. p.epoch = e
  BY <1>1, <1>2, SameStart
<1>4. Noted(s, s)
  BY <1>1 DEF Noted
<1>5. CASE s.pending = None
  <2>1. Takes(s, p)
    BY <1>1, <1>2, <1>3, <1>4, TakesStays
  <2>2. PICK d : d = Observe(c, i, p, codec)
    OBVIOUS
  <2>3. Good(d) /\ Writes(c, d, i) /\ Observed(s, d.states[i], p)
    BY <1>1, <2>1, <2>2, ObserveTakes
  <2>4. Tallied(s)
    BY <1>1 DEF StageGood
  <2>5. Moves(c, d, p.flow, 1)
    BY <1>1, <2>3, <2>4, ObserveMoves
  <2>6. Continued(c, i, p, codec) = d
    BY <1>5, <2>2 DEF Continued
  <2> QED
    BY <2>3, <2>5, <2>6 DEF Effect
<1>6. CASE s.pending # None
  <2>1. PICK w \in Warnings : w = "isolated"
    BY DEF Warnings
  <2>2. PICK a : a = [WarnStage(c, i, w) EXCEPT !.states[i].pending = None]
    OBVIOUS
  <2>3. /\ Good(a) /\ i \in DOMAIN a.states /\ Notes(c, a, s.key, -1)
        /\ Noted(s, a.states[i]) /\ a.states[i].pending = None
        /\ w \in a.states[i].warnings
    BY <1>6, <2>2, Dropped
  <2>4. Takes(a.states[i], p)
    BY <1>1, <1>2, <1>3, <2>3, TakesStays
  <2>5. Partly(a, i) /\ Tallied(a.states[i]) /\ a.states[i].key = p.flow
    BY <2>3, GoodIsPartly DEF StageGood, Noted
  <2>6. PICK d : d = Observe(a, i, p, codec)
    OBVIOUS
  <2>7. Good(d) /\ Writes(a, d, i) /\ Observed(a.states[i], d.states[i], p)
    BY <2>4, <2>5, <2>6, ObserveTakes
  <2>8. Moves(a, d, p.flow, 1)
    BY <2>5, <2>7, ObserveMoves
  <2>9. Moves(c, d, p.flow, -1 + 1)
    BY <2>3, <2>8, MovesOn
  <2>10. Warned(d, p.flow)
    <3>1. Warned(a, p.flow)
      BY <2>1, <2>3, <2>5 DEF Warned
    <3> QED
      BY <2>8, <3>1, WarnedStays
  <2>11. Continued(c, i, p, codec) = d
    BY <1>6, <2>1, <2>2, <2>6 DEF Continued
  <2>12. -1 + 1 = 0
    OBVIOUS
  <2> QED
    BY <2>7, <2>9, <2>10, <2>11, <2>12 DEF Effect
<1> QED
  BY <1>5, <1>6

\* The jump is confirmed.
LEMMA RestartedEffect ==
    ASSUME NEW c, NEW i \in DOMAIN c.states, Good(c), NEW p \in Packets, NEW codec \in Codecs,
           NEW session \in Sessions, p.flow = c.states[i].key, c.states[i].pending # None,
           Confirms(c.states[i].pending, p)
    PROVE  Effect(c, Restarted(c, i, p.flow, p, codec, session), p.flow)
<1> DEFINE key == p.flow
           result0 == Restarted(c, i, key, p, codec, session)
<1>1. PICK q \in Packets : q = c.states[i].pending /\ q.flow = key
  <2>1. c.states[i] \in Stage /\ StageGood(c.states[i])
    BY CaptureIs DEF Good
  <2> QED
    BY <2>1, StageIs DEF StageGood, Kept
<1>2. p.epoch = q.epoch
  BY <1>1, ConfirmedStart
<1>3. PICK w \in Warnings : w = "restart"
  BY DEF Warnings
<1>4. PICK split : split = [WarnStage(c, i, w) EXCEPT !.states[i].pending = None]
  OBVIOUS
<1>5. Good(split) /\ Notes(c, split, key, -1)
  BY <1>4, Dropped
<1>6. CASE Full(c)
  <2>1. PICK v \in Warnings : v = "stream_limit"
    BY DEF Warnings
  <2>2. PICK d : d = Warn(split, v)
    OBVIOUS
  <2>3. Good(d) /\ Notes(split, d, key, 0) /\ v \in d.warnings
    BY <1>5, <2>2, WarnNotes
  <2>4. Notes(c, d, key, -1 + 0)
    BY <1>5, <2>3, NotesOn
  <2>5. -1 + 0 = -1
    OBVIOUS
  <2>6. Warned(d, key)
    BY <2>1, <2>3 DEF Warned
  <2>7. result0 = d
    BY <1>3, <1>4, <1>6, <2>1, <2>2 DEF Restarted
  <2>8. Effect(c, d, key)
    BY <2>3, <2>4, <2>5, <2>6, EffectOfNotes
  <2> QED
    BY <2>7, <2>8
<1>7. CASE ~Full(c)
  <2>1. PICK opened, j : opened = Opened(split, key, q, codec) /\ j = Len(split.states) + 1
    OBVIOUS
  <2>2. /\ Partly(opened, j) /\ j \notin DOMAIN split.states /\ Notes(split, opened, key, 0)
        /\ Fresh(opened.states[j], q) /\ Len(opened.states) = j
    <3>1. opened = Opened(split, q.flow, q, codec)
      BY <1>1, <2>1
    <3> QED
      BY <1>1, <1>5, <2>1, <3>1, OpenedIs
  <2>3. PICK v \in Warnings : v = "stage"
    BY DEF Warnings
  <2>4. PICK a : a = WarnStage(opened, j, v)
    OBVIOUS
  <2>5. opened.states[j].key = key
    BY <1>1, <2>2 DEF Fresh
  <2>6. /\ Partly(a, j) /\ Notes(opened, a, key, 0) /\ Noted(opened.states[j], a.states[j])
        /\ a.states[j].pending = opened.states[j].pending
    BY <2>2, <2>4, <2>5, WarnStageNotes
  <2>7. PICK marked : marked = [a EXCEPT !.states[j].session = session]
    OBVIOUS
  <2>8. a.states[j].key = key
    BY <2>5, <2>6 DEF Noted
  <2>9. /\ Partly(marked, j) /\ Notes(a, marked, key, 0) /\ Noted(a.states[j], marked.states[j])
        /\ marked.states[j].pending = a.states[j].pending
    BY <2>6, <2>7, <2>8, SessionNotes
  <2>10. Fresh(marked.states[j], q) /\ marked.states[j].key = key
    BY <1>1, <2>2, <2>6, <2>9, FreshStays DEF Fresh
  <2>11. Notes(split, marked, key, 0)
    <3>1. Notes(split, a, key, 0 + 0)
      BY <2>2, <2>6, NotesOn
    <3>2. Notes(split, marked, key, 0 + 0 + 0)
      BY <2>9, <3>1, NotesOn
    <3> QED
      BY <3>2
  <2>12. PICK first : first = Observe(marked, j, q, codec)
    OBVIOUS
  <2>13. /\ Good(first) /\ Writes(marked, first, j)
         /\ Observed(marked.states[j], first.states[j], q)
         /\ Tallied(first.states[j]) /\ Kept(first.states[j])
         /\ \E k \in Int : Placed(first.states[j], q.epoch, k)
    <3>1. Takes(marked.states[j], q)
      BY <1>1, <2>10 DEF Takes
    <3> QED
      BY <2>9, <2>12, <3>1, ObserveTakes
  <2>14. Notes(split, first, key, 0 + 1)
    <3>1. PICK z \in Int : z = 0
      OBVIOUS
    <3>2. Notes(split, marked, marked.states[j].key, z)
      BY <2>10, <2>11, <3>1
    <3>3. /\ Partly(marked, j) /\ j \notin DOMAIN split.states /\ Writes(marked, first, j)
          /\ Observed(marked.states[j], first.states[j], q)
      BY <2>2, <2>9, <2>13
    <3>4. Notes(split, first, marked.states[j].key, z + 1)
      BY <3>2, <3>3, ObserveNotes, ZenonT(30)
    <3> QED
      BY <2>10, <3>1, <3>4
  <2>15. j \in DOMAIN first.states /\ first.states[j].key = key /\ Partly(first, j)
    <3>1. j \in DOMAIN first.states
      BY <2>9, <2>13 DEF Partly, Writes
    <3> QED
      BY <2>10, <2>13, <3>1, GoodIsPartly DEF Observed
  <2>16. PICK both : both = Observe(first, j, p, codec)
    OBVIOUS
  <2>17. /\ Good(both) /\ Writes(first, both, j)
         /\ Observed(first.states[j], both.states[j], p)
    <3>1. Takes(first.states[j], p)
      BY <1>2, <2>13, <2>15 DEF Takes
    <3> QED
      BY <2>15, <2>16, <3>1, ObserveTakes
  <2>18. Notes(split, both, key, 1 + 1)
    <3>1. 0 + 1 = 1
      OBVIOUS
    <3>2. PICK z \in Int : z = 1
      OBVIOUS
    <3>3. Notes(split, first, first.states[j].key, z)
      BY <2>14, <2>15, <3>1, <3>2
    <3>4. /\ Partly(first, j) /\ j \notin DOMAIN split.states /\ Writes(first, both, j)
          /\ Observed(first.states[j], both.states[j], p)
      BY <2>2, <2>15, <2>17
    <3>5. Notes(split, both, first.states[j].key, z + 1)
      BY <3>3, <3>4, ObserveNotes, ZenonT(30)
    <3> QED
      BY <2>15, <3>2, <3>5
  <2>19. Notes(c, both, key, -1 + (1 + 1))
    BY <1>5, <2>18, NotesOn
  <2>20. -1 + (1 + 1) = 1
    OBVIOUS
  <2>21. result0 = both
    BY <1>1, <1>3, <1>4, <1>7, <2>1, <2>2, <2>3, <2>4, <2>7, <2>12, <2>16 DEF Restarted
  <2>22. Effect(c, both, key)
    BY <2>17, <2>19, <2>20, EffectOfNotes
  <2> QED
    BY <2>21, <2>22
<1> QED
  BY <1>6, <1>7

\* A jump.
LEMMA JumpedEffect ==
    ASSUME NEW c, NEW i \in DOMAIN c.states, Good(c), NEW p \in Packets, NEW codec \in Codecs,
           NEW session \in Sessions, p.flow = c.states[i].key
    PROVE  Effect(c, Jumped(c, i, p.flow, p, codec, session), p.flow)
<1> DEFINE s == c.states[i]
<1>1. Partly(c, i) /\ StageGood(s)
  BY GoodIsPartly
<1>2. PICK waiting : waiting = [c EXCEPT !.states[i].pending = p]
  OBVIOUS
<1>3. p # None
  BY Sizes
<1>4. /\ Partly(waiting, i) /\ Notes(c, waiting, s.key, Held(p) - Held(s.pending))
      /\ Noted(s, waiting.states[i]) /\ waiting.states[i].pending = p
  BY <1>1, <1>2, PendingNotes
<1>5. StageGood(waiting.states[i])
  BY <1>1, <1>4, NotedGood DEF Noted
<1>6. Good(waiting) /\ i \in DOMAIN waiting.states
  BY <1>4, <1>5, GoodIsPartly DEF Partly
<1>7. CASE s.pending = None
  <2>1. Notes(c, waiting, p.flow, 1)
    BY <1>3, <1>4, <1>7 DEF Held
  <2>2. Jumped(c, i, p.flow, p, codec, session) = waiting
    BY <1>2, <1>7 DEF Jumped
  <2>3. Effect(c, waiting, p.flow)
    BY <1>6, <2>1, EffectOfNotes
  <2> QED
    BY <2>2, <2>3
<1>8. CASE s.pending # None /\ Confirms(s.pending, p)
  <2>1. Effect(c, Restarted(c, i, p.flow, p, codec, session), p.flow)
    BY <1>8, RestartedEffect
  <2>2. Jumped(c, i, p.flow, p, codec, session)
          = Restarted(c, i, p.flow, p, codec, session)
    BY <1>8 DEF Jumped
  <2> QED
    BY <2>1, <2>2
<1>9. CASE s.pending # None /\ ~Confirms(s.pending, p)
  <2>1. PICK w \in Warnings : w = "unconfirmed"
    BY DEF Warnings
  <2>2. PICK d : d = WarnStage(waiting, i, w)
    OBVIOUS
  <2>3. waiting.states[i].key = p.flow /\ Notes(c, waiting, p.flow, 0)
    BY <1>3, <1>4, <1>9 DEF Noted, Held
  <2>4. /\ Partly(d, i) /\ Notes(waiting, d, p.flow, 0) /\ Noted(waiting.states[i], d.states[i])
        /\ d.states[i].pending = p /\ w \in d.states[i].warnings
    BY <1>4, <2>2, <2>3, WarnStageNotes
  <2>5. StageGood(d.states[i])
    BY <1>5, <2>3, <2>4, NotedGood DEF Noted
  <2>6. Good(d) /\ i \in DOMAIN d.states /\ d.states[i].key = p.flow
    BY <2>3, <2>4, <2>5, GoodIsPartly DEF Partly, Noted
  <2>7. Notes(c, d, p.flow, 0 + 0)
    BY <2>3, <2>4, NotesOn
  <2>8. Warned(d, p.flow)
    BY <2>1, <2>4, <2>6 DEF Warned
  <2>9. Jumped(c, i, p.flow, p, codec, session) = d
    BY <1>2, <1>9, <2>1, <2>2 DEF Jumped
  <2>10. Effect(c, d, p.flow)
    BY <2>6, <2>7, <2>8, EffectOfNotes
  <2> QED
    BY <2>9, <2>10
<1> QED
  BY <1>7, <1>8, <1>9

\* payload.
LEMMA MediaEffect ==
    ASSUME NEW c, Good(c), NEW p \in Packets, NEW codec \in Codecs, NEW session \in Sessions
    PROVE  Effect(c, Media(c, p.flow, p, codec, session), p.flow)
<1> DEFINE key == p.flow
           final == Media(c, key, p, codec, session)
<1>1. CASE key \in DOMAIN c.routes
  <2>1. PICK i : i = c.routes[key] /\ i \in DOMAIN c.states /\ c.states[i].key = key
    BY <1>1 DEF Good, Routed
  <2>2. PICK d : d = IF session = None THEN c ELSE [c EXCEPT !.states[i].session = session]
    OBVIOUS
  <2>3. /\ Good(d) /\ i \in DOMAIN d.states /\ d.states[i].key = key
        /\ session # None => Notes(c, d, key, 0)
    <3>1. CASE session = None
      BY <2>1, <2>2, <3>1
    <3>2. CASE session # None
      <4>1. Partly(c, i) /\ StageGood(c.states[i])
        BY <2>1, GoodIsPartly
      <4>2. /\ Partly(d, i) /\ Notes(c, d, key, 0) /\ Noted(c.states[i], d.states[i])
            /\ d.states[i].pending = c.states[i].pending
        <5>1. d = [c EXCEPT !.states[i].session = session]
          BY <2>2, <3>2
        <5>2. /\ Partly(d, i) /\ Notes(c, d, c.states[i].key, 0)
              /\ Noted(c.states[i], d.states[i])
              /\ d.states[i].pending = c.states[i].pending
          BY <4>1, <5>1, SessionNotes
        <5> QED
          BY <2>1, <5>2
      <4>3. StageGood(d.states[i])
        BY <4>1, <4>2, NotedGood DEF StageGood, Kept, Noted
      <4> QED
        BY <2>1, <4>2, <4>3, GoodIsPartly DEF Partly, Noted
    <3> QED
      BY <3>1, <3>2
  <2>4. PICK e : e = IF Jumps(d.states[i], p) THEN Jumped(d, i, key, p, codec, session)
                     ELSE Continued(d, i, p, codec)
    OBVIOUS
  <2>5. Effect(d, e, key)
    BY <2>3, <2>4, JumpedEffect, ContinuedEffect
  <2>6. Effect(c, e, key)
    BY <2>2, <2>3, <2>5, EffectAfter
  <2>7. final = e
    BY <1>1, <2>1, <2>2, <2>4 DEF Media
  <2> QED
    BY <2>6, <2>7
<1>2. CASE key \notin DOMAIN c.routes /\ Full(c)
  <2>1. PICK w \in Warnings : w = "stream_limit"
    BY DEF Warnings
  <2>2. PICK d : d = Warn(c, w)
    OBVIOUS
  <2>3. Good(d) /\ Notes(c, d, key, 0) /\ w \in d.warnings
    BY <2>2, WarnNotes
  <2>4. Effect(c, d, key)
    BY <2>1, <2>3, EffectOfNotes DEF Warned
  <2>5. final = d
    BY <1>2, <2>1, <2>2 DEF Media
  <2> QED
    BY <2>4, <2>5
<1>3. CASE key \notin DOMAIN c.routes /\ ~Full(c)
  <2>1. PICK opened, i : opened = Opened(c, key, p, codec) /\ i = Len(c.states) + 1
    OBVIOUS
  <2>2. /\ Partly(opened, i) /\ i \notin DOMAIN c.states /\ Notes(c, opened, key, 0)
        /\ Fresh(opened.states[i], p) /\ opened.routes[key] = i
    BY <2>1, OpenedIs
  <2>3. PICK d : d = IF session = None THEN opened
                     ELSE [opened EXCEPT !.states[i].session = session]
    OBVIOUS
  <2>4. Partly(d, i) /\ Notes(c, d, key, 0) /\ Fresh(d.states[i], p) /\ d.states[i].key = key
    <3>1. CASE session = None
      BY <2>2, <2>3, <3>1 DEF Fresh
    <3>2. CASE session # None
      <4>1. opened.states[i].key = key
        BY <2>2 DEF Fresh
      <4>2. /\ Partly(d, i) /\ Notes(opened, d, key, 0)
            /\ Noted(opened.states[i], d.states[i])
            /\ d.states[i].pending = opened.states[i].pending
        BY <2>2, <2>3, <3>2, <4>1, SessionNotes
      <4>3. Notes(c, d, key, 0 + 0)
        BY <2>2, <4>2, NotesOn
      <4>4. Fresh(d.states[i], p)
        BY <2>2, <4>2, FreshStays
      <4> QED
        BY <4>2, <4>3, <4>4 DEF Fresh
    <3> QED
      BY <3>1, <3>2
  <2>5. PICK e : e = Observe(d, i, p, codec)
    OBVIOUS
  <2>6. Good(e) /\ Writes(d, e, i) /\ Observed(d.states[i], e.states[i], p)
    <3>1. Takes(d.states[i], p)
      BY <2>4 DEF Takes
    <3> QED
      BY <2>4, <2>5, <3>1, ObserveTakes
  <2>7. Notes(c, e, key, 0 + 1)
    BY <2>2, <2>4, <2>6, ObserveNotes
  <2>8. Effect(c, e, key)
    BY <2>6, <2>7, EffectOfNotes
  <2>9. ~Jumps(d.states[i], p) /\ d.states[i].pending = None
    BY <2>4 DEF Jumps, LastSequence, Fresh
  <2>10. final = Continued(d, i, p, codec)
    BY <1>3, <2>1, <2>2, <2>3, <2>9 DEF Media
  <2>11. final = e
    BY <2>5, <2>9, <2>10 DEF Continued
  <2> QED
    BY <2>8, <2>11
<1> QED
  BY <1>1, <1>2, <1>3

-----------------------------------------------------------------------------
\* A set of positions that is not empty has a last one.
LEMMA Highest ==
    ASSUME NEW n \in Nat, NEW I \in SUBSET (1..n), I # {}
    PROVE  \E i \in I : \A j \in I : j <= i
<1> DEFINE tails == {i..n : i \in I}
           smaller == StrictSubsetOrdering(Nat)
<1>1. tails # {}
  OBVIOUS
<1>2. tails \subseteq FiniteSubsetsOf(Nat)
  <2> SUFFICES ASSUME NEW i \in I PROVE i..n \in FiniteSubsetsOf(Nat)
    OBVIOUS
  <2>1. IsFiniteSet(i..n) /\ i..n \in SUBSET Nat
    BY FS_Interval
  <2> QED
    BY <2>1 DEF FiniteSubsetsOf
<1>3. PICK x \in tails : \A y \in tails : <<y, x>> \notin smaller
  <2>1. IsWellFoundedOn(smaller, FiniteSubsetsOf(Nat))
    BY FS_StrictSubsetOrderingWellFounded
  <2> HIDE DEF tails, smaller
  <2> QED
    BY <1>1, <1>2, <2>1, WFMin
<1>4. PICK i \in I : x = i..n
  OBVIOUS
<1>5. ASSUME NEW j \in I, ~(j <= i) PROVE FALSE
  <2>1. <<j..n, i..n>> \notin smaller
    BY <1>3, <1>4
  <2>2. i \in 1..n /\ j \in 1..n
    OBVIOUS
  <2>3. j..n \subseteq i..n /\ i \in i..n /\ i \notin j..n
    BY <1>5, <2>2
  <2>4. j..n \in SUBSET Nat /\ i..n \in SUBSET Nat
    BY <2>2
  <2> QED
    BY <2>1, <2>3, <2>4 DEF StrictSubsetOrdering
<1> QED
  BY <1>5

LEMMA NewestIs ==
    ASSUME NEW c \in CaptureType, NEW I \in SUBSET DOMAIN c.bindings
    PROVE  Newest(c, I) \in {None} \cup Offers
<1>1. c.bindings \in Seq(Offers) /\ Len(c.bindings) \in Nat
      /\ DOMAIN c.bindings = 1..Len(c.bindings)
  BY CaptureIs
<1>2. CASE I = {}
  BY <1>2 DEF Newest
<1>3. CASE I # {}
  <2>1. \E i \in I : \A j \in I : j <= i
    BY <1>1, <1>3, Highest
  <2>2. PICK i : i = CHOOSE x \in I : \A j \in I : j <= x
    OBVIOUS
  <2>3. i \in I
    BY <2>1, <2>2
  <2>4. c.bindings[i] \in Offers
    BY <1>1, <2>3
  <2> QED
    BY <1>3, <2>2, <2>4 DEF Newest
<1> QED
  BY <1>2, <1>3

\* A captured packet.
LEMMA DatagramEffect ==
    ASSUME NEW c, Good(c), NEW p \in Packets
    PROVE  Effect(c, Datagram(c, p.flow, "rtp", p), p.flow)
<1> DEFINE all == DOMAIN c.bindings
           control == Newest(c, {i \in all : RtcpPorts(c.bindings[i], p.flow)})
           media == Newest(c, {i \in all : RtpPorts(c.bindings[i], p.flow)})
           codec == IF media = None \/ p.pt \notin DOMAIN media.codecs THEN None
                    ELSE media.codecs[p.pt]
           session == IF media # None THEN media.session
                      ELSE IF control # None THEN control.session ELSE None
<1>1. control \in {None} \cup Offers /\ media \in {None} \cup Offers
  BY NewestIs DEF Good
<1> HIDE DEF control, media
<1>2. codec \in Codecs
  BY <1>1 DEF Codecs
<1>3. session \in Sessions
  BY <1>1 DEF Sessions
<1> HIDE DEF codec, session
<1>4. Datagram(c, p.flow, "rtp", p) =
        IF control # None THEN Warn(c, "rtcp_unparsed")
        ELSE Media(c, p.flow, p, codec, session)
  BY DEF Datagram, control, media, codec, session
<1>5. CASE control # None
  <2>1. PICK w \in Warnings : w = "rtcp_unparsed"
    BY DEF Warnings
  <2>2. PICK d : d = Warn(c, w)
    OBVIOUS
  <2>3. Good(d) /\ Notes(c, d, p.flow, 0) /\ w \in d.warnings
    BY <2>2, WarnNotes
  <2>4. Effect(c, d, p.flow)
    BY <2>1, <2>3, EffectOfNotes DEF Warned
  <2> QED
    BY <1>4, <1>5, <2>1, <2>2, <2>4
<1>6. CASE control = None
  BY <1>2, <1>3, <1>4, <1>6, MediaEffect
<1> QED
  BY <1>5, <1>6

\* What neither counts nor drops a packet of any flow.
Aside(c, d) == Good(d) /\ \A f : Moves(c, d, f, 0)

\* A sender report, by PortsAssumption to a stage of its own flow or to none.
LEMMA ReportAside ==
    ASSUME NEW c, Good(c), NEW f \in Flows
    PROVE  Aside(c, Report(c, [f EXCEPT !.source = @ + 1, !.destination = @ + 1],
                              [flow |-> f, pt |-> 200]))
<1> DEFINE key == [f EXCEPT !.source = @ + 1, !.destination = @ + 1]
           report == [flow |-> f, pt |-> 200]
           candidates == {i \in DOMAIN c.states : SameSource(c.states[i], key)}
<1>1. c \in CaptureType /\ \A i \in DOMAIN c.states : c.states[i] \in Stage
  BY CaptureIs DEF Good
<1>2. CASE Cardinality(candidates) = 1
  <2>1. PICK i : i = CHOOSE x \in candidates : TRUE
    OBVIOUS
  <2>2. candidates # {}
    BY <1>2, FS_EmptySet
  <2>3. i \in DOMAIN c.states /\ SameSource(c.states[i], key)
    BY <2>1, <2>2
  <2>4. PICK s \in Stage : s = c.states[i] /\ s.key \in Flows
    BY <1>1, <2>3, StageIs
  <2>5. s.key = f
    <3>1. PICK g \in Flows : g = s.key
      BY <2>4
    <3>2. /\ f.tcp = None /\ f.source \in Nat /\ f.destination \in Nat
          /\ g.source \in Nat /\ g.destination \in Nat
          /\ key.source = f.source + 1 /\ key.destination = f.destination + 1
          /\ key.tcp = f.tcp /\ key.path = f.path /\ key.ssrc = f.ssrc
      BY UdpAssumption
    <3>3. /\ f.path = g.path /\ f.ssrc = g.ssrc
          /\ f.source + 1 - g.source \in {0, 1}
          /\ f.destination + 1 - g.destination \in {0, 1}
      BY <2>3, <2>4, <3>1, <3>2 DEF SameSource
    <3> QED
      BY <3>1, <3>3, PortsAssumption
  <2>6. PICK r \in Reports : r = report /\ r.flow = f
    <3>1. report \in Reports
      BY DEF Reports
    <3> QED
      BY <3>1
  <2>7. PICK z \in Seq(Reports) : z = Append(s.rtcp, r)
    BY <2>4, StageIs, AppendProperties
  <2>8. \A x \in DOMAIN z : z[x] = r \/ (x \in DOMAIN s.rtcp /\ z[x] = s.rtcp[x])
    <3>1. s.rtcp \in Seq(Reports) /\ Len(s.rtcp) \in Nat /\ DOMAIN s.rtcp = 1..Len(s.rtcp)
      BY StageIs
    <3>2. /\ \A x \in DOMAIN s.rtcp : z[x] = s.rtcp[x]
          /\ z[Len(s.rtcp) + 1] = r /\ Len(z) = Len(s.rtcp) + 1 /\ DOMAIN z = 1..Len(z)
      BY <2>7, <3>1, AppendProperties
    <3> QED
      BY <3>1, <3>2
  <2>9. PICK t : t = [s EXCEPT !.rtcp = z]
    OBVIOUS
  <2>10. /\ t \in Stage /\ t.key = s.key /\ t.numbers = s.numbers /\ t.extended = s.extended
         /\ t.pending = s.pending /\ t.duplicates = s.duplicates /\ t.spool = s.spool
         /\ t.limited = s.limited /\ t.truncated = s.truncated /\ t.rtcp = z
         /\ t.warnings = s.warnings
    BY <2>9 DEF Stage
  <2>11. PICK d : d = [c EXCEPT !.states[i] = t]
    OBVIOUS
  <2>12. Writes(c, d, i) /\ d.states[i] = t
    BY <1>1, <2>3, <2>10, <2>11, PutIs
  <2>13. Report(c, key, report) = d
    BY <1>2, <2>1, <2>4, <2>6, <2>7, <2>9, <2>11 DEF Report
  <2>14. StageGood(s)
    BY <2>3, <2>4 DEF Good
  <2>15. StageGood(t)
    <3>1. Tallied(t)
      BY <2>10, <2>14 DEF StageGood, Tallied
    <3>2. Kept(t)
      BY <2>5, <2>6, <2>8, <2>10, <2>14 DEF StageGood, Kept
    <3>3. PICK e \in DOMAIN Bases[s.key], k \in Int : Placed(s, e, k)
      BY <2>14 DEF StageGood
    <3>4. e \in DOMAIN Bases[t.key] /\ Placed(t, e, k)
      BY <2>10, <3>3 DEF Placed
    <3> QED
      BY <3>1, <3>2, <3>4 DEF StageGood
  <2>16. Good(d)
    <3>1. Partly(d, i)
      BY <2>3, <2>4, <2>10, <2>12, GoodIsPartly, WritePartly
    <3> QED
      BY <2>12, <2>15, <3>1, GoodIsPartly DEF Partly
  <2>17. \A g : Counts(c, d, g, 0)
    <3>1. Held(t.pending) - Held(s.pending) = 0
      BY <2>10 DEF Held
    <3>2. Counts(c, d, s.key, 0) /\ \A g : g # s.key => Counts(c, d, g, 0)
      BY <1>1, <2>3, <2>4, <2>10, <2>12, <3>1, PendingCounts DEF Held
    <3> QED
      BY <3>2
  <2>18. ASSUME NEW j \in DOMAIN c.states PROVE Later(c.states[j], d.states[j])
    <3>1. c.states[j].spool \in Seq(Records)
      BY <1>1, StageIs
    <3>2. Len(c.states[j].spool) \in Nat
      BY <3>1
    <3>3. CASE j = i
      BY <2>4, <2>10, <2>12, <3>2, <3>3 DEF Later
    <3>4. CASE j # i
      BY <2>12, <3>2, <3>4 DEF Later, Writes
    <3> QED
      BY <3>3, <3>4
  <2> QED
    BY <2>12, <2>13, <2>16, <2>17, <2>18 DEF Aside, Moves, Onward, Writes
<1>3. CASE Cardinality(candidates) # 1
  <2>1. PICK w \in Warnings : w = "rtcp_unattributed"
    BY DEF Warnings
  <2>2. PICK d : d = Warn(c, w)
    OBVIOUS
  <2>3. Good(d) /\ \A g : Moves(c, d, g, 0)
    BY <2>2, WarnNotes, NotesMove
  <2>4. Report(c, key, report) = d
    BY <1>3, <2>1, <2>2 DEF Report
  <2> QED
    BY <2>3, <2>4 DEF Aside
<1> QED
  BY <1>2, <1>3

-----------------------------------------------------------------------------
\* What the stages account for is what was captured of each flow, or less and a
\* warning says so.
Balanced(c, F) ==
    \A f \in Flows :
        /\ IsFiniteSet(Packed(c, f)) /\ Cardinality(Packed(c, f)) <= F[f]
        /\ Cardinality(Packed(c, f)) < F[f] => Warned(c, f)

LEMMA BalanceFed ==
    ASSUME NEW c, NEW d, NEW F \in [Flows -> Nat], NEW G, NEW f \in Flows, G[f] = F[f] + 1,
           \A g \in Flows : g # f => G[g] = F[g], Balanced(c, F), Effect(c, d, f)
    PROVE  Balanced(d, G)
<1>2. PICK k \in {-1, 0, 1} : Moves(c, d, f, k) /\ (k = 1 \/ Warned(d, f))
  BY DEF Effect
<1>3. ASSUME NEW g \in Flows
      PROVE  /\ IsFiniteSet(Packed(d, g)) /\ Cardinality(Packed(d, g)) <= G[g]
             /\ Cardinality(Packed(d, g)) < G[g] => Warned(d, g)
  <2>1. PICK n \in Nat : /\ n = Cardinality(Packed(c, g)) /\ IsFiniteSet(Packed(c, g))
                         /\ n <= F[g] /\ (n < F[g] => Warned(c, g))
    BY FS_CardinalityType DEF Balanced
  <2>2. Warned(c, g) => Warned(d, g)
    BY <1>2, WarnedStays
  <2>3. CASE g = f
    <3>1. IsFiniteSet(Packed(d, g)) /\ Cardinality(Packed(d, g)) = n + k
      BY <1>2, <2>1, <2>3 DEF Moves, Onward, Counts
    <3> QED
      BY <1>2, <2>1, <2>2, <2>3, <3>1
  <2>4. CASE g # f
    <3>1. IsFiniteSet(Packed(d, g)) /\ Cardinality(Packed(d, g)) = n + 0
      BY <1>2, <2>1, <2>4 DEF Moves, Onward, Counts
    <3> QED
      BY <2>1, <2>2, <2>4, <3>1
  <2> QED
    BY <2>3, <2>4
<1> QED
  BY <1>3 DEF Balanced

LEMMA BalanceAside ==
    ASSUME NEW c, NEW d, NEW F \in [Flows -> Nat], Balanced(c, F), Aside(c, d)
    PROVE  Balanced(d, F)
<1>1. ASSUME NEW g \in Flows
      PROVE  /\ IsFiniteSet(Packed(d, g)) /\ Cardinality(Packed(d, g)) <= F[g]
             /\ Cardinality(Packed(d, g)) < F[g] => Warned(d, g)
  <2>1. PICK n \in Nat : /\ n = Cardinality(Packed(c, g)) /\ IsFiniteSet(Packed(c, g))
                         /\ n <= F[g] /\ (n < F[g] => Warned(c, g))
    BY FS_CardinalityType DEF Balanced
  <2>2. Moves(c, d, g, 0)
    BY DEF Aside
  <2>3. Warned(c, g) => Warned(d, g)
    BY <2>2, WarnedStays
  <2>4. IsFiniteSet(Packed(d, g)) /\ Cardinality(Packed(d, g)) = n + 0
    BY <2>1, <2>2 DEF Moves, Onward, Counts
  <2> QED
    BY <2>1, <2>3, <2>4
<1> QED
  BY <1>1 DEF Balanced

\* The inductive invariant: the stages are good, the account is balanced, and
\* what is on its way was sent.
Inv ==
    /\ Good(capture)
    /\ fed \in [Flows -> Nat] /\ Balanced(capture, fed)
    /\ sender \in [Flows -> [epoch : Nat, next : Nat]]
    /\ \A f \in Flows : sender[f].epoch \in DOMAIN Bases[f]
    /\ delayed \subseteq Packets

Goes(c, d) ==
    /\ DOMAIN c.states \subseteq DOMAIN d.states
    /\ \A j \in DOMAIN c.states : Later(c.states[j], d.states[j])

LEMMA InvInit == InitUdp => Inv
<1> SUFFICES ASSUME InitUdp
             PROVE  Inv
  OBVIOUS
<1>1. /\ capture.states = <<>> /\ capture.routes = [k \in {} |-> 0] /\ capture.warnings = {}
      /\ capture \in CaptureType
  <2>1. [k \in {} |-> 0] \in UNION {[S -> Nat] : S \in SUBSET Flows}
    OBVIOUS
  <2> QED
    BY <2>1 DEF InitUdp, NewCapture, CaptureType
<1>2. Good(capture)
  BY <1>1 DEF Good, Routed
<1>3. \A f : Packed(capture, f) = {}
  BY <1>1 DEF Packed
<1>4. fed \in [Flows -> Nat] /\ \A f \in Flows : fed[f] = 0
  BY DEF InitUdp
<1>5. Balanced(capture, fed)
  BY <1>3, <1>4, FS_EmptySet DEF Balanced
<1>6. /\ sender \in [Flows -> [epoch : Nat, next : Nat]]
      /\ \A f \in Flows : sender[f].epoch \in DOMAIN Bases[f]
  <2>1. \A f \in Flows : 1 \in DOMAIN Bases[f]
    <3>1. \A f \in Flows : Bases[f] \in Seq(Nat) /\ Bases[f] # <<>>
      BY UdpAssumption
    <3> QED
      BY <3>1
  <2> QED
    BY <2>1 DEF InitUdp
<1> QED
  BY <1>2, <1>4, <1>5, <1>6 DEF Inv, InitUdp

LEMMA GoesStays ==
    ASSUME Inv
    PROVE  Goes(capture, capture)
<1>1. \A j \in DOMAIN capture.states : capture.states[j] \in Stage
  BY CaptureIs DEF Inv, Good
<1> SUFFICES ASSUME NEW j \in DOMAIN capture.states
             PROVE  Later(capture.states[j], capture.states[j])
  BY DEF Goes
<1>2. capture.states[j].spool \in Seq(Records)
  BY <1>1, StageIs
<1>3. Len(capture.states[j].spool) \in Nat
  BY <1>2
<1> QED
  BY <1>3 DEF Later

LEMMA CapturedStep ==
    ASSUME Inv, NEW p \in Packets, Captured(p)
    PROVE  /\ Good(capture') /\ fed' \in [Flows -> Nat] /\ Balanced(capture', fed')
           /\ Goes(capture, capture')
<1>1. Effect(capture, capture', p.flow)
  BY DatagramEffect DEF Inv, Captured
<1>2. p.flow \in Flows
  BY PacketIs
<1>3. fed' = [fed EXCEPT ![p.flow] = @ + 1]
  BY DEF Captured
<1>4. fed' \in [Flows -> Nat] /\ Balanced(capture', fed')
  <2>1. fed \in [Flows -> Nat] /\ Balanced(capture, fed)
    BY DEF Inv
  <2>2. /\ fed' \in [Flows -> Nat] /\ fed'[p.flow] = fed[p.flow] + 1
        /\ \A g \in Flows : g # p.flow => fed'[g] = fed[g]
    BY <1>2, <1>3, <2>1
  <2> QED
    BY <1>1, <1>2, <2>1, <2>2, BalanceFed
<1>5. Goes(capture, capture')
  BY <1>1 DEF Effect, Moves, Onward, Goes
<1> QED
  BY <1>1, <1>4, <1>5 DEF Effect

LEMMA AsideStep ==
    ASSUME Inv, Aside(capture, capture'), fed' = fed
    PROVE  /\ Good(capture') /\ fed' \in [Flows -> Nat] /\ Balanced(capture', fed')
           /\ Goes(capture, capture')
BY BalanceAside DEF Inv, Aside, Moves, Onward, Goes

\* The sender goes on, with a packet of its own.
LEMMA AdvanceStep ==
    ASSUME Inv, NEW f \in Flows, Advance(f)
    PROVE  /\ Packet(f) \in Packets
           /\ sender' \in [Flows -> [epoch : Nat, next : Nat]]
           /\ \A g \in Flows : sender'[g].epoch \in DOMAIN Bases[g]
<1>1. /\ sender[f].epoch \in DOMAIN Bases[f] /\ sender[f].next \in Nat
      /\ sender[f].next < Len(Payloads) /\ Len(Payloads) \in Nat
  BY UdpAssumption DEF Inv, Advance
<1>2. sender[f].next \in 0..(Len(Payloads) - 1)
  BY <1>1
<1>3. Packet(f) \in Packets
  BY <1>1, <1>2 DEF Packet, Packets
<1>4. sender' = [sender EXCEPT ![f].next = @ + 1]
  BY DEF Advance
<1>5. /\ sender' \in [Flows -> [epoch : Nat, next : Nat]]
      /\ \A g \in Flows : sender'[g].epoch = sender[g].epoch
  BY <1>4 DEF Inv
<1> QED
  BY <1>3, <1>5 DEF Inv

LEMMA NegotiateAside ==
    ASSUME NEW c, Good(c), NEW b \in Offers
    PROVE  Aside(c, IF Len(c.bindings) < MaxStreams THEN [c EXCEPT !.bindings = Append(@, b)]
                    ELSE Warn(c, "binding_limit"))
<1>1. c \in CaptureType /\ \A i \in DOMAIN c.states : c.states[i] \in Stage
  BY CaptureIs DEF Good
<1>2. PICK w \in Warnings : w = "binding_limit"
  BY DEF Warnings
<1>3. Good(Warn(c, w)) /\ \A g : Moves(c, Warn(c, w), g, 0)
  BY <1>2, WarnNotes, NotesMove
<1>4. CASE ~(Len(c.bindings) < MaxStreams)
  BY <1>2, <1>3, <1>4 DEF Aside
<1>5. CASE Len(c.bindings) < MaxStreams
  <2>1. PICK B \in Seq(Offers) : B = Append(c.bindings, b)
    BY <1>1, CaptureIs, AppendProperties
  <2>2. PICK d : d = [c EXCEPT !.bindings = B]
    OBVIOUS
  <2>3. /\ d \in CaptureType /\ d.states = c.states /\ d.routes = c.routes
        /\ d.warnings = c.warnings
    BY <1>1, <2>2 DEF CaptureType
  <2>4. Good(d)
    BY <2>3 DEF Good, Routed
  <2>5. \A g : Counts(c, d, g, 0)
    <3>1. \A g : Packed(d, g) = Packed(c, g)
      BY <2>3 DEF Packed
    <3> QED
      BY <3>1, CountsSame
  <2>6. \A j \in DOMAIN c.states : Noted(c.states[j], d.states[j])
    BY <1>1, <2>3 DEF Noted
  <2>7. \A g : Notes(c, d, g, 0)
    BY <2>3, <2>5, <2>6 DEF Notes, Onward
  <2>8. Aside(c, d)
    BY <2>4, <2>7, NotesMove DEF Aside
  <2> QED
    BY <1>5, <2>1, <2>2, <2>8
<1> QED
  BY <1>4, <1>5

-----------------------------------------------------------------------------
LEMMA InvNext == Inv /\ NextUdp => Inv' /\ Goes(capture, capture')
<1> SUFFICES ASSUME Inv, NextUdp
             PROVE  Inv' /\ Goes(capture, capture')
  OBVIOUS
<1>1. ASSUME NEW f \in Flows, Send(f) PROVE Inv' /\ Goes(capture, capture')
  <2>1. Advance(f) /\ Captured(Packet(f)) /\ delayed' = delayed
    BY <1>1 DEF Send
  <2>2. /\ Packet(f) \in Packets
        /\ sender' \in [Flows -> [epoch : Nat, next : Nat]]
        /\ \A g \in Flows : sender'[g].epoch \in DOMAIN Bases[g]
    BY <2>1, AdvanceStep
  <2>3. /\ Good(capture') /\ fed' \in [Flows -> Nat] /\ Balanced(capture', fed')
        /\ Goes(capture, capture')
    BY <2>1, <2>2, CapturedStep
  <2> QED
    BY <2>1, <2>2, <2>3 DEF Inv
<1>2. ASSUME NEW f \in Flows, Delay(f) PROVE Inv' /\ Goes(capture, capture')
  <2>1. /\ Advance(f) /\ delayed' = delayed \cup {Packet(f)}
        /\ capture' = capture /\ fed' = fed
    BY <1>2 DEF Delay
  <2>2. /\ Packet(f) \in Packets
        /\ sender' \in [Flows -> [epoch : Nat, next : Nat]]
        /\ \A g \in Flows : sender'[g].epoch \in DOMAIN Bases[g]
    BY <2>1, AdvanceStep
  <2> QED
    BY <2>1, <2>2, GoesStays DEF Inv
<1>3. ASSUME NEW f \in Flows, Repeat(f) PROVE Inv' /\ Goes(capture, capture')
  <2>1. Advance(f) /\ Captured(Packet(f)) /\ delayed' = delayed \cup {Packet(f)}
    BY <1>3 DEF Repeat
  <2>2. /\ Packet(f) \in Packets
        /\ sender' \in [Flows -> [epoch : Nat, next : Nat]]
        /\ \A g \in Flows : sender'[g].epoch \in DOMAIN Bases[g]
    BY <2>1, AdvanceStep
  <2>3. /\ Good(capture') /\ fed' \in [Flows -> Nat] /\ Balanced(capture', fed')
        /\ Goes(capture, capture')
    BY <2>1, <2>2, CapturedStep
  <2> QED
    BY <2>1, <2>2, <2>3 DEF Inv
<1>4. ASSUME NEW f \in Flows, Restart(f) PROVE Inv' /\ Goes(capture, capture')
  <2>1. /\ sender[f].epoch < Len(Bases[f])
        /\ sender' = [sender EXCEPT ![f].epoch = @ + 1, ![f].next = 0]
        /\ UNCHANGED <<capture, delayed, fed>>
    BY <1>4 DEF Restart
  <2>2. sender \in [Flows -> [epoch : Nat, next : Nat]]
        /\ \A g \in Flows : sender[g].epoch \in DOMAIN Bases[g]
    BY DEF Inv
  <2>3. sender[f].epoch + 1 \in DOMAIN Bases[f]
    <3>1. Bases[f] \in Seq(Nat)
      BY UdpAssumption
    <3>2. sender[f].epoch \in Nat
      BY <2>2
    <3> QED
      BY <2>1, <2>2, <3>1, <3>2
  <2>4. /\ sender' \in [Flows -> [epoch : Nat, next : Nat]]
        /\ sender'[f].epoch = sender[f].epoch + 1
        /\ \A g \in Flows : g # f => sender'[g].epoch = sender[g].epoch
    <3>1. PICK o \in [epoch : Nat, next : Nat], n \in Nat : o = sender[f] /\ n = o.epoch + 1
      BY <2>2
    <3>2. PICK r : r = [o EXCEPT !.epoch = n, !.next = 0]
      OBVIOUS
    <3>3. r \in [epoch : Nat, next : Nat] /\ r.epoch = n
      BY <3>2
    <3>4. sender' = [sender EXCEPT ![f] = r]
      BY <2>1, <2>2, <3>1, <3>2
    <3> QED
      BY <2>2, <3>1, <3>3, <3>4
  <2> QED
    BY <2>1, <2>2, <2>3, <2>4, GoesStays DEF Inv
<1>5. ASSUME NEW f \in Flows, SendReport(f) PROVE Inv' /\ Goes(capture, capture')
  <2>1. /\ capture' = Report(capture, [f EXCEPT !.source = @ + 1, !.destination = @ + 1],
                             [flow |-> f, pt |-> 200])
        /\ fed' = fed /\ sender' = sender /\ delayed' = delayed
    BY <1>5 DEF SendReport, Datagram
  <2>2. Aside(capture, capture')
    BY <2>1, ReportAside DEF Inv
  <2>3. /\ Good(capture') /\ fed' \in [Flows -> Nat] /\ Balanced(capture', fed')
        /\ Goes(capture, capture')
    BY <2>1, <2>2, AsideStep
  <2> QED
    BY <2>1, <2>3 DEF Inv
<1>6. ASSUME NEW p \in delayed, Arrive(p) PROVE Inv' /\ Goes(capture, capture')
  <2>1. p \in Packets /\ Captured(p) /\ delayed' = delayed \ {p} /\ sender' = sender
    BY <1>6 DEF Arrive, Inv
  <2>2. /\ Good(capture') /\ fed' \in [Flows -> Nat] /\ Balanced(capture', fed')
        /\ Goes(capture, capture')
    BY <2>1, CapturedStep
  <2> QED
    BY <2>1, <2>2 DEF Inv
<1>7. ASSUME NEW b \in Offers, Negotiate(b) PROVE Inv' /\ Goes(capture, capture')
  <2>1. /\ capture' = IF Len(capture.bindings) < MaxStreams
                      THEN [capture EXCEPT !.bindings = Append(@, b)]
                      ELSE Warn(capture, "binding_limit")
        /\ fed' = fed /\ sender' = sender /\ delayed' = delayed
    BY <1>7 DEF Negotiate
  <2>2. Aside(capture, capture')
    BY <2>1, NegotiateAside DEF Inv
  <2>3. /\ Good(capture') /\ fed' \in [Flows -> Nat] /\ Balanced(capture', fed')
        /\ Goes(capture, capture')
    BY <2>1, <2>2, AsideStep
  <2> QED
    BY <2>1, <2>3 DEF Inv
<1>8. ASSUME Finish PROVE Inv' /\ Goes(capture, capture')
  BY <1>8, GoesStays DEF Finish, Inv
<1> QED
  BY <1>1, <1>2, <1>3, <1>4, <1>5, <1>6, <1>7, <1>8 DEF NextUdp

LEMMA InvAlways == SpecUdp => []Inv
<1>1. Inv /\ UNCHANGED vars => Inv'
  BY DEF Inv, vars
<1>2. Inv /\ [NextUdp]_vars => Inv'
  BY <1>1, InvNext
<1> QED
  BY <1>2, InvInit, PTL DEF SpecUdp

LEMMA Faithful == Inv => StagesAreFaithful
<1> SUFFICES ASSUME Inv, NEW i \in DOMAIN capture.states
             PROVE  LET s == capture.states[i]
                    IN  /\ \A a, b \in DOMAIN s.spool :
                              LET p == s.spool[a]  q == s.spool[b]
                              IN  /\ p.flow = s.key /\ p.epoch = q.epoch
                                  /\ p.extended - q.extended = p.n - q.n
                                  /\ a # b => p.n # q.n
                        /\ \A k \in DOMAIN s.rtcp : s.rtcp[k].flow = s.key
  BY DEF StagesAreFaithful
<1>1. PICK s \in Stage : s = capture.states[i] /\ StageGood(s)
  BY CaptureIs DEF Inv, Good
<1>2. PICK e \in DOMAIN Bases[s.key], k \in Int : Placed(s, e, k)
  BY <1>1 DEF StageGood
<1>3. \A a \in DOMAIN s.spool : s.spool[a].n \in Int
  <2>1. s.spool \in Seq(Records)
    BY StageIs
  <2>2. \A a \in DOMAIN s.spool : s.spool[a] \in Records
    BY <2>1
  <2>3. ASSUME NEW r \in Records PROVE r.n \in Int
    <3>1. PICK p \in Packets, x \in Int : r = [p EXCEPT !.extended = x]
      BY DEF Records
    <3> QED
      BY <3>1, RecordIs, PacketIs
  <2> QED
    BY <2>2, <2>3
<1>4. ASSUME NEW a \in DOMAIN s.spool, NEW b \in DOMAIN s.spool
      PROVE  LET p == s.spool[a]  q == s.spool[b]
             IN  /\ p.flow = s.key /\ p.epoch = q.epoch
                 /\ p.extended - q.extended = p.n - q.n
                 /\ a # b => p.n # q.n
  <2>1. PICK p, q : p = s.spool[a] /\ q = s.spool[b]
    OBVIOUS
  <2>2. /\ p.flow = s.key /\ p.epoch = e /\ p.extended = k + p.n /\ p.n \in Int
        /\ q.flow = s.key /\ q.epoch = e /\ q.extended = k + q.n /\ q.n \in Int
        /\ a # b => p.extended # q.extended
    BY <1>2, <1>3, <2>1 DEF Placed
  <2>3. p.extended - q.extended = p.n - q.n
    BY <2>2
  <2> QED
    BY <2>1, <2>2, <2>3
<1>5. \A x \in DOMAIN s.rtcp : s.rtcp[x].flow = s.key
  BY <1>1 DEF StageGood, Kept
<1> QED
  BY <1>1, <1>4, <1>5

LEMMA Nothing == Inv => NothingVanishes
<1> SUFFICES ASSUME Inv, NEW f \in Flows
             PROVE  /\ Accounted(f) <= fed[f]
                    /\ Accounted(f) < fed[f] =>
                          \/ capture.warnings \cap {"stream_limit", "rtcp_unparsed"} # {}
                          \/ \E i \in Stages(f) :
                                capture.states[i].warnings \cap {"unconfirmed", "isolated"} # {}
  BY DEF NothingVanishes
<1>1. Accounted(f) = Cardinality(Packed(capture, f))
  BY DEF Accounted, Stages, Packed
<1>2. /\ Accounted(f) <= fed[f]
      /\ Accounted(f) < fed[f] => Warned(capture, f)
  BY <1>1 DEF Inv, Balanced
<1> QED
  BY <1>2 DEF Warned, Stages

\* Whatever is lost, repeated, overtaken or restarted, in any number of flows:
\* what a stage keeps comes from one start of one sender and is numbered as it
\* was sent, and every captured packet is accounted for or a warning says that
\* some are not (new_stream, observe and payload of struct Capture).
THEOREM PacketsAccounted == SpecUdp => []PacketsAreAccounted
<1>1. Inv => PacketsAreAccounted
  BY Faithful, Nothing DEF PacketsAreAccounted
<1> QED
  BY <1>1, InvAlways, PTL

\* The spool of a stage is a beginning of what the stage counts: nothing is
\* stored behind a packet that the shared limit kept out, and a stage that lacks
\* one is marked truncated (the sample written by observe).
THEOREM SampleIsBeginning == SpecUdp => SampleIsPrefix
<1>1. Inv /\ [NextUdp]_vars => [SampleStep]_vars
  <2> SUFFICES ASSUME Inv, NextUdp
               PROVE  SampleStep
    OBVIOUS
  <2>1. Inv' /\ Goes(capture, capture')
    BY InvNext
  <2> SUFFICES ASSUME NEW i \in DOMAIN capture.states
               PROVE  LET s == capture.states[i]
                          t == capture'.states[i]
                      IN  /\ Len(t.spool) > Len(s.spool) =>
                                 Len(s.spool) = Cardinality(s.numbers)
                          /\ t.truncated <=> Len(t.spool) < Cardinality(t.numbers)
    BY DEF SampleStep
  <2>2. Later(capture.states[i], capture'.states[i])
    BY <2>1 DEF Goes
  <2>3. PICK t : t = capture'.states[i] /\ t \in Stage /\ StageGood(t)
    <3>1. Good(capture') /\ i \in DOMAIN capture'.states
      BY <2>1 DEF Inv, Goes
    <3> QED
      BY <3>1, CaptureIs DEF Good
  <2>4. Len(t.spool) \in Nat /\ Cardinality(t.numbers) \in Nat
    <3>1. t.spool \in Seq(Records)
      BY <2>3, StageIs
    <3> QED
      BY <2>3, <3>1, FS_CardinalityType DEF StageGood, Tallied
  <2>5. t.truncated <=> Len(t.spool) < Cardinality(t.numbers)
    BY <2>3, <2>4, StageIs DEF StageGood, Tallied
  <2> QED
    BY <2>2, <2>3, <2>5 DEF Later
<1> QED
  BY <1>1, InvAlways, PTL DEF SpecUdp, SampleIsPrefix
=============================================================================
