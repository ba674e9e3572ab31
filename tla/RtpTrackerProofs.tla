-------------------------- MODULE RtpTrackerProofs --------------------------
(***************************************************************************)
(* RtpTracker counts losses exactly and no packet twice, for every size of *)
(* the number space, of the bitmaps and of the window (Window >= Half).    *)
(*                                                                         *)
(* Neither property is inductive by itself: that a number which is not in  *)
(* `seen` was never accepted holds because extend_sequence stays within    *)
(* Half of the highest number (ExtendNear) and everything that near is     *)
(* still remembered (Remembered).                                          *)
(*                                                                         *)
(* The second part is about RtpDelivery: behind any sender and network the *)
(* tracker's report is true of the stream that was sent.                   *)
(***************************************************************************)
EXTENDS RtpDelivery, FiniteSetTheorems, WellFoundedInduction, TLAPS

\* Every accepted number inside the window is still in a bitmap.
Remembered == \A x \in accepted : x >= highest - Window => x \in seen

\* The first and the highest number bound what was accepted.
Bounded ==
    /\ first = None <=> highest = None
    /\ highest = None => accepted = {} /\ seen = {}
    /\ highest # None =>
         /\ SeqMod <= first /\ first <= highest
         /\ first \in accepted
         /\ \A x \in accepted : x <= highest

\* Nothing is lost before the first packet.
LostZero == highest = None => stats.lost_packets = 0

\* The inductive invariant behind LossIsExact and CountedOnce.
IInv ==
    /\ TypeOK
    /\ IsFiniteSet(accepted)
    /\ Bounded
    /\ Remembered
    /\ LostZero
    /\ LossIsExact
    /\ CountedOnce

-----------------------------------------------------------------------------
\* Shifting the start of a cycle by whole cycles leaves the low part alone.
LEMMA ModShift ==
    ASSUME NEW M \in Nat \ {0}, NEW h \in Nat, NEW k \in Int,
           NEW s \in 0..(M - 1)
    PROVE  (h - (h % M) + M * k + s) % M = s
<1>0. h \div M \in Int /\ h = M * (h \div M) + (h % M)
  OBVIOUS
<1>1. PICK q \in Int : h = M * q + (h % M)
  BY <1>0
<1>2. h - (h % M) = M * q
  BY <1>1
<1>3. M * q + M * k = M * (q + k)
  OBVIOUS
<1>4. \A c \in Int : (M * c + s) % M = s
  OBVIOUS
<1>5. q + k \in Int /\ (M * (q + k) + s) % M = s
  BY <1>4
<1>6. QED
  BY <1>2, <1>3, <1>5

\* The unwrapped number is a natural number congruent to the one on the wire
\* and at most Half away from the highest number.
LEMMA ExtendNear ==
    ASSUME NEW h \in Nat, h >= SeqMod, NEW s \in 0..(SeqMod - 1)
    PROVE  /\ ExtendFrom(h, s) \in Nat
           /\ h - Half <= ExtendFrom(h, s)
           /\ ExtendFrom(h, s) <= h + Half
           /\ ExtendFrom(h, s) % SeqMod = s
<1>0. SeqMod \in Nat \ {0} /\ Half \in Nat /\ SeqMod = 2 * Half
  BY TrackerAssumption DEF Half
<1>1. h % SeqMod \in 0..(SeqMod - 1)
  BY <1>0
<1>2. h - (h % SeqMod) >= SeqMod
  BY <1>0
<1>3. \A k \in Int : (h - (h % SeqMod) + SeqMod * k + s) % SeqMod = s
  BY <1>0, ModShift
<1>4. \E k \in {-1, 0, 1} :
        /\ ExtendFrom(h, s) = h - (h % SeqMod) + SeqMod * k + s
        /\ h - Half <= h - (h % SeqMod) + SeqMod * k + s
        /\ h - (h % SeqMod) + SeqMod * k + s <= h + Half
        /\ h - (h % SeqMod) + SeqMod * k + s >= 0
  <2> DEFINE r == h % SeqMod
  <2>0. h # None
    BY DEF None
  <2>a. ExtendFrom(h, s) =
          IF s < r /\ r - s > Half THEN h - r + SeqMod + s
          ELSE IF s > r /\ s - r > Half /\ h - r >= SeqMod
               THEN h - r - SeqMod + s
          ELSE h - r + s
    BY <2>0 DEF ExtendFrom
  <2>b. r \in 0..(SeqMod - 1) /\ h - r >= SeqMod
    BY <1>1, <1>2
  <2> HIDE DEF r
  <2>1. CASE s < r /\ r - s > Half
    <3>1. ExtendFrom(h, s) = h - r + SeqMod * 1 + s
      BY <2>a, <2>b, <2>1, <1>0
    <3>2. QED
      BY <3>1, <2>b, <2>1, <1>0 DEF r
  <2>2. CASE s > r /\ s - r > Half
    <3>1. ExtendFrom(h, s) = h - r + SeqMod * (-1) + s
      BY <2>a, <2>b, <2>2, <1>0
    <3>2. QED
      BY <3>1, <2>b, <2>2, <1>0 DEF r
  <2>3. CASE ~(s < r /\ r - s > Half) /\ ~(s > r /\ s - r > Half)
    <3>1. ExtendFrom(h, s) = h - r + SeqMod * 0 + s
      BY <2>a, <2>b, <2>3, <1>0
    <3>2. QED
      BY <3>1, <2>b, <2>3, <1>0 DEF r
  <2>4. QED
    BY <2>1, <2>2, <2>3
<1>5. PICK k \in {-1, 0, 1} :
        /\ ExtendFrom(h, s) = h - (h % SeqMod) + SeqMod * k + s
        /\ h - Half <= h - (h % SeqMod) + SeqMod * k + s
        /\ h - (h % SeqMod) + SeqMod * k + s <= h + Half
        /\ h - (h % SeqMod) + SeqMod * k + s >= 0
  BY <1>4
<1>6. ExtendFrom(h, s) \in Int
  BY <1>5, <1>0, <1>1
<1>7. ExtendFrom(h, s) % SeqMod = s
  BY <1>3, <1>5
<1>8. /\ ExtendFrom(h, s) >= 0
      /\ h - Half <= ExtendFrom(h, s)
      /\ ExtendFrom(h, s) <= h + Half
  BY <1>5
<1>9. QED
  BY <1>6, <1>7, <1>8

\* The first packet of a stream is unwrapped to SeqMod + its number.
LEMMA ExtendFirst ==
    ASSUME NEW s \in 0..(SeqMod - 1)
    PROVE  ExtendFrom(None, s) = SeqMod + s
BY DEF ExtendFrom

\* Forgetting bitmaps keeps every number inside the window.
LEMMA RetainedWindow ==
    ASSUME NEW S \in SUBSET Nat, NEW h \in Nat
    PROVE  /\ Retained(S, h) \subseteq S
           /\ \A x \in S : x >= h - Window => x \in Retained(S, h)
<1>0. Block \in Nat \ {0} /\ Window \in Nat
  BY TrackerAssumption
<1>1. ASSUME NEW x \in S, x >= h - Window
      PROVE  x \div Block >= SatSub(h, Window) \div Block
  <2>1. SatSub(h, Window) \in Nat /\ x >= SatSub(h, Window)
    BY <1>0, <1>1 DEF SatSub
  <2>2. QED
    BY <2>1, <1>0
<1>2. QED
  BY <1>1 DEF Retained

-----------------------------------------------------------------------------
\* What a packet is unwrapped to, in a state of the invariant: a number that
\* is a duplicate exactly when it was accepted before.
LEMMA FreshNumber ==
    ASSUME IInv, NEW p \in Packet
    PROVE  /\ extend_sequence(p.sequence) \in Nat
           /\ highest = None => extend_sequence(p.sequence) >= SeqMod
           /\ extend_sequence(p.sequence) \notin seen
                => extend_sequence(p.sequence) \notin accepted
<1> DEFINE e == extend_sequence(p.sequence)
<1>0. p.sequence \in 0..(SeqMod - 1) /\ SeqMod \in Nat /\ Window \in Nat
      /\ Half \in Nat /\ Window >= Half
  BY TrackerAssumption DEF Packet, Half
<1>1. CASE highest = None
  <2>1. e = SeqMod + p.sequence
    BY <1>0, <1>1, ExtendFirst DEF extend_sequence
  <2>2. QED
    BY <2>1, <1>0, <1>1 DEF IInv, Bounded
<1>2. CASE highest # None
  <2>1. highest \in Nat /\ highest >= SeqMod
    BY <1>2, <1>0 DEF IInv, TypeOK, Bounded
  <2>2. e \in Nat /\ highest - Half <= e
    BY <2>1, <1>0, ExtendNear DEF extend_sequence
  <2>3. e \in accepted => e \in seen
    BY <2>1, <2>2, <1>0 DEF IInv, Remembered
  <2>4. QED
    BY <2>2, <2>3, <1>2
<1>3. QED
  BY <1>1, <1>2

\* Adding one number to a finite set of naturals, as observe does.
LEMMA AcceptCount ==
    ASSUME NEW S, IsFiniteSet(S), NEW e, e \notin S
    PROVE  /\ IsFiniteSet(S \cup {e})
           /\ Cardinality(S \cup {e}) = Cardinality(S) + 1
           /\ Cardinality(S) \in Nat
BY FS_AddElement, FS_CardinalityType

\* A gap of the sequence space: the numbers between two naturals.
LEMMA GapCount ==
    ASSUME NEW a \in Nat, NEW b \in Nat, a <= b
    PROVE  /\ IsFiniteSet((a + 1)..(b - 1))
           /\ a < b => Cardinality((a + 1)..(b - 1)) = b - a - 1
BY FS_Interval

\* Skipping ahead from h to e opens exactly the gap between them.
LEMMA MissingForward ==
    ASSUME NEW f \in Nat, NEW h \in Nat, NEW e \in Nat, f <= h, h < e,
           NEW A \in SUBSET Nat, \A x \in A : x <= h
    PROVE  Cardinality((f..e) \ (A \cup {e}))
             = Cardinality((f..h) \ A) + (e - h - 1)
<1> DEFINE M == (f..h) \ A
           G == (h + 1)..(e - 1)
<1>1. (f..e) \ (A \cup {e}) = M \cup G
  OBVIOUS
<1>2. M \cap G = {}
  OBVIOUS
<1>3. IsFiniteSet(M)
  <2>1. IsFiniteSet(f..h)
    BY FS_Interval
  <2>2. QED
    BY <2>1, FS_Subset
<1>4. IsFiniteSet(G) /\ Cardinality(G) = e - h - 1
  BY GapCount
<1>5. Cardinality(M \cup G) = Cardinality(M) + Cardinality(G)
  <2>1. Cardinality(M \cap G) = 0
    BY <1>2, FS_EmptySet
  <2>2. Cardinality(M) \in Nat /\ Cardinality(G) \in Nat
    BY <1>3, <1>4, FS_CardinalityType
  <2>3. Cardinality(M \cup G)
          = Cardinality(M) + Cardinality(G) - Cardinality(M \cap G)
    BY <1>3, <1>4, FS_Union
  <2> HIDE DEF M, G
  <2>4. QED
    BY <2>1, <2>2, <2>3
<1>6. QED
  BY <1>1, <1>4, <1>5

\* A late packet at or above the first one fills exactly one gap; one below
\* the first fills none.
LEMMA MissingLate ==
    ASSUME NEW f \in Nat, NEW h \in Nat, NEW e \in Nat, f <= h, e <= h,
           NEW A \in SUBSET Nat, e \notin A
    PROVE  /\ e >= f => Cardinality((f..h) \ (A \cup {e}))
                          = Cardinality((f..h) \ A) - 1
           /\ e >= f => Cardinality((f..h) \ A) >= 1
           /\ e < f => (f..h) \ (A \cup {e}) = (f..h) \ A
           /\ Cardinality((f..h) \ A) \in Nat
<1> DEFINE M == (f..h) \ A
<1>1. IsFiniteSet(M) /\ Cardinality(M) \in Nat
  <2>1. IsFiniteSet(f..h)
    BY FS_Interval
  <2>2. QED
    BY <2>1, FS_Subset, FS_CardinalityType
<1>2. (f..h) \ (A \cup {e}) = M \ {e}
  OBVIOUS
<1>3. e < f => M \ {e} = M
  OBVIOUS
<1>4. ASSUME e >= f
      PROVE  Cardinality(M \ {e}) = Cardinality(M) - 1 /\ Cardinality(M) >= 1
  <2>1. e \in M
    BY <1>4
  <2>2. IsFiniteSet(M \ {e}) /\ Cardinality(M \ {e}) = Cardinality(M) - 1
    BY <2>1, <1>1, FS_RemoveElement
  <2>3. Cardinality(M \ {e}) \in Nat
    BY <2>2, FS_CardinalityType
  <2>4. QED
    BY <2>2, <2>3, <1>1
<1>5. QED
  BY <1>1, <1>2, <1>3, <1>4

-----------------------------------------------------------------------------
\* Types: every counter stays a natural number (no subtraction underflows).
LEMMA TypeStep ==
    ASSUME IInv, NEW p \in Packet, ObserveNew(p)
    PROVE  TypeOK'
<1> DEFINE e == extend_sequence(p.sequence)
<1>0. e \in Nat
  BY FreshNumber
<1>1. first' \in Nat \cup {None} /\ highest' \in Nat \cup {None}
  BY <1>0 DEF ObserveNew, IInv, TypeOK
<1>2. seen' \subseteq Nat /\ accepted' \subseteq Nat
  BY <1>0 DEF ObserveNew, IInv, TypeOK, Retained
<1>3. last_ts' \in Nat \cup {None}
  BY TrackerAssumption DEF ObserveNew, IInv, TypeOK, Packet
<1>4. rate' \in [start : Nat, bucket : Nat, bytes : Nat, peak : Nat]
  <2>1. Bucket(p) \in Nat
    <3>1. SatSub(p.arrival, IF first = None THEN p.arrival ELSE rate.start)
            \in Nat
      BY DEF SatSub, Packet, IInv, TypeOK
    <3>2. QED
      BY <3>1, TrackerAssumption DEF Bucket
  <2>2. rate' = Metered(p)
    BY DEF ObserveNew
  <2>3. QED
    BY <2>1, <2>2 DEF Metered, Max2, Packet, IInv, TypeOK
<1>5. stats' \in Stats
  <2>1. ASSUME highest = None \/ e > highest
        PROVE  Advance(e) \in Stats
    <3>1. (IF highest = None THEN 0 ELSE e - highest - 1) \in Nat
      BY <1>0, <2>1 DEF IInv, TypeOK
    <3> DEFINE gap == IF highest = None THEN 0 ELSE e - highest - 1
               pc == stats.packet_count + 1
               lp == stats.lost_packets + gap
               mg == Max2(stats.maximum_sequence_gap, gap)
               sw == IF highest # None /\ e \div SeqMod > highest \div SeqMod
                     THEN stats.sequence_wraps + 1 ELSE stats.sequence_wraps
    <3>2. stats \in Stats /\ pc \in Nat /\ lp \in Nat /\ mg \in Nat /\ sw \in Nat
      BY <3>1 DEF Max2, IInv, TypeOK, Stats
    <3>3. Advance(e) = [stats EXCEPT !.packet_count = pc, !.lost_packets = lp,
                                     !.maximum_sequence_gap = mg,
                                     !.sequence_wraps = sw]
      BY <3>2 DEF Advance, Stats
    <3> HIDE DEF gap, pc, lp, mg, sw
    <3>4. QED
      BY <3>2, <3>3 DEF Stats
  <2>2. Late(e) \in Stats
    <3> DEFINE v == IF e >= first THEN SatSub(stats.lost_packets, 1)
                                  ELSE stats.lost_packets
               pc == stats.packet_count + 1
               oo == stats.out_of_order_packets + 1
    <3>1. stats \in Stats /\ v \in Nat /\ pc \in Nat /\ oo \in Nat
      BY DEF SatSub, IInv, TypeOK, Stats
    <3>2. Late(e) =
            [stats EXCEPT !.packet_count = pc, !.out_of_order_packets = oo,
                          !.lost_packets = v]
      BY <3>1 DEF Late, Stats
    <3> HIDE DEF v, pc, oo
    <3>3. QED
      BY <3>1, <3>2 DEF Stats
  <2>3. ASSUME NEW s \in Stats
        PROVE  Identified(s, p) \in Stats
    <3> DEFINE a == IF s.ssrc # None /\ s.ssrc # p.ssrc
                    THEN s.ssrc_changes + 1 ELSE s.ssrc_changes
               b == IF s.payload_type # None /\ s.payload_type # p.payload_type
                    THEN s.payload_type_changes + 1 ELSE s.payload_type_changes
    <3>1. a \in Nat /\ b \in Nat /\ p.ssrc \in Nat /\ p.payload_type \in Nat
      BY DEF Stats, Packet
    <3>2. Identified(s, p) =
            [s EXCEPT !.ssrc_changes = a, !.payload_type_changes = b,
                      !.ssrc = p.ssrc, !.payload_type = p.payload_type]
      BY <3>1 DEF Identified, Stats
    <3> DEFINE t == [s EXCEPT !.ssrc_changes = a, !.payload_type_changes = b]
    <3> HIDE DEF a, b
    <3>3. t \in Stats
      BY <3>1 DEF Stats
    <3>4. [s EXCEPT !.ssrc_changes = a, !.payload_type_changes = b,
                    !.ssrc = p.ssrc, !.payload_type = p.payload_type]
            = [t EXCEPT !.ssrc = p.ssrc, !.payload_type = p.payload_type]
      BY <3>1 DEF Stats
    <3> HIDE DEF t
    <3>5. [t EXCEPT !.ssrc = p.ssrc, !.payload_type = p.payload_type] \in Stats
      BY <3>1, <3>3 DEF Stats
    <3>6. QED
      BY <3>2, <3>4, <3>5
  <2>4. QED
    BY <2>1, <2>2, <2>3 DEF ObserveNew, Stats
<1>6. QED
  BY <1>1, <1>2, <1>3, <1>4, <1>5 DEF TypeOK

\* A new packet preserves the invariant.
LEMMA NewStep ==
    ASSUME IInv, NEW p \in Packet, ObserveNew(p)
    PROVE  IInv'
<1> DEFINE e == extend_sequence(p.sequence)
           adv == highest = None \/ e > highest
<1>0. /\ SeqMod \in Nat \ {0} /\ Window \in Nat
      /\ e \in Nat /\ e \notin accepted
      /\ highest = None => e >= SeqMod
  BY FreshNumber, TrackerAssumption DEF ObserveNew
<1>1. TypeOK'
  BY TypeStep
<1>2. /\ first' = IF first = None THEN e ELSE first
      /\ highest' = IF adv THEN e ELSE highest
      /\ accepted' = accepted \cup {e}
      /\ seen' = Retained(seen \cup {e}, highest')
  BY DEF ObserveNew
<1>3. /\ stats'.packet_count = stats.packet_count + 1
      /\ stats'.lost_packets =
           IF adv THEN Advance(e).lost_packets ELSE Late(e).lost_packets
  BY DEF ObserveNew, Identified, Advance, Late, IInv, TypeOK, Stats
<1> HIDE DEF e
<1>4. IsFiniteSet(accepted)'
  BY <1>0, <1>2, AcceptCount DEF IInv
<1>5. Bounded'
  BY <1>0, <1>2 DEF IInv, TypeOK, Bounded, None
<1>6. Remembered'
  <2>1. PICK hp \in Nat : hp = highest'
    BY <1>0, <1>2 DEF IInv, TypeOK
  <2>2. highest # None => highest \in Nat /\ hp >= highest
    BY <2>1, <1>0, <1>2 DEF IInv, TypeOK
  <2>3. \A x \in seen \cup {e} : x >= hp - Window => x \in seen'
    BY <1>0, <1>2, <2>1, RetainedWindow DEF IInv, TypeOK
  <2>4. \A x \in accepted : x >= hp - Window => x \in seen \cup {e}
    <3>1. CASE highest = None
      BY <3>1 DEF IInv, Bounded
    <3>2. CASE highest # None
      BY <3>2, <2>2, <1>0 DEF IInv, TypeOK, Remembered
    <3>3. QED
      BY <3>1, <3>2
  <2>5. \A x \in accepted' : x >= hp - Window => x \in seen'
    BY <2>3, <2>4, <1>2
  <2>6. QED
    BY <2>1, <2>5 DEF Remembered
<1>7. CountedOnce'
  BY <1>0, <1>2, <1>3, AcceptCount DEF IInv, CountedOnce
<1>8. LossIsExact'
  <2>1. CASE highest = None
    <3>1. first' = e /\ highest' = e /\ accepted' = {e}
      BY <2>1, <1>2 DEF IInv, Bounded
    <3>2. Missing' = {}
      BY <3>1, <1>0 DEF Missing
    <3>3. stats'.lost_packets = stats.lost_packets
      BY <2>1, <1>3 DEF Advance, IInv, TypeOK, Stats
    <3>4. stats.lost_packets = 0
      BY <2>1 DEF IInv, LostZero
    <3>5. QED
      BY <3>2, <3>3, <3>4, FS_EmptySet DEF LossIsExact
  <2>2. CASE highest # None /\ e > highest
    <3>1. first' = first /\ highest' = e
      BY <2>2, <1>2 DEF IInv, Bounded
    <3>2. stats'.lost_packets = stats.lost_packets + (e - highest - 1)
      BY <2>2, <1>3 DEF Advance, IInv, TypeOK, Stats
    <3>3. Cardinality(Missing') = Cardinality(Missing) + (e - highest - 1)
      <4>1. /\ first \in Nat /\ highest \in Nat /\ first <= highest
            /\ accepted \in SUBSET Nat /\ \A x \in accepted : x <= highest
        BY <2>2 DEF IInv, TypeOK, Bounded
      <4>2. Missing' = (first..e) \ (accepted \cup {e})
        BY <3>1, <1>2 DEF Missing
      <4>3. Cardinality((first..e) \ (accepted \cup {e}))
              = Cardinality((first..highest) \ accepted) + (e - highest - 1)
        <5>1. highest < e
          BY <4>1, <2>2, <1>0
        <5>2. e \in Nat
          BY <1>0
        <5>3. QED
          BY <4>1, <5>1, <5>2, MissingForward, ZenonT(40)
      <4>4. QED
        BY <4>2, <4>3 DEF Missing
    <3>4. QED
      BY <3>2, <3>3, <2>2 DEF IInv, LossIsExact
  <2>3. CASE highest # None /\ ~(e > highest)
    <3>1. first' = first /\ highest' = highest
      BY <2>3, <1>2 DEF IInv, Bounded
    <3>2. stats'.lost_packets =
            IF e >= first THEN SatSub(stats.lost_packets, 1)
                          ELSE stats.lost_packets
      BY <2>3, <1>3 DEF Late, IInv, TypeOK, Stats
    <3>3. /\ e >= first => /\ Cardinality(Missing') = Cardinality(Missing) - 1
                           /\ Cardinality(Missing) >= 1
          /\ e < first => Missing' = Missing
          /\ Cardinality(Missing) \in Nat
      <4>1. /\ first \in Nat /\ highest \in Nat /\ first <= highest
            /\ accepted \in SUBSET Nat
        BY <2>3 DEF IInv, TypeOK, Bounded
      <4>2. Missing' = (first..highest) \ (accepted \cup {e})
        BY <3>1, <1>2 DEF Missing
      <4>3. e <= highest
        BY <4>1, <2>3, <1>0
      <4>4. e \in Nat /\ e \notin accepted
        BY <1>0
      <4>5. /\ e >= first => Cardinality((first..highest) \ (accepted \cup {e}))
                               = Cardinality((first..highest) \ accepted) - 1
            /\ e >= first => Cardinality((first..highest) \ accepted) >= 1
            /\ e < first => (first..highest) \ (accepted \cup {e})
                              = (first..highest) \ accepted
            /\ Cardinality((first..highest) \ accepted) \in Nat
        BY <4>1, <4>3, <4>4, MissingLate, Zenon
      <4>6. QED
        BY <4>2, <4>5 DEF Missing
    <3>4. stats.lost_packets = Cardinality(Missing)
      BY <2>3 DEF IInv, LossIsExact
    <3>5. first \in Nat
      BY <2>3 DEF IInv, TypeOK, Bounded
    <3>6. QED
      BY <3>2, <3>3, <3>4, <3>5, <1>0 DEF LossIsExact, SatSub
  <2>4. QED
    BY <2>1, <2>2, <2>3
<1>9. LostZero'
  BY <1>0, <1>2 DEF LostZero, None
<1>10. QED
  BY <1>1, <1>4, <1>5, <1>6, <1>7, <1>8, <1>9 DEF IInv

\* A duplicate changes its own counter only.
LEMMA DuplicateStep ==
    ASSUME IInv, NEW p \in Packet, ObserveDuplicate(p)
    PROVE  IInv'
<1>1. TypeOK'
  BY DEF ObserveDuplicate, IInv, TypeOK, Stats
<1>2. /\ stats'.packet_count = stats.packet_count
      /\ stats'.lost_packets = stats.lost_packets
      /\ UNCHANGED <<first, highest, seen, accepted>>
  BY DEF ObserveDuplicate, IInv, TypeOK, Stats
<1>3. QED
  BY <1>1, <1>2
  DEF IInv, Bounded, Remembered, LossIsExact, CountedOnce, Missing, LostZero

\* The invariant behind the loss accounting of RtpTracker::observe holds in
\* every reachable state.
THEOREM TrackerInvariant == Spec => []IInv
<1>1. Init => IInv
  BY FS_EmptySet
  DEF Init, IInv, TypeOK, Stats, Bounded, Remembered, LossIsExact,
      CountedOnce, LostZero, None
<1>2. IInv /\ [Next]_vars => IInv'
  <2> SUFFICES ASSUME IInv, [Next]_vars
               PROVE  IInv'
    OBVIOUS
  <2>1. ASSUME NEW p \in Packets, observe(p)
        PROVE  IInv'
    BY <2>1, NewStep, DuplicateStep, TrackerAssumption DEF observe
  <2>2. CASE UNCHANGED vars
    BY <2>2 DEF vars, IInv, TypeOK, Bounded, Remembered, LossIsExact,
                CountedOnce, Missing, LostZero
  <2>3. QED
    BY <2>1, <2>2 DEF Next
<1>3. QED
  BY <1>1, <1>2, PTL DEF Spec

\* RtpTracker is type correct; no counter or unwrapped number underflows.
THEOREM TrackerTypeOK == Spec => []TypeOK
<1>1. IInv => TypeOK
  BY DEF IInv
<1>2. QED
  BY <1>1, TrackerInvariant, PTL

\* lost_packets is exact after every packet, in whatever order they arrive.
THEOREM TrackerLossIsExact == Spec => []LossIsExact
<1>1. IInv => LossIsExact
  BY DEF IInv
<1>2. QED
  BY <1>1, TrackerInvariant, PTL

\* Although old bitmaps are forgotten, no packet is ever counted twice.
THEOREM TrackerCountedOnce == Spec => []CountedOnce
<1>1. IInv => CountedOnce
  BY DEF IInv
<1>2. QED
  BY <1>1, TrackerInvariant, PTL
-----------------------------------------------------------------------------
(* RtpDelivery: what the tracker reports is true of the sender's stream.    *)
(* The number of a packet is the sender's, shifted: both are congruent to   *)
(* the number on the wire, and both are less than half the space away from  *)
(* the highest (Aligned, CloseNumbers).                                     *)

\* What the sender stamps its packet n with.
Stamp(n) == (TsBase + TsStep * FrameOf[n]) % TsMod

\* Both sides have seen their first packet, or neither has.
NetTypes ==
    /\ base \in 0..(SeqMod - 1) /\ clock \in Nat
    /\ delivered \subseteq 0..MaxIndex
    /\ newest = None => highest = None /\ begin = None /\ delivered = {}
    /\ newest # None => /\ highest # None /\ newest \in 0..MaxIndex /\ begin \in 0..MaxIndex

\* The highest number is that of the sender's newest packet, up to whole cycles.
Aligned == newest # None => highest % SeqMod = (base + newest) % SeqMod

\* The last timestamp is the newest packet's, and none went back.
Stamped ==
    /\ last_ts = IF newest = None THEN None ELSE Stamp(newest)
    /\ NoFalseRollback

\* The bucket is the last second in which a packet was accepted.
Metering ==
    /\ perSecond \in [DOMAIN perSecond -> Nat]
    /\ \A b \in DOMAIN perSecond : b \in 0..rate.bucket
    /\ first = None => DOMAIN perSecond = {} /\ rate.bucket = 0 /\ rate.bytes = 0 /\ rate.peak = 0
    /\ first # None =>
          /\ rate.start <= clock /\ rate.bucket <= (clock - rate.start) \div Second
          /\ rate.bucket \in DOMAIN perSecond /\ rate.bytes = perSecond[rate.bucket]
    /\ PeakIsBusiestSecond

\* The inductive invariant behind StreamIsFaithful.
DeliveryInv ==
    /\ IInv /\ seen \subseteq accepted
    /\ NetTypes /\ Aligned /\ UnwrapIsFaithful /\ Stamped /\ Metering

-----------------------------------------------------------------------------
\* Numbers that are congruent stay so when both are shifted, ...
LEMMA CongruentShift ==
    ASSUME NEW M \in Nat \ {0}, NEW x \in Int, NEW y \in Int, NEW k \in Int, x % M = y % M
    PROVE  (x + k) % M = (y + k) % M
<1>0. \A z \in Int : z \div M \in Int /\ z = M * (z \div M) + (z % M) /\ z % M \in 0..(M - 1)
  OBVIOUS
<1>1. PICK qx \in Int : x = M * qx + (x % M)
  BY <1>0
<1>2. PICK qy \in Int : y = M * qy + (y % M)
  BY <1>0
<1> DEFINE r == x % M
<1>3. r \in Int /\ x = M * qx + r /\ y = M * qy + r
  BY <1>0, <1>1, <1>2
<1> HIDE DEF r
<1>a. \A z \in Int : \E t \in Int, s \in 0..(M - 1) : z = M * t + s
  BY <1>0
<1>b. r + k \in Int
  BY <1>3
<1>4. PICK t \in Int, s \in 0..(M - 1) : r + k = M * t + s
  BY <1>a, <1>b
<1>5. \A c \in Int : (M * c + s) % M = s
  OBVIOUS
<1>6. \A q \in Int : M * q + M * t = M * (q + t) /\ q + t \in Int
  OBVIOUS
<1>7. x + k = M * (qx + t) + s /\ y + k = M * (qy + t) + s
  BY <1>3, <1>4, <1>6
<1> QED BY <1>5, <1>6, <1>7

\* ... and two of them are equal that are less than a cycle apart.
LEMMA CloseNumbers ==
    ASSUME NEW M \in Nat \ {0}, NEW x \in Int, NEW y \in Int, x % M = y % M,
           x - y < M, y - x < M
    PROVE  x = y
<1>0. \A z \in Int : z \div M \in Int /\ z = M * (z \div M) + (z % M) /\ z % M \in 0..(M - 1)
  OBVIOUS
<1>1. PICK qx \in Int : x = M * qx + (x % M)
  BY <1>0
<1>2. PICK qy \in Int : y = M * qy + (y % M)
  BY <1>0
<1> DEFINE d == qx - qy
<1>3. d \in Int /\ M * qx - M * qy = M * d
  OBVIOUS
<1>4. x - y = M * d
  BY <1>0, <1>1, <1>2, <1>3
<1> HIDE DEF d
<1>5. \A c \in Int : c >= 1 => M * c >= M
  OBVIOUS
<1>6. \A c \in Int : c <= -1 => M * c <= -M
  OBVIOUS
<1>7. d = 0
  BY <1>3, <1>4, <1>5, <1>6
<1> QED BY <1>4, <1>7

\* A clock that moves on by less than half its space is not seen to go back.
LEMMA NoRollback ==
    ASSUME NEW H \in Nat \ {0}, NEW x \in Nat, NEW d \in Nat, d < H
    PROVE  ~((x + d) % (2 * H) < x % (2 * H) /\ (x % (2 * H)) - ((x + d) % (2 * H)) < H)
<1> DEFINE M == 2 * H
<1>0. M \in Nat \ {0}
  OBVIOUS
<1> HIDE DEF M
<1>1. \A z \in Int : z \div M \in Int /\ z = M * (z \div M) + (z % M) /\ z % M \in 0..(M - 1)
  BY <1>0
<1> DEFINE r == x % M
<1>2. PICK q \in Int : x = M * q + r
  BY <1>1
<1>3. r \in 0..(M - 1)
  BY <1>1
<1> HIDE DEF r
<1>4. \A c \in Int : \A s \in 0..(M - 1) : (M * c + s) % M = s
  BY <1>0
<1>5. CASE r + d < M
  <2>1. (x + d) % M = r + d
    <3>1. x + d = M * q + (r + d) /\ r + d \in 0..(M - 1)
      BY <1>0, <1>2, <1>3, <1>5
    <3> QED BY <1>4, <3>1
  <2> QED BY <1>0, <1>3, <2>1 DEF M, r
<1>6. CASE ~(r + d < M)
  <2>1. (x + d) % M = r + d - M
    <3>1. M * (q + 1) = M * q + M
      BY <1>0
    <3>2. x + d = M * (q + 1) + (r + d - M) /\ r + d - M \in 0..(M - 1) /\ q + 1 \in Int
      BY <1>0, <1>2, <1>3, <1>6, <3>1 DEF M
    <3> QED BY <1>4, <3>2
  <2> QED BY <1>0, <1>3, <1>6, <2>1 DEF M, r
<1> QED BY <1>5, <1>6

\* A set of numbers that is not empty has a least one.
LEMMA Least ==
    ASSUME NEW T \in SUBSET Nat, T # {}
    PROVE  \E n \in T : \A m \in T : n <= m
<1> DEFINE intervals == {0..n : n \in T}
           smaller == StrictSubsetOrdering(Nat)
<1>1. intervals # {}
  OBVIOUS
<1>2. intervals \subseteq FiniteSubsetsOf(Nat)
  <2> SUFFICES ASSUME NEW n \in T PROVE 0..n \in FiniteSubsetsOf(Nat)
    OBVIOUS
  <2>1. IsFiniteSet(0..n) /\ 0..n \in SUBSET Nat
    BY FS_Interval
  <2> QED BY <2>1 DEF FiniteSubsetsOf
<1>3. PICK x \in intervals : \A y \in intervals : <<y, x>> \notin smaller
  <2>1. IsWellFoundedOn(smaller, FiniteSubsetsOf(Nat))
    BY FS_StrictSubsetOrderingWellFounded
  <2> HIDE DEF intervals, smaller
  <2> QED BY <1>1, <1>2, <2>1, WFMin
<1>4. PICK n \in T : x = 0..n
  OBVIOUS
<1>5. ASSUME NEW m \in T, m < n PROVE FALSE
  <2>1. <<0..m, 0..n>> \notin smaller
    BY <1>3, <1>4
  <2>2. 0..m \subseteq 0..n /\ n \in 0..n /\ n \notin 0..m
    BY <1>5
  <2> QED BY <2>1, <2>2 DEF StrictSubsetOrdering
<1> QED BY <1>4, <1>5

\* Of two packets of the sender, the later belongs to a frame at most as many
\* frames later.
LEMMA FramesAdvance ==
    ASSUME NEW m \in 0..MaxIndex, NEW n \in m..MaxIndex
    PROVE  FrameOf[n] - FrameOf[m] \in 0..(n - m)
<1>0. /\ MaxIndex \in Nat /\ FrameOf \in [0..MaxIndex -> Nat]
      /\ \A i \in 1..MaxIndex : FrameOf[i] - FrameOf[i - 1] \in {0, 1}
  BY DeliveryAssumption
<1> DEFINE Bad == {i \in Nat : i \in m..MaxIndex /\ FrameOf[i] - FrameOf[m] \notin 0..(i - m)}
<1>1. SUFFICES ASSUME Bad # {} PROVE FALSE
  <2>1. n \in Nat /\ m \in Nat
    BY <1>0
  <2> QED BY <2>1
<1>2. PICK i \in Bad : \A j \in Bad : i <= j
  <2>1. Bad \in SUBSET Nat
    OBVIOUS
  <2> HIDE DEF Bad
  <2> QED BY <1>1, <2>1, Least
<1>3. i # m
  BY <1>0, <1>2
<1>4. i - 1 \in m..MaxIndex /\ i - 1 \in Nat /\ i \in 1..MaxIndex /\ i - 1 \notin Bad
  BY <1>0, <1>2, <1>3
<1>5. FrameOf[i - 1] - FrameOf[m] \in 0..(i - 1 - m)
  BY <1>4
<1>6. FrameOf[i] - FrameOf[i - 1] \in {0, 1} /\ FrameOf[i] \in Nat /\ FrameOf[i - 1] \in Nat
      /\ FrameOf[m] \in Nat
  <2>1. i \in 0..MaxIndex /\ i - 1 \in 0..MaxIndex
    BY <1>0, <1>4
  <2> QED BY <1>0, <1>4, <2>1
<1>7. FrameOf[i] - FrameOf[m] \in 0..(i - m)
  <2> DEFINE c == FrameOf[i]
             b == FrameOf[i - 1]
             a == FrameOf[m]
  <2>1. c \in Nat /\ b \in Nat /\ a \in Nat /\ c - b \in {0, 1} /\ b - a \in 0..(i - 1 - m)
    BY <1>5, <1>6
  <2>2. i \in Nat /\ m \in Nat
    BY <1>0
  <2> HIDE DEF c, b, a, Bad
  <2>3. c - a \in 0..(i - m)
    BY <2>1, <2>2
  <2> QED BY <2>3 DEF c, a
<1> QED BY <1>2, <1>7

\* A later packet that the network may deliver next is not stamped earlier.
LEMMA StampsAdvance ==
    ASSUME NEW m \in 0..MaxIndex, NEW n \in 0..MaxIndex, m <= n, n <= m + MaxReorder
    PROVE  ~(Stamp(n) < Stamp(m) /\ Stamp(m) - Stamp(n) < TsHalf)
<1>0. /\ MaxIndex \in Nat /\ FrameOf \in [0..MaxIndex -> Nat] /\ MaxReorder \in Nat
      /\ TsBase \in Nat /\ TsStep \in Nat /\ MaxReorder * TsStep < TsHalf
  BY DeliveryAssumption
<1>1. TsMod \in Nat \ {0} /\ TsMod = 2 * TsHalf /\ TsHalf \in Nat \ {0}
  BY TrackerAssumption DEF TsHalf
<1> DEFINE f == FrameOf[n] - FrameOf[m]
           x == TsBase + TsStep * FrameOf[m]
           d == TsStep * f
<1>2. f \in 0..MaxReorder /\ FrameOf[n] \in Nat /\ FrameOf[m] \in Nat
  <2>1. n \in m..MaxIndex
    BY <1>0
  <2>2. f \in 0..(n - m)
    BY <2>1, FramesAdvance
  <2>3. FrameOf[n] \in Nat /\ FrameOf[m] \in Nat
    BY <1>0
  <2> QED BY <1>0, <2>1, <2>2, <2>3
<1>3. TsBase + TsStep * FrameOf[n] = x + d /\ x \in Nat
  <2>1. \A u, v \in Nat : TsStep * v = TsStep * u + TsStep * (v - u) /\ TsStep * u \in Nat
    BY <1>0
  <2>2. TsStep * FrameOf[n] = TsStep * FrameOf[m] + d /\ TsStep * FrameOf[m] \in Nat
    BY <1>2, <2>1
  <2>3. d \in Nat
    BY <1>0, <1>2
  <2> DEFINE a == TsStep * FrameOf[m]
             b == TsStep * FrameOf[n]
  <2>4. b = a + d /\ a \in Nat /\ x = TsBase + a
    BY <2>2
  <2> HIDE DEF a, b, d, x
  <2>5. TsBase + b = x + d /\ x \in Nat
    BY <1>0, <2>3, <2>4
  <2> QED BY <2>5 DEF b
<1>4. d \in Nat /\ d < TsHalf
  <2> HIDE DEF f
  <2>1. d \in Nat /\ d <= MaxReorder * TsStep
    BY <1>0, <1>2
  <2> QED BY <2>1, <1>0, <1>1
<1> HIDE DEF x, d
<1>5. ~((x + d) % (2 * TsHalf) < x % (2 * TsHalf) /\ (x % (2 * TsHalf)) - ((x + d) % (2 * TsHalf)) < TsHalf)
  BY <1>1, <1>3, <1>4, NoRollback
<1> QED BY <1>1, <1>3, <1>5 DEF Stamp, x
-----------------------------------------------------------------------------
\* Nothing was sent or seen at first.
LEMMA DeliveryStart == InitD => DeliveryInv
<1> SUFFICES ASSUME InitD PROVE DeliveryInv
  OBVIOUS
<1>1. IInv
  BY FS_EmptySet
  DEF InitD, Init, IInv, TypeOK, Stats, Bounded, Remembered, LossIsExact,
      CountedOnce, LostZero, None
<1>2. NetTypes
  BY DeliveryAssumption DEF InitD, Init, NetTypes
<1>3. seen \subseteq accepted /\ Aligned /\ UnwrapIsFaithful /\ Stamped
  BY DEF InitD, Init, Aligned, UnwrapIsFaithful, Stamped, NoFalseRollback
<1>4. Metering
  BY DEF InitD, Init, Metering, PeakIsBusiestSecond
<1> QED BY <1>1, <1>2, <1>3, <1>4 DEF DeliveryInv

\* What the sender puts on the wire is a packet, and what it says.
LEMMA WirePacket ==
    ASSUME NetTypes, NEW n \in 0..MaxIndex, NEW size \in Sizes
    PROVE  /\ Wire(n, size) \in Packet
           /\ Wire(n, size).sequence = (base + n) % SeqMod
           /\ Wire(n, size).timestamp = Stamp(n)
           /\ Wire(n, size).arrival = clock /\ Wire(n, size).size = size
<1>1. (base + n) % SeqMod \in 0..(SeqMod - 1)
  BY TrackerAssumption DEF NetTypes
<1>2. Stamp(n) \in 0..(TsMod - 1)
  <2>1. TsBase + TsStep * FrameOf[n] \in Nat
    <3>1. FrameOf[n] \in Nat /\ TsBase \in Nat /\ TsStep \in Nat
      BY DeliveryAssumption
    <3> QED BY <3>1
  <2> QED BY <2>1, TrackerAssumption DEF Stamp
<1>3. size \in Nat /\ clock \in Nat
  BY DeliveryAssumption DEF NetTypes
<1> QED BY <1>1, <1>2, <1>3 DEF Wire, Packet, Stamp

\* The tracker gives the packet n the number that its distance from the
\* newest one gives it.
LEMMA NumberIsFaithful ==
    ASSUME DeliveryInv, NEW n \in 0..MaxIndex, newest # None,
           newest - MaxReorder <= n, n <= newest + MaxReorder
    PROVE  extend_sequence((base + n) % SeqMod) = highest + (n - newest)
<1> DEFINE s == (base + n) % SeqMod
           e == ExtendFrom(highest, s)
           t == highest + (n - newest)
<1>0. /\ SeqMod \in Nat \ {0} /\ Half \in Nat /\ SeqMod = 2 * Half
      /\ MaxReorder \in Nat /\ MaxReorder < Half /\ MaxIndex \in Nat
  BY TrackerAssumption, DeliveryAssumption DEF Half
<1>1. /\ highest \in Nat /\ highest >= SeqMod /\ base \in Nat /\ newest \in Nat
      /\ highest % SeqMod = (base + newest) % SeqMod
  BY <1>0 DEF DeliveryInv, IInv, TypeOK, Bounded, NetTypes, Aligned
<1>2. s \in 0..(SeqMod - 1) /\ n \in Nat
  BY <1>0, <1>1
<1>3. e \in Nat /\ highest - Half <= e /\ e <= highest + Half /\ e % SeqMod = s
  BY <1>1, <1>2, ExtendNear
<1>4. t % SeqMod = s
  <2>1. (highest + (n - newest)) % SeqMod = (base + newest + (n - newest)) % SeqMod
    <3> DEFINE y == base + newest
               k == n - newest
    <3>1. highest \in Int /\ y \in Int /\ k \in Int /\ highest % SeqMod = y % SeqMod
      BY <1>1, <1>2
    <3> HIDE DEF y, k
    <3>2. (highest + k) % SeqMod = (y + k) % SeqMod
      BY <1>0, <3>1, CongruentShift
    <3> QED BY <3>2 DEF y, k
  <2>2. base + newest + (n - newest) = base + n
    BY <1>1, <1>2
  <2> QED BY <2>1, <2>2
<1> HIDE DEF s, e
<1>5. t \in Int /\ e - t < SeqMod /\ t - e < SeqMod
  BY <1>0, <1>1, <1>2, <1>3
<1> HIDE DEF t
<1>6. e = t
  <2>1. e \in Int /\ e % SeqMod = t % SeqMod
    BY <1>3, <1>4
  <2> QED BY <1>0, <1>5, <2>1, CloseNumbers
<1> QED BY <1>6 DEF s, e, t, extend_sequence

\* The meter: a packet of a later second opens a bucket of its own.
LEMMA MeterStep ==
    ASSUME IInv, NetTypes, Metering, NEW p \in Packet, p.arrival = clock,
           ObserveNew(p), UNCHANGED clock
    PROVE  Metering'
<1> DEFINE b == Bucket(p)
           bytes == (IF b = rate.bucket THEN rate.bytes ELSE 0) + p.size
<1>0. /\ Second \in Nat \ {0} /\ clock \in Nat /\ p.size \in Nat
      /\ rate \in [start : Nat, bucket : Nat, bytes : Nat, peak : Nat]
      /\ first \in Nat \cup {None}
  BY TrackerAssumption DEF IInv, TypeOK, NetTypes, Packet
<1>1. /\ rate'.start = IF first = None THEN clock ELSE rate.start
      /\ rate'.bucket = b /\ rate'.bytes = bytes /\ rate'.peak = Max2(rate.peak, bytes)
      /\ perSecond' = [x \in DOMAIN perSecond \cup {b} |->
                          (IF x \in DOMAIN perSecond THEN perSecond[x] ELSE 0)
                          + (IF x = b THEN p.size ELSE 0)]
      /\ first' # None
  <2>1. first' # None
    BY <1>0, FreshNumber DEF ObserveNew, None
  <2>2. rate' = Metered(p)
    BY DEF ObserveNew
  <2>3. /\ Metered(p).start = IF first = None THEN clock ELSE rate.start
        /\ Metered(p).bucket = b /\ Metered(p).bytes = bytes
        /\ Metered(p).peak = Max2(rate.peak, bytes)
    BY DEF Metered
  <2> QED BY <2>1, <2>2, <2>3 DEF ObserveNew
<1>2. /\ b \in Nat /\ rate.bucket <= b
      /\ first = None => b = 0
      /\ b = (clock - rate'.start) \div Second /\ rate'.start <= clock
  <2>1. CASE first = None
    <3>1. b = 0 \div Second /\ clock - rate'.start = 0
      BY <1>0, <1>1, <2>1 DEF Bucket, SatSub
    <3>2. 0 \div Second = 0
      BY <1>0
    <3> QED BY <1>0, <1>1, <2>1, <3>1, <3>2 DEF Metering
  <2>2. CASE first # None
    <3>1. rate.start <= clock /\ rate.bucket <= (clock - rate.start) \div Second
      BY <2>2 DEF Metering
    <3>2. b = (clock - rate.start) \div Second
      BY <1>0, <2>2, <3>1 DEF Bucket, SatSub
    <3> QED BY <1>0, <1>1, <2>2, <3>1, <3>2
  <2> QED BY <2>1, <2>2
<1> HIDE DEF b
<1>3. /\ perSecond \in [DOMAIN perSecond -> Nat]
      /\ \A x \in DOMAIN perSecond : perSecond[x] \in Nat /\ x \in Nat /\ x <= rate.bucket
      /\ \A x \in DOMAIN perSecond : perSecond[x] <= rate.peak
  BY <1>0 DEF Metering, PeakIsBusiestSecond
<1>4. /\ DOMAIN perSecond' = DOMAIN perSecond \cup {b}
      /\ perSecond'[b] = bytes /\ bytes \in Nat
      /\ \A x \in DOMAIN perSecond : x # b => perSecond'[x] = perSecond[x]
  <2>1. CASE first = None
    <3>1. DOMAIN perSecond = {} /\ rate.bucket = b /\ rate.bytes = 0
      BY <1>2, <2>1 DEF Metering
    <3> QED BY <1>0, <1>1, <3>1
  <2>2. CASE first # None
    <3>1. rate.bucket \in DOMAIN perSecond /\ rate.bytes = perSecond[rate.bucket]
      BY <2>2 DEF Metering
    <3>2. CASE b = rate.bucket
      BY <1>0, <1>1, <1>3, <3>1, <3>2
    <3>3. CASE b # rate.bucket
      <4>1. b \notin DOMAIN perSecond
        BY <1>0, <1>2, <1>3, <3>3
      <4> QED BY <1>0, <1>1, <1>3, <3>3, <4>1
    <3> QED BY <3>2, <3>3
  <2> QED BY <2>1, <2>2
<1> HIDE DEF bytes
<1>5. /\ rate'.peak >= rate.peak /\ rate'.peak >= bytes /\ rate'.peak \in {rate.peak, bytes}
  BY <1>0, <1>1, <1>4 DEF Max2
<1>6. perSecond' \in [DOMAIN perSecond' -> Nat]
  <2>1. \A x \in DOMAIN perSecond' : perSecond'[x] \in Nat
    BY <1>3, <1>4
  <2> QED BY <1>1, <2>1
<1>7. \A x \in DOMAIN perSecond' : x \in 0..rate'.bucket
  BY <1>0, <1>1, <1>2, <1>3, <1>4
<1>8. \A x \in DOMAIN perSecond' : perSecond'[x] <= rate'.peak
  BY <1>0, <1>3, <1>4, <1>5
<1>9. rate'.peak # 0 => \E x \in DOMAIN perSecond' : perSecond'[x] = rate'.peak
  <2>1. CASE rate'.peak = bytes
    BY <1>4, <2>1
  <2>2. CASE rate'.peak # bytes
    <3>1. SUFFICES ASSUME rate.peak # 0
                   PROVE  \E x \in DOMAIN perSecond' : perSecond'[x] = rate.peak
      BY <1>5, <2>2
    <3>2. PICK x \in DOMAIN perSecond : perSecond[x] = rate.peak
      BY <3>1 DEF Metering, PeakIsBusiestSecond
    <3>3. x # b
      <4>1. SUFFICES ASSUME x = b PROVE bytes >= rate.peak
        BY <1>0, <1>4, <1>5, <2>2
      <4>2. b = rate.bucket /\ first # None
        BY <1>0, <1>2, <1>3, <3>2, <4>1 DEF Metering
      <4> QED BY <1>0, <1>3, <3>2, <4>1, <4>2 DEF Metering, bytes
    <3> QED BY <1>4, <3>2, <3>3
  <2> QED BY <2>1, <2>2
<1>10. /\ rate'.start <= clock' /\ rate'.bucket <= (clock' - rate'.start) \div Second
       /\ rate'.bucket \in DOMAIN perSecond' /\ rate'.bytes = perSecond'[rate'.bucket]
  <2>1. rate'.bucket <= rate'.bucket
    BY <1>1, <1>2
  <2> QED BY <1>1, <1>2, <1>4, <2>1
<1> QED BY <1>1, <1>6, <1>7, <1>8, <1>9, <1>10 DEF Metering, PeakIsBusiestSecond

\* A packet that reaches the tracker.
LEMMA DeliverStep ==
    ASSUME DeliveryInv, NEW n \in 0..MaxIndex, NEW size \in Sizes, Deliver(n, size)
    PROVE  DeliveryInv'
<1> DEFINE p == Wire(n, size)
           e == extend_sequence(p.sequence)
<1>0. /\ p \in Packet /\ p.sequence = (base + n) % SeqMod /\ p.timestamp = Stamp(n)
      /\ p.arrival = clock
      /\ IInv /\ NetTypes /\ seen \subseteq accepted
  BY WirePacket DEF DeliveryInv
<1>1. /\ newest # None => newest - MaxReorder <= n /\ n <= newest + MaxReorder
      /\ observe(p)
      /\ delivered' = delivered \cup {n}
      /\ begin' = IF begin = None THEN n ELSE begin
      /\ newest' = IF n > newest THEN n ELSE newest
      /\ UNCHANGED <<base, clock>>
  BY DEF Deliver
<1> HIDE DEF p
<1>2. IInv'
  BY <1>0, <1>1, NewStep, DuplicateStep DEF observe
<1>3. /\ n \in Nat /\ MaxIndex \in Nat /\ base \in Nat /\ SeqMod \in Nat \ {0}
      /\ newest # None => newest \in Nat /\ begin \in Nat /\ begin # None
      /\ newest = None => begin = None /\ delivered = {}
      /\ \A k \in delivered : k \in Nat
  <2>1. MaxIndex \in Nat /\ SeqMod \in Nat \ {0}
    BY TrackerAssumption, DeliveryAssumption
  <2>2. \A k \in 0..MaxIndex : k \in Nat /\ k # None
    BY <2>1 DEF None
  <2>3. base \in Nat
    BY <1>0, <2>1 DEF NetTypes
  <2> QED BY <1>0, <2>1, <2>2, <2>3 DEF NetTypes
<1>4. /\ newest = None => highest = None
      /\ newest # None => highest \in Nat /\ first \in Nat /\ highest # None /\ first # None
      /\ highest = None <=> first = None
      /\ \A x \in accepted : x \in Nat
      /\ newest # None => \A x \in accepted : x <= highest
  BY <1>0 DEF NetTypes, IInv, TypeOK, Bounded, None
<1>5. newest # None => e = highest + (n - newest)
  BY <1>0, <1>1, NumberIsFaithful
<1>6. newest = None => e = SeqMod + p.sequence
  <2>1. p.sequence \in 0..(SeqMod - 1)
    BY <1>0 DEF Packet
  <2> QED BY <1>4, <2>1, ExtendFirst DEF extend_sequence
<1> HIDE DEF e
<1>7. CASE ObserveDuplicate(p)
  <2>1. /\ e \in accepted
        /\ UNCHANGED <<first, highest, seen, last_ts, rate, accepted, perSecond>>
        /\ stats' = [stats EXCEPT !.duplicate_packets = @ + 1]
    BY <1>0, <1>7 DEF ObserveDuplicate, e
  <2>2. newest # None /\ n <= newest /\ newest' = newest /\ begin' = begin
    <3>1. newest # None
      BY <1>0, <1>4, <2>1 DEF IInv, Bounded
    <3> QED BY <1>1, <1>3, <1>4, <1>5, <2>1, <3>1
  <2>3. UnwrapIsFaithful'
    <3>1. highest - first = newest - begin
          /\ accepted = {first + (k - begin) : k \in delivered}
      BY <2>2 DEF DeliveryInv, UnwrapIsFaithful
    <3>2. e = first + (n - begin)
      BY <1>3, <1>4, <1>5, <2>2, <3>1
    <3>3. {first + (k - begin) : k \in delivered \cup {n}} = accepted
      BY <2>1, <3>1, <3>2
    <3> QED BY <1>1, <2>1, <2>2, <3>1, <3>3 DEF UnwrapIsFaithful
  <2>4. NetTypes'
    BY <1>0, <1>1, <2>1, <2>2 DEF NetTypes
  <2>5. Aligned'
    BY <1>1, <2>1, <2>2 DEF DeliveryInv, Aligned
  <2>6. Stamped'
    BY <1>0, <2>1, <2>2 DEF DeliveryInv, Stamped, NoFalseRollback, IInv, TypeOK, Stats
  <2>7. Metering'
    BY <1>1, <2>1 DEF DeliveryInv, Metering, PeakIsBusiestSecond
  <2> QED BY <1>0, <1>2, <2>1, <2>3, <2>4, <2>5, <2>6, <2>7 DEF DeliveryInv
<1>8. CASE ObserveNew(p)
  <2>1. /\ first' = IF first = None THEN e ELSE first
        /\ highest' = IF highest = None \/ e > highest THEN e ELSE highest
        /\ accepted' = accepted \cup {e}
        /\ seen' = Retained(seen \cup {e}, highest')
        /\ last_ts' = IF highest = None \/ e > highest THEN p.timestamp ELSE last_ts
    BY <1>8 DEF ObserveNew, e
  <2>2. stats'.timestamp_rollbacks =
            IF (highest = None \/ e > highest) /\ RolledBack(p.timestamp)
            THEN stats.timestamp_rollbacks + 1 ELSE stats.timestamp_rollbacks
    BY <1>0, <1>8 DEF ObserveNew, Identified, Advance, Late, IInv, TypeOK, Stats, e
  <2>3. seen' \subseteq accepted'
    BY <1>0, <2>1 DEF Retained
  <2>4. Metering'
    BY <1>0, <1>1, <1>8, MeterStep DEF DeliveryInv
  <2>5. CASE newest = None
    <3>1. first' = e /\ highest' = e /\ accepted' = {e} /\ newest' = n /\ begin' = n
          /\ delivered' = {n} /\ last_ts' = Stamp(n)
      BY <1>0, <1>1, <1>3, <1>4, <2>1, <2>5 DEF IInv, Bounded, None
    <3>2. e \in Nat /\ e # None /\ e % SeqMod = (base + n) % SeqMod
      <4>1. p.sequence \in 0..(SeqMod - 1)
        BY <1>0 DEF Packet
      <4>2. \A s \in 0..(SeqMod - 1) : (SeqMod * 1 + s) % SeqMod = s
        BY <1>3
      <4>3. (SeqMod + p.sequence) % SeqMod = p.sequence
        BY <1>3, <4>1, <4>2
      <4> QED BY <1>0, <1>3, <1>6, <2>5, <4>1, <4>3 DEF None
    <3>3. NetTypes'
      BY <1>0, <1>1, <1>3, <3>1, <3>2 DEF NetTypes, None
    <3>4. Aligned'
      BY <1>1, <3>1, <3>2 DEF Aligned
    <3>5. UnwrapIsFaithful'
      <4>1. e - e = n - n /\ e + (n - n) = e
        BY <1>3, <3>2
      <4>2. {e + (k - n) : k \in {n}} = {e}
        BY <4>1
      <4> QED BY <3>1, <4>1, <4>2 DEF UnwrapIsFaithful
    <3>6. Stamped'
      <4>1. last_ts = None
        BY <2>5 DEF DeliveryInv, Stamped
      <4> QED BY <1>1, <1>3, <2>2, <3>1, <4>1
              DEF DeliveryInv, Stamped, NoFalseRollback, RolledBack, Stamp, None
    <3> QED BY <1>2, <2>3, <2>4, <3>3, <3>4, <3>5, <3>6 DEF DeliveryInv
  <2>6. CASE newest # None
    <3>1. /\ first' = first /\ begin' = begin
          /\ highest' = IF n > newest THEN e ELSE highest
          /\ newest' = IF n > newest THEN n ELSE newest
          /\ last_ts' = IF n > newest THEN Stamp(n) ELSE last_ts
          /\ (highest = None \/ e > highest <=> n > newest)
      <4>1. highest # None /\ (e > highest <=> n > newest)
        BY <1>3, <1>4, <1>5, <2>6
      <4> QED BY <1>0, <1>1, <1>3, <1>4, <2>1, <2>6, <4>1
    <3>2. highest - first = newest - begin /\ accepted = {first + (k - begin) : k \in delivered}
      BY <2>6 DEF DeliveryInv, UnwrapIsFaithful
    <3>3. e = first + (n - begin) /\ e \in Int
      BY <1>3, <1>4, <1>5, <2>6, <3>2
    <3>4. UnwrapIsFaithful'
      <4>1. accepted' = {first + (k - begin) : k \in delivered'}
        BY <1>1, <2>1, <3>2, <3>3
      <4>2. highest' - first = newest' - begin
        BY <1>3, <1>4, <1>5, <2>6, <3>1, <3>2
      <4> QED BY <3>1, <4>1, <4>2 DEF UnwrapIsFaithful
    <3>5. newest' # None /\ highest' # None /\ newest' \in 0..MaxIndex
      <4>1. highest' # None
        BY <1>2, <2>1, <3>1, <1>4, <2>6 DEF IInv, Bounded
      <4> QED BY <1>0, <1>3, <2>6, <3>1, <4>1 DEF NetTypes, None
    <3>6. NetTypes'
      BY <1>0, <1>1, <2>6, <3>1, <3>5 DEF NetTypes
    <3>7. Aligned'
      <4>1. CASE n > newest
        <5>1. highest % SeqMod = (base + newest) % SeqMod
          BY <2>6 DEF DeliveryInv, Aligned
        <5>2. (highest + (n - newest)) % SeqMod = (base + newest + (n - newest)) % SeqMod
          <6> DEFINE y == base + newest
                     k == n - newest
          <6>1. highest \in Int /\ y \in Int /\ k \in Int /\ highest % SeqMod = y % SeqMod
            BY <1>3, <1>4, <2>6, <5>1
          <6> HIDE DEF y, k
          <6>2. (highest + k) % SeqMod = (y + k) % SeqMod
            BY <1>3, <6>1, CongruentShift
          <6> QED BY <6>2 DEF y, k
        <5>3. base + newest + (n - newest) = base + n
          BY <1>3, <2>6
        <5> QED BY <1>1, <1>5, <2>6, <3>1, <4>1, <5>2, <5>3 DEF Aligned
      <4>2. CASE ~(n > newest)
        BY <1>1, <2>6, <3>1, <4>2 DEF DeliveryInv, Aligned
      <4> QED BY <4>1, <4>2
    <3>8. Stamped'
      <4>1. last_ts = Stamp(newest) /\ stats.timestamp_rollbacks = 0
        BY <2>6 DEF DeliveryInv, Stamped, NoFalseRollback
      <4>2. n > newest => ~RolledBack(Stamp(n))
        <5>1. newest \in 0..MaxIndex
          BY <1>0, <2>6 DEF NetTypes
        <5> QED BY <1>1, <1>3, <2>6, <4>1, <5>1, StampsAdvance DEF RolledBack
      <4>3. stats'.timestamp_rollbacks = 0
        BY <1>0, <2>2, <3>1, <4>1, <4>2
      <4> QED BY <3>1, <3>5, <4>1, <4>3 DEF Stamped, NoFalseRollback, Stamp
    <3> QED BY <1>2, <2>3, <2>4, <3>4, <3>6, <3>7, <3>8 DEF DeliveryInv
  <2> QED BY <2>5, <2>6
<1> QED BY <1>1, <1>7, <1>8 DEF observe

\* Time goes by.
LEMMA TickStep == DeliveryInv /\ Tick => DeliveryInv'
<1> SUFFICES ASSUME DeliveryInv, Tick PROVE DeliveryInv'
  OBVIOUS
<1>1. clock' = clock + 1 /\ UNCHANGED <<vars, base, delivered, begin, newest>>
  BY DEF Tick
<1>2. IInv' /\ (seen \subseteq accepted)' /\ Aligned' /\ UnwrapIsFaithful' /\ Stamped'
  BY <1>1 DEF DeliveryInv, vars, IInv, TypeOK, Bounded, Remembered, LossIsExact, CountedOnce,
              Missing, LostZero, Aligned, UnwrapIsFaithful, Stamped, NoFalseRollback, Stamp
<1>3. NetTypes'
  BY <1>1 DEF DeliveryInv, vars, NetTypes
<1>4. Metering'
  <2>1. first # None => (clock - rate.start) \div Second <= ((clock + 1) - rate.start) \div Second
                        /\ rate.start <= clock + 1 /\ rate.bucket <= ((clock + 1) - rate.start) \div Second
    <3>1. SUFFICES ASSUME first # None
                   PROVE  /\ (clock - rate.start) \div Second <= ((clock + 1) - rate.start) \div Second
                          /\ rate.start <= clock + 1
                          /\ rate.bucket <= ((clock + 1) - rate.start) \div Second
      OBVIOUS
    <3>2. /\ Second \in Nat \ {0} /\ clock \in Nat /\ rate.start \in Nat /\ rate.bucket \in Nat
          /\ rate.start <= clock /\ rate.bucket <= (clock - rate.start) \div Second
      BY <3>1, TrackerAssumption DEF DeliveryInv, IInv, TypeOK, NetTypes, Metering
    <3>3. \A x \in Nat : x \div Second <= (x + 1) \div Second
          /\ x \div Second \in Nat /\ (x + 1) \div Second \in Nat
      BY <3>2
    <3>4. clock - rate.start \in Nat /\ (clock - rate.start) + 1 = (clock + 1) - rate.start
      BY <3>2
    <3> HIDE DEF DeliveryInv
    <3> QED BY <3>2, <3>3, <3>4
  <2>2. UNCHANGED <<first, rate, perSecond>> /\ Metering
    BY <1>1 DEF DeliveryInv, vars
  <2>3. PeakIsBusiestSecond'
    BY <2>2 DEF Metering, PeakIsBusiestSecond
  <2>4. first' # None =>
            /\ rate'.start <= clock' /\ rate'.bucket <= (clock' - rate'.start) \div Second
            /\ rate'.bucket \in DOMAIN perSecond' /\ rate'.bytes = perSecond'[rate'.bucket]
    <3>1. clock' = clock + 1 /\ first' = first /\ rate' = rate /\ perSecond' = perSecond
      BY <1>1, <2>2
    <3>2. (clock' - rate'.start) \div Second = ((clock + 1) - rate.start) \div Second
      BY <3>1
    <3>3. first # None => rate.bucket \in DOMAIN perSecond /\ rate.bytes = perSecond[rate.bucket]
      BY <2>2 DEF Metering
    <3> QED BY <2>1, <3>1, <3>2, <3>3
  <2>5. /\ (perSecond \in [DOMAIN perSecond -> Nat])'
        /\ (\A b \in DOMAIN perSecond : b \in 0..rate.bucket)'
        /\ (first = None => DOMAIN perSecond = {} /\ rate.bucket = 0 /\ rate.bytes = 0 /\ rate.peak = 0)'
    BY <2>2 DEF Metering
  <2> QED BY <2>3, <2>4, <2>5 DEF Metering
<1> QED BY <1>2, <1>3, <1>4 DEF DeliveryInv

\* The tracker behind a sender and a network keeps its invariant, and follows
\* the sender's numbering.
THEOREM DeliveryInvariant == SpecD => []DeliveryInv
<1>1. DeliveryInv /\ [NextD]_<<vars, netVars>> => DeliveryInv'
  <2> SUFFICES ASSUME DeliveryInv, [NextD]_<<vars, netVars>> PROVE DeliveryInv'
    OBVIOUS
  <2>1. CASE UNCHANGED <<vars, netVars>>
    BY <2>1 DEF DeliveryInv, vars, netVars, IInv, TypeOK, Bounded, Remembered, LossIsExact,
                CountedOnce, Missing, LostZero, NetTypes, Aligned, UnwrapIsFaithful, Stamped,
                NoFalseRollback, Metering, PeakIsBusiestSecond, Stamp
  <2> QED BY <2>1, DeliverStep, TickStep DEF NextD
<1> QED BY DeliveryStart, <1>1, PTL DEF SpecD

\* Whatever the network loses, repeats and reorders within half the number
\* space, for every size of that space: the numbers of the tracker are the
\* sender's, no clock is reported that went back, and the peak is the load of
\* the busiest second.  So what is counted as lost or repeated is so.
THEOREM DeliveryIsFaithful == SpecD => [](StreamIsFaithful /\ LossIsExact /\ CountedOnce)
<1>1. DeliveryInv => StreamIsFaithful /\ LossIsExact /\ CountedOnce
  BY DEF DeliveryInv, StreamIsFaithful, Stamped, Metering, IInv
<1> QED BY <1>1, DeliveryInvariant, PTL
=============================================================================
