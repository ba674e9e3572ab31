----------------------------- MODULE RtpTracker -----------------------------
(***************************************************************************)
(* The per-stream RTP statistics kept by crates/rtp/src/lib.rs             *)
(* (RtpTracker::observe).  Every packet of a stream goes through observe,  *)
(* which unwraps the 16-bit sequence number, recognises duplicates in a    *)
(* sliding window of recent numbers, and maintains the loss, reorder,      *)
(* wrap, rollback and bit-rate counters that the diagnosis rules read.     *)
(*                                                                         *)
(* Option<u64> is a Nat or None.  The u64 bitmaps keyed by number/64       *)
(* (seen_sequences) are the set `seen`; forgetting them block by block is  *)
(* kept.  The floating-point jitter estimate is left out.                  *)
(***************************************************************************)
EXTENDS Integers, FiniteSets

CONSTANTS
    SeqMod,      \* 65536: sequence numbers are u16
    Block,       \* 64: sequence numbers per bitmap
    Window,      \* 131071: how far below the highest number bitmaps are kept
    TsMod,       \* 2^32: RTP timestamps are u32
    Second,      \* arrival-clock ticks per one-second bit-rate bucket
    Packets,     \* the packets that may arrive
    MaxPackets   \* bound on the number of observe calls

Half   == SeqMod \div 2     \* 0x8000
TsHalf == TsMod \div 2      \* 0x8000_0000
None   == -1                \* Option::None of an unsigned field

Packet == [sequence : 0..(SeqMod - 1), timestamp : 0..(TsMod - 1),
           ssrc : Nat, payload_type : Nat, size : Nat, arrival : Nat]

ASSUME TrackerAssumption ==
    /\ SeqMod \in Nat \ {0} /\ SeqMod = 2 * Half
    /\ Block \in Nat \ {0}
    /\ Window \in Nat /\ Window >= Half
    /\ TsMod \in Nat \ {0} /\ TsMod = 2 * TsHalf
    /\ Second \in Nat \ {0}
    /\ Packets \subseteq Packet
    /\ MaxPackets \in Nat

VARIABLES
    first,       \* first_extended_sequence
    highest,     \* highest_extended_sequence
    seen,        \* seen_sequences
    stats,       \* the counters of RtpStatistics
    last_ts,     \* last_timestamp
    rate,        \* start, bit_rate_bucket, bit_rate_bytes, peak_payload_bytes
    accepted,    \* history: every extended number observe returned true for
    perSecond    \* history: payload bytes accepted in each one-second bucket

vars == <<first, highest, seen, stats, last_ts, rate, accepted, perSecond>>

Stats == [packet_count : Nat, duplicate_packets : Nat, lost_packets : Nat,
          out_of_order_packets : Nat, maximum_sequence_gap : Nat,
          sequence_wraps : Nat, timestamp_rollbacks : Nat,
          ssrc_changes : Nat, payload_type_changes : Nat,
          ssrc : Nat \cup {None}, payload_type : Nat \cup {None}]

Max2(a, b)   == IF a >= b THEN a ELSE b
SatSub(a, b) == IF a >= b THEN a - b ELSE 0     \* saturating_sub

Init ==
    /\ first = None /\ highest = None
    /\ seen = {} /\ accepted = {}
    /\ last_ts = None
    /\ stats = [packet_count |-> 0, duplicate_packets |-> 0, lost_packets |-> 0,
                out_of_order_packets |-> 0, maximum_sequence_gap |-> 0,
                sequence_wraps |-> 0, timestamp_rollbacks |-> 0,
                ssrc_changes |-> 0, payload_type_changes |-> 0,
                ssrc |-> None, payload_type |-> None]
    /\ rate = [start |-> 0, bucket |-> 0, bytes |-> 0, peak |-> 0]
    /\ perSecond = [b \in {} |-> 0]

-----------------------------------------------------------------------------
\* Mutant of ExtendFrom: a late packet of the previous cycle is not recognised.
ExtendForwardOnly(h, sequence) ==
    IF h = None THEN SeqMod + sequence
    ELSE IF sequence < h % SeqMod /\ (h % SeqMod) - sequence > Half
         THEN h - (h % SeqMod) + SeqMod + sequence
    ELSE h - (h % SeqMod) + sequence

\* extend_sequence: the unwrapped number nearest to h.  The first packet is
\* placed one cycle up, so numbers just before it stay non-negative.
ExtendFrom(h, sequence) ==
    LET hs    == h % SeqMod
        cycle == h - hs
    IN  IF h = None THEN SeqMod + sequence
        ELSE IF sequence < hs /\ hs - sequence > Half
             THEN cycle + SeqMod + sequence
        ELSE IF sequence > hs /\ sequence - hs > Half /\ cycle >= SeqMod
             THEN cycle - SeqMod + sequence
        ELSE cycle + sequence

extend_sequence(sequence) == ExtendFrom(highest, sequence)

\* Mutant of Retained: only the bitmap of the highest number is kept.
RetainedShort(s, h) == {x \in s : x \div Block >= h \div Block}

\* The bitmaps below keep_from are dropped after every accepted packet.
Retained(s, h) == {x \in s : x \div Block >= SatSub(h, Window) \div Block}

\* A new highest number: the numbers skipped over are provisionally lost.
Advance(e) ==
    LET gap == IF highest = None THEN 0 ELSE e - highest - 1
    IN  [stats EXCEPT !.packet_count = @ + 1,
                      !.lost_packets = @ + gap,
                      !.maximum_sequence_gap = Max2(@, gap),
                      !.sequence_wraps =
                          IF highest # None /\ e \div SeqMod > highest \div SeqMod
                          THEN @ + 1 ELSE @]

\* Mutant of Late: packets from before the first one also take a loss back.
LateUnguarded(e) ==
    [stats EXCEPT !.packet_count = @ + 1, !.out_of_order_packets = @ + 1,
                  !.lost_packets = SatSub(@, 1)]

\* A late packet: one provisional loss is taken back, unless the packet
\* precedes the first one of the stream.
Late(e) ==
    [stats EXCEPT !.packet_count = @ + 1,
                  !.out_of_order_packets = @ + 1,
                  !.lost_packets = IF e >= first THEN SatSub(@, 1) ELSE @]

\* Timestamps are compared only between packets that advance the sequence.
RolledBack(ts) == last_ts # None /\ ts < last_ts /\ last_ts - ts < TsHalf

\* ssrc and payload type: a change is any difference to the previous packet.
Identified(s, p) ==
    [s EXCEPT !.ssrc_changes = IF s.ssrc # None /\ s.ssrc # p.ssrc
                               THEN @ + 1 ELSE @,
              !.payload_type_changes =
                  IF s.payload_type # None /\ s.payload_type # p.payload_type
                  THEN @ + 1 ELSE @,
              !.ssrc = p.ssrc,
              !.payload_type = p.payload_type]

\* The one-second bit-rate bucket of the packet, counted from the first one.
Bucket(p) == SatSub(p.arrival, IF first = None THEN p.arrival ELSE rate.start)
                 \div Second

Metered(p) ==
    LET b     == Bucket(p)
        bytes == (IF b = rate.bucket THEN rate.bytes ELSE 0) + p.size
    IN  [start  |-> IF first = None THEN p.arrival ELSE rate.start,
         bucket |-> b, bytes |-> bytes, peak |-> Max2(rate.peak, bytes)]

ObserveDuplicate(p) ==
    /\ extend_sequence(p.sequence) \in seen
    /\ stats' = [stats EXCEPT !.duplicate_packets = @ + 1]
    /\ UNCHANGED <<first, highest, seen, last_ts, rate, accepted, perSecond>>

ObserveNew(p) ==
    LET e        == extend_sequence(p.sequence)
        advances == highest = None \/ e > highest
        b        == Bucket(p)
    IN  /\ e \notin seen
        /\ first' = IF first = None THEN e ELSE first
        /\ highest' = IF advances THEN e ELSE highest
        /\ seen' = Retained(seen \cup {e}, highest')
        /\ stats' =
             LET s == Identified(IF advances THEN Advance(e) ELSE Late(e), p)
             IN  [s EXCEPT !.timestamp_rollbacks =
                      IF advances /\ RolledBack(p.timestamp) THEN @ + 1 ELSE @]
        /\ last_ts' = IF advances THEN p.timestamp ELSE last_ts
        /\ rate' = Metered(p)
        /\ accepted' = accepted \cup {e}
        /\ perSecond' = [x \in DOMAIN perSecond \cup {b} |->
                             (IF x \in DOMAIN perSecond THEN perSecond[x] ELSE 0)
                             + (IF x = b THEN p.size ELSE 0)]

observe(p) == ObserveDuplicate(p) \/ ObserveNew(p)

Observed == stats.packet_count + stats.duplicate_packets

Next == \E p \in Packets : Observed < MaxPackets /\ observe(p)

Spec == Init /\ [][Next]_vars

-----------------------------------------------------------------------------
\* Each field of the tracker keeps its type; unwrapped numbers never become
\* negative although extend_sequence subtracts a cycle.
TypeOK ==
    /\ first \in Nat \cup {None}
    /\ highest \in Nat \cup {None}
    /\ seen \subseteq Nat
    /\ accepted \subseteq Nat
    /\ stats \in Stats
    /\ last_ts \in Nat \cup {None}
    /\ rate \in [start : Nat, bucket : Nat, bytes : Nat, peak : Nat]

\* The numbers from the first packet to the highest one that never arrived.
Missing == (first..highest) \ accepted

\* lost_packets is provisional: it grows when a gap opens and shrinks when a
\* late packet fills it.  Whatever the order of arrival, and although the
\* duplicate window forgets old numbers, it is always exactly the number of
\* missing packets; the saturating subtraction never hides an underflow.
LossIsExact ==
    highest # None => stats.lost_packets = Cardinality(Missing)

\* Forgetting bitmaps never lets a packet that was already counted be counted
\* again: packet_count is the number of different packets.
CountedOnce == stats.packet_count = Cardinality(accepted)
=============================================================================
