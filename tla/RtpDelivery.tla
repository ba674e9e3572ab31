---------------------------- MODULE RtpDelivery -----------------------------
(***************************************************************************)
(* RtpTracker fed by a sender and an unreliable network, as the callers of *)
(* observe feed it (crates/rtsp/src/client.rs for live sessions).  The     *)
(* sender numbers its packets 0, 1, 2, ...; only the low 16 bits of        *)
(* base + n go on the wire.  The network loses, duplicates and reorders    *)
(* packets, but by fewer than half the number space.  The clock stamps     *)
(* arrivals and never goes back (Instant::now).                            *)
(*                                                                         *)
(* The tracker sees wrapped numbers only; the properties compare what it   *)
(* reports with the sender's own numbering.                                *)
(***************************************************************************)
EXTENDS RtpTracker

CONSTANTS
    MaxIndex,     \* bound on the sender's packet numbers
    MaxReorder,   \* how far from the newest packet the network may deliver
    Bases,        \* initial sequence numbers the sender may choose
    TsBase,       \* initial RTP timestamp
    FrameOf,      \* the frame each of the sender's packets belongs to
    TsStep,       \* RTP clock units between two frames
    Sizes,        \* payload sizes
    MaxTime       \* bound on the arrival clock

ASSUME DeliveryAssumption ==
    /\ MaxIndex \in Nat
    /\ MaxReorder \in Nat /\ MaxReorder < Half
    /\ Bases \subseteq 0..(SeqMod - 1)
    /\ TsBase \in Nat /\ TsStep \in Nat
    /\ FrameOf \in [0..MaxIndex -> Nat]
    /\ \A n \in 1..MaxIndex : FrameOf[n] - FrameOf[n - 1] \in {0, 1}
    /\ MaxReorder * TsStep < TsHalf
    /\ Sizes \subseteq Nat
    /\ MaxTime \in Nat

VARIABLES
    base,        \* the sender's initial sequence number
    delivered,   \* sender numbers that reached the tracker
    begin,       \* sender number of the first packet delivered
    newest,      \* largest sender number delivered
    clock        \* arrival clock

netVars == <<base, delivered, begin, newest, clock>>

InitD ==
    /\ Init
    /\ base \in Bases
    /\ delivered = {} /\ begin = None /\ newest = None
    /\ clock = 0

Wire(n, size) ==
    [sequence |-> (base + n) % SeqMod,
     timestamp |-> (TsBase + TsStep * FrameOf[n]) % TsMod,
     ssrc |-> 1, payload_type |-> 96, size |-> size, arrival |-> clock]

\* One packet, new, late or repeated, reaches observe.
Deliver(n, size) ==
    /\ Observed < MaxPackets
    /\ newest # None => newest - MaxReorder <= n /\ n <= newest + MaxReorder
    /\ observe(Wire(n, size))
    /\ delivered' = delivered \cup {n}
    /\ begin' = IF begin = None THEN n ELSE begin
    /\ newest' = IF n > newest THEN n ELSE newest
    /\ UNCHANGED <<base, clock>>

Tick ==
    /\ clock < MaxTime
    /\ clock' = clock + 1
    /\ UNCHANGED <<vars, base, delivered, begin, newest>>

NextD ==
    \/ \E n \in 0..MaxIndex, size \in Sizes : Deliver(n, size)
    \/ Tick

SpecD == InitD /\ [][NextD]_<<vars, netVars>>

-----------------------------------------------------------------------------
\* Unwrapping is right across any number of 65535 -> 0 wraps: the tracker's
\* numbers are the sender's numbers shifted by a constant, so two different
\* packets never share an extended number and a repeat is always recognised;
\* so LossIsExact says that what is reported lost is what the network lost.
UnwrapIsFaithful ==
    newest # None =>
        /\ highest - first = newest - begin
        /\ accepted = {first + (n - begin) : n \in delivered}

\* A sender whose clock only moves forward is never reported as rolling its
\* timestamps back, however the network reorders, and across the 2^32 wrap.
NoFalseRollback == stats.timestamp_rollbacks = 0

\* peak_payload_bytes is the load of the busiest second of the stream.
PeakIsBusiestSecond ==
    /\ \A b \in DOMAIN perSecond : perSecond[b] <= rate.peak
    /\ rate.peak # 0 => \E b \in DOMAIN perSecond : perSecond[b] = rate.peak

\* What the tracker reports is true of the sender's stream: the numbers, the
\* clock and the busiest second, whatever the network did to the packets.
StreamIsFaithful == UnwrapIsFaithful /\ NoFalseRollback /\ PeakIsBusiestSecond
=============================================================================
