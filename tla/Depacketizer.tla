----------------------------- MODULE Depacketizer -----------------------------
(***************************************************************************)
(* The H.264 and H.265 depacketizers (crates/h264/src/packetization.rs,    *)
(* crates/h265/src/lib.rs): an RTP payload is a NAL unit, several of them, *)
(* or a fragment of one.  Both keep the unit being assembled in current    *)
(* and take the packets in the order of their unwrapped numbers, with      *)
(* whatever the capture lacks missing between them.                        *)
(*                                                                         *)
(* The data of a unit is the sequence of the pieces it is made of; piece   *)
(* <<n, k>> is the k-th of the packet n.  A unit begins with the header    *)
(* its first piece carries, nal.  The two differ in the bits their headers *)
(* use, which a payload's kind abstracts, in the headers they refuse,      *)
(* which kind "refused" stands for, and in the names of their issues,      *)
(* which H.265 prefixes with h265_.                                        *)
(***************************************************************************)
EXTENDS Integers, Sequences

CONSTANTS
    SequenceMod, \* 65536
    None         \* Option::None

NewDepacketizer == [current |-> None, units |-> <<>>, issues |-> <<>>]

Emitted(d, unit) == [d EXCEPT !.units = Append(@, unit)]

\* from_rtp for the k-th unit of a packet.
Unit(p, k, marker) ==
    [data |-> <<<<p.n, k>>>>, nal |-> p.payload.nals[k], complete |-> TRUE,
     timestamp |-> p.timestamp, first |-> p.seq, last |-> p.seq,
     marker |-> marker]

\* from_rtp for the unit in current.
Assembled(d, complete, marker) ==
    [data |-> d.current.data, nal |-> d.current.nal, complete |-> complete,
     timestamp |-> d.current.timestamp, first |-> d.current.first,
     last |-> d.current.last, marker |-> marker]

Issue(d, kind, p) ==
    [d EXCEPT !.issues = Append(@, [kind |-> kind, sequence |-> p.seq,
                                    timestamp |-> p.timestamp])]

\* current.take(): the assembly ends without its last fragment.
Abandoned(d) ==
    IF d.current = None THEN d
    ELSE LET end == [seq |-> d.current.last, timestamp |-> d.current.timestamp]
         IN  [Emitted(Issue(d, "missing_end", end), Assembled(d, FALSE, FALSE))
                 EXCEPT !.current = None]

Started(d, p) ==
    [Abandoned(d) EXCEPT
         !.current = [timestamp |-> p.timestamp, first |-> p.seq, last |-> p.seq,
                      data |-> <<<<p.n, 1>>>>, nal |-> p.payload.nals[1],
                      broken |-> FALSE]]

\* Mutant of Joined: a fragment is missed only if the time stamp tells.
JoinedByTimestamp(d, p) ==
    [d EXCEPT !.current.broken = @ \/ d.current.timestamp # p.timestamp,
              !.current.last   = p.seq,
              !.current.data   = Append(@, <<p.n, 1>>)]

\* A later fragment: what is joined over a hole or over two time stamps is
\* kept but broken.
Joined(d, p) ==
    LET changed == d.current.timestamp # p.timestamp
        gap     == p.seq # (d.current.last + 1) % SequenceMod
        e       == [d EXCEPT !.current.broken = @ \/ changed \/ gap,
                             !.current.last   = p.seq,
                             !.current.data   = Append(@, <<p.n, 1>>)]
        told    == IF changed THEN Issue(e, "timestamp_changed", p) ELSE e
    IN  IF gap THEN Issue(told, "sequence_gap", p) ELSE told

Ended(d, p) ==
    [Emitted(d, Assembled(d, ~d.current.broken, p.marker)) EXCEPT !.current = None]

\* push_fu_a, and push_fu of H.265: without its start a fragment is dropped.
push_fu_a(d, p) ==
    IF ~p.payload.start /\ d.current = None THEN Issue(d, "missing_start", p)
    ELSE LET e == IF p.payload.start THEN Started(d, p) ELSE Joined(d, p)
         IN  IF p.payload.end THEN Ended(e, p) ELSE e

\* parse_stap_a, and parse_ap of H.265: the units up to the first length that
\* does not fit the packet.  The marker belongs to the last of them.
parse_stap_a(d, p) ==
    LET count == Len(p.payload.nals)
        whole == [k \in 1..p.payload.fitting |-> Unit(p, k, p.marker /\ k = count)]
        e     == [d EXCEPT !.units = @ \o whole]
    IN  IF p.payload.fitting < count THEN Issue(e, "length", p) ELSE e

\* push: other packets leave the assembly alone, so the next fragment finds a
\* hole in the sequence numbers.
push(d, p) ==
    CASE p.payload.kind = "single"    -> Emitted(d, Unit(p, 1, p.marker))
      [] p.payload.kind = "aggregate" -> parse_stap_a(d, p)
      [] p.payload.kind = "fragment"  -> push_fu_a(d, p)
      [] p.payload.kind = "refused"   -> Issue(d, p.payload.reason, p)

finish(d) == Abandoned(d)

\* What a sequence of packets is made into: its units and its issues.
Depacketized(packets) ==
    LET f[i \in 0..Len(packets)] ==
            IF i = 0 THEN NewDepacketizer ELSE push(f[i - 1], packets[i])
    IN  finish(f[Len(packets)])
=============================================================================
