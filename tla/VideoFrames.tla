----------------------------- MODULE VideoFrames ------------------------------
(***************************************************************************)
(* What the analyses of H.264 and H.265 units have in common               *)
(* (crates/h264/src/analyze.rs, crates/h265/src/lib.rs): the parameter     *)
(* sets with their changes, the evidence kept of units and frames, and the *)
(* distances between random access frames.  An analysis is a record with   *)
(* at least the fields these operators name; H264Analysis and H265Analysis *)
(* add their own.                                                          *)
(*                                                                         *)
(* A unit is what Depacketizer emits.  Its nal says what its bits mean:    *)
(* whether they can be parsed and, if so, the ids and fields they carry.   *)
(* A header is in a unit's first piece, which no unit lacks.               *)
(***************************************************************************)
EXTENDS Integers, Sequences, FiniteSets

CONSTANTS
    MaxNalus,    \* MAX_NALU_EVIDENCE, 100000
    MaxFrames,   \* MAX_FRAME_EVIDENCE, 50000
    None         \* Option::None

SetIds(sets) == {sets[k].id : k \in DOMAIN sets}

Previous(sets, id) == sets[CHOOSE k \in DOMAIN sets : sets[k].id = id]

\* A set replaces the one with its id.
Stored(sets, new) ==
    IF new.id \in SetIds(sets)
    THEN [k \in DOMAIN sets |-> IF sets[k].id = new.id THEN new ELSE sets[k]]
    ELSE Append(sets, new)

\* The fields in which a set differs from the one it replaces.
ChangedFields(sets, new) ==
    IF new.id \notin SetIds(sets) THEN {}
    ELSE LET old == Previous(sets, new.id)
         IN  {f \in DOMAIN new.fields : new.fields[f] # old.fields[f]}

\* The change a set makes takes effect from the frame after the current one.
ParameterChange(a, kind, new, fields, number) ==
    IF fields = {} THEN a
    ELSE [a EXCEPT !.changes =
              Append(@, [nalu |-> number, from |-> a.frame + 1, kind |-> kind,
                         id |-> new.id, fields |-> fields])]

Issue(a, kind, u) ==
    [a EXCEPT !.issues = Append(@, [kind |-> kind, sequence |-> u.first,
                                    timestamp |-> u.timestamp])]

\* An issue of the whole sample has no place in it.
Lacks(a, kind) ==
    [a EXCEPT !.issues = Append(@, [kind |-> kind, sequence |-> None,
                                    timestamp |-> None])]

\* Every unit is counted; the evidence ends at its limit.
CountNalu(a, u, number) ==
    [a EXCEPT !.nalu_count = @ + 1,
              !.incomplete_nalus = IF u.complete THEN @ ELSE @ + 1,
              !.nalus = IF Len(@) < MaxNalus
                        THEN Append(@, [nalu_number |-> number, complete |-> u.complete,
                                        timestamp |-> u.timestamp,
                                        first |-> u.first, last |-> u.last])
                        ELSE @]

\* A slice whose header cannot be read starts a frame if its timestamp is new.
StartsFrame(a, u) ==
    IF u.nal.parses THEN u.nal.first_slice ELSE u.timestamp \notin a.stamps

Stamped(a, u) == IF u.nal.parses THEN a
                 ELSE [a EXCEPT !.stamps = @ \cup {u.timestamp}]

\* The evidence of a frame that begins with u.
OpenFrame(a, u, number, idr) ==
    [a EXCEPT !.frame = @ + 1,
              !.frames = IF Len(@) < MaxFrames
                         THEN Append(@, [frame_number |-> a.frame + 1,
                                         timestamp |-> u.timestamp,
                                         first |-> u.first, last |-> u.last,
                                         first_nalu |-> number, last_nalu |-> number,
                                         idr |-> idr, complete |-> u.complete])
                         ELSE @]

\* A further slice of the current frame, if its evidence was kept.
JoinFrame(a, u, number, idr) ==
    IF a.frames = <<>> \/ a.frames[Len(a.frames)].frame_number # a.frame THEN a
    ELSE [a EXCEPT !.frames[Len(a.frames)] =
              [@ EXCEPT !.last_nalu = number, !.last = u.last,
                        !.idr = @ \/ idr, !.complete = @ /\ u.complete]]

\* maximum_gop_frames: the longest way between two random access frames.
MaximumGop(positions) ==
    LET gaps == {positions[k + 1] - positions[k] : k \in 1..(Len(positions) - 1)}
    IN  IF gaps = {} THEN None ELSE CHOOSE g \in gaps : \A h \in gaps : h <= g

\* access_unit_number of a unit: the frame its number falls into.
AccessUnit(frames, number) ==
    LET holding == {k \in DOMAIN frames : /\ frames[k].first_nalu <= number
                                          /\ number <= frames[k].last_nalu}
    IN  IF holding = {} THEN None
        ELSE frames[CHOOSE k \in holding : \A j \in holding : k <= j].frame_number

Located(a) ==
    [a EXCEPT !.nalus = [k \in DOMAIN @ |->
        [nalu_number |-> @[k].nalu_number, complete |-> @[k].complete,
         timestamp |-> @[k].timestamp, first |-> @[k].first, last |-> @[k].last,
         access_unit |-> AccessUnit(a.frames, @[k].nalu_number)]]]
=============================================================================
