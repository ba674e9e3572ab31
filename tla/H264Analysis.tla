---------------------------- MODULE H264Analysis ------------------------------
(***************************************************************************)
(* analyze_nalu_results of crates/h264/src/analyze.rs: one pass over the   *)
(* units of a sample that counts frames and collects parameter sets,       *)
(* issues and the access units the decoder-buffer model (HRD) is simulated *)
(* on.                                                                     *)
(*                                                                         *)
(* nal.type is sps, pps, sei, idr, slice, invalid (types 0, 30 and 31) or  *)
(* other, and nal.bits the size of a unit; an access unit with a piece     *)
(* missing is not simulated, so that no smaller size is needed.  The       *)
(* limitations the simulation lists are wording and left out.              *)
(***************************************************************************)
EXTENDS VideoFrames

CONSTANT HrdClock    \* 90000: ticks of initial_cpb_removal_delay per second

NewAnalysis(issues) ==
    [nalu_count |-> 0, incomplete_nalus |-> 0, nalus |-> <<>>, issues |-> issues,
     sps |-> <<>>, pps |-> <<>>, changes |-> <<>>, frame |-> 0, frames |-> <<>>,
     stamps |-> {}, first_frame_is_idr |-> None, idr_positions |-> <<>>,
     first_idr_frame |-> None, sps_before_first_idr |-> FALSE,
     pps_before_first_idr |-> FALSE, last_vcl_frame |-> None,
     active_sps |-> None, epoch |-> None, timing |-> None,
     prefix |-> [bits |-> 0, complete |-> TRUE], au |-> None, hrd_aus |-> <<>>,
     maximum_gop |-> None, hrd |-> [status |-> "", active |-> None, points |-> <<>>]]

ReadSps(a, u, number) ==
    LET new    == [id |-> u.nal.id, fields |-> u.nal.fields]
        fields == ChangedFields(a.sps, new)
        b      == IF "resolution" \in fields THEN Issue(a, "resolution_changed", u) ELSE a
    IN  IF ~u.nal.parses THEN Issue(a, "invalid_sps", u)
        ELSE ParameterChange([b EXCEPT !.sps = Stored(@, new)],
                             "sps", new, fields, number)

ReadPps(a, u, number) ==
    LET new == [id |-> u.nal.id, fields |-> u.nal.fields]
        b   == IF u.nal.fields.sps \notin SetIds(a.sps)
               THEN Issue(a, "pps_missing_sps", u) ELSE a
    IN  IF ~u.nal.parses THEN Issue(a, "invalid_pps", u)
        ELSE ParameterChange([b EXCEPT !.pps = Stored(@, new)],
                             "pps", new, ChangedFields(a.pps, new), number)

-----------------------------------------------------------------------------
Hrds(s) == SelectSeq(<<s.fields.nal_hrd, s.fields.vcl_hrd>>, LAMBDA h : h # None)

\* buffering_period: the first schedule of the set it names, if it has a clock.
BufferingPeriod(a, m) ==
    IF m.sps \notin SetIds(a.sps) THEN a
    ELSE LET s == Previous(a.sps, m.sps)
             b == [a EXCEPT !.active_sps = m.sps]
         IN  IF Hrds(s) = <<>> \/ s.fields.clock = None THEN b
             ELSE [b EXCEPT !.epoch = [sps |-> m.sps, hrd |-> Hrds(s)[1],
                                       clock |-> s.fields.clock, delay |-> m.delay]]

\* pic_timing is read with the set the last buffering_period named.
PicTiming(a, m) ==
    IF a.active_sps = None \/ Hrds(Previous(a.sps, a.active_sps)) = <<>> THEN a
    ELSE [a EXCEPT !.timing = [delay |-> m.delay]]

\* parse_sei_hrd: of several messages in a unit the last one counts.
parse_sei_hrd(a, u) ==
    LET f[k \in 0..Len(u.nal.messages)] ==
            IF k = 0 THEN a
            ELSE LET m == u.nal.messages[k]
                 IN  IF m.kind = "buffering_period" THEN BufferingPeriod(f[k - 1], m)
                     ELSE PicTiming(f[k - 1], m)
    IN  f[Len(u.nal.messages)]

\* Units that are no slices belong to the access unit that follows.
Prefixed(a, u) ==
    IF u.nal.type \in {"idr", "slice"} THEN a
    ELSE [a EXCEPT !.prefix = [bits |-> @.bits + u.nal.bits,
                               complete |-> @.complete /\ u.complete]]

CloseAccessUnit(a) ==
    IF a.au = None THEN a
    ELSE [a EXCEPT !.hrd_aus = Append(@, a.au), !.au = None]

\* The access unit takes the prefix and the pending SEI with it.
OpenAccessUnit(a, u) ==
    [a EXCEPT !.au = [access_unit |-> a.frame, bits |-> a.prefix.bits + u.nal.bits,
                      complete |-> a.prefix.complete /\ u.complete,
                      epoch |-> a.epoch, timing |-> a.timing],
              !.epoch = None, !.timing = None,
              !.prefix = [bits |-> 0, complete |-> TRUE]]

JoinAccessUnit(a, u) ==
    IF a.au = None THEN a
    ELSE [a EXCEPT !.au = [@ EXCEPT !.bits = @ + u.nal.bits,
                                    !.complete = @ /\ u.complete]]

-----------------------------------------------------------------------------
\* A frame is over when the timestamp changes; by then its marker was seen.
Marked(a, u) ==
    LET v    == a.last_vcl_frame
        same == v # None /\ v.timestamp = u.timestamp
        b    == IF v # None /\ ~same /\ ~v.marker
                THEN [a EXCEPT !.issues = Append(@, [kind |-> "missing_marker",
                          sequence |-> v.sequence, timestamp |-> v.timestamp])]
                ELSE a
    IN  [b EXCEPT !.last_vcl_frame =
             [timestamp |-> u.timestamp, sequence |-> u.last,
              marker |-> u.marker \/ (same /\ v.marker)]]

FirstIdr(a, u) ==
    IF u.nal.type # "idr" THEN a
    ELSE LET b == [a EXCEPT !.idr_positions = Append(@, a.frame)]
         IN  IF a.idr_positions # <<>> THEN b
             ELSE [b EXCEPT !.first_idr_frame = a.frame,
                            !.sps_before_first_idr = a.sps # <<>>,
                            !.pps_before_first_idr = a.pps # <<>>]

BeginFrame(a, u, number) ==
    LET idr == u.nal.type = "idr"
        b   == OpenAccessUnit(OpenFrame(CloseAccessUnit(a), u, number, idr), u)
    IN  FirstIdr([b EXCEPT !.first_frame_is_idr = IF @ = None THEN idr ELSE @], u)

ReadSlice(a, u, number) ==
    LET m == Stamped(Marked(a, u), u)
        b == IF StartsFrame(a, u) THEN BeginFrame(m, u, number)
             ELSE JoinAccessUnit(JoinFrame(m, u, number, u.nal.type = "idr"), u)
    IN  IF u.nal.parses /\ u.nal.pps \notin SetIds(a.pps)
        THEN Issue(b, "slice_missing_pps", u) ELSE b

ReadNalu(a, u, number) ==
    LET b == CountNalu(a, u, number)
        c == IF u.nal.forbidden THEN Issue(b, "forbidden_zero_bit", u) ELSE b
        d == Prefixed(c, u)
    IN  CASE u.nal.type = "sps"             -> ReadSps(d, u, number)
          [] u.nal.type = "pps"             -> ReadPps(d, u, number)
          [] u.nal.type = "sei"             -> parse_sei_hrd(d, u)
          [] u.nal.type \in {"idr", "slice"} -> ReadSlice(d, u, number)
          [] u.nal.type = "invalid"         -> Issue(d, "invalid_nalu_type", u)
          [] OTHER                          -> d

-----------------------------------------------------------------------------
NoSimulation == [status |-> "not_declared", active |-> None, points |-> <<>>]

\* Only a single CPB with a constant rate can be simulated.
Simulable(epoch) == /\ epoch.hrd.cpb_count = 1 /\ epoch.hrd.cbr
                    /\ epoch.clock.units > 0 /\ epoch.clock.scale > 0

\* A buffering_period starts again with what has arrived by its own delay.
NewEpoch(sim, epoch) ==
    IF epoch = None THEN sim
    ELSE [sim EXCEPT !.active =
              IF ~Simulable(epoch) THEN None
              ELSE [epoch |-> epoch, previous |-> None,
                    fullness |-> (epoch.hrd.bit_rate * epoch.delay) \div HrdClock]]

\* What is in the buffer when the access unit is removed from it.
FullnessBefore(active, timing) ==
    IF active.previous = None THEN active.fullness
    ELSE LET delta == (timing.delay - active.previous) % active.epoch.hrd.delay_mod
         IN  active.fullness + (active.epoch.hrd.bit_rate * delta
                                   * active.epoch.clock.units)
                                  \div active.epoch.clock.scale

\* One access unit; an incomplete one, or one without time, ends the epoch.
SimulateUnit(sim, au) ==
    LET s == NewEpoch(sim, au.epoch)
    IN  IF s.active = None THEN s
        ELSE IF ~au.complete \/ au.timing = None THEN [s EXCEPT !.active = None]
        ELSE LET before == FullnessBefore(s.active, au.timing)
                 after  == IF before >= au.bits THEN before - au.bits ELSE 0
             IN  [s EXCEPT !.status = "simulated_cbr_single_cpb",
                           !.active = [@ EXCEPT !.fullness = after,
                                                !.previous = au.timing.delay],
                           !.points = Append(@,
                               [access_unit |-> au.access_unit,
                                overflow |-> before > s.active.epoch.hrd.cpb_size,
                                underflow |-> before < au.bits])]

simulate_hrd(a) ==
    LET declared == \E k \in DOMAIN a.sps : Hrds(a.sps[k]) # <<>>
        f[k \in 0..Len(a.hrd_aus)] ==
            IF k = 0 THEN [NoSimulation EXCEPT !.status = "evidence_insufficient"]
            ELSE SimulateUnit(f[k - 1], a.hrd_aus[k])
    IN  IF declared THEN f[Len(a.hrd_aus)] ELSE NoSimulation

\* What the end of the sample adds to the pass over it.
Concluded(a) ==
    LET b == IF a.sps = <<>> THEN Lacks(a, "missing_sps") ELSE a
        c == IF a.pps = <<>> THEN Lacks(b, "missing_pps") ELSE b
        d == CloseAccessUnit(c)
    IN  Located([d EXCEPT !.maximum_gop = MaximumGop(d.idr_positions),
                          !.hrd = simulate_hrd(d)])

\* analyze_nalus: the analysis of units, after the issues of depacketizing.
Analyzed(units, issues) ==
    LET f[k \in 0..Len(units)] ==
            IF k = 0 THEN NewAnalysis(issues) ELSE ReadNalu(f[k - 1], units[k], k)
    IN  Concluded(f[Len(units)])
=============================================================================
