---------------------------- MODULE H265Analysis ------------------------------
(***************************************************************************)
(* analyze_nalu_results of crates/h265/src/lib.rs: the pass over the units *)
(* of an H.265 sample.  Random access frames are those of types 16 to 23   *)
(* (IRAP), of which only some are IDR; there is no look at the marker and  *)
(* no decoder-buffer model.                                                *)
(*                                                                         *)
(* nal.type is vps, sps, pps, idr, cra, bla (types 16 to 18 and the        *)
(* reserved 22 and 23), slice or other.                                    *)
(***************************************************************************)
EXTENDS VideoFrames

NewAnalysis(issues) ==
    [nalu_count |-> 0, incomplete_nalus |-> 0, nalus |-> <<>>, issues |-> issues,
     sps |-> <<>>, pps |-> <<>>, vps_count |-> 0, changes |-> <<>>, frame |-> 0,
     frames |-> <<>>, stamps |-> {}, first_frame_is_irap |-> None,
     irap_positions |-> <<>>, vps_before_first_irap |-> FALSE,
     sps_before_first_irap |-> FALSE, pps_before_first_irap |-> FALSE,
     maximum_gop |-> None]

ReadSps(a, u, number) ==
    LET new    == [id |-> u.nal.id, fields |-> u.nal.fields]
        fields == ChangedFields(a.sps, new)
        b      == IF "resolution" \in fields THEN Issue(a, "resolution_changed", u) ELSE a
    IN  IF ~u.nal.parses THEN Issue(a, "invalid_sps", u)
        ELSE ParameterChange([b EXCEPT !.sps = Stored(@, new)],
                             "sps", new, fields, number)

ReadPps(a, u, number) ==
    LET new == [id |-> u.nal.id, fields |-> u.nal.fields]
        b   == IF u.nal.fields.sps \notin SetIds(a.sps)
               THEN Issue(a, "pps_missing_sps", u) ELSE a
    IN  IF ~u.nal.parses THEN Issue(a, "invalid_pps", u)
        ELSE ParameterChange([b EXCEPT !.pps = Stored(@, new)],
                             "pps", new, ChangedFields(a.pps, new), number)

Irap(u) == u.nal.type \in {"idr", "cra", "bla"}

FirstIrap(a, u) ==
    IF ~Irap(u) THEN a
    ELSE LET b == [a EXCEPT !.irap_positions = Append(@, a.frame)]
         IN  IF a.irap_positions # <<>> THEN b
             ELSE [b EXCEPT !.vps_before_first_irap = a.vps_count > 0,
                            !.sps_before_first_irap = a.sps # <<>>,
                            !.pps_before_first_irap = a.pps # <<>>]

ReadSlice(a, u, number) ==
    LET s == Stamped(a, u)
        b == OpenFrame(s, u, number, Irap(u))
    IN  IF StartsFrame(a, u)
        THEN FirstIrap([b EXCEPT !.first_frame_is_irap =
                            IF @ = None THEN Irap(u) ELSE @], u)
        ELSE JoinFrame(s, u, number, Irap(u))

ReadNalu(a, u, number) ==
    LET b == CountNalu(a, u, number)
        c == IF u.nal.forbidden THEN Issue(b, "invalid_nalu_header", u) ELSE b
    IN  CASE u.nal.type = "vps" -> [c EXCEPT !.vps_count = @ + 1]
          [] u.nal.type = "sps" -> ReadSps(c, u, number)
          [] u.nal.type = "pps" -> ReadPps(c, u, number)
          [] Irap(u) \/ u.nal.type = "slice" -> ReadSlice(c, u, number)
          [] OTHER -> c

Concluded(a) ==
    LET b == IF a.vps_count = 0 THEN Lacks(a, "missing_vps") ELSE a
        c == IF a.sps = <<>> THEN Lacks(b, "missing_sps") ELSE b
        d == IF a.pps = <<>> THEN Lacks(c, "missing_pps") ELSE c
    IN  Located([d EXCEPT !.maximum_gop = MaximumGop(d.irap_positions)])

Analyzed(units, issues) ==
    LET f[k \in 0..Len(units)] ==
            IF k = 0 THEN NewAnalysis(issues) ELSE ReadNalu(f[k - 1], units[k], k)
    IN  Concluded(f[Len(units)])
=============================================================================
