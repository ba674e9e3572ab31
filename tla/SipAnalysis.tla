---------------------------- MODULE SipAnalysis -----------------------------
(***************************************************************************)
(* analyze_pcap of crates/sip/src/lib.rs: what is reported of the SIP      *)
(* messages and the RTP packets of a capture, whichever of them it has.    *)
(*                                                                         *)
(* A message is a record of what is read of it: whether it parses, and     *)
(* whether its length can be told; the method of its request line or its   *)
(* status; which required headers it has; Call-ID, the tags, the branch of *)
(* the first Via and the CSeq with its number and method; and its SDP.     *)
(* A packet is captured at a time, from one endpoint to another, and holds *)
(* a message, an RTP packet or a TCP segment.  A segment is its position   *)
(* in its direction and holds one part of a message.                       *)
(***************************************************************************)
EXTENDS Integers, Sequences, FiniteSets
LOCAL INSTANCE SequencesExt
LOCAL INSTANCE FiniteSetsExt

CONSTANTS
    None,         \* Option::None
    MaxMessages,  \* MAX_MESSAGES, 100000
    MaxTcpFlows,  \* MAX_TCP_FLOWS, 256
    MaxRtpFlows,  \* MAX_RTP_FLOWS, 4096
    MaxFindings,  \* 10000
    MaxBuffer,    \* bytes of a message over TCP, 1 MiB
    Names,        \* addresses that are no IP addresses
    Unspecified   \* the address that puts a medium on hold

LOCAL INSTANCE TcpDirection

NewReport == [messages |-> <<>>, exchanges |-> <<>>, media |-> <<>>,
              findings |-> <<>>, truncated |-> FALSE]

\* finding
Finding(r, severity, code, packet, call) ==
    IF Len(r.findings) >= MaxFindings THEN [r EXCEPT !.truncated = TRUE]
    ELSE [r EXCEPT !.findings = Append(@, [severity |-> severity, code |-> code,
                                           packet |-> packet, call |-> call])]

Found(r, findings) ==
    FoldLeft(LAMBDA s, f : Finding(s, f.severity, f.code, f.packet, f.call), r, findings)

-----------------------------------------------------------------------------
IsRequest(m) == m.status = None

\* SipMessage::method: that of an answer is in its CSeq.
Method(m) == IF IsRequest(m) THEN m.line
             ELSE IF m.cseq = None THEN None ELSE m.cseq.method

Required == <<"Via", "From", "To", "Call-ID", "CSeq">>

\* The headers of a message that parses.
Judged(r, m, number) ==
    LET s == IF IsRequest(m) /\ m.cseq # None /\ m.cseq.method # m.line
             THEN Finding(r, "warn", "cseq_method_mismatch", number, m.call) ELSE r
    IN  FoldLeft(LAMBDA t, h : IF h \in m.headers THEN t
                               ELSE Finding(t, "warn", "missing_required_header", number, m.call),
                 s, Required)

\* An offer or an answer.
Exchanged(r, m, number) ==
    IF Len(r.exchanges) >= MaxMessages THEN [r EXCEPT !.truncated = TRUE]
    ELSE [r EXCEPT !.exchanges =
              Append(@, [packet |-> number, call |-> m.call, cseq |-> m.cseq,
                         method |-> Method(m), request |-> IsRequest(m),
                         media |-> m.sdp.media, paired |-> None, assessment |-> "unpaired"])]

\* A medium is expected where it is announced, unless it is refused.
Announced(r, m, number, media) ==
    CASE media.address = None ->
            Finding(r, "warn", "sdp_missing_connection", number, m.call)
      [] media.address # None /\ media.port = 0 -> r
      [] OTHER ->
            IF Len(r.media) >= MaxRtpFlows THEN [r EXCEPT !.truncated = TRUE]
            ELSE [r EXCEPT !.media =
                      Append(@, [call |-> m.call, packet |-> number, type |-> media.type,
                                 address |-> media.address, port |-> media.port,
                                 pts |-> media.pts])]

Described(r, m, number) ==
    IF m.sdp = None THEN r
    ELSE IF ~m.sdp.ok THEN Finding(r, "warn", "invalid_sdp", number, m.call)
    ELSE FoldLeft(LAMBDA s, media : Announced(s, m, number, media),
                  Exchanged(r, m, number), m.sdp.media)

\* The message m in packet p.
record_message(r, m, p) ==
    IF Len(r.messages) >= MaxMessages THEN [r EXCEPT !.truncated = TRUE]
    ELSE IF ~m.parses THEN Finding(r, "warn", "sip_parse_error", p.number, None)
    ELSE LET s == Described(Judged(r, m, p.number), m, p.number)
         IN  [s EXCEPT !.messages =
                  Append(@, [packet |-> p.number, at |-> p.at, source |-> p.source,
                             destination |-> p.destination, method |-> Method(m),
                             status |-> m.status, call |-> m.call, from |-> m.from,
                             to |-> m.to, branch |-> m.branch, cseq |-> m.cseq])]

-----------------------------------------------------------------------------
\* feed_tcp.  A part of a message: which of its parts it is, and its size.
Size(buffer) == FoldLeft(LAMBDA n, part : n + part.size, 0, buffer)

Emptied(f) == [f EXCEPT !.buffer = <<>>, !.first = None]

\* The parts of the first message in the buffer are taken as they come: the
\* header says how many belong to it.  A message put together from parts of
\* several parses, with a body that is nobody's.
Framed(r, f, p) ==
    LET head == f.buffer[1].message
        own  == SubSeq(f.buffer, 1, head.parts)
        rest == SubSeq(f.buffer, head.parts + 1, Len(f.buffer))
        at   == IF f.first = None THEN p ELSE f.first
        m    == IF \A k \in DOMAIN own : own[k].message = head THEN head
                ELSE [head EXCEPT !.sdp = None]
    IN  [report |-> record_message(r, m, at),
         flow |-> [f EXCEPT !.buffer = rest, !.first = IF rest = <<>> THEN None ELSE p]]

\* One turn of the loop; it stands still when it has to wait for more.
Turn(x, p) ==
    LET f == x.flow
        Lost(code) == [report |-> Finding(x.report, "warn", code, f.first.number, None),
                       flow |-> Emptied(f)]
    IN  CASE f.buffer = <<>> -> x
          [] f.buffer # <<>> /\ f.buffer[1].part # 1 ->
                IF Size(f.buffer) < 64 THEN x ELSE Lost("sip_tcp_sync")
          [] f.buffer # <<>> /\ f.buffer[1].part = 1 ->
                IF ~f.buffer[1].message.frames THEN Lost("sip_tcp_frame")
                ELSE IF Len(f.buffer) < f.buffer[1].message.parts THEN x
                ELSE Framed(x.report, f, p)

\* Mutant of Cut: what is left of a message is kept across a hole.
CutNever(f, broken) == f

\* A hole: what was begun before it cannot be completed.
Cut(f, broken) == IF broken THEN Emptied(f) ELSE f

\* p is the packet in which the part was captured.
feed_tcp(x, p, broken) ==
    LET cut  == Cut(x.flow, broken)
        full == [cut EXCEPT !.buffer = Append(@, p.part),
                            !.first = IF cut.buffer = <<>> THEN p ELSE @]
        turns[n \in 0..Len(full.buffer)] ==
            IF n = 0 THEN [report |-> x.report, flow |-> full] ELSE Turn(turns[n - 1], p)
    IN  IF Size(full.buffer) > MaxBuffer
        THEN [report |-> Finding(x.report, "warn", "sip_tcp_overflow", p.number, None),
              flow |-> Emptied(full)]
        ELSE turns[Len(full.buffer)]

-----------------------------------------------------------------------------
\* A TcpFlow; of a segment that is held back the packet is kept.
NewFlow == [reassembly |-> NewReassembly, buffer |-> <<>>, first |-> None,
            confirmed |-> FALSE, held |-> [q \in {} |-> None]]

\* What the reassembly gave out goes to the decoder if the flow is SIP.
Delivered(r, flow, pushed) ==
    LET f == [flow EXCEPT !.reassembly = pushed.dir]
    IN  IF ~f.confirmed THEN [report |-> r, flow |-> f]
        ELSE FoldLeft(LAMBDA x, q : feed_tcp(x, flow.held[q], q \in pushed.broken),
                      [report |-> r, flow |-> f], pushed.out)

\* The connection or the capture is over.
Closed(r, flow) ==
    LET x == Delivered(r, flow, FinishDirection(flow.reassembly))
    IN  IF x.flow.confirmed /\ x.flow.buffer # <<>>
        THEN Finding(x.report, "info", "sip_tcp_partial", x.flow.first.number, None)
        ELSE x.report

Without(f, k)   == [x \in DOMAIN f \ {k} |-> f[x]]
With(f, k, v)   == [x \in DOMAIN f \cup {k} |-> IF x = k THEN v ELSE f[x]]

Plain(p)  == 5060 \in {p.source.port, p.destination.port}
Starts(p) == p.part # None /\ p.part.part = 1

\* The state of the visit: [report, tcp, rtp, tls].
NewVisit == [report |-> NewReport, tcp |-> [k \in {} |-> None],
             rtp |-> [k \in {} |-> None], tls |-> 0]

\* A SYN begins the flow anew.  guess and skip: the segments held are old enough
\* to begin with the first of them, and to give up a hole.
TcpPacket(v, p) ==
    LET key    == <<p.source, p.destination>>
        w      == [v EXCEPT !.tls = IF 5061 \in {p.source.port, p.destination.port}
                                    THEN @ + 1 ELSE @,
                            !.tcp = IF p.syn THEN Without(@, key) ELSE @]
        known  == IF key \in DOMAIN w.tcp THEN w.tcp[key] ELSE NewFlow
        flow   == [known EXCEPT
                      !.confirmed = @ \/ Plain(p) \/ Starts(p),
                      !.held = IF p.part = None \/ p.position \in known.reassembly.held
                               THEN @ ELSE With(@, p.position, p),
                      !.reassembly.next = IF p.syn /\ @ = None THEN p.position ELSE @]
        pushed == IF p.part = None
                  THEN [dir |-> flow.reassembly, out |-> <<>>, broken |-> {}]
                  ELSE PushSegment(flow.reassembly, p.position, p.guess, p.skip)
        x      == Delivered(w.report, flow, pushed)
    IN  IF key \notin DOMAIN w.tcp /\ Cardinality(DOMAIN w.tcp) >= MaxTcpFlows
        THEN [w EXCEPT !.report.truncated = TRUE]
        ELSE IF key \notin DOMAIN w.tcp /\ ~Plain(p) /\ ~Starts(p) THEN w
        ELSE IF p.fin
        THEN [w EXCEPT !.report = Closed(x.report, x.flow), !.tcp = Without(@, key)]
        ELSE [w EXCEPT !.report = x.report, !.tcp = With(@, key, x.flow)]

\* RTP is counted per receiver and payload type.
RtpPacket(v, p) ==
    LET key == <<p.destination.host, p.destination.port, p.pt>>
        new == [count |-> 0, first |-> p.number, last |-> p.number,
                begin |-> p.at, end |-> p.at, ssrc |-> {}]
        old == IF key \in DOMAIN v.rtp THEN v.rtp[key] ELSE new
    IN  IF key \notin DOMAIN v.rtp /\ Cardinality(DOMAIN v.rtp) >= MaxRtpFlows
        THEN [v EXCEPT !.report.truncated = TRUE]
        ELSE [v EXCEPT !.rtp = With(@, key,
                  [count |-> old.count + 1,
                   first |-> Min({old.first, p.number}), last |-> Max({old.last, p.number}),
                   begin |-> Min({old.begin, p.at}), end |-> Max({old.end, p.at}),
                   ssrc |-> IF Cardinality(old.ssrc) < 32 THEN old.ssrc \cup {p.ssrc}
                            ELSE old.ssrc])]

Visited(v, p) ==
    CASE p.kind = "sip" -> [v EXCEPT !.report = record_message(@, p.message, p)]
      [] p.kind = "rtp" -> RtpPacket(v, p)
      [] p.kind = "tcp" -> TcpPacket(v, p)
      [] OTHER -> v

-----------------------------------------------------------------------------
\* finish_report.  Everything is a function of the messages in their order.
Of(r, Chosen(_)) == SelectSeq(r.messages, Chosen)

Only(s, P(_)) == SelectSeq(s, P)
First(s) == IF s = <<>> THEN None ELSE s[1]
Final(s) == IF s = <<>> THEN None ELSE s[Len(s)]
Packet(m) == IF m = None THEN None ELSE m.packet
StatusesIn(s, range) == {s[k].status : k \in DOMAIN s} \cap range
Ok(m) == m.status # None /\ m.status \in 200..299

CallIds(r) == {r.messages[k].call : k \in DOMAIN r.messages} \ {None}

\* The two tags of a message, in either order.
Tags(m) == IF None \in {m.from, m.to} THEN None ELSE {m.from, m.to}

DialogKeys(r) ==
    LET within == Of(r, LAMBDA m : m.call # None /\ Tags(m) # None)
    IN  {<<within[k].call, Tags(within[k])>> : k \in DOMAIN within}

CallOf(r, call) ==
    LET all == Of(r, LAMBDA m : m.call = call)
        numbers == {all[k].packet : k \in DOMAIN all}
    IN  [call |-> call, first |-> Min(numbers), last |-> Max(numbers),
         count |-> Len(all), methods |-> {all[k].method : k \in DOMAIN all} \ {None},
         dialogs |-> Cardinality({k \in DialogKeys(r) : k[1] = call})]

DialogOf(r, key) ==
    LET all == Of(r, LAMBDA m : m.call = key[1] /\ Tags(m) = key[2])
        Seen(method, P(_)) == Packet(Final(Only(all, LAMBDA m : m.method = method /\ P(m))))
        success == Seen("INVITE", Ok)
        ack     == Seen("ACK", IsRequest)
        bye     == Seen("BYE", IsRequest)
        ended   == Seen("BYE", Ok)
    IN  [call |-> key[1], tags |-> key[2], first |-> all[1].packet,
         invite_success |-> success, ack |-> ack, bye |-> bye, bye_success |-> ended,
         state |-> CASE ended # None -> "bye_success"
                     [] ended = None /\ bye # None -> "bye"
                     [] ended = None /\ bye = None /\ ack # None -> "ack"
                     [] ended = None /\ bye = None /\ ack = None /\ success # None -> "success"
                     [] OTHER -> "early"]

\* The messages of a transaction.
Key(m) == <<m.call, m.branch, m.cseq.number, m.method>>

Keyed(m) == None \notin {m.call, m.branch, m.cseq, m.method}

Keys(r) == LET keyed == Of(r, Keyed) IN {Key(keyed[k]) : k \in DOMAIN keyed}

Behind(m, n) == IF m.at > n.at THEN (m.at - n.at) \div 1000 ELSE 0

\* Times are taken from the first request to answers captured behind it.
TransactionOf(r, key) ==
    LET all      == Of(r, LAMBDA m : Keyed(m) /\ Key(m) = key)
        requests == Only(all, IsRequest)
        answers  == Only(all, LAMBDA m : ~IsRequest(m))
        begun    == {k \in DOMAIN all : IsRequest(all[k])}
        timed    == IF begun = {} THEN <<>>
                    ELSE Only(SubSeq(all, Min(begun), Len(all)), LAMBDA m : ~IsRequest(m))
        finals   == Only(answers, LAMBDA m : m.status >= 200)
        final    == Final(finals)
        done     == Final(Only(timed, LAMBDA m : m.status >= 200))
        status   == IF final = None THEN None ELSE final.status
    IN  [call |-> key[1], branch |-> key[2], method |-> key[4],
         request |-> Packet(First(requests)), final_status |-> status,
         answers |-> [k \in DOMAIN answers |-> answers[k].packet],
         retransmissions |-> IF requests = <<>> THEN 0 ELSE Len(requests) - 1,
         provisional |-> StatusesIn(answers, 0..199), finals |-> StatusesIn(answers, 200..999),
         first_response |-> IF timed = <<>> THEN None ELSE Behind(timed[1], requests[1]),
         final_response |-> IF done = None THEN None ELSE Behind(done, requests[1]),
         outcome |-> CASE requests = <<>> -> "no_request"
                       [] requests # <<>> /\ final = None -> "no_final"
                       [] OTHER -> IF status \in 300..399 THEN "redirected"
                                   ELSE IF status >= 400 THEN "refused" ELSE "accepted"]

Note(severity, code, packet, call) ==
    [severity |-> severity, code |-> code, packet |-> packet, call |-> call]

\* A final answer that is no success.
Negative(t) ==
    IF t.final_status = None \/ (t.final_status # None /\ t.final_status < 300) THEN <<>>
    ELSE LET challenge == t.final_status \in {401, 407}
             expected  == challenge \/ t.final_status \in 300..399 \cup {487}
         IN  <<Note(IF expected THEN "info" ELSE "warn",
                    IF challenge THEN "sip_auth_challenge"
                    ELSE IF t.final_status < 400 THEN "sip_redirect"
                    ELSE "sip_negative_response",
                    t.answers[Len(t.answers)], t.call)>>

Forked(c) == IF c.dialogs > 1 THEN <<Note("info", "sip_fork_candidates", None, c.call)>>
             ELSE <<>>

Repeated(t) ==
    IF t.method = "INVITE" /\ Cardinality(t.finals) > 1
    THEN <<Note("info", "sip_multiple_final_responses", t.request, t.call)>> ELSE <<>>

\* The INVITE that a CANCEL ends was captured, before or after it.
Cancels(r, m) ==
    \E k \in DOMAIN r.messages :
        LET i == r.messages[k]
        IN  /\ IsRequest(i) /\ i.method = "INVITE" /\ None \notin {i.call, i.branch, i.cseq}
            /\ <<i.call, i.branch, i.cseq.number>> = <<m.call, m.branch, m.cseq.number>>

\* Requests within a dialog that are counted.
Counted(m) ==
    /\ IsRequest(m) /\ m.call # None /\ m.method \notin {"ACK", "CANCEL"}
    /\ None \notin {m.from, m.to, m.cseq}

\* A request is numbered below one captured before it, of the same sender.
Regresses(r, k) ==
    LET m == r.messages[k]
    IN  Counted(m) /\ \E j \in 1..(k - 1) :
            LET n == r.messages[j]
            IN  /\ Counted(n) /\ <<n.call, n.from, n.to>> = <<m.call, m.from, m.to>>
                /\ n.cseq.number > m.cseq.number

\* The findings on the request that is message k.  sip_cancel_alone stands for
\* the sip_cancel whose detail says that no INVITE was seen.
RequestNotes(r, k) ==
    LET m == r.messages[k]
        cancel == m.method = "CANCEL" /\ None \notin {m.branch, m.cseq}
    IN  IF ~IsRequest(m) \/ m.call = None THEN <<>>
        ELSE (IF ~cancel THEN <<>>
              ELSE <<Note("info", IF Cancels(r, m) THEN "sip_cancel" ELSE "sip_cancel_alone",
                          m.packet, m.call)>>)
          \o (IF (m.method = "INVITE" /\ m.to # None) \/ m.method = "UPDATE"
              THEN <<Note("info", "sip_renegotiation", m.packet, m.call)>> ELSE <<>>)
          \o (IF Regresses(r, k)
              THEN <<Note("warn", "sip_cseq_regression", m.packet, m.call)>> ELSE <<>>)

-----------------------------------------------------------------------------
\* assess_sdp_answer: medium by medium, a refused one is not looked at.
Fits(offered, answered) ==
    /\ answered.type = offered.type /\ answered.protocol = offered.protocol
    /\ answered.port # 0 =>
           /\ answered.pts \subseteq offered.pts
           /\ CASE offered.direction = "sendonly" ->
                       answered.direction \in {"recvonly", "inactive"}
                [] offered.direction = "recvonly" ->
                       answered.direction \in {"sendonly", "inactive"}
                [] offered.direction = "inactive" -> answered.direction = "inactive"
                [] OTHER -> TRUE

assess_sdp_answer(offer, answer) ==
    IF Len(offer.media) = Len(answer.media)
       /\ \A k \in DOMAIN offer.media : Fits(offer.media[k], answer.media[k])
    THEN "accepted" ELSE "mismatch"

\* The offer and the answer of a request have its Call-ID and its CSeq.
SameExchange(x, y) == <<x.call, x.cseq, x.method>> = <<y.call, y.cseq, y.method>>

\* The offer that the answer k is compared with: the first before it.
OfferOf(r, k) ==
    LET offers == {j \in 1..(k - 1) : /\ r.exchanges[j].request /\ ~r.exchanges[k].request
                                      /\ SameExchange(r.exchanges[j], r.exchanges[k])}
    IN  IF offers = {} THEN None ELSE Min(offers)

Assessment(r, k) == assess_sdp_answer(r.exchanges[OfferOf(r, k)], r.exchanges[k])

\* An offer is told the last of its answers.
Paired(r) ==
    [k \in DOMAIN r.exchanges |->
        LET answers == {j \in DOMAIN r.exchanges : OfferOf(r, j) = k}
            Told(other, answer) == [r.exchanges[k] EXCEPT !.paired = r.exchanges[other].packet,
                                                           !.assessment = Assessment(r, answer)]
        IN  IF OfferOf(r, k) # None THEN Told(OfferOf(r, k), k)
            ELSE IF answers # {} THEN Told(Max(answers), Max(answers))
            ELSE r.exchanges[k]]

AnswerNotes(r) ==
    LET bad == SelectSeq([k \in DOMAIN r.exchanges |-> k],
                         LAMBDA k : OfferOf(r, k) # None /\ Assessment(r, k) = "mismatch")
    IN  [k \in DOMAIN bad |-> Note("warn", "sip_sdp_answer_mismatch",
                                   r.exchanges[bad[k]].packet, r.exchanges[bad[k]].call)]

-----------------------------------------------------------------------------
\* The RTP that goes where a medium is expected.
Matched(r, k, rtp) ==
    LET b     == r.media[k]
        ip    == b.address \notin Names /\ b.address # Unspecified
        flows == IF ~ip THEN {}
                 ELSE {rtp[f] : f \in {f \in DOMAIN rtp :
                           f[1] = b.address /\ f[2] = b.port /\ f[3] \in b.pts}}
        keys  == IF ~ip THEN {}
                 ELSE {f \in DOMAIN rtp : f[1] = b.address /\ f[2] = b.port /\ f[3] \in b.pts}
        shared == \E j \in DOMAIN r.media : /\ r.media[j].call # b.call
                                            /\ r.media[j].address = b.address
                                            /\ r.media[j].port = b.port
        count == FoldSet(LAMBDA f, n : n + rtp[f].count, 0, keys)
    IN  [call |-> b.call, packet |-> b.packet, address |-> b.address, port |-> b.port,
         pts |-> b.pts, count |-> count, ssrc |-> UNION {f.ssrc : f \in flows},
         first |-> IF flows = {} THEN None ELSE Min({f.first : f \in flows}),
         last  |-> IF flows = {} THEN None ELSE Max({f.last : f \in flows}),
         begin |-> IF flows = {} THEN None ELSE Min({f.begin : f \in flows}),
         end   |-> IF flows = {} THEN None ELSE Max({f.end : f \in flows}),
         quality |-> CASE shared -> "shared"
                       [] ~shared /\ b.address \in Names -> "name"
                       [] ~shared /\ b.address = Unspecified -> "hold"
                       [] OTHER -> IF count > 0 THEN "candidate" ELSE "none"]

\* The report that has the notes in s.
Noted(r, rtp, s, trans, calls) ==
    [messages |-> s.messages, transactions |-> trans, calls |-> calls,
     dialogs |-> {DialogOf(r, key) : key \in DialogKeys(r)},
     exchanges |-> Paired(r),
     media |-> [k \in DOMAIN r.media |-> Matched(r, k, rtp)],
     findings |-> s.findings, truncated |-> s.truncated]

Limited(r) ==
    IF r.truncated THEN Finding(r, "info", "limit_reached", None, None) ELSE r

finish_report(r, rtp) ==
    LET calls   == SetToSeq({CallOf(r, c) : c \in CallIds(r)})
        trans   == SetToSeq({TransactionOf(r, key) : key \in Keys(r)})
        Each(s, Notes(_)) == FlattenSeq([k \in DOMAIN s |-> Notes(s[k])])
        notes   == Each(trans, Negative) \o Each(calls, Forked)
                     \o FlattenSeq([k \in DOMAIN r.messages |-> RequestNotes(r, k)])
                     \o Each(trans, Repeated) \o AnswerNotes(r)
    IN  Limited(Noted(r, rtp, Found(r, notes), trans, calls))

\* The end of the visit: the flows that are open are closed in any order.
Visits(v, skipped) ==
    LET r == IF skipped THEN Finding(v.report, "info", "network_frames_skipped", None, None)
             ELSE v.report
        s == IF v.tls > 0 THEN Finding(r, "info", "sip_tls_unavailable", None, None) ELSE r
    IN  finish_report(FoldSet(LAMBDA k, u : Closed(u, v.tcp[k]), s, DOMAIN v.tcp), v.rtp)

Plaintext(r) ==
    IF r.messages = <<>> THEN Finding(r, "info", "no_plaintext_sip", None, None) ELSE r

analyze_pcap(packets) ==
    Plaintext(Visits(FoldLeft(Visited, NewVisit, packets),
                     \E k \in DOMAIN packets : packets[k].kind = "skipped"))

-----------------------------------------------------------------------------
\* SipReport::redacted.  An identifier is replaced by a number, the same one
\* wherever it occurs: calls, tags, branches and addresses each have their own.
Aliases(identifiers) ==
    LET own == SelectSeq(identifiers, LAMBDA x : x # None)
        new == SelectSeq([k \in DOMAIN own |-> k],
                         LAMBDA k : \A j \in 1..(k - 1) : own[j] # own[k])
    IN  [x \in Range(own) |-> CHOOSE n \in DOMAIN new : own[new[n]] = x]

Alias(aliases, x) == IF x = None THEN None ELSE aliases[x]

\* In the order in which they are met, those of the messages before all others.
Redacted(r) ==
    LET Each(s, Ids(_)) == FlattenSeq([k \in DOMAIN s |-> Ids(s[k])])
        calls     == Aliases(Each(r.messages, LAMBDA m : <<m.call>>)
                               \o Each(r.findings, LAMBDA f : <<f.call>>))
        tags      == Aliases(Each(r.messages, LAMBDA m : <<m.from, m.to>>))
        branches  == Aliases(Each(r.messages, LAMBDA m : <<m.branch>>))
        addresses == Aliases(Each(r.messages, LAMBDA m : <<m.source.host, m.destination.host>>)
                               \o Each(r.media, LAMBDA b : <<b.address>>)
                               \o Each(r.exchanges, LAMBDA x :
                                         [k \in DOMAIN x.media |-> x.media[k].address]))
        All(s, Hide(_)) == [k \in DOMAIN s |-> Hide(s[k])]
        Call(x) == [x EXCEPT !.call = Alias(calls, @)]
        Socket(socket) == [socket EXCEPT !.host = Alias(addresses, @)]
    IN  [messages |-> All(r.messages, LAMBDA m :
            [Call(m) EXCEPT !.from = Alias(tags, @), !.to = Alias(tags, @),
                            !.branch = Alias(branches, @),
                            !.source = Socket(@), !.destination = Socket(@)]),
         transactions |-> All(r.transactions, LAMBDA t :
            [Call(t) EXCEPT !.branch = Alias(branches, @)]),
         calls |-> All(r.calls, Call),
         dialogs |-> {[Call(d) EXCEPT !.tags = {Alias(tags, t) : t \in @}] : d \in r.dialogs},
         exchanges |-> All(r.exchanges, LAMBDA x :
            [Call(x) EXCEPT !.media = All(@, LAMBDA b :
                [b EXCEPT !.address = Alias(addresses, @)])]),
         media |-> All(r.media, LAMBDA b :
            [Call(b) EXCEPT !.address = Alias(addresses, @)]),
         findings |-> All(r.findings, Call), truncated |-> r.truncated]
=============================================================================
