---------------------------- MODULE MCSipDesktop ----------------------------
(* What is captured, replayed, asked and answered in SipDesktop.            *)
EXTENDS SipDesktop

\* What remains of some dialogs, of which any messages may be missing.
Message(kind, method, key, status) ==
    [kind |-> kind, method |-> method, key |-> key, status |-> status]

Q(method, key) == Message("request", method, key, 0)
A(method, key, status) == Message("answer", method, key, status)

\* What is left of capture c.
Losses(c) ==
    {LET left == SelectSeq([i \in DOMAIN c |-> i], LAMBDA i : i \in S)
     IN [i \in DOMAIN left |-> c[left[i]]] : S \in SUBSET DOMAIN c}

\* Two probes, and a call whose INVITE is repeated.
ProbeAndCall ==
    <<Q("OPTIONS", 1), A("OPTIONS", 1, 200), Q("OPTIONS", 2), A("OPTIONS", 2, 486),
      Q("INVITE", 3), Q("INVITE", 3), A("INVITE", 3, 180), A("INVITE", 3, 200),
      Q("ACK", 4), Q("BYE", 5), A("BYE", 5, 200)>>

\* A call that is refused, one that is accepted, and a message of the peer.
TwoCalls ==
    <<Q("INVITE", 1), A("INVITE", 1, 486), Q("ACK", 1), Q("INVITE", 2),
      A("INVITE", 2, 200), Q("ACK", 3), Message("peer", "BYE", 4, 0),
      Q("BYE", 5), A("BYE", 5, 200)>>

\* A call renegotiated in the middle.
Renegotiated ==
    <<Q("INVITE", 1), A("INVITE", 1, 200), Q("ACK", 2), Q("INVITE", 3),
      A("INVITE", 3, 200), Q("ACK", 4), Q("BYE", 5), A("BYE", 5, 200)>>

MCCaptures == Losses(ProbeAndCall) \cup Losses(TwoCalls) \cup Losses(Renegotiated)

-----------------------------------------------------------------------------
\* Conversations: two calls over UDP, one of them renegotiated by the callee; a
\* cancelled call and a forked one on the same media port; a call over TCP, in
\* parts; a registration and an answer that does not fit.
CONSTANT None_   \* Option::None

Caller == [host |-> "a", port |-> 5060]
Callee == [host |-> "b", port |-> 5060]

Plain_ == [parses |-> TRUE, frames |-> TRUE, parts |-> 1, status |-> None_, sdp |-> None_,
           headers |-> {"Via", "From", "To", "Call-ID", "CSeq"}, credentials |-> FALSE,
           uri |-> "sip:b", aor |-> None_, register |-> None_]

With(r, s) == [f \in DOMAIN r \cup DOMAIN s |-> IF f \in DOMAIN s THEN s[f] ELSE r[f]]

Req(line, call, from, to, branch, n) ==
    With(Plain_, [line |-> line, call |-> call, from |-> from, to |-> to, branch |-> branch,
                  cseq |-> [number |-> n, method |-> line]])

Ans(m, status, to) == [m EXCEPT !.line = None_, !.status = status, !.to = to, !.sdp = None_]

\* One medium, at a port of a host.
Sdp(m, host, port, pts, direction) ==
    [m EXCEPT !.sdp = [ok |-> TRUE, media |->
        <<[type |-> "audio", address |-> host, port |-> port, protocol |-> "RTP/AVP",
           pts |-> pts, direction |-> direction]>>]]

Udp(m, from, to) == [kind |-> "sip", message |-> m, source |-> from, destination |-> to]

Rtp(owner, host, port, pt) ==
    [kind |-> "rtp", owner |-> owner, pt |-> pt, ssrc |-> 1,
     source |-> [host |-> "m", port |-> 9], destination |-> [host |-> host, port |-> port]]

Segment(from, to, position, part, syn, fin) ==
    [kind |-> "tcp", source |-> from, destination |-> to, position |-> position,
     part |-> part, syn |-> syn, fin |-> fin]

Part(m, k) == [message |-> m, part |-> k, size |-> 40]

A_ == <<"a">>
B_ == <<"b">>
C_ == <<"c">>

\* A call that its callee puts on hold.
Held ==
    LET inv == Sdp(Req("INVITE", "c1", A_, None_, "i1", 1), "a", 4000, {0, 8}, "sendrecv")
        hold   == Sdp(Req("INVITE", "c1", B_, A_, "i2", 7), "b", 4000, {9}, "sendonly")
        bye    == Req("BYE", "c1", A_, B_, "y1", 2)
    IN  [packets |->
            <<Udp(inv, Caller, Callee),
              Udp(Sdp(Ans(inv, 200, B_), "b", 4000, {0}, "sendrecv"), Callee, Caller),
              Udp(Req("ACK", "c1", A_, B_, "k1", 1), Caller, Callee), Rtp("c1", "a", 4000, 0),
              Udp(hold, Callee, Caller),
              Udp(Sdp(Ans(hold, 200, A_), "a", 4000, {9}, "recvonly"), Caller, Callee),
              Udp(bye, Caller, Callee), Udp(Ans(bye, 200, B_), Callee, Caller)>>,
         forks |-> FALSE, mismatch |-> FALSE, codes |-> {"sip_renegotiation"}]

\* A call that is cancelled, and one on the same port that two phones answer.
CancelledAndForked ==
    LET inv == Sdp(Req("INVITE", "c1", A_, None_, "i1", 1), "a", 4000, {0}, "sendrecv")
        cancel == [inv EXCEPT !.line = "CANCEL", !.cseq.method = "CANCEL", !.sdp = None_]
        again  == Sdp(Req("INVITE", "c2", A_, None_, "i2", 1), "a", 4000, {0}, "sendrecv")
    IN  [packets |->
            <<Udp(inv, Caller, Callee), Udp(cancel, Caller, Callee),
              Udp(Ans(cancel, 200, B_), Callee, Caller), Udp(Ans(inv, 487, B_), Callee, Caller),
              Udp(Req("ACK", "c1", A_, B_, "i1", 1), Caller, Callee),
              Udp(again, Caller, Callee),
              Udp(Sdp(Ans(again, 200, B_), "b", 4000, {0}, "sendrecv"), Callee, Caller),
              Udp(Sdp(Ans(again, 200, C_), "c", 4000, {0}, "sendrecv"), Callee, Caller),
              Rtp("c2", "a", 4000, 0)>>,
         forks |-> TRUE, mismatch |-> FALSE,
         codes |-> {"sip_cancel", "sip_negative_response", "sip_fork_candidates"}]

\* A call over TCP; INVITE and BYE come in two segments each.
OverTcp ==
    LET inv == [Req("INVITE", "c1", A_, None_, "i1", 1) EXCEPT !.parts = 2]
        bye    == [Req("BYE", "c1", A_, B_, "y1", 2) EXCEPT !.parts = 2]
        Up(position, part) == Segment(Caller, Callee, position, part, FALSE, FALSE)
    IN  [packets |->
            <<Segment(Caller, Callee, 1, None_, TRUE, FALSE), Up(1, Part(inv, 1)),
              Up(2, Part(inv, 2)),
              Segment(Callee, Caller, 1, Part([Ans(inv, 200, B_) EXCEPT !.parts = 1], 1),
                      FALSE, FALSE),
              Up(3, Part(bye, 1)), Up(4, Part(bye, 2)),
              Segment(Caller, Callee, 5, None_, FALSE, TRUE)>>,
         forks |-> FALSE, mismatch |-> FALSE, codes |-> {}]

\* A registration, and a call whose answer has another payload type.
Mismatching ==
    LET register == Req("REGISTER", "r1", A_, None_, "r1", 1)
        inv   == Sdp(Req("INVITE", "c1", A_, None_, "i1", 1), "a", 4000, {0}, "sendrecv")
        bye      == Req("BYE", "c1", A_, B_, "y1", 2)
    IN  [packets |->
            <<Udp(register, Caller, Callee), Udp(Ans(register, 401, B_), Callee, Caller),
              Udp(inv, Caller, Callee), Udp(inv, Caller, Callee),
              Udp(Sdp(Ans(inv, 200, B_), "b", 4000, {8}, "sendrecv"), Callee, Caller),
              Udp(Req("ACK", "c1", A_, B_, "k1", 1), Caller, Callee),
              Udp(bye, Caller, Callee), Udp(Ans(bye, 200, B_), Callee, Caller)>>,
         forks |-> FALSE, mismatch |-> TRUE,
         codes |-> {"sip_auth_challenge", "sip_sdp_answer_mismatch"}]

MCScripts == <<Held, CancelledAndForked, OverTcp, Mismatching>>

-----------------------------------------------------------------------------
\* Two INVITEs, CANCEL and ACK of the first, and what cannot be answered.
BusyRequests ==
    LET inv == Req("INVITE", "c1", A_, None_, "i1", 1)
        tag    == <<"c1", 1, "INVITE", A_, "i1">>
    IN  {inv, Req("INVITE", "c2", A_, None_, "i2", 1), Req("INVITE", "c3", A_, None_, "i3", 1),
         [inv EXCEPT !.line = "CANCEL", !.cseq.method = "CANCEL"],
         Req("ACK", "c1", A_, tag, "i1", 1), Req("OPTIONS", "o", A_, None_, "o1", 1),
         [inv EXCEPT !.headers = {"Via", "From", "To", "CSeq"}, !.branch = "i4"]}

Register(n, count, right, contact, expires) ==
    [Req("REGISTER", "r", A_, None_, n, n) EXCEPT
        !.aor = "u",
        !.register = [auth |-> IF count = 0 THEN None_
                               ELSE [client |-> "x", count |-> count, right |-> right],
                      contact |-> [kind |-> contact, uri |-> n, expires |-> None_],
                      expires |-> expires]]

Seconds(n) == [bad |-> FALSE, seconds |-> n]

\* A challenge, bindings, their end, wrong credentials and a bad request.
RegistrarRequests ==
    {Register(1, 0, FALSE, "uri", None_), Register(2, 1, TRUE, "uri", Seconds(9)),
     Register(3, 2, TRUE, "uri", None_), Register(4, 3, TRUE, "all", Seconds(0)),
     Register(5, 2, FALSE, "uri", None_), Register(6, 2, TRUE, "list", [bad |-> TRUE])}

MCDeviceSends == [which \in {"busy", "registrar"} |->
                     IF which = "busy" THEN BusyRequests ELSE RegistrarRequests]

-----------------------------------------------------------------------------
\* Two devices connect to the engine, one with a message in two parts and one
\* whose length cannot be told behind others.
Said(id, parts, answered, frames) ==
    [id |-> id, parts |-> parts, answered |-> answered, frames |-> frames]

MCTalks ==
    [p |-> <<Said(1, 2, TRUE, TRUE), Said(2, 1, FALSE, TRUE), Said(3, 1, TRUE, TRUE)>>,
     q |-> <<Said(1, 1, TRUE, TRUE), Said(2, 1, TRUE, FALSE), Said(3, 1, TRUE, TRUE)>>]

\* The answers to a probe come whole or in parts, twice, or are another's.
Answer_(own, status, parts) == [own |-> own, status |-> status, parts |-> parts]

MCReplies ==
    LET trying == Answer_(TRUE, 100, 1)
        ok     == Answer_(TRUE, 200, 2)
        absent == Answer_(TRUE, 404, 1)
        other  == Answer_(FALSE, 200, 1)
    IN  UNION {[1..n -> {trying, ok, absent, other}] : n \in 0..3}
=============================================================================
