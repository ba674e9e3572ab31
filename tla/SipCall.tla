------------------------------- MODULE SipCall ------------------------------
(***************************************************************************)
(* The test call of apps/sip-engine/src/call.rs (CallEngine), in the event *)
(* loop of main.rs: one thread takes a datagram or times out, answers it,  *)
(* and runs tick.  The callers are user agents somewhere else; the network *)
(* between them loses, repeats, delays and reorders datagrams: `network`   *)
(* holds all that were ever sent, and any of them may arrive at any time,  *)
(* any number of times or never.  So sending one again changes nothing,    *)
(* and neither do the timers that do (next_response, response_interval).   *)
(*                                                                         *)
(* A caller has one address, From tag and Call-ID, so `peer` stands for    *)
(* all three where the code compares them; two callers may have the same   *)
(* Call-ID.  An INVITE's CSeq number n also stands for its Via.  The To    *)
(* tag of an answer is a hash of exactly these unless the INVITE has one.  *)
(* Left out: the text of messages, the media packets themselves, and the   *)
(* answers to CANCEL, which tell its sender nothing about the call.        *)
(***************************************************************************)
EXTENDS Naturals, FiniteSets

CONSTANTS
    Callers,
    CallIds,
    MaxCalls,     \* MAX_CALLS: 16
    Expiry,       \* 32 s: how long an answer waits for its ACK
    MaxCSeq       \* bound on the requests of each caller

ASSUME CallAssumption ==
    /\ MaxCalls \in Nat \ {0} /\ Expiry \in Nat
    /\ MaxCSeq \in [Callers -> Nat]
    /\ "engine" \notin Callers

NoTag == 0

VARIABLES
    sessions,   \* CallEngine.sessions
    running,    \* whether the event loop runs
    network,    \* every datagram that was sent
    call_id,    \* the Call-ID of each caller
    caller      \* what each caller is doing

vars == <<sessions, running, network, call_id, caller>>

Session == [peer : Callers, n : Nat \ {0}, tag : Nat \ {NoTag},
            acked : BOOLEAN, expires : 0..Expiry]

Request(method, c, n, tag, offer) ==
    [to |-> "engine", method |-> method, peer |-> c, n |-> n, tag |-> tag,
     offer |-> offer]

\* offer: whether there is one the engine can serve with PCMU.
Invite(c, n, tag, offer) == Request("INVITE", c, n, tag, offer)
Ack(c, n, tag)           == Request("ACK", c, n, tag, FALSE)
Bye(c, n, tag)           == Request("BYE", c, n, tag, FALSE)
Cancel(c, n)             == Request("CANCEL", c, n, NoTag, FALSE)

\* What a caller learns from an answer: 200, or that it was refused.
Reply(c, method, n, status, tag) ==
    [to |-> c, method |-> method, n |-> n, tag |-> tag, status |-> status]

Init ==
    /\ sessions = {} /\ running = TRUE
    /\ network = {}
    /\ call_id \in [Callers -> CallIds]
    /\ caller = [c \in Callers |-> [phase |-> "idle", n |-> 0, tag |-> NoTag]]

-----------------------------------------------------------------------------
\* The engine.

\* tick, which ends each turn of the loop: a session that got no ACK is
\* dropped when its time is over.
Ticked(S) == {s \in S : s.acked \/ s.expires > 0}

\* One turn of the loop, in which the datagram made S of the sessions.
Turn(S, replies) ==
    /\ sessions' = Ticked(S)
    /\ network' = network \cup replies

\* Same Call-ID, From tag, CSeq, Via and address.
Repeats(m, s) == s.peer = m.peer /\ s.n = m.n

\* A repeated INVITE leaves the sessions alone.
Repeated(m) == sessions

\* Mutant of Busy: only the number of calls counts.
BusyByNumber(m) == Cardinality(sessions) >= MaxCalls

Busy(m) == \/ Cardinality(sessions) >= MaxCalls
           \/ \E s \in sessions : call_id[s.peer] = call_id[m.peer]

NewSession(m) ==
    [peer |-> m.peer, n |-> m.n, tag |-> IF m.tag = NoTag THEN m.n ELSE m.tag,
     acked |-> FALSE, expires |-> Expiry]

\* 486 and 488 tell the caller the same.
Refusal(m) == Reply(m.peer, "INVITE", m.n, "refused", NoTag)
Answer(m)  == Reply(m.peer, "INVITE", m.n, "ok", NewSession(m).tag)

invite(m) ==
    /\ m.method = "INVITE"
    /\ \/ \E s \in sessions : Repeats(m, s) /\ Turn(Repeated(m), {Answer(m)})
       \/ /\ \A s \in sessions : ~Repeats(m, s)
          /\ \/ (Busy(m) \/ ~m.offer) /\ Turn(sessions, {Refusal(m)})
             \/ /\ ~Busy(m) /\ m.offer
                /\ \/ Turn(sessions \cup {NewSession(m)}, {Answer(m)})
                   \/ Turn(sessions, {})    \* no route or no pair of ports

\* Mutant of Confirms: any ACK of the caller will do.
ConfirmsAny(m, s) == s.peer = m.peer

\* The ACK of this session's answer.
Confirms(m, s) == s.peer = m.peer /\ s.tag = m.tag /\ s.n = m.n

ack(m) ==
    /\ m.method = "ACK"
    /\ Turn({IF Confirms(m, s) THEN [s EXCEPT !.acked = TRUE] ELSE s : s \in sessions}, {})

\* Mutant of Ends: the dialog is found by its Call-ID alone.
EndsByCallId(m, s) == call_id[s.peer] = call_id[m.peer]

\* A later request of this session's dialog.
Ends(m, s) == s.peer = m.peer /\ s.tag = m.tag /\ m.n > s.n

\* Mutant of ByeAnswer: a BYE without a session is ignored.
ByeAnswerKnown(m, ended) ==
    IF ended = {} THEN {} ELSE {Reply(m.peer, "BYE", m.n, "ok", m.tag)}

\* 200, or 481 where there is no such dialog.
ByeAnswer(m, ended) ==
    {Reply(m.peer, "BYE", m.n, IF ended = {} THEN "refused" ELSE "ok", m.tag)}

bye(m) ==
    LET ended == {s \in sessions : Ends(m, s)}
    IN  m.method = "BYE" /\ Turn(sessions \ ended, ByeAnswer(m, ended))

\* CANCEL is answered and changes no session: each INVITE is answered at once.
cancel(m) == m.method = "CANCEL" /\ Turn(sessions, {})

on_packet(m) ==
    /\ running /\ m.to = "engine"
    /\ invite(m) \/ ack(m) \/ bye(m) \/ cancel(m)
    /\ UNCHANGED <<running, call_id, caller>>

\* recv_from timed out.
Quiet ==
    /\ running /\ Turn(sessions, {})
    /\ UNCHANGED <<running, call_id, caller>>

\* A failing send_to or recv_from ends the loop and with it the program.
Fail ==
    /\ running /\ running' = FALSE
    /\ sessions' = {}
    /\ UNCHANGED <<network, call_id, caller>>

\* Time passes.
Elapse ==
    /\ sessions' = {[s EXCEPT !.expires = IF @ = 0 THEN 0 ELSE @ - 1] : s \in sessions}
    /\ UNCHANGED <<running, network, call_id, caller>>

-----------------------------------------------------------------------------
\* The callers, as long as there is an engine to call.

Send(m) == network' = network \cup {m}

Become(c, phase, n, tag) ==
    caller' = [caller EXCEPT ![c] = [phase |-> phase, n |-> n, tag |-> tag]]

\* A new call, or in a call a change of its media, with the next CSeq.
Dial(c) ==
    LET k   == caller[c]
        tag == IF k.phase = "up" THEN k.tag ELSE NoTag
    IN  /\ k.phase \in {"idle", "up", "over"} /\ k.n < MaxCSeq[c]
        /\ \E offer \in BOOLEAN : Send(Invite(c, k.n + 1, tag, offer))
        /\ Become(c, "calling", k.n + 1, tag)

\* What becomes of an INVITE without success.
Refused(k) == IF k.tag = NoTag THEN "over" ELSE "up"

GiveUp(c) ==
    LET k == caller[c]
    IN  /\ k.phase = "calling"
        /\ Become(c, Refused(k), k.n, k.tag)
        /\ Send(Cancel(c, k.n))

HangUp(c) ==
    LET k == caller[c]
    IN  /\ k.phase = "up" /\ k.n < MaxCSeq[c]
        /\ Send(Bye(c, k.n + 1, k.tag))
        /\ Become(c, "closing", k.n + 1, k.tag)

\* A final answer to the request the caller has last made.
Hear(c, r) ==
    LET k == caller[c]
    IN  /\ r.to = c /\ r.n = k.n
        /\ \/ /\ k.phase = "calling" /\ r.status = "ok"
              /\ Send(Ack(c, r.n, r.tag))
              /\ Become(c, "up", k.n, r.tag)
           \/ /\ k.phase = "calling" /\ r.status = "refused"
              /\ Become(c, Refused(k), k.n, k.tag)
              /\ UNCHANGED network
           \/ /\ k.phase = "closing"
              /\ Become(c, "over", k.n, NoTag)
              /\ UNCHANGED network

CallerStep(c) ==
    /\ running
    /\ Dial(c) \/ GiveUp(c) \/ HangUp(c) \/ \E r \in network : Hear(c, r)
    /\ UNCHANGED <<sessions, running, call_id>>

-----------------------------------------------------------------------------
Next ==
    \/ \E m \in network : on_packet(m)
    \/ Quiet \/ Elapse \/ Fail
    \/ \E c \in Callers : CallerStep(c)

Spec == Init /\ [][Next]_vars

\* The BYE of a caller that is hanging up arrives, or the answer to it does.
ByeArrives(c) ==
    /\ caller[c].phase = "closing"
    /\ \E m \in network : /\ m.to = "engine" /\ m.method = "BYE"
                          /\ m.peer = c /\ m.n = caller[c].n
                          /\ on_packet(m)

ByeAnswered(c) ==
    /\ caller[c].phase = "closing" /\ running
    /\ \E r \in network : Hear(c, r)
    /\ UNCHANGED <<sessions, running, call_id>>

\* Time passes, the loop goes on, and a BYE that is sent until it is answered
\* is not lost every time, nor is its answer.
FairSpec ==
    /\ Spec
    /\ WF_vars(Elapse) /\ WF_vars(Quiet)
    /\ \A c \in Callers : WF_vars(ByeArrives(c)) /\ WF_vars(ByeAnswered(c))

-----------------------------------------------------------------------------
\* Types of the sessions and of what the callers do.
TypeOK ==
    /\ sessions \subseteq Session
    /\ \A c \in Callers :
          /\ caller[c].phase \in {"idle", "calling", "up", "closing", "over"}
          /\ caller[c].n \in 0..MaxCSeq[c] /\ caller[c].tag \in 0..caller[c].n
    /\ \A m \in network : m.tag \in 0..m.n

\* However INVITEs are repeated, delayed, cancelled and followed by others, a
\* Call-ID has one session.
OneSessionPerCall ==
    \A s, t \in sessions : call_id[s.peer] = call_id[t.peer] => s = t

\* Media is only sent to a caller that has accepted this very answer.
MediaIsWanted ==
    \A s \in sessions : s.acked => Ack(s.peer, s.n, s.tag) \in network

\* An established call is still there after a step; its BYE has been sent.
LivesOn(s) == s \in sessions' \/ \E t \in sessions' : t.acked /\ Repeats(s, t)

ByeSent(s) == \E m \in network : /\ m.to = "engine" /\ m.method = "BYE"
                                 /\ m.peer = s.peer /\ m.tag = s.tag

\* Nothing but a BYE its own caller sent in its dialog ends an established
\* call: not the timer, another caller, an old BYE or a late CANCEL or INVITE.
OnlyByeEnds ==
    [][running' => \A s \in sessions : s.acked => LivesOn(s) \/ ByeSent(s)]_vars

\* docs/sip-implementation.md:19: a session without ACK is released after
\* 32 seconds, also when its INVITE is sent again and again.
UnackedEnds ==
    \A c \in Callers : (\E s \in sessions : s.peer = c /\ ~s.acked)
                           ~> (\A s \in sessions : s.peer = c => s.acked)

\* A caller that hangs up gets an answer although the session may be gone
\* (the answer to an earlier BYE was lost, or the session has expired).
HangupEnds ==
    \A c \in Callers : caller[c].phase = "closing"
                           ~> caller[c].phase # "closing" \/ ~running

\* What a caller begins and leaves, or what it ends, does not stay: a session
\* is freed, and hanging up is answered.
CallsEnd == UnackedEnds /\ HangupEnds

\* docs/sip-implementation.md:19: on BYE the engine says goodbye and releases
\* the ports; no media is sent in that dialog from then on.
HangupReleases ==
    \A s \in sessions, m \in network :
        s.acked /\ m.to = s.peer /\ m.method = "BYE" /\ m.status = "ok" => m.tag # s.tag
=============================================================================
