------------------------------ MODULE SipTrace ------------------------------
(***************************************************************************)
(* SIP on a wire and what this program makes of it.  A capture watches two *)
(* user agents, or a device that talks to the test engine; SipAnalysis     *)
(* reports what was captured so far, and SipReplay compiles a watched call *)
(* into a plan and executes it.                                            *)
(*                                                                         *)
(* The agents follow a script, packet by packet; the capture misses some   *)
(* packets and has others twice or late.  The device sends its requests in *)
(* any order and any number of times, which is what a network makes of     *)
(* them; SipSimulator answers.                                             *)
(***************************************************************************)
EXTENDS SipReplay, Integers
LOCAL INSTANCE TLC

CONSTANTS
    Nothing,       \* Option::None where None would be compared with a record
    Scripts,       \* what two user agents send: [packets, forks]
    DeviceSends,   \* the requests of the device, per scenario
    Pauses,        \* how long the device may pause, in seconds
    MaxTrouble,    \* bound: packets missed, late or captured twice
    MaxAged,       \* bound: segments that find those before them old
    MaxArrivals,   \* bound: requests of the device that arrive
    MaxClock,      \* bound: the pauses it makes, in seconds
    MaxMessages, MaxTcpFlows, MaxRtpFlows, MaxFindings, MaxBuffer, Names, Unspecified,
    MaxBusy, MaxCached, BusyLife, AckLife, CacheLife, MaxExpires

ASSUME TraceAssumption ==
    /\ MaxTrouble \in Nat /\ MaxAged \in Nat /\ MaxArrivals \in Nat /\ MaxClock \in Nat
    /\ Pauses \subseteq Nat

Analysis  == INSTANCE SipAnalysis WITH None <- Nothing
Simulator == INSTANCE SipSimulator WITH None <- Nothing

\* What the engine reads of a request.
Reads(m) == m.parses /\ Simulator!Complete(m)

\* The requests of the device.  As RFC 3261 has it, those of one branch are a
\* transaction: an INVITE, its CANCEL and the ACK of its refusal, or repetitions
\* of these, and a nonce count is a number.
ASSUME DeviceAssumption ==
    \A which \in DOMAIN DeviceSends : \A m \in DeviceSends[which] :
        /\ {"line", "status", "sdp", "to", "register"} \subseteq DOMAIN m
        /\ Simulator!Complete(m) => Simulator!Tag(m) # Nothing
        /\ m.line = "REGISTER" => m.register # Nothing
        /\ m.register # Nothing /\ m.register.auth # Nothing => m.register.auth.count \in Nat
        /\ \A n \in DeviceSends[which] : Reads(m) /\ Reads(n) /\ m.branch = n.branch =>
              /\ {m.line, n.line} \subseteq {"INVITE", "CANCEL", "ACK"} =>
                     <<m.uri, m.from, m.call, m.cseq.number>>
                         = <<n.uri, n.from, n.call, n.cseq.number>>
              /\ {m.line, n.line} \subseteq {"INVITE", "CANCEL"} => m.to = n.to
              /\ m.line = n.line /\ m.to = n.to => m = n

ASSUME EngineAssumption ==
    {MaxBusy, MaxCached} \subseteq Nat \ {0} /\ {BusyLife, AckLife, CacheLife} \subseteq Nat

VARIABLES
    scene,      \* "watch", "serve" or "over"
    script,     \* the script that is watched, by number
    sent,       \* how much of it was sent
    late,       \* packets of it that are still to be captured
    captured,   \* the packets captured, in this order
    trouble,    \* how many were missed, late or captured twice
    scenario,   \* of the test engine
    engine,     \* its state
    clock,      \* in seconds
    served      \* history: the requests that arrived with their answers

traceVars == <<scene, script, sent, late, captured, trouble, scenario, engine, clock, served>>

\* Nothing is watched, and the replay is as before its start.
Unwatched ==
    /\ script = 1 /\ sent = 0 /\ late = {} /\ captured = <<>> /\ trouble = 0
    /\ scenario = "busy" /\ engine = Simulator!NewEngine /\ clock = 0 /\ served = <<>>

Unplanned ==
    /\ plan = <<>> /\ edited = FALSE
    /\ step = 1 /\ phase = "capture" /\ tries = 0
    /\ invite = [n |-> None, branch |-> None, status |-> None]
    /\ next_cseq = 1 /\ remote_tag = None /\ results = <<>>
    /\ network = {} /\ device = [answers |-> <<>>, calls |-> {}]

InitWatch ==
    /\ Unplanned /\ scene = "watch" /\ script \in DOMAIN Scripts
    /\ sent = 0 /\ late = {} /\ captured = <<>> /\ trouble = 0
    /\ scenario = "busy" /\ engine = Simulator!NewEngine /\ clock = 0 /\ served = <<>>

InitServe ==
    /\ Unplanned /\ scene = "serve" /\ scenario \in DOMAIN DeviceSends
    /\ script = 1 /\ sent = 0 /\ late = {} /\ captured = <<>> /\ trouble = 0
    /\ engine = Simulator!NewEngine /\ clock = 0 /\ served = <<>>

\* Or a capture is replayed that is at hand.
InitT == (Init /\ scene = "over" /\ Unwatched) \/ InitWatch \/ InitServe

-----------------------------------------------------------------------------
Script == Scripts[script].packets

\* Packet i of the script as it is captured: i is remembered to tell what the
\* report is compared with.  A step of the script takes a millisecond.
Taken(i, guess, skip) ==
    [index |-> i, number |-> Len(captured) + 1, at |-> 1000 * sent, guess |-> guess,
     skip |-> skip] @@ Script[i]

Take(i, n, guess, skip) ==
    LET p == Taken(i, guess, skip)
    IN  captured' = captured \o [k \in 1..n |-> [p EXCEPT !.number = @ + k - 1]]

\* What the age of the segments that are held back makes of the next one.
Ages(i) ==
    IF Script[i].kind = "tcp"
       /\ Cardinality({k \in DOMAIN captured : captured[k].guess \/ captured[k].skip}) < MaxAged
    THEN BOOLEAN ELSE {FALSE}

\* The next packet is captured, once, or twice, or later, or never.
Watch(fate, guess, skip) ==
    /\ scene = "watch" /\ sent < Len(Script)
    /\ sent' = sent + 1
    /\ fate # "once" => trouble < MaxTrouble
    /\ trouble' = IF fate = "once" THEN trouble ELSE trouble + 1
    /\ late' = IF fate = "late" THEN late \cup {sent + 1} ELSE late
    /\ CASE fate = "once"  -> Take(sent + 1, 1, guess, skip)
         [] fate = "twice" -> Take(sent + 1, 2, guess, skip)
         [] OTHER -> ~guess /\ ~skip /\ UNCHANGED captured
    /\ UNCHANGED <<vars, scene, script, scenario, engine, clock, served>>

Release(i, guess, skip) ==
    /\ scene = "watch" /\ i \in late /\ i < sent
    /\ late' = late \ {i}
    /\ Take(i, 1, guess, skip)
    /\ UNCHANGED <<vars, scene, script, sent, trouble, scenario, engine, clock, served>>

-----------------------------------------------------------------------------
\* The device knows the nonce once it was challenged.
Challenged == \E k \in DOMAIN served : /\ served[k].answer # Nothing
                                       /\ served[k].answer.status = 401

Requestable ==
    {m \in DeviceSends[scenario] :
        m.register # Nothing => (m.register.auth # Nothing => Challenged)}

\* A request arrives and is answered.
Serve(m) ==
    /\ scene = "serve" /\ Len(served) < MaxArrivals /\ m \in Requestable
    /\ LET x == Simulator!handle(scenario, engine, m, clock)
       IN  /\ engine' = x.state
           /\ served' = Append(served, [request |-> m, answer |-> x.answer, at |-> clock])
    /\ UNCHANGED <<vars, scene, script, sent, late, captured, trouble, scenario, clock>>

Pause(s) ==
    /\ scene = "serve" /\ clock + s <= MaxClock
    /\ clock' = clock + s
    /\ UNCHANGED <<vars, scene, script, sent, late, captured, trouble, scenario, engine, served>>

-----------------------------------------------------------------------------
\* compile_replay_plan reads the capture itself: the datagrams of a call as its
\* caller sees them.
InCall(call) == SelectSeq(captured, LAMBDA p : p.kind = "sip" /\ p.message.call = call)

Template == {"OPTIONS", "INVITE", "ACK", "BYE", "REGISTER"}

\* A medium that can be offered again, although inactive.
Offerable(m) ==
    m.sdp # Nothing /\ m.sdp.ok /\ \E k \in DOMAIN m.sdp.media : m.sdp.media[k].port # 0

\* The number of the first datagram with this CSeq and Via stands for them.
KeyIn(c, m) ==
    CHOOSE k \in DOMAIN c :
        /\ c[k].message.cseq = m.cseq /\ c[k].message.branch = m.branch
        /\ \A j \in 1..(k - 1) : <<c[j].message.cseq, c[j].message.branch>>
                                     # <<m.cseq, m.branch>>

Projected(c, source, target) ==
    LET Kind(p) ==
            LET m == p.message
            IN  IF m.status # Nothing
                THEN IF p.source = target /\ p.destination = source THEN "answer" ELSE "none"
                ELSE IF p.source # source THEN "peer"
                ELSE IF \/ p.destination # target \/ m.line \notin Template \/ m.credentials
                        \/ m.line = "INVITE" /\ ~Offerable(m)
                THEN "unusable" ELSE "request"
        Item(p) == [kind |-> Kind(p), method |-> Analysis!Method(p.message),
                    key |-> KeyIn(c, p.message),
                    status |-> IF p.message.status = Nothing THEN None ELSE p.message.status]
    IN  SelectSeq([k \in DOMAIN c |-> Item(c[k])], LAMBDA i : i.kind # "none")

\* The target is where the first request of the source goes.
Compiled(call, source) ==
    LET c   == InCall(call)
        own == {k \in DOMAIN c : c[k].source = source /\ c[k].message.status = Nothing}
    IN  IF own = {} THEN <<>>
        ELSE Projected(c, source, c[CHOOSE k \in own : \A j \in own : k <= j].destination)

Plan(call, source) ==
    /\ scene = "watch"
    /\ LET c == Compiled(call, source)
       IN  /\ c # <<>> /\ Executable(c)
           /\ \/ plan' = Steps(c) /\ edited' = FALSE
              \/ Edits /\ plan' \in Edited(Steps(c)) /\ edited' = TRUE
    /\ phase' = "send"
    /\ scene' = "over" /\ script' = 1 /\ sent' = 0 /\ late' = {} /\ captured' = <<>>
    /\ trouble' = 0
    /\ UNCHANGED <<step, tries, invite, next_cseq, remote_tag, results, network, device,
                   scenario, engine, clock, served>>

Calls == {captured[k].message.call : k \in {k \in DOMAIN captured : captured[k].kind = "sip"}}

Sources == {captured[k].source : k \in DOMAIN captured}

NextT ==
    \/ scene = "watch" /\ sent < Len(Script)
          /\ \E fate \in {"once", "twice", "late", "never"},
                guess \in Ages(sent + 1), skip \in Ages(sent + 1) : Watch(fate, guess, skip)
    \/ \E i \in late : \E guess \in Ages(i), skip \in Ages(i) : Release(i, guess, skip)
    \/ scene = "serve" /\ \E m \in Requestable : Serve(m)
    \/ \E s \in Pauses : Pause(s)
    \/ scene = "watch" /\ \E call \in Calls, source \in Sources : Plan(call, source)
    \/ Next /\ UNCHANGED traceVars

SpecT == InitT /\ [][NextT]_<<vars, traceVars>>

FairSpecT == SpecT /\ WF_vars(SendAck \/ Send) /\ WF_vars(Timeout)
-----------------------------------------------------------------------------
Indices == {captured[k].index : k \in DOMAIN captured}

Missed == (1..sent) \ Indices

\* The packets of the script that hold a part of the TCP message m.
PartsOf(m) == {i \in DOMAIN Script : /\ Script[i].kind = "tcp" /\ Script[i].part # Nothing
                                     /\ Script[i].part.message = m}

TcpMessages == {Script[i].part.message :
                   i \in {i \in DOMAIN Script : Script[i].kind = "tcp" /\ Script[i].part # Nothing}}

Overtaken == \E j, k \in DOMAIN captured : j < k /\ captured[k].index < captured[j].index

\* What is told of a TCP message is told of one message, all of which was
\* captured: nothing is made up of what stands on both sides of a hole.
MessagesAreWhole(r) ==
    \A m \in TcpMessages :
        (\E k \in DOMAIN r.messages : /\ r.messages[k].branch = m.branch
                                      /\ r.messages[k].cseq = m.cseq
                                      /\ r.messages[k].status = m.status)
        => PartsOf(m) \subseteq Indices

\* A number that falls was captured out of order, a second dialog or another
\* final answer comes of a fork, and an answer that does not fit was sent.
WarningsAreDue(r) ==
    \A k \in DOMAIN r.findings :
        LET code == r.findings[k].code
        IN  /\ code = "sip_cseq_regression" => Overtaken
            /\ code \in {"sip_fork_candidates", "sip_multiple_final_responses"}
                  => Scripts[script].forks
            /\ code = "sip_sdp_answer_mismatch" => Scripts[script].mismatch
            /\ code \in {"sip_tcp_partial", "sip_tcp_sync", "sip_tcp_frame"}
                  => Missed # {} \/ Overtaken \/ sent < Len(Script)

\* A CANCEL has its INVITE wherever that was captured.
CancelsHaveInvites(r) ==
    \A k \in DOMAIN r.findings : r.findings[k].code = "sip_cancel_alone" =>
        ~\E j, i \in DOMAIN captured :
            /\ captured[j].number = r.findings[k].packet
            /\ captured[i].kind = "sip" /\ captured[i].message.line = "INVITE"
            /\ captured[i].message.branch = captured[j].message.branch

\* RTP that is counted for a call is a call's own, or the medium is "shared",
\* unless what another call announced was missed.
MediaIsOwn(r) ==
    \A k \in DOMAIN r.media :
        LET b == r.media[k]
            heard == {i \in Indices : /\ Script[i].kind = "rtp" /\ Script[i].pt \in b.pts
                                      /\ Script[i].destination = [host |-> b.address, port |-> b.port]}
        IN  b.quality = "candidate" =>
                \/ \A i \in heard : Script[i].owner = b.call
                \/ \E i \in 1..Len(Script) \ Indices :
                       Script[i].kind = "sip" /\ Script[i].message.sdp # Nothing

\* A capture that misses nothing is reported with all its messages, and with
\* no finding but what the script is about.
NothingIsMissed(r) ==
    trouble = 0 /\ sent = Len(Script) =>
        /\ {r.findings[k].code : k \in DOMAIN r.findings} = Scripts[script].codes
        /\ Len(r.messages) = Cardinality(TcpMessages)
                               + Cardinality({i \in DOMAIN Script : Script[i].kind = "sip"})

\* A report without its identifiers is diagnosed as it was with them: their
\* equality, of which the diagnosis is made, is kept.
FoundLast ==
    {"sip_cancel", "sip_cancel_alone", "sip_renegotiation", "sip_cseq_regression",
     "sip_fork_candidates", "sip_multiple_final_responses", "sip_negative_response",
     "sip_auth_challenge", "sip_redirect", "sip_sdp_answer_mismatch"}

Rediagnosed(hidden) ==
    Analysis!finish_report([Analysis!NewReport EXCEPT !.messages = hidden.messages,
                                                      !.exchanges = hidden.exchanges],
                           [k \in {} |-> None])

SameDiagnosis(hidden, again) ==
    LET Set(s) == {s[k] : k \in DOMAIN s}
    IN  /\ Set(again.transactions) = Set(hidden.transactions)
        /\ again.dialogs = hidden.dialogs /\ Set(again.calls) = Set(hidden.calls)
        /\ again.exchanges = hidden.exchanges
        /\ Set(again.findings) = {f \in Set(hidden.findings) : f.code \in FoundLast}

RedactedIsTrue(hidden) == SameDiagnosis(hidden, Rediagnosed(hidden))

ReportIsTrue(r) ==
    /\ MessagesAreWhole(r) /\ WarningsAreDue(r) /\ CancelsHaveInvites(r)
    /\ MediaIsOwn(r) /\ NothingIsMissed(r)
    /\ sent = Len(Script) => RedactedIsTrue(Analysis!Redacted(r))

\* Whatever a capture has missed, has twice or has late, the report says
\* nothing of the conversation that did not happen.
SipReportIsTrue == scene = "watch" => ReportIsTrue(Analysis!analyze_pcap(captured))

-----------------------------------------------------------------------------
Given(k, method, status) ==
    /\ served[k].answer # Nothing /\ served[k].request.line = method
    /\ served[k].answer.status = status

\* A REGISTER that was accepted and is no repetition of one whose answer is
\* remembered.
TakesEffect(k) ==
    /\ Given(k, "REGISTER", 200)
    /\ ~\E j \in 1..(k - 1) : /\ served[j].request = served[k].request
                              /\ Given(j, "REGISTER", 200)
                              /\ served[k].at - served[j].at < CacheLife

\* No credentials bind a contact twice: the count of a client nonce rises.
CountsRise ==
    \A j, k \in DOMAIN served :
        j < k /\ TakesEffect(j) /\ TakesEffect(k)
            /\ served[j].request.register.auth.client = served[k].request.register.auth.client
        => served[j].request.register.auth.count < served[k].request.register.auth.count

\* The answers to an INVITE and to its CANCEL are of one dialog.
CancelAnswersFit ==
    \A j, k \in DOMAIN served :
        /\ Given(j, "INVITE", 486) /\ Given(k, "CANCEL", 200)
        /\ served[j].request.branch = served[k].request.branch
        /\ served[j].request.to = Nothing
        => served[j].answer.to = served[k].answer.to

\* An INVITE whose refusal was acknowledged, while that was remembered, is not
\* refused again for a while, unless so many came that it was forgotten.  One
\* within a dialog is the exception: its ACK is never found (Simulator!OnAck).
AcknowledgedIsOver ==
    \A i, a, k \in DOMAIN served :
        /\ i < a /\ a < k /\ Given(i, "INVITE", 486) /\ served[i].request.to = Nothing
        /\ served[a].request.line = "ACK" /\ Reads(served[a].request)
        /\ served[a].request.branch = served[i].request.branch
        /\ served[a].request.to = served[i].answer.to
        /\ served[k].request = served[i].request
        /\ \A j \in 1..(a - 1) :
              /\ served[j].request = served[i].request => served[a].at - served[j].at < BusyLife
              /\ j > i => served[j].request # served[a].request
        /\ served[k].at - served[a].at < AckLife
        /\ Cardinality({served[j].request.branch :
               j \in {j \in DOMAIN served : Given(j, "INVITE", 486)}}) <= MaxBusy
        => served[k].answer = Nothing

\* Requests that come twice, late or in another order are answered as one
\* conversation: what was accepted, acknowledged or cancelled stays so.
SimulatorIsSound == CountsRise /\ CancelAnswersFit /\ AcknowledgedIsOver
=============================================================================
