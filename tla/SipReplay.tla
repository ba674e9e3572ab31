------------------------------ MODULE SipReplay -----------------------------
(***************************************************************************)
(* A captured SIP dialog made into a plan (crates/sip/src/replay.rs) and   *)
(* the plan executed against a device (apps/sip-engine/src/replay.rs).     *)
(*                                                                         *)
(* The executor is one thread that sends a request over UDP and waits for  *)
(* its final answer.  The network loses, repeats, delays and reorders:     *)
(* `network` holds every datagram sent, and each may arrive at any time,   *)
(* any number of times or never, so a retransmission adds nothing.  The    *)
(* device is a user agent somewhere else that answers as it likes.         *)
(*                                                                         *)
(* In a capture the `key` of a message stands for its CSeq and its Via;    *)
(* REGISTER and OPTIONS do not differ here.  A branch is the number of the *)
(* step that made it up, and a To tag the branch of the INVITE it answers. *)
(***************************************************************************)
EXTENDS Naturals, Sequences, FiniteSets

CONSTANTS
    Captures,   \* captured dialogs: sequences of Captured
    Statuses,   \* final statuses of a device
    Edits,      \* whether the user edits the plan
    MaxSteps    \* 24: the longest plan

None == 0
Attempts == 3
Ok(status) == status \in 200..299

\* A message of a capture: a request of the selected source that can be
\* replayed, or that has credentials, another target, an unknown method, or
\* too little to make a request of ("unusable"); a request of the peer; or an
\* answer of it.
Captured == [kind : {"request", "unusable", "peer", "answer"},
             method : STRING, key : Nat, status : Nat]

ASSUME ReplayAssumption ==
    /\ Captures \subseteq Seq(Captured)
    /\ Statuses \subseteq 200..699 /\ Edits \in BOOLEAN /\ MaxSteps \in Nat

VARIABLES
    plan,      \* ReplayPlan.steps
    edited,    \* whether the user has edited it
    step,      \* the step that is executed
    phase,     \* "send", "wait", or how execute has ended
    tries,     \* attempts made for this step
    invite,    \* the last INVITE: [n, branch, status]
    next_cseq,
    remote_tag,
    results,   \* the steps that were answered: [branch, status]
    network,
    device     \* the device: [answers, calls]

executor == <<step, phase, tries, invite, next_cseq, remote_tag, results>>
vars == <<plan, edited, executor, network, device>>

-----------------------------------------------------------------------------
\* compile_replay_plan.  A request that was captured before is no new step.
Repeated(c, i) ==
    \E j \in 1..(i - 1) : c[j].kind = "request" /\ c[j].method = c[i].method
                             /\ c[j].key = c[i].key

\* The requests that become steps, and the one that becomes step s.
Requests(c) == {i \in DOMAIN c : c[i].kind = "request" /\ ~Repeated(c, i)}

RequestOf(c, s) ==
    CHOOSE i \in Requests(c) : Cardinality({j \in Requests(c) : j <= i}) = s

Finals(c, i) ==
    {j \in i + 1..Len(c) : c[j].kind = "answer" /\ c[j].key = c[i].key
                              /\ c[j].method = c[i].method /\ c[j].status >= 200}

Expected(c, i) ==
    IF c[i].method = "ACK" \/ Finals(c, i) = {} THEN None
    ELSE c[CHOOSE j \in Finals(c, i) : \A k \in Finals(c, i) : j <= k].status

Steps(c) ==
    [s \in 1..Cardinality(Requests(c)) |->
        LET i == RequestOf(c, s) IN [method |-> c[i].method, expected |-> Expected(c, i)]]

Forked(c, i) ==
    c[i].method = "INVITE" /\ \E j, k \in Finals(c, i) : c[j].status # c[k].status

\* What the whole plan lacks.
Unacknowledged(p) ==
    \E i \in DOMAIN p : p[i].method = "INVITE"
                           /\ (i = Len(p) \/ p[i + 1].method # "ACK")

Uninvited(p) ==
    \E i \in DOMAIN p : p[i].method = "ACK"
                           /\ \A j \in 1..(i - 1) : p[j].method # "INVITE"

NothingToEnd(p) ==
    \E i \in DOMAIN p : p[i].method = "BYE"
        /\ \A j \in 1..(i - 1) : ~(p[j].method = "INVITE" /\ Ok(p[j].expected))

EndedBy(p, i) == \E j \in i + 1..Len(p) : p[j].method = "BYE"

\* Mutant of Endless: nobody asks.
EndlessNever(p) == FALSE

Endless(p) ==
    \E i \in DOMAIN p : p[i].method = "INVITE" /\ Ok(p[i].expected) /\ ~EndedBy(p, i)

\* A plan with a warning is not executable.
Executable(c) ==
    /\ \A i \in DOMAIN c : c[i].kind \notin {"unusable", "peer"}
    /\ Cardinality(Requests(c)) \in 1..MaxSteps
    /\ \A s \in DOMAIN Steps(c) :
          /\ Steps(c)[s].method # "ACK" => Steps(c)[s].expected # None
          /\ ~Forked(c, RequestOf(c, s))
    /\ ~Unacknowledged(Steps(c)) /\ ~Uninvited(Steps(c))
    /\ ~NothingToEnd(Steps(c)) /\ ~Endless(Steps(c))

\* apply_replay_overrides: the expectations may be edited, except that an
\* INVITE with a later BYE must succeed.  Delays are left out.
Edited(p) ==
    LET answered == {i \in DOMAIN p : p[i].method # "ACK"}
        edits == {e \in [answered -> Statuses] : \A i \in answered :
                     p[i].method = "INVITE" /\ EndedBy(p, i) => Ok(e[i])}
    IN {[i \in DOMAIN p |->
            [p[i] EXCEPT !.expected = IF i \in answered THEN e[i] ELSE None]] : e \in edits}

Init ==
    /\ \E c \in Captures :
          /\ Executable(c)
          /\ \/ plan = Steps(c) /\ edited = FALSE
             \/ Edits /\ plan \in Edited(Steps(c)) /\ edited = TRUE
    /\ step = 1 /\ phase = "send" /\ tries = 0
    /\ invite = [n |-> None, branch |-> None, status |-> None]
    /\ next_cseq = 1 /\ remote_tag = None /\ results = <<>>
    /\ network = {}
    /\ device = [answers |-> <<>>, calls |-> {}]

-----------------------------------------------------------------------------
\* execute.  The datagrams: a request has status None.
Datagram(method, n, branch, tag, status) ==
    [method |-> method, n |-> n, branch |-> branch, tag |-> tag, status |-> status]

Method == plan[step].method

\* The ACK of a refusal does; that of a success is a transaction of its own.
AckBranch == IF Ok(invite.status) THEN step ELSE invite.branch

Onward ==
    IF step = Len(plan) THEN phase' = "success" /\ UNCHANGED step
    ELSE phase' = "send" /\ step' = step + 1

SendAck ==
    /\ phase = "send" /\ Method = "ACK"
    /\ network' = network \cup
           {Datagram("ACK", invite.n, AckBranch, remote_tag, None)}
    /\ Onward
    /\ UNCHANGED <<plan, edited, tries, invite, next_cseq, remote_tag, results, device>>

\* A new INVITE begins a new dialog.
Send ==
    /\ phase = "send" /\ Method # "ACK"
    /\ next_cseq' = next_cseq + 1
    /\ IF Method = "INVITE"
       THEN /\ invite' = [n |-> next_cseq, branch |-> step, status |-> None]
            /\ remote_tag' = None
       ELSE UNCHANGED <<invite, remote_tag>>
    /\ network' = network \cup
           {Datagram(Method, next_cseq, step, remote_tag', None)}
    /\ phase' = "wait" /\ tries' = 1
    /\ UNCHANGED <<plan, edited, step, results, device>>

\* Mutant of Matches: an answer to any request of this method will do.
MatchesMethod(m) == m.method = Method

\* send_and_wait compares CSeq, method and branch.
Matches(m) == m.method = Method /\ m.n = next_cseq - 1 /\ m.branch = step

\* A final answer; provisional ones and those of other requests are ignored.
Receive(m) ==
    /\ phase = "wait" /\ m \in network /\ m.status >= 200 /\ Matches(m)
    /\ results' = Append(results, [branch |-> step, status |-> m.status])
    /\ IF Method = "INVITE"
       THEN invite' = [invite EXCEPT !.status = m.status]
       ELSE UNCHANGED invite
    /\ IF m.status # plan[step].expected
       THEN phase' = "mismatch" /\ UNCHANGED <<step, remote_tag>>
       ELSE IF Method = "INVITE" /\ m.tag = None
       THEN phase' = "invalid_tag" /\ remote_tag' = None /\ UNCHANGED step
       ELSE /\ remote_tag' = IF Method = "INVITE" THEN m.tag ELSE remote_tag
            /\ Onward
    /\ UNCHANGED <<plan, edited, tries, next_cseq, network, device>>

\* Mutant of Timeout: the request is repeated for ever.
TimeoutEndless ==
    /\ phase = "wait"
    /\ tries' = (tries % Attempts) + 1
    /\ UNCHANGED <<plan, edited, step, phase, invite, next_cseq, remote_tag, results, network, device>>

\* Half a second, one and two after the attempts.
Timeout ==
    /\ phase = "wait"
    /\ \/ tries < Attempts /\ tries' = tries + 1 /\ UNCHANGED phase
       \/ tries = Attempts /\ phase' = "timeout" /\ UNCHANGED tries
    /\ UNCHANGED <<plan, edited, step, invite, next_cseq, remote_tag, results, network, device>>

\* Sending, or binding the port an offer names, or receiving fails.
SocketFails ==
    /\ phase \in {"send", "wait"} /\ phase' = "error"
    /\ UNCHANGED <<plan, edited, step, tries, invite, next_cseq, remote_tag, results, network, device>>

-----------------------------------------------------------------------------
\* The device.  It answers a request once, repeats that answer, may announce
\* it, and keeps the calls it has accepted until it has accepted their BYE.
Answer(m, status, tag) ==
    /\ network' = network \cup {Datagram(m.method, m.n, m.branch, tag, status)}
    /\ device' =
           [answers |-> [b \in {m.branch} \cup DOMAIN device.answers |->
                            IF b = m.branch THEN status ELSE device.answers[b]],
            calls |-> IF m.method = "INVITE" /\ Ok(status) THEN device.calls \cup {m.branch}
                      ELSE IF m.method = "BYE" /\ Ok(status) THEN device.calls \ {m.tag}
                      ELSE device.calls]

DeviceAnswers(m) ==
    /\ m \in network /\ m.status = None /\ m.method # "ACK"
    /\ m.branch \notin DOMAIN device.answers
    /\ \E status \in Statuses :
          /\ m.method = "BYE" /\ m.tag \notin device.calls => ~Ok(status)
          /\ \E tag \in {m.branch, None} : Answer(m, status, tag)
    /\ UNCHANGED <<plan, edited, executor>>

DeviceAnnounces(m) ==
    /\ m \in network /\ m.status = None /\ m.method = "INVITE"
    /\ network' = network \cup {Datagram("INVITE", m.n, m.branch, m.branch, 180)}
    /\ UNCHANGED <<plan, edited, executor, device>>

Next ==
    \/ SendAck \/ Send \/ Timeout \/ SocketFails
    \/ \E m \in network : Receive(m) \/ DeviceAnswers(m) \/ DeviceAnnounces(m)

Spec == Init /\ [][Next]_vars

\* The thread runs and its timeouts expire.
FairSpec == Spec /\ WF_vars(SendAck \/ Send) /\ WF_vars(Timeout)

-----------------------------------------------------------------------------
\* A step is judged by the device's answer to its own request, whatever
\* answers to others are repeated or come late.
AnswerIsOwn ==
    \A i \in DOMAIN results :
        /\ results[i].branch \in DOMAIN device.answers
        /\ device.answers[results[i].branch] = results[i].status

\* Every ACK belongs to an INVITE of the plan that the device has answered: to
\* its transaction where that was refused, and to a call of its own where it
\* was accepted.
AcksFit ==
    \A a \in network : a.method = "ACK" =>
        \E m \in network :
            /\ m.method = "INVITE" /\ m.n = a.n /\ m.status >= 200
            /\ m.tag = a.tag
            /\ m.branch = a.branch <=> ~Ok(m.status)

\* Whatever is repeated or comes late, the executor takes no answer for that
\* of another request, and confirms no answer with another's ACK.
TransactionsFit == AnswerIsOwn /\ AcksFit

\* No INVITE while a call is open, and the device is expected to accept BYE.
Plain ==
    /\ \A i, j \in DOMAIN plan :
          i < j /\ plan[i].method = "INVITE" /\ plan[j].method = "INVITE"
             /\ Ok(plan[i].expected)
          => \E k \in i..j : plan[k].method = "BYE"
    /\ \A i \in DOMAIN plan : plan[i].method = "BYE" => Ok(plan[i].expected)

\* A plan of such calls, as it was compiled, that is executed with success
\* leaves no call open at the device, although the capture may have lost any
\* of its messages.  An edited plan may: an INVITE that was refused when it
\* was captured can be made to succeed, and nothing then ends the call.
SuccessEndsCall == phase = "success" /\ ~edited /\ Plain => device.calls = {}

\* docs/sip-implementation.md:37 says that renegotiation, which is not
\* implemented, keeps a plan from being executed: so whatever was captured, a
\* plan executed with success leaves no call open at the device.
CallsAreEnded == phase = "success" => device.calls = {}

\* An execution ends, whatever the device and the network do.
ReplayReturns == phase \in {"send", "wait"} ~> phase \notin {"send", "wait"}
=============================================================================
