------------------------------ MODULE SipProbe ------------------------------
(***************************************************************************)
(* probe_options of apps/sip-engine/src/main.rs: an OPTIONS request to a   *)
(* device, three times over UDP or once over TCP or TLS, and what is told  *)
(* of the device's answers.                                                *)
(*                                                                         *)
(* An answer is [own, status, parts]: whether it is a response to this     *)
(* request (Call-ID, CSeq and branch are its own), its status, and in how  *)
(* many parts it comes over TCP.                                           *)
(***************************************************************************)
EXTENDS Integers, Sequences

CONSTANTS
    Attempts,  \* three, of 500, 1000 and 2000 ms
    Replies    \* bound: the answers that arrive, each a sequence

VARIABLES
    carrier,  \* "udp" or "tcp", TLS is as TCP
    reply,    \* the answers that arrive if the probe waits for them
    arrived,  \* how many datagrams, or parts over TCP, have arrived
    read,     \* how many of them were read
    kept,     \* of these, the parts of an answer that is not complete
    attempt,  \* how often the request was sent
    verdict   \* [kind, status]

probeVars == <<carrier, reply, arrived, read, kept, attempt, verdict>>

Answer == [own : BOOLEAN, status : Nat, parts : Nat \ {0}]

Open    == [kind |-> "open", status |-> 0]
Failed  == [kind |-> "error", status |-> 0]
Silent  == [kind |-> "silent", status |-> 0]
Told(s) == [kind |-> "status", status |-> s]

InitProbe ==
    /\ carrier \in {"udp", "tcp"} /\ reply \in Replies
    /\ arrived = 0 /\ read = 0 /\ kept = <<>> /\ attempt = 0 /\ verdict = Open

Times == IF carrier = "udp" THEN Attempts ELSE 1

\* What the first k of these answers come in; a datagram is whole.
PartsOf(way, answers) ==
    LET upto[k \in 0..Len(answers)] ==
            IF k = 0 THEN <<>>
            ELSE LET parts == IF way = "udp" THEN 1 ELSE answers[k].parts
                 IN  upto[k - 1] \o [n \in 1..parts |-> [answer |-> answers[k], last |-> n = parts]]
    IN  upto

Parts == PartsOf(carrier, reply)[Len(reply)]

\* The request is sent for the first time.
Request ==
    /\ verdict = Open /\ attempt = 0 /\ attempt' = 1
    /\ UNCHANGED <<carrier, reply, arrived, read, kept, verdict>>

Arrive ==
    /\ attempt > 0 /\ arrived < Len(Parts) /\ arrived' = arrived + 1
    /\ UNCHANGED <<carrier, reply, read, kept, attempt, verdict>>

\* probe_response_status: what is no answer to this request is an error, and
\* an answer that is not final is passed over.
Judged(a) ==
    IF ~a.own THEN Failed ELSE IF a.status < 200 THEN Open ELSE Told(a.status)

First(S) == CHOOSE i \in S : \A j \in S : i <= j
Last(S)  == CHOOSE i \in S : \A j \in S : j <= i

\* A datagram, or what a read of the connection returns: the answers that are
\* complete are judged in turn, up to the first that decides.
Read(n) ==
    /\ verdict = Open /\ n <= arrived - read /\ (carrier = "udp" => n = 1)
    /\ read' = read + n
    /\ LET data == kept \o SubSeq(Parts, read + 1, read + n)
           ends == {i \in DOMAIN data : data[i].last}
           deciding == {i \in ends : Judged(data[i].answer) # Open}
       IN  /\ verdict' = IF deciding = {} THEN Open ELSE Judged(data[First(deciding)].answer)
           /\ kept' = SubSeq(data, Last({0} \cup ends) + 1, Len(data))
    /\ UNCHANGED <<carrier, reply, arrived, attempt>>

\* Nothing more came in time.  Over UDP the request is sent again, and answers
\* to the earlier ones are still taken.
Deadline ==
    /\ verdict = Open /\ attempt > 0
    /\ \/ attempt < Times /\ attempt' = attempt + 1 /\ UNCHANGED verdict
       \/ attempt = Times /\ verdict' = Silent /\ UNCHANGED attempt
    /\ UNCHANGED <<carrier, reply, arrived, read, kept>>

\* The socket cannot be had, or the device refuses or closes the connection.
ProbeFails ==
    /\ verdict = Open /\ verdict' = Failed
    /\ UNCHANGED <<carrier, reply, arrived, read, kept, attempt>>

NextProbe ==
    \/ Request \/ Arrive \/ Deadline \/ ProbeFails
    \/ \E n \in 1..Len(Parts) : Read(n)

-----------------------------------------------------------------------------
\* Where an answer ends of which all was read, and which of these are final
\* ones to this request or none to it.
Taken  == {i \in 1..read : Parts[i].last}
Finals == {i \in Taken : Parts[i].answer.own /\ Parts[i].answer.status >= 200}
Aliens == {i \in Taken : ~Parts[i].answer.own}

\* However its answers are cut or joined, the device is told by the first
\* final one to this request, and only a device that gave none is silent.
ProbeIsTrue ==
    /\ verdict.kind = "status" =>
           Finals # {} /\ verdict.status = Parts[First(Finals)].answer.status
    /\ Finals # {} /\ Aliens = {} => verdict = Told(Parts[First(Finals)].answer.status)

\* A probe ends, whatever the device does.
ProbeReturns == attempt > 0 ~> verdict # Open
=============================================================================
