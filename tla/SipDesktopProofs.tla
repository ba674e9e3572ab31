-------------------------- MODULE SipDesktopProofs --------------------------
(***************************************************************************)
(* TransactionsFit and SuccessEndsCall for every capture, edit, device and *)
(* network, EnginesAreSound for everything the desktop does, and           *)
(* SimulatorIsSound for every device that talks to a scenario.             *)
(*                                                                         *)
(* SipReplay.  The inductive invariant IInv says that a final answer on    *)
(* the network is the one the device has given to its branch, which is     *)
(* unique since the device answers a branch once, and that behind an       *)
(* INVITE of the plan the executor holds the number, branch, status and    *)
(* tag of an answer to it, until a later INVITE takes its place.  On top   *)
(* of it CallInv follows a call from the INVITE that opens it to the BYE   *)
(* that ends it.                                                           *)
(*                                                                         *)
(* SipProbe.  ProbeInv says that what is kept is the part of the stream    *)
(* behind the last answer that was complete, and that nothing was read     *)
(* that decides before a decision is made.                                 *)
(*                                                                         *)
(* SipEngineHost.  HostInv says of each engine that a connection has been  *)
(* given the answers to its first messages and keeps the parts behind      *)
(* them (Fits), and of all together that one that lives has an owner; what *)
(* the worker's loop does to a connection follows turn by turn (Turned).   *)
(*                                                                         *)
(* SipSimulator.  Sound says of the busy scenario that what is remembered  *)
(* stems from a refusal, that a refusal is remembered until its ACK comes  *)
(* or its life is over, and that its ACK is remembered as long as it       *)
(* should (BusySound); and of the registrar that each count that had an    *)
(* effect is below the one it knows, and that what it remembers was        *)
(* accepted (RegistrarSound).  Follows and Registers say what one request  *)
(* does to what is remembered, in every case of the code.                  *)
(***************************************************************************)
EXTENDS SipDesktop, FiniteSetTheorems, SequenceTheorems, WellFoundedInduction, TLAPS


\* A plan has an INVITE in front of every ACK.
GoodPlan(p) ==
    /\ Len(p) \in Nat \ {0} /\ DOMAIN p = 1..Len(p)
    /\ ~Uninvited(p)

TypeOK ==
    /\ step \in 1..Len(plan) /\ next_cseq \in Nat
    /\ invite \in [n : Nat, branch : Nat, status : Nat]
    /\ remote_tag \in Nat
    /\ results \in Seq([branch : Nat, status : Nat])
    /\ \A m \in network : m.n \in Nat /\ m.branch \in Nat /\ m.tag \in Nat
                              /\ m.status \in Nat

\* A final answer is the one answer the device has given to that branch.
AnsweredOnce ==
    \A m \in network : m.status >= 200 =>
        m.branch \in DOMAIN device.answers /\ device.answers[m.branch] = m.status

\* The answer that an ACK sent now would confirm.
Confirmable(m) ==
    /\ m \in network /\ m.method = "INVITE" /\ m.status >= 200
    /\ m.n = invite.n /\ m.branch = invite.branch /\ m.status = invite.status
    /\ m.tag = remote_tag

Waiting(method) == phase = "wait" /\ Method = method

Invited == \E j \in 1..(step - 1) : plan[j].method = "INVITE"

InviteKnown ==
    /\ Waiting("INVITE") => invite.n = next_cseq - 1 /\ invite.branch = step
    /\ phase \in {"send", "wait"} /\ Invited /\ ~Waiting("INVITE") =>
           invite.branch < step /\ \E m \in network : Confirmable(m)

IInv == GoodPlan(plan) /\ TypeOK /\ AnsweredOnce /\ AnswerIsOwn /\ AcksFit /\ InviteKnown

-----------------------------------------------------------------------------
\* What is compiled and executable is a good plan, and so is an edited one.
LEMMA CompiledGood ==
    ASSUME NEW c \in Captures, Executable(c)
    PROVE  GoodPlan(Steps(c)) /\ \A e \in Edited(Steps(c)) : GoodPlan(e)
<1> DEFINE N == Cardinality(Requests(c))
           P == Steps(c)
<1>1. N \in Nat \ {0}
  BY ReplayAssumption DEF Executable
<1> HIDE DEF N
<1>2. P = [s \in 1..N |-> [method   |-> c[RequestOf(c, s)].method,
                             expected |-> Expected(c, RequestOf(c, s))]]
  BY DEF Steps, N
<1>3. DOMAIN P = 1..N /\ P \in Seq({P[s] : s \in 1..N})
  BY <1>1, <1>2
<1>4. Len(P) = N
  BY <1>1, <1>3
<1>5. GoodPlan(P)
  BY <1>1, <1>3, <1>4 DEF GoodPlan, Executable
<1>6. ASSUME NEW e \in Edited(P)
      PROVE  GoodPlan(e)
  <2>1. PICK x : e = [i \in DOMAIN P |-> [P[i] EXCEPT !.expected =
                        IF i \in {k \in DOMAIN P : P[k].method # "ACK"} THEN x[i] ELSE None]]
    BY <1>6 DEF Edited
  <2>2. DOMAIN e = 1..N /\ e \in Seq({e[s] : s \in 1..N})
    BY <1>1, <1>3, <2>1
  <2>3. Len(e) = N
    BY <1>1, <2>2
  <2>4. ASSUME NEW i \in 1..N
        PROVE  e[i].method = P[i].method
    BY <1>2, <1>3, <2>1
  <2> HIDE DEF P
  <2>5. ~Uninvited(e)
    <3>1. SUFFICES ASSUME NEW i \in 1..N, e[i].method = "ACK",
                          \A j \in 1..(i - 1) : e[j].method # "INVITE"
                   PROVE  Uninvited(P)
      BY <1>5, <2>2 DEF Uninvited, GoodPlan
    <3>2. \A j \in 1..(i - 1) : j \in 1..N
      BY <1>1
    <3>3. P[i].method = "ACK" /\ \A j \in 1..(i - 1) : P[j].method # "INVITE"
      BY <2>4, <3>1, <3>2
    <3> QED BY <1>3, <3>3 DEF Uninvited
  <2> QED BY <1>1, <2>2, <2>3, <2>5 DEF GoodPlan
<1> QED BY <1>5, <1>6

LEMMA InitIInv == Init => IInv
<1> SUFFICES ASSUME Init PROVE IInv
  OBVIOUS
<1>1. GoodPlan(plan)
  BY CompiledGood DEF Init
<1>2. TypeOK
  BY <1>1 DEF Init, TypeOK, GoodPlan, None
<1>3. AnsweredOnce /\ AnswerIsOwn /\ AcksFit
  BY DEF Init, AnsweredOnce, AnswerIsOwn, AcksFit
<1>4. InviteKnown
  BY <1>1 DEF Init, InviteKnown, Invited, Waiting, GoodPlan
<1> QED BY <1>1, <1>2, <1>3, <1>4 DEF IInv

-----------------------------------------------------------------------------
\* An ACK finds the answer it confirms.
LEMMA SendAckStep == IInv /\ SendAck => IInv'
<1> SUFFICES ASSUME IInv, SendAck PROVE IInv'
  OBVIOUS
<1> USE DEF IInv
<1> DEFINE a == Datagram("ACK", invite.n, AckBranch, remote_tag, None)
<1>1. Invited
  <2>1. step \in DOMAIN plan /\ plan[step].method = "ACK"
    BY DEF GoodPlan, TypeOK, SendAck, Method
  <2> QED BY <2>1 DEF GoodPlan, Uninvited, Invited
<1>2. PICK m \in network : Confirmable(m)
  BY <1>1 DEF InviteKnown, SendAck, Waiting
<1>3. invite.branch < step
  BY <1>1 DEF InviteKnown, SendAck, Waiting
<1>4. /\ a.method = "ACK" /\ a.n = m.n /\ a.tag = m.tag /\ a.status = None
      /\ m.branch = a.branch <=> ~Ok(m.status)
  BY <1>2, <1>3 DEF Datagram, AckBranch, Confirmable, TypeOK
<1>5. step' \in 1..Len(plan) /\ step' \in {step, step + 1} /\ phase' \in {"send", "success"}
      /\ (phase' = "send" => step' = step + 1)
  <2>1. Onward /\ step \in 1..Len(plan) /\ Len(plan) \in Nat
    BY DEF SendAck, TypeOK, GoodPlan
  <2> HIDE DEF IInv
  <2> QED BY <2>1 DEF Onward
<1>6. network' = network \cup {a}
  BY DEF SendAck
<1>7. /\ UNCHANGED <<plan, invite, next_cseq, remote_tag, results, device>>
      /\ phase = "send" /\ Method = "ACK"
  BY DEF SendAck
<1>8. TypeOK'
  BY <1>4, <1>5, <1>6, <1>7 DEF TypeOK, Datagram, AckBranch, None
<1> HIDE DEF a
<1>9. AnsweredOnce' /\ AnswerIsOwn'
  BY <1>4, <1>6, <1>7 DEF AnsweredOnce, AnswerIsOwn, None
<1>10. AcksFit'
  BY <1>2, <1>4, <1>6 DEF AcksFit, Confirmable
<1>11. InviteKnown'
  <2>1. ~Waiting("INVITE")'
    BY <1>5 DEF Waiting
  <2>2. Confirmable(m)'
    BY <1>2, <1>6, <1>7 DEF Confirmable
  <2>3. invite'.branch < step'
    BY <1>3, <1>5, <1>7 DEF TypeOK
  <2> QED BY <1>6, <2>1, <2>2, <2>3 DEF InviteKnown
<1>12. GoodPlan(plan)'
  BY <1>7
<1> QED BY <1>8, <1>9, <1>10, <1>11, <1>12

\* A request is new, and an INVITE puts an end to what was known of another.
LEMMA SendStep == IInv /\ Send => IInv'
<1> SUFFICES ASSUME IInv, Send PROVE IInv'
  OBVIOUS
<1> USE DEF IInv
<1> DEFINE d == Datagram(Method, next_cseq, step, remote_tag', None)
<1>1. /\ UNCHANGED <<plan, step, results, device>> /\ phase = "send" /\ phase' = "wait"
      /\ network' = network \cup {d} /\ next_cseq' = next_cseq + 1 /\ Method # "ACK"
  BY DEF Send
<1>2. /\ d.method = Method /\ d.n = next_cseq /\ d.branch = step
      /\ d.tag = remote_tag' /\ d.status = None
  BY DEF Datagram
<1>3. /\ invite' \in [n : Nat, branch : Nat, status : Nat] /\ remote_tag' \in Nat
      /\ Method = "INVITE" => invite'.n = next_cseq /\ invite'.branch = step
      /\ Method # "INVITE" => UNCHANGED <<invite, remote_tag>>
  BY DEF Send, TypeOK, None, GoodPlan
<1> HIDE DEF d
<1>4. TypeOK'
  <2>1. TypeOK
    OBVIOUS
  <2> HIDE DEF IInv
  <2>2. /\ step \in 1..Len(plan) /\ next_cseq \in Nat
        /\ results \in Seq([branch : Nat, status : Nat])
        /\ \A m \in network : m.n \in Nat /\ m.branch \in Nat /\ m.tag \in Nat
                                  /\ m.status \in Nat
    BY <2>1 DEF TypeOK
  <2>3. d.n \in Nat /\ d.branch \in Nat /\ d.tag \in Nat /\ d.status \in Nat
    BY <2>2, <1>2, <1>3 DEF None
  <2> QED BY <2>2, <2>3, <1>1, <1>3 DEF TypeOK
<1>5. AnsweredOnce' /\ AnswerIsOwn'
  BY <1>1, <1>2 DEF AnsweredOnce, AnswerIsOwn, None
<1>6. AcksFit'
  BY <1>1, <1>2 DEF AcksFit
<1>7. InviteKnown'
  <2>1. CASE Method = "INVITE"
    BY <1>1, <1>3, <2>1 DEF InviteKnown, Waiting, Method, TypeOK
  <2>2. CASE Method # "INVITE"
    <3>1. ~Waiting("INVITE")' /\ (Invited' <=> Invited)
      BY <1>1, <2>2 DEF Waiting, Invited, Method
    <3>2. ASSUME Invited
          PROVE  invite.branch < step /\ \E m \in network : Confirmable(m)
      BY <1>1, <3>2 DEF InviteKnown, Waiting
    <3>3. ASSUME NEW m \in network, Confirmable(m)
          PROVE  m \in network' /\ Confirmable(m)'
      BY <1>1, <1>3, <2>2, <3>3 DEF Confirmable
    <3> QED BY <1>1, <1>3, <2>2, <3>1, <3>2, <3>3 DEF InviteKnown
  <2> QED BY <2>1, <2>2
<1> QED BY <1>1, <1>4, <1>5, <1>6, <1>7

\* An answer that matches is that of the step; that of an INVITE is kept.
LEMMA ReceiveStep == ASSUME IInv, NEW m \in network, Receive(m) PROVE IInv'
<1> USE DEF IInv
<1> DEFINE r == [branch |-> step, status |-> m.status]
<1>1. /\ phase = "wait" /\ m.status >= 200 /\ m.method = Method
      /\ m.n = next_cseq - 1 /\ m.branch = step
      /\ results' = Append(results, r)
      /\ UNCHANGED <<plan, next_cseq, network, device>>
  BY DEF Receive, Matches
<1>2. /\ step \in 1..Len(plan) /\ Len(plan) \in Nat
      /\ m.n \in Nat /\ m.branch \in Nat /\ m.tag \in Nat /\ m.status \in Nat
  BY DEF TypeOK, GoodPlan
<1>3. r \in [branch : Nat, status : Nat]
  BY <1>2
<1>4. /\ invite' \in [n : Nat, branch : Nat, status : Nat]
      /\ invite'.n = invite.n /\ invite'.branch = invite.branch
      /\ Method = "INVITE" => invite'.status = m.status
      /\ Method # "INVITE" => invite' = invite
  BY <1>2 DEF Receive, TypeOK
<1>5. /\ remote_tag' \in Nat /\ phase' # "wait"
      /\ phase' = "send" =>
            /\ step' = step + 1 /\ step' \in 1..Len(plan)
            /\ remote_tag' = IF Method = "INVITE" THEN m.tag ELSE remote_tag
      /\ phase' # "send" => step' = step
  <2>1. remote_tag \in Nat
    BY DEF TypeOK
  <2>2. CASE m.status # plan[step].expected
    BY <2>1, <2>2 DEF Receive
  <2>3. CASE m.status = plan[step].expected /\ Method = "INVITE" /\ m.tag = None
    BY <1>2, <2>3 DEF Receive, None
  <2>4. CASE m.status = plan[step].expected /\ ~(Method = "INVITE" /\ m.tag = None)
    <3>1. Onward /\ remote_tag' = IF Method = "INVITE" THEN m.tag ELSE remote_tag
      BY <2>4 DEF Receive
    <3> HIDE DEF IInv
    <3> QED BY <1>2, <2>1, <3>1 DEF Onward
  <2> QED BY <2>2, <2>3, <2>4
<1> HIDE DEF r
<1>6. TypeOK'
  <2>1. TypeOK
    OBVIOUS
  <2> HIDE DEF IInv
  <2> QED BY <2>1, <1>1, <1>2, <1>3, <1>4, <1>5 DEF TypeOK
<1>7. AnsweredOnce' /\ AcksFit' /\ GoodPlan(plan)'
  BY <1>1 DEF AnsweredOnce, AcksFit
<1>8. AnswerIsOwn'
  <2>1. results \in Seq([branch : Nat, status : Nat])
    BY DEF TypeOK
  <2>2. step \in DOMAIN device.answers /\ device.answers[step] = m.status
    BY <1>1 DEF AnsweredOnce
  <2>3. r.branch = step /\ r.status = m.status
    BY DEF r
  <2>4. SUFFICES ASSUME NEW i \in DOMAIN results'
                 PROVE  /\ results'[i].branch \in DOMAIN device.answers
                        /\ device.answers[results'[i].branch] = results'[i].status
    BY <1>1 DEF AnswerIsOwn
  <2>5. CASE i \in DOMAIN results
    <3>1. results'[i] = results[i]
      BY <1>1, <1>3, <2>1, <2>5
    <3> QED BY <2>5, <3>1 DEF AnswerIsOwn
  <2>6. CASE i = Len(results) + 1
    <3>1. results'[i] = r
      BY <1>1, <1>3, <2>1, <2>6
    <3> QED BY <2>2, <2>3, <3>1
  <2> QED BY <1>1, <1>3, <2>1, <2>5, <2>6
<1>9. InviteKnown'
  <2>1. SUFFICES ASSUME phase' = "send", Invited'
                 PROVE  invite'.branch < step' /\ \E x \in network' : Confirmable(x)'
    BY <1>5 DEF InviteKnown, Waiting
  <2>2. step' = step + 1 /\ remote_tag' = IF Method = "INVITE" THEN m.tag ELSE remote_tag
    BY <1>5, <2>1
  <2>3. CASE Method = "INVITE"
    <3>1. invite.n = next_cseq - 1 /\ invite.branch = step
      BY <1>1, <2>3 DEF InviteKnown, Waiting
    <3>2. Confirmable(m)'
      BY <1>1, <1>4, <2>2, <2>3, <3>1 DEF Confirmable
    <3> QED BY <1>1, <1>2, <1>4, <2>2, <3>1, <3>2
  <2>4. CASE Method # "INVITE"
    <3>1. Invited
      BY <1>1, <1>2, <2>1, <2>2, <2>4 DEF Invited, Method
    <3>2. PICK x \in network : Confirmable(x)
      BY <1>1, <2>4, <3>1 DEF InviteKnown, Waiting
    <3>3. Confirmable(x)'
      BY <1>1, <1>4, <2>2, <2>4, <3>2 DEF Confirmable
    <3>4. invite.branch < step
      BY <1>1, <2>4, <3>1 DEF InviteKnown, Waiting
    <3> QED BY SMTT(20), <1>1, <1>2, <1>4, <2>2, <2>4, <3>3, <3>4 DEF TypeOK
  <2> QED BY <2>3, <2>4
<1> QED BY <1>6, <1>7, <1>8, <1>9

\* A timeout repeats the request or ends the execution, an error ends it.
LEMMA QuietStep == IInv /\ (Timeout \/ SocketFails) => IInv'
<1> SUFFICES ASSUME IInv, Timeout \/ SocketFails PROVE IInv'
  OBVIOUS
<1>1. /\ UNCHANGED <<plan, step, invite, next_cseq, remote_tag, results, network, device>>
      /\ phase' \in {phase, "timeout", "error"}
  BY DEF Timeout, SocketFails
<1>2. GoodPlan(plan)' /\ TypeOK' /\ AnsweredOnce' /\ AnswerIsOwn' /\ AcksFit'
  BY <1>1 DEF IInv, TypeOK, AnsweredOnce, AnswerIsOwn, AcksFit
<1>3. \A m \in network : Confirmable(m) => Confirmable(m)'
  BY <1>1 DEF Confirmable
<1>4. InviteKnown'
  BY <1>1, <1>3 DEF IInv, InviteKnown, Waiting, Invited, Method
<1> QED BY <1>2, <1>4 DEF IInv

\* What the device sends is no ACK; a final answer of it is the first to its
\* branch.
LEMMA DeviceStep ==
    ASSUME IInv, NEW m \in network, DeviceAnswers(m) \/ DeviceAnnounces(m)
    PROVE  IInv'
<1> USE DEF IInv
<1>1. PICK d : /\ network' = network \cup {d} /\ d.method # "ACK"
               /\ d.n \in Nat /\ d.branch \in Nat /\ d.tag \in Nat /\ d.status \in Nat
               /\ d.status >= 200 => d.branch \in DOMAIN device'.answers
                                       /\ device'.answers[d.branch] = d.status
               /\ \A b \in DOMAIN device.answers :
                     b \in DOMAIN device'.answers /\ device'.answers[b] = device.answers[b]
  <2>1. m.n \in Nat /\ m.branch \in Nat
    BY DEF TypeOK
  <2>2. CASE DeviceAnnounces(m)
    <3> DEFINE d == Datagram("INVITE", m.n, m.branch, m.branch, 180)
    <3> WITNESS d
    <3> QED BY <2>1, <2>2 DEF DeviceAnnounces, Datagram
  <2>3. CASE DeviceAnswers(m)
    <3>1. PICK status \in Statuses : \E tag \in {m.branch, None} : Answer(m, status, tag)
      BY <2>3 DEF DeviceAnswers
    <3>2. PICK tag \in {m.branch, None} : Answer(m, status, tag)
      BY <3>1
    <3> DEFINE d == Datagram(m.method, m.n, m.branch, tag, status)
    <3>3. Statuses \subseteq 200..699
      BY ReplayAssumption
    <3>4. status \in Nat
      BY <3>3
    <3>5. m.method # "ACK" /\ m.branch \notin DOMAIN device.answers /\ status \in Nat
      BY <2>3, <3>4 DEF DeviceAnswers
    <3>6. network' = network \cup {d}
      BY <3>2 DEF Answer
    <3>7. device'.answers = [b \in {m.branch} \cup DOMAIN device.answers |->
                               IF b = m.branch THEN status ELSE device.answers[b]]
      BY <3>2 DEF Answer
    <3>8. d.method = m.method /\ d.n = m.n /\ d.branch = m.branch /\ d.tag = tag
          /\ d.status = status /\ tag \in Nat
      BY <2>1 DEF Datagram, None
    <3> HIDE DEF d
    <3> WITNESS d
    <3> QED BY <2>1, <3>5, <3>6, <3>7, <3>8
  <2> QED BY <2>2, <2>3
<1>2. UNCHANGED <<plan, edited, executor>>
  BY DEF DeviceAnswers, DeviceAnnounces
<1>3. TypeOK' /\ GoodPlan(plan)'
  BY <1>1, <1>2 DEF TypeOK, executor
<1>4. AnsweredOnce' /\ AcksFit'
  BY <1>1 DEF AnsweredOnce, AcksFit
<1>5. AnswerIsOwn'
  BY <1>1, <1>2 DEF AnswerIsOwn, executor
<1>6. \A x \in network : x \in network' /\ (Confirmable(x) => Confirmable(x)')
  BY <1>1, <1>2 DEF Confirmable, executor
<1>7. InviteKnown'
  BY <1>2, <1>6 DEF InviteKnown, Waiting, Invited, Method, executor
<1> QED BY <1>3, <1>4, <1>5, <1>7

LEMMA NextIInv == IInv /\ [Next]_vars => IInv'
<1> SUFFICES ASSUME IInv, [Next]_vars PROVE IInv'
  OBVIOUS
<1>1. CASE UNCHANGED vars
  <2>1. \A m \in network : Confirmable(m) => Confirmable(m)'
    BY <1>1 DEF Confirmable, vars, executor
  <2>2. InviteKnown'
    BY <1>1, <2>1 DEF IInv, InviteKnown, Waiting, Invited, Method, vars, executor
  <2> QED BY <1>1, <2>2 DEF IInv, TypeOK, AnsweredOnce, AnswerIsOwn, AcksFit, vars, executor
<1>2. CASE Next
  BY <1>2, SendAckStep, SendStep, ReceiveStep, QuietStep, DeviceStep DEF Next
<1> QED BY <1>1, <1>2

\* For every plan that is compiled and edited, whatever the device answers and
\* the network does: an answer is only taken for its own request, and an ACK
\* confirms the answer it was sent for.
THEOREM ReplayTransactionsFit == Spec => []TransactionsFit
<1>1. IInv => TransactionsFit
  BY DEF IInv, TransactionsFit
<1> QED BY InitIInv, NextIInv, <1>1, PTL DEF Spec
-----------------------------------------------------------------------------
(* SuccessEndsCall.  CallInv follows the dialog of a call: the requests of  *)
(* the steps so far, the device's answers to them, the To tag that ties a   *)
(* BYE to the INVITE before it, and the calls that those answers leave      *)
(* open.                                                                    *)

Done(k) == k < step \/ phase = "success"

\* A request of the executor that the device answers.
Asks(m) == m.status = None /\ m.method # "ACK"

\* An answer of the device.
IsAnswer(m) == m.status # None /\ m.tag \in {m.branch, None}

\* Step b is the last INVITE in front of step k.
LastInvite(b, k) ==
    /\ b \in 1..(k - 1) /\ plan[b].method = "INVITE"
    /\ \A j \in (b + 1)..(k - 1) : plan[j].method # "INVITE"

\* A step is one request, of the step's method.
SentOnce ==
    /\ \A m \in network : Asks(m) =>
          /\ m.branch \in 1..step /\ m.method = plan[m.branch].method
          /\ m.branch = step => phase # "send"
    /\ \A m, x \in network : Asks(m) /\ Asks(x) /\ m.branch = x.branch => m = x
    /\ \A k \in 1..step : plan[k].method # "ACK" /\ (k = step => phase \in {"wait", "success"}) =>
          \E m \in network : Asks(m) /\ m.branch = k

\* What is answered was sent, and a step that is done got the answer the plan
\* expects.
AsExpected ==
    /\ \A b \in DOMAIN device.answers : b \in 1..step /\ (b = step => phase # "send")
    /\ \A k \in 1..Len(plan) : Done(k) /\ plan[k].method # "ACK" =>
          k \in DOMAIN device.answers /\ device.answers[k] = plan[k].expected

\* The tag at hand is that of the last INVITE, and so is that of a BYE.
TagsFit ==
    /\ \A m \in network : m.status # None => m.tag \in {m.branch, None}
    /\ remote_tag # None => remote_tag \in DOMAIN device.answers
    /\ phase \in {"send", "wait"} /\ ~Waiting("INVITE") =>
          \A b \in 1..(step - 1) : LastInvite(b, step) => remote_tag = b
    /\ \A m \in network : Asks(m) /\ m.method = "BYE" =>
          /\ m.tag # None => m.tag \in DOMAIN device.answers
          /\ \A b \in 1..(m.branch - 1) : LastInvite(b, m.branch) => m.tag = b

\* A call is an INVITE that was accepted and whose BYE was not.
CallsFit ==
    /\ \A b \in device.calls :
          /\ b \in DOMAIN device.answers /\ Ok(device.answers[b])
          /\ plan[b].method = "INVITE"
    /\ \A m \in network :
          Asks(m) /\ m.method = "BYE" /\ m.branch \in DOMAIN device.answers
             /\ Ok(device.answers[m.branch])
          => m.tag \notin device.calls

\* No BYE has been answered behind a call that is open.
Unended ==
    Plain => \A b \in device.calls : \A k \in (b + 1)..Len(plan) :
                 Done(k) => plan[k].method # "BYE"

AsCompiled == ~edited => ~Endless(plan)

CallInv ==
    /\ AsCompiled
    /\ SentOnce /\ AsExpected /\ TagsFit /\ CallsFit /\ Unended
-----------------------------------------------------------------------------
\* Nothing is sent, and what was compiled asked nothing of an open call.
LEMMA InitCalls == Init => CallInv
<1> SUFFICES ASSUME Init PROVE CallInv
  OBVIOUS
<1>1. /\ network = {} /\ device.answers = <<>> /\ device.calls = {}
      /\ step = 1 /\ phase = "send" /\ remote_tag = None
  BY DEF Init
<1>2. AsCompiled
  BY DEF Init, AsCompiled, Executable
<1>3. DOMAIN device.answers = {}
  BY <1>1
<1> QED BY <1>1, <1>2, <1>3
        DEF CallInv, SentOnce, AsExpected, TagsFit, CallsFit, Unended, Done, None

\* A step is behind the executor or it is the plan's last.
LEMMA Onwards ==
    ASSUME IInv, Onward, phase \in {"send", "wait"}, UNCHANGED plan
    PROVE  /\ step' \in {step, step + 1} /\ phase' \in {"send", "success"}
           /\ phase' = "send" => step' = step + 1
           /\ phase' = "success" => step' = step /\ step = Len(plan)
           /\ \A k \in 1..Len(plan) : Done(k)' => Done(k) \/ k = step
<1>1. step \in 1..Len(plan) /\ Len(plan) \in Nat
  BY DEF IInv, TypeOK, GoodPlan
<1>2. CASE step = Len(plan)
  BY <1>1, <1>2 DEF Onward, Done
<1>3. CASE step # Len(plan)
  BY <1>1, <1>3 DEF Onward, Done
<1> QED BY <1>2, <1>3

\* What the executor and the device do besides sending requests, answering
\* them and taking answers.
LEMMA AsideCalls ==
    ASSUME IInv, CallInv, UNCHANGED <<plan, edited, step, device>>,
           phase' \in {phase, "mismatch", "invalid_tag", "timeout", "error"},
           remote_tag' \in {remote_tag, None},
           remote_tag' = remote_tag \/ phase' = "invalid_tag",
           \A m \in network : m \in network',
           \A m \in network' : m \in network \/ IsAnswer(m)
    PROVE  CallInv'
<1> USE DEF CallInv
<1>1. \A m : Asks(m)' <=> Asks(m)
  BY DEF Asks
<1>2. \A m : IsAnswer(m) => ~Asks(m) /\ (m.status # None => m.tag \in {m.branch, None})
  BY DEF IsAnswer, Asks
<1>3. \A k : Done(k)' => Done(k)
  BY DEF Done
<1>4. SentOnce'
  BY <1>1, <1>2 DEF SentOnce
<1>5. AsExpected'
  BY <1>3 DEF AsExpected
<1>6. \A b, k : LastInvite(b, k)' <=> LastInvite(b, k)
  BY DEF LastInvite
<1>7. phase' \in {"send", "wait"} => phase' = phase /\ remote_tag' = remote_tag /\ Method' = Method
  BY DEF Method
<1>8. TagsFit'
  BY <1>1, <1>2, <1>6, <1>7 DEF TagsFit, Waiting
<1>9. CallsFit'
  BY <1>1, <1>2 DEF CallsFit
<1>10. Unended'
  BY <1>3 DEF Unended, Plain
<1> QED BY <1>4, <1>5, <1>8, <1>9, <1>10 DEF AsCompiled

\* An ACK is no request.
LEMMA SendAckCalls == IInv /\ CallInv /\ SendAck => CallInv'
<1> SUFFICES ASSUME IInv, CallInv, SendAck PROVE CallInv'
  OBVIOUS
<1> DEFINE a == Datagram("ACK", invite.n, AckBranch, remote_tag, None)
<1>1. /\ phase = "send" /\ plan[step].method = "ACK" /\ Onward /\ network' = network \cup {a}
      /\ UNCHANGED <<plan, edited, remote_tag, device>>
  BY DEF SendAck, Method
<1>2. a.status = None /\ a.method = "ACK"
  BY DEF Datagram
<1> HIDE DEF a
<1>3. /\ \A m : Asks(m)' <=> Asks(m)
      /\ \A m \in network : m \in network'
      /\ \A m \in network' : m \in network \/ (~Asks(m) /\ m.status = None)
  BY <1>1, <1>2 DEF Asks
<1>4. /\ step' \in {step, step + 1} /\ phase' \in {"send", "success"}
      /\ phase' = "send" => step' = step + 1
      /\ phase' = "success" => step' = step /\ step = Len(plan)
      /\ \A k \in 1..Len(plan) : Done(k)' => Done(k) \/ k = step
  BY <1>1, Onwards
<1>5. step \in 1..Len(plan) /\ Len(plan) \in Nat
  BY DEF IInv, TypeOK, GoodPlan
<1> USE DEF CallInv
<1>6. SentOnce'
  <2>1. ASSUME NEW m \in network', Asks(m)
        PROVE  /\ m.branch \in 1..step' /\ m.method = plan[m.branch].method
               /\ m.branch = step' => phase' # "send"
    BY <1>3, <1>4, <1>5, <2>1 DEF SentOnce
  <2>2. ASSUME NEW k \in 1..step', plan[k].method # "ACK",
               k = step' => phase' \in {"wait", "success"}
        PROVE  \E m \in network : Asks(m) /\ m.branch = k
    <3>1. k \in 1..step /\ k # step
      BY <1>1, <1>4, <1>5, <2>2
    <3> QED BY <2>2, <3>1 DEF SentOnce
  <2>3. \A m, x \in network' : Asks(m) /\ Asks(x) /\ m.branch = x.branch => m = x
    BY <1>3 DEF SentOnce
  <2> QED BY <1>1, <1>3, <2>1, <2>2, <2>3 DEF SentOnce
<1>7. AsExpected'
  BY <1>1, <1>4, <1>5 DEF AsExpected
<1>8. \A b, k : LastInvite(b, k)' <=> LastInvite(b, k)
  BY <1>1 DEF LastInvite
<1>9. TagsFit'
  <2>1. ASSUME phase' = "send", NEW b \in 1..(step' - 1), LastInvite(b, step')
        PROVE  remote_tag = b
    <3>1. b \in 1..(step - 1) /\ LastInvite(b, step)
      BY <1>1, <1>4, <1>5, <2>1 DEF LastInvite
    <3> QED BY <1>1, <3>1 DEF TagsFit, Waiting
  <2> QED BY <1>1, <1>3, <1>4, <1>8, <2>1 DEF TagsFit
<1>10. CallsFit'
  BY <1>1, <1>3 DEF CallsFit
<1>11. Unended'
  <2>1. \A k \in 1..Len(plan) : Done(k)' /\ plan[k].method = "BYE" => Done(k)
    BY <1>1, <1>4
  <2>2. \A b \in device.calls : b \in Nat
    BY <1>5 DEF CallsFit, AsExpected
  <2>3. \A b \in device.calls : \A k \in (b + 1)..Len(plan) : k \in 1..Len(plan)
    BY <1>5, <2>2
  <2> QED BY <1>1, <2>1, <2>3 DEF Unended, Plain
<1> QED BY <1>1, <1>6, <1>7, <1>9, <1>10, <1>11 DEF AsCompiled

\* A request is the first of its step, and a BYE takes the tag at hand.
LEMMA SendCalls == IInv /\ CallInv /\ Send => CallInv'
<1> SUFFICES ASSUME IInv, CallInv, Send PROVE CallInv'
  OBVIOUS
<1> DEFINE d == Datagram(Method, next_cseq, step, remote_tag', None)
<1>1. /\ phase = "send" /\ phase' = "wait" /\ Method # "ACK"
      /\ network' = network \cup {d}
      /\ UNCHANGED <<plan, edited, step, device>>
      /\ remote_tag' = IF Method = "INVITE" THEN None ELSE remote_tag
  BY DEF Send
<1>2. d.status = None /\ d.method = plan[step].method /\ d.branch = step /\ d.tag = remote_tag'
  BY DEF Datagram, Method
<1> HIDE DEF d
<1>3. step \in 1..Len(plan) /\ Len(plan) \in Nat
  BY DEF IInv, TypeOK, GoodPlan
<1>4. /\ \A m : Asks(m)' <=> Asks(m)
      /\ Asks(d) /\ d \in network' /\ Method' = Method
      /\ \A m \in network : m \in network'
      /\ \A m \in network' : m \in network \/ m = d
  BY <1>1, <1>2 DEF Asks, Method
<1> USE DEF CallInv
<1>5. \A m \in network : Asks(m) => m.branch # step
  BY <1>1 DEF SentOnce
<1>6. SentOnce'
  <2>1. ASSUME NEW m \in network', Asks(m)
        PROVE  m.branch \in 1..step /\ m.method = plan[m.branch].method
    BY <1>2, <1>3, <1>4, <2>1 DEF SentOnce
  <2>2. \A m, x \in network' : Asks(m) /\ Asks(x) /\ m.branch = x.branch => m = x
    BY <1>2, <1>4, <1>5 DEF SentOnce
  <2>3. ASSUME NEW k \in 1..step, plan[k].method # "ACK"
        PROVE  \E m \in network' : Asks(m) /\ m.branch = k
    <3>1. CASE k = step
      BY <1>2, <1>4, <3>1
    <3>2. CASE k # step
      BY <1>4, <2>3, <3>2 DEF SentOnce
    <3> QED BY <3>1, <3>2
  <2> QED BY <1>1, <1>4, <2>1, <2>2, <2>3 DEF SentOnce
<1>7. \A k : Done(k)' => Done(k)
  BY <1>1 DEF Done
<1>8. AsExpected'
  BY <1>1, <1>7 DEF AsExpected
<1>9. \A b, k : LastInvite(b, k)' <=> LastInvite(b, k)
  BY <1>1 DEF LastInvite
<1>10. ~Waiting("INVITE")
  BY <1>1 DEF Waiting
<1>11. TagsFit'
  <2>1. ~Waiting("INVITE")' => remote_tag' = remote_tag
    BY <1>1, <1>4 DEF Waiting
  <2>2. Method = "BYE" => remote_tag' = remote_tag
    BY <1>1
  <2>3. \A b \in 1..(step - 1) : LastInvite(b, step) => remote_tag = b
    BY <1>1, <1>10 DEF TagsFit
  <2>4. \A m \in network' : m.status # None => m.tag \in {m.branch, None}
    BY <1>2, <1>4 DEF TagsFit
  <2>5. remote_tag' # None => remote_tag' \in DOMAIN device'.answers
    BY <1>1 DEF TagsFit
  <2>6. ASSUME NEW m \in network', Asks(m), m.method = "BYE"
        PROVE  /\ m.tag # None => m.tag \in DOMAIN device'.answers
               /\ \A b \in 1..(m.branch - 1) : LastInvite(b, m.branch) => m.tag = b
    <3>1. CASE m \in network
      BY <1>1, <2>6, <3>1 DEF TagsFit
    <3>2. CASE m = d
      <4>1. d.tag = remote_tag
        BY <1>2, <2>2, <2>6, <3>2 DEF Method
      <4> QED BY <1>1, <1>2, <2>3, <3>2, <4>1 DEF TagsFit
    <3> QED BY <1>4, <3>1, <3>2
  <2> QED BY <1>1, <1>4, <1>9, <2>1, <2>3, <2>4, <2>5, <2>6 DEF TagsFit
<1>12. CallsFit'
  <2>1. step \notin DOMAIN device.answers
    BY <1>1 DEF AsExpected
  <2> QED BY <1>1, <1>2, <1>4, <2>1 DEF CallsFit
<1>13. Unended'
  BY <1>1, <1>7 DEF Unended, Plain
<1> QED BY <1>1, <1>6, <1>8, <1>11, <1>12, <1>13 DEF AsCompiled
\* An answer that goes on is the one that the plan expects, that of an INVITE
\* has the tag of the call, and that of a BYE ends the call in front of it.
LEMMA ReceiveCalls ==
    ASSUME IInv, CallInv, NEW m \in network, Receive(m)
    PROVE  CallInv'
<1> USE DEF CallInv
<1>1. /\ phase = "wait" /\ m.status >= 200 /\ m.method = Method /\ m.branch = step
      /\ UNCHANGED <<plan, edited, network, device>>
  BY DEF Receive, Matches
<1>2. step \in 1..Len(plan) /\ Len(plan) \in Nat /\ m.status \in Nat
  BY DEF IInv, TypeOK, GoodPlan
<1>3. step \in DOMAIN device.answers /\ device.answers[step] = m.status
  BY <1>1 DEF IInv, AnsweredOnce
<1>4. CASE m.status # plan[step].expected \/ (Method = "INVITE" /\ m.tag = None)
  <2>1. /\ UNCHANGED step
        /\ \/ phase' = "mismatch" /\ remote_tag' = remote_tag
           \/ phase' = "invalid_tag" /\ remote_tag' = None
    BY <1>4 DEF Receive
  <2> QED BY <1>1, <2>1, AsideCalls
<1>5. CASE m.status = plan[step].expected /\ ~(Method = "INVITE" /\ m.tag = None)
  <2>1. Onward /\ remote_tag' = IF Method = "INVITE" THEN m.tag ELSE remote_tag
    BY <1>5 DEF Receive
  <2>2. /\ step' \in {step, step + 1} /\ phase' \in {"send", "success"}
        /\ phase' = "send" => step' = step + 1
        /\ phase' = "success" => step' = step /\ step = Len(plan)
        /\ \A k \in 1..Len(plan) : Done(k)' => Done(k) \/ k = step
    BY <1>1, <2>1, Onwards
  <2>3. \A x : (Asks(x)' <=> Asks(x))
    BY DEF Asks
  <2>4. \A b, k : LastInvite(b, k)' <=> LastInvite(b, k)
    BY <1>1 DEF LastInvite
  <2>5. SentOnce'
    <3>1. ASSUME NEW x \in network, Asks(x)
          PROVE  /\ x.branch \in 1..step' /\ x.method = plan[x.branch].method
                 /\ x.branch = step' => phase' # "send"
      BY <1>2, <2>2, <3>1 DEF SentOnce
    <3>2. ASSUME NEW k \in 1..step', plan[k].method # "ACK",
                 k = step' => phase' \in {"wait", "success"}
          PROVE  \E x \in network : Asks(x) /\ x.branch = k
      <4>1. k \in 1..step
        BY <1>2, <2>2, <3>2
      <4> QED BY <1>1, <3>2, <4>1 DEF SentOnce
    <3> QED BY <1>1, <2>3, <3>1, <3>2 DEF SentOnce
  <2>6. AsExpected'
    <3>1. \A b \in DOMAIN device.answers : b \in 1..step' /\ (b = step' => phase' # "send")
      BY <1>2, <2>2 DEF AsExpected
    <3>2. ASSUME NEW k \in 1..Len(plan), Done(k)', plan[k].method # "ACK"
          PROVE  k \in DOMAIN device.answers /\ device.answers[k] = plan[k].expected
      <4>1. CASE Done(k)
        BY <3>2, <4>1 DEF AsExpected
      <4>2. CASE k = step
        BY <1>3, <1>5, <4>2
      <4> QED BY <2>2, <3>2, <4>1, <4>2
    <3> QED BY <1>1, <3>1, <3>2 DEF AsExpected
  <2>7. TagsFit'
    <3>1. Method = "INVITE" => remote_tag' = step
      BY <1>1, <1>2, <1>5, <2>1 DEF TagsFit, None
    <3>2. remote_tag' # None => remote_tag' \in DOMAIN device.answers
      BY <1>3, <2>1, <3>1 DEF TagsFit
    <3>3. ASSUME phase' = "send", NEW b \in 1..(step' - 1), LastInvite(b, step')
          PROVE  remote_tag' = b
      <4>1. step' = step + 1 /\ b \in 1..step /\ plan[b].method = "INVITE"
            /\ \A j \in (b + 1)..step : plan[j].method # "INVITE"
        BY <1>2, <2>2, <3>3 DEF LastInvite
      <4>2. CASE Method = "INVITE"
        BY <1>2, <3>1, <4>1, <4>2 DEF Method
      <4>3. CASE Method # "INVITE"
        <5>1. b \in 1..(step - 1) /\ LastInvite(b, step)
          BY <1>2, <4>1, <4>3 DEF LastInvite, Method
        <5> QED BY <1>1, <2>1, <4>3, <5>1 DEF TagsFit, Waiting
      <4> QED BY <4>2, <4>3
    <3> QED BY <1>1, <2>2, <2>3, <2>4, <3>2, <3>3 DEF TagsFit
  <2>8. CallsFit'
    BY <1>1, <2>3 DEF CallsFit
  <2>9. Unended'
    <3>1. SUFFICES ASSUME Plain, NEW b \in device.calls, NEW k \in (b + 1)..Len(plan),
                          Done(k)', plan[k].method = "BYE"
                   PROVE  FALSE
      BY <1>1 DEF Unended, Plain
    <3>2. /\ b \in 1..step /\ b \in DOMAIN device.answers /\ Ok(device.answers[b])
          /\ plan[b].method = "INVITE" /\ k \in 1..Len(plan)
      BY <1>2 DEF CallsFit, AsExpected
    <3>3. k = step /\ ~Done(k)
      BY <2>2, <3>1, <3>2 DEF Unended
    <3>4. Done(b) /\ Ok(plan[b].expected)
      BY <1>1, <1>2, <3>1, <3>2, <3>3 DEF Done, AsExpected
    <3>5. \A j \in (b + 1)..(k - 1) : plan[j].method # "BYE"
      BY <1>2, <3>1, <3>2, <3>3 DEF Unended, Done
    <3>6. LastInvite(b, k) /\ b \in 1..(k - 1)
      <4>1. DOMAIN plan = 1..Len(plan)
        BY DEF IInv, GoodPlan
      <4>2. SUFFICES ASSUME NEW j \in (b + 1)..(k - 1), plan[j].method = "INVITE"
                     PROVE  FALSE
        BY <1>2, <3>2, <3>1 DEF LastInvite
      <4>3. j \in 1..Len(plan) /\ b < j /\ b \in 1..Len(plan)
        BY <1>2, <3>2, <3>1
      <4>4. PICK i \in b..j : plan[i].method = "BYE"
        BY <3>1, <3>2, <3>4, <4>1, <4>2, <4>3 DEF Plain
      <4>5. i \in (b + 1)..(k - 1)
        BY <3>2, <4>2, <4>3, <4>4
      <4> QED BY <3>5, <4>4, <4>5
    <3>7. PICK x \in network : Asks(x) /\ x.branch = k
      BY <1>1, <1>2, <3>1, <3>3 DEF SentOnce
    <3>8. x.method = "BYE" /\ x.tag = b
      BY <3>1, <3>6, <3>7 DEF SentOnce, TagsFit
    <3>9. Ok(device.answers[k]) /\ k \in DOMAIN device.answers
      <4>1. k \in DOMAIN plan
        BY <3>2 DEF IInv, GoodPlan
      <4> QED BY <1>3, <1>5, <3>1, <3>3, <4>1 DEF Plain
    <3> QED BY <3>7, <3>8, <3>9 DEF CallsFit
  <2> QED BY <1>1, <2>5, <2>6, <2>7, <2>8, <2>9 DEF AsCompiled
<1> QED BY <1>4, <1>5

\* A call that is accepted is that of a step nothing was received of, and
\* its BYE ends it.
LEMMA DeviceCalls ==
    ASSUME IInv, CallInv, NEW m \in network, DeviceAnswers(m)
    PROVE  CallInv'
<1> USE DEF CallInv
<1>1. /\ Asks(m) /\ m.branch \notin DOMAIN device.answers
      /\ UNCHANGED <<plan, edited, step, phase, remote_tag>>
  BY DEF DeviceAnswers, executor, Asks
<1>2. PICK status \in Statuses : \E tag \in {m.branch, None} : Answer(m, status, tag)
  BY DEF DeviceAnswers
<1>3. PICK tag \in {m.branch, None} : Answer(m, status, tag)
  BY <1>2
<1> DEFINE d == Datagram(m.method, m.n, m.branch, tag, status)
<1>4. /\ network' = network \cup {d}
      /\ device'.answers = [b \in {m.branch} \cup DOMAIN device.answers |->
                               IF b = m.branch THEN status ELSE device.answers[b]]
      /\ device'.calls = IF m.method = "INVITE" /\ Ok(status) THEN device.calls \cup {m.branch}
                         ELSE IF m.method = "BYE" /\ Ok(status) THEN device.calls \ {m.tag}
                         ELSE device.calls
  BY <1>3 DEF Answer
<1>5. IsAnswer(d)
  <2>1. Statuses \subseteq 200..699
    BY ReplayAssumption
  <2>2. status \in 200..699
    BY <2>1
  <2> QED BY <2>2 DEF IsAnswer, Datagram, None
<1> HIDE DEF d
<1>6. /\ \A x : (Asks(x)' <=> Asks(x))
      /\ \A x \in network : x \in network'
      /\ \A x \in network' : x \in network \/ x = d
      /\ ~Asks(d) /\ d.tag \in {d.branch, None}
  BY <1>4, <1>5 DEF Asks, IsAnswer
<1>7. step \in 1..Len(plan) /\ Len(plan) \in Nat /\ DOMAIN plan = 1..Len(plan)
  BY DEF IInv, TypeOK, GoodPlan
<1>8. /\ m.branch \in 1..step /\ m.method = plan[m.branch].method
      /\ m.branch = step => phase # "send"
  BY <1>1 DEF SentOnce
<1>9. /\ DOMAIN device'.answers = {m.branch} \cup DOMAIN device.answers
      /\ device'.answers[m.branch] = status
      /\ \A b \in DOMAIN device.answers : device'.answers[b] = device.answers[b]
  BY <1>1, <1>4
<1>10. \A k : Done(k)' <=> Done(k)
  BY <1>1 DEF Done
<1>11. SentOnce'
  BY <1>1, <1>6 DEF SentOnce
<1>12. AsExpected'
  BY <1>1, <1>8, <1>9, <1>10 DEF AsExpected
<1>13. \A b, k : LastInvite(b, k)' <=> LastInvite(b, k)
  BY <1>1 DEF LastInvite
<1>14. TagsFit'
  <2>1. Waiting("INVITE")' <=> Waiting("INVITE")
    BY <1>1 DEF Waiting, Method
  <2> QED BY <1>1, <1>6, <1>9, <1>13, <2>1 DEF TagsFit
<1>15. CallsFit'
  <2>1. ASSUME NEW b \in device'.calls
        PROVE  /\ b \in DOMAIN device'.answers /\ Ok(device'.answers[b])
               /\ plan[b].method = "INVITE"
    <3>1. CASE b \in device.calls
      BY <1>9, <3>1 DEF CallsFit
    <3>2. CASE b \notin device.calls
      BY <1>4, <1>8, <1>9, <2>1, <3>2
    <3> QED BY <3>1, <3>2
  <2>2. ASSUME NEW x \in network, Asks(x), x.method = "BYE",
               x.branch \in DOMAIN device'.answers, Ok(device'.answers[x.branch])
        PROVE  x.tag \notin device'.calls
    <3>1. CASE x.branch = m.branch
      <4>1. x = m
        BY <1>1, <2>2, <3>1 DEF SentOnce
      <4> QED BY <1>4, <1>9, <2>2, <4>1
    <3>2. CASE x.branch # m.branch
      <4>1. x.tag \notin device.calls
        BY <1>9, <2>2, <3>2 DEF CallsFit
      <4>2. x.tag # m.branch
        BY <1>1, <1>8, <2>2 DEF TagsFit, None
      <4> QED BY <1>4, <4>1, <4>2
    <3> QED BY <3>1, <3>2
  <2> QED BY <1>1, <1>6, <2>1, <2>2 DEF CallsFit
<1>16. Unended'
  <2>1. SUFFICES ASSUME Plain, NEW b \in device'.calls, NEW k \in (b + 1)..Len(plan), Done(k)
                 PROVE  plan[k].method # "BYE"
    BY <1>1, <1>10 DEF Unended, Plain
  <2>2. CASE b \in device.calls
    BY <2>1, <2>2 DEF Unended
  <2>3. CASE b \notin device.calls
    <3>1. b = m.branch /\ m.method = "INVITE"
      BY <1>4, <2>1, <2>3
    <3>2. Done(b) /\ b \in 1..Len(plan) /\ plan[b].method # "ACK"
      BY <1>7, <1>8, <2>1, <3>1 DEF Done
    <3> QED BY <1>1, <3>1, <3>2 DEF AsExpected
  <2> QED BY <2>2, <2>3
<1> QED BY <1>1, <1>11, <1>12, <1>14, <1>15, <1>16 DEF AsCompiled

LEMMA NextCalls == IInv /\ CallInv /\ [Next]_vars => CallInv'
<1> SUFFICES ASSUME IInv, CallInv, [Next]_vars PROVE CallInv'
  OBVIOUS
<1>1. CASE UNCHANGED vars \/ Timeout \/ SocketFails
  <2>1. /\ UNCHANGED <<plan, edited, step, device, network, remote_tag>>
        /\ phase' \in {phase, "timeout", "error"}
    BY <1>1 DEF vars, executor, Timeout, SocketFails
  <2> QED BY <2>1, AsideCalls
<1>2. ASSUME NEW m \in network, DeviceAnnounces(m)
      PROVE  CallInv'
  <2>1. /\ network' = network \cup {Datagram("INVITE", m.n, m.branch, m.branch, 180)}
        /\ UNCHANGED <<plan, edited, step, device, phase, remote_tag>>
    BY <1>2 DEF DeviceAnnounces, executor
  <2>2. IsAnswer(Datagram("INVITE", m.n, m.branch, m.branch, 180))
    BY DEF IsAnswer, Datagram, None
  <2> QED BY <2>1, <2>2, AsideCalls
<1> QED BY <1>1, <1>2, SendAckCalls, SendCalls, ReceiveCalls, DeviceCalls DEF Next

\* For every capture, device and network: a plan of plain calls, executed as it
\* was compiled and with success, leaves no call open at the device.
THEOREM ReplayEndsCalls == Spec => []SuccessEndsCall
<1>1. ASSUME IInv, CallInv PROVE SuccessEndsCall
  <2>1. SUFFICES ASSUME phase = "success", ~edited, Plain, NEW b \in device.calls
                 PROVE  FALSE
    BY DEF SuccessEndsCall
  <2>2. step \in 1..Len(plan) /\ Len(plan) \in Nat /\ DOMAIN plan = 1..Len(plan)
    BY <1>1 DEF IInv, TypeOK, GoodPlan
  <2>3. /\ b \in 1..Len(plan) /\ b \in DOMAIN device.answers /\ Ok(device.answers[b])
        /\ plan[b].method = "INVITE"
    BY <1>1, <2>2 DEF CallInv, CallsFit, AsExpected
  <2>4. Ok(plan[b].expected)
    BY <1>1, <2>1, <2>3 DEF CallInv, AsExpected, Done
  <2>5. PICK k \in (b + 1)..Len(plan) : plan[k].method = "BYE"
    BY <1>1, <2>1, <2>2, <2>3, <2>4 DEF CallInv, AsCompiled, Endless, EndedBy
  <2> QED BY <1>1, <2>1, <2>5 DEF CallInv, Unended, Done
<1> QED BY InitIInv, NextIInv, InitCalls, NextCalls, <1>1, PTL DEF Spec

-----------------------------------------------------------------------------
\* A set of numbers that is not empty has a least one.
LEMMA Lowest ==
    ASSUME NEW T \in SUBSET Nat, T # {}
    PROVE  \E n \in T : \A m \in T : n <= m
<1> DEFINE intervals == {0..n : n \in T}
           smaller == StrictSubsetOrdering(Nat)
<1>1. intervals # {}
  OBVIOUS
<1>2. intervals \subseteq FiniteSubsetsOf(Nat)
  <2> SUFFICES ASSUME NEW n \in T PROVE 0..n \in FiniteSubsetsOf(Nat)
    OBVIOUS
  <2>1. IsFiniteSet(0..n) /\ 0..n \in SUBSET Nat
    BY FS_Interval
  <2> QED
    BY <2>1 DEF FiniteSubsetsOf
<1>3. PICK x \in intervals : \A y \in intervals : <<y, x>> \notin smaller
  <2>1. IsWellFoundedOn(smaller, FiniteSubsetsOf(Nat))
    BY FS_StrictSubsetOrderingWellFounded
  <2> HIDE DEF intervals, smaller
  <2> QED
    BY <1>1, <1>2, <2>1, WFMin
<1>4. PICK n \in T : x = 0..n
  OBVIOUS
<1>5. ASSUME NEW m \in T, m < n PROVE FALSE
  <2>1. <<0..m, 0..n>> \notin smaller
    BY <1>3, <1>4
  <2>2. 0..m \subseteq 0..n /\ n \in 0..n /\ n \notin 0..m
    BY <1>5
  <2> QED
    BY <2>1, <2>2 DEF StrictSubsetOrdering
<1> QED
  BY <1>4, <1>5

\* Induction over the numbers up to n.
LEMMA Upwards ==
    ASSUME NEW n \in Nat, NEW G, 0 \in G, \A k \in 1..n : k - 1 \in G => k \in G
    PROVE  \A k \in 0..n : k \in G
<1> DEFINE Bad == {k \in Nat : k <= n /\ k \notin G}
<1>1. SUFFICES ASSUME Bad # {} PROVE FALSE
  OBVIOUS
<1>2. PICK k \in Bad : \A m \in Bad : k <= m
  <2>1. Bad \in SUBSET Nat
    OBVIOUS
  <2> HIDE DEF Bad
  <2> QED
    BY <1>1, <2>1, Lowest
<1>3. k \in 1..n /\ k - 1 \in Nat /\ k - 1 <= n /\ ~(k <= k - 1)
  BY <1>2
<1>4. k - 1 \in G
  BY <1>2, <1>3
<1> QED
  BY <1>2, <1>3, <1>4

\* A recursion over the numbers up to n defines a function.
Recurs(f, x, n, H) == f[0] = x /\ \A k \in 1..n : f[k] = H[<<k, f[k - 1]>>]

LEMMA Recursion ==
    ASSUME NEW S, NEW x \in S, NEW n \in Nat, NEW H \in [(1..n) \X S -> S]
    PROVE  \E f \in [0..n -> S] : Recurs(f, x, n, H)
<1> DEFINE G == {m \in 0..n : \E f \in [0..m -> S] :
                    f[0] = x /\ \A k \in 1..m : f[k] = H[<<k, f[k - 1]>>]}
<1>1. 0 \in G
  <2>1. [k \in 0..0 |-> x] \in [0..0 -> S] /\ [k \in 0..0 |-> x][0] = x
    OBVIOUS
  <2>2. 0 \in 0..n /\ \A k \in 1..0 : FALSE
    OBVIOUS
  <2>3. \E f \in [0..0 -> S] : f[0] = x /\ \A k \in 1..0 : f[k] = H[<<k, f[k - 1]>>]
    BY <2>1, <2>2
  <2> QED
    BY <2>2, <2>3
<1>2. ASSUME NEW m \in 1..n, m - 1 \in G PROVE m \in G
  <2>1. PICK f \in [0..(m - 1) -> S] :
            f[0] = x /\ \A k \in 1..(m - 1) : f[k] = H[<<k, f[k - 1]>>]
    BY <1>2
  <2> DEFINE g == [k \in 0..m |-> IF k = m THEN H[<<m, f[m - 1]>>] ELSE f[k]]
  <2>2. m - 1 \in 0..(m - 1) /\ f[m - 1] \in S /\ <<m, f[m - 1]>> \in (1..n) \X S
    OBVIOUS
  <2>3. g \in [0..m -> S]
    BY <2>2
  <2>4. g[0] = x
    BY <2>1
  <2>5. ASSUME NEW k \in 1..m PROVE g[k] = H[<<k, g[k - 1]>>]
    <3>1. k - 1 \in 0..(m - 1) /\ k - 1 \in 0..m /\ k - 1 # m
      OBVIOUS
    <3>2. g[k - 1] = f[k - 1]
      BY <3>1
    <3>3. CASE k = m
      <4>1. g[m] = H[<<m, f[m - 1]>>] /\ g[m - 1] = f[m - 1]
        BY <3>2, <3>3
      <4> HIDE DEF g
      <4> QED
        BY <3>3, <4>1
    <3>4. CASE k # m
      <4>1. k \in 1..(m - 1) /\ g[k] = f[k]
        BY <3>4
      <4> QED
        BY <2>1, <3>2, <4>1
    <3> QED
      BY <3>3, <3>4
  <2> HIDE DEF g
  <2> QED
    BY <2>3, <2>4, <2>5
<1>3. n \in G
  <2> HIDE DEF G
  <2>1. \A k \in 0..n : k \in G
    BY <1>1, <1>2, Upwards
  <2> QED
    BY <2>1
<1> QED
  BY <1>3 DEF Recurs

\* The first and the last of some places.
LEMMA FirstIs ==
    ASSUME NEW S \in SUBSET Nat, S # {}
    PROVE  Probe!First(S) \in S /\ \A j \in S : Probe!First(S) <= j
<1>1. \E i \in S : \A j \in S : i <= j
  BY Lowest
<1> QED
  BY <1>1 DEF Probe!First

LEMMA LastIs ==
    ASSUME NEW n \in Nat, NEW S \in SUBSET (0..n), S # {}
    PROVE  Probe!Last(S) \in S /\ \A j \in S : j <= Probe!Last(S)
<1> DEFINE T == {n - i : i \in S}
<1>1. T \in SUBSET Nat /\ T # {}
  <2>1. ASSUME NEW i \in S PROVE n - i \in Nat
    <3>1. i \in 0..n
      OBVIOUS
    <3> QED
      BY <3>1
  <2> QED
    BY <2>1
<1>2. PICK t \in T : \A u \in T : t <= u
  <2> HIDE DEF T
  <2> QED
    BY <1>1, Lowest
<1>3. PICK i \in S : t = n - i
  OBVIOUS
<1>4. ASSUME NEW j \in S PROVE j <= i
  <2>1. n - j \in T /\ i \in Int /\ j \in Int
    OBVIOUS
  <2>2. n - i <= n - j
    BY <1>2, <1>3, <2>1
  <2> QED
    BY <2>1, <2>2
<1>5. \E k \in S : \A j \in S : j <= k
  BY <1>4
<1> QED
  BY <1>5 DEF Probe!Last

-----------------------------------------------------------------------------
Piece == [answer : Probe!Answer, last : BOOLEAN]

LEMMA PartsTyped ==
    ASSUME NEW way, NEW answers \in Seq(Probe!Answer)
    PROVE  Probe!PartsOf(way, answers)[Len(answers)] \in Seq(Piece)
<1> DEFINE n == Len(answers)
           Cut(k) == LET parts == IF way = "udp" THEN 1 ELSE answers[k].parts
                     IN  [i \in 1..parts |-> [answer |-> answers[k], last |-> i = parts]]
           H == [ks \in (1..n) \X Seq(Piece) |-> ks[2] \o Cut(ks[1])]
<1>1. n \in Nat /\ DOMAIN answers = 1..n
  OBVIOUS
<1>2. ASSUME NEW k \in 1..n PROVE Cut(k) \in Seq(Piece)
  <2>1. answers[k] \in Probe!Answer
    BY <1>1
  <2> DEFINE parts == IF way = "udp" THEN 1 ELSE answers[k].parts
  <2>2. parts \in Nat
    BY <2>1 DEF Probe!Answer
  <2> HIDE DEF parts
  <2>3. [i \in 1..parts |-> [answer |-> answers[k], last |-> i = parts]] \in [1..parts -> Piece]
    BY <2>1, <2>2 DEF Piece
  <2>4. [i \in 1..parts |-> [answer |-> answers[k], last |-> i = parts]] \in Seq(Piece)
    BY <2>2, <2>3
  <2> QED
    BY <2>4 DEF parts
<1> HIDE DEF Cut
<1>3. H \in [(1..n) \X Seq(Piece) -> Seq(Piece)]
  BY <1>2
<1>4. \E f : f = [k \in 0..n |-> IF k = 0 THEN <<>> ELSE f[k - 1] \o Cut(k)]
  <2>1. PICK f \in [0..n -> Seq(Piece)] :
            f[0] = <<>> /\ \A k \in 1..n : f[k] = H[<<k, f[k - 1]>>]
    <3>1. <<>> \in Seq(Piece)
      OBVIOUS
    <3> HIDE DEF H, n
    <3> DEFINE S == Seq(Piece)
    <3>2. <<>> \in S /\ H \in [(1..n) \X S -> S] /\ n \in Nat
      BY <1>1, <1>3, <3>1
    <3> HIDE DEF S
    <3>3. \E f \in [0..n -> S] : Recurs(f, <<>>, n, H)
      BY <3>2, Recursion
    <3> QED
      BY <3>3 DEF S, Recurs
  <2>2. ASSUME NEW k \in 1..n PROVE f[k] = f[k - 1] \o Cut(k)
    <3>1. k - 1 \in 0..n
      BY <1>1
    <3>2. <<k, f[k - 1]>> \in (1..n) \X Seq(Piece)
      BY <3>1
    <3> QED
      BY <2>1, <3>2
  <2>3. f = [k \in 0..n |-> IF k = 0 THEN <<>> ELSE f[k - 1] \o Cut(k)]
    BY <1>1, <2>1, <2>2, SMTT(30)
  <2> QED
    BY <2>3
<1> DEFINE f == CHOOSE g : g = [k \in 0..n |-> IF k = 0 THEN <<>> ELSE g[k - 1] \o Cut(k)]
<1>5. f = [k \in 0..n |-> IF k = 0 THEN <<>> ELSE f[k - 1] \o Cut(k)]
  BY <1>4, Zenon
<1>6. Probe!PartsOf(way, answers) = f
  BY DEF Probe!PartsOf, Cut
<1> HIDE DEF f
<1> DEFINE G == {k \in 0..n : f[k] \in Seq(Piece)}
<1>7. 0 \in G /\ \A k \in 1..n : k - 1 \in G => k \in G
  <2>1. 0 \in 0..n /\ f[0] = <<>>
    BY <1>1, <1>5
  <2>2. ASSUME NEW k \in 1..n, k - 1 \in G PROVE k \in G
    <3>1. k \in 0..n /\ k # 0
      BY <1>1
    <3>2. f[k] = f[k - 1] \o Cut(k)
      BY <1>5, <3>1
    <3>3. f[k - 1] \in Seq(Piece) /\ Cut(k) \in Seq(Piece)
      BY <1>2, <2>2
    <3>4. f[k] \in Seq(Piece)
      BY <3>2, <3>3
    <3> QED
      BY <3>1, <3>4
  <2>3. <<>> \in Seq(Piece)
    OBVIOUS
  <2> QED
    BY <2>1, <2>2, <2>3
<1>8. n \in G
  <2> HIDE DEF G, n
  <2> QED
    BY <1>1, <1>7, Upwards
<1> QED
  BY <1>6, <1>8

-----------------------------------------------------------------------------
\* A part of a sequence.
LEMMA PartIs ==
    ASSUME NEW S, NEW q \in Seq(S), NEW k \in Nat, NEW m \in Nat, k <= m, m <= Len(q)
    PROVE  /\ SubSeq(q, k + 1, m) \in Seq(S) /\ Len(SubSeq(q, k + 1, m)) = m - k
           /\ \A i \in 1..(m - k) : SubSeq(q, k + 1, m)[i] = q[k + i]
<1>1. m - k \in Nat /\ m = k + (m - k) /\ m - (k + 1) + 1 = m - k
  OBVIOUS
<1>2. \A i \in k + 1..m : i \in 1..Len(q)
  OBVIOUS
<1>3. SubSeq(q, k + 1, m) \in Seq(S) /\ Len(SubSeq(q, k + 1, m)) = m - k
  BY <1>1, <1>2
<1>4. \A i \in 1..(m - k) : SubSeq(q, k + 1, m)[i] = q[k + i]
  BY <1>1, <1>2
<1> QED
  BY <1>3, <1>4

\* Two sequences with the same elements are the same.
LEMMA SameParts ==
    ASSUME NEW S, NEW a \in Seq(S), NEW b \in Seq(S), Len(a) = Len(b),
           \A i \in 1..Len(a) : a[i] = b[i]
    PROVE  a = b
OBVIOUS

\* Two parts that meet are one part.
LEMMA PartsMeet ==
    ASSUME NEW S, NEW q \in Seq(S), NEW k \in Nat, NEW m \in Nat, NEW n \in Nat,
           k <= m, m <= n, n <= Len(q)
    PROVE  SubSeq(q, k + 1, m) \o SubSeq(q, m + 1, n) = SubSeq(q, k + 1, n)
<1> DEFINE a == SubSeq(q, k + 1, m)
           b == SubSeq(q, m + 1, n)
           c == SubSeq(q, k + 1, n)
<1>1. a \in Seq(S) /\ Len(a) = m - k /\ \A i \in 1..(m - k) : a[i] = q[k + i]
  BY PartIs
<1>2. b \in Seq(S) /\ Len(b) = n - m /\ \A i \in 1..(n - m) : b[i] = q[m + i]
  BY PartIs
<1>3. c \in Seq(S) /\ Len(c) = n - k /\ \A i \in 1..(n - k) : c[i] = q[k + i]
  BY PartIs
<1> HIDE DEF a, b, c
<1>4. a \o b \in Seq(S) /\ Len(a \o b) = n - k
  BY <1>1, <1>2
<1>5. ASSUME NEW i \in 1..(n - k) PROVE (a \o b)[i] = q[k + i]
  <2>1. CASE i <= m - k
    BY <1>1, <1>2, <2>1
  <2>2. CASE i > m - k
    <3>1. i - (m - k) \in 1..(n - m) /\ m + (i - (m - k)) = k + i
      BY <2>2
    <3>2. (a \o b)[i] = b[i - (m - k)]
      BY SMTT(20), <1>1, <1>2, <2>2, <3>1
    <3> QED
      BY <1>2, <3>1, <3>2
  <2>3. i \in Int /\ m - k \in Int
    OBVIOUS
  <2>4. i <= m - k \/ i > m - k
    BY <2>3
  <2> QED
    BY <2>1, <2>2, <2>4
<1>6. a \o b = c
  <2>1. Len(a \o b) = Len(c) /\ \A i \in 1..Len(a \o b) : (a \o b)[i] = c[i]
    BY <1>3, <1>4, <1>5
  <2> QED
    BY <1>3, <1>4, <2>1, SameParts
<1> QED
  BY <1>6 DEF a, b, c

\* A part of a part is a part.
LEMMA PartOfPart ==
    ASSUME NEW S, NEW q \in Seq(S), NEW k \in Nat, NEW m \in Nat, NEW l \in Nat,
           k + l <= m, m <= Len(q)
    PROVE  SubSeq(SubSeq(q, k + 1, m), l + 1, m - k) = SubSeq(q, k + l + 1, m)
<1> DEFINE a == SubSeq(q, k + 1, m)
           b == SubSeq(a, l + 1, m - k)
           c == SubSeq(q, k + l + 1, m)
<1>1. a \in Seq(S) /\ Len(a) = m - k /\ \A i \in 1..(m - k) : a[i] = q[k + i]
  <2>1. k <= m
    OBVIOUS
  <2> QED
    BY <2>1, PartIs
<1>2. c \in Seq(S) /\ Len(c) = m - (k + l) /\ \A i \in 1..(m - (k + l)) : c[i] = q[k + l + i]
  <2>1. k + l \in Nat
    OBVIOUS
  <2> QED
    BY <2>1, PartIs
<1> HIDE DEF a, c
<1>3. b \in Seq(S) /\ Len(b) = m - k - l /\ \A i \in 1..(m - k - l) : b[i] = a[l + i]
  <2>1. m - k \in Nat /\ l <= m - k /\ m - k <= Len(a)
    BY <1>1
  <2> QED
    BY <1>1, <2>1, PartIs
<1> HIDE DEF b
<1>4. ASSUME NEW i \in 1..Len(b) PROVE b[i] = c[i]
  <2>1. i \in 1..(m - k - l) /\ l + i \in 1..(m - k) /\ k + (l + i) = k + l + i
        /\ i \in 1..(m - (k + l))
    BY <1>3
  <2> QED
    BY <1>1, <1>2, <1>3, <2>1
<1>5. b = c
  <2>1. Len(b) = Len(c)
    BY <1>2, <1>3
  <2> QED
    BY <1>2, <1>3, <1>4, <2>1, SameParts
<1> QED
  BY <1>5 DEF a, b, c

-----------------------------------------------------------------------------
\* SipProbe.  What is kept is a part of what was read in which no answer ends,
\* and nothing is decided before a decision was read.
Kept(k) ==
    /\ k \in 0..read /\ kept = SubSeq(Probe!Parts, k + 1, read)
    /\ \A i \in k + 1..read : ~Probe!Parts[i].last

Decides(i) == Probe!Judged(Probe!Parts[i].answer) # Probe!Open

ProbeInv ==
    /\ reply \in Seq(Probe!Answer)
    /\ read \in Nat /\ arrived \in Nat /\ read <= arrived /\ arrived <= Len(Probe!Parts)
    /\ \E k \in 0..read : Kept(k)
    /\ verdict = Probe!Open => \A i \in Probe!Taken : ~Decides(i)
    /\ Probe!ProbeIsTrue

LEMMA PartsAre ==
    ASSUME reply \in Seq(Probe!Answer)
    PROVE  Probe!Parts \in Seq(Piece)
BY PartsTyped DEF Probe!Parts

\* What a message decides.
LEMMA Judging ==
    ASSUME NEW a \in Probe!Answer
    PROVE  /\ Probe!Judged(a) # Probe!Open <=> ~a.own \/ a.status >= 200
           /\ Probe!Judged(a).kind = "status" => a.own /\ a.status >= 200
           /\ a.own /\ a.status >= 200 => Probe!Judged(a) = Probe!Told(a.status)
BY DEF Probe!Answer, Probe!Judged, Probe!Open, Probe!Failed, Probe!Told

LEMMA InitProbes == Probe!InitProbe \/ NoProbe => ProbeInv
<1> SUFFICES ASSUME Probe!InitProbe \/ NoProbe PROVE ProbeInv
  OBVIOUS
<1>1. reply \in Seq(Probe!Answer) /\ read = 0 /\ arrived = 0 /\ kept = <<>> /\ verdict = Probe!Open
  <2>1. <<>> \in Seq(Probe!Answer)
    OBVIOUS
  <2> QED
    BY <2>1, DesktopAssumption DEF Probe!InitProbe, NoProbe
<1>2. Probe!Parts \in Seq(Piece)
  BY <1>1, PartsAre
<1>3. Kept(0) /\ 0 \in 0..read
  <2>1. SubSeq(Probe!Parts, 0 + 1, 0) = <<>>
    BY <1>2
  <2> QED
    BY <1>1, <2>1 DEF Kept
<1>4. Probe!Taken = {} /\ Probe!Finals = {}
  BY <1>1 DEF Probe!Taken, Probe!Finals
<1>5. Probe!ProbeIsTrue
  BY <1>1, <1>4 DEF Probe!ProbeIsTrue, Probe!Open
<1>6. Len(Probe!Parts) \in Nat
  BY <1>2
<1> QED
  BY <1>1, <1>3, <1>4, <1>5, <1>6 DEF ProbeInv

LEMMA ReadProbes ==
    ASSUME ProbeInv, NEW n \in 1..Len(Probe!Parts), Probe!Read(n)
    PROVE  ProbeInv'
<1> DEFINE P == Probe!Parts
           m == read + n
           D == kept \o SubSeq(P, read + 1, m)
           ends == {i \in DOMAIN D : D[i].last}
           deciding == {i \in ends : Probe!Judged(D[i].answer) # Probe!Open}
           l == Probe!Last({0} \cup ends)
           d == Probe!First(deciding)
<1>1. PICK k \in 0..read : Kept(k)
  BY DEF ProbeInv
<1>2. P \in Seq(Piece) /\ Len(P) \in Nat
  <2>1. P \in Seq(Piece)
    BY PartsAre DEF ProbeInv
  <2> QED
    BY <2>1
<1>3. /\ read \in Nat /\ k \in Nat /\ m \in Nat /\ k <= read /\ read <= m /\ m <= arrived
      /\ arrived \in Nat /\ arrived <= Len(P) /\ n \in Nat
  <2>1. read \in Nat /\ n \in Nat /\ arrived \in Nat /\ n <= arrived - read /\ arrived <= Len(P)
    <3>1. n <= arrived - read
      BY Zenon DEF Probe!Read
    <3>2. read \in Nat /\ arrived \in Nat /\ arrived <= Len(P)
      BY DEF ProbeInv
    <3>3. n \in Nat
      BY <1>2, SMTT(30)
    <3> QED
      BY <3>1, <3>2, <3>3, SMTT(30)
  <2> QED
    BY <1>1, <2>1
<1>4. reply' = reply /\ carrier' = carrier /\ arrived' = arrived /\ P' = P
  BY ZenonT(40) DEF Probe!Read, Probe!Parts
<1>5. read' = m /\ kept' = SubSeq(D, l + 1, Len(D)) /\ verdict = Probe!Open
      /\ verdict' = IF deciding = {} THEN Probe!Open ELSE Probe!Judged(D[d].answer)
  BY ZenonT(40) DEF Probe!Read
<1>6. /\ kept = SubSeq(P, k + 1, read) /\ \A i \in k + 1..read : ~P[i].last
      /\ \A i \in 1..read : P[i].last => ~Decides(i)
  BY <1>1, <1>5, Zenon DEF Kept, ProbeInv, Probe!Taken
<1>7. \A i \in 1..Len(P) : P[i] \in Piece /\ P[i].answer \in Probe!Answer /\ P[i].last \in BOOLEAN
  <2>1. \A i \in 1..Len(P) : P[i] \in Piece
    BY <1>2
  <2> QED
    BY <2>1 DEF Piece
<1>8. D = SubSeq(P, k + 1, m)
  <2> HIDE DEF P, m
  <2>1. m <= Len(P)
    BY <1>2, <1>3
  <2>2. SubSeq(P, k + 1, read) \o SubSeq(P, read + 1, m) = SubSeq(P, k + 1, m)
    BY <1>2, <1>3, <2>1, PartsMeet
  <2> QED
    BY <1>6, <2>2
<1> DEFINE Final(i) == P[i].answer.own /\ P[i].answer.status >= 200
<1>9. \A i \in 1..Len(P) : Decides(i) <=> Final(i) \/ ~P[i].answer.own
  BY <1>7, Judging DEF Decides
<1>10. \A i \in 1..Len(P) : Decides(i) <=> Probe!Judged(P[i].answer) # Probe!Open
  BY Zenon DEF Decides
<1>11. /\ Probe!Taken' = {i \in 1..m : P[i].last}
       /\ Probe!Finals' = {i \in 1..m : P[i].last /\ Final(i)}
       /\ Probe!Aliens' = {i \in 1..m : P[i].last /\ ~P[i].answer.own}
  BY <1>4, <1>5, ZenonT(30) DEF Probe!Taken, Probe!Finals, Probe!Aliens
<1>12. \A i \in 1..Len(P) : Decides(i)' <=> Decides(i)
  BY <1>4 DEF Decides
<1> HIDE DEF P, m, D
<1>13. /\ D \in Seq(Piece) /\ Len(D) = m - k /\ DOMAIN D = 1..(m - k)
       /\ \A i \in 1..(m - k) : D[i] = P[k + i]
  <2>1. D \in Seq(Piece) /\ Len(D) = m - k /\ \A i \in 1..(m - k) : D[i] = P[k + i]
    <3>1. k <= m /\ m <= Len(P)
      BY <1>2, <1>3
    <3> QED
      BY <1>2, <1>3, <1>8, <3>1, PartIs
  <2> QED
    BY <2>1
<1>14. /\ ends = {i \in 1..(m - k) : P[k + i].last}
       /\ deciding = {i \in 1..(m - k) : P[k + i].last /\ Decides(k + i)}
  <2>1. \A i \in 1..(m - k) : k + i \in 1..Len(P)
    BY <1>2, <1>3
  <2> QED
    BY <1>10, <1>13, <2>1
<1>15. l \in 0..(m - k) /\ \A i \in 1..(m - k) : i > l => ~P[k + i].last
  <2>1. m - k \in Nat /\ {0} \cup ends \in SUBSET (0..(m - k)) /\ {0} \cup ends # {}
    BY <1>3, <1>14
  <2>2. l \in {0} \cup ends /\ \A j \in {0} \cup ends : j <= l
    <3> HIDE DEF ends
    <3> QED
      BY <2>1, LastIs
  <2>3. l \in 0..(m - k)
    BY <2>1, <2>2
  <2>4. ASSUME NEW i \in 1..(m - k), i > l PROVE ~P[k + i].last
    <3>1. i \notin ends
      BY <2>2, <2>3, <2>4
    <3> QED
      BY <1>14, <3>1
  <2> QED
    BY <2>3, <2>4
<1> HIDE DEF l
<1>16. \E j \in 0..read' : Kept(j)'
  <2>0. PICK x : x = l
    OBVIOUS
  <2>1. kept' = SubSeq(P, k + x + 1, m)
    <3>1. l \in Nat /\ k + l <= m /\ m <= Len(P)
      BY <1>2, <1>3, <1>15
    <3>2. SubSeq(SubSeq(P, k + 1, m), l + 1, m - k) = SubSeq(P, k + l + 1, m)
      BY <1>2, <1>3, <3>1, PartOfPart
    <3> QED
      BY <1>5, <1>8, <1>13, <2>0, <3>2
  <2>2. ASSUME NEW i \in k + x + 1..m PROVE ~P[i].last
    <3>1. i - k \in 1..(m - k) /\ i - k > l /\ k + (i - k) = i
      BY <1>3, <1>15, <2>0
    <3> QED
      BY <1>15, <3>1
  <2>3. k + x \in 0..m
    BY <1>3, <1>15, <2>0
  <2>4. Kept(k + x)'
    BY <1>4, <1>5, <2>1, <2>2, <2>3 DEF Kept, P
  <2> QED
    BY <1>5, <2>3, <2>4
<1>17. \A i \in 1..m : P[i].last /\ i <= k => ~Decides(i)
  BY <1>3, <1>6
<1>18. ASSUME NEW i \in 1..m, P[i].last, Decides(i) PROVE i - k \in deciding
  <2>1. i > k
    BY <1>3, <1>17, <1>18
  <2>2. i - k \in 1..(m - k) /\ k + (i - k) = i
    BY <1>3, <2>1
  <2> QED
    BY <1>14, <1>18, <2>2
<1>19. m <= Len(P) /\ \A i \in 1..m : i \in 1..Len(P)
  BY <1>2, <1>3
<1>20. CASE deciding = {}
  <2>1. \A i \in 1..m : P[i].last => ~Decides(i)
    BY <1>18, <1>20
  <2>2. Probe!Finals' = {} /\ \A i \in Probe!Taken' : ~Decides(i)'
    BY <1>9, <1>11, <1>12, <1>19, <2>1
  <2>3. verdict' = Probe!Open /\ verdict'.kind # "status"
    BY <1>5, <1>20 DEF Probe!Open
  <2>4. Probe!ProbeIsTrue'
    BY <2>2, <2>3 DEF Probe!ProbeIsTrue
  <2> QED
    BY <1>3, <1>4, <1>5, <1>16, <2>2, <2>4 DEF ProbeInv, P
<1>21. CASE deciding # {}
  <2>1. d \in deciding /\ \A j \in deciding : d <= j
    <3>1. deciding \in SUBSET Nat
      BY <1>3, <1>14
    <3> HIDE DEF deciding
    <3> QED
      BY <1>21, <3>1, FirstIs
  <2> DEFINE e == k + d
  <2>2. /\ d \in 1..(m - k) /\ e \in 1..m /\ P[e].last /\ Decides(e) /\ D[d] = P[e]
    <3>1. d \in 1..(m - k) /\ P[k + d].last /\ Decides(k + d)
      BY <1>14, <2>1
    <3> QED
      BY <1>3, <1>13, <3>1
  <2>3. ASSUME NEW i \in 1..m, P[i].last, Decides(i) PROVE e <= i
    <3>1. d <= i - k
      BY <1>18, <2>1, <2>3
    <3> QED
      BY <1>3, <2>2, <3>1
  <2>4. verdict' = Probe!Judged(P[e].answer)
    BY <1>5, <1>21, <2>2
  <2> HIDE DEF e, d
  <2>5. ASSUME Final(e) PROVE e \in Probe!Finals' /\ Probe!First(Probe!Finals') = e
    <3>1. e \in Probe!Finals'
      BY <1>11, <2>2, <2>5
    <3>2. \A j \in Probe!Finals' : e <= j
      BY <1>9, <1>11, <1>19, <2>3
    <3>3. Probe!Finals' \in SUBSET Nat
      BY <1>11
    <3> DEFINE F == Probe!Finals'
    <3>4. e \in F /\ (\A j \in F : e <= j) /\ F \in SUBSET Nat
      BY <3>1, <3>2, <3>3
    <3> HIDE DEF F
    <3>5. Probe!First(F) \in F /\ \A j \in F : Probe!First(F) <= j
      BY <3>4, FirstIs
    <3>6. Probe!First(F) = e
      <4>1. Probe!First(F) \in Nat /\ e \in Nat /\ Probe!First(F) <= e /\ e <= Probe!First(F)
        BY <3>4, <3>5
      <4> QED
        BY <4>1
    <3> QED
      BY <3>1, <3>6 DEF F
  <2>6. P[e].answer \in Probe!Answer /\ e \in 1..Len(P)
    BY <1>7, <1>19, <2>2
  <2>7. verdict' # Probe!Open
    BY <1>10, <2>2, <2>4, <2>6
  <2>8. verdict'.kind = "status" => Final(e)
    BY <2>4, <2>6, Judging
  <2>9. Final(e) => verdict' = Probe!Told(P[e].answer.status)
    BY <2>4, <2>6, Judging
  <2>10. Probe!Finals' # {} /\ Probe!Aliens' = {} => Final(e)
    BY <1>9, <1>11, <2>2, <2>6
  <2>11. Probe!ProbeIsTrue'
    <3>1. Final(e) => /\ Probe!Finals' # {} /\ Probe!First(Probe!Finals') = e
                      /\ verdict' = Probe!Told(P[e].answer.status)
                      /\ verdict'.status = P[e].answer.status
      BY <2>5, <2>9 DEF Probe!Told
    <3>2. Probe!Parts' = P
      BY <1>4 DEF P
    <3> QED
      BY <2>8, <2>10, <3>1, <3>2 DEF Probe!ProbeIsTrue
  <2> QED
    BY <1>3, <1>4, <1>5, <1>16, <2>7, <2>11 DEF ProbeInv, P
<1> QED
  BY <1>20, <1>21

\* The other steps read nothing.
LEMMA QuietProbes ==
    ASSUME ProbeInv,
           Probe!Request \/ Probe!Arrive \/ Probe!Deadline \/ Probe!ProbeFails
               \/ UNCHANGED probeVars
    PROVE  ProbeInv'
<1>1. reply' = reply /\ carrier' = carrier /\ read' = read /\ kept' = kept
  BY DEF Probe!Request, Probe!Arrive, Probe!Deadline, Probe!ProbeFails, probeVars
<1>2. Probe!Parts' = Probe!Parts
  BY <1>1 DEF Probe!Parts
<1>3. Probe!Parts \in Seq(Piece) /\ Len(Probe!Parts) \in Nat
  <2>1. Probe!Parts \in Seq(Piece)
    BY PartsAre DEF ProbeInv
  <2> QED
    BY <2>1
<1>4. /\ Probe!Taken' = Probe!Taken /\ Probe!Finals' = Probe!Finals
      /\ Probe!Aliens' = Probe!Aliens
  BY <1>1, <1>2 DEF Probe!Taken, Probe!Finals, Probe!Aliens
<1>5. \E k \in 0..read' : Kept(k)'
  BY <1>1, <1>2 DEF ProbeInv, Kept
<1>6. /\ arrived' \in Nat /\ read' \in Nat /\ read' <= arrived'
      /\ arrived' <= Len(Probe!Parts')
  <2>1. arrived' = arrived \/ (arrived < Len(Probe!Parts) /\ arrived' = arrived + 1)
    BY DEF Probe!Request, Probe!Arrive, Probe!Deadline, Probe!ProbeFails, probeVars
  <2> QED
    BY <1>1, <1>2, <1>3, <2>1 DEF ProbeInv
<1>7. \/ verdict' = verdict
      \/ verdict = Probe!Open /\ verdict' \in {Probe!Silent, Probe!Failed}
  <2>1. CASE Probe!Request
    BY <2>1 DEF Probe!Request
  <2>2. CASE Probe!Arrive
    BY <2>2 DEF Probe!Arrive
  <2>3. CASE Probe!Deadline
    BY <2>3 DEF Probe!Deadline
  <2>4. CASE Probe!ProbeFails
    BY <2>4 DEF Probe!ProbeFails
  <2>5. CASE UNCHANGED probeVars
    BY <2>5 DEF probeVars
  <2> QED
    BY <2>1, <2>2, <2>3, <2>4, <2>5
<1>8. \A i : Decides(i)' <=> Decides(i)
  BY <1>2 DEF Decides
<1>9. CASE verdict' = verdict
  <2>1. Probe!ProbeIsTrue'
    BY <1>2, <1>4, <1>9 DEF ProbeInv, Probe!ProbeIsTrue
  <2> QED
    BY <1>1, <1>4, <1>5, <1>6, <1>8, <1>9, <2>1 DEF ProbeInv
<1>10. CASE verdict = Probe!Open /\ verdict' \in {Probe!Silent, Probe!Failed}
  <2>1. verdict'.kind # "status" /\ verdict' # Probe!Open
    BY <1>10 DEF Probe!Silent, Probe!Failed, Probe!Open
  <2>2. Probe!Finals = {}
    <3> SUFFICES ASSUME NEW i \in Probe!Finals PROVE FALSE
      OBVIOUS
    <3>1. i \in Probe!Taken /\ ~Decides(i)
      BY <1>10 DEF ProbeInv, Probe!Finals
    <3>2. i \in 1..Len(Probe!Parts)
      BY <1>3, <3>1 DEF ProbeInv, Probe!Taken
    <3>3. Probe!Parts[i].answer \in Probe!Answer
      <4>1. Probe!Parts[i] \in Piece
        BY <1>3, <3>2
      <4> QED
        BY <4>1 DEF Piece
    <3>4. Probe!Parts[i].answer.status >= 200
      BY DEF Probe!Finals
    <3> QED
      BY <3>1, <3>3, <3>4, Judging DEF Decides
  <2>3. Probe!ProbeIsTrue'
    BY <1>4, <2>1, <2>2 DEF Probe!ProbeIsTrue
  <2> QED
    BY <1>1, <1>5, <1>6, <2>1, <2>3 DEF ProbeInv
<1> QED
  BY <1>7, <1>9, <1>10

-----------------------------------------------------------------------------
\* SipEngineHost.  What a device says, message by message.
LEMMA Peering ==
    ASSUME NEW p \in Host!Peers
    PROVE  /\ Talks[p] \in Seq(Host!Message) /\ Len(Talks[p]) \in Nat
           /\ \A k \in 1..Len(Talks[p]) : Talks[p][k] \in Host!Message
<1>1. Talks[p] \in Seq(Host!Message)
  BY DesktopAssumption DEF Host!Peers
<1> QED
  BY <1>1

\* The parts of message k of the device p.
Said(p, k) == [i \in 1..Talks[p][k].parts |-> Talks[p][k]]

LEMMA SaidIs ==
    ASSUME NEW p \in Host!Peers, NEW k \in 1..Len(Talks[p])
    PROVE  /\ Said(p, k) \in Seq(Host!Message) /\ Len(Said(p, k)) = Talks[p][k].parts
           /\ Talks[p][k].parts \in Nat \ {0} /\ Said(p, k)[1] = Talks[p][k]
<1>1. Talks[p][k] \in Host!Message
  BY Peering
<1>2. Talks[p][k].parts \in Nat \ {0}
  BY <1>1 DEF Host!Message
<1> DEFINE n == Talks[p][k].parts
           m == Talks[p][k]
<1> HIDE DEF n, m
<1>3. [i \in 1..n |-> m] \in Seq(Host!Message) /\ Len([i \in 1..n |-> m]) = n
      /\ [i \in 1..n |-> m][1] = m
  BY <1>1, <1>2 DEF n, m
<1> QED
  BY <1>2, <1>3 DEF Said, n, m

LEMMA PartsGrow ==
    ASSUME NEW p \in Host!Peers
    PROVE  /\ Host!PartsOf(p)[0] = <<>>
           /\ \A k \in 1..Len(Talks[p]) :
                  Host!PartsOf(p)[k] = Host!PartsOf(p)[k - 1] \o Said(p, k)
           /\ \A k \in 0..Len(Talks[p]) : Host!PartsOf(p)[k] \in Seq(Host!Message)
<1> DEFINE n == Len(Talks[p])
           S == Seq(Host!Message)
           H == [ks \in (1..n) \X S |-> ks[2] \o Said(p, ks[1])]
<1>1. n \in Nat
  BY Peering
<1>2. \A k \in 1..n : Said(p, k) \in S
  BY SaidIs
<1>3. H \in [(1..n) \X S -> S] /\ <<>> \in S
  BY <1>2
<1>4. \E f : f = [k \in 0..n |-> IF k = 0 THEN <<>> ELSE f[k - 1] \o Said(p, k)]
  <2>1. PICK f \in [0..n -> S] : Recurs(f, <<>>, n, H)
    <3> HIDE DEF H, n, S
    <3> QED
      BY <1>1, <1>3, Recursion
  <2>2. ASSUME NEW k \in 1..n PROVE f[k] = f[k - 1] \o Said(p, k)
    <3>1. k - 1 \in 0..n
      BY <1>1
    <3>2. <<k, f[k - 1]>> \in (1..n) \X S
      BY <3>1
    <3>3. f[k] = H[<<k, f[k - 1]>>]
      BY <2>1 DEF Recurs
    <3> QED
      BY <3>2, <3>3
  <2>3. f[0] = <<>>
    BY <2>1 DEF Recurs
  <2>4. f = [k \in 0..n |-> IF k = 0 THEN <<>> ELSE f[k - 1] \o Said(p, k)]
    BY <1>1, <2>2, <2>3, SMTT(30)
  <2> QED
    BY <2>4
<1> DEFINE f == CHOOSE g : g = [k \in 0..n |-> IF k = 0 THEN <<>> ELSE g[k - 1] \o Said(p, k)]
<1>5. f = [k \in 0..n |-> IF k = 0 THEN <<>> ELSE f[k - 1] \o Said(p, k)]
  BY <1>4, Zenon
<1>6. Host!PartsOf(p) = f
  BY DEF Host!PartsOf, Said
<1> HIDE DEF f
<1>7. f[0] = <<>> /\ \A k \in 1..n : f[k] = f[k - 1] \o Said(p, k)
  <2>1. 0 \in 0..n /\ \A k \in 1..n : k \in 0..n /\ k # 0
    BY <1>1
  <2> HIDE DEF n
  <2> QED
    BY <1>5, <2>1
<1> DEFINE G == {k \in 0..n : f[k] \in S}
<1>8. 0 \in G
  <2>1. 0 \in 0..n /\ f[0] = <<>> /\ <<>> \in S
    BY <1>1, <1>7
  <2> QED
    BY <2>1
<1>9. ASSUME NEW k \in 1..n, k - 1 \in G PROVE k \in G
  <2>1. f[k - 1] \in Seq(Host!Message) /\ Said(p, k) \in Seq(Host!Message)
    BY <1>2, <1>9
  <2>2. f[k] \in S
    <3>1. f[k] = f[k - 1] \o Said(p, k)
      BY <1>7
    <3> QED
      BY <2>1, <3>1
  <2> QED
    BY <1>1, <2>2
<1>10. \A k \in 0..n : k \in G
  <2> HIDE DEF G, n
  <2> QED
    BY <1>1, <1>8, <1>9, Upwards
<1> QED
  BY <1>6, <1>7, <1>10

\* Where message k + 1 of it begins.
LEMMA PartsAt ==
    ASSUME NEW p \in Host!Peers
    PROVE  /\ Host!Speech(p) \in Seq(Host!Message)
           /\ \A k \in 0..Len(Talks[p]) :
                  /\ Len(Host!PartsOf(p)[k]) \in Nat
                  /\ Len(Host!PartsOf(p)[k]) <= Len(Host!Speech(p))
           /\ Len(Host!PartsOf(p)[0]) = 0
           /\ \A k \in 1..Len(Talks[p]) :
                  Len(Host!PartsOf(p)[k]) = Len(Host!PartsOf(p)[k - 1]) + Talks[p][k].parts
           /\ \A j, k \in 0..Len(Talks[p]) :
                  j <= k => Len(Host!PartsOf(p)[j]) <= Len(Host!PartsOf(p)[k])
           /\ \A k \in 0..Len(Talks[p]) : k < Len(Talks[p]) =>
                  Host!Speech(p)[Len(Host!PartsOf(p)[k]) + 1] = Talks[p][k + 1]
<1> DEFINE n == Len(Talks[p])
           W == Host!PartsOf(p)
           L(k) == Len(W[k])
<1>1. n \in Nat
  BY Peering
<1>2. /\ W[0] = <<>> /\ \A k \in 1..n : W[k] = W[k - 1] \o Said(p, k)
      /\ \A k \in 0..n : W[k] \in Seq(Host!Message)
  BY PartsGrow
<1>3. Host!Speech(p) = W[n]
  BY DEF Host!Speech
<1> HIDE DEF W
<1>4. \A k \in 0..n : L(k) \in Nat
  BY <1>2
<1>5. \A k \in 1..n : /\ Talks[p][k].parts \in Nat \ {0}
                      /\ Said(p, k) \in Seq(Host!Message) /\ Len(Said(p, k)) = Talks[p][k].parts
                      /\ Said(p, k)[1] = Talks[p][k]
  BY SaidIs
<1>6. ASSUME NEW k \in 1..n PROVE L(k) = L(k - 1) + Talks[p][k].parts
  <2>1. k - 1 \in 0..n /\ k \in 0..n
    BY <1>1
  <2>2. /\ W[k - 1] \in Seq(Host!Message) /\ Said(p, k) \in Seq(Host!Message)
        /\ W[k] = W[k - 1] \o Said(p, k)
    BY <1>2, <1>5, <2>1
  <2>3. Len(W[k - 1] \o Said(p, k)) = Len(W[k - 1]) + Len(Said(p, k))
    BY <2>2
  <2>4. Len(Said(p, k)) = Talks[p][k].parts
    BY <1>5
  <2> QED
    BY <2>2, <2>3, <2>4
<1>7. L(0) = 0
  BY <1>2
<1> DEFINE Good(m) == \A k \in 0..m : /\ L(k) <= L(m)
                                      /\ k < m => L(k) < L(m) /\ W[m][L(k) + 1] = Talks[p][k + 1]
           G == {m \in 0..n : Good(m)}
<1>8. 0 \in G
  BY <1>1, <1>7
<1>9. ASSUME NEW m \in 1..n, m - 1 \in G PROVE m \in G
  <2>1. m - 1 \in 0..n /\ m \in 0..n /\ Good(m - 1) /\ m - 1 \in Nat
    BY <1>1, <1>9
  <2>2. L(m) = L(m - 1) + Talks[p][m].parts /\ Talks[p][m].parts \in Nat \ {0}
        /\ L(m) \in Nat /\ L(m - 1) \in Nat
    BY <1>4, <1>5, <1>6, <2>1
  <2>3. ASSUME NEW k \in 0..m
        PROVE  L(k) <= L(m) /\ (k < m => L(k) < L(m) /\ W[m][L(k) + 1] = Talks[p][k + 1])
    <3>1. CASE k = m
      BY <2>2, <3>1
    <3>2. CASE k = m - 1
      <4>1. W[m] = W[m - 1] \o Said(p, m) /\ W[m - 1] \in Seq(Host!Message)
            /\ Said(p, m) \in Seq(Host!Message) /\ Len(Said(p, m)) >= 1
            /\ Said(p, m)[1] = Talks[p][m]
        <5>1. W[m] = W[m - 1] \o Said(p, m) /\ W[m - 1] \in Seq(Host!Message)
          BY <1>2, <2>1
        <5>2. /\ Said(p, m) \in Seq(Host!Message) /\ Len(Said(p, m)) = Talks[p][m].parts
              /\ Said(p, m)[1] = Talks[p][m]
          BY <1>5
        <5> QED
          BY <2>2, <5>1, <5>2
      <4>2. W[m][L(m - 1) + 1] = Said(p, m)[1]
        BY <2>2, <4>1
      <4>3. k + 1 = m
        BY <3>2
      <4> QED
        BY SMTT(20), <2>2, <3>2, <4>1, <4>2, <4>3
    <3>3. CASE k < m - 1
      <4>1. k \in 0..(m - 1) /\ k \in 0..n
        BY <1>1, <3>3
      <4>2. L(k) < L(m - 1) /\ W[m - 1][L(k) + 1] = Talks[p][k + 1] /\ L(k) \in Nat
        BY <1>4, <2>1, <3>3, <4>1
      <4>3. W[m] = W[m - 1] \o Said(p, m) /\ W[m - 1] \in Seq(Host!Message)
            /\ Said(p, m) \in Seq(Host!Message)
        BY <1>2, <1>5, <2>1
      <4>4. W[m][L(k) + 1] = W[m - 1][L(k) + 1]
        <5>1. PICK x \in 1..Len(W[m - 1]) : x = L(k) + 1
          <6>1. L(k) + 1 \in 1..Len(W[m - 1])
            BY <2>2, <4>2
          <6> QED
            BY <6>1
        <5>2. W[m][x] = W[m - 1][x]
          BY <4>3
        <5> QED
          BY <5>1, <5>2
      <4>5. L(k) < L(m) /\ L(k) <= L(m)
        <5>1. \A a, b, c, t \in Int : a < b /\ c = b + t /\ t >= 1 => a < c /\ a <= c
          OBVIOUS
        <5>2. L(k) \in Int /\ L(m - 1) \in Int /\ L(m) \in Int /\ Talks[p][m].parts \in Int
              /\ Talks[p][m].parts >= 1
          BY SMTT(20), <2>2, <4>2
        <5>3. L(k) < L(m - 1) /\ L(m) = L(m - 1) + Talks[p][m].parts
          BY <2>2, <4>2
        <5> HIDE DEF L
        <5> QED
          BY <5>1, <5>2, <5>3
      <4> QED
        BY <4>2, <4>4, <4>5
    <3>4. k = m \/ k = m - 1 \/ k < m - 1
      <4>1. k \in Int /\ m \in Int /\ k <= m
        OBVIOUS
      <4> QED
        BY <4>1
    <3> QED
      BY <3>1, <3>2, <3>3, <3>4
  <2>4. Good(m)
    BY <2>3
  <2> QED
    BY <2>1, <2>4
<1>10. \A m \in 0..n : Good(m)
  <2>1. \A m \in 0..n : m \in G
    <3> HIDE DEF G, n
    <3> QED
      BY <1>1, <1>8, <1>9, Upwards
  <2> QED
    BY <2>1
<1>11. n \in 0..n
  BY <1>1
<1>12. \A k \in 0..n : L(k) <= L(n) /\ (k < n => W[n][L(k) + 1] = Talks[p][k + 1])
  BY <1>10, <1>11
<1>13. \A j, k \in 0..n : j <= k => L(j) <= L(k)
  <2> SUFFICES ASSUME NEW j \in 0..n, NEW k \in 0..n, j <= k PROVE L(j) <= L(k)
    OBVIOUS
  <2>1. j \in 0..k
    OBVIOUS
  <2> QED
    BY <1>10, <2>1
<1> QED
  BY <1>2, <1>3, <1>4, <1>6, <1>7, <1>11, <1>12, <1>13 DEF W

LEMMA DueGrows ==
    ASSUME NEW p \in Host!Peers
    PROVE  /\ Host!Due(p)[0] = <<>>
           /\ \A k \in 1..Len(Talks[p]) :
                  Host!Due(p)[k] = IF Talks[p][k].answered
                                   THEN Append(Host!Due(p)[k - 1], Talks[p][k].id)
                                   ELSE Host!Due(p)[k - 1]
           /\ \A k \in 0..Len(Talks[p]) : Host!Due(p)[k] \in Seq(Nat)
<1> DEFINE n == Len(Talks[p])
           S == Seq(Nat)
           Add(s, k) == IF Talks[p][k].answered THEN Append(s, Talks[p][k].id) ELSE s
           H == [ks \in (1..n) \X S |-> Add(ks[2], ks[1])]
<1>1. n \in Nat
  BY Peering
<1>2. ASSUME NEW s \in S, NEW k \in 1..n PROVE Add(s, k) \in S
  <2>1. Talks[p][k] \in Host!Message
    BY Peering
  <2>2. Talks[p][k].id \in Nat
    BY <2>1 DEF Host!Message
  <2> QED
    BY <2>2
<1> HIDE DEF Add
<1>3. H \in [(1..n) \X S -> S] /\ <<>> \in S
  BY <1>2
<1>4. \E f : f = [k \in 0..n |-> IF k = 0 THEN <<>> ELSE Add(f[k - 1], k)]
  <2>1. PICK f \in [0..n -> S] : Recurs(f, <<>>, n, H)
    <3> HIDE DEF H, n, S
    <3> QED
      BY <1>1, <1>3, Recursion
  <2>2. ASSUME NEW k \in 1..n PROVE f[k] = Add(f[k - 1], k)
    <3>1. k - 1 \in 0..n
      BY <1>1
    <3>2. <<k, f[k - 1]>> \in (1..n) \X S
      BY <3>1
    <3>3. f[k] = H[<<k, f[k - 1]>>]
      BY <2>1 DEF Recurs
    <3> QED
      BY <3>2, <3>3
  <2>3. f[0] = <<>>
    BY <2>1 DEF Recurs
  <2>4. f = [k \in 0..n |-> IF k = 0 THEN <<>> ELSE Add(f[k - 1], k)]
    BY <1>1, <2>2, <2>3
  <2> QED
    BY <2>4
<1> DEFINE f == CHOOSE g : g = [k \in 0..n |-> IF k = 0 THEN <<>> ELSE Add(g[k - 1], k)]
<1>5. f = [k \in 0..n |-> IF k = 0 THEN <<>> ELSE Add(f[k - 1], k)]
  BY <1>4
<1>6. Host!Due(p) = f
  BY DEF Host!Due, Add
<1> HIDE DEF f
<1>7. f[0] = <<>> /\ \A k \in 1..n : f[k] = Add(f[k - 1], k)
  <2>1. 0 \in 0..n /\ \A k \in 1..n : k \in 0..n /\ k # 0
    BY <1>1
  <2> HIDE DEF n
  <2> QED
    BY <1>5, <2>1
<1> DEFINE G == {k \in 0..n : f[k] \in S}
<1>8. 0 \in G
  <2>1. 0 \in 0..n /\ f[0] = <<>> /\ <<>> \in S
    BY <1>1, <1>7
  <2> QED
    BY <2>1
<1>9. ASSUME NEW k \in 1..n, k - 1 \in G PROVE k \in G
  <2>1. f[k] = Add(f[k - 1], k) /\ f[k - 1] \in S
    BY <1>7, <1>9
  <2>2. f[k] \in S
    BY <1>2, <2>1
  <2> QED
    BY <1>1, <2>2
<1>10. \A k \in 0..n : k \in G
  <2> HIDE DEF G, n
  <2> QED
    BY <1>1, <1>8, <1>9, Upwards
<1> QED
  BY <1>6, <1>7, <1>10 DEF Add

-----------------------------------------------------------------------------
\* A connection: its first k messages were handled.
LinkType == [state : {"new", "waiting", "open", "over", "rejected"}, read : Nat,
             data : Seq(Host!Message), answers : Seq(Nat)]

Handles(p, l, k) ==
    /\ k \in 0..Len(Talks[p]) /\ l.answers = Host!Due(p)[k]
    /\ Len(Host!PartsOf(p)[k]) <= l.read

Buffers(p, l, k) ==
    Handles(p, l, k) /\ l.data = SubSeq(Host!Speech(p), Len(Host!PartsOf(p)[k]) + 1, l.read)

\* While the messages are handled that were read up to r.
Handling(p, r) ==
    {l \in LinkType : /\ l.read = r /\ l.state \in {"open", "over"}
                      /\ \E k \in 0..Len(Talks[p]) : Buffers(p, l, k)}

\* No message is left that is complete.
Settled(l) ==
    l.data = <<>> \/ l.state = "over" \/ Len(l.data) < Head(l.data).parts

LEMMA Turned ==
    ASSUME NEW p \in Host!Peers, NEW r \in 0..Len(Host!Speech(p)), NEW l \in Handling(p, r)
    PROVE  /\ Host!Turn(l) \in Handling(p, r)
           /\ Settled(l) => Settled(Host!Turn(l))
           /\ Settled(Host!Turn(l)) \/ Len(Host!Turn(l).data) <= Len(l.data) - 1
<1> DEFINE n == Len(Talks[p])
           Q == Host!Speech(p)
           L(k) == Len(Host!PartsOf(p)[k])
           m == Head(l.data)
<1>1. /\ l \in LinkType /\ l.read = r /\ l.state \in {"open", "over"}
      /\ \E k \in 0..n : Buffers(p, l, k)
  BY DEF Handling
<1>2. PICK k \in 0..n : Buffers(p, l, k)
  BY <1>1
<1>3. l.answers = Host!Due(p)[k] /\ l.data = SubSeq(Q, L(k) + 1, r) /\ L(k) <= r
  BY <1>1, <1>2 DEF Buffers, Handles
<1>4. n \in Nat /\ \A j \in 1..n : Talks[p][j] \in Host!Message
  BY Peering
<1>5. Q \in Seq(Host!Message) /\ L(k) \in Nat /\ L(k) <= Len(Q)
  BY PartsAt
<1>6. r \in Nat /\ r <= Len(Q) /\ Len(Q) \in Nat
  BY <1>5
<1> HIDE DEF Q
<1>7. /\ l.data \in Seq(Host!Message) /\ Len(l.data) = r - L(k)
      /\ \A i \in 1..(r - L(k)) : l.data[i] = Q[L(k) + i]
  <2> HIDE DEF L
  <2>1. SubSeq(Q, L(k) + 1, r) \in Seq(Host!Message) /\ Len(SubSeq(Q, L(k) + 1, r)) = r - L(k)
        /\ \A i \in 1..(r - L(k)) : SubSeq(Q, L(k) + 1, r)[i] = Q[L(k) + i]
    BY SMTT(20), <1>3, <1>5, <1>6, PartIs
  <2> QED
    BY <1>3, <2>1
<1>8. CASE l.data = <<>> \/ l.state = "over"
  <2>1. Host!Turn(l) = l /\ Settled(l)
    BY <1>8 DEF Host!Turn, Settled
  <2> QED
    BY <2>1
<1>9. CASE ~(l.data = <<>> \/ l.state = "over") /\ ~m.frames
  <2> DEFINE t == [l EXCEPT !.state = "over"]
  <2>1. Host!Turn(l) = t
    BY <1>9 DEF Host!Turn
  <2>2. t \in LinkType /\ t.read = l.read /\ t.state = "over" /\ t.data = l.data
        /\ t.answers = l.answers
    BY <1>1 DEF LinkType
  <2> HIDE DEF t
  <2>3. Buffers(p, t, k)
    BY <1>2, <2>2 DEF Buffers, Handles
  <2>4. t \in Handling(p, r) /\ Settled(t)
    BY <1>1, <2>2, <2>3 DEF Handling, Settled
  <2> QED
    BY <2>1, <2>4
<1>10. CASE ~(l.data = <<>> \/ l.state = "over") /\ m.frames /\ Len(l.data) < m.parts
  <2>1. Host!Turn(l) = l /\ Settled(l)
    BY <1>10 DEF Host!Turn, Settled
  <2> QED
    BY <2>1
<1>11. CASE ~(l.data = <<>> \/ l.state = "over") /\ m.frames /\ ~(Len(l.data) < m.parts)
  <2>1. Len(l.data) >= 1 /\ L(k) < r
    BY <1>5, <1>6, <1>7, <1>11
  <2>2. m = l.data[1] /\ m = Q[L(k) + 1]
    BY <1>5, <1>6, <1>7, <2>1
  <2>3. k < n
    <3>1. L(n) = Len(Q)
      BY DEF Host!Speech, Q
    <3>2. k # n
      BY <1>5, <1>6, <2>1, <3>1
    <3> QED
      BY <1>4, <3>2
  <2>4. m = Talks[p][k + 1] /\ k + 1 \in 1..n /\ k + 1 \in 0..n /\ m \in Host!Message
    <3>1. Q[L(k) + 1] = Talks[p][k + 1]
      BY <2>3, PartsAt DEF Q
    <3> QED
      BY <1>4, <2>2, <2>3, <3>1
  <2>5. m.parts \in Nat \ {0} /\ m.id \in Nat /\ m.answered \in BOOLEAN
    BY <2>4 DEF Host!Message
  <2>6. L(k + 1) = L(k) + m.parts
    <3>1. PICK x \in 1..n : x = k + 1
      BY <2>4
    <3>2. L(x) = L(x - 1) + Talks[p][x].parts
      BY PartsAt
    <3>3. x - 1 = k
      BY <1>4, <3>1
    <3> QED
      BY <2>4, <3>1, <3>2, <3>3
  <2>7. m.parts <= r - L(k)
    BY <1>5, <1>6, <1>7, <1>11, <2>5
  <2> DEFINE d == SubSeq(l.data, m.parts + 1, Len(l.data))
             a == IF m.answered THEN Append(l.answers, m.id) ELSE l.answers
             t == [l EXCEPT !.data = d, !.answers = a]
  <2>8. Host!Turn(l) = t
    BY <1>11 DEF Host!Turn
  <2>9. d = SubSeq(Q, L(k + 1) + 1, r) /\ d \in Seq(Host!Message) /\ Len(d) = r - L(k) - m.parts
    <3> HIDE DEF L
    <3>1. SubSeq(SubSeq(Q, L(k) + 1, r), m.parts + 1, r - L(k)) = SubSeq(Q, L(k) + m.parts + 1, r)
      <4>1. PICK x \in Nat : x = m.parts
        BY <2>5
      <4>2. PICK b \in Nat : b = L(k)
        BY <1>5
      <4>3. b + x <= r
        BY <1>6, <2>7, <4>1, <4>2
      <4>4. SubSeq(SubSeq(Q, b + 1, r), x + 1, r - b) = SubSeq(Q, b + x + 1, r)
        BY <1>5, <1>6, <4>3, PartOfPart
      <4> QED
        BY <4>1, <4>2, <4>4
    <3>2. d = SubSeq(Q, L(k + 1) + 1, r)
      BY <1>3, <1>7, <2>6, <3>1
    <3>3. L(k + 1) \in Nat /\ L(k + 1) <= r /\ r - L(k + 1) = r - L(k) - m.parts
      BY SMTT(20), <1>5, <1>6, <2>5, <2>6, <2>7
    <3>4. SubSeq(Q, L(k + 1) + 1, r) \in Seq(Host!Message)
          /\ Len(SubSeq(Q, L(k + 1) + 1, r)) = r - L(k + 1)
      BY SMTT(20), <1>5, <1>6, <3>3, PartIs
    <3> QED
      BY <3>2, <3>3, <3>4
  <2>10. a = Host!Due(p)[k + 1] /\ a \in Seq(Nat)
    <3>1. /\ Host!Due(p)[k + 1] = IF Talks[p][k + 1].answered
                                  THEN Append(Host!Due(p)[k + 1 - 1], Talks[p][k + 1].id)
                                  ELSE Host!Due(p)[k + 1 - 1]
          /\ Host!Due(p)[k + 1] \in Seq(Nat)
      BY <2>4, DueGrows
    <3>2. k + 1 - 1 = k
      BY <1>4
    <3> QED
      BY <1>3, <2>4, <3>1, <3>2
  <2> HIDE DEF d, a
  <2>11. t \in LinkType /\ t.read = l.read /\ t.state = l.state /\ t.data = d /\ t.answers = a
    BY <1>1, <2>9, <2>10 DEF LinkType
  <2> HIDE DEF t
  <2>12. Buffers(p, t, k + 1)
    <3>1. L(k + 1) <= r
      BY <1>5, <1>6, <2>5, <2>6, <2>7
    <3>2. Handles(p, t, k + 1)
      BY <1>1, <2>4, <2>10, <2>11, <3>1 DEF Handles
    <3> QED
      BY <1>1, <2>9, <2>11, <3>2 DEF Buffers, Q
  <2>13. t \in Handling(p, r)
    BY <1>1, <2>4, <2>11, <2>12 DEF Handling
  <2>14. ~Settled(l) /\ Len(t.data) <= Len(l.data) - 1
    <3>1. Len(t.data) <= Len(l.data) - 1
      <4>1. \A x, y \in Int : x >= 1 => y - x <= y - 1
        OBVIOUS
      <4>2. m.parts \in Int /\ m.parts >= 1 /\ r - L(k) \in Int
        BY <1>5, <1>6, <2>5
      <4> QED
        BY <1>7, <2>9, <2>11, <4>1, <4>2
    <3> QED
      BY <1>11, <3>1 DEF Settled
  <2> QED
    BY <2>8, <2>13, <2>14
<1> QED
  BY <1>8, <1>9, <1>10, <1>11

\* After as many turns as there are parts no message is left.
LEMMA AllHandled ==
    ASSUME NEW p \in Host!Peers, NEW r \in 0..Len(Host!Speech(p)), NEW l \in Handling(p, r)
    PROVE  Host!Handled(l) \in Handling(p, r) /\ Settled(Host!Handled(l))
<1> DEFINE s == Len(l.data)
           S == Handling(p, r)
           H == [ks \in (1..s) \X S |-> Host!Turn(ks[2])]
<1>1. s \in Nat
  BY DEF Handling, LinkType
<1>2. \A t \in S : /\ Host!Turn(t) \in S
                   /\ Settled(t) => Settled(Host!Turn(t))
                   /\ Settled(Host!Turn(t)) \/ Len(Host!Turn(t).data) <= Len(t.data) - 1
                   /\ Len(t.data) \in Nat
  <2> SUFFICES ASSUME NEW t \in S
               PROVE  /\ Host!Turn(t) \in S
                      /\ Settled(t) => Settled(Host!Turn(t))
                      /\ Settled(Host!Turn(t)) \/ Len(Host!Turn(t).data) <= Len(t.data) - 1
                      /\ Len(t.data) \in Nat
    OBVIOUS
  <2>1. Len(t.data) \in Nat
    BY DEF Handling, LinkType
  <2> QED
    BY <2>1, Turned
<1>3. H \in [(1..s) \X S -> S] /\ l \in S
  BY <1>2
<1>4. \E f : f = [k \in 0..s |-> IF k = 0 THEN l ELSE Host!Turn(f[k - 1])]
  <2>1. PICK f \in [0..s -> S] : Recurs(f, l, s, H)
    <3> HIDE DEF H, s, S
    <3> QED
      BY <1>1, <1>3, Recursion
  <2>2. ASSUME NEW k \in 1..s PROVE f[k] = Host!Turn(f[k - 1])
    <3>1. k - 1 \in 0..s
      BY <1>1
    <3>2. <<k, f[k - 1]>> \in (1..s) \X S
      BY <3>1
    <3>3. f[k] = H[<<k, f[k - 1]>>]
      BY <2>1 DEF Recurs
    <3> QED
      BY <3>2, <3>3
  <2>3. f[0] = l
    BY <2>1 DEF Recurs
  <2>4. f = [k \in 0..s |-> IF k = 0 THEN l ELSE Host!Turn(f[k - 1])]
    BY <1>1, <2>2, <2>3
  <2> QED
    BY <2>4
<1> DEFINE f == CHOOSE g : g = [k \in 0..s |-> IF k = 0 THEN l ELSE Host!Turn(g[k - 1])]
<1>5. f = [k \in 0..s |-> IF k = 0 THEN l ELSE Host!Turn(f[k - 1])]
  BY <1>4
<1>6. Host!Handled(l) = f[s]
  BY DEF Host!Handled
<1> HIDE DEF f
<1>7. f[0] = l /\ \A k \in 1..s : f[k] = Host!Turn(f[k - 1])
  <2>1. 0 \in 0..s /\ \A k \in 1..s : k \in 0..s /\ k # 0
    BY <1>1
  <2> HIDE DEF s
  <2> QED
    BY <1>5, <2>1
<1> DEFINE G == {k \in 0..s : f[k] \in S /\ (Settled(f[k]) \/ Len(f[k].data) <= s - k)}
<1>8. 0 \in G
  <2>1. 0 \in 0..s /\ f[0] = l /\ l \in S /\ Len(l.data) <= s - 0
    BY <1>1, <1>7
  <2> QED
    BY <2>1
<1>9. ASSUME NEW k \in 1..s, k - 1 \in G PROVE k \in G
  <2>1. f[k - 1] \in S /\ (Settled(f[k - 1]) \/ Len(f[k - 1].data) <= s - (k - 1))
    BY <1>9
  <2>2. f[k] = Host!Turn(f[k - 1]) /\ k \in 0..s
    BY <1>1, <1>7
  <2> DEFINE t == f[k - 1]
             u == f[k]
  <2>3. /\ u \in S
        /\ Settled(t) => Settled(u)
        /\ Settled(u) \/ Len(u.data) <= Len(t.data) - 1
        /\ Len(t.data) \in Nat /\ Len(u.data) \in Nat
    BY <1>2, <2>1, <2>2
  <2> HIDE DEF S
  <2>4. Settled(u) \/ Len(u.data) <= s - k
    <3>1. CASE Settled(t)
      BY <2>3, <3>1
    <3>2. CASE Len(t.data) <= s - (k - 1) /\ Len(u.data) <= Len(t.data) - 1
      <4>1. \A a, b, c, d \in Int : a <= c - (d - 1) /\ b <= a - 1 => b <= c - d
        OBVIOUS
      <4>2. Len(t.data) \in Int /\ Len(u.data) \in Int /\ s \in Int /\ k \in Int
        BY <1>1, <2>3
      <4> HIDE DEF s, t, u
      <4> QED
        BY <3>2, <4>1, <4>2
    <3> QED
      BY <2>1, <2>3, <3>1, <3>2
  <2> QED
    BY <2>2, <2>3, <2>4
<1>10. s \in G
  <2> HIDE DEF G, s
  <2>1. \A k \in 0..s : k \in G
    BY <1>1, <1>8, <1>9, Upwards
  <2> QED
    BY <1>1, <2>1
<1>11. f[s] \in S /\ (Settled(f[s]) \/ Len(f[s].data) <= 0)
  BY <1>1, <1>10
<1>12. Settled(f[s])
  <2>1. f[s].data \in Seq(Host!Message)
    BY <1>11 DEF Handling, LinkType
  <2>2. Len(f[s].data) <= 0 => f[s].data = <<>>
    BY <2>1
  <2> QED
    BY <1>11, <2>2 DEF Settled
<1> QED
  BY <1>6, <1>11, <1>12

-----------------------------------------------------------------------------
\* An engine.  The messages that a connection was read of are handled, and the
\* connections that are served are counted.
Fits(p, l) ==
    /\ l.state \in {"new", "waiting"} => l.read = 0 /\ l.data = <<>> /\ l.answers = <<>>
    /\ l.read <= Len(Host!Speech(p))
    /\ \E k \in 0..Len(Talks[p]) :
          /\ Handles(p, l, k)
          /\ l.state = "open" =>
                 /\ Buffers(p, l, k)
                 /\ \A j \in k + 1..Len(Talks[p]) : l.read < Len(Host!PartsOf(p)[j])

Opened(e) == {p \in Host!Peers : e.links[p].state = "open"}

EngineType ==
    [transport : Transports, state : {"born", "bound", "killed", "over"},
     line : {Nothing} \cup FirstLines, input : {"open", "stop", "closed"},
     stopped : BOOLEAN, active : Nat, links : [Host!Peers -> LinkType]]

EngineSound(e) ==
    /\ e \in EngineType
    /\ \A p \in Host!Peers : Fits(p, e.links[p])
    /\ e.active = Cardinality(Opened(e)) /\ e.active <= MaxActive

\* A connection that is new or was not read yet.
LEMMA FreshFits ==
    ASSUME NEW p \in Host!Peers, NEW l \in LinkType,
           l.read = 0, l.data = <<>>, l.answers = <<>>
    PROVE  Fits(p, l)
<1> DEFINE n == Len(Talks[p])
<1>1. n \in Nat /\ \A k \in 1..n : Talks[p][k].parts \in Nat \ {0}
  BY Peering, SaidIs
<1>2. /\ Len(Host!PartsOf(p)[0]) = 0 /\ Host!Speech(p) \in Seq(Host!Message)
      /\ Len(Host!Speech(p)) \in Nat
  BY PartsAt
<1>3. Handles(p, l, 0)
  BY <1>1, <1>2, DueGrows DEF Handles
<1>4. Buffers(p, l, 0)
  <2>1. SubSeq(Host!Speech(p), 0 + 1, 0) = <<>>
    BY <1>2
  <2> QED
    BY <1>2, <1>3, <2>1 DEF Buffers
<1>5. ASSUME NEW j \in 1..n PROVE 0 < Len(Host!PartsOf(p)[j])
  <2>1. j - 1 \in 0..n /\ j \in 0..n
    BY <1>1
  <2>2. /\ Len(Host!PartsOf(p)[j]) = Len(Host!PartsOf(p)[j - 1]) + Talks[p][j].parts
        /\ Len(Host!PartsOf(p)[j - 1]) \in Nat
    BY <2>1, PartsAt
  <2> QED
    BY <1>1, <2>2
<1>6. 0 \in 0..n /\ \A j \in 0 + 1..n : l.read < Len(Host!PartsOf(p)[j])
  BY <1>1, <1>5
<1> QED
  BY <1>2, <1>3, <1>4, <1>6 DEF Fits

LEMMA NoLinkFits ==
    /\ Host!NoLink \in LinkType /\ Host!NoLink.state = "new"
    /\ \A p \in Host!Peers : Fits(p, Host!NoLink)
<1>1. /\ Host!NoLink \in LinkType /\ Host!NoLink.read = 0 /\ Host!NoLink.data = <<>>
      /\ Host!NoLink.answers = <<>> /\ Host!NoLink.state = "new"
  BY DEF Host!NoLink, LinkType
<1> QED
  BY <1>1, FreshFits

\* An engine without connections.
LEMMA BareSound ==
    ASSUME NEW e \in EngineType, e.active = 0, e.links = [p \in Host!Peers |-> Host!NoLink]
    PROVE  EngineSound(e)
<1>1. Opened(e) = {}
  BY NoLinkFits DEF Opened
<1>2. Cardinality({}) = 0
  BY FS_EmptySet
<1>3. \A p \in Host!Peers : Fits(p, e.links[p])
  BY NoLinkFits
<1> QED
  BY <1>1, <1>2, <1>3, DesktopAssumption DEF EngineSound

LEMMA EndedSound ==
    ASSUME NEW e \in EngineType
    PROVE  EngineSound(Host!Ended(e)) /\ Host!Ended(e).state = "over"
<1> DEFINE f == Host!Ended(e)
           links == [p \in Host!Peers |-> Host!NoLink]
<1>1. links \in [Host!Peers -> LinkType]
  BY NoLinkFits
<1> HIDE DEF links
<1>2. f = [e EXCEPT !.state = "over", !.stopped = FALSE, !.active = 0, !.links = links]
  BY DEF Host!Ended, links
<1>3. f \in EngineType /\ f.state = "over" /\ f.active = 0 /\ f.links = links
  <2> DEFINE g == [e EXCEPT !.state = "over", !.stopped = FALSE]
  <2>1. g \in EngineType /\ g.state = "over"
    BY DEF EngineType
  <2>2. f = [g EXCEPT !.active = 0, !.links = links]
    BY <1>2 DEF EngineType
  <2> HIDE DEF f, g
  <2>3. f \in EngineType /\ f.active = 0 /\ f.links = links /\ f.state = g.state
    BY <1>1, <2>1, <2>2 DEF EngineType
  <2> QED
    BY <2>1, <2>3
<1> HIDE DEF f
<1>4. EngineSound(f)
  BY <1>3, BareSound DEF links
<1> QED
  BY <1>3, <1>4 DEF f

\* An engine of which one connection has changed.
LEMMA Relinked ==
    ASSUME NEW e, EngineSound(e), NEW p \in Host!Peers, NEW l \in LinkType, Fits(p, l),
           NEW f \in EngineType, f.links = [e.links EXCEPT ![p] = l],
           f.active = (e.active + (IF l.state = "open" THEN 1 ELSE 0))
                         - (IF e.links[p].state = "open" THEN 1 ELSE 0),
           f.active <= MaxActive
    PROVE  EngineSound(f)
<1>1. e.links \in [Host!Peers -> LinkType] /\ e.active \in Nat
  BY DEF EngineSound, EngineType
<1>2. \A q \in Host!Peers : f.links[q] = IF q = p THEN l ELSE e.links[q]
  BY <1>1
<1>3. \A q \in Host!Peers : Fits(q, f.links[q])
  BY <1>2 DEF EngineSound
<1>4. IsFiniteSet(Opened(e)) /\ Cardinality(Opened(e)) = e.active
  <2>1. IsFiniteSet(Host!Peers) /\ Opened(e) \subseteq Host!Peers
    BY DesktopAssumption DEF Host!Peers, Opened
  <2> QED
    BY <2>1, FS_Subset DEF EngineSound
<1>5. CASE (l.state = "open") = (e.links[p].state = "open")
  <2>1. Opened(f) = Opened(e)
    BY <1>2, <1>5 DEF Opened
  <2>2. f.active = e.active
    BY <1>1, <1>5
  <2> QED
    BY <1>3, <1>4, <2>1, <2>2 DEF EngineSound
<1>6. CASE l.state = "open" /\ e.links[p].state # "open"
  <2>1. Opened(f) = Opened(e) \cup {p} /\ p \notin Opened(e)
    BY <1>2, <1>6 DEF Opened
  <2>2. Cardinality(Opened(f)) = e.active + 1
    BY <1>4, <2>1, FS_AddElement
  <2>3. f.active = e.active + 1
    BY <1>1, <1>6
  <2> QED
    BY <1>3, <2>2, <2>3 DEF EngineSound
<1>7. CASE l.state # "open" /\ e.links[p].state = "open"
  <2>1. Opened(f) = Opened(e) \ {p} /\ p \in Opened(e)
    BY <1>2, <1>7 DEF Opened
  <2>2. Cardinality(Opened(f)) = e.active - 1
    BY <1>4, <2>1, FS_RemoveElement
  <2>3. f.active = e.active - 1
    BY <1>1, <1>7
  <2> QED
    BY <1>3, <2>2, <2>3 DEF EngineSound
<1> QED
  BY <1>5, <1>6, <1>7

-----------------------------------------------------------------------------
\* The desktop and its engines.
HostInv ==
    /\ desktop \in {"open", "closed"} /\ engines \in Seq(EngineType)
    /\ slot \in {Nothing} \cup DOMAIN engines
    /\ command \in {Nothing} \cup [name : {"start", "stop"}, child : DOMAIN engines]
    /\ command # Nothing => slot = Nothing
    /\ \A c \in DOMAIN engines : EngineSound(engines[c])
    /\ Host!EngineIsOwned

\* An engine changes and does not come to life.
LEMMA Changed ==
    ASSUME HostInv, NEW c \in DOMAIN engines, NEW e, EngineSound(e),
           e.state \in {"born", "bound"} => Host!Alive(c), Host!Change(c, e)
    PROVE  HostInv'
<1>1. /\ engines \in Seq(EngineType) /\ e \in EngineType /\ Len(engines) \in Nat
      /\ DOMAIN engines = 1..Len(engines)
  BY DEF HostInv, EngineSound
<1>2. engines' = [engines EXCEPT ![c] = e] /\ UNCHANGED <<desktop, slot, command>>
  BY DEF Host!Change
<1>3. /\ engines' \in Seq(EngineType) /\ DOMAIN engines' = DOMAIN engines
      /\ \A d \in DOMAIN engines : engines'[d] = IF d = c THEN e ELSE engines[d]
  BY <1>1, <1>2
<1>4. \A d \in DOMAIN engines' : EngineSound(engines[d])'
  <2> SUFFICES ASSUME NEW d \in DOMAIN engines' PROVE EngineSound(engines'[d])
    BY DEF EngineSound, EngineType, Fits, Opened, LinkType, Handles, Buffers
  <2> QED
    BY <1>3 DEF HostInv
<1>5. Host!EngineIsOwned'
  <2>1. ASSUME NEW d \in DOMAIN engines', engines'[d].state \in {"born", "bound"}
        PROVE  Host!Alive(d)
    BY <1>3, <2>1 DEF Host!Alive
  <2> QED
    BY <1>2, <1>3, <2>1 DEF HostInv, Host!EngineIsOwned, Host!Alive
<1> QED
  BY <1>2, <1>3, <1>4, <1>5 DEF HostInv

LEMMA EngineIs ==
    ASSUME HostInv, NEW c \in DOMAIN engines
    PROVE  /\ engines[c] \in EngineType /\ EngineSound(engines[c])
           /\ \A p \in Host!Peers : /\ Host!Link(c, p) \in LinkType
                                    /\ Host!Link(c, p) = engines[c].links[p]
                                    /\ Fits(p, Host!Link(c, p))
<1>1. engines[c] \in EngineType /\ EngineSound(engines[c])
  BY DEF HostInv, EngineSound
<1>2. engines[c].links \in [Host!Peers -> LinkType]
  BY <1>1 DEF EngineType
<1> QED
  BY <1>1, <1>2 DEF Host!Link, EngineSound

LEMMA BindKeeps ==
    ASSUME HostInv, NEW c \in DOMAIN engines, NEW line \in FirstLines, Host!Bind(c, line)
    PROVE  HostInv'
<1> DEFINE e == engines[c]
           f == [e EXCEPT !.state = "bound", !.line = line]
<1>1. e \in EngineType /\ EngineSound(e) /\ e.state = "born"
  BY EngineIs DEF Host!Bind
<1>2. f \in EngineType /\ f.links = e.links /\ f.active = e.active
  BY <1>1 DEF EngineType
<1>3. Host!Change(c, f)
  BY DEF Host!Bind
<1> HIDE DEF f
<1>4. EngineSound(f)
  BY <1>1, <1>2 DEF EngineSound, Opened
<1>5. Host!Alive(c)
  BY <1>1 DEF Host!Alive
<1> QED
  BY <1>3, <1>4, <1>5, Changed

LEMMA HearKeeps ==
    ASSUME HostInv, NEW c \in DOMAIN engines, Host!Hear(c)
    PROVE  HostInv'
<1> DEFINE e == engines[c]
           f == [e EXCEPT !.stopped = TRUE]
<1>1. e \in EngineType /\ EngineSound(e)
  BY EngineIs
<1>2. f \in EngineType /\ f.links = e.links /\ f.active = e.active
  BY <1>1 DEF EngineType
<1>3. Host!Change(c, f) /\ Host!Alive(c)
  BY DEF Host!Hear
<1> HIDE DEF f
<1>4. EngineSound(f)
  BY <1>1, <1>2 DEF EngineSound, Opened
<1> QED
  BY <1>3, <1>4, Changed

LEMMA EndsKeep ==
    ASSUME HostInv, NEW c \in DOMAIN engines,
           Host!Leave(c) \/ Host!EngineFails(c) \/ Host!Dies(c)
    PROVE  HostInv'
<1>1. Host!Change(c, Host!Ended(engines[c]))
  BY DEF Host!Leave, Host!EngineFails, Host!Dies
<1>2. engines[c] \in EngineType
  BY EngineIs
<1>3. EngineSound(Host!Ended(engines[c])) /\ Host!Ended(engines[c]).state = "over"
  BY <1>2, EndedSound
<1> DEFINE f == Host!Ended(engines[c])
<1> HIDE DEF f
<1>4. Host!Change(c, f) /\ EngineSound(f) /\ f.state = "over"
  BY <1>1, <1>3 DEF f
<1> QED
  BY <1>4, Changed

LEMMA ConnectKeeps ==
    ASSUME HostInv, NEW c \in DOMAIN engines, NEW p \in Host!Peers, Host!Connect(c, p)
    PROVE  HostInv'
<1> DEFINE e == engines[c]
           l == [Host!Link(c, p) EXCEPT !.state = "waiting"]
           f == [e EXCEPT !.links[p] = l]
<1>1. e \in EngineType /\ EngineSound(e) /\ e.state = "bound" /\ Host!Link(c, p) \in LinkType
      /\ Fits(p, Host!Link(c, p)) /\ Host!Link(c, p).state = "new"
      /\ e.links[p] = Host!Link(c, p)
  BY EngineIs DEF Host!Connect
<1>2. /\ l \in LinkType /\ l.read = 0 /\ l.data = <<>> /\ l.answers = <<>> /\ l.state = "waiting"
  BY <1>1 DEF Fits, LinkType
<1>3. Host!Change(c, f)
  BY DEF Host!Connect, Host!SetLink
<1> HIDE DEF l
<1>4. f \in EngineType /\ f.links = [e.links EXCEPT ![p] = l] /\ f.active = e.active
      /\ f.active \in Nat
  BY <1>1, <1>2 DEF EngineType
<1> HIDE DEF f
<1>5. Fits(p, l)
  BY <1>2, FreshFits
<1>6. EngineSound(f)
  <2>1. f.active = (e.active + (IF l.state = "open" THEN 1 ELSE 0))
                      - (IF e.links[p].state = "open" THEN 1 ELSE 0)
    BY <1>1, <1>2, <1>4
  <2>2. f.active <= MaxActive
    BY <1>1, <1>4 DEF EngineSound
  <2> QED
    BY <1>1, <1>2, <1>4, <1>5, <2>1, <2>2, Relinked
<1>7. Host!Alive(c)
  BY <1>1 DEF Host!Alive
<1> QED
  BY <1>3, <1>6, <1>7, Changed

LEMMA AcceptKeeps ==
    ASSUME HostInv, NEW c \in DOMAIN engines, NEW p \in Host!Peers, Host!Accept(c, p)
    PROVE  HostInv'
<1> DEFINE e == engines[c]
           k == Host!Link(c, p)
<1>1. e \in EngineType /\ EngineSound(e) /\ e.state = "bound" /\ k \in LinkType
      /\ k.read = 0 /\ k.data = <<>> /\ k.answers = <<>> /\ k.state = "waiting"
      /\ e.links[p] = k /\ e.active \in Nat /\ e.links \in [Host!Peers -> LinkType]
  BY EngineIs DEF Host!Accept, Fits, EngineType
<1>2. Host!Alive(c)
  BY <1>1 DEF Host!Alive
<1>3. CASE Host!SetLink(c, p, [k EXCEPT !.state = "rejected"])
  <2> DEFINE l == [k EXCEPT !.state = "rejected"]
             f == [e EXCEPT !.links[p] = l]
  <2>1. /\ l \in LinkType /\ l.read = 0 /\ l.data = <<>> /\ l.answers = <<>>
        /\ l.state = "rejected"
    BY <1>1 DEF LinkType
  <2>2. Host!Change(c, f)
    BY <1>3 DEF Host!SetLink
  <2> HIDE DEF l, k
  <2>3. f \in EngineType /\ f.links = [e.links EXCEPT ![p] = l] /\ f.active = e.active
    BY <1>1, <2>1 DEF EngineType
  <2> HIDE DEF f
  <2>4. Fits(p, l)
    BY <2>1, FreshFits
  <2>5. f.active = (e.active + (IF l.state = "open" THEN 1 ELSE 0))
                      - (IF e.links[p].state = "open" THEN 1 ELSE 0)
    BY <1>1, <2>1, <2>3
  <2>6. f.active <= MaxActive
    BY <1>1, <2>3 DEF EngineSound
  <2>7. EngineSound(f)
    BY <1>1, <2>1, <2>3, <2>4, <2>5, <2>6, Relinked
  <2> QED
    BY <1>2, <2>2, <2>7, Changed
<1>4. CASE /\ e.active < MaxActive
           /\ Host!Change(c, [e EXCEPT !.active = @ + 1, !.links[p].state = "open"])
  <2> DEFINE l == [k EXCEPT !.state = "open"]
             f == [e EXCEPT !.active = @ + 1, !.links[p].state = "open"]
  <2>1. /\ l \in LinkType /\ l.read = 0 /\ l.data = <<>> /\ l.answers = <<>> /\ l.state = "open"
    BY <1>1 DEF LinkType
  <2>2. Host!Change(c, f)
    BY <1>4
  <2>3. f = [e EXCEPT !.active = e.active + 1, !.links = [e.links EXCEPT ![p] = l]]
    BY <1>1 DEF EngineType
  <2> HIDE DEF f, l, k
  <2>4. f \in EngineType /\ f.links = [e.links EXCEPT ![p] = l] /\ f.active = e.active + 1
    <3>1. [e.links EXCEPT ![p] = l] \in [Host!Peers -> LinkType] /\ e.active + 1 \in Nat
      BY <1>1, <2>1
    <3> DEFINE links == [e.links EXCEPT ![p] = l]
               active == e.active + 1
    <3> HIDE DEF links, active
    <3>2. links \in [Host!Peers -> LinkType] /\ active \in Nat
      BY <3>1 DEF links, active
    <3>3. f = [e EXCEPT !.active = active, !.links = links]
      BY <2>3 DEF links, active
    <3>4. f \in EngineType /\ f.links = links /\ f.active = active
      BY <1>1, <3>2, <3>3 DEF EngineType
    <3> QED
      BY <3>4 DEF links, active
  <2>5. Fits(p, l)
    BY <2>1, FreshFits
  <2>6. f.active = (e.active + (IF l.state = "open" THEN 1 ELSE 0))
                      - (IF e.links[p].state = "open" THEN 1 ELSE 0)
    BY <1>1, <2>1, <2>4
  <2>7. f.active <= MaxActive
    BY <1>1, <1>4, <2>4, DesktopAssumption
  <2>8. EngineSound(f)
    BY <1>1, <2>1, <2>4, <2>5, <2>6, <2>7, Relinked
  <2> QED
    BY <1>2, <2>2, <2>8, Changed
<1> QED
  BY <1>3, <1>4 DEF Host!Accept

LEMMA WorkerEndKeeps ==
    ASSUME HostInv, NEW c \in DOMAIN engines, NEW p \in Host!Peers, Host!WorkerEnds(c, p)
    PROVE  HostInv'
<1> DEFINE e == engines[c]
           k == Host!Link(c, p)
           l == [k EXCEPT !.state = "over"]
           f == [e EXCEPT !.active = @ - 1, !.links[p].state = "over"]
<1>1. e \in EngineType /\ EngineSound(e) /\ e.state = "bound" /\ k \in LinkType
      /\ k.state = "open" /\ Fits(p, k)
      /\ e.links[p] = k /\ e.active \in Nat /\ e.links \in [Host!Peers -> LinkType]
  BY EngineIs DEF Host!WorkerEnds, EngineType
<1>2. Host!Alive(c)
  BY <1>1 DEF Host!Alive
<1>3. /\ l \in LinkType /\ l.read = k.read /\ l.data = k.data /\ l.answers = k.answers
      /\ l.state = "over"
  BY <1>1 DEF LinkType
<1>4. Host!Change(c, f)
  BY DEF Host!WorkerEnds
<1>5. f = [e EXCEPT !.active = e.active - 1, !.links = [e.links EXCEPT ![p] = l]]
  BY <1>1 DEF EngineType
<1> HIDE DEF f, l, k
<1>6. Fits(p, l)
  BY <1>1, <1>3 DEF Fits, Handles
<1>7. e.active - 1 \in Nat
  <2>1. IsFiniteSet(Opened(e)) /\ p \in Opened(e) /\ Cardinality(Opened(e)) = e.active
    <3>1. IsFiniteSet(Host!Peers) /\ Opened(e) \subseteq Host!Peers
      BY DesktopAssumption DEF Host!Peers, Opened
    <3>2. IsFiniteSet(Opened(e))
      BY <3>1, FS_Subset
    <3> QED
      BY <1>1, <3>2 DEF EngineSound, Opened
  <2>2. e.active # 0
    BY <2>1, FS_EmptySet
  <2> QED
    BY <1>1, <2>2
<1>8. f \in EngineType /\ f.links = [e.links EXCEPT ![p] = l] /\ f.active = e.active - 1
  <2> DEFINE links == [e.links EXCEPT ![p] = l]
             active == e.active - 1
  <2>1. links \in [Host!Peers -> LinkType] /\ active \in Nat
    BY <1>1, <1>3, <1>7
  <2> HIDE DEF links, active
  <2>2. f = [e EXCEPT !.active = active, !.links = links]
    BY <1>5 DEF links, active
  <2>3. f \in EngineType /\ f.links = links /\ f.active = active
    BY <1>1, <2>1, <2>2 DEF EngineType
  <2> QED
    BY <2>3 DEF links, active
<1>9. f.active = (e.active + (IF l.state = "open" THEN 1 ELSE 0))
                    - (IF e.links[p].state = "open" THEN 1 ELSE 0)
  BY <1>1, <1>3, <1>8
<1>10. f.active <= MaxActive
  BY <1>1, <1>8, DesktopAssumption DEF EngineSound
<1>11. EngineSound(f)
  BY <1>1, <1>3, <1>6, <1>8, <1>9, <1>10, Relinked
<1> QED
  BY <1>2, <1>4, <1>11, Changed

\* What a device says, in two pieces.
LEMMA SpeechMeets ==
    ASSUME NEW q \in Seq(Host!Message), NEW a \in Nat, NEW b \in Nat, NEW r \in Nat,
           a <= b, b <= r, r <= Len(q)
    PROVE  SubSeq(q, a + 1, b) \o SubSeq(q, b + 1, r) = SubSeq(q, a + 1, r)
BY PartsMeet

\* What is read joins what is left, and of that every message is handled.
LEMMA ReadFits ==
    ASSUME NEW p \in Host!Peers, NEW l \in LinkType, Fits(p, l), l.state = "open",
           NEW n \in Nat, l.read + n <= Len(Host!Speech(p)),
           NEW t, t = [l EXCEPT !.read = l.read + n,
                                !.data = l.data \o SubSeq(Host!Speech(p), l.read + 1, l.read + n)]
    PROVE  /\ Host!Handled(t) \in LinkType /\ Host!Handled(t).state \in {"open", "over"}
           /\ Fits(p, Host!Handled(t))
<1> DEFINE Q == Host!Speech(p)
           L(k) == Len(Host!PartsOf(p)[k])
           r == l.read + n
           h == Host!Handled(t)
<1>1. PICK k \in 0..Len(Talks[p]) : Buffers(p, l, k)
  BY DEF Fits
<1>2. Q \in Seq(Host!Message) /\ L(k) \in Nat /\ L(k) <= Len(Q) /\ Len(Q) \in Nat
  <2>1. Q \in Seq(Host!Message) /\ L(k) \in Nat /\ L(k) <= Len(Q)
    BY PartsAt
  <2> QED
    BY <2>1
<1>3. l.read \in Nat /\ r \in Nat /\ l.read <= r /\ r <= Len(Q) /\ l.data \in Seq(Host!Message)
  BY <1>2 DEF LinkType
<1>4. /\ l.data = SubSeq(Q, L(k) + 1, l.read) /\ L(k) <= l.read
      /\ l.answers = Host!Due(p)[k]
  BY <1>1 DEF Buffers, Handles
<1> DEFINE d == l.data \o SubSeq(Q, l.read + 1, r)
<1>5. d = SubSeq(Q, L(k) + 1, r) /\ d \in Seq(Host!Message)
  <2> HIDE DEF Q, L, r
  <2>1. SubSeq(Q, L(k) + 1, l.read) \o SubSeq(Q, l.read + 1, r) = SubSeq(Q, L(k) + 1, r)
    <3>1. PICK a \in Nat : a = L(k)
      BY <1>2
    <3>2. PICK b \in Nat : b = l.read
      BY <1>3
    <3>3. a <= b /\ b <= r /\ r \in Nat /\ r <= Len(Q) /\ Q \in Seq(Host!Message)
      BY <1>2, <1>3, <1>4, <3>1, <3>2
    <3> HIDE DEF d, h
    <3>4. SubSeq(Q, a + 1, b) \o SubSeq(Q, b + 1, r) = SubSeq(Q, a + 1, r)
      BY ZenonT(30), <3>3, SpeechMeets
    <3> QED
      BY <3>1, <3>2, <3>4
  <2>2. L(k) <= r
    BY <1>2, <1>3, <1>4
  <2>3. SubSeq(Q, L(k) + 1, r) \in Seq(Host!Message)
    BY <1>2, <1>3, <2>2, PartIs
  <2> QED
    BY <1>4, <2>1, <2>3
<1>6. t = [l EXCEPT !.read = r, !.data = d]
  OBVIOUS
<1> HIDE DEF d, r
<1>7. t \in LinkType /\ t.read = r /\ t.data = d /\ t.state = "open" /\ t.answers = l.answers
  BY <1>3, <1>5, <1>6 DEF LinkType
<1>8. Buffers(p, t, k)
  <2>1. L(k) <= r
    BY <1>2, <1>3, <1>4
  <2> QED
    BY <1>4, <1>5, <1>7, <2>1 DEF Buffers, Handles
<1>9. t \in Handling(p, r)
  BY <1>7, <1>8 DEF Handling
<1>10. h \in Handling(p, r) /\ Settled(h)
  <2>1. r \in 0..Len(Host!Speech(p))
    BY <1>2, <1>3
  <2> QED
    BY <1>9, <2>1, AllHandled
<1> HIDE DEF h
<1>11. /\ h \in LinkType /\ h.read = r /\ h.state \in {"open", "over"}
       /\ \E j \in 0..Len(Talks[p]) : Buffers(p, h, j)
  BY <1>10 DEF Handling
<1>12. PICK j \in 0..Len(Talks[p]) : Buffers(p, h, j)
  BY <1>11
<1>13. /\ Handles(p, h, j) /\ h.data = SubSeq(Q, L(j) + 1, r) /\ L(j) <= r
  BY <1>11, <1>12 DEF Buffers, Handles
<1>14. L(j) \in Nat /\ L(j) <= Len(Q) /\ Len(Talks[p]) \in Nat
  BY PartsAt, Peering
<1>15. /\ Len(h.data) = r - L(j) /\ h.data \in Seq(Host!Message)
       /\ \A i \in 1..(r - L(j)) : h.data[i] = Q[L(j) + i]
  <2> HIDE DEF Q, L
  <2>1. PICK b \in Nat : b = L(j)
    BY <1>14
  <2>2. b <= r /\ r \in Nat /\ r <= Len(Q)
    BY <1>3, <1>13, <2>1
  <2>3. SubSeq(Q, b + 1, r) \in Seq(Host!Message) /\ Len(SubSeq(Q, b + 1, r)) = r - b
        /\ \A i \in 1..(r - b) : SubSeq(Q, b + 1, r)[i] = Q[b + i]
    BY SMTT(20), <1>2, <2>2, PartIs
  <2> QED
    BY <1>13, <2>1, <2>3
<1>16. ASSUME h.state = "open", NEW i \in j + 1..Len(Talks[p]) PROVE r < L(i)
  <2>1. j + 1 \in 1..Len(Talks[p]) /\ j + 1 \in 0..Len(Talks[p]) /\ i \in 0..Len(Talks[p])
        /\ j < Len(Talks[p])
    BY <1>14
  <2>2. PICK x \in 1..Len(Talks[p]) : x = j + 1
    BY <2>1
  <2>3. L(x) = L(j) + Talks[p][x].parts /\ Talks[p][x].parts \in Nat \ {0}
    <3>1. L(x) = L(x - 1) + Talks[p][x].parts /\ Talks[p][x].parts \in Nat \ {0}
      BY PartsAt, SaidIs
    <3>2. x - 1 = j
      BY <1>14, <2>2
    <3> QED
      BY <3>1, <3>2
  <2>4. L(x) <= L(i) /\ L(x) \in Nat /\ L(i) \in Nat
    <3>1. x \in 0..Len(Talks[p]) /\ x <= i
      BY <2>1, <2>2
    <3> QED
      BY <2>1, <3>1, PartsAt
  <2>5. r < L(x)
    <3>1. CASE h.data = <<>>
      <4>1. r - L(j) = 0
        BY <1>15, <3>1
      <4>2. \A q, b, a, y \in Int : q - b = 0 /\ y = b + a /\ a >= 1 => q < y
        OBVIOUS
      <4>3. /\ r \in Int /\ L(j) \in Int /\ Talks[p][x].parts \in Int /\ L(x) \in Int
            /\ Talks[p][x].parts >= 1
        BY SMTT(20), <1>3, <1>14, <2>3, <2>4
      <4> HIDE DEF L
      <4> QED
        BY <2>3, <4>1, <4>2, <4>3
    <3>2. CASE h.data # <<>> /\ Len(h.data) < Head(h.data).parts
      <4>1. Len(h.data) >= 1 /\ Head(h.data) = h.data[1]
        BY <1>15, <3>2
      <4>2. h.data[1] = Q[L(j) + 1]
        <5>1. 1 \in 1..(r - L(j))
          BY <1>3, <1>14, <1>15, <4>1
        <5> HIDE DEF Q, L
        <5> QED
          BY <1>15, <5>1
      <4>3. Q[L(j) + 1] = Talks[p][j + 1]
        BY <2>1, PartsAt
      <4>4. Len(h.data) < Talks[p][x].parts
        BY <2>2, <3>2, <4>1, <4>2, <4>3
      <4>5. \A q, b, a, y \in Int : q - b < a /\ y = b + a => q < y
        OBVIOUS
      <4>6. /\ r \in Int /\ L(j) \in Int /\ Talks[p][x].parts \in Int /\ L(x) \in Int
            /\ r - L(j) < Talks[p][x].parts
        BY <1>3, <1>14, <1>15, <2>3, <2>4, <4>4
      <4> HIDE DEF L
      <4> QED
        BY <2>3, <4>5, <4>6
    <3> QED
      BY <1>10, <1>16, <3>1, <3>2 DEF Settled
  <2> QED
    BY <1>3, <2>4, <2>5
<1>17. Fits(p, h)
  BY <1>3, <1>11, <1>12, <1>13, <1>16 DEF Fits
<1> QED
  BY <1>11, <1>17 DEF h

LEMMA ReadKeeps ==
    ASSUME HostInv, NEW c \in DOMAIN engines, NEW p \in Host!Peers,
           NEW n \in 1..Len(Host!Speech(p)), Host!Read(c, p, n)
    PROVE  HostInv'
<1> DEFINE e == engines[c]
           k == Host!Link(c, p)
           t == [k EXCEPT !.read = k.read + n,
                          !.data = k.data \o SubSeq(Host!Speech(p), k.read + 1, k.read + n)]
           l == Host!Handled(t)
           f == [e EXCEPT !.links[p] = l,
                          !.active = IF l.state = "over" THEN @ - 1 ELSE @]
<1>1. e \in EngineType /\ EngineSound(e) /\ e.state = "bound" /\ k \in LinkType
      /\ k.state = "open" /\ Fits(p, k)
      /\ e.links[p] = k /\ e.active \in Nat /\ e.links \in [Host!Peers -> LinkType]
  BY EngineIs DEF Host!Read, EngineType
<1>2. Host!Alive(c)
  BY <1>1 DEF Host!Alive
<1>3. n \in Nat /\ k.read + n <= Len(Host!Speech(p))
  <2>1. Len(Host!Speech(p)) \in Nat /\ k.read \in Nat
    BY <1>1, PartsAt DEF LinkType
  <2>2. n <= Len(Host!Speech(p)) - k.read
    BY DEF Host!Read
  <2> QED
    BY <2>1, <2>2
<1>4. l \in LinkType /\ l.state \in {"open", "over"} /\ Fits(p, l)
  <2>1. t = [k EXCEPT !.read = k.read + n,
                      !.data = k.data \o SubSeq(Host!Speech(p), k.read + 1, k.read + n)]
    OBVIOUS
  <2> HIDE DEF t, k
  <2> QED
    BY <1>1, <1>3, <2>1, ReadFits
<1>5. Host!Change(c, f)
  BY DEF Host!Read
<1> DEFINE active == IF l.state = "over" THEN e.active - 1 ELSE e.active
           links  == [e.links EXCEPT ![p] = l]
<1>6. f = [e EXCEPT !.links = links, !.active = active]
  BY <1>1 DEF EngineType
<1> HIDE DEF f, l, k
<1>7. e.active - 1 \in Nat
  <2>1. IsFiniteSet(Opened(e)) /\ p \in Opened(e) /\ Cardinality(Opened(e)) = e.active
    <3>1. IsFiniteSet(Host!Peers) /\ Opened(e) \subseteq Host!Peers
      BY DesktopAssumption DEF Host!Peers, Opened
    <3>2. IsFiniteSet(Opened(e))
      BY <3>1, FS_Subset
    <3> QED
      BY <1>1, <3>2 DEF EngineSound, Opened
  <2>2. e.active # 0
    BY <2>1, FS_EmptySet
  <2> QED
    BY <1>1, <2>2
<1>8. links \in [Host!Peers -> LinkType] /\ active \in Nat
  BY <1>1, <1>4, <1>7
<1>9. active = (e.active + (IF l.state = "open" THEN 1 ELSE 0))
                  - (IF e.links[p].state = "open" THEN 1 ELSE 0)
  BY <1>1, <1>4
<1>10. active <= MaxActive
  BY <1>1, <1>7, DesktopAssumption DEF EngineSound
<1>11. f \in EngineType /\ f.links = links /\ f.active = active
  <2> HIDE DEF links, active
  <2> QED
    BY <1>1, <1>6, <1>8 DEF EngineType
<1>12. EngineSound(f)
  BY <1>1, <1>4, <1>9, <1>10, <1>11, Relinked
<1> QED
  BY <1>2, <1>5, <1>12, Changed

-----------------------------------------------------------------------------
\* An engine is named by a number, and no number is None.
LEMMA Numbered ==
    ASSUME HostInv
    PROVE  /\ engines \in Seq(EngineType) /\ Len(engines) \in Nat
           /\ DOMAIN engines = 1..Len(engines)
           /\ Nothing \notin DOMAIN engines
           /\ \A d \in DOMAIN engines : EngineSound(engines[d])
           /\ \A d \in DOMAIN engines : Host!Alive(d) =>
                  desktop = "closed" \/ slot = d \/ (command # Nothing /\ command.child = d)
<1>1. engines \in Seq(EngineType)
  BY DEF HostInv
<1>2. Len(engines) \in Nat /\ DOMAIN engines = 1..Len(engines)
  BY <1>1
<1>3. Nothing \notin DOMAIN engines
  BY <1>2, DesktopAssumption
<1> QED
  BY <1>1, <1>2, <1>3 DEF HostInv, Host!EngineIsOwned

LEMMA StartKeeps ==
    ASSUME HostInv, NEW transport \in Transports, Host!StartEngine(transport)
    PROVE  HostInv'
<1> DEFINE n == Len(engines)
           e == Host!NewEngine(transport)
<1>1. /\ desktop = "open" /\ command = Nothing
      /\ slot # Nothing => Host!Over(slot)
      /\ engines' = Append(engines, e) /\ slot' = Nothing
      /\ command' = [name |-> "start", child |-> n + 1] /\ desktop' = desktop
  BY DEF Host!StartEngine
<1>2. EngineSound(e) /\ e \in EngineType
  <2>1. [p \in Host!Peers |-> Host!NoLink] \in [Host!Peers -> LinkType]
    BY NoLinkFits
  <2> DEFINE links == [p \in Host!Peers |-> Host!NoLink]
  <2> HIDE DEF links
  <2>2. e = [transport |-> transport, state |-> "born", line |-> Nothing, input |-> "open",
             stopped |-> FALSE, active |-> 0, links |-> links]
    BY DEF Host!NewEngine, links
  <2>3. e \in EngineType /\ e.active = 0 /\ e.links = links
    BY <2>1, <2>2 DEF EngineType, links
  <2> HIDE DEF e
  <2> QED
    BY <2>3, BareSound DEF links
<1> HIDE DEF e
<1>3. n \in Nat /\ engines \in Seq(EngineType) /\ DOMAIN engines = 1..n
  BY Numbered
<1>4. /\ engines' \in Seq(EngineType) /\ DOMAIN engines' = 1..(n + 1)
      /\ engines'[n + 1] = e /\ \A d \in 1..n : engines'[d] = engines[d]
  BY <1>1, <1>2, <1>3
<1>5. \A d \in 1..(n + 1) : d \in 1..n \/ d = n + 1
  BY <1>3
<1>6. \A d \in DOMAIN engines' : EngineSound(engines[d])'
  <2> SUFFICES ASSUME NEW d \in DOMAIN engines' PROVE EngineSound(engines'[d])
    BY DEF EngineSound, EngineType, Fits, Opened, LinkType, Handles, Buffers
  <2> QED
    BY <1>2, <1>3, <1>4, <1>5, Numbered
<1>7. ASSUME NEW d \in 1..n PROVE ~Host!Alive(d)
  <2>1. slot = d => Host!Over(d)
    BY <1>1, <1>3, Numbered
  <2> QED
    BY <1>1, <1>3, <2>1, Numbered DEF Host!Alive, Host!Over
<1>8. Host!EngineIsOwned'
  <2> SUFFICES ASSUME NEW d \in DOMAIN engines', engines'[d].state \in {"born", "bound"}
               PROVE  command' # Nothing /\ command'.child = d
    BY DEF Host!EngineIsOwned, Host!Alive
  <2>1. d = n + 1
    BY <1>4, <1>5, <1>7 DEF Host!Alive
  <2>2. command' # Nothing
    BY <1>1, <1>3, DesktopAssumption
  <2> QED
    BY <1>1, <2>1, <2>2
<1>9. command' \in [name : {"start", "stop"}, child : DOMAIN engines']
  <2>1. n + 1 \in DOMAIN engines'
    BY <1>3, <1>4
  <2> QED
    BY <1>1, <2>1
<1> QED
  BY <1>1, <1>4, <1>6, <1>8, <1>9 DEF HostInv

\* The slot is emptied while its engine is over.
LEMMA ForgetKeeps ==
    ASSUME HostInv, Host!SpawnFails \/ Host!Status
    PROVE  HostInv'
<1>1. /\ desktop = "open" /\ command = Nothing /\ slot # Nothing /\ Host!Over(slot)
      /\ slot' = Nothing /\ UNCHANGED <<desktop, command, engines>>
  BY DEF Host!SpawnFails, Host!Status
<1>2. \A d \in DOMAIN engines : ~Host!Alive(d)
  BY <1>1, Numbered DEF Host!Alive, Host!Over
<1>3. Host!EngineIsOwned'
  BY <1>1, <1>2 DEF Host!EngineIsOwned, Host!Alive
<1>4. \A d \in DOMAIN engines' : EngineSound(engines[d])'
  <2> SUFFICES ASSUME NEW d \in DOMAIN engines' PROVE EngineSound(engines'[d])
    BY DEF EngineSound, EngineType, Fits, Opened, LinkType, Handles, Buffers
  <2> QED
    BY <1>1, Numbered
<1> QED
  BY <1>1, <1>3, <1>4 DEF HostInv

\* A command returns: its engine may have changed, but lives only if it is kept.
LEMMA Returned ==
    ASSUME HostInv, command # Nothing, command' = Nothing, desktop' = desktop,
           NEW e, EngineSound(e), engines' = [engines EXCEPT ![command.child] = e],
           \/ slot' = Nothing /\ e.state \in {"killed", "over"}
           \/ slot' = command.child
    PROVE  HostInv'
<1> DEFINE c == command.child
<1>1. c \in DOMAIN engines /\ slot = Nothing
  BY DEF HostInv
<1> HIDE DEF c
<1>2. /\ engines \in Seq(EngineType) /\ e \in EngineType /\ Len(engines) \in Nat
      /\ DOMAIN engines = 1..Len(engines) /\ Nothing \notin DOMAIN engines
  BY Numbered DEF EngineSound
<1>3. /\ engines' \in Seq(EngineType) /\ DOMAIN engines' = DOMAIN engines
      /\ \A d \in DOMAIN engines : engines'[d] = IF d = c THEN e ELSE engines[d]
  BY <1>1, <1>2 DEF c
<1>4. \A d \in DOMAIN engines' : EngineSound(engines[d])'
  <2> SUFFICES ASSUME NEW d \in DOMAIN engines' PROVE EngineSound(engines'[d])
    BY DEF EngineSound, EngineType, Fits, Opened, LinkType, Handles, Buffers
  <2> QED
    BY <1>3, Numbered
<1>5. Host!EngineIsOwned'
  <2> SUFFICES ASSUME NEW d \in DOMAIN engines', engines'[d].state \in {"born", "bound"}
               PROVE  desktop' = "closed" \/ slot' = d
    BY DEF Host!EngineIsOwned, Host!Alive
  <2>1. CASE d = c
    BY <1>3, <2>1 DEF c
  <2>2. CASE d # c
    <3>1. Host!Alive(d)
      BY <1>3, <2>2 DEF Host!Alive
    <3>2. desktop = "closed" \/ slot = d \/ command.child = d
      BY <1>3, <3>1, Numbered
    <3> QED
      BY <1>1, <1>2, <1>3, <2>2, <3>2 DEF c
  <2> QED
    BY <2>1, <2>2
<1>6. slot' \in {Nothing} \cup DOMAIN engines'
  BY <1>1, <1>3 DEF c
<1> QED
  BY <1>3, <1>4, <1>5, <1>6 DEF HostInv

LEMMA StartReturnKeeps ==
    ASSUME HostInv, Host!StartReturns
    PROVE  HostInv'
<1> DEFINE c == command.child
           e == engines[c]
<1>1. command # Nothing /\ command' = Nothing /\ desktop' = desktop
  BY DEF Host!StartReturns
<1>2. c \in DOMAIN engines /\ slot = Nothing
  BY <1>1 DEF HostInv
<1>3. e \in EngineType /\ EngineSound(e) /\ engines \in Seq(EngineType)
  BY <1>2, EngineIs, Numbered
<1>4. engines = [engines EXCEPT ![c] = e]
  BY <1>3
<1>5. CASE slot' = c /\ UNCHANGED engines
  BY <1>1, <1>3, <1>4, <1>5, Returned
<1>6. CASE /\ engines' = [engines EXCEPT ![c].state = IF Host!Over(c) THEN @ ELSE "killed"]
           /\ UNCHANGED slot
  <2> DEFINE state == IF Host!Over(c) THEN e.state ELSE "killed"
             f == [e EXCEPT !.state = state]
  <2>1. engines' = [engines EXCEPT ![c] = f]
    BY <1>2, <1>3, <1>6
  <2>2. state \in {"killed", "over"}
    BY DEF Host!Over
  <2> HIDE DEF state
  <2>3. f \in EngineType /\ f.links = e.links /\ f.active = e.active /\ f.state = state
    BY <1>3, <2>2 DEF EngineType
  <2> HIDE DEF f
  <2>4. EngineSound(f)
    BY <1>3, <2>3 DEF EngineSound, Opened
  <2> QED
    BY <1>1, <1>2, <1>6, <2>1, <2>2, <2>3, <2>4, Returned
<1>7. CASE engines' = [engines EXCEPT ![c] = Host!Ended(@)] /\ UNCHANGED slot
  <2>1. EngineSound(Host!Ended(e)) /\ Host!Ended(e).state = "over"
    BY <1>3, EndedSound
  <2>2. engines' = [engines EXCEPT ![c] = Host!Ended(e)]
    BY <1>7
  <2> QED
    BY <1>1, <1>2, <1>7, <2>1, <2>2, Returned
<1>8. CASE Host!Over(c) /\ UNCHANGED <<slot, engines>>
  <2>1. e.state = "over"
    BY <1>8 DEF Host!Over
  <2> QED
    BY <1>1, <1>2, <1>3, <1>4, <1>8, <2>1, Returned
<1> QED
  BY <1>5, <1>6, <1>7, <1>8 DEF Host!StartReturns

LEMMA StopReturnKeeps ==
    ASSUME HostInv, Host!StopReturns
    PROVE  HostInv'
<1> DEFINE c == command.child
           e == engines[c]
<1>1. /\ command # Nothing /\ command' = Nothing /\ desktop' = desktop /\ slot' = slot
      /\ engines' = [engines EXCEPT ![c] = Host!Ended(e)]
  BY DEF Host!StopReturns
<1>2. c \in DOMAIN engines /\ slot = Nothing
  BY <1>1 DEF HostInv
<1>3. EngineSound(Host!Ended(e)) /\ Host!Ended(e).state = "over"
  BY <1>2, EngineIs, EndedSound
<1> QED
  BY <1>1, <1>2, <1>3, Returned

\* What is written to an engine, or that its input is closed, changes nothing.
LEMMA InputSound ==
    ASSUME NEW e, EngineSound(e), NEW input \in {"open", "stop", "closed"}
    PROVE  /\ EngineSound([e EXCEPT !.input = input])
           /\ [e EXCEPT !.input = input].state = e.state
<1> DEFINE f == [e EXCEPT !.input = input]
<1>1. e \in EngineType
  BY DEF EngineSound
<1>2. f \in EngineType /\ f.links = e.links /\ f.active = e.active /\ f.state = e.state
  BY <1>1 DEF EngineType
<1> HIDE DEF f
<1>3. EngineSound(f)
  BY <1>2 DEF EngineSound, Opened
<1> QED
  BY <1>2, <1>3 DEF f

LEMMA StopKeeps ==
    ASSUME HostInv, Host!StopEngine
    PROVE  HostInv'
<1> DEFINE f == [engines[slot] EXCEPT !.input = "stop"]
<1>1. /\ desktop = "open" /\ command = Nothing /\ slot # Nothing
      /\ command' = [name |-> "stop", child |-> slot] /\ slot' = Nothing /\ desktop' = desktop
      /\ engines' = [engines EXCEPT ![slot] = f]
  BY DEF Host!StopEngine
<1>2. slot \in DOMAIN engines
  BY <1>1 DEF HostInv
<1>3. EngineSound(f) /\ f.state = engines[slot].state
  BY <1>2, EngineIs, InputSound
<1> HIDE DEF f
<1>4. /\ engines \in Seq(EngineType) /\ f \in EngineType /\ Len(engines) \in Nat
      /\ DOMAIN engines = 1..Len(engines)
  BY <1>3, Numbered DEF EngineSound
<1>5. /\ engines' \in Seq(EngineType) /\ DOMAIN engines' = DOMAIN engines
      /\ \A d \in DOMAIN engines : engines'[d] = IF d = slot THEN f ELSE engines[d]
  BY <1>1, <1>2, <1>4
<1>6. \A d \in DOMAIN engines' : EngineSound(engines[d])'
  <2> SUFFICES ASSUME NEW d \in DOMAIN engines' PROVE EngineSound(engines'[d])
    BY DEF EngineSound, EngineType, Fits, Opened, LinkType, Handles, Buffers
  <2> QED
    BY <1>3, <1>5, Numbered
<1>7. command' # Nothing /\ command' \in [name : {"start", "stop"}, child : DOMAIN engines']
  <2>1. command' \in [name : {"start", "stop"}, child : Nat]
    BY <1>1, <1>2, <1>4
  <2> QED
    BY <1>1, <1>2, <1>5, <2>1, DesktopAssumption
<1>8. Host!EngineIsOwned'
  <2> SUFFICES ASSUME NEW d \in DOMAIN engines', engines'[d].state \in {"born", "bound"}
               PROVE  command'.child = d
    BY <1>7 DEF Host!EngineIsOwned, Host!Alive
  <2>1. Host!Alive(d)
    BY <1>3, <1>5 DEF Host!Alive
  <2>2. slot = d
    BY <1>1, <1>5, <2>1, Numbered
  <2> QED
    BY <1>1, <2>2
<1> QED
  BY <1>1, <1>5, <1>6, <1>7, <1>8 DEF HostInv

LEMMA CloseKeeps ==
    ASSUME HostInv, Host!CloseDesktop
    PROVE  HostInv'
<1> DEFINE Input(c) == IF engines[c].input = "open" THEN "closed" ELSE engines[c].input
           F(c) == [engines[c] EXCEPT !.input = Input(c)]
<1>1. /\ desktop' = "closed" /\ slot' = Nothing /\ command' = Nothing
      /\ engines' = [c \in DOMAIN engines |-> F(c)]
  BY DEF Host!CloseDesktop
<1>2. ASSUME NEW c \in DOMAIN engines PROVE EngineSound(F(c)) /\ F(c) \in EngineType
  <2>1. EngineSound(engines[c]) /\ engines[c] \in EngineType
    BY EngineIs
  <2>2. Input(c) \in {"open", "stop", "closed"}
    BY <2>1 DEF EngineType
  <2> HIDE DEF Input
  <2>3. EngineSound(F(c))
    BY <2>1, <2>2, InputSound
  <2> QED
    BY <2>3 DEF EngineSound
<1> HIDE DEF F
<1>3. /\ Len(engines) \in Nat /\ DOMAIN engines = 1..Len(engines)
  BY Numbered
<1>4. engines' \in Seq(EngineType) /\ DOMAIN engines' = DOMAIN engines
  <2>1. engines' \in [1..Len(engines) -> EngineType]
    BY <1>1, <1>2, <1>3
  <2> QED
    BY <1>1, <1>3, <2>1
<1>5. \A d \in DOMAIN engines' : EngineSound(engines[d])'
  <2> SUFFICES ASSUME NEW d \in DOMAIN engines' PROVE EngineSound(engines'[d])
    BY DEF EngineSound, EngineType, Fits, Opened, LinkType, Handles, Buffers
  <2> QED
    BY <1>1, <1>2, <1>4
<1>6. Host!EngineIsOwned'
  BY <1>1 DEF Host!EngineIsOwned
<1> QED
  BY <1>1, <1>4, <1>5, <1>6 DEF HostInv

LEMMA InitHosts == Host!InitHost => HostInv
<1> SUFFICES ASSUME Host!InitHost PROVE HostInv
  OBVIOUS
<1>1. desktop = "open" /\ slot = Nothing /\ command = Nothing /\ engines = <<>>
  BY DEF Host!InitHost
<1>2. engines \in Seq(EngineType) /\ DOMAIN engines = {}
  BY <1>1
<1> QED
  BY <1>1, <1>2 DEF HostInv, Host!EngineIsOwned

LEMMA NextHosts == HostInv /\ Host!NextHost => HostInv'
<1> SUFFICES ASSUME HostInv, Host!NextHost PROVE HostInv'
  OBVIOUS
<1>1. CASE \E transport \in Transports : Host!StartEngine(transport)
  BY <1>1, StartKeeps
<1>2. CASE Host!SpawnFails \/ Host!Status
  BY <1>2, ForgetKeeps
<1>3. CASE Host!StartReturns
  BY <1>3, StartReturnKeeps
<1>4. CASE Host!StopEngine
  BY <1>4, StopKeeps
<1>5. CASE Host!StopReturns
  BY <1>5, StopReturnKeeps
<1>6. CASE Host!CloseDesktop
  BY <1>6, CloseKeeps
<1>7. ASSUME NEW c \in DOMAIN engines,
             \/ \E line \in FirstLines : Host!Bind(c, line)
             \/ Host!Hear(c) \/ Host!Leave(c) \/ Host!EngineFails(c) \/ Host!Dies(c)
             \/ \E p \in Host!Peers :
                   \/ Host!Connect(c, p) \/ Host!Accept(c, p) \/ Host!WorkerEnds(c, p)
                   \/ \E n \in 1..Len(Host!Speech(p)) : Host!Read(c, p, n)
      PROVE  HostInv'
  <2>1. CASE \E line \in FirstLines : Host!Bind(c, line)
    BY <2>1, BindKeeps
  <2>2. CASE Host!Hear(c)
    BY <2>2, HearKeeps
  <2>3. CASE Host!Leave(c) \/ Host!EngineFails(c) \/ Host!Dies(c)
    BY <2>3, EndsKeep
  <2>4. ASSUME NEW p \in Host!Peers,
               \/ Host!Connect(c, p) \/ Host!Accept(c, p) \/ Host!WorkerEnds(c, p)
               \/ \E n \in 1..Len(Host!Speech(p)) : Host!Read(c, p, n)
        PROVE  HostInv'
    BY <2>4, ConnectKeeps, AcceptKeeps, WorkerEndKeeps, ReadKeeps
  <2> QED
    BY <1>7, <2>1, <2>2, <2>3, <2>4
<1> QED
  BY <1>1, <1>2, <1>3, <1>4, <1>5, <1>6, <1>7 DEF Host!NextHost

LEMMA StillHosts == HostInv /\ UNCHANGED hostVars => HostInv'
<1> SUFFICES ASSUME HostInv, UNCHANGED hostVars PROVE HostInv'
  OBVIOUS
<1>1. desktop' = desktop /\ slot' = slot /\ command' = command /\ engines' = engines
  BY DEF hostVars
<1>2. \A d \in DOMAIN engines' : EngineSound(engines[d])'
  <2> SUFFICES ASSUME NEW d \in DOMAIN engines' PROVE EngineSound(engines'[d])
    BY DEF EngineSound, EngineType, Fits, Opened, LinkType, Handles, Buffers
  <2> QED
    BY <1>1, Numbered
<1>3. Host!EngineIsOwned'
  BY <1>1 DEF HostInv, Host!EngineIsOwned, Host!Alive
<1> QED
  BY <1>1, <1>2, <1>3 DEF HostInv

LEMMA SameCardinality == \A S : Host!Cardinality(S) = Cardinality(S)
BY DEF Host!Cardinality, Cardinality

LEMMA HostIsSound ==
    ASSUME HostInv
    PROVE  Host!EngineIsOwned /\ Host!AnsweredInTurn /\ Host!ActiveIsCounted
<1>1. Host!EngineIsOwned
  BY DEF HostInv
<1>2. Host!AnsweredInTurn
  <2> SUFFICES ASSUME NEW c \in DOMAIN engines, NEW p \in Host!Peers
               PROVE  \E k \in 0..Len(Talks[p]) :
                         /\ Host!Link(c, p).answers = Host!Due(p)[k]
                         /\ Len(Host!PartsOf(p)[k]) <= Host!Link(c, p).read
                         /\ Host!Link(c, p).state = "open" =>
                                \A j \in k + 1..Len(Talks[p]) :
                                    Host!Link(c, p).read < Len(Host!PartsOf(p)[j])
    BY DEF Host!AnsweredInTurn
  <2>1. Fits(p, Host!Link(c, p))
    BY EngineIs
  <2> QED
    BY <2>1 DEF Fits, Handles
<1>3. Host!ActiveIsCounted
  <2>1. ASSUME NEW c \in DOMAIN engines
        PROVE  /\ engines[c].active
                      = Host!Cardinality({p \in Host!Peers : Host!Link(c, p).state = "open"})
               /\ engines[c].active <= MaxActive
    <3>1. Opened(engines[c]) = {p \in Host!Peers : Host!Link(c, p).state = "open"}
      BY DEF Opened, Host!Link
    <3> QED
      BY <3>1, SameCardinality, EngineIs DEF EngineSound
  <2> QED
    BY <2>1 DEF Host!ActiveIsCounted
<1> QED
  BY <1>1, <1>2, <1>3

-----------------------------------------------------------------------------
\* The engine runs only under the desktop's control, answers each connection
\* in turn and counts them, and a probe tells what the device has answered:
\* for every device, segmentation, failure and end of the desktop.
THEOREM DesktopEnginesAreSound == SpecD => []EnginesAreSound
<1>1. InitD => HostInv /\ ProbeInv
  BY InitHosts, InitProbes DEF InitD
<1>2. HostInv /\ ProbeInv /\ [NextD]_desktopVars => (HostInv /\ ProbeInv)'
  <2> SUFFICES ASSUME HostInv, ProbeInv, [NextD]_desktopVars PROVE HostInv' /\ ProbeInv'
    OBVIOUS
  <2>1. CASE UNCHANGED <<hostVars, probeVars>>
    <3>1. UNCHANGED hostVars /\ UNCHANGED probeVars
      BY <2>1
    <3> QED
      BY <3>1, StillHosts, QuietProbes
  <2>2. CASE Host!NextHost /\ UNCHANGED probeVars
    BY <2>2, NextHosts, QuietProbes
  <2>3. CASE Probe!NextProbe /\ UNCHANGED hostVars
    <3>1. HostInv'
      BY <2>3, StillHosts
    <3>2. CASE \E n \in 1..Len(Probe!Parts) : Probe!Read(n)
      BY <3>1, <3>2, ReadProbes
    <3>3. CASE Probe!Request \/ Probe!Arrive \/ Probe!Deadline \/ Probe!ProbeFails
      BY <3>1, <3>3, QuietProbes
    <3> QED
      BY <2>3, <3>2, <3>3 DEF Probe!NextProbe
  <2>4. UNCHANGED desktopVars => UNCHANGED <<hostVars, probeVars>>
    BY DEF desktopVars
  <2> QED
    BY <2>1, <2>2, <2>3, <2>4 DEF NextD
<1>3. HostInv /\ ProbeInv => EnginesAreSound
  BY HostIsSound DEF EnginesAreSound, ProbeInv
<1> QED
  BY <1>1, <1>2, <1>3, PTL DEF SpecD

-----------------------------------------------------------------------------
(* SimulatorIsSound, of the test engine's scenarios.  h is the history of   *)
(* requests and answers, b what SipBusy remembers.                          *)

\* Each of some numbers has a place among them, and each place is taken.
LEMMA Ranked ==
    ASSUME NEW S \in SUBSET Nat, IsFiniteSet(S)
    PROVE  /\ \A k \in S : Cardinality({j \in S : j <= k}) \in 1..Cardinality(S)
           /\ \A n \in 1..Cardinality(S) : \E k \in S : Cardinality({j \in S : j <= k}) = n
           /\ \A k, l \in S : Cardinality({j \in S : j <= k}) = Cardinality({j \in S : j <= l})
                                  => k = l
<1> DEFINE Upto(k) == {j \in S : j <= k}
           n == Cardinality(S)
           f == [k \in S |-> Cardinality(Upto(k))]
<1>1. n \in Nat
  BY FS_CardinalityType
<1>2. ASSUME NEW k \in S
      PROVE  IsFiniteSet(Upto(k)) /\ Cardinality(Upto(k)) \in 1..n
  <2>1. IsFiniteSet(Upto(k)) /\ Cardinality(Upto(k)) \in Nat /\ Cardinality(Upto(k)) <= n
    BY FS_Subset, FS_CardinalityType
  <2>2. k \in Upto(k)
    OBVIOUS
  <2>3. Cardinality(Upto(k)) # 0
    BY <2>1, <2>2, FS_EmptySet
  <2> QED
    BY <1>1, <2>1, <2>3
<1>3. ASSUME NEW k \in S, NEW l \in S, k < l
      PROVE  Cardinality(Upto(k)) < Cardinality(Upto(l))
  <2>1. Upto(k) \subseteq Upto(l) /\ l \in Upto(l) /\ l \notin Upto(k)
    <3>1. k \in Int /\ l \in Int /\ k < l
      BY <1>3
    <3>2. \A j \in S : j <= k => j <= l
      BY <3>1
    <3>3. l <= l /\ ~(l <= k)
      BY <3>1
    <3> QED
      BY <3>2, <3>3
  <2>2. Upto(k) # Upto(l)
    BY <2>1
  <2> QED
    BY <1>2, <2>1, <2>2, FS_Subset
<1>4. ASSUME NEW k \in S, NEW l \in S, Cardinality(Upto(k)) = Cardinality(Upto(l))
      PROVE  k = l
  <2>1. ~(k < l) /\ ~(l < k)
    BY <1>2, <1>3, <1>4
  <2> QED
    BY <2>1
<1>5. f \in Injection(S, 1..n)
  <2>1. f \in [S -> 1..n]
    BY <1>2
  <2>2. \A k, l \in S : f[k] = f[l] => k = l
    BY <1>4
  <2> QED
    BY <2>1, <2>2 DEF Injection, IsInjective
<1>6. f \in Surjection(S, 1..n)
  <2>1. IsFiniteSet(1..n) /\ Cardinality(1..n) = n
    BY <1>1, FS_Interval
  <2> HIDE DEF f
  <2> QED
    BY <1>5, <2>1, FS_Injection
<1>7. ASSUME NEW i \in 1..n PROVE \E k \in S : Cardinality(Upto(k)) = i
  BY <1>6 DEF Surjection
<1> QED
  BY <1>2, <1>4, <1>7

LEMMA IntervalCount == \A n \in Nat : IsFiniteSet(1..n) /\ Cardinality(1..n) = n
BY FS_Interval

LEMMA IsSeq ==
    ASSUME NEW n \in Nat, NEW S, NEW f \in [1..n -> S]
    PROVE  f \in Seq(S) /\ Len(f) = n
<1>1. f \in Seq(S)
  BY SeqDef
<1>2. DOMAIN f = 1..n
  OBVIOUS
<1> QED
  BY <1>1, <1>2, LenProperties

LEMMA Neighbours ==
    ASSUME NEW n \in Nat, NEW s \in {0, 1}
    PROVE  /\ n + 1 \in Nat /\ n + 1 \in 1..(n + 1) /\ n + s \in Nat
           /\ \A k \in 1..(n + 1) : k = n + 1 \/ (k \in 1..n /\ k + s \in 1..(n + s))
           /\ s = 0 => n + s = n /\ \A k \in 1..n : k + s = k /\ k \in 1..(n + 1)
OBVIOUS

\* What SipBusy remembers has different keys.
Separate(b) ==
    /\ Len(b) \in Nat /\ DOMAIN b = 1..Len(b)
    /\ b \in Seq({b[k] : k \in DOMAIN b})
    /\ \A k, l \in DOMAIN b : b[k].key = b[l].key => k = l

\* What stays of b of what has not expired.
Stays(b, c, now) ==
    /\ \A k \in DOMAIN c : \E l \in DOMAIN b : c[k] = b[l]
    /\ \A k \in DOMAIN b : now < b[k].expires_at => \E l \in DOMAIN c : c[l] = b[k]

\* retain keeps exactly what has not expired.
LEMMA RememberedIs ==
    ASSUME NEW b, Separate(b), NEW now, \A k \in DOMAIN b : b[k].expires_at \in Nat,
           now \in Nat
    PROVE  LET r == Simulator!Remembered(b, now)
           IN  /\ Separate(r) /\ Stays(b, r, now)
               /\ \A k \in DOMAIN r : r[k].expires_at \in Nat /\ now < r[k].expires_at
<1> DEFINE left == {k \in DOMAIN b : b[k].expires_at > now}
           Place(k) == Cardinality({j \in left : j <= k})
           At(n) == CHOOSE k \in left : Place(k) = n
<1>1. PICK r : r = Simulator!Remembered(b, now)
  OBVIOUS
<1>2. /\ r = [n \in 1..Cardinality(left) |-> b[At(n)]]
      /\ left \in SUBSET Nat /\ IsFiniteSet(left) /\ Cardinality(left) \in Nat
  <2>1. left \subseteq 1..Len(b) /\ IsFiniteSet(1..Len(b))
    BY FS_Interval DEF Separate
  <2>2. IsFiniteSet(left)
    BY <2>1, FS_Subset
  <2>3. Cardinality(left) \in Nat
    BY <2>2, FS_CardinalityType
  <2>4. r = [n \in 1..Cardinality(left) |-> b[At(n)]]
    BY <1>1 DEF Simulator!Remembered, Simulator!Cardinality, Cardinality
  <2>5. 1..Len(b) \subseteq Nat
    BY DEF Separate
  <2> QED
    BY <2>1, <2>2, <2>3, <2>4, <2>5
<1>3. /\ \A k \in left : Place(k) \in 1..Cardinality(left)
      /\ \A n \in 1..Cardinality(left) : \E k \in left : Place(k) = n
      /\ \A k, l \in left : Place(k) = Place(l) => k = l
  <2> HIDE DEF left
  <2> QED
    BY <1>2, Ranked
<1>4. \A n \in 1..Cardinality(left) : At(n) \in left /\ Place(At(n)) = n
  BY <1>3
<1>5. \A k \in left : At(Place(k)) = k
  BY <1>3, <1>4
<1> HIDE DEF Place, At
<1>6. DOMAIN r = 1..Cardinality(left) /\ \A n \in DOMAIN r : r[n] = b[At(n)]
  BY <1>2
<1>7. Len(r) = Cardinality(left) /\ r \in Seq({r[n] : n \in DOMAIN r})
  <2>1. \A n \in 1..Cardinality(left) : r[n] \in {r[k] : k \in DOMAIN r}
    BY <1>6
  <2>2. r \in [1..Cardinality(left) -> {r[k] : k \in DOMAIN r}]
    BY <1>2, <2>1
  <2>3. PICK n, S : n = Cardinality(left) /\ S = {r[k] : k \in DOMAIN r}
    OBVIOUS
  <2>4. n \in Nat /\ r \in [1..n -> S]
    BY <1>2, <2>2, <2>3
  <2>5. r \in Seq(S) /\ Len(r) = n
    BY <2>4, IsSeq
  <2> QED
    BY <2>3, <2>5
<1>8. ASSUME NEW m \in DOMAIN r, NEW n \in DOMAIN r, r[m].key = r[n].key PROVE m = n
  <2>1. At(m) \in DOMAIN b /\ At(n) \in DOMAIN b
    BY <1>4, <1>6
  <2>2. At(m) = At(n)
    BY <1>6, <1>8, <2>1 DEF Separate
  <2> QED
    BY <1>4, <1>6, <2>2
<1>9. Separate(r)
  BY <1>2, <1>6, <1>7, <1>8 DEF Separate
<1>10. ASSUME NEW n \in DOMAIN r PROVE \E k \in DOMAIN b : r[n] = b[k] /\ now < b[k].expires_at
  BY <1>4, <1>6
<1>11. ASSUME NEW k \in DOMAIN b, now < b[k].expires_at PROVE \E n \in DOMAIN r : r[n] = b[k]
  <2>1. k \in left
    BY <1>11
  <2> QED
    BY <1>3, <1>5, <1>6, <2>1
<1> QED
  BY <1>1, <1>9, <1>10, <1>11 DEF Stays

-----------------------------------------------------------------------------
Refused(h, j) ==
    h[j].answer # Nothing /\ h[j].request.line = "INVITE" /\ h[j].answer.status = 486

Cancelled(h, j) ==
    h[j].answer # Nothing /\ h[j].request.line = "CANCEL" /\ h[j].answer.status = 200

Refusals(h) == {h[j].request.branch : j \in {k \in DOMAIN h : Refused(h, k)}}

\* A history of requests of one scenario.
Heard(h, which) ==
    /\ Len(h) \in Nat /\ DOMAIN h = 1..Len(h) /\ h \in Seq({h[j] : j \in DOMAIN h})
    /\ \A j \in DOMAIN h : h[j].request \in DeviceSends[which] /\ h[j].at \in Nat

\* A refusal is the answer to its own request, ...
Honest(h) ==
    \A j \in DOMAIN h : Refused(h, j) =>
        Reads(h[j].request) /\ h[j].answer = Simulator!Response(h[j].request, 486)

\* and what is answered to a CANCEL is of the dialog of an INVITE before it.
Joined(h) ==
    \A k \in DOMAIN h : Cancelled(h, k) =>
        \E j \in DOMAIN h : /\ Refused(h, j) /\ h[j].request.branch = h[k].request.branch
                            /\ h[k].answer.to = h[j].answer.to

\* What is remembered comes from a refusal.
Stems(h, t) ==
    /\ DOMAIN t = {"key", "answer", "acknowledged", "expires_at"} /\ t.expires_at \in Nat
    /\ \E j \in DOMAIN h : /\ Refused(h, j) /\ t.key = Simulator!BusyKey(h[j].request)
                           /\ t.answer = h[j].answer
                           /\ ~t.acknowledged => t.expires_at = h[j].at + BusyLife

Table(h, b) == Separate(b) /\ \A k \in DOMAIN b : Stems(h, b[k])

\* The ACK of what is remembered.
Acks(m, t) == m.line = "ACK" /\ t.key = Simulator!BusyKey(m) /\ t.answer.to = m.to

Extends(g, h, m, answer, now) ==
    /\ Len(g) = Len(h) + 1 /\ DOMAIN g = DOMAIN h \cup {Len(g)} /\ Len(g) \notin DOMAIN h
    /\ \A j \in DOMAIN h : g[j] = h[j]
    /\ g[Len(g)] = [request |-> m, answer |-> answer, at |-> now]

LEMMA AppendExtends ==
    ASSUME NEW which, NEW h, Heard(h, which), NEW m \in DeviceSends[which], NEW answer,
           NEW now \in Nat, NEW g, g = Append(h, [request |-> m, answer |-> answer, at |-> now])
    PROVE  Heard(g, which) /\ Extends(g, h, m, answer, now)
<1> DEFINE e == [request |-> m, answer |-> answer, at |-> now]
           S == {h[j] : j \in DOMAIN h}
<1>2. h \in Seq(S \cup {e}) /\ e \in S \cup {e} /\ Len(h) \in Nat /\ DOMAIN h = 1..Len(h)
  <2>1. h \in Seq(S) /\ S \subseteq S \cup {e}
    BY DEF Heard
  <2>2. h \in Seq(S \cup {e})
    <3> HIDE DEF S, e
    <3> QED
      BY <2>1
  <2> QED
    BY <2>2 DEF Heard
<1>3. /\ g \in Seq(S \cup {e}) /\ Len(g) = Len(h) + 1 /\ DOMAIN g = 1..(Len(h) + 1)
      /\ (\A j \in 1..Len(h) : g[j] = h[j]) /\ g[Len(h) + 1] = e
  <2> HIDE DEF S, e
  <2>1. g = Append(h, e)
    BY DEF e
  <2> QED
    BY <1>2, <2>1
<1>4. g \in Seq({g[j] : j \in DOMAIN g})
  BY <1>2, <1>3
<1>5. \A j \in DOMAIN g : g[j].request \in DeviceSends[which] /\ g[j].at \in Nat
  <2> SUFFICES ASSUME NEW j \in DOMAIN g
               PROVE  g[j].request \in DeviceSends[which] /\ g[j].at \in Nat
    OBVIOUS
  <2>1. CASE j = Len(h) + 1
    BY <1>3, <2>1
  <2>2. CASE j \in 1..Len(h)
    BY <1>2, <1>3, <2>2 DEF Heard
  <2> QED
    BY <1>2, <1>3, <2>1, <2>2
<1>6. Heard(g, which)
  BY <1>2, <1>3, <1>4, <1>5 DEF Heard
<1>7. DOMAIN g = DOMAIN h \cup {Len(g)} /\ Len(g) \notin DOMAIN h
  BY <1>2, <1>3
<1> QED
  BY <1>2, <1>3, <1>6, <1>7 DEF Extends

\* What an answer takes from its request.
LEMMA ResponseIs ==
    ASSUME NEW m, {"line", "status", "sdp", "to", "register"} \subseteq DOMAIN m, NEW status,
           Simulator!Response(m, status) # Nothing
    PROVE  /\ Simulator!Answerable(m) /\ Simulator!Response(m, status).status = status
           /\ Simulator!Response(m, status).to
                  = IF m.to = Nothing THEN Simulator!Tag(m) ELSE m.to
<1>1. Simulator!Answerable(m)
  BY DEF Simulator!Response
<1>2. Simulator!Response(m, status)
          = [m EXCEPT !.line = Nothing, !.status = status, !.sdp = Nothing,
                      !.to = IF @ = Nothing THEN Simulator!Tag(m) ELSE @]
  BY <1>1 DEF Simulator!Response
<1> QED
  BY <1>1, <1>2

\* Requests of one transaction.
LEMMA SameTransaction ==
    ASSUME NEW which \in DOMAIN DeviceSends, NEW m \in DeviceSends[which],
           NEW n \in DeviceSends[which], Reads(m), Reads(n), m.branch = n.branch
    PROVE  /\ {m.line, n.line} \subseteq {"INVITE", "CANCEL", "ACK"} =>
                  /\ m.uri = n.uri /\ m.from = n.from /\ m.call = n.call
                  /\ m.cseq.number = n.cseq.number
           /\ {m.line, n.line} \subseteq {"INVITE", "CANCEL"} => m.to = n.to
           /\ m.line = n.line /\ m.to = n.to => m = n
BY DeviceAssumption

\* What it was refused with has a tag.
LEMMA RefusedTag ==
    ASSUME NEW which \in DOMAIN DeviceSends, NEW h, Heard(h, which), Honest(h),
           NEW j \in DOMAIN h, Refused(h, j)
    PROVE  /\ h[j].answer.to # Nothing
           /\ h[j].answer.to = IF h[j].request.to = Nothing THEN Simulator!Tag(h[j].request)
                               ELSE h[j].request.to
<1> DEFINE m == h[j].request
<1>1. m \in DeviceSends[which] /\ Reads(m) /\ h[j].answer = Simulator!Response(m, 486)
  BY DEF Heard, Honest
<1>2. {"line", "status", "sdp", "to", "register"} \subseteq DOMAIN m
  BY <1>1, DeviceAssumption
<1>3. Simulator!Tag(m) # Nothing
  BY <1>1, DeviceAssumption DEF Reads
<1>4. Simulator!Response(m, 486) # Nothing
  BY <1>1 DEF Refused
<1> QED
  BY <1>1, <1>2, <1>3, <1>4, ResponseIs

\* Two refused INVITEs of one branch are one.
LEMMA RefusedOnce ==
    ASSUME NEW which \in DOMAIN DeviceSends, NEW h, Heard(h, which), Honest(h),
           NEW i \in DOMAIN h, NEW j \in DOMAIN h, Refused(h, i), Refused(h, j),
           h[i].request.branch = h[j].request.branch
    PROVE  h[i].request = h[j].request /\ h[i].answer = h[j].answer
<1>1. /\ h[i].request \in DeviceSends[which] /\ h[j].request \in DeviceSends[which]
      /\ Reads(h[i].request) /\ Reads(h[j].request)
  BY DEF Heard, Honest
<1>2. h[i].request.line = "INVITE" /\ h[j].request.line = "INVITE"
  BY DEF Refused
<1>3. h[i].request = h[j].request
  BY <1>1, <1>2, SameTransaction
<1> QED
  BY <1>3 DEF Honest

LEMMA RefusedStays ==
    ASSUME NEW h, NEW g, DOMAIN h \subseteq DOMAIN g, \A j \in DOMAIN h : g[j] = h[j]
    PROVE  /\ \A j \in DOMAIN h : Refused(g, j) <=> Refused(h, j)
           /\ \A j \in DOMAIN h : Cancelled(g, j) <=> Cancelled(h, j)
           /\ \A t : Stems(h, t) => Stems(g, t)
BY DEF Refused, Cancelled, Stems

-----------------------------------------------------------------------------
\* What SipBusy makes of the table b when m arrives, and what of its answer.
Follows(h, b, m, answer, g, c, now) ==
        /\ Table(g, c)
        /\ Refused(g, Len(g)) => /\ Reads(m) /\ answer = Simulator!Response(m, 486)
                                 /\ \E l \in DOMAIN c : /\ c[l].key = Simulator!BusyKey(m)
                                                        /\ ~c[l].acknowledged
        /\ Cancelled(g, Len(g)) => \E j \in DOMAIN h : /\ Refused(h, j)
                                                  /\ h[j].request.branch = m.branch
                                                  /\ answer.to = h[j].answer.to
        /\ \A k \in DOMAIN b : now < b[k].expires_at =>
              \/ \E l \in DOMAIN c :
                    /\ c[l].key = b[k].key
                    /\ IF Reads(m) /\ Acks(m, b[k])
                       THEN c[l].acknowledged /\ c[l].expires_at = now + AckLife
                       ELSE c[l] = b[k]
              \/ ~(Cardinality(Refusals(g)) <= MaxBusy)
        /\ Reads(m) /\ m.line = "INVITE" /\ (\E k \in DOMAIN b : /\ b[k].key = Simulator!BusyKey(m)
                                                                 /\ b[k].acknowledged
                                                                 /\ now < b[k].expires_at)
               => answer = Nothing

\* Part of a table is a table.
LEMMA TablePart ==
    ASSUME NEW h, NEW m, NEW answer, NEW now, NEW g, Extends(g, h, m, answer, now),
           NEW b, Table(h, b), NEW c, Separate(c),
           \A k \in DOMAIN c : \E l \in DOMAIN b : c[k] = b[l]
    PROVE  Table(g, c)
<1>1. DOMAIN h \subseteq DOMAIN g /\ \A j \in DOMAIN h : g[j] = h[j]
  BY DEF Extends
<1>2. \A t : Stems(h, t) => Stems(g, t)
  BY <1>1, RefusedStays
<1>3. \A k \in DOMAIN c : Stems(g, c[k])
  BY <1>2 DEF Table
<1> QED
  BY <1>3 DEF Table

\* A request that takes nothing away and is answered with something else.
LEMMA FollowsQuiet ==
    ASSUME NEW h, NEW m, NEW answer, NEW now, NEW g, Extends(g, h, m, answer, now),
           NEW b, Table(h, b), NEW c, Separate(c), Stays(b, c, now),
           Reads(m) /\ m.line = "ACK" => \A k \in DOMAIN b : now < b[k].expires_at => ~Acks(m, b[k]),
           answer # Nothing => /\ m.line = "INVITE" => answer.status # 486 /\ ~Reads(m)
                               /\ m.line = "CANCEL" => answer.status # 200
    PROVE  Follows(h, b, m, answer, g, c, now)
<1>1. g[Len(g)] = [request |-> m, answer |-> answer, at |-> now]
  BY DEF Extends
<1>2. ~Refused(g, Len(g)) /\ ~Cancelled(g, Len(g))
  <2>1. g[Len(g)].answer = answer /\ g[Len(g)].request = m
    BY <1>1
  <2> QED
    BY <2>1 DEF Refused, Cancelled
<1>3. Table(g, c)
  BY TablePart DEF Stays
<1>4. ASSUME NEW k \in DOMAIN b, now < b[k].expires_at
      PROVE  /\ ~(Reads(m) /\ Acks(m, b[k]))
             /\ \E l \in DOMAIN c : c[l].key = b[k].key /\ c[l] = b[k]
  BY <1>4 DEF Acks, Stays
<1>5. Reads(m) /\ m.line = "INVITE" => answer = Nothing
  OBVIOUS
<1> QED
  BY <1>2, <1>3, <1>4, <1>5 DEF Follows

\* Those that are remembered are of different branches, and not of that of an
\* INVITE that is not: there is room for it, or too many came.
LEMMA RoomFor ==
    ASSUME NEW which \in DOMAIN DeviceSends, NEW h, Heard(h, which), Honest(h),
           NEW m, m \in DeviceSends[which], Reads(m), NEW answer, NEW now, now \in Nat,
           NEW g, Extends(g, h, m, answer, now), Heard(g, which), Refused(g, Len(g)),
           NEW b, Table(h, b), \A k \in DOMAIN b : b[k].key # Simulator!BusyKey(m),
           Cardinality(Refusals(g)) <= MaxBusy
    PROVE  Len(b) < MaxBusy
<1>1. PICK n : n = Len(g)
  OBVIOUS
<1>3. /\ DOMAIN g = DOMAIN h \cup {n} /\ n \notin DOMAIN h /\ \A j \in DOMAIN h : g[j] = h[j]
      /\ g[n] = [request |-> m, answer |-> answer, at |-> now]
  BY <1>1 DEF Extends
<1>4. m.branch \in Refusals(g)
  <2>1. Refused(g, n) /\ n \in DOMAIN g /\ g[n].request = m
    BY <1>1, <1>3
  <2> QED
    BY <2>1 DEF Refusals
<1> DEFINE R == Refusals(g) \ {m.branch}
           f == [k \in DOMAIN b |-> b[k].key.branch]
<1>5. ASSUME NEW k \in DOMAIN b
      PROVE  \E j \in DOMAIN h : /\ Refused(h, j) /\ b[k].key = Simulator!BusyKey(h[j].request)
                                 /\ b[k].key.branch = h[j].request.branch
  <2>1. Stems(h, b[k])
    BY DEF Table
  <2>2. PICK j \in DOMAIN h : Refused(h, j) /\ b[k].key = Simulator!BusyKey(h[j].request)
    BY <2>1 DEF Stems
  <2>3. b[k].key.branch = h[j].request.branch
    BY <2>2 DEF Simulator!BusyKey
  <2> QED
    BY <2>2, <2>3
<1>6. ASSUME NEW k \in DOMAIN b PROVE b[k].key.branch \in R
  <2>1. PICK j \in DOMAIN h : /\ Refused(h, j) /\ b[k].key = Simulator!BusyKey(h[j].request)
                              /\ b[k].key.branch = h[j].request.branch
    BY <1>5
  <2>2. Refused(g, j) /\ j \in DOMAIN g /\ g[j].request = h[j].request
    BY <1>3, <2>1 DEF Refused
  <2>3. b[k].key.branch \in Refusals(g)
    BY <2>1, <2>2 DEF Refusals
  <2>4. CASE b[k].key.branch = m.branch
    <3>1. h[j].request \in DeviceSends[which] /\ Reads(h[j].request)
      BY <2>1 DEF Heard, Honest
    <3>2. h[j].request.line = "INVITE" /\ m.line = "INVITE"
      <4>1. g[n].request = m /\ Refused(g, n)
        BY <1>1, <1>3
      <4> QED
        BY <2>1, <4>1 DEF Refused
    <3>3. PICK r : r = h[j].request
      OBVIOUS
    <3>4. r.branch = m.branch
      BY <2>1, <2>4, <3>3
    <3>5. r = m
      BY <3>1, <3>2, <3>3, <3>4, SameTransaction
    <3> QED
      BY <2>1, <3>3, <3>5
  <2> QED
    BY <2>3, <2>4
<1>7. ASSUME NEW k \in DOMAIN b, NEW l \in DOMAIN b, b[k].key.branch = b[l].key.branch PROVE k = l
  <2>1. PICK i \in DOMAIN h : /\ Refused(h, i) /\ b[k].key = Simulator!BusyKey(h[i].request)
                              /\ b[k].key.branch = h[i].request.branch
    BY <1>5
  <2>2. PICK j \in DOMAIN h : /\ Refused(h, j) /\ b[l].key = Simulator!BusyKey(h[j].request)
                              /\ b[l].key.branch = h[j].request.branch
    BY <1>5
  <2>3. h[i].request = h[j].request
    BY <1>7, <2>1, <2>2, RefusedOnce
  <2> QED
    BY <2>1, <2>2, <2>3 DEF Table, Separate
<1>8. IsFiniteSet(Refusals(g)) /\ Cardinality(Refusals(g)) \in Nat
  <2> DEFINE T == {k \in DOMAIN g : Refused(g, k)}
  <2>1. DOMAIN g = 1..Len(g) /\ Len(g) \in Nat
    BY DEF Heard
  <2>2. IsFiniteSet(T)
    <3>1. T \subseteq 1..Len(g) /\ IsFiniteSet(1..Len(g))
      BY <2>1, FS_Interval
    <3> QED
      BY <3>1, FS_Subset
  <2>3. IsFiniteSet({g[j].request.branch : j \in T})
    <3> DEFINE S == {g[j].request.branch : j \in T}
               b0 == [j \in T |-> g[j].request.branch]
    <3>1. b0 \in Surjection(T, S)
      BY DEF Surjection
    <3> HIDE DEF T, S, b0
    <3>2. IsFiniteSet(S)
      BY <2>2, <3>1, FS_Surjection
    <3> QED
      BY <3>2 DEF S
  <2> QED
    BY <2>3, FS_CardinalityType DEF Refusals
<1>9. IsFiniteSet(R) /\ Cardinality(R) = Cardinality(Refusals(g)) - 1
  BY <1>4, <1>8, FS_RemoveElement
<1>10. f \in Injection(DOMAIN b, R)
  BY <1>6, <1>7 DEF Injection, IsInjective
<1>11. Cardinality(DOMAIN b) <= Cardinality(R)
  <2> HIDE DEF f, R
  <2> QED
    BY <1>9, <1>10, FS_Injection
<1>12. Cardinality(DOMAIN b) = Len(b) /\ Len(b) \in Nat
  <2>1. DOMAIN b = 1..Len(b) /\ Len(b) \in Nat
    BY DEF Table, Separate
  <2>2. Cardinality(1..Len(b)) = Len(b)
    BY <2>1, IntervalCount
  <2> QED
    BY <2>1, <2>2
<1>13. MaxBusy \in Nat
  BY EngineAssumption
<1> QED
  BY <1>1, <1>8, <1>9, <1>11, <1>12, <1>13

\* m arrives after h, when b is remembered: g is the history then.
Arrives(which, h, b, m, answer, now, g) ==
    /\ which \in DOMAIN DeviceSends /\ m \in DeviceSends[which] /\ now \in Nat
    /\ Heard(h, which) /\ Honest(h) /\ Table(h, b)
    /\ Heard(g, which) /\ Extends(g, h, m, answer, now)

LEMMA Fields ==
    ASSUME NEW which \in DOMAIN DeviceSends, NEW m \in DeviceSends[which]
    PROVE  {"line", "status", "sdp", "to", "register"} \subseteq DOMAIN m
BY DeviceAssumption

\* What is left of b has its own line in b.
LEMMA KeptIs ==
    ASSUME NEW h, NEW b, Table(h, b), NEW now \in Nat, NEW c, c = Simulator!Remembered(b, now)
    PROVE  /\ Separate(c) /\ Stays(b, c, now) /\ Table(h, c)
           /\ \A k \in DOMAIN c : now < c[k].expires_at
<1>1. Separate(b) /\ \A k \in DOMAIN b : b[k].expires_at \in Nat
  BY DEF Table, Stems
<1>2. /\ Separate(c) /\ Stays(b, c, now)
      /\ \A k \in DOMAIN c : now < c[k].expires_at
  BY <1>1, RememberedIs
<1>3. \A k \in DOMAIN c : Stems(h, c[k])
  BY <1>2 DEF Stays, Table
<1> QED
  BY <1>2, <1>3 DEF Table

\* An entry of the table is of the refusal of m, if it has its key.
LEMMA StemIs ==
    ASSUME NEW which, NEW h, NEW b, NEW m, NEW answer, NEW now, NEW g,
           Arrives(which, h, b, m, answer, now, g), Reads(m), m.line \in {"INVITE", "CANCEL"},
           NEW t, Stems(h, t), t.key = Simulator!BusyKey(m)
    PROVE  \E j \in DOMAIN h : /\ Refused(h, j) /\ h[j].request.branch = m.branch
                               /\ t.answer = h[j].answer /\ t.answer.to # Nothing
                               /\ m.line = "INVITE" => t.answer = Simulator!Response(m, 486)
<1>1. PICK j \in DOMAIN h : /\ Refused(h, j) /\ t.key = Simulator!BusyKey(h[j].request)
                            /\ t.answer = h[j].answer
  BY DEF Stems
<1>2. PICK r : r = h[j].request
  OBVIOUS
<1>3. /\ which \in DOMAIN DeviceSends /\ m \in DeviceSends[which] /\ r \in DeviceSends[which]
      /\ Reads(r) /\ h[j].answer = Simulator!Response(r, 486) /\ r.line = "INVITE"
  BY <1>1, <1>2 DEF Arrives, Heard, Honest, Refused
<1>4. r.branch = m.branch
  <2>1. Simulator!BusyKey(r) = Simulator!BusyKey(m)
    BY <1>1, <1>2
  <2>2. Simulator!BusyKey(r).branch = r.branch /\ Simulator!BusyKey(m).branch = m.branch
    BY DEF Simulator!BusyKey
  <2> QED
    BY <2>1, <2>2
<1>5. t.answer.to # Nothing
  <2>1. h[j].answer.to # Nothing
    BY <1>1, RefusedTag DEF Arrives
  <2> QED
    BY <1>1, <2>1
<1>6. m.line = "INVITE" => r = m
  BY <1>3, <1>4, SameTransaction
<1> QED
  BY <1>1, <1>2, <1>3, <1>4, <1>5, <1>6

LEMMA InviteAgain ==
    ASSUME NEW which, NEW h, NEW b, NEW m, NEW answer, NEW now, NEW g,
           Arrives(which, h, b, m, answer, now, g), Reads(m), m.line = "INVITE",
           NEW c, c = Simulator!Remembered(b, now),
           NEW i \in DOMAIN c, c[i].key = Simulator!BusyKey(m),
           answer = IF c[i].acknowledged THEN Nothing ELSE c[i].answer
    PROVE  Follows(h, b, m, answer, g, c, now)
<1>1. Table(h, b) /\ now \in Nat /\ Extends(g, h, m, answer, now)
  BY DEF Arrives
<1>2. Separate(c) /\ Stays(b, c, now) /\ Table(h, c)
  BY <1>1, KeptIs
<1>3. CASE c[i].acknowledged
  <2>1. answer = Nothing
    BY <1>3
  <2> QED
    BY <1>1, <1>2, <2>1, FollowsQuiet
<1>4. CASE ~c[i].acknowledged
  <2>1. Table(g, c)
    BY <1>1, <1>2, TablePart DEF Stays
  <2>2. Stems(h, c[i])
    BY <1>2 DEF Table
  <2>3. answer = Simulator!Response(m, 486)
    BY <1>4, <2>2, StemIs
  <2>4. ~Cancelled(g, Len(g))
    <3>1. g[Len(g)].request = m
      BY <1>1 DEF Extends
    <3> QED
      BY <3>1 DEF Cancelled
  <2>5. ASSUME NEW k \in DOMAIN b, now < b[k].expires_at
        PROVE  \E l \in DOMAIN c : c[l].key = b[k].key /\ c[l] = b[k]
    BY <1>2, <2>5 DEF Stays
  <2>6. ~Acks(m, b[1]) /\ \A k : ~Acks(m, b[k])
    BY DEF Acks
  <2>7. ~\E k \in DOMAIN b : /\ b[k].key = Simulator!BusyKey(m) /\ b[k].acknowledged
                             /\ now < b[k].expires_at
    <3> SUFFICES ASSUME NEW k \in DOMAIN b, b[k].key = Simulator!BusyKey(m), b[k].acknowledged,
                        now < b[k].expires_at
                 PROVE  FALSE
      OBVIOUS
    <3>1. PICK l \in DOMAIN c : c[l] = b[k]
      BY <1>2 DEF Stays
    <3>2. l = i
      BY <1>2, <3>1 DEF Separate
    <3> QED
      BY <1>4, <3>1, <3>2
  <2> QED
    BY <1>4, <2>1, <2>3, <2>4, <2>5, <2>6, <2>7 DEF Follows
<1> QED
  BY <1>3, <1>4

\* A line at the end of a table, where there is room or the oldest goes.
Remains(c, cap) == IF Len(c) >= cap THEN Tail(c) ELSE c

LEMMA RemainsIs ==
    ASSUME NEW V, NEW c \in Seq(V), NEW cap \in Nat, cap # 0, NEW room, room = Remains(c, cap)
    PROVE  \E s \in {0, 1} : /\ Len(c) < cap => s = 0
                             /\ room \in Seq(V) /\ Len(c) = Len(room) + s
                             /\ \A k \in 1..Len(room) : room[k] = c[k + s]
<1>1. Len(c) \in Nat /\ c \in Seq(V)
  BY LenProperties, Zenon
<1>2. CASE Len(c) >= cap
  <2>1. Len(c) # 0 /\ ~(Len(c) < cap) /\ room = Tail(c)
    BY <1>1, <1>2 DEF Remains
  <2>2. c # <<>>
    BY <2>1, EmptySeq, Zenon
  <2>3. /\ Tail(c) \in Seq(V) /\ Len(Tail(c)) = Len(c) - 1
        /\ \A k \in 1..Len(Tail(c)) : Tail(c)[k] = c[k + 1]
    BY <2>2, HeadTailProperties, Zenon
  <2>4. PICK l \in Nat : l = Len(c)
    BY <1>1, Zenon
  <2>5. PICK r : r = Len(Tail(c))
    BY Zenon
  <2>6. r = l - 1
    BY <2>3, <2>4, <2>5, Zenon
  <2>7. l = r + 1
    BY <2>6
  <2>8. Len(c) = Len(room) + 1
    BY <2>1, <2>4, <2>5, <2>7, Zenon
  <2> QED
    BY <2>1, <2>3, <2>8, Zenon
<1>3. CASE ~(Len(c) >= cap)
  <2>1. room = c
    BY <1>3 DEF Remains
  <2>2. \A k \in 1..Len(c) : k + 0 = k
    BY <1>1
  <2>3. Len(c) = Len(c) + 0
    BY <1>1
  <2> QED
    BY <1>1, <2>1, <2>2, <2>3, Zenon
<1> QED
  BY <1>2, <1>3

Lined(V, c, cap, e, d, s) ==
    /\ s \in {0, 1} /\ (Len(c) < cap => s = 0)
    /\ Len(d) \in Nat /\ DOMAIN d = 1..Len(d) /\ d \in [1..Len(d) -> V]
    /\ Len(d) \in DOMAIN d /\ d[Len(d)] = e
    /\ \A k \in DOMAIN d : k = Len(d) \/ (k + s \in DOMAIN c /\ d[k] = c[k + s])
    /\ s = 0 => \A k \in DOMAIN c : k \in DOMAIN d /\ d[k] = c[k]

LEMMA Pushed ==
    ASSUME NEW V, NEW c, c \in Seq(V), NEW cap \in Nat, cap # 0, NEW e, e \in V,
           NEW d, d = Append(Remains(c, cap), e)
    PROVE  \E s : Lined(V, c, cap, e, d, s)
<1>1. PICK room : room = Remains(c, cap)
  OBVIOUS
<1>2. PICK s \in {0, 1} : /\ Len(c) < cap => s = 0
                          /\ room \in Seq(V) /\ Len(c) = Len(room) + s
                          /\ \A k \in 1..Len(room) : room[k] = c[k + s]
  BY <1>1, RemainsIs
<1>3. /\ d \in Seq(V) /\ Len(d) = Len(room) + 1 /\ d[Len(room) + 1] = e
      /\ \A k \in 1..Len(room) : d[k] = room[k]
  BY <1>1, <1>2, AppendProperties
<1>4. PICK n : n = Len(room)
  OBVIOUS
<1>5. n \in Nat /\ DOMAIN c = 1..(n + s) /\ DOMAIN d = 1..(n + 1) /\ Len(d) = n + 1
  <2>1. Len(room) \in Nat /\ DOMAIN c = 1..Len(c) /\ DOMAIN d = 1..Len(d)
    BY <1>2, <1>3, LenProperties
  <2> QED
    BY <1>2, <1>3, <1>4, <2>1
<1>6. /\ n + 1 \in Nat /\ n + 1 \in 1..(n + 1)
      /\ \A k \in 1..(n + 1) : k = n + 1 \/ (k \in 1..n /\ k + s \in 1..(n + s))
      /\ s = 0 => n + s = n /\ \A k \in 1..n : k + s = k /\ k \in 1..(n + 1)
  BY <1>5, Neighbours
<1>7. \A k \in 1..n : d[k] = c[k + s]
  BY <1>2, <1>3, <1>4
<1>8. ASSUME NEW k \in DOMAIN d, k # Len(d) PROVE k + s \in DOMAIN c /\ d[k] = c[k + s]
  BY <1>5, <1>6, <1>7, <1>8, Zenon
<1>9. ASSUME s = 0, NEW k \in DOMAIN c PROVE k \in DOMAIN d /\ d[k] = c[k]
  <2>1. k \in 1..n /\ k + s = k /\ k \in 1..(n + 1)
    BY <1>5, <1>6, <1>9, Zenon
  <2>2. d[k] = c[k + s]
    BY <1>7, <2>1, Zenon
  <2> QED
    BY <1>5, <2>1, <2>2, Zenon
<1>10. d \in [1..Len(d) -> V]
  BY <1>3, LenProperties, Zenon
<1>11. Len(d) \in Nat /\ DOMAIN d = 1..Len(d) /\ Len(d) \in DOMAIN d /\ d[Len(d)] = e
  BY <1>3, <1>4, <1>5, <1>6, Zenon
<1>12. Lined(V, c, cap, e, d, s)
  BY <1>2, <1>3, <1>8, <1>9, <1>10, <1>11, Zenon DEF Lined
<1> QED
  BY <1>12

\* An INVITE that is refused for the first time is remembered.
Pushes(c, d, e, s) ==
    /\ s \in {0, 1} /\ (Len(c) < MaxBusy => s = 0) /\ Separate(d)
    /\ Len(d) \in DOMAIN d /\ d[Len(d)] = e
    /\ \A k \in DOMAIN d : k = Len(d) \/ (k + s \in DOMAIN c /\ d[k] = c[k + s])
    /\ s = 0 => \A k \in DOMAIN c : k \in DOMAIN d /\ d[k] = c[k]

LEMMA PushedIs ==
    ASSUME NEW c, Separate(c), NEW e, \A k \in DOMAIN c : c[k].key # e.key,
           NEW d, d = Append(Remains(c, MaxBusy), e)
    PROVE  \E s : Pushes(c, d, e, s)
<1>1. PICK V : V = {c[k] : k \in DOMAIN c} \cup {e}
  OBVIOUS
<1>2. c \in Seq(V) /\ e \in V
  <2>1. PICK S : S = {c[k] : k \in DOMAIN c}
    OBVIOUS
  <2>2. c \in Seq(S) /\ S \subseteq V /\ e \in V
    BY <1>1, <2>1 DEF Separate
  <2> QED
    BY <2>2
<1>3. MaxBusy \in Nat /\ MaxBusy # 0
  BY EngineAssumption
<1>4. PICK s : Lined(V, c, MaxBusy, e, d, s)
  BY <1>2, <1>3, Pushed, ZenonT(30)
<1>5. d \in Seq({d[k] : k \in DOMAIN d})
  <2>1. PICK n \in Nat : n = Len(d) /\ DOMAIN d = 1..n
    BY <1>4 DEF Lined
  <2>2. \A k \in 1..n : d[k] \in {d[l] : l \in DOMAIN d}
    BY <2>1
  <2>3. d = [k \in 1..n |-> d[k]]
    BY <1>4, <2>1 DEF Lined
  <2>4. d \in [1..n -> {d[l] : l \in DOMAIN d}]
    BY <2>2, <2>3
  <2>5. PICK S : S = {d[l] : l \in DOMAIN d}
    OBVIOUS
  <2>6. d \in [1..n -> S]
    BY <2>4, <2>5
  <2>7. d \in Seq(S)
    BY <2>6, IsSeq
  <2> QED
    BY <2>5, <2>7
<1>6. ASSUME NEW k \in DOMAIN d, NEW l \in DOMAIN d, d[k].key = d[l].key PROVE k = l
  <2>1. CASE k = Len(d) /\ l # Len(d)
    BY <1>4, <1>6, <2>1 DEF Lined
  <2>2. CASE k # Len(d) /\ l = Len(d)
    BY <1>4, <1>6, <2>2 DEF Lined
  <2>3. CASE k # Len(d) /\ l # Len(d)
    <3>1. k + s \in DOMAIN c /\ l + s \in DOMAIN c /\ c[k + s].key = c[l + s].key
      BY <1>4, <1>6, <2>3 DEF Lined
    <3>2. k + s = l + s
      BY <3>1 DEF Separate
    <3>3. k \in Nat /\ l \in Nat /\ s \in Nat
      BY <1>4 DEF Lined
    <3> QED
      BY <3>2, <3>3
  <2> QED
    BY <2>1, <2>2, <2>3
<1>7. Separate(d)
  BY <1>4, <1>5, <1>6 DEF Separate, Lined
<1> QED
  BY <1>4, <1>7 DEF Pushes, Lined

LEMMA InviteNew ==
    ASSUME NEW which, NEW h, NEW b, NEW m, NEW answer, NEW now, NEW g,
           Arrives(which, h, b, m, answer, now, g), Reads(m), m.line = "INVITE",
           NEW c, c = Simulator!Remembered(b, now),
           \A i \in DOMAIN c : c[i].key # Simulator!BusyKey(m),
           answer = Simulator!Response(m, 486), answer # Nothing,
           NEW e, e = [key |-> Simulator!BusyKey(m), answer |-> answer,
                       acknowledged |-> FALSE, expires_at |-> now + BusyLife],
           NEW d, NEW s, Pushes(c, d, e, s)
    PROVE  Follows(h, b, m, answer, g, d, now)
<1>1. Table(h, b) /\ now \in Nat /\ Extends(g, h, m, answer, now)
  BY DEF Arrives
<1>2. /\ Separate(c) /\ Stays(b, c, now) /\ Table(h, c)
  BY <1>1, KeptIs
<1>3. g[Len(g)].request = m /\ g[Len(g)].answer = answer /\ g[Len(g)].at = now /\ Len(g) \in DOMAIN g
  BY <1>1 DEF Extends
<1>4. answer.status = 486
  BY ResponseIs, Fields DEF Arrives
<1>5. Refused(g, Len(g)) /\ ~Cancelled(g, Len(g))
  BY <1>3, <1>4 DEF Refused, Cancelled
<1>6. BusyLife \in Nat
  BY EngineAssumption
<1>7. /\ e.key = Simulator!BusyKey(m) /\ e.answer = answer /\ ~e.acknowledged
      /\ e.expires_at = now + BusyLife /\ e.expires_at \in Nat
      /\ DOMAIN e = {"key", "answer", "acknowledged", "expires_at"}
  BY <1>1, <1>6
<1>8. Table(g, d)
  <2>1. \A t : Stems(h, t) => Stems(g, t)
    BY <1>1, RefusedStays DEF Extends
  <2>2. Stems(g, e)
    BY <1>3, <1>5, <1>7 DEF Stems
  <2>3. ASSUME NEW k \in DOMAIN d PROVE Stems(g, d[k])
    <3>1. k = Len(d) \/ \E i \in DOMAIN c : d[k] = c[i]
      BY DEF Pushes
    <3>2. \A i \in DOMAIN c : Stems(g, c[i])
      BY <1>2, <2>1 DEF Table
    <3>3. d[Len(d)] = e
      BY DEF Pushes
    <3> QED
      BY <2>2, <3>1, <3>2, <3>3
  <2> QED
    BY <2>3 DEF Table, Pushes
<1>9. ASSUME NEW k \in DOMAIN b, now < b[k].expires_at, Cardinality(Refusals(g)) <= MaxBusy
      PROVE  \E l \in DOMAIN d : d[l].key = b[k].key /\ d[l] = b[k]
  <2>1. Len(c) < MaxBusy
    BY <1>2, <1>5, <1>9, RoomFor DEF Arrives
  <2>2. PICK l \in DOMAIN c : c[l] = b[k]
    BY <1>2, <1>9 DEF Stays
  <2> QED
    BY <2>1, <2>2 DEF Pushes
<1>10. \A k : ~Acks(m, b[k])
  BY DEF Acks
<1>11. ~\E k \in DOMAIN b : /\ b[k].key = Simulator!BusyKey(m) /\ b[k].acknowledged
                            /\ now < b[k].expires_at
  BY <1>2 DEF Stays
<1>12. \E l \in DOMAIN d : d[l].key = Simulator!BusyKey(m) /\ ~d[l].acknowledged
  BY <1>7 DEF Pushes
<1> QED
  BY <1>5, <1>8, <1>9, <1>10, <1>11, <1>12 DEF Follows

LEMMA CancelKnown ==
    ASSUME NEW which, NEW h, NEW b, NEW m, NEW answer, NEW now, NEW g,
           Arrives(which, h, b, m, answer, now, g), Reads(m), m.line = "CANCEL",
           NEW c, c = Simulator!Remembered(b, now),
           NEW i \in DOMAIN c, c[i].key = Simulator!BusyKey(m),
           answer = Simulator!Response([m EXCEPT !.to = c[i].answer.to], 200)
    PROVE  Follows(h, b, m, answer, g, c, now)
<1>1. Table(h, b) /\ now \in Nat /\ Extends(g, h, m, answer, now)
  BY DEF Arrives
<1>2. Separate(c) /\ Stays(b, c, now) /\ Table(h, c)
  BY <1>1, KeptIs
<1>3. CASE answer = Nothing
  BY <1>1, <1>2, <1>3, FollowsQuiet
<1>4. CASE answer # Nothing
  <2>1. Table(g, c)
    BY <1>1, <1>2, TablePart DEF Stays
  <2>2. Stems(h, c[i])
    BY <1>2 DEF Table
  <2>3. PICK j \in DOMAIN h : /\ Refused(h, j) /\ h[j].request.branch = m.branch
                              /\ c[i].answer = h[j].answer /\ c[i].answer.to # Nothing
    BY <2>2, StemIs
  <2>4. answer.to = h[j].answer.to
    <3>1. PICK r : r = [m EXCEPT !.to = c[i].answer.to]
      OBVIOUS
    <3>2. {"line", "status", "sdp", "to", "register"} \subseteq DOMAIN m
      BY Fields DEF Arrives
    <3>3. DOMAIN r = DOMAIN m /\ r.to = c[i].answer.to
      BY <3>1, <3>2
    <3>4. answer = Simulator!Response(r, 200)
      BY <3>1
    <3>5. answer.to = r.to
      BY <1>4, <2>3, <3>2, <3>3, <3>4, ResponseIs
    <3> QED
      BY <2>3, <3>3, <3>5
  <2>5. ~Refused(g, Len(g))
    <3>1. g[Len(g)].request = m
      BY <1>1 DEF Extends
    <3> QED
      BY <3>1 DEF Refused
  <2>6. ASSUME NEW k \in DOMAIN b, now < b[k].expires_at
        PROVE  \E l \in DOMAIN c : c[l].key = b[k].key /\ c[l] = b[k]
    BY <1>2, <2>6 DEF Stays
  <2>7. \A k : ~Acks(m, b[k])
    BY DEF Acks
  <2> QED
    BY <2>1, <2>3, <2>4, <2>5, <2>6, <2>7 DEF Follows
<1> QED
  BY <1>3, <1>4

\* An ACK marks what it confirms.
Confirmed(c, m, now) ==
    [k \in DOMAIN c |->
        IF c[k].key = Simulator!BusyKey(m) /\ c[k].answer.to = m.to
        THEN [c[k] EXCEPT !.acknowledged = TRUE, !.expires_at = now + AckLife]
        ELSE c[k]]

LEMMA AckMarks ==
    ASSUME NEW which, NEW h, NEW b, NEW m, NEW answer, NEW now, NEW g,
           Arrives(which, h, b, m, answer, now, g), Reads(m), m.line = "ACK", answer = Nothing,
           NEW c, c = Simulator!Remembered(b, now), NEW d,
           d = Confirmed(c, m, now)
    PROVE  Follows(h, b, m, answer, g, d, now)
<1>1. Table(h, b) /\ now \in Nat /\ Extends(g, h, m, answer, now)
  BY DEF Arrives
<1>2. Separate(c) /\ Stays(b, c, now) /\ Table(h, c)
  BY <1>1, KeptIs
<1>3. now + AckLife \in Nat
  <2>1. AckLife \in Nat
    BY EngineAssumption
  <2> QED
    BY <1>1, <2>1
<1>4. ASSUME NEW k \in DOMAIN c
      PROVE  /\ Stems(h, d[k]) /\ d[k].key = c[k].key
             /\ IF Acks(m, c[k]) THEN d[k].acknowledged /\ d[k].expires_at = now + AckLife
                ELSE d[k] = c[k]
  <2>1. PICK u : u = c[k]
    OBVIOUS
  <2>2. Stems(h, u) /\ DOMAIN u = {"key", "answer", "acknowledged", "expires_at"}
    BY <1>2, <2>1 DEF Table, Stems
  <2>3. CASE Acks(m, u)
    <3>1. d[k] = [u EXCEPT !.acknowledged = TRUE, !.expires_at = now + AckLife]
      BY <2>1, <2>3 DEF Acks, Confirmed
    <3>2. /\ DOMAIN d[k] = {"key", "answer", "acknowledged", "expires_at"}
          /\ d[k].key = u.key /\ d[k].answer = u.answer /\ d[k].acknowledged
          /\ d[k].expires_at = now + AckLife
      BY <2>2, <3>1
    <3>3. Stems(h, d[k])
      BY <1>3, <2>2, <3>2 DEF Stems
    <3> QED
      BY <2>1, <2>3, <3>2, <3>3
  <2>4. CASE ~Acks(m, u)
    <3>1. d[k] = u
      BY <2>1, <2>4 DEF Acks, Confirmed
    <3> QED
      BY <2>1, <2>2, <2>4, <3>1
  <2> QED
    BY <2>3, <2>4
<1>5. Separate(d)
  <2>1. Len(c) \in Nat /\ DOMAIN d = 1..Len(c) /\ DOMAIN d = DOMAIN c
    BY <1>2 DEF Separate, Confirmed
  <2>2. d \in Seq({d[k] : k \in DOMAIN d}) /\ Len(d) = Len(c)
    <3>1. PICK n \in Nat : n = Len(c) /\ DOMAIN d = 1..n
      BY <2>1
    <3>2. \A k \in 1..n : d[k] \in {d[l] : l \in DOMAIN d}
      BY <3>1
    <3>3. d = [k \in 1..n |-> d[k]]
      BY <3>1 DEF Confirmed
    <3>4. PICK S : S = {d[l] : l \in DOMAIN d}
      OBVIOUS
    <3>5. d \in [1..n -> S]
      BY <3>2, <3>3, <3>4
    <3>6. d \in Seq(S) /\ Len(d) = n
      BY <3>5, IsSeq
    <3> QED
      BY <3>1, <3>4, <3>6
  <2>3. \A k, l \in DOMAIN d : d[k].key = d[l].key => k = l
    BY <1>2, <1>4, <2>1 DEF Separate
  <2> QED
    BY <2>1, <2>2, <2>3 DEF Separate
<1>6. Table(g, d)
  <2>1. \A t : Stems(h, t) => Stems(g, t)
    BY <1>1, RefusedStays DEF Extends
  <2>2. DOMAIN d = DOMAIN c
    BY DEF Confirmed
  <2> QED
    BY <1>4, <1>5, <2>1, <2>2 DEF Table
<1>7. ~Refused(g, Len(g)) /\ ~Cancelled(g, Len(g))
  <2>1. g[Len(g)].answer = answer
    BY <1>1 DEF Extends
  <2> QED
    BY <2>1 DEF Refused, Cancelled
<1>8. ASSUME NEW k \in DOMAIN b, now < b[k].expires_at
      PROVE  \E l \in DOMAIN d : /\ d[l].key = b[k].key
                                 /\ IF Acks(m, b[k]) THEN d[l].acknowledged /\ d[l].expires_at = now + AckLife
                                    ELSE d[l] = b[k]
  <2>1. PICK l \in DOMAIN c : c[l] = b[k]
    BY <1>2, <1>8 DEF Stays
  <2>2. l \in DOMAIN d
    BY DEF Confirmed
  <2> QED
    BY <1>4, <2>1, <2>2
<1> QED
  BY <1>6, <1>7, <1>8 DEF Follows

\* RespondBusy, in each of its cases.
LEMMA BusyFollows ==
    ASSUME NEW which, NEW h, NEW b, NEW m, NEW answer, NEW now, NEW g,
           Arrives(which, h, b, m, answer, now, g), m.parses,
           NEW x, x = Simulator!RespondBusy(b, m, now), answer = x.answer
    PROVE  Follows(h, b, m, answer, g, x.state, now)
<1>1. PICK c : c = Simulator!Remembered(b, now)
  OBVIOUS
<1>2. Table(h, b) /\ now \in Nat /\ Extends(g, h, m, answer, now)
  BY DEF Arrives
<1>3. /\ Separate(c) /\ Stays(b, c, now) /\ Table(h, c)
      /\ Separate(b) /\ Stays(b, b, now)
  <2>1. Separate(c) /\ Stays(b, c, now) /\ Table(h, c)
    BY <1>1, <1>2, KeptIs
  <2>2. Separate(b) /\ Stays(b, b, now)
    BY <1>2 DEF Table, Stays
  <2> QED
    BY <2>1, <2>2
<1>4. \A state, a : /\ Simulator!Result(state, a).state = state
                    /\ Simulator!Result(state, a).answer = a
  BY DEF Simulator!Result
<1>5. CASE m.line \notin {"INVITE", "CANCEL", "ACK"}
  <2>1. x = Simulator!Result(b, Nothing)
    BY <1>5 DEF Simulator!RespondBusy
  <2>2. x.state = b /\ answer = Nothing
    BY <1>4, <2>1
  <2> QED
    BY <1>2, <1>3, <1>5, <2>2, FollowsQuiet
<1>6. CASE m.line \in {"INVITE", "CANCEL", "ACK"} /\ ~Simulator!Complete(m)
  <2>1. x = Simulator!Result(c, Nothing)
    BY <1>1, <1>6 DEF Simulator!RespondBusy
  <2>2. x.state = c /\ answer = Nothing
    BY <1>4, <2>1
  <2> QED
    BY <1>2, <1>3, <1>6, <2>2, FollowsQuiet DEF Reads
<1>7. CASE m.line = "INVITE" /\ Simulator!Complete(m)
  <2>1. x = Simulator!OnInvite(c, m, now)
    BY <1>1, <1>7 DEF Simulator!RespondBusy
  <2>2. CASE Simulator!Matching(c, m) = {}
    <3>1. x = Simulator!Refuse(c, m, now)
      BY <2>1, <2>2 DEF Simulator!OnInvite
    <3>2. CASE Simulator!Response(m, 486) = Nothing
      <4>1. x = Simulator!Result(c, Nothing)
        BY <3>1, <3>2 DEF Simulator!Refuse
      <4>2. x.state = c /\ answer = Nothing
        BY <1>4, <4>1
      <4> QED
        BY <1>2, <1>3, <1>7, <4>2, FollowsQuiet
    <3>3. CASE Simulator!Response(m, 486) # Nothing
      <4>1. PICK room : room = Remains(c, MaxBusy)
        OBVIOUS
      <4>2. PICK e : e = [key |-> Simulator!BusyKey(m), answer |-> Simulator!Response(m, 486),
                          acknowledged |-> FALSE, expires_at |-> now + BusyLife]
        OBVIOUS
      <4>3. PICK d : d = Append(room, e)
        OBVIOUS
      <4>4. x = Simulator!Result(d, Simulator!Response(m, 486))
        BY <3>1, <3>3, <4>1, <4>2, <4>3 DEF Simulator!Refuse, Remains
      <4>5. x.state = d /\ answer = Simulator!Response(m, 486)
        BY <1>4, <4>4
      <4>6. \A i \in DOMAIN c : c[i].key # Simulator!BusyKey(m)
        BY <2>2 DEF Simulator!Matching
      <4>7. e.key = Simulator!BusyKey(m)
        BY <4>2
      <4>8. PICK s : Pushes(c, d, e, s)
        BY <1>3, <4>1, <4>3, <4>6, <4>7, PushedIs
      <4> QED
        BY <1>1, <1>7, <3>3, <4>2, <4>5, <4>6, <4>8, InviteNew DEF Reads
    <3> QED
      BY <3>2, <3>3
  <2>3. CASE Simulator!Matching(c, m) # {}
    <3>1. PICK i : i = CHOOSE k \in Simulator!Matching(c, m) : TRUE
      OBVIOUS
    <3>2. i \in DOMAIN c /\ c[i].key = Simulator!BusyKey(m)
      BY <2>3, <3>1 DEF Simulator!Matching
    <3>3. x = Simulator!Result(c, IF c[i].acknowledged THEN Nothing ELSE c[i].answer)
      BY <2>1, <2>3, <3>1 DEF Simulator!OnInvite
    <3>4. x.state = c /\ answer = IF c[i].acknowledged THEN Nothing ELSE c[i].answer
      BY <1>4, <3>3
    <3> QED
      BY <1>1, <1>7, <3>2, <3>4, InviteAgain DEF Reads
  <2> QED
    BY <2>2, <2>3
<1>8. CASE m.line = "CANCEL" /\ Simulator!Complete(m)
  <2>1. x = Simulator!OnCancel(c, m)
    BY <1>1, <1>8 DEF Simulator!RespondBusy
  <2>2. CASE Simulator!Matching(c, m) = {}
    <3>1. x = Simulator!Result(c, Simulator!Response(m, 481))
      BY <2>1, <2>2 DEF Simulator!OnCancel
    <3>2. x.state = c /\ answer = Simulator!Response(m, 481)
      BY <1>4, <3>1
    <3>3. answer # Nothing => answer.status = 481
      BY <3>2, ResponseIs, Fields DEF Arrives
    <3> QED
      BY <1>2, <1>3, <1>8, <3>2, <3>3, FollowsQuiet
  <2>3. CASE Simulator!Matching(c, m) # {}
    <3>1. PICK i : i = CHOOSE k \in Simulator!Matching(c, m) : TRUE
      OBVIOUS
    <3>2. i \in DOMAIN c /\ c[i].key = Simulator!BusyKey(m)
      BY <2>3, <3>1 DEF Simulator!Matching
    <3>3. x = Simulator!Result(c, Simulator!Response([m EXCEPT !.to = c[i].answer.to], 200))
      BY <2>1, <2>3, <3>1 DEF Simulator!OnCancel
    <3>4. x.state = c /\ answer = Simulator!Response([m EXCEPT !.to = c[i].answer.to], 200)
      BY <1>4, <3>3
    <3> QED
      BY <1>1, <1>8, <3>2, <3>4, CancelKnown DEF Reads
  <2> QED
    BY <2>2, <2>3
<1>9. CASE m.line = "ACK" /\ Simulator!Complete(m)
  <2>1. x = Simulator!OnAck(c, m, now)
    BY <1>1, <1>9 DEF Simulator!RespondBusy
  <2>2. x = Simulator!Result(Confirmed(c, m, now), Nothing)
    BY <2>1 DEF Simulator!OnAck, Simulator!Matching, Confirmed
  <2>3. x.state = Confirmed(c, m, now) /\ answer = Nothing
    BY <1>4, <2>2
  <2> QED
    BY <1>1, <1>9, <2>3, AckMarks DEF Reads
<1> QED
  BY <1>5, <1>6, <1>7, <1>8, <1>9

\* What the engine makes of a request, in every scenario.
Engine(which, e) ==
    /\ e = [busy |-> e.busy, registrar |-> e.registrar]
    /\ which # "busy" => e.busy = <<>>

LEMMA HandleFollows ==
    ASSUME NEW which, NEW h, NEW m, NEW answer, NEW now, NEW g, NEW e, Engine(which, e),
           Arrives(which, h, e.busy, m, answer, now, g),
           NEW x, x = Simulator!handle(which, e, m, now), answer = x.answer
    PROVE  Follows(h, e.busy, m, answer, g, x.state.busy, now) /\ Engine(which, x.state)
<1>1. /\ Table(h, e.busy) /\ Extends(g, h, m, answer, now) /\ Separate(e.busy)
      /\ Stays(e.busy, e.busy, now)
  BY DEF Arrives, Table, Stays
<1>2. \A state, a : /\ Simulator!Result(state, a).state = state
                    /\ Simulator!Result(state, a).answer = a
  BY DEF Simulator!Result
<1>3. CASE ~m.parses
  <2>1. x = Simulator!Result(e, Nothing)
    BY <1>3 DEF Simulator!handle
  <2>2. x.state = e /\ answer = Nothing
    BY <1>2, <2>1
  <2> QED
    BY <1>1, <1>3, <2>2, FollowsQuiet DEF Reads
<1>4. CASE m.parses /\ m.line = "OPTIONS"
  <2>1. x = Simulator!Result(e, Simulator!Response(m, 200))
    BY <1>4 DEF Simulator!handle
  <2>2. x.state = e
    BY <1>2, <2>1
  <2> QED
    BY <1>1, <1>4, <2>2, FollowsQuiet
<1>5. CASE m.parses /\ m.line # "OPTIONS" /\ which = "options"
  <2>1. x = Simulator!Result(e, Nothing)
    BY <1>5 DEF Simulator!handle
  <2>2. x.state = e /\ answer = Nothing /\ e.busy = <<>>
    BY <1>2, <1>5, <2>1 DEF Engine
  <2>3. ~\E k \in DOMAIN e.busy : TRUE
    BY <2>2
  <2> QED
    BY <1>1, <2>2, <2>3, FollowsQuiet
<1>6. CASE m.parses /\ m.line # "OPTIONS" /\ which = "busy"
  <2>1. PICK y : y = Simulator!RespondBusy(e.busy, m, now)
    OBVIOUS
  <2>2. x = Simulator!Result([e EXCEPT !.busy = y.state], y.answer)
    BY <1>6, <2>1 DEF Simulator!handle
  <2>3. x.state = [e EXCEPT !.busy = y.state] /\ answer = y.answer
    BY <1>2, <2>2
  <2>4. x.state.busy = y.state /\ Engine(which, x.state)
    BY <1>6, <2>3 DEF Engine
  <2> QED
    BY <1>6, <2>1, <2>3, <2>4, BusyFollows
<1>7. CASE m.parses /\ m.line # "OPTIONS" /\ which \notin {"options", "busy"}
  <2>1. PICK y : y = Simulator!RespondRegistrar(e.registrar, m, now)
    OBVIOUS
  <2>2. x = Simulator!Result([e EXCEPT !.registrar = y.state], y.answer)
    BY <1>7, <2>1 DEF Simulator!handle
  <2>3. x.state = [e EXCEPT !.registrar = y.state] /\ answer = y.answer
    BY <1>2, <2>2
  <2>4. x.state.busy = e.busy /\ e.busy = <<>> /\ Engine(which, x.state)
    BY <1>7, <2>3 DEF Engine
  <2>5. m.line # "REGISTER" => y = Simulator!Result(e.registrar, Nothing)
    BY <2>1 DEF Simulator!RespondRegistrar
  <2>6. m.line # "REGISTER" => answer = Nothing
    BY <1>2, <2>3, <2>5
  <2>7. ~\E k \in DOMAIN e.busy : TRUE
    BY <2>4
  <2> QED
    BY <1>1, <2>4, <2>6, <2>7, FollowsQuiet
<1> QED
  BY <1>3, <1>4, <1>5, <1>6, <1>7

-----------------------------------------------------------------------------
\* An ACK that is of a refusal before it, ...
Confirms(h, i, a) ==
    /\ i < a /\ h[a].request.line = "ACK" /\ Reads(h[a].request)
    /\ h[a].request.branch = h[i].request.branch /\ h[a].request.to = h[i].answer.to

\* and comes for the first time, while that is remembered.
Timely(h, i, a) ==
    /\ Refused(h, i) /\ h[i].request.to = Nothing /\ Confirms(h, i, a)
    /\ \A j \in 1..(a - 1) :
          /\ h[j].request = h[i].request => h[a].at - h[j].at < BusyLife
          /\ j > i => h[j].request # h[a].request

\* Until its ACK comes, a refusal is remembered as long as it lives.
Outstanding(h, b, now) ==
    \A i \in DOMAIN h :
        /\ Refused(h, i) /\ h[i].request.to = Nothing /\ Cardinality(Refusals(h)) <= MaxBusy
        => \/ \E a \in DOMAIN h : Confirms(h, i, a)
           \/ \E l \in DOMAIN b : b[l].key = Simulator!BusyKey(h[i].request) /\ ~b[l].acknowledged
           \/ \E j \in DOMAIN h : h[j].request = h[i].request /\ now - h[j].at >= BusyLife

\* After it, that it came is.
Acknowledged(h, b, now) ==
    \A i, a \in DOMAIN h :
        Timely(h, i, a) /\ Cardinality(Refusals(h)) <= MaxBusy
        => \/ now - h[a].at >= AckLife
           \/ \E l \in DOMAIN b : /\ b[l].key = Simulator!BusyKey(h[i].request)
                                  /\ b[l].acknowledged /\ b[l].expires_at >= h[a].at + AckLife

IsOver(h) ==
    \A i, a, k \in DOMAIN h :
        /\ a < k /\ Timely(h, i, a) /\ h[k].request = h[i].request
        /\ h[k].at - h[a].at < AckLife /\ Cardinality(Refusals(h)) <= MaxBusy
        => h[k].answer = Nothing

Past(h, now) == \A j \in DOMAIN h : h[j].at <= now

\* The inductive invariant of the busy scenario.
BusySound(h, b, now) ==
    /\ Honest(h) /\ Joined(h) /\ Table(h, b) /\ Past(h, now)
    /\ Outstanding(h, b, now) /\ Acknowledged(h, b, now) /\ IsOver(h)

\* What the entry of a refusal is.
LEMMA EntryIs ==
    ASSUME NEW which \in DOMAIN DeviceSends, NEW h, Heard(h, which), Honest(h),
           NEW i \in DOMAIN h, Refused(h, i),
           NEW t, Stems(h, t), t.key = Simulator!BusyKey(h[i].request)
    PROVE  /\ t.answer = h[i].answer
           /\ ~t.acknowledged => \E j \in DOMAIN h : /\ h[j].request = h[i].request
                                                     /\ t.expires_at = h[j].at + BusyLife
<1>1. PICK j \in DOMAIN h : /\ Refused(h, j) /\ t.key = Simulator!BusyKey(h[j].request)
                            /\ t.answer = h[j].answer
                            /\ ~t.acknowledged => t.expires_at = h[j].at + BusyLife
  BY DEF Stems
<1>2. h[i].request.branch = h[j].request.branch
  <2>1. \A r : Simulator!BusyKey(r).branch = r.branch
    BY DEF Simulator!BusyKey
  <2>2. Simulator!BusyKey(h[i].request) = Simulator!BusyKey(h[j].request)
    BY <1>1
  <2> QED
    BY <2>1, <2>2
<1>3. h[i].request = h[j].request /\ h[i].answer = h[j].answer
  BY <1>1, <1>2, RefusedOnce
<1> QED
  BY <1>1, <1>3

LEMMA LifeIs == BusyLife \in Nat /\ AckLife \in Nat /\ MaxBusy \in Nat
BY EngineAssumption

\* What has been heard before m.
Earlier(h, m, answer, now, g, n) ==
    /\ n \in Nat /\ n \in DOMAIN g /\ DOMAIN h = 1..(n - 1) /\ DOMAIN g = DOMAIN h \cup {n}
    /\ g[n].request = m /\ g[n].answer = answer /\ g[n].at = now
    /\ \A j \in DOMAIN h : j \in Nat /\ j < n /\ g[j] = h[j] /\ h[j].at \in Nat /\ j \in DOMAIN g
    /\ \A j \in DOMAIN h : Refused(g, j) <=> Refused(h, j)
    /\ \A j \in DOMAIN h : Cancelled(g, j) <=> Cancelled(h, j)
    /\ \A i, a \in DOMAIN h : Confirms(g, i, a) <=> Confirms(h, i, a)
    /\ \A i, a \in DOMAIN h : Timely(g, i, a) => Timely(h, i, a)
    /\ Cardinality(Refusals(g)) <= MaxBusy => Cardinality(Refusals(h)) <= MaxBusy

LEMMA Before ==
    ASSUME NEW which, NEW h, NEW b, NEW m, NEW answer, NEW now, NEW g,
           Arrives(which, h, b, m, answer, now, g), NEW n, n = Len(g)
    PROVE  Earlier(h, m, answer, now, g, n)
<1>1. /\ n \in Nat /\ n \in DOMAIN g /\ DOMAIN h = 1..(n - 1) /\ DOMAIN g = DOMAIN h \cup {n}
      /\ \A j \in DOMAIN h : j \in Nat /\ j < n /\ j \in DOMAIN g
  <2>1. /\ Len(h) \in Nat /\ DOMAIN h = 1..Len(h) /\ n = Len(h) + 1 /\ DOMAIN g = DOMAIN h \cup {n}
    BY DEF Arrives, Heard, Extends
  <2>2. n \in Nat /\ n - 1 = Len(h)
    BY <2>1
  <2>3. \A j \in 1..(n - 1) : j \in Nat /\ j < n
    BY <2>2
  <2> QED
    BY <2>1, <2>2, <2>3
<1>2. g[n].request = m /\ g[n].answer = answer /\ g[n].at = now
  BY DEF Arrives, Extends
<1>3. \A j \in DOMAIN h : g[j] = h[j] /\ h[j].at \in Nat
  BY DEF Arrives, Extends, Heard
<1>4. /\ \A j \in DOMAIN h : Refused(g, j) <=> Refused(h, j)
      /\ \A j \in DOMAIN h : Cancelled(g, j) <=> Cancelled(h, j)
  BY <1>3 DEF Refused, Cancelled
<1>5. \A i, a \in DOMAIN h : Confirms(g, i, a) <=> Confirms(h, i, a)
  BY <1>3 DEF Confirms
<1>6. ASSUME NEW i \in DOMAIN h, NEW a \in DOMAIN h, Timely(g, i, a) PROVE Timely(h, i, a)
  <2>1. \A j \in 1..(a - 1) : j \in DOMAIN h
    BY <1>1
  <2> QED
    BY <1>3, <1>4, <1>5, <1>6, <2>1 DEF Timely
<1>7. ASSUME Cardinality(Refusals(g)) <= MaxBusy PROVE Cardinality(Refusals(h)) <= MaxBusy
  <2>1. IsFiniteSet(Refusals(g))
    <3>0. Len(g) \in Nat /\ DOMAIN g = 1..Len(g)
      BY DEF Arrives, Heard
    <3>1. PICK l \in Nat : DOMAIN g = 1..l
      BY <3>0
    <3> DEFINE T == {k \in DOMAIN g : Refused(g, k)}
               S == {g[j].request.branch : j \in T}
               b0 == [j \in T |-> g[j].request.branch]
    <3>2. IsFiniteSet(T)
      <4>1. T \subseteq 1..l /\ IsFiniteSet(1..l)
        BY <3>1, FS_Interval
      <4> QED
        BY <4>1, FS_Subset
    <3>3. b0 \in Surjection(T, S)
      BY DEF Surjection
    <3>4. S = Refusals(g)
      BY DEF Refusals
    <3> HIDE DEF T, S, b0
    <3>5. IsFiniteSet(S)
      BY <3>2, <3>3, FS_Surjection
    <3> QED
      BY <3>4, <3>5
  <2>2. Refusals(h) \subseteq Refusals(g)
    <3>1. \A j \in DOMAIN h : Refused(h, j) => /\ j \in DOMAIN g /\ Refused(g, j)
                                              /\ h[j].request.branch = g[j].request.branch
      BY <1>1, <1>3, <1>4
    <3> QED
      BY <3>1 DEF Refusals
  <2>3. /\ Cardinality(Refusals(h)) <= Cardinality(Refusals(g))
        /\ Cardinality(Refusals(h)) \in Nat /\ Cardinality(Refusals(g)) \in Nat
    BY <2>1, <2>2, FS_Subset, FS_CardinalityType
  <2> QED
    BY <1>7, <2>3, LifeIs
<1> QED
  BY <1>1, <1>2, <1>3, <1>4, <1>5, <1>6, <1>7 DEF Earlier

\* A refusal is remembered after m as it was before, or m is its ACK.
LEMMA OutstandingStays ==
    ASSUME NEW which, NEW h, NEW b, NEW m, NEW answer, NEW now, NEW g, NEW c,
           Arrives(which, h, b, m, answer, now, g), BusySound(h, b, now),
           Follows(h, b, m, answer, g, c, now)
    PROVE  Outstanding(g, c, now)
<1>1. PICK n : n = Len(g)
  OBVIOUS
<1>2. /\ DOMAIN g = DOMAIN h \cup {n} /\ g[n].request = m
      /\ \A j \in DOMAIN h : j < n /\ g[j] = h[j] /\ h[j].at \in Nat /\ j \in DOMAIN g
      /\ \A j \in DOMAIN h : Refused(g, j) <=> Refused(h, j)
      /\ \A i, a \in DOMAIN h : Confirms(g, i, a) <=> Confirms(h, i, a)
      /\ Cardinality(Refusals(g)) <= MaxBusy => Cardinality(Refusals(h)) <= MaxBusy
      /\ n \in DOMAIN g
  <2>1. Earlier(h, m, answer, now, g, n)
    BY <1>1, Before
  <2> QED
    BY <2>1 DEF Earlier
<1>3. /\ which \in DOMAIN DeviceSends /\ Heard(h, which) /\ Honest(h) /\ Table(h, b) /\ now \in Nat
  BY DEF Arrives
<1>4. ASSUME NEW i \in DOMAIN g, Refused(g, i), g[i].request.to = Nothing,
             Cardinality(Refusals(g)) <= MaxBusy
      PROVE  \/ \E a \in DOMAIN g : Confirms(g, i, a)
             \/ \E l \in DOMAIN c : c[l].key = Simulator!BusyKey(g[i].request) /\ ~c[l].acknowledged
             \/ \E j \in DOMAIN g : g[j].request = g[i].request /\ now - g[j].at >= BusyLife
  <2>1. CASE i = n
    BY <1>1, <1>2, <1>4, <2>1 DEF Follows
  <2>2. CASE i \in DOMAIN h
    <3>1. Refused(h, i) /\ h[i].request.to = Nothing /\ Cardinality(Refusals(h)) <= MaxBusy
      BY <1>2, <1>4, <2>2
    <3>2. CASE \E a \in DOMAIN h : Confirms(h, i, a)
      BY <1>2, <2>2, <3>2
    <3>3. CASE \E j \in DOMAIN h : h[j].request = h[i].request /\ now - h[j].at >= BusyLife
      BY <1>2, <2>2, <3>3
    <3>4. ASSUME NEW l \in DOMAIN b, b[l].key = Simulator!BusyKey(h[i].request), ~b[l].acknowledged
          PROVE  \/ \E a \in DOMAIN g : Confirms(g, i, a)
                 \/ \E k \in DOMAIN c : c[k].key = Simulator!BusyKey(g[i].request) /\ ~c[k].acknowledged
                 \/ \E j \in DOMAIN g : g[j].request = g[i].request /\ now - g[j].at >= BusyLife
      <4>1. PICK t : t = b[l]
        OBVIOUS
      <4>2. Stems(h, t) /\ t.key = Simulator!BusyKey(h[i].request) /\ ~t.acknowledged
        BY <1>3, <3>4, <4>1 DEF Table
      <4>3. /\ t.answer = h[i].answer /\ t.expires_at \in Nat
            /\ \E j \in DOMAIN h : h[j].request = h[i].request /\ t.expires_at = h[j].at + BusyLife
        <5>1. t.expires_at \in Nat
          BY <1>3, <2>2, <3>1, <4>2 DEF Stems
        <5> QED
          BY <1>3, <2>2, <3>1, <4>2, <5>1, EntryIs
      <4>4. CASE ~(now < t.expires_at)
        <5>1. PICK j \in DOMAIN h : h[j].request = h[i].request /\ t.expires_at = h[j].at + BusyLife
          BY <4>3
        <5>2. now - h[j].at >= BusyLife
          BY <1>2, <1>3, <4>4, <5>1, LifeIs
        <5> QED
          BY <1>2, <2>2, <5>1, <5>2
      <4>5. CASE now < t.expires_at /\ Reads(m) /\ Acks(m, t)
        <5>1. m.branch = h[i].request.branch
          <6>1. \A r : Simulator!BusyKey(r).branch = r.branch
            BY DEF Simulator!BusyKey
          <6>2. Simulator!BusyKey(h[i].request) = Simulator!BusyKey(m)
            BY <4>2, <4>5 DEF Acks
          <6> QED
            BY <6>1, <6>2
        <5>2. m.line = "ACK" /\ m.to = h[i].answer.to
          BY <4>3, <4>5 DEF Acks
        <5>3. Confirms(g, i, n)
          BY <1>2, <2>2, <4>5, <5>1, <5>2 DEF Confirms
        <5> QED
          BY <1>2, <5>3
      <4>6. CASE now < t.expires_at /\ ~(Reads(m) /\ Acks(m, t))
        <5>1. \E k \in DOMAIN c : c[k].key = t.key /\ c[k] = t
          BY <1>4, <4>1, <4>6 DEF Follows
        <5> QED
          BY <1>2, <2>2, <4>2, <5>1
      <4> QED
        BY <4>4, <4>5, <4>6
    <3> QED
      BY <2>2, <3>1, <3>2, <3>3, <3>4 DEF BusySound, Outstanding
  <2> QED
    BY <1>2, <2>1, <2>2
<1> QED
  BY <1>4 DEF Outstanding

\* That an ACK came is remembered after m as it was before, or m is the ACK.
LEMMA AcknowledgedStays ==
    ASSUME NEW which, NEW h, NEW b, NEW m, NEW answer, NEW now, NEW g, NEW c,
           Arrives(which, h, b, m, answer, now, g), BusySound(h, b, now),
           Follows(h, b, m, answer, g, c, now)
    PROVE  Acknowledged(g, c, now)
<1>1. PICK n : n = Len(g)
  OBVIOUS
<1>2. /\ n \in Nat /\ DOMAIN h = 1..(n - 1) /\ DOMAIN g = DOMAIN h \cup {n} /\ g[n].request = m
      /\ g[n].at = now
      /\ \A j \in DOMAIN h : j \in Nat /\ j < n /\ g[j] = h[j] /\ h[j].at \in Nat /\ j \in DOMAIN g
      /\ \A j \in DOMAIN h : Refused(g, j) <=> Refused(h, j)
      /\ \A i, a \in DOMAIN h : Timely(g, i, a) => Timely(h, i, a)
      /\ Cardinality(Refusals(g)) <= MaxBusy => Cardinality(Refusals(h)) <= MaxBusy
  <2>1. Earlier(h, m, answer, now, g, n)
    BY <1>1, Before
  <2> QED
    BY <2>1 DEF Earlier
<1>3. /\ which \in DOMAIN DeviceSends /\ m \in DeviceSends[which]
      /\ Heard(h, which) /\ Honest(h) /\ Table(h, b) /\ now \in Nat
  BY DEF Arrives
<1>4. ASSUME NEW i \in DOMAIN g, NEW a \in DOMAIN g, Timely(g, i, a),
             Cardinality(Refusals(g)) <= MaxBusy, ~(now - g[a].at >= AckLife)
      PROVE  \E l \in DOMAIN c : /\ c[l].key = Simulator!BusyKey(g[i].request)
                                 /\ c[l].acknowledged /\ c[l].expires_at >= g[a].at + AckLife
  <2>1. i \in DOMAIN h
    <3>1. i < a
      BY <1>4 DEF Timely, Confirms
    <3> QED
      BY <1>2, <3>1
  <2>2. Refused(h, i) /\ h[i].request.to = Nothing /\ Cardinality(Refusals(h)) <= MaxBusy
    BY <1>2, <1>4, <2>1 DEF Timely
  <2>3. CASE a = n
    <3>1. PICK r : r = h[i].request
      OBVIOUS
    <3>2. /\ m.line = "ACK" /\ Reads(m) /\ m.branch = r.branch /\ m.to = h[i].answer.to
          /\ r \in DeviceSends[which] /\ Reads(r) /\ r.line = "INVITE" /\ r.to = Nothing
      <4>1. m.line = "ACK" /\ Reads(m) /\ m.branch = r.branch /\ m.to = h[i].answer.to
        BY <1>2, <1>4, <2>1, <2>3, <3>1 DEF Timely, Confirms
      <4>2. r \in DeviceSends[which] /\ Reads(r) /\ r.line = "INVITE" /\ r.to = Nothing
        BY <1>3, <2>1, <2>2, <3>1 DEF Heard, Honest, Refused
      <4> QED
        BY <4>1, <4>2
    <3>3. Simulator!BusyKey(m) = Simulator!BusyKey(r)
      <4>1. m.uri = r.uri /\ m.from = r.from /\ m.call = r.call /\ m.cseq.number = r.cseq.number
        BY <1>3, <3>2, SameTransaction
      <4> QED
        BY <3>2, <4>1 DEF Simulator!BusyKey
    <3>4. ~\E k \in DOMAIN h : Confirms(h, i, k)
      <4> SUFFICES ASSUME NEW k \in DOMAIN h, Confirms(h, i, k) PROVE FALSE
        OBVIOUS
      <4>1. PICK q : q = h[k].request
        OBVIOUS
      <4>2. /\ q.line = "ACK" /\ Reads(q) /\ q.branch = m.branch /\ q.to = m.to /\ i < k
            /\ q \in DeviceSends[which]
        BY <1>3, <3>1, <3>2, <4>1 DEF Confirms, Heard
      <4>3. q = m
        BY <1>3, <3>2, <4>2, SameTransaction
      <4>4. k \in 1..(a - 1) /\ k > i /\ g[k].request = g[a].request
        BY <1>2, <2>1, <2>3, <4>1, <4>2, <4>3
      <4> QED
        BY <1>4, <4>4 DEF Timely
    <3>5. ~\E j \in DOMAIN h : h[j].request = h[i].request /\ now - h[j].at >= BusyLife
      <4> SUFFICES ASSUME NEW j \in DOMAIN h, h[j].request = h[i].request, now - h[j].at >= BusyLife
                   PROVE  FALSE
        OBVIOUS
      <4>1. j \in 1..(a - 1) /\ g[j].request = g[i].request /\ g[a].at - g[j].at >= BusyLife
        BY <1>2, <2>1, <2>3
      <4>2. g[a].at - g[j].at < BusyLife
        BY <1>4, <4>1 DEF Timely
      <4>3. g[a].at \in Nat /\ g[j].at \in Nat
        BY <1>2, <1>3, <2>3
      <4> QED
        BY <4>1, <4>2, <4>3, LifeIs
    <3>6. PICK k \in DOMAIN b : b[k].key = Simulator!BusyKey(h[i].request) /\ ~b[k].acknowledged
      BY <2>1, <2>2, <3>4, <3>5 DEF BusySound, Outstanding
    <3>7. PICK t : t = b[k]
      OBVIOUS
    <3>8. Stems(h, t) /\ t.key = Simulator!BusyKey(h[i].request) /\ ~t.acknowledged
      BY <1>3, <3>6, <3>7 DEF Table
    <3>9. /\ t.answer = h[i].answer /\ t.expires_at \in Nat
          /\ \E j \in DOMAIN h : h[j].request = h[i].request /\ t.expires_at = h[j].at + BusyLife
      <4>1. t.expires_at \in Nat
        BY <1>3, <2>1, <2>2, <3>8 DEF Stems
      <4> QED
        BY <1>3, <2>1, <2>2, <3>8, <4>1, EntryIs
    <3>10. now < t.expires_at
      <4>1. PICK j \in DOMAIN h : h[j].request = h[i].request /\ t.expires_at = h[j].at + BusyLife
        BY <3>9
      <4>2. ~(now - h[j].at >= BusyLife)
        BY <3>5, <4>1
      <4> QED
        BY <1>2, <1>3, <4>1, <4>2, LifeIs
    <3>11. Acks(m, t)
      BY <3>1, <3>2, <3>3, <3>8, <3>9 DEF Acks
    <3>12. PICK l \in DOMAIN c : c[l].key = t.key /\ c[l].acknowledged /\ c[l].expires_at = now + AckLife
      BY <1>4, <3>2, <3>7, <3>10, <3>11 DEF Follows
    <3>13. c[l].expires_at >= g[a].at + AckLife
      BY <1>2, <1>3, <2>3, <3>12, LifeIs
    <3> QED
      BY <1>2, <2>1, <3>8, <3>12, <3>13
  <2>4. CASE a \in DOMAIN h
    <3>1. Timely(h, i, a) /\ ~(now - h[a].at >= AckLife) /\ g[a] = h[a] /\ g[i] = h[i]
      BY <1>2, <1>4, <2>1, <2>4
    <3>2. PICK k \in DOMAIN b : /\ b[k].key = Simulator!BusyKey(h[i].request)
                                /\ b[k].acknowledged /\ b[k].expires_at >= h[a].at + AckLife
      BY <2>1, <2>2, <2>4, <3>1 DEF BusySound, Acknowledged
    <3>3. b[k].expires_at \in Nat /\ h[a].at \in Nat /\ h[a].at <= now
      BY <1>2, <1>3, <2>4 DEF BusySound, Past, Table, Stems
    <3>4. now < b[k].expires_at /\ now + AckLife >= h[a].at + AckLife
      BY <1>3, <3>1, <3>2, <3>3, LifeIs
    <3>5. CASE Reads(m) /\ Acks(m, b[k])
      <4>1. PICK l \in DOMAIN c : /\ c[l].key = b[k].key
                                  /\ c[l].acknowledged /\ c[l].expires_at = now + AckLife
        BY <1>4, <3>4, <3>5 DEF Follows
      <4> QED
        BY <3>1, <3>2, <3>4, <4>1
    <3>6. CASE ~(Reads(m) /\ Acks(m, b[k]))
      <4>1. PICK l \in DOMAIN c : c[l].key = b[k].key /\ c[l] = b[k]
        BY <1>4, <3>4, <3>6 DEF Follows
      <4> QED
        BY <3>1, <3>2, <4>1
    <3> QED
      BY <3>5, <3>6
  <2> QED
    BY <1>2, <2>3, <2>4
<1> QED
  BY <1>4 DEF Acknowledged

\* An INVITE that comes while its ACK is remembered is not answered.
LEMMA IsOverStays ==
    ASSUME NEW which, NEW h, NEW b, NEW m, NEW answer, NEW now, NEW g, NEW c,
           Arrives(which, h, b, m, answer, now, g), BusySound(h, b, now),
           Follows(h, b, m, answer, g, c, now)
    PROVE  IsOver(g)
<1>1. PICK n : n = Len(g)
  OBVIOUS
<1>2. /\ n \in Nat /\ DOMAIN g = DOMAIN h \cup {n} /\ g[n].request = m
      /\ g[n].at = now /\ g[n].answer = answer /\ DOMAIN h = 1..(n - 1)
      /\ \A j \in DOMAIN h : j \in Nat /\ j < n /\ g[j] = h[j] /\ h[j].at \in Nat
      /\ \A i, a \in DOMAIN h : Timely(g, i, a) => Timely(h, i, a)
      /\ Cardinality(Refusals(g)) <= MaxBusy => Cardinality(Refusals(h)) <= MaxBusy
  <2>1. Earlier(h, m, answer, now, g, n)
    BY <1>1, Before
  <2> QED
    BY <2>1 DEF Earlier
<1>3. /\ Heard(h, which) /\ Honest(h) /\ Table(h, b) /\ now \in Nat
  BY DEF Arrives
<1>4. ASSUME NEW i \in DOMAIN g, NEW a \in DOMAIN g, NEW k \in DOMAIN g, a < k, Timely(g, i, a),
             g[k].request = g[i].request, g[k].at - g[a].at < AckLife,
             Cardinality(Refusals(g)) <= MaxBusy
      PROVE  g[k].answer = Nothing
  <2>1. a \in DOMAIN h /\ i \in DOMAIN h
    <3>1. i < a
      BY <1>4 DEF Timely, Confirms
    <3> QED
      BY <1>2, <1>4, <3>1
  <2>2. Timely(h, i, a) /\ Cardinality(Refusals(h)) <= MaxBusy /\ g[i] = h[i] /\ g[a] = h[a]
    BY <1>2, <1>4, <2>1
  <2>3. CASE k \in DOMAIN h
    <3>1. g[k] = h[k]
      BY <1>2, <2>3
    <3> QED
      BY <1>4, <2>1, <2>2, <2>3, <3>1 DEF BusySound, IsOver
  <2>4. CASE k = n
    <3>1. ~(now - h[a].at >= AckLife)
      BY <1>2, <1>3, <1>4, <2>1, <2>2, <2>4, LifeIs
    <3>2. PICK l \in DOMAIN b : /\ b[l].key = Simulator!BusyKey(h[i].request)
                                /\ b[l].acknowledged /\ b[l].expires_at >= h[a].at + AckLife
      BY <2>1, <2>2, <3>1 DEF BusySound, Acknowledged
    <3>3. b[l].expires_at \in Nat /\ h[a].at \in Nat
      BY <1>2, <1>3, <2>1 DEF Table, Stems
    <3>4. now < b[l].expires_at
      BY <1>3, <3>1, <3>2, <3>3, LifeIs
    <3>5. m = h[i].request /\ Reads(m) /\ m.line = "INVITE"
      BY <1>2, <1>3, <1>4, <2>1, <2>2, <2>4 DEF Timely, Honest, Refused
    <3>6. answer = Nothing
      BY <3>2, <3>4, <3>5 DEF Follows
    <3> QED
      BY <1>2, <2>4, <3>6
  <2> QED
    BY <1>2, <2>3, <2>4
<1> QED
  BY <1>4 DEF IsOver

LEMMA BusySoundStays ==
    ASSUME NEW which, NEW h, NEW b, NEW m, NEW answer, NEW now, NEW g, NEW c,
           Arrives(which, h, b, m, answer, now, g), BusySound(h, b, now),
           Follows(h, b, m, answer, g, c, now)
    PROVE  BusySound(g, c, now)
<1>1. PICK n : n = Len(g)
  OBVIOUS
<1>2. /\ DOMAIN g = DOMAIN h \cup {n} /\ g[n].request = m /\ g[n].at = now /\ g[n].answer = answer
      /\ \A j \in DOMAIN h : g[j] = h[j] /\ j \in DOMAIN g
      /\ \A j \in DOMAIN h : Refused(g, j) <=> Refused(h, j)
      /\ \A j \in DOMAIN h : Cancelled(g, j) <=> Cancelled(h, j)
  <2>1. Earlier(h, m, answer, now, g, n)
    BY <1>1, Before
  <2> QED
    BY <2>1 DEF Earlier
<1>3. now \in Nat
  BY DEF Arrives
<1>4. Honest(g)
  <2>1. ASSUME NEW j \in DOMAIN g, Refused(g, j)
        PROVE  Reads(g[j].request) /\ g[j].answer = Simulator!Response(g[j].request, 486)
    <3>1. CASE j = n
      BY <1>1, <1>2, <2>1, <3>1 DEF Follows
    <3>2. CASE j \in DOMAIN h
      BY <1>2, <2>1, <3>2 DEF BusySound, Honest
    <3> QED
      BY <1>2, <3>1, <3>2
  <2> QED
    BY <2>1 DEF Honest
<1>5. Joined(g)
  <2>1. ASSUME NEW k \in DOMAIN g, Cancelled(g, k)
        PROVE  \E j \in DOMAIN g : /\ Refused(g, j) /\ g[j].request.branch = g[k].request.branch
                                   /\ g[k].answer.to = g[j].answer.to
    <3>1. CASE k = n
      <4>1. PICK j \in DOMAIN h : /\ Refused(h, j) /\ h[j].request.branch = m.branch
                                  /\ answer.to = h[j].answer.to
        BY <1>1, <2>1, <3>1 DEF Follows
      <4> QED
        BY <1>2, <3>1, <4>1
    <3>2. CASE k \in DOMAIN h
      <4>1. PICK j \in DOMAIN h : /\ Refused(h, j) /\ h[j].request.branch = h[k].request.branch
                                  /\ h[k].answer.to = h[j].answer.to
        BY <1>2, <2>1, <3>2 DEF BusySound, Joined
      <4> QED
        BY <1>2, <3>2, <4>1
    <3> QED
      BY <1>2, <3>1, <3>2
  <2> QED
    BY <2>1 DEF Joined
<1>6. Past(g, now)
  BY <1>2, <1>3 DEF BusySound, Past
<1>7. Table(g, c)
  BY DEF Follows
<1> QED
  BY <1>4, <1>5, <1>6, <1>7, OutstandingStays, AcknowledgedStays, IsOverStays DEF BusySound

\* Time passes.
LEMMA BusySoundWaits ==
    ASSUME NEW which, NEW h, Heard(h, which), NEW b, NEW now \in Nat, NEW later \in Nat, now <= later,
           BusySound(h, b, now)
    PROVE  BusySound(h, b, later)
<1>1. \A j \in DOMAIN h : h[j].at \in Nat
  BY DEF Heard
<1>2. Past(h, later)
  BY <1>1 DEF BusySound, Past
<1>3. \A j \in DOMAIN h, l \in Nat : now - h[j].at >= l => later - h[j].at >= l
  BY <1>1
<1>4. Outstanding(h, b, later)
  BY <1>3, LifeIs DEF BusySound, Outstanding
<1>5. Acknowledged(h, b, later)
  BY <1>3, LifeIs DEF BusySound, Acknowledged
<1> QED
  BY <1>2, <1>4, <1>5 DEF BusySound

-----------------------------------------------------------------------------
\* A REGISTER that was accepted, ...
Accepted(h, k) ==
    h[k].answer # Nothing /\ h[k].request.line = "REGISTER" /\ h[k].answer.status = 200

\* and has an effect.
Effective(h, k) ==
    /\ Accepted(h, k)
    /\ ~\E j \in 1..(k - 1) : /\ h[j].request = h[k].request /\ Accepted(h, j)
                              /\ h[k].at - h[j].at < CacheLife

Client(h, k) == h[k].request.register.auth.client
Count(h, k)  == h[k].request.register.auth.count

Rises(h) ==
    \A j, k \in DOMAIN h :
        j < k /\ Effective(h, j) /\ Effective(h, k) /\ Client(h, j) = Client(h, k)
        => Count(h, j) < Count(h, k)

\* The inductive invariant of the registrar: each count that had an effect is
\* below the one it knows, and what it remembers was accepted.
RegistrarSound(h, r) ==
    /\ r = [bindings |-> r.bindings, counts |-> r.counts, cache |-> r.cache]
    /\ \A c \in DOMAIN r.counts : r.counts[c] \in Nat
    /\ \A j \in DOMAIN h : Effective(h, j) =>
          /\ Client(h, j) \in DOMAIN r.counts /\ Count(h, j) \in Nat
          /\ Count(h, j) <= r.counts[Client(h, j)]
    /\ \A d \in DOMAIN r.cache : \E j \in DOMAIN h :
          h[j].request = d /\ Accepted(h, j) /\ h[j].at = r.cache[d].at
    /\ Rises(h)

\* What the registrar makes of r when m arrives, and what of its answer.
Registers(r, m, answer, s, now) ==
    /\ s = [bindings |-> s.bindings, counts |-> s.counts, cache |-> s.cache]
    /\ \A c \in DOMAIN s.counts : s.counts[c] \in Nat
    /\ \A c \in DOMAIN r.counts : c \in DOMAIN s.counts /\ r.counts[c] <= s.counts[c]
    /\ answer # Nothing /\ m.line = "REGISTER" /\ answer.status = 200 =>
          \/ m \in DOMAIN r.cache /\ now - r.cache[m].at < CacheLife
          \/ /\ m.register.auth.client \in DOMAIN s.counts /\ m.register.auth.count \in Nat
             /\ s.counts[m.register.auth.client] = m.register.auth.count
             /\ m.register.auth.client \in DOMAIN r.counts
                   => r.counts[m.register.auth.client] < m.register.auth.count
    /\ \A d \in DOMAIN s.cache :
          \/ d \in DOMAIN r.cache /\ s.cache[d].at = r.cache[d].at
          \/ /\ d = m /\ s.cache[d].at = now
             /\ answer # Nothing /\ m.line = "REGISTER" /\ answer.status = 200

\* What of the registrar is current.
LEMMA CurrentIs ==
    ASSUME NEW r, r = [bindings |-> r.bindings, counts |-> r.counts, cache |-> r.cache], NEW now,
           NEW c, c = Simulator!Current(r, now)
    PROVE  /\ c = [bindings |-> c.bindings, counts |-> c.counts, cache |-> c.cache]
           /\ c.counts = r.counts
           /\ \A d \in DOMAIN c.cache : /\ d \in DOMAIN r.cache /\ c.cache[d] = r.cache[d]
                                        /\ now - r.cache[d].at < CacheLife
BY DEF Simulator!Current, Simulator!Where

\* RespondRegistrar, in each of its cases.
LEMMA RegistrarFollows ==
    ASSUME NEW which \in DOMAIN DeviceSends, NEW m \in DeviceSends[which], NEW h, NEW r,
           RegistrarSound(h, r), NEW now \in Nat,
           NEW x, x = Simulator!RespondRegistrar(r, m, now)
    PROVE  Registers(r, m, x.answer, x.state, now)
<1>1. PICK c : c = Simulator!Current(r, now)
  OBVIOUS
<1>2. /\ c = [bindings |-> c.bindings, counts |-> c.counts, cache |-> c.cache]
      /\ c.counts = r.counts
      /\ \A d \in DOMAIN c.cache : /\ d \in DOMAIN r.cache /\ c.cache[d] = r.cache[d]
                                   /\ now - r.cache[d].at < CacheLife
  BY <1>1, CurrentIs DEF RegistrarSound
<1>3. /\ r = [bindings |-> r.bindings, counts |-> r.counts, cache |-> r.cache]
      /\ \A e \in DOMAIN r.counts : r.counts[e] \in Nat
  BY DEF RegistrarSound
<1>4. \A state, a : /\ Simulator!Result(state, a).state = state
                    /\ Simulator!Result(state, a).answer = a
  BY DEF Simulator!Result
<1>5. \A e \in DOMAIN r.counts : r.counts[e] <= r.counts[e]
  BY <1>3
<1>6. {"line", "status", "sdp", "to", "register"} \subseteq DOMAIN m
  BY Fields
<1>7. CASE m.line # "REGISTER"
  <2>1. x = Simulator!Result(r, Nothing)
    BY <1>7 DEF Simulator!RespondRegistrar
  <2>2. x.state = r /\ x.answer = Nothing
    BY <1>4, <2>1
  <2> QED
    BY <1>3, <1>5, <2>2 DEF Registers
<1>8. CASE m.line = "REGISTER" /\ m \in DOMAIN c.cache
  <2>1. x = Simulator!Result(c, c.cache[m].answer)
    BY <1>1, <1>8 DEF Simulator!RespondRegistrar
  <2>2. x.state = c
    BY <1>4, <2>1
  <2> QED
    BY <1>2, <1>3, <1>5, <1>8, <2>2 DEF Registers
<1> DEFINE auth == m.register.auth
<1>9. CASE m.line = "REGISTER" /\ m \notin DOMAIN c.cache /\ ~Simulator!authenticated(c, auth)
  <2>1. x = Simulator!Result(c, Simulator!Response(m, 401))
    BY <1>1, <1>9 DEF Simulator!RespondRegistrar
  <2>2. x.state = c /\ x.answer = Simulator!Response(m, 401)
    BY <1>4, <2>1
  <2>3. x.answer # Nothing => x.answer.status = 401
    BY <1>6, <2>2, ResponseIs
  <2> QED
    BY <1>2, <1>3, <1>5, <2>2, <2>3 DEF Registers
<1>10. CASE m.line = "REGISTER" /\ m \notin DOMAIN c.cache /\ Simulator!authenticated(c, auth)
  <2>1. PICK client, count : client = auth.client /\ count = auth.count
    OBVIOUS
  <2>2. count \in Nat /\ (client \in DOMAIN r.counts => r.counts[client] < count)
    <3>1. auth # Nothing /\ (client \in DOMAIN c.counts => count > c.counts[client])
      BY <1>10, <2>1 DEF Simulator!authenticated
    <3>2. count \in Nat
      BY <1>10, <2>1, <3>1, DeviceAssumption
    <3> QED
      BY <1>2, <1>3, <3>1, <3>2
  <2>3. PICK u : u = [c EXCEPT !.counts = Simulator!Put(@, client, count)]
    OBVIOUS
  <2>4. /\ u = [bindings |-> u.bindings, counts |-> u.counts, cache |-> u.cache]
        /\ u.cache = c.cache /\ u.counts = Simulator!Put(r.counts, client, count)
    BY <1>2, <2>3
  <2>5. /\ DOMAIN u.counts = DOMAIN r.counts \cup {client} /\ u.counts[client] = count
        /\ \A e \in DOMAIN r.counts : e # client => u.counts[e] = r.counts[e]
    BY <2>4 DEF Simulator!Put
  <2>6. \A e \in DOMAIN u.counts : u.counts[e] \in Nat
    BY <1>3, <2>2, <2>5
  <2>7. \A e \in DOMAIN r.counts : e \in DOMAIN u.counts /\ r.counts[e] <= u.counts[e]
    BY <1>3, <2>2, <2>5
  <2>8. CASE m.aor = Nothing
    <3>1. x = Simulator!Result(u, Nothing)
      BY <1>1, <1>10, <2>1, <2>3, <2>8 DEF Simulator!RespondRegistrar
    <3>2. x.state = u /\ x.answer = Nothing
      BY <1>4, <3>1
    <3> QED
      BY <1>2, <2>4, <2>6, <2>7, <3>2 DEF Registers
  <2>9. CASE m.aor # Nothing /\ Simulator!Malformed(m.register)
    <3>1. x = Simulator!Result(u, Simulator!Response(m, 400))
      BY <1>1, <1>10, <2>1, <2>3, <2>9 DEF Simulator!RespondRegistrar
    <3>2. x.state = u /\ x.answer = Simulator!Response(m, 400)
      BY <1>4, <3>1
    <3>3. x.answer # Nothing => x.answer.status = 400
      BY <1>6, <3>2, ResponseIs
    <3> QED
      BY <1>2, <2>4, <2>6, <2>7, <3>2, <3>3 DEF Registers
  <2>10. CASE m.aor # Nothing /\ ~Simulator!Malformed(m.register)
    <3>1. x = Simulator!Accept(u, m, now)
      BY <1>1, <1>10, <2>1, <2>3, <2>10 DEF Simulator!RespondRegistrar
    <3>2. PICK bindings : bindings = Simulator!Rebound(u.bindings, m, now)
      OBVIOUS
    <3>3. PICK q : q = [m EXCEPT !.register =
                           IF m.aor \in DOMAIN bindings
                           THEN [contact |-> bindings[m.aor].contact,
                                 remaining |-> bindings[m.aor].expires_at - now]
                           ELSE Nothing]
      OBVIOUS
    <3>4. PICK answer : answer = Simulator!Response(q, 200)
      OBVIOUS
    <3>5. PICK room : room = IF Simulator!Cardinality(DOMAIN u.cache) >= MaxCached
                             THEN [d \in {} |-> Nothing] ELSE u.cache
      OBVIOUS
    <3>6. PICK s : s = [u EXCEPT !.bindings = bindings,
                                 !.cache = IF answer = Nothing THEN @
                                           ELSE Simulator!Put(room, m, [answer |-> answer, at |-> now])]
      OBVIOUS
    <3>7. x = Simulator!Result(s, answer)
      BY <3>1, <3>2, <3>3, <3>4, <3>5, <3>6 DEF Simulator!Accept
    <3>8. x.state = s /\ x.answer = answer
      BY <1>4, <3>7
    <3>9. answer # Nothing => answer.status = 200
      BY <1>6, <3>3, <3>4, ResponseIs
    <3>10. /\ s = [bindings |-> s.bindings, counts |-> s.counts, cache |-> s.cache]
           /\ s.counts = u.counts
           /\ s.cache = IF answer = Nothing THEN u.cache
                        ELSE Simulator!Put(room, m, [answer |-> answer, at |-> now])
      BY <2>4, <3>6
    <3>11. \A d \in DOMAIN s.cache :
              \/ d \in DOMAIN r.cache /\ s.cache[d].at = r.cache[d].at
              \/ d = m /\ s.cache[d].at = now /\ answer # Nothing
      <4>1. \A d \in DOMAIN room : d \in DOMAIN u.cache /\ room[d] = u.cache[d]
        BY <3>5
      <4>2. \A d \in DOMAIN u.cache : d \in DOMAIN r.cache /\ u.cache[d].at = r.cache[d].at
        BY <1>2, <2>4
      <4>3. CASE answer = Nothing
        BY <3>10, <4>2, <4>3
      <4>4. CASE answer # Nothing
        <5>1. s.cache = Simulator!Put(room, m, [answer |-> answer, at |-> now])
          BY <3>10, <4>4
        <5>2. /\ DOMAIN s.cache = DOMAIN room \cup {m} /\ s.cache[m].at = now
              /\ \A d \in DOMAIN room : d # m => s.cache[d] = room[d]
          BY <5>1 DEF Simulator!Put
        <5> QED
          BY <4>1, <4>2, <4>4, <5>2
      <4> QED
        BY <4>3, <4>4
    <3>12. /\ m.register.auth.client \in DOMAIN s.counts /\ m.register.auth.count \in Nat
           /\ s.counts[m.register.auth.client] = m.register.auth.count
           /\ m.register.auth.client \in DOMAIN r.counts
                 => r.counts[m.register.auth.client] < m.register.auth.count
      BY <2>1, <2>2, <2>5, <3>10
    <3> QED
      BY <1>10, <2>6, <2>7, <3>8, <3>9, <3>10, <3>11, <3>12 DEF Registers
  <2> QED
    BY <2>8, <2>9, <2>10
<1> QED
  BY <1>7, <1>8, <1>9, <1>10

LEMMA RegistrarSoundStays ==
    ASSUME NEW which, NEW h, NEW b, NEW m, NEW answer, NEW now, NEW g,
           Arrives(which, h, b, m, answer, now, g), NEW r, RegistrarSound(h, r),
           NEW s, Registers(r, m, answer, s, now)
    PROVE  RegistrarSound(g, s)
<1>1. PICK n : n = Len(g)
  OBVIOUS
<1>2. /\ n \in Nat /\ n \in DOMAIN g /\ DOMAIN h = 1..(n - 1) /\ DOMAIN g = DOMAIN h \cup {n}
      /\ g[n].request = m /\ g[n].answer = answer /\ g[n].at = now
      /\ \A j \in DOMAIN h : j \in Nat /\ j < n /\ g[j] = h[j] /\ j \in DOMAIN g
  <2>1. Earlier(h, m, answer, now, g, n)
    BY <1>1, Before
  <2> QED
    BY <2>1 DEF Earlier
<1>3. \A j \in DOMAIN h : /\ Accepted(g, j) <=> Accepted(h, j)
                          /\ Client(g, j) = Client(h, j) /\ Count(g, j) = Count(h, j)
  BY <1>2 DEF Accepted, Client, Count
<1>4. ASSUME NEW j \in DOMAIN h, Effective(g, j) PROVE Effective(h, j)
  <2>1. \A i \in 1..(j - 1) : i \in DOMAIN h
    BY <1>2
  <2> QED
    BY <1>2, <1>3, <1>4, <2>1 DEF Effective
<1>5. ASSUME NEW d \in DOMAIN s.cache
      PROVE  \E j \in DOMAIN g : g[j].request = d /\ Accepted(g, j) /\ g[j].at = s.cache[d].at
  <2>1. CASE d \in DOMAIN r.cache /\ s.cache[d].at = r.cache[d].at
    <3>1. PICK j \in DOMAIN h : h[j].request = d /\ Accepted(h, j) /\ h[j].at = r.cache[d].at
      BY <2>1 DEF RegistrarSound
    <3> QED
      BY <1>2, <1>3, <2>1, <3>1
  <2>2. CASE /\ d = m /\ s.cache[d].at = now
             /\ answer # Nothing /\ m.line = "REGISTER" /\ answer.status = 200
    BY <1>2, <2>2 DEF Accepted
  <2> QED
    BY <2>1, <2>2 DEF Registers
<1>6. ASSUME Effective(g, n)
      PROVE  /\ Client(g, n) \in DOMAIN s.counts /\ Count(g, n) \in Nat
             /\ s.counts[Client(g, n)] = Count(g, n)
             /\ Client(g, n) \in DOMAIN r.counts => r.counts[Client(g, n)] < Count(g, n)
  <2>1. answer # Nothing /\ m.line = "REGISTER" /\ answer.status = 200
    BY <1>2, <1>6 DEF Effective, Accepted
  <2>2. ~(m \in DOMAIN r.cache /\ now - r.cache[m].at < CacheLife)
    <3> SUFFICES ASSUME m \in DOMAIN r.cache, now - r.cache[m].at < CacheLife PROVE FALSE
      OBVIOUS
    <3>1. PICK j \in DOMAIN h : h[j].request = m /\ Accepted(h, j) /\ h[j].at = r.cache[m].at
      BY DEF RegistrarSound
    <3>2. j \in 1..(n - 1) /\ g[j].request = g[n].request /\ Accepted(g, j) /\ g[n].at - g[j].at < CacheLife
      BY <1>2, <1>3, <3>1
    <3> QED
      BY <1>6, <3>2 DEF Effective
  <2> QED
    BY <1>2, <2>1, <2>2 DEF Registers, Client, Count
<1>7. ASSUME NEW j \in DOMAIN g, Effective(g, j)
      PROVE  /\ Client(g, j) \in DOMAIN s.counts /\ Count(g, j) \in Nat
             /\ Count(g, j) <= s.counts[Client(g, j)]
  <2>1. CASE j = n
    BY <1>6, <1>7, <2>1
  <2>2. CASE j \in DOMAIN h
    <3>1. /\ Client(h, j) \in DOMAIN r.counts /\ Count(h, j) \in Nat
          /\ Count(h, j) <= r.counts[Client(h, j)]
      BY <1>4, <1>7, <2>2 DEF RegistrarSound
    <3>2. PICK k : k = Client(h, j)
      OBVIOUS
    <3>3. k \in DOMAIN s.counts /\ r.counts[k] <= s.counts[k] /\ r.counts[k] \in Nat /\ s.counts[k] \in Nat
      BY <3>1, <3>2 DEF Registers, RegistrarSound
    <3> QED
      BY <1>3, <2>2, <3>1, <3>2, <3>3
  <2> QED
    BY <1>2, <2>1, <2>2
<1>8. Rises(g)
  <2>1. ASSUME NEW j \in DOMAIN g, NEW k \in DOMAIN g, j < k, Effective(g, j), Effective(g, k),
               Client(g, j) = Client(g, k)
        PROVE  Count(g, j) < Count(g, k)
    <3>1. j \in DOMAIN h
      BY <1>2, <2>1
    <3>2. CASE k \in DOMAIN h
      BY <1>3, <1>4, <2>1, <3>1, <3>2 DEF RegistrarSound, Rises
    <3>3. CASE k = n
      <4>1. /\ Client(h, j) \in DOMAIN r.counts /\ Count(h, j) \in Nat
            /\ Count(h, j) <= r.counts[Client(h, j)] /\ r.counts[Client(h, j)] \in Nat
        BY <1>4, <2>1, <3>1 DEF RegistrarSound
      <4>2. r.counts[Client(h, j)] < Count(g, n) /\ Count(g, n) \in Nat
        BY <1>3, <1>6, <2>1, <3>1, <3>3, <4>1
      <4> QED
        BY <1>3, <3>1, <3>3, <4>1, <4>2
    <3> QED
      BY <1>2, <3>2, <3>3
  <2> QED
    BY <2>1 DEF Rises
<1> QED
  BY <1>5, <1>7, <1>8 DEF RegistrarSound, Registers

-----------------------------------------------------------------------------
\* While a scenario serves, its history and its state are as they should be.
Sound ==
    /\ clock \in Nat
    /\ scene # "serve" => served = <<>>
    /\ scene = "serve" =>
          /\ scenario \in DOMAIN DeviceSends /\ Heard(served, scenario) /\ Engine(scenario, engine)
          /\ BusySound(served, engine.busy, clock) /\ RegistrarSound(served, engine.registrar)

LEMMA SoundInit == InitD => Sound
<1> SUFFICES ASSUME InitD PROVE Sound
  OBVIOUS
<1>1. /\ clock = 0 /\ served = <<>>
      /\ scene = "serve" => scenario \in DOMAIN DeviceSends /\ engine = Simulator!NewEngine
  BY DEF InitD, InitT, InitWatch, InitServe, Elsewhere, Unwatched
<1>2. ASSUME scene = "serve"
      PROVE  /\ Heard(served, scenario) /\ Engine(scenario, engine)
             /\ BusySound(served, engine.busy, clock) /\ RegistrarSound(served, engine.registrar)
  <2>1. engine.busy = <<>> /\ Engine(scenario, engine)
    BY <1>1, <1>2 DEF Simulator!NewEngine, Simulator!NewBusy, Engine
  <2>2. RegistrarSound(served, engine.registrar)
    <3>1. PICK r : r = engine.registrar
      OBVIOUS
    <3>2. /\ r = [bindings |-> r.bindings, counts |-> r.counts, cache |-> r.cache]
          /\ ~\E c \in DOMAIN r.counts : TRUE
          /\ ~\E d \in DOMAIN r.cache : TRUE
      BY <1>1, <1>2, <3>1 DEF Simulator!NewEngine, Simulator!NewRegistrar
    <3> QED
      BY <1>1, <3>1, <3>2 DEF RegistrarSound, Rises
  <2>3. Len(<<>>) = 0 /\ DOMAIN <<>> = {} /\ 1..0 = {} /\ \A S : <<>> \in Seq(S)
    OBVIOUS
  <2>4. Heard(served, scenario)
    BY <1>1, <2>3 DEF Heard
  <2>5. Table(served, engine.busy)
    BY <2>1, <2>3 DEF Table, Separate
  <2>6. /\ Honest(served) /\ Joined(served) /\ Past(served, clock)
        /\ Outstanding(served, engine.busy, clock) /\ Acknowledged(served, engine.busy, clock)
        /\ IsOver(served)
    BY <1>1, <2>3 DEF Honest, Joined, Past, Outstanding, Acknowledged, IsOver
  <2> QED
    BY <2>1, <2>2, <2>4, <2>5, <2>6 DEF BusySound
<1> QED
  BY <1>1, <1>2 DEF Sound

\* Only Serve and Pause touch the engine, and no other step is made while it
\* serves.
LEMMA EngineSteps ==
    ASSUME [NextD]_desktopVars
    PROVE  \/ \E m \in DeviceSends[scenario] : Serve(m)
           \/ \E s \in Pauses : Pause(s)
           \/ /\ UNCHANGED <<scenario, engine, clock, served>>
              /\ scene' = "serve" <=> scene = "serve"
<1> USE DEF desktopVars, traceVars
<1>1. CASE NextT /\ UNCHANGED <<hostVars, probeVars>>
  <2>1. CASE \E fate \in {"once", "twice", "late", "never"}, guess \in Ages(sent + 1),
                skip \in Ages(sent + 1) : Watch(fate, guess, skip)
    BY <2>1 DEF Watch
  <2>2. CASE \E i \in late : \E guess \in Ages(i), skip \in Ages(i) : Release(i, guess, skip)
    BY <2>2 DEF Release
  <2>3. CASE \E m \in Requestable : Serve(m)
    BY <2>3 DEF Requestable
  <2>4. CASE \E s \in Pauses : Pause(s)
    BY <2>4
  <2>5. CASE \E call \in Calls, source \in Sources : Plan(call, source)
    BY <2>5 DEF Plan
  <2>6. CASE Next /\ UNCHANGED traceVars
    BY <2>6
  <2> QED
    BY <1>1, <2>1, <2>2, <2>3, <2>4, <2>5, <2>6 DEF NextT
<1>2. CASE UNCHANGED traceVars
  BY <1>2
<1> QED
  BY <1>1, <1>2 DEF NextD

LEMMA SoundStep == Sound /\ [NextD]_desktopVars => Sound'
<1> SUFFICES ASSUME Sound, [NextD]_desktopVars PROVE Sound'
  OBVIOUS
<1>1. CASE /\ UNCHANGED <<scenario, engine, clock, served>>
           /\ scene' = "serve" <=> scene = "serve"
  <2>1. scene # "serve" => Sound'
    BY <1>1 DEF Sound
  <2>2. scene = "serve" => Sound'
    <3>1. \A b : /\ BusySound(served, b, clock) <=> BusySound(served', b, clock')
                 /\ RegistrarSound(served, b) <=> RegistrarSound(served', b)
      BY <1>1
    <3> QED
      BY <1>1, <3>1 DEF Sound
  <2> QED
    BY <2>1, <2>2
<1>2. ASSUME NEW s \in Pauses, Pause(s) PROVE Sound'
  <2>1. /\ scene = "serve" /\ scene' = "serve" /\ clock' = clock + s
        /\ scenario' = scenario /\ engine' = engine /\ served' = served
    BY <1>2 DEF Pause
  <2>2. clock \in Nat /\ clock' \in Nat /\ clock <= clock'
    BY <2>1, TraceAssumption DEF Sound
  <2>3. /\ Heard(served, scenario) /\ BusySound(served, engine.busy, clock)
        /\ RegistrarSound(served, engine.registrar) /\ Engine(scenario, engine)
        /\ scenario \in DOMAIN DeviceSends
    BY <2>1 DEF Sound
  <2>4. PICK later \in Nat : later = clock'
    BY <2>2
  <2>5. BusySound(served, engine.busy, later)
    BY <2>2, <2>3, <2>4, BusySoundWaits
  <2> QED
    BY <2>1, <2>2, <2>3, <2>4, <2>5 DEF Sound
<1>3. ASSUME NEW m \in DeviceSends[scenario], Serve(m) PROVE Sound'
  <2>1. PICK x : x = Simulator!handle(scenario, engine, m, clock)
    OBVIOUS
  <2>2. PICK answer : answer = x.answer
    OBVIOUS
  <2>3. PICK g : g = Append(served, [request |-> m, answer |-> answer, at |-> clock])
    OBVIOUS
  <2>4. /\ scene = "serve" /\ scene' = "serve" /\ scenario' = scenario /\ clock' = clock
        /\ engine' = x.state /\ served' = g
    BY <1>3, <2>1, <2>2, <2>3 DEF Serve
  <2>5. /\ scenario \in DOMAIN DeviceSends /\ Heard(served, scenario) /\ Engine(scenario, engine)
        /\ BusySound(served, engine.busy, clock) /\ RegistrarSound(served, engine.registrar)
        /\ clock \in Nat
    BY <2>4 DEF Sound
  <2>6. Heard(g, scenario) /\ Extends(g, served, m, answer, clock)
    BY <2>3, <2>5, AppendExtends
  <2>7. Arrives(scenario, served, engine.busy, m, answer, clock, g)
    BY <2>5, <2>6 DEF Arrives, BusySound
  <2>8. Follows(served, engine.busy, m, answer, g, x.state.busy, clock) /\ Engine(scenario, x.state)
    BY <2>1, <2>2, <2>5, <2>7, HandleFollows
  <2>9. BusySound(g, x.state.busy, clock)
    BY <2>5, <2>7, <2>8, BusySoundStays
  <2>10. Registers(engine.registrar, m, answer, x.state.registrar, clock)
    <3>1. \A state, a : /\ Simulator!Result(state, a).state = state
                        /\ Simulator!Result(state, a).answer = a
      BY DEF Simulator!Result
    <3>2. CASE m.parses /\ m.line # "OPTIONS" /\ scenario \notin {"options", "busy"}
      <4>1. PICK y : y = Simulator!RespondRegistrar(engine.registrar, m, clock)
        OBVIOUS
      <4>2. x = Simulator!Result([engine EXCEPT !.registrar = y.state], y.answer)
        BY <2>1, <3>2, <4>1 DEF Simulator!handle
      <4>3. x.state = [engine EXCEPT !.registrar = y.state] /\ answer = y.answer
        BY <2>2, <3>1, <4>2
      <4>4. x.state.registrar = y.state
        BY <2>5, <4>3 DEF Engine
      <4> QED
        BY <2>5, <4>1, <4>3, <4>4, RegistrarFollows
    <3>3. CASE ~(m.parses /\ m.line # "OPTIONS" /\ scenario \notin {"options", "busy"})
      <4>1. x.state.registrar = engine.registrar
        <5>1. CASE ~m.parses \/ m.line = "OPTIONS" \/ scenario = "options"
          <6>1. x.state = engine
            BY <2>1, <3>1, <5>1 DEF Simulator!handle
          <6> QED
            BY <6>1
        <5>2. CASE m.parses /\ m.line # "OPTIONS" /\ scenario = "busy"
          <6>1. PICK y : y = Simulator!RespondBusy(engine.busy, m, clock)
            OBVIOUS
          <6>2. x = Simulator!Result([engine EXCEPT !.busy = y.state], y.answer)
            BY <2>1, <5>2, <6>1 DEF Simulator!handle
          <6>3. x.state = [engine EXCEPT !.busy = y.state]
            BY <3>1, <6>2
          <6> QED
            BY <2>5, <6>3 DEF Engine
        <5> QED
          BY <3>3, <5>1, <5>2
      <4>2. ~(answer # Nothing /\ m.line = "REGISTER" /\ answer.status = 200)
        <5>1. CASE ~m.parses
          <6>1. x = Simulator!Result(engine, Nothing)
            BY <2>1, <5>1 DEF Simulator!handle
          <6> QED
            BY <2>2, <3>1, <6>1
        <5>2. CASE m.parses /\ m.line = "REGISTER" /\ scenario = "options"
          <6>1. x = Simulator!Result(engine, Nothing)
            BY <2>1, <5>2 DEF Simulator!handle
          <6> QED
            BY <2>2, <3>1, <6>1
        <5>3. CASE m.parses /\ m.line = "REGISTER" /\ scenario = "busy"
          <6>1. PICK y : y = Simulator!RespondBusy(engine.busy, m, clock)
            OBVIOUS
          <6>2. x = Simulator!Result([engine EXCEPT !.busy = y.state], y.answer)
            BY <2>1, <5>3, <6>1 DEF Simulator!handle
          <6>3. y = Simulator!Result(engine.busy, Nothing)
            BY <5>3, <6>1 DEF Simulator!RespondBusy
          <6> QED
            BY <2>2, <3>1, <6>2, <6>3
        <5> QED
          BY <3>3, <5>1, <5>2, <5>3
      <4>3. PICK r : r = engine.registrar
        OBVIOUS
      <4>4. /\ r = [bindings |-> r.bindings, counts |-> r.counts, cache |-> r.cache]
            /\ \A c \in DOMAIN r.counts : r.counts[c] \in Nat
        BY <2>5, <4>3 DEF RegistrarSound
      <4>5. \A c \in DOMAIN r.counts : r.counts[c] <= r.counts[c]
        BY <4>4
      <4> QED
        BY <4>1, <4>2, <4>3, <4>4, <4>5 DEF Registers
    <3> QED
      BY <3>2, <3>3
  <2>11. RegistrarSound(g, x.state.registrar)
    BY <2>5, <2>7, <2>10, RegistrarSoundStays
  <2> QED
    BY <2>4, <2>5, <2>6, <2>8, <2>9, <2>11 DEF Sound
<1> QED
  BY <1>1, <1>2, <1>3, EngineSteps

LEMMA SoundIsSound == Sound => SimulatorIsSound
<1> SUFFICES ASSUME Sound PROVE SimulatorIsSound
  OBVIOUS
<1>1. CASE scene # "serve"
  <2>1. DOMAIN served = {}
    BY <1>1 DEF Sound
  <2> QED
    BY <2>1 DEF SimulatorIsSound, CountsRise, CancelAnswersFit, AcknowledgedIsOver
<1>2. CASE scene = "serve"
  <2>1. /\ scenario \in DOMAIN DeviceSends /\ Heard(served, scenario)
        /\ Honest(served) /\ Joined(served) /\ IsOver(served) /\ Rises(served)
    BY <1>2 DEF Sound, BusySound, RegistrarSound
  <2>2. CountsRise
    <3>1. \A k \in DOMAIN served : TakesEffect(k) => Effective(served, k)
      BY DEF TakesEffect, Effective, Given, Accepted
    <3> QED
      BY <2>1, <3>1 DEF CountsRise, Rises, Client, Count
  <2>3. CancelAnswersFit
    <3>1. ASSUME NEW j \in DOMAIN served, NEW k \in DOMAIN served,
                 Given(j, "INVITE", 486), Given(k, "CANCEL", 200),
                 served[j].request.branch = served[k].request.branch
          PROVE  served[j].answer.to = served[k].answer.to
      <4>1. Refused(served, j) /\ Cancelled(served, k)
        BY <3>1 DEF Given, Refused, Cancelled
      <4>2. PICK i \in DOMAIN served :
                   /\ Refused(served, i) /\ served[i].request.branch = served[k].request.branch
                   /\ served[k].answer.to = served[i].answer.to
        BY <2>1, <4>1 DEF Joined
      <4>3. served[i].answer = served[j].answer
        BY <2>1, <3>1, <4>1, <4>2, RefusedOnce
      <4> QED
        BY <4>2, <4>3
    <3> QED
      BY <3>1 DEF CancelAnswersFit
  <2>4. AcknowledgedIsOver
    <3>1. \A j : Given(j, "INVITE", 486) <=> Refused(served, j)
      BY DEF Given, Refused
    <3>2. {served[j].request.branch : j \in {j \in DOMAIN served : Given(j, "INVITE", 486)}}
              = Refusals(served)
      BY <3>1 DEF Refusals
    <3>3. ASSUME NEW i \in DOMAIN served, NEW a \in DOMAIN served, NEW k \in DOMAIN served,
                 /\ i < a /\ a < k /\ Given(i, "INVITE", 486) /\ served[i].request.to = Nothing
                 /\ served[a].request.line = "ACK" /\ Reads(served[a].request)
                 /\ served[a].request.branch = served[i].request.branch
                 /\ served[a].request.to = served[i].answer.to
                 /\ served[k].request = served[i].request
                 /\ \A j \in 1..(a - 1) :
                       /\ served[j].request = served[i].request
                             => served[a].at - served[j].at < BusyLife
                       /\ j > i => served[j].request # served[a].request
                 /\ served[k].at - served[a].at < AckLife
                 /\ Cardinality({served[j].request.branch :
                        j \in {j \in DOMAIN served : Given(j, "INVITE", 486)}}) <= MaxBusy
          PROVE  served[k].answer = Nothing
      <4>1. Timely(served, i, a)
        BY <3>1, <3>3 DEF Timely, Confirms
      <4>2. Cardinality(Refusals(served)) <= MaxBusy
        BY <3>2, <3>3
      <4> QED
        BY <2>1, <3>3, <4>1, <4>2 DEF IsOver
    <3> QED
      BY <3>3, Zenon DEF AcknowledgedIsOver
  <2> QED
    BY <2>2, <2>3, <2>4 DEF SimulatorIsSound
<1> QED
  BY <1>1, <1>2

\* For any requests of the device, in any order and any number, and any bounds:
\* no credentials bind twice (SipRegistrar), the answer to a CANCEL is of the
\* dialog of its INVITE, and a refusal that was acknowledged stays over (SipBusy).
THEOREM DesktopSimulatorIsSound == SpecD => []SimulatorIsSound
<1>1. InitD => Sound
  BY SoundInit
<1>2. Sound /\ [NextD]_desktopVars => Sound'
  BY SoundStep
<1>3. Sound => SimulatorIsSound
  BY SoundIsSound
<1> QED
  BY <1>1, <1>2, <1>3, PTL DEF SpecD
=============================================================================
