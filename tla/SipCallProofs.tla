---------------------------- MODULE SipCallProofs ---------------------------
(***************************************************************************)
(* The safety of the test call for any number of callers, Call-IDs and     *)
(* requests, whatever the network does.                                    *)
(*                                                                         *)
(* The inductive invariant IInv says what every datagram on the network    *)
(* looks like, that the sessions are good (Good: typed, one per Call-ID,   *)
(* confirmed only by an ACK that was sent), and what the callers know.     *)
(* Every turn of the engine ends in Ticked of good sessions.               *)
(***************************************************************************)
EXTENDS SipCall, TLAPS

Requests == [to : {"engine"}, method : {"INVITE", "ACK", "BYE", "CANCEL"},
             peer : Callers, n : Nat, tag : Nat, offer : BOOLEAN]

Replies == [to : Callers, method : {"INVITE", "BYE"}, n : Nat,
            status : {"ok", "refused"}, tag : Nat]

GoodRequest(m) == /\ m \in Requests /\ m.tag <= m.n
                  /\ IF m.method = "INVITE" THEN m.n # 0 ELSE m.offer = FALSE

GoodReply(m) == m \in Replies /\ m.tag <= m.n

GoodNetwork(N) == \A m \in N : GoodRequest(m) \/ GoodReply(m)

\* Good sessions, given the datagrams N that were sent.
Good(S, N) ==
    /\ S \subseteq Session
    /\ \A s, t \in S : call_id[s.peer] = call_id[t.peer] => s = t
    /\ \A s \in S : s.acked => Ack(s.peer, s.n, s.tag) \in N

Caller == [phase : {"idle", "calling", "up", "closing", "over"}, n : Nat, tag : Nat]

GoodCallers ==
    /\ caller \in [Callers -> Caller]
    /\ \A c \in Callers : caller[c].n <= MaxCSeq[c] /\ caller[c].tag <= caller[c].n

IInv == Good(sessions, network) /\ GoodNetwork(network) /\ GoodCallers

-----------------------------------------------------------------------------
\* What is sent to the engine is a request, and what a caller gets a reply.
LEMMA Addressed ==
    ASSUME NEW m, GoodRequest(m) \/ GoodReply(m)
    PROVE  /\ m.to = "engine" => GoodRequest(m)
           /\ m.to \in Callers => GoodReply(m)
BY CallAssumption DEF GoodRequest, GoodReply, Requests, Replies

\* Fewer sessions and more datagrams keep sessions good.
LEMMA GoodMonotone ==
    ASSUME NEW S, NEW N, NEW T, NEW M, Good(S, N), T \subseteq S, N \subseteq M
    PROVE  Good(T, M)
BY DEF Good

\* One turn of the loop, from what the datagram made of the sessions.
LEMMA TurnGood ==
    ASSUME NEW S, NEW replies, Turn(S, replies), Good(S, network), GoodNetwork(network),
           \A r \in replies : GoodReply(r), UNCHANGED call_id
    PROVE  Good(sessions, network)' /\ GoodNetwork(network)'
<1>1. Ticked(S) \subseteq S
  BY DEF Ticked
<1>2. Good(Ticked(S), network')
  BY <1>1, GoodMonotone DEF Turn
<1>3. Good(sessions, network)'
  BY <1>2 DEF Turn, Good
<1>4. GoodNetwork(network)'
  BY DEF Turn, GoodNetwork
<1> QED BY <1>3, <1>4

\* A new session is typed and its answer is a good reply.
LEMMA NewSessionTyped ==
    ASSUME NEW m, GoodRequest(m), m.method = "INVITE"
    PROVE  /\ NewSession(m) \in Session /\ NewSession(m).tag <= m.n
           /\ NewSession(m).peer = m.peer /\ ~NewSession(m).acked
<1>1. m.peer \in Callers /\ m.n \in Nat /\ m.tag \in Nat /\ m.n # 0 /\ m.tag <= m.n
  BY DEF GoodRequest, Requests
<1>2. Expiry \in 0..Expiry
  BY CallAssumption
<1> QED BY <1>1, <1>2 DEF NewSession, Session, NoTag

\* Both answers to an INVITE are good replies.
LEMMA InviteAnswers ==
    ASSUME NEW m, GoodRequest(m), m.method = "INVITE"
    PROVE  GoodReply(Answer(m)) /\ GoodReply(Refusal(m))
<1>1. m.peer \in Callers /\ m.n \in Nat
  BY DEF GoodRequest, Requests
<1>2. NewSession(m).tag \in Nat /\ NewSession(m).tag <= m.n
  BY NewSessionTyped DEF Session
<1> QED BY <1>1, <1>2 DEF Answer, Refusal, Reply, GoodReply, Replies, NoTag

\* INVITE: a session is added only if no other has its Call-ID.
LEMMA InviteGood ==
    ASSUME IInv, NEW m, GoodRequest(m), invite(m), UNCHANGED call_id
    PROVE  Good(sessions, network)' /\ GoodNetwork(network)'
<1>1. m.method = "INVITE" /\ GoodReply(Answer(m)) /\ GoodReply(Refusal(m))
  BY InviteAnswers DEF invite
<1>2. CASE Turn(sessions, {Answer(m)}) \/ Turn(sessions, {Refusal(m)}) \/ Turn(sessions, {})
  BY <1>1, <1>2, TurnGood DEF IInv
<1>3. CASE ~Busy(m) /\ Turn(sessions \cup {NewSession(m)}, {Answer(m)})
  <2> DEFINE new == NewSession(m)
  <2>1. new \in Session /\ new.peer = m.peer /\ ~new.acked
    BY <1>1, NewSessionTyped
  <2>2. \A s \in sessions : call_id[s.peer] # call_id[new.peer]
    BY <1>3, <2>1 DEF Busy
  <2> HIDE DEF new
  <2>3. Good(sessions \cup {new}, network)
    BY <2>1, <2>2 DEF IInv, Good
  <2> QED BY <1>1, <1>3, <2>3, TurnGood DEF IInv, new
<1> QED BY <1>2, <1>3 DEF invite, Repeated

\* ACK: what it does to a session that it confirms.
LEMMA ConfirmedTyped ==
    ASSUME NEW s \in Session
    PROVE  LET t == [s EXCEPT !.acked = TRUE]
           IN  /\ t \in Session /\ t.acked
               /\ t.peer = s.peer /\ t.n = s.n /\ t.tag = s.tag
BY DEF Session

\* ACK: a session is confirmed only by the datagram that did it.
LEMMA AckGood ==
    ASSUME IInv, NEW m \in network, GoodRequest(m), ack(m), UNCHANGED call_id
    PROVE  Good(sessions, network)' /\ GoodNetwork(network)'
<1> DEFINE up(s) == IF Confirms(m, s) THEN [s EXCEPT !.acked = TRUE] ELSE s
           S == {up(s) : s \in sessions}
<1>1. \A s \in sessions : /\ up(s) \in Session /\ up(s).peer = s.peer
                          /\ up(s).n = s.n /\ up(s).tag = s.tag
                          /\ up(s).acked => s.acked \/ Confirms(m, s)
  BY ConfirmedTyped DEF IInv, Good
<1>2. Turn(S, {})
  BY DEF ack
<1>3. \A s \in sessions : Confirms(m, s) => Ack(s.peer, s.n, s.tag) \in network
  <2> SUFFICES ASSUME NEW s \in sessions, Confirms(m, s)
               PROVE  Ack(s.peer, s.n, s.tag) = m
    OBVIOUS
  <2>1. m \in Requests /\ m.method = "ACK" /\ m.offer = FALSE
    BY DEF ack, GoodRequest
  <2>2. m = [to |-> "engine", method |-> "ACK", peer |-> s.peer, n |-> s.n,
             tag |-> s.tag, offer |-> FALSE]
    BY <2>1 DEF Requests, Confirms
  <2> QED BY <2>2 DEF Ack, Request
<1> HIDE DEF up
<1>4. S \subseteq Session
  BY <1>1
<1>5. \A s, t \in S : call_id[s.peer] = call_id[t.peer] => s = t
  BY <1>1 DEF IInv, Good
<1>6. \A s \in S : s.acked => Ack(s.peer, s.n, s.tag) \in network
  BY <1>1, <1>3 DEF IInv, Good
<1>7. Good(S, network)
  BY <1>4, <1>5, <1>6 DEF Good
<1> QED BY <1>2, <1>7, TurnGood DEF IInv

\* BYE: sessions only go.
LEMMA ByeGood ==
    ASSUME IInv, NEW m, GoodRequest(m), bye(m), UNCHANGED call_id
    PROVE  Good(sessions, network)' /\ GoodNetwork(network)'
<1> DEFINE ended == {s \in sessions : Ends(m, s)}
<1>1. Good(sessions \ ended, network)
  BY GoodMonotone DEF IInv
<1>2. \A r \in ByeAnswer(m, ended) : GoodReply(r)
  BY DEF ByeAnswer, Reply, GoodReply, Replies, GoodRequest, Requests
<1>3. Turn(sessions \ ended, ByeAnswer(m, ended))
  BY DEF bye
<1> HIDE DEF ended
<1> QED BY <1>1, <1>2, <1>3, TurnGood DEF IInv

\* CANCEL and a quiet turn: only tick.
LEMMA QuietGood ==
    ASSUME IInv, Turn(sessions, {}), UNCHANGED call_id
    PROVE  Good(sessions, network)' /\ GoodNetwork(network)'
BY TurnGood DEF IInv

\* The clock changes no field but expires.
LEMMA ElapsedTyped ==
    ASSUME NEW s \in Session
    PROVE  LET t == [s EXCEPT !.expires = IF @ = 0 THEN 0 ELSE @ - 1]
           IN  /\ t \in Session /\ t.acked = s.acked
               /\ t.peer = s.peer /\ t.n = s.n /\ t.tag = s.tag
BY CallAssumption DEF Session

LEMMA ElapseGood ==
    ASSUME IInv, Elapse
    PROVE  IInv'
<1> DEFINE old(s) == [s EXCEPT !.expires = IF @ = 0 THEN 0 ELSE @ - 1]
           S == {old(s) : s \in sessions}
<1>1. \A s \in sessions : /\ old(s) \in Session /\ old(s).peer = s.peer
                          /\ old(s).n = s.n /\ old(s).tag = s.tag
                          /\ old(s).acked = s.acked
  BY ElapsedTyped DEF IInv, Good
<1>2. sessions' = S /\ UNCHANGED <<network, call_id, caller>>
  BY DEF Elapse
<1> HIDE DEF old
<1>3. Good(S, network)
  BY <1>1 DEF IInv, Good
<1>4. Good(sessions, network)'
  BY <1>2, <1>3 DEF Good
<1> QED BY <1>2, <1>4 DEF IInv, GoodNetwork, GoodCallers

-----------------------------------------------------------------------------
\* Whatever datagram arrives, the sessions stay good.
LEMMA PacketGood ==
    ASSUME IInv, NEW m \in network, on_packet(m)
    PROVE  IInv'
<1>1. GoodRequest(m)
  BY Addressed DEF on_packet, IInv, GoodNetwork
<1>2. UNCHANGED <<call_id, caller>>
  BY DEF on_packet
<1>3. Good(sessions, network)' /\ GoodNetwork(network)'
  <2>1. CASE invite(m)
    BY <1>1, <1>2, <2>1, InviteGood
  <2>2. CASE ack(m)
    BY <1>1, <1>2, <2>2, AckGood
  <2>3. CASE bye(m)
    BY <1>1, <1>2, <2>3, ByeGood
  <2>4. CASE cancel(m)
    BY <1>2, <2>4, QuietGood DEF cancel
  <2> QED BY <2>1, <2>2, <2>3, <2>4 DEF on_packet
<1> QED BY <1>2, <1>3 DEF IInv, GoodCallers

\* A caller that sends a good request and remembers good numbers.
LEMMA SendGood ==
    ASSUME IInv, NEW m, GoodRequest(m), Send(m), UNCHANGED <<sessions, call_id>>
    PROVE  Good(sessions, network)' /\ GoodNetwork(network)'
<1>1. Good(sessions, network')
  BY GoodMonotone DEF IInv, Send
<1>2. Good(sessions, network)'
  BY <1>1 DEF Good
<1> QED BY <1>2 DEF Send, IInv, GoodNetwork

LEMMA BecomeGood ==
    ASSUME IInv, NEW c \in Callers, NEW phase, NEW n \in Nat, NEW tag \in Nat,
           phase \in {"idle", "calling", "up", "closing", "over"},
           n <= MaxCSeq[c], tag <= n, Become(c, phase, n, tag)
    PROVE  GoodCallers'
<1> DEFINE k == [phase |-> phase, n |-> n, tag |-> tag]
<1>1. k \in Caller /\ k.n = n /\ k.tag = tag
  BY DEF Caller
<1>2. caller' = [caller EXCEPT ![c] = k]
  BY DEF Become
<1> HIDE DEF k
<1> QED BY <1>1, <1>2 DEF IInv, GoodCallers

\* What a caller knows at any time.
LEMMA Knows ==
    ASSUME IInv, NEW c \in Callers
    PROVE  /\ caller[c] \in Caller /\ caller[c].n \in Nat /\ caller[c].tag \in Nat
           /\ MaxCSeq[c] \in Nat
           /\ caller[c].n <= MaxCSeq[c] /\ caller[c].tag <= caller[c].n
BY CallAssumption DEF IInv, GoodCallers, Caller

\* An INVITE, an ACK, a BYE and a CANCEL with numbers of the right size.
LEMMA RequestGood ==
    ASSUME NEW c \in Callers, NEW n \in Nat, NEW tag \in Nat, tag <= n,
           NEW offer \in BOOLEAN
    PROVE  /\ n # 0 => GoodRequest(Invite(c, n, tag, offer))
           /\ GoodRequest(Ack(c, n, tag)) /\ GoodRequest(Bye(c, n, tag))
           /\ GoodRequest(Cancel(c, n))
BY DEF GoodRequest, Requests, Request, Invite, Ack, Bye, Cancel, NoTag

LEMMA DialGood ==
    ASSUME IInv, NEW c \in Callers, Dial(c), UNCHANGED <<sessions, call_id>>
    PROVE  IInv'
<1> DEFINE k == caller[c]
           tag == IF k.phase = "up" THEN k.tag ELSE NoTag
<1>1. /\ k.n + 1 \in Nat /\ k.n + 1 # 0 /\ k.n + 1 <= MaxCSeq[c]
      /\ tag \in Nat /\ tag <= k.n + 1
  BY Knows DEF Dial, NoTag
<1>2. PICK offer \in BOOLEAN : Send(Invite(c, k.n + 1, tag, offer))
  BY DEF Dial
<1>3. Become(c, "calling", k.n + 1, tag)
  BY DEF Dial
<1> HIDE DEF k, tag
<1>4. GoodRequest(Invite(c, k.n + 1, tag, offer))
  BY <1>1, RequestGood
<1>5. Good(sessions, network)' /\ GoodNetwork(network)'
  BY <1>2, <1>4, SendGood
<1>6. GoodCallers'
  BY <1>1, <1>3, BecomeGood
<1> QED BY <1>5, <1>6 DEF IInv

LEMMA GiveUpGood ==
    ASSUME IInv, NEW c \in Callers, GiveUp(c), UNCHANGED <<sessions, call_id>>
    PROVE  IInv'
<1> DEFINE k == caller[c]
<1>1. Send(Cancel(c, k.n)) /\ Become(c, Refused(k), k.n, k.tag)
  BY DEF GiveUp
<1>2. GoodRequest(Cancel(c, k.n))
  BY Knows, RequestGood
<1>3. GoodCallers'
  BY <1>1, Knows, BecomeGood DEF Refused
<1>4. Good(sessions, network)' /\ GoodNetwork(network)'
  BY <1>1, <1>2, SendGood
<1> QED BY <1>3, <1>4 DEF IInv

LEMMA HangUpGood ==
    ASSUME IInv, NEW c \in Callers, HangUp(c), UNCHANGED <<sessions, call_id>>
    PROVE  IInv'
<1> DEFINE k == caller[c]
<1>1. /\ k.n + 1 \in Nat /\ k.n + 1 <= MaxCSeq[c]
      /\ k.tag \in Nat /\ k.tag <= k.n + 1
  BY Knows DEF HangUp
<1>2. Send(Bye(c, k.n + 1, k.tag)) /\ Become(c, "closing", k.n + 1, k.tag)
  BY DEF HangUp
<1> HIDE DEF k
<1>3. GoodRequest(Bye(c, k.n + 1, k.tag))
  BY <1>1, RequestGood
<1>4. Good(sessions, network)' /\ GoodNetwork(network)'
  BY <1>2, <1>3, SendGood
<1>5. GoodCallers'
  BY <1>1, <1>2, BecomeGood
<1> QED BY <1>4, <1>5 DEF IInv

LEMMA HearGood ==
    ASSUME IInv, NEW c \in Callers, NEW r \in network, Hear(c, r),
           UNCHANGED <<sessions, call_id>>
    PROVE  IInv'
<1> DEFINE k == caller[c]
<1>1. /\ r.n = k.n /\ r.tag \in Nat /\ r.tag <= k.n
  <2>1. GoodReply(r)
    BY Addressed DEF Hear, IInv, GoodNetwork
  <2> QED BY <2>1 DEF Hear, GoodReply, Replies
<1>2. CASE Send(Ack(c, r.n, r.tag)) /\ Become(c, "up", k.n, r.tag)
  <2>1. GoodRequest(Ack(c, r.n, r.tag))
    BY <1>1, Knows, RequestGood
  <2>2. Good(sessions, network)' /\ GoodNetwork(network)'
    BY <1>2, <2>1, SendGood
  <2>3. GoodCallers'
    BY <1>1, <1>2, Knows, BecomeGood
  <2> QED BY <2>2, <2>3 DEF IInv
<1>3. CASE UNCHANGED network /\ (Become(c, Refused(k), k.n, k.tag) \/ Become(c, "over", k.n, NoTag))
  <2>1. GoodCallers'
    BY <1>3, Knows, BecomeGood DEF Refused, NoTag
  <2>2. Good(sessions, network)' /\ GoodNetwork(network)'
    BY <1>3 DEF IInv, Good, GoodNetwork
  <2> QED BY <2>1, <2>2 DEF IInv
<1> QED BY <1>2, <1>3 DEF Hear

-----------------------------------------------------------------------------
LEMMA InitInv == Init => IInv
<1> SUFFICES ASSUME Init PROVE IInv
  OBVIOUS
<1>1. Good(sessions, network) /\ GoodNetwork(network)
  BY DEF Init, Good, GoodNetwork
<1>2. GoodCallers
  <2>1. [phase |-> "idle", n |-> 0, tag |-> NoTag] \in Caller
    BY DEF Caller, NoTag
  <2> QED BY <2>1, CallAssumption DEF Init, GoodCallers, NoTag
<1> QED BY <1>1, <1>2 DEF IInv

LEMMA NextInv == IInv /\ [Next]_vars => IInv'
<1> SUFFICES ASSUME IInv, [Next]_vars PROVE IInv'
  OBVIOUS
<1>1. CASE \E m \in network : on_packet(m)
  BY <1>1, PacketGood
<1>2. CASE Quiet
  <2>1. Good(sessions, network)' /\ GoodNetwork(network)'
    BY <1>2, QuietGood DEF Quiet
  <2> QED BY <1>2, <2>1 DEF Quiet, IInv, GoodCallers
<1>3. CASE Elapse
  BY <1>3, ElapseGood
<1>4. CASE Fail
  BY <1>4 DEF Fail, IInv, Good, GoodNetwork, GoodCallers
<1>5. ASSUME NEW c \in Callers, CallerStep(c) PROVE IInv'
  BY <1>5, DialGood, GiveUpGood, HangUpGood, HearGood DEF CallerStep
<1>6. CASE UNCHANGED vars
  BY <1>6 DEF vars, IInv, Good, GoodNetwork, GoodCallers
<1> QED BY <1>1, <1>2, <1>3, <1>4, <1>5, <1>6 DEF Next

\* The inductive invariant holds for ever.
THEOREM CallInvariant == Spec => []IInv
BY InitInv, NextInv, PTL DEF Spec

\* Sessions, datagrams and callers are typed.
THEOREM CallTypeOK == Spec => []TypeOK
<1>1. IInv => TypeOK
  <2> SUFFICES ASSUME IInv PROVE TypeOK
    OBVIOUS
  <2>1. \A m \in network : m.tag \in 0..m.n
    BY DEF IInv, GoodNetwork, GoodRequest, GoodReply, Requests, Replies
  <2>2. \A c \in Callers :
          /\ caller[c].phase \in {"idle", "calling", "up", "closing", "over"}
          /\ caller[c].n \in 0..MaxCSeq[c] /\ caller[c].tag \in 0..caller[c].n
    BY Knows DEF Caller
  <2> QED BY <2>1, <2>2 DEF TypeOK, IInv, Good
<1> QED BY <1>1, CallInvariant, PTL

\* invite, bye and tick (call.rs): however datagrams are lost, repeated and
\* reordered, a Call-ID never has two sessions.
THEOREM CallOneSession == Spec => []OneSessionPerCall
<1>1. IInv => OneSessionPerCall
  BY DEF IInv, Good, OneSessionPerCall
<1> QED BY <1>1, CallInvariant, PTL

\* ack (call.rs): media flows only to a caller that acknowledged this answer.
THEOREM CallMediaIsWanted == Spec => []MediaIsWanted
<1>1. IInv => MediaIsWanted
  BY DEF IInv, Good, MediaIsWanted
<1> QED BY <1>1, CallInvariant, PTL

-----------------------------------------------------------------------------
\* A turn keeps the established sessions that its datagram did.
LEMMA TurnKeeps ==
    ASSUME NEW S, NEW replies, Turn(S, replies), NEW s \in S, s.acked
    PROVE  s \in sessions'
BY DEF Turn, Ticked

\* bye (call.rs): only a BYE of its own caller in its own dialog ends an
\* established call.
THEOREM CallOnlyByeEnds == Spec => OnlyByeEnds
<1> DEFINE Step == running' => \A s \in sessions : s.acked => LivesOn(s) \/ ByeSent(s)
<1>1. IInv /\ [Next]_vars => [Step]_vars
  <2> SUFFICES ASSUME IInv, Next, running', NEW s \in sessions, s.acked
               PROVE  LivesOn(s) \/ ByeSent(s)
    BY DEF LivesOn
  <2>1. ASSUME NEW m \in network, on_packet(m) PROVE LivesOn(s) \/ ByeSent(s)
    <3>1. CASE invite(m)
      BY <3>1, TurnKeeps DEF invite, LivesOn, Repeated
    <3>2. CASE ack(m)
      <4> DEFINE up(t) == IF Confirms(m, t) THEN [t EXCEPT !.acked = TRUE] ELSE t
      <4>1. up(s).acked /\ Repeats(s, up(s))
        BY ConfirmedTyped DEF IInv, Good, Repeats
      <4>2. Turn({up(t) : t \in sessions}, {})
        BY <3>2 DEF ack
      <4> HIDE DEF up
      <4>3. up(s) \in sessions'
        BY <4>1, <4>2, TurnKeeps
      <4> QED BY <4>1, <4>3 DEF LivesOn
    <3>3. CASE bye(m)
      <4>1. CASE Ends(m, s)
        BY <2>1, <3>3, <4>1 DEF bye, Ends, on_packet, ByeSent
      <4>2. CASE ~Ends(m, s)
        BY <3>3, <4>2, TurnKeeps DEF bye, LivesOn
      <4> QED BY <4>1, <4>2
    <3>4. CASE cancel(m)
      BY <3>4, TurnKeeps DEF cancel, LivesOn
    <3> QED BY <2>1, <3>1, <3>2, <3>3, <3>4 DEF on_packet
  <2>2. CASE Quiet
    BY <2>2, TurnKeeps DEF Quiet, LivesOn
  <2>3. CASE Elapse
    <3> DEFINE old(t) == [t EXCEPT !.expires = IF @ = 0 THEN 0 ELSE @ - 1]
    <3>1. old(s).acked /\ Repeats(s, old(s))
      BY ElapsedTyped DEF IInv, Good, Repeats
    <3>2. old(s) \in sessions'
      BY <2>3 DEF Elapse
    <3> QED BY <3>1, <3>2 DEF LivesOn
  <2>4. CASE Fail
    BY <2>4 DEF Fail
  <2>5. ASSUME NEW c \in Callers, CallerStep(c) PROVE LivesOn(s)
    BY <2>5 DEF CallerStep, LivesOn
  <2> QED BY <2>1, <2>2, <2>3, <2>4, <2>5 DEF Next
<1> QED BY <1>1, CallInvariant, PTL DEF Spec, OnlyByeEnds
=============================================================================
