---------------------------- MODULE SipSimulator ----------------------------
(***************************************************************************)
(* The answers of the test engine's OPTIONS, busy and registrar scenarios  *)
(* (crates/sip/src/simulator.rs, build_response of lib.rs, handle of       *)
(* apps/sip-engine/src/main.rs): what each makes of a request that arrives *)
(* at a time, and what it remembers.                                       *)
(*                                                                         *)
(* Messages are those of SipAnalysis; a REGISTER also has its credentials, *)
(* contact and expiry.  Credentials are a nonce count of a client nonce,   *)
(* and right or not: made with the account, the password, the URI and the  *)
(* nonce of this registrar.                                                *)
(***************************************************************************)
EXTENDS Integers, Sequences, FiniteSets

CONSTANTS
    None,       \* Option::None
    MaxBusy,    \* 1024 INVITEs that are remembered
    MaxCached,  \* 1024 answers of the registrar that are remembered
    BusyLife,   \* 32 s from the first answer
    AckLife,    \* 5 s from the ACK
    CacheLife,  \* 32 s
    MaxExpires  \* 3600 s

\* A request can be answered if it has what its answer repeats.
Complete(m) ==
    {"Via", "From", "To", "Call-ID", "CSeq"} \subseteq m.headers /\ m.cseq # None

Answerable(m) == Complete(m) /\ m.cseq.method = m.line

\* The tag that names this side: a digest of what identifies the request.
Tag(m) == <<m.call, m.cseq.number, m.cseq.method, m.from, m.branch>>

\* build_response.  Without an answer the error is only printed.
Response(m, status) ==
    IF ~Answerable(m) THEN None
    ELSE [m EXCEPT !.line = None, !.status = status, !.sdp = None,
                   !.to = IF @ = None THEN Tag(m) ELSE @]

-----------------------------------------------------------------------------
\* SipBusy: the transactions it has refused, the oldest first.
NewBusy == <<>>

\* The rest of the To header of an ACK is its tag.
BusyKey(m) ==
    [uri |-> m.uri, branch |-> m.branch, from |-> m.from, call |-> m.call,
     number |-> m.cseq.number, to |-> IF m.line = "ACK" THEN None ELSE m.to]

\* What has not expired stays, in the order it had.
Remembered(busy, now) ==
    LET left     == {k \in DOMAIN busy : busy[k].expires_at > now}
        Place(k) == Cardinality({j \in left : j <= k})
    IN  [n \in 1..Cardinality(left) |-> busy[CHOOSE k \in left : Place(k) = n]]

Matching(busy, m) == {k \in DOMAIN busy : busy[k].key = BusyKey(m)}

\* The state and the answer after a request.
Result(state, answer) == [state |-> state, answer |-> answer]

Refuse(busy, m, now) ==
    LET answer == Response(m, 486)
        room   == IF Len(busy) >= MaxBusy THEN Tail(busy) ELSE busy
    IN  IF answer = None THEN Result(busy, None)
        ELSE Result(Append(room, [key |-> BusyKey(m), answer |-> answer,
                                  acknowledged |-> FALSE, expires_at |-> now + BusyLife]),
                    answer)

OnInvite(busy, m, now) ==
    IF Matching(busy, m) = {} THEN Refuse(busy, m, now)
    ELSE LET t == busy[CHOOSE k \in Matching(busy, m) : TRUE]
         IN  Result(busy, IF t.acknowledged THEN None ELSE t.answer)

\* The answer to a CANCEL has the tag of the answer to its INVITE.
OnCancel(busy, m) ==
    IF Matching(busy, m) = {} THEN Result(busy, Response(m, 481))
    ELSE LET t == busy[CHOOSE k \in Matching(busy, m) : TRUE]
         IN  Result(busy, Response([m EXCEPT !.to = t.answer.to], 200))

\* An INVITE with a tag has no ACK: its key has the tag, that of an ACK has not.
OnAck(busy, m, now) ==
    Result([k \in DOMAIN busy |->
               IF k \in Matching(busy, m) /\ busy[k].answer.to = m.to
               THEN [busy[k] EXCEPT !.acknowledged = TRUE, !.expires_at = now + AckLife]
               ELSE busy[k]], None)

RespondBusy(busy, m, now) ==
    LET b == Remembered(busy, now)
    IN  CASE m.line \notin {"INVITE", "CANCEL", "ACK"} -> Result(busy, None)
          [] m.line \in {"INVITE", "CANCEL", "ACK"} /\ ~Complete(m) -> Result(b, None)
          [] m.line = "INVITE" /\ Complete(m) -> OnInvite(b, m, now)
          [] m.line = "CANCEL" /\ Complete(m) -> OnCancel(b, m)
          [] m.line = "ACK" /\ Complete(m)    -> OnAck(b, m, now)

-----------------------------------------------------------------------------
\* SipRegistrar: who is bound where and until when, the highest count of each
\* client nonce, and the answers to what may come again.
NewRegistrar == [bindings |-> [a \in {} |-> None], counts |-> [c \in {} |-> 0],
                 cache |-> [d \in {} |-> None]]

Where(f, P(_)) == [x \in {y \in DOMAIN f : P(f[y])} |-> f[x]]
Put(f, k, v)   == [x \in DOMAIN f \cup {k} |-> IF x = k THEN v ELSE f[x]]
Without(f, k)  == [x \in DOMAIN f \ {k} |-> f[x]]

Current(g, now) ==
    [g EXCEPT !.bindings = Where(@, LAMBDA b : b.expires_at > now),
              !.cache = Where(@, LAMBDA a : now - a.at < CacheLife)]

\* Mutant of authenticated: a count that was used may be used again.
AuthenticatedAgain(g, auth) == auth # None /\ auth.right /\ auth.count > 0

authenticated(g, auth) ==
    /\ auth # None /\ auth.right /\ auth.count > 0
    /\ auth.client \in DOMAIN g.counts => auth.count > g.counts[auth.client]

Lower(a, b) == IF a < b THEN a ELSE b

\* The Expires header: "bad" if it is no number.
Malformed(r) ==
    \/ r.expires = [bad |-> TRUE]
    \/ r.contact # None /\ r.contact.kind \in {"list", "all"}
           /\ ~(r.contact.kind = "all" /\ r.expires = [bad |-> FALSE, seconds |-> 0])

\* How long the contact is bound: by its own parameter, or by the header.
Lifetime(r) ==
    LET header == IF r.expires = None THEN MaxExpires ELSE Lower(r.expires.seconds, MaxExpires)
    IN  IF r.contact.expires = None THEN header ELSE Lower(r.contact.expires, MaxExpires)

Rebound(bindings, m, now) ==
    LET r == m.register
    IN  IF r.contact = None THEN bindings
        ELSE IF r.contact.kind = "all" \/ Lifetime(r) = 0 THEN Without(bindings, m.aor)
        ELSE Put(bindings, m.aor, [contact |-> r.contact.uri, expires_at |-> now + Lifetime(r)])

\* A request with right credentials that is new.
Accept(g, m, now) ==
    LET bindings == Rebound(g.bindings, m, now)
        answer   == Response([m EXCEPT !.register =
                        IF m.aor \in DOMAIN bindings
                        THEN [contact |-> bindings[m.aor].contact,
                              remaining |-> bindings[m.aor].expires_at - now]
                        ELSE None], 200)
        room     == IF Cardinality(DOMAIN g.cache) >= MaxCached THEN [d \in {} |-> None]
                    ELSE g.cache
    IN  Result([g EXCEPT !.bindings = bindings,
                         !.cache = IF answer = None THEN @
                                   ELSE Put(room, m, [answer |-> answer, at |-> now])],
               answer)

RespondRegistrar(registrar, m, now) ==
    LET g    == Current(registrar, now)
        auth == m.register.auth
        used == [g EXCEPT !.counts = Put(@, auth.client, auth.count)]
    IN  IF m.line # "REGISTER" THEN Result(registrar, None)
        ELSE IF m \in DOMAIN g.cache THEN Result(g, g.cache[m].answer)
        ELSE IF ~authenticated(g, auth) THEN Result(g, Response(m, 401))
        ELSE IF m.aor = None THEN Result(used, None)
        ELSE IF Malformed(m.register) THEN Result(used, Response(m, 400))
        ELSE Accept(used, m, now)

-----------------------------------------------------------------------------
\* handle: OPTIONS is answered in every scenario.
handle(scenario, engine, m, now) ==
    IF ~m.parses THEN Result(engine, None)
    ELSE IF m.line = "OPTIONS" THEN Result(engine, Response(m, 200))
    ELSE IF scenario = "options" THEN Result(engine, None)
    ELSE IF scenario = "busy"
    THEN LET x == RespondBusy(engine.busy, m, now)
         IN  Result([engine EXCEPT !.busy = x.state], x.answer)
    ELSE LET x == RespondRegistrar(engine.registrar, m, now)
         IN  Result([engine EXCEPT !.registrar = x.state], x.answer)

NewEngine == [busy |-> NewBusy, registrar |-> NewRegistrar]
=============================================================================
