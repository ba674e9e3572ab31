------------------------- MODULE RtspSessionProofs --------------------------
(***************************************************************************)
(* Theorems about RtspSession: one inductive invariant, and from it that   *)
(* no media is lost on its way and nothing is handed to the wrong request  *)
(* or the wrong track.                                                     *)
(*                                                                         *)
(* The stream is Way, what is buffered and what is still in the socket.    *)
(* Every step of the client takes the first items from it or moves the     *)
(* border between its halves; every step of the server puts one item at    *)
(* its end.  So the invariant is about Way as a whole: the numbers of the  *)
(* answers in it (Ordered, TakenFirst, Prompt), the channels of the frames *)
(* (Routes) and their place in what was sent (FramesKept).                 *)
(***************************************************************************)
EXTENDS RtspSession, SequenceTheorems, FiniteSetTheorems, WellFoundedInduction, TLAPS

-----------------------------------------------------------------------------
(* The inductive invariant.                                                 *)

\* What travels on the connection, and what the client keeps of it.
Answers == [kind : {"answer"}, cseq : Nat, status : {"ok", "unauthorized", "refused"},
            session : Nat \cup {None}, channel : Channels \cup {None}]

Media == [kind : {"rtp", "rtcp"}, track : Position, n : Nat, channel : Int]

Items == Answers \cup Media

Requests == [cseq : Nat, method : Methods, track : Position, auth : BOOLEAN,
             session : Nat \cup {None}, channel : Nat]

Receivers == [track : Position \cup {None}, kind : {"rtp", "rtcp", "none"}]

Observations == [frame : Media, to : Receivers]

Phases == Methods \cup {"receive", "done", "failed"}

\* The phases before PLAY.
Before == {"OPTIONS", "DESCRIBE", "SETUP"}

\* The shapes of the two sides.
ClientTypes ==
    /\ phase \in Phases /\ position \in Position /\ cseq \in Nat \ {0}
    /\ asked \in {None, cseq - 1} /\ retried \in BOOLEAN /\ late \in BOOLEAN
    /\ session \in Nat \cup {None} /\ errors \subseteq Position \cup {0}
    /\ runtimes \in [Position -> Nat \cup {None}]
    /\ \A t \in Position : runtimes[t] \in Channels \cup {2 * (t - 1), None}
    /\ taken \in Seq([asked : Nat, answered : Nat])
    /\ observed \in Seq(Observations)
    /\ buffer \in Seq(Items) /\ pending \in Seq(Media)

ServerTypes ==
    /\ closed \in BOOLEAN /\ wire \in Seq(Items) /\ inbox \in Seq(Requests)
    /\ sent \in Seq(Media) /\ playing \subseteq Nat
    /\ route \in [Position -> Channels \cup {None}]
    /\ member \in [Position -> Nat \cup {None}]
    /\ \A t \in Position : member[t] = None <=> route[t] = None
    /\ \A i \in 1..Len(inbox) : inbox[i].method = "PLAY" => inbox[i].session # None

\* Requests wait in the order they were made, answers are on their way in that
\* order, and all of them answer earlier requests than those that wait.
Ordered ==
    /\ \A i \in 1..Len(inbox) :
          /\ inbox[i].cseq < cseq
          /\ \A j \in 1..i - 1 : inbox[j].cseq < inbox[i].cseq
          /\ \A j \in 1..Len(Way) : ~IsFrame(Way[j]) => Way[j].cseq < inbox[i].cseq
    /\ \A i \in 1..Len(Way) : ~IsFrame(Way[i]) =>
          /\ Way[i].cseq < cseq
          /\ \A j \in 1..i - 1 : ~IsFrame(Way[j]) => Way[j].cseq < Way[i].cseq

\* Answers that were used come before all others.
TakenFirst ==
    \A i \in 1..Len(taken) :
       /\ taken[i].answered <= taken[i].asked /\ taken[i].answered < cseq
       /\ \A j \in 1..i - 1 : taken[j].answered < taken[i].answered
       /\ \A j \in 1..Len(inbox) : taken[i].answered < inbox[j].cseq
       /\ \A j \in 1..Len(Way) : ~IsFrame(Way[j]) => taken[i].answered < Way[j].cseq

\* Unless a request was given up, the one asked is the only one that waits or
\* is answered, and it is the one the client's state speaks of.
Prompt ==
    ~late =>
       /\ \A i \in 1..Len(Way) : ~IsFrame(Way[i]) => Way[i].cseq = asked
       /\ \A i \in 1..Len(taken) : taken[i].answered = taken[i].asked
       /\ ~closed => \A i \in 1..Len(inbox) :
             /\ inbox[i].cseq = asked /\ inbox[i].method = phase
             /\ inbox[i].track = position /\ inbox[i].channel = requested

\* How far the client is with its tracks.
Progress ==
    /\ phase \notin Methods => asked = None
    /\ phase \in {"OPTIONS", "DESCRIBE"} => position = 1
    /\ phase \in Before => \A t \in position..Tracks : runtimes[t] = None
    /\ (\E t \in Position : runtimes[t] # None) => session # None
    /\ phase \in {"PLAY", "receive", "TEARDOWN", "done"} => \E t \in Position : runtimes[t] # None
    /\ phase \in Before \cup {"PLAY"} => observed = <<>>

\* A frame on the channel its track has now.
Routed(f) ==
    /\ route[f.track] # None
    /\ f.channel = IF f.kind = "rtp" THEN route[f.track] ELSE route[f.track] + 1

\* No two tracks share a channel; unless a request was given up the client
\* knows the channel of each track it set up, or is being told it, and no
\* media flows while tracks are still being set up.
Routes ==
    /\ \A t, u \in Position : t # u /\ route[t] # None => route[t] # route[u]
    /\ ~late =>
         /\ \A t \in Position : runtimes[t] # None => route[t] = runtimes[t]
         /\ phase = "SETUP" => \A i \in 1..Len(Way) :
              ~IsFrame(Way[i]) /\ Way[i].status = "ok" =>
                 route[position] = IF Way[i].channel = None THEN requested ELSE Way[i].channel
         /\ \A i \in 1..Len(Way) : IsFrame(Way[i]) => Routed(Way[i])
         /\ \A i \in 1..Len(pending) : Routed(pending[i])
         /\ phase \in Before => /\ playing = {} /\ pending = <<>>
                                /\ \A i \in 1..Len(Way) : ~IsFrame(Way[i])

\* When the sample has ended the buffer has been emptied.
Emptied == ~late /\ phase = "TEARDOWN" /\ asked = None /\ ~retried => buffer = <<>>

\* The invariant every step keeps.
IInv ==
    /\ ClientTypes /\ ServerTypes /\ Ordered /\ TakenFirst /\ Prompt /\ Progress
    /\ Routes /\ MediaReachesItsTrack /\ Emptied /\ FramesKept

-----------------------------------------------------------------------------
(* Numbers, sequences and the stream.                                       *)

\* A set of numbers that is not empty has a least one.
LEMMA Least ==
    ASSUME NEW T \in SUBSET Nat, T # {}
    PROVE  \E n \in T : \A m \in T : n <= m
<1> DEFINE intervals == {0..n : n \in T}
           smaller == StrictSubsetOrdering(Nat)
<1>1. intervals # {}
  OBVIOUS
<1>2. intervals \subseteq FiniteSubsetsOf(Nat)
  <2> SUFFICES ASSUME NEW n \in T PROVE 0..n \in FiniteSubsetsOf(Nat)
    OBVIOUS
  <2>1. IsFiniteSet(0..n) /\ 0..n \in SUBSET Nat
    BY FS_Interval
  <2> QED BY <2>1 DEF FiniteSubsetsOf
<1>3. PICK x \in intervals : \A y \in intervals : <<y, x>> \notin smaller
  <2>1. IsWellFoundedOn(smaller, FiniteSubsetsOf(Nat))
    BY FS_StrictSubsetOrderingWellFounded
  <2> HIDE DEF intervals, smaller
  <2> QED BY <1>1, <1>2, <2>1, WFMin
<1>4. PICK n \in T : x = 0..n
  OBVIOUS
<1>5. ASSUME NEW m \in T, m < n PROVE FALSE
  <2>1. <<0..m, 0..n>> \notin smaller
    BY <1>3, <1>4
  <2>2. 0..m \subseteq 0..n /\ n \in 0..n /\ n \notin 0..m
    BY <1>5
  <2> QED BY <2>1, <2>2 DEF StrictSubsetOrdering
<1> QED BY <1>4, <1>5

\* Lead is what it is meant to be: no answer before, one behind or the end.
LEMMA LeadProperties ==
    ASSUME NEW items \in Seq(Items)
    PROVE  /\ Lead(items) \in 0..Len(items)
           /\ \A i \in 1..Lead(items) : IsFrame(items[i])
           /\ Lead(items) = Len(items) \/ ~IsFrame(items[Lead(items) + 1])
<1> DEFINE ends == {n \in 0..Len(items) : n = Len(items) \/ ~IsFrame(items[n + 1])}
<1>1. ends \in SUBSET Nat /\ Len(items) \in ends
  BY LenProperties
<1>2. PICK n \in ends : \A m \in ends : n <= m
  <2> HIDE DEF ends
  <2> QED BY <1>1, Least
<1>3. \A i \in 1..n : IsFrame(items[i])
  <2> SUFFICES ASSUME NEW i \in 1..n, ~IsFrame(items[i]) PROVE FALSE
    OBVIOUS
  <2>1. i - 1 \in ends
    <3>1. i - 1 + 1 = i
      OBVIOUS
    <3> QED BY <3>1, <1>1
  <2>2. n \in Nat
    BY <1>1
  <2>3. n <= i - 1
    BY <2>1, <1>2
  <2> QED BY <2>2, <2>3
<1> QED BY <1>2, <1>3 DEF Lead

\* What is left of a sequence behind its first d elements.
LEMMA RestOfSeq ==
    ASSUME NEW S, NEW s \in Seq(S), NEW d \in 0..Len(s)
    PROVE  /\ SubSeq(s, d + 1, Len(s)) \in Seq(S)
           /\ Len(SubSeq(s, d + 1, Len(s))) = Len(s) - d
           /\ \A i \in 1..Len(s) - d : SubSeq(s, d + 1, Len(s))[i] = s[d + i]
<1>1. Len(s) \in Nat /\ \A i \in d + 1..Len(s) : s[i] \in S
  BY LenProperties, ElementOfSeq
<1>2. /\ SubSeq(s, d + 1, Len(s)) \in Seq(S)
      /\ Len(SubSeq(s, d + 1, Len(s))) = IF d + 1 <= Len(s) THEN Len(s) - (d + 1) + 1 ELSE 0
      /\ \A i \in 1..Len(s) - (d + 1) + 1 : SubSeq(s, d + 1, Len(s))[i] = s[d + 1 + i - 1]
  BY <1>1, SubSeqProperties
<1>3. Len(s) - (d + 1) + 1 = Len(s) - d
      /\ (IF d + 1 <= Len(s) THEN Len(s) - (d + 1) + 1 ELSE 0) = Len(s) - d
  BY <1>1
<1>4. ASSUME NEW i \in 1..Len(s) - d PROVE SubSeq(s, d + 1, Len(s))[i] = s[d + i]
  <2>1. d + 1 + i - 1 = d + i
    BY <1>1
  <2> QED BY <2>1, <1>2, <1>3
<1> QED BY <1>2, <1>3, <1>4

\* The first d elements of a sequence.
LEMMA StartOfSeq ==
    ASSUME NEW S, NEW s \in Seq(S), NEW d \in 0..Len(s)
    PROVE  /\ SubSeq(s, 1, d) \in Seq(S) /\ Len(SubSeq(s, 1, d)) = d
           /\ \A i \in 1..d : SubSeq(s, 1, d)[i] = s[i]
<1>1. Len(s) \in Nat /\ \A i \in 1..d : s[i] \in S
  BY LenProperties, ElementOfSeq
<1>2. /\ SubSeq(s, 1, d) \in Seq(S)
      /\ Len(SubSeq(s, 1, d)) = IF 1 <= d THEN d - 1 + 1 ELSE 0
      /\ \A i \in 1..d - 1 + 1 : SubSeq(s, 1, d)[i] = s[1 + i - 1]
  BY <1>1, SubSeqProperties
<1>3. d - 1 + 1 = d /\ \A i \in Int : 1 + i - 1 = i
  BY <1>1
<1> QED BY <1>1, <1>2, <1>3

\* The two halves of a concatenation, each by its own index.
LEMMA ConcatSplit ==
    ASSUME NEW S, NEW s \in Seq(S), NEW t \in Seq(S)
    PROVE  /\ s \o t \in Seq(S) /\ Len(s \o t) = Len(s) + Len(t)
           /\ \A i \in 1..Len(s) : (s \o t)[i] = s[i]
           /\ \A i \in 1..Len(t) : (s \o t)[Len(s) + i] = t[i]
<1>1. Len(s) \in Nat /\ Len(t) \in Nat
  BY LenProperties
<1>2. /\ s \o t \in Seq(S) /\ Len(s \o t) = Len(s) + Len(t)
      /\ \A i \in 1..Len(s) + Len(t) : (s \o t)[i] = IF i <= Len(s) THEN s[i] ELSE t[i - Len(s)]
  BY ConcatProperties
<1>3. \A i \in 1..Len(t) : /\ Len(s) + i \in 1..Len(s) + Len(t) /\ ~(Len(s) + i <= Len(s))
                           /\ Len(s) + i - Len(s) = i
  BY <1>1
<1>4. \A i \in 1..Len(s) : i \in 1..Len(s) + Len(t) /\ i <= Len(s)
  BY <1>1
<1> QED BY <1>2, <1>3, <1>4

\* To drop d elements of s before or behind appending t is the same.
LEMMA RestOfConcat ==
    ASSUME NEW S, NEW s \in Seq(S), NEW t \in Seq(S), NEW d \in 0..Len(s)
    PROVE  SubSeq(s, d + 1, Len(s)) \o t = SubSeq(s \o t, d + 1, Len(s \o t))
<1> DEFINE r == SubSeq(s, d + 1, Len(s))
           c == s \o t
           q == SubSeq(c, d + 1, Len(c))
<1>1. r \in Seq(S) /\ Len(r) = Len(s) - d /\ \A i \in 1..Len(s) - d : r[i] = s[d + i]
  BY RestOfSeq
<1>2. /\ c \in Seq(S) /\ Len(c) = Len(s) + Len(t)
      /\ \A i \in 1..Len(s) : c[i] = s[i]
      /\ \A i \in 1..Len(t) : c[Len(s) + i] = t[i]
  BY ConcatSplit
<1>3. Len(s) \in Nat /\ Len(t) \in Nat /\ d \in Nat
  BY LenProperties
<1> HIDE DEF r, c, q
<1>4. q \in Seq(S) /\ Len(q) = Len(c) - d /\ \A i \in 1..Len(c) - d : q[i] = c[d + i]
  <2>1. d \in 0..Len(c)
    BY <1>2, <1>3
  <2> QED BY <2>1, <1>2, RestOfSeq DEF q
<1>5. /\ r \o t \in Seq(S) /\ Len(r \o t) = Len(r) + Len(t)
      /\ \A i \in 1..Len(r) : (r \o t)[i] = r[i]
      /\ \A i \in 1..Len(t) : (r \o t)[Len(r) + i] = t[i]
  <2>1. r \in Seq(S)
    BY <1>1
  <2> QED BY <2>1, ConcatSplit
<1>6. Len(r \o t) = Len(q)
  BY <1>1, <1>2, <1>3, <1>4, <1>5
<1>7. ASSUME NEW i \in 1..Len(r \o t) PROVE (r \o t)[i] = q[i]
  <2>1. i \in 1..Len(c) - d /\ i \in Nat
    BY <1>1, <1>2, <1>3, <1>5
  <2>2. CASE i <= Len(s) - d
    <3>1. i \in 1..Len(r) /\ i \in 1..Len(s) - d /\ d + i \in 1..Len(s)
      BY <2>1, <2>2, <1>1, <1>3
    <3> QED BY <3>1, <2>1, <1>1, <1>2, <1>4, <1>5
  <2>3. CASE ~(i <= Len(s) - d)
    <3> DEFINE j == i - (Len(s) - d)
    <3>1. j \in 1..Len(t) /\ Len(r) + j = i /\ Len(s) + j = d + i
      BY <2>1, <2>3, <1>1, <1>2, <1>3
    <3> HIDE DEF j
    <3> QED BY <3>1, <2>1, <1>2, <1>4, <1>5
  <2> QED BY <2>2, <2>3
<1>8. r \o t = q
  BY <1>4, <1>5, <1>6, <1>7, SeqEqual
<1> QED BY <1>8 DEF r, c, q

\* Reading k items into the buffer does not change the stream.
LEMMA ReadItems ==
    ASSUME buffer \in Seq(Items), wire \in Seq(Items), NEW k \in 0..Len(wire)
    PROVE  /\ buffer \o SubSeq(wire, 1, k) \in Seq(Items)
           /\ SubSeq(wire, k + 1, Len(wire)) \in Seq(Items)
           /\ (buffer \o SubSeq(wire, 1, k)) \o SubSeq(wire, k + 1, Len(wire)) = Way
<1>1. SubSeq(wire, 1, k) \in Seq(Items)
  BY StartOfSeq
<1>2. SubSeq(wire, k + 1, Len(wire)) \in Seq(Items)
  BY RestOfSeq
<1>3. SubSeq(wire, 1, k) \o SubSeq(wire, k + 1, Len(wire)) = wire
  <2>1. Len(wire) \in Nat /\ 1 \in 1..Len(wire) + 1 /\ k \in 1 - 1..Len(wire) /\ Len(wire) \in k..Len(wire)
    BY LenProperties
  <2>2. SubSeq(wire, 1, k) \o SubSeq(wire, k + 1, Len(wire)) = SubSeq(wire, 1, Len(wire))
    BY <2>1, ConcatAdjacentSubSeq
  <2> QED BY <2>2, SubSeqFull
<1>4. buffer \o SubSeq(wire, 1, k) \in Seq(Items)
  BY <1>1, ConcatProperties
<1>5. (buffer \o SubSeq(wire, 1, k)) \o SubSeq(wire, k + 1, Len(wire))
          = buffer \o (SubSeq(wire, 1, k) \o SubSeq(wire, k + 1, Len(wire)))
  <2> DEFINE read == SubSeq(wire, 1, k)
             rest == SubSeq(wire, k + 1, Len(wire))
  <2>1. read \in Seq(Items) /\ rest \in Seq(Items)
    BY <1>1, <1>2
  <2> HIDE DEF read, rest
  <2>2. (buffer \o read) \o rest = buffer \o (read \o rest)
    BY <2>1, ConcatAssociative
  <2> QED BY <2>2 DEF read, rest
<1> QED BY <1>2, <1>3, <1>4, <1>5 DEF Way

\* A frame is media and anything else an answer.
LEMMA KindOfItem ==
    ASSUME NEW item \in Items
    PROVE  /\ IsFrame(item) <=> item \in Media
           /\ ~IsFrame(item) <=> item \in Answers
BY DEF Items, Media, Answers, IsFrame

\* The first frames of some items.
LEMMA LeadItems ==
    ASSUME NEW items \in Seq(Items)
    PROVE  /\ SubSeq(items, 1, Lead(items)) \in Seq(Media)
           /\ Len(SubSeq(items, 1, Lead(items))) = Lead(items)
           /\ \A i \in 1..Lead(items) : SubSeq(items, 1, Lead(items))[i] = items[i]
<1>1. Lead(items) \in 0..Len(items) /\ \A i \in 1..Lead(items) : IsFrame(items[i])
  BY LeadProperties
<1>2. \A i \in 1..Lead(items) : items[i] \in Media
  BY <1>1, LenProperties, ElementOfSeq, KindOfItem
<1> QED BY <1>1, <1>2, SubSeqProperties

\* The queue with the first frames of what was read, cut off at its bound.
LEMMA QueuedItems ==
    ASSUME NEW items \in Seq(Items), pending \in Seq(Media)
    PROVE  /\ Queued(items) \in Seq(Media)
           /\ Len(Queued(items)) <= Len(pending) + Lead(items)
           /\ Len(pending) + Lead(items) <= MaxPending =>
                 Len(Queued(items)) = Len(pending) + Lead(items)
           /\ \A i \in 1..Len(Queued(items)) : Queued(items)[i] =
                 IF i <= Len(pending) THEN pending[i] ELSE items[i - Len(pending)]
<1> DEFINE lead == SubSeq(items, 1, Lead(items))
           queue == pending \o lead
<1>1. /\ lead \in Seq(Media) /\ Len(lead) = Lead(items) /\ Lead(items) \in Nat
      /\ \A i \in 1..Lead(items) : lead[i] = items[i]
  BY LeadItems, LeadProperties, LenProperties
<1>2. Len(pending) \in Nat /\ MaxPending \in Nat
  BY LenProperties, SessionAssumption
<1>3. /\ queue \in Seq(Media) /\ Len(queue) = Len(pending) + Lead(items)
      /\ \A i \in 1..Len(queue) : queue[i] =
            IF i <= Len(pending) THEN pending[i] ELSE lead[i - Len(pending)]
  <2> HIDE DEF lead
  <2>1. lead \in Seq(Media)
    BY <1>1
  <2>2. /\ pending \o lead \in Seq(Media) /\ Len(pending \o lead) = Len(pending) + Len(lead)
        /\ \A i \in 1..Len(pending) + Len(lead) : (pending \o lead)[i] =
              IF i <= Len(pending) THEN pending[i] ELSE lead[i - Len(pending)]
    BY <2>1, ConcatProperties
  <2> QED BY <2>2, <1>1
<1>4. \A i \in 1..Len(queue) : queue[i] =
            IF i <= Len(pending) THEN pending[i] ELSE items[i - Len(pending)]
  <2> SUFFICES ASSUME NEW i \in 1..Len(queue), ~(i <= Len(pending))
               PROVE  lead[i - Len(pending)] = items[i - Len(pending)]
    BY <1>3
  <2> HIDE DEF lead, queue
  <2>1. i - Len(pending) \in 1..Lead(items)
    BY <1>1, <1>2, <1>3
  <2> QED BY <2>1, <1>1
<1> HIDE DEF queue
<1>5. CASE Len(queue) <= MaxPending
  <2>1. Queued(items) = queue
    BY <1>5 DEF Queued, queue
  <2> QED BY <2>1, <1>1, <1>2, <1>3, <1>4
<1>6. CASE ~(Len(queue) <= MaxPending)
  <2>1. Queued(items) = SubSeq(queue, 1, MaxPending)
    BY <1>6 DEF Queued, queue
  <2>2. /\ SubSeq(queue, 1, MaxPending) \in Seq(Media)
        /\ Len(SubSeq(queue, 1, MaxPending)) = MaxPending
        /\ \A i \in 1..MaxPending : SubSeq(queue, 1, MaxPending)[i] = queue[i]
    <3>1. \A i \in 1..MaxPending : i \in 1..Len(queue) /\ queue[i] \in Media
      BY <1>1, <1>2, <1>3, <1>6, ElementOfSeq
    <3> QED BY <3>1, <1>2, SubSeqProperties
  <2>3. \A i \in 1..MaxPending : i \in 1..Len(queue)
    BY <1>1, <1>2, <1>3, <1>6
  <2>4. ~(Len(pending) + Lead(items) <= MaxPending) /\ MaxPending <= Len(pending) + Lead(items)
    BY <1>1, <1>2, <1>3, <1>6
  <2> QED BY <2>1, <2>2, <2>3, <2>4, <1>4
<1> QED BY <1>5, <1>6

-----------------------------------------------------------------------------
\* The client has looked at the first d items of the stream ...
Advances(d) == d \in 0..Len(Way) /\ Way' = SubSeq(Way, d + 1, Len(Way))

\* Whichever way read_response goes, it takes the first items off the stream
\* and adds their frames to those collected.
LEMMA ReadAdvances ==
    ASSUME ClientTypes, ServerTypes, NEW k \in 0..Len(wire), read_response(k),
           NEW items, items = buffer \o SubSeq(wire, 1, k)
    PROVE  /\ items \in Seq(Items) /\ buffer' \in Seq(Items) /\ wire' \in Seq(Items)
           /\ Lead(items) \in 0..Len(Way)
           /\ \A i \in 1..Lead(items) : IsFrame(Way[i]) /\ items[i] = Way[i]
           /\ HasAnswer(items) => /\ Advances(Lead(items) + 1) /\ Lead(items) + 1 \in 1..Len(Way)
                                  /\ ~IsFrame(Way[Lead(items) + 1])
                                  /\ items[Lead(items) + 1] = Way[Lead(items) + 1]
           /\ ~HasAnswer(items) => Advances(Lead(items))
<1> DEFINE rest == SubSeq(wire, k + 1, Len(wire))
           l == Lead(items)
<1>1. items \in Seq(Items) /\ rest \in Seq(Items) /\ items \o rest = Way
  BY ReadItems DEF ClientTypes, ServerTypes
<1>2. wire' = rest /\ buffer' = IF HasAnswer(items) THEN SubSeq(items, l + 2, Len(items)) ELSE <<>>
  BY DEF read_response, AfterAnswer
<1> HIDE DEF rest
<1>3. /\ l \in 0..Len(items) /\ \A i \in 1..l : IsFrame(items[i])
      /\ l = Len(items) \/ ~IsFrame(items[l + 1])
  BY <1>1, LeadProperties
<1>4. Len(items) \in Nat /\ Len(rest) \in Nat
  BY <1>1, LenProperties
<1>5. Len(Way) = Len(items) + Len(rest) /\ \A i \in 1..Len(items) : Way[i] = items[i]
  BY <1>1, ConcatSplit
<1> HIDE DEF l
<1>6. l \in 0..Len(Way) /\ \A i \in 1..l : i \in 1..Len(items)
  BY <1>3, <1>4, <1>5
<1>7. CASE HasAnswer(items)
  <2>1. l + 1 \in 0..Len(items) /\ l + 1 \in 1..Len(items) /\ l + 1 + 1 = l + 2
    BY <1>7, <1>3, <1>4 DEF HasAnswer, l
  <2>2. buffer' = SubSeq(items, l + 1 + 1, Len(items)) /\ buffer' \in Seq(Items)
    BY <2>1, <1>1, <1>2, <1>7, RestOfSeq
  <2>3. SubSeq(items, l + 1 + 1, Len(items)) \o rest = SubSeq(items \o rest, l + 1 + 1, Len(items \o rest))
    BY <2>1, <1>1, RestOfConcat
  <2>9. Way' = SubSeq(Way, l + 1 + 1, Len(Way))
    BY <2>2, <2>3, <1>1, <1>2 DEF Way
  <2>4. l + 1 \in 0..Len(Way) /\ l + 1 \in 1..Len(Way)
    BY <2>1, <1>4, <1>5
  <2>5. ~IsFrame(items[l + 1])
    BY <1>3, <1>4, <2>1
  <2> QED BY <1>1, <1>2, <1>3, <1>5, <1>6, <1>7, <2>1, <2>2, <2>9, <2>4, <2>5 DEF l, Advances
<1>8. CASE ~HasAnswer(items)
  <2>1. l = Len(items)
    BY <1>8, <1>3, <1>4 DEF HasAnswer, l
  <2>2. buffer' = <<>> /\ buffer' \in Seq(Items)
    BY <1>2, <1>8, EmptySeq
  <2>3. SubSeq(items, l + 1, Len(items)) = <<>>
    BY <2>1, <1>4, SubSeqEmpty
  <2>5. SubSeq(items, l + 1, Len(items)) \o rest = SubSeq(items \o rest, l + 1, Len(items \o rest))
    BY <1>1, <1>3, RestOfConcat
  <2>4. Way' = SubSeq(Way, l + 1, Len(Way))
    BY <2>2, <2>3, <2>5, <1>1, <1>2 DEF Way
  <2> QED BY <1>1, <1>2, <1>3, <1>5, <1>6, <1>8, <2>2, <2>4 DEF l, Advances
<1> QED BY <1>7, <1>8
\* ... and kept the first n of them.
Collects(n) ==
    /\ n \in Nat
    /\ Len(Collected') = Len(Collected) + n
    /\ \A i \in 1..Len(Collected) : Collected'[i] = Collected[i]
    /\ \A i \in 1..n : Collected'[Len(Collected) + i] = Way[i]

\* The frames handed over come before those that are queued.
LEMMA CollectedItems ==
    ASSUME ClientTypes
    PROVE  /\ Collected \in Seq(Media) /\ Len(Collected) = Len(observed) + Len(pending)
           /\ Len(observed) \in Nat /\ Len(pending) \in Nat
           /\ \A i \in 1..Len(observed) : Collected[i] = observed[i].frame
           /\ \A i \in 1..Len(pending) : Collected[Len(observed) + i] = pending[i]
<1> DEFINE seen == [i \in 1..Len(observed) |-> observed[i].frame]
<1>1. Len(observed) \in Nat /\ Len(pending) \in Nat
  BY LenProperties DEF ClientTypes
<1>2. pending \in Seq(Media)
  BY DEF ClientTypes
<1>3. \A i \in 1..Len(observed) : observed[i].frame \in Media
  <2>1. \A i \in 1..Len(observed) : observed[i] \in Observations
    BY ElementOfSeq DEF ClientTypes
  <2> QED BY <2>1 DEF Observations
<1>4. seen \in Seq(Media) /\ Len(seen) = Len(observed)
  BY <1>1, <1>3
<1>5. \A i \in 1..Len(observed) : seen[i] = observed[i].frame
  OBVIOUS
<1> HIDE DEF seen
<1>6. /\ seen \o pending \in Seq(Media) /\ Len(seen \o pending) = Len(seen) + Len(pending)
      /\ \A i \in 1..Len(seen) : (seen \o pending)[i] = seen[i]
      /\ \A i \in 1..Len(pending) : (seen \o pending)[Len(seen) + i] = pending[i]
  <2>1. seen \in Seq(Media)
    BY <1>4
  <2> QED BY <2>1, <1>2, ConcatSplit
<1>7. Collected = seen \o pending
  BY DEF Collected, seen
<1> QED BY <1>1, <1>4, <1>5, <1>6, <1>7

\* Whoever gets a frame is a track that was set up, or nobody.
LEMMA ReceiverTyped ==
    ASSUME ClientTypes, NEW channel
    PROVE  Receiver(channel) \in Receivers
<1> DEFINE claims(offset) == {t \in Position : runtimes[t] # None /\ runtimes[t] + offset = channel}
           first(set) == CHOOSE t \in set : \A u \in set : t <= u
<1>1. ASSUME NEW set \in SUBSET Position, set # {} PROVE first(set) \in Position
  <2>1. set \in SUBSET Nat
    BY SessionAssumption DEF Position
  <2>2. \E t \in set : \A u \in set : t <= u
    BY <2>1, <1>1, Least
  <2> QED BY <2>2
<1>2. claims(0) \in SUBSET Position /\ claims(1) \in SUBSET Position
  OBVIOUS
<1>3. claims(0) # {} => first(claims(0)) \in Position
  BY <1>1, <1>2
<1>4. claims(1) # {} => first(claims(1)) \in Position
  BY <1>1, <1>2
<1> QED BY <1>3, <1>4 DEF Receiver, Receivers

\* What is read of a stream can be read from its front.
Splits(s, t, w) == s \o t = w

LEMMA Regrouped ==
    ASSUME NEW S, NEW s \in Seq(S), NEW t \in Seq(S), NEW u \in Seq(S), NEW w, Splits(t, u, w)
    PROVE  Splits(s \o t, u, s \o w)
<1>1. (s \o t) \o u = s \o (t \o u)
  BY ConcatAssociative
<1> QED BY <1>1 DEF Splits

\* What the sample has taken, up to the first answer in the buffer.
LEMMA DrainAdvances ==
    ASSUME ClientTypes, ServerTypes, NEW read, NEW rest,
           read \in Seq(Items), rest \in Seq(Items), Splits(read, rest, wire),
           buffer' = SubSeq(buffer, Lead(buffer) + 1, Len(buffer)) \o read, wire' = rest
    PROVE  /\ Lead(buffer) \in Nat /\ buffer' \in Seq(Items) /\ wire' \in Seq(Items)
           /\ \A i \in 1..Lead(buffer) : IsFrame(Way[i]) /\ buffer[i] = Way[i]
           /\ Advances(Lead(buffer))
<1> DEFINE l == Lead(buffer)
           left == SubSeq(buffer, l + 1, Len(buffer))
<1>1. buffer \in Seq(Items) /\ wire \in Seq(Items) /\ Len(buffer) \in Nat /\ Len(wire) \in Nat
  BY LenProperties DEF ClientTypes, ServerTypes
<1>2. l \in 0..Len(buffer) /\ \A i \in 1..l : IsFrame(buffer[i])
  BY <1>1, LeadProperties
<1>3. left \in Seq(Items)
  BY <1>1, <1>2, RestOfSeq
<1>4. left \o wire = SubSeq(Way, l + 1, Len(Way))
  BY <1>1, <1>2, RestOfConcat DEF Way
<1>5. Len(Way) = Len(buffer) + Len(wire) /\ \A i \in 1..Len(buffer) : Way[i] = buffer[i]
  BY <1>1, ConcatSplit DEF Way
<1>6. buffer' = left \o read
  OBVIOUS
<1> HIDE DEF l, left
<1>7. Splits(left \o read, rest, left \o wire)
  BY <1>3, Regrouped
<1>8. Way' = left \o wire
  BY <1>6, <1>7 DEF Way, Splits
<1>9. buffer' \in Seq(Items)
  BY <1>3, <1>6, ConcatProperties
<1>10. l \in 0..Len(Way) /\ \A i \in 1..l : i \in 1..Len(buffer)
  BY <1>1, <1>2, <1>5
<1>11. Advances(l)
  BY <1>4, <1>8, <1>10 DEF Advances
<1> QED BY <1>1, <1>2, <1>5, <1>9, <1>10, <1>11 DEF l
\* The frames that are handed over, each with its track.
LEMMA HandedItems ==
    ASSUME ClientTypes, NEW frames \in Seq(Media)
    PROVE  /\ Handed(frames) \in Seq(Observations)
           /\ Len(Handed(frames)) = IF Endless THEN 0 ELSE Len(frames)
           /\ \A i \in 1..Len(Handed(frames)) : Handed(frames)[i] =
                 [frame |-> frames[i], to |-> Receiver(frames[i].channel)]
<1>1. Len(frames) \in Nat /\ \A i \in 1..Len(frames) : frames[i] \in Media
  BY LenProperties, ElementOfSeq
<1>2. CASE Endless
  BY <1>2, EmptySeq DEF Handed
<1>3. CASE ~Endless
  <2> DEFINE handed == [i \in 1..Len(frames) |-> [frame |-> frames[i], to |-> Receiver(frames[i].channel)]]
  <2>1. Handed(frames) = handed
    BY <1>3 DEF Handed
  <2>2. \A i \in 1..Len(frames) : [frame |-> frames[i], to |-> Receiver(frames[i].channel)] \in Observations
    BY <1>1, ReceiverTyped DEF Observations
  <2>3. handed \in Seq(Observations) /\ Len(handed) = Len(frames)
    BY <1>1, <2>2
  <2> QED BY <1>3, <2>1, <2>3
<1> QED BY <1>2, <1>3

\* Draining the queue and the buffer collects the frames it takes.
LEMMA DrainCollects ==
    ASSUME ClientTypes, ServerTypes, pending' = <<>>,
           observed' = observed \o Handed(pending \o SubSeq(buffer, 1, Lead(buffer)))
    PROVE  /\ observed' \in Seq(Observations) /\ Len(observed') >= Len(observed)
           /\ \A i \in 1..Len(observed) : observed'[i] = observed[i]
           /\ \A i \in Len(observed) + 1..Len(observed') :
                 /\ observed'[i].to = Receiver(observed'[i].frame.channel)
                 /\ \/ \E j \in 1..Len(pending) : observed'[i].frame = pending[j]
                    \/ \E j \in 1..Lead(buffer) : observed'[i].frame = Way[j]
           /\ ~Endless => Collects(Lead(buffer))
<1> DEFINE l == Lead(buffer)
           lead == SubSeq(buffer, 1, l)
           frames == pending \o lead
           handed == Handed(frames)
<1>1. /\ buffer \in Seq(Items) /\ wire \in Seq(Items) /\ pending \in Seq(Media)
      /\ observed \in Seq(Observations)
  BY DEF ClientTypes, ServerTypes
<1>2. Len(buffer) \in Nat /\ Len(pending) \in Nat /\ Len(observed) \in Nat
  BY <1>1, LenProperties
<1>3. l \in 0..Len(buffer)
  BY <1>1, LeadProperties
<1>4. lead \in Seq(Media) /\ Len(lead) = l /\ \A i \in 1..l : lead[i] = buffer[i]
  BY <1>1, LeadItems
<1> HIDE DEF lead, l
<1>5. /\ frames \in Seq(Media) /\ Len(frames) = Len(pending) + Len(lead)
      /\ \A i \in 1..Len(pending) : frames[i] = pending[i]
      /\ \A i \in 1..Len(lead) : frames[Len(pending) + i] = lead[i]
  <2>1. lead \in Seq(Media)
    BY <1>4
  <2> QED BY <2>1, <1>1, ConcatSplit
<1> HIDE DEF frames
<1>6. /\ handed \in Seq(Observations) /\ Len(handed) = IF Endless THEN 0 ELSE Len(frames)
      /\ \A i \in 1..Len(handed) : handed[i] = [frame |-> frames[i], to |-> Receiver(frames[i].channel)]
  BY <1>5, HandedItems
<1>7. observed' = observed \o handed
  BY DEF frames, lead, l
<1> HIDE DEF handed
<1>8. /\ observed' \in Seq(Observations) /\ Len(observed') = Len(observed) + Len(handed)
      /\ \A i \in 1..Len(observed) : observed'[i] = observed[i]
      /\ \A i \in 1..Len(handed) : observed'[Len(observed) + i] = handed[i]
  <2>1. handed \in Seq(Observations)
    BY <1>6
  <2>2. /\ observed \o handed \in Seq(Observations) /\ Len(observed \o handed) = Len(observed) + Len(handed)
        /\ \A i \in 1..Len(observed) : (observed \o handed)[i] = observed[i]
        /\ \A i \in 1..Len(handed) : (observed \o handed)[Len(observed) + i] = handed[i]
    BY <2>1, <1>1, ConcatSplit
  <2> QED BY <2>2, <1>7
<1>9. \A i \in 1..l : Way[i] = buffer[i]
  BY <1>1, <1>2, <1>3, ConcatSplit DEF Way
<1>10. Len(handed) \in Nat /\ Len(frames) \in Nat /\ Len(frames) = Len(pending) + l
  BY <1>2, <1>3, <1>4, <1>5, <1>6, LenProperties
<1>11. ASSUME NEW i \in 1..Len(frames)
       PROVE  \/ \E j \in 1..Len(pending) : frames[i] = pending[j]
              \/ \E j \in 1..l : frames[i] = Way[j]
  <2>1. CASE i <= Len(pending)
    BY <2>1, <1>2, <1>5
  <2>2. CASE ~(i <= Len(pending))
    <3> DEFINE j == i - Len(pending)
    <3>1. j \in 1..l /\ Len(pending) + j = i
      BY <2>2, <1>2, <1>3, <1>10
    <3> HIDE DEF j
    <3> QED BY <3>1, <1>4, <1>5, <1>9
  <2> QED BY <2>1, <2>2
<1>12. ASSUME NEW i \in Len(observed) + 1..Len(observed')
       PROVE  /\ observed'[i].to = Receiver(observed'[i].frame.channel)
              /\ \/ \E j \in 1..Len(pending) : observed'[i].frame = pending[j]
                 \/ \E j \in 1..l : observed'[i].frame = Way[j]
  <2> DEFINE j == i - Len(observed)
  <2>1. j \in 1..Len(handed) /\ Len(observed) + j = i /\ j \in 1..Len(frames)
    BY <1>2, <1>6, <1>8, <1>10
  <2> HIDE DEF j
  <2>2. observed'[i] = [frame |-> frames[j], to |-> Receiver(frames[j].channel)]
    BY <2>1, <1>6, <1>8
  <2> QED BY <2>1, <2>2, <1>11
<1>13. ASSUME ~Endless PROVE Collects(l)
  <2>1. Len(handed) = Len(pending) + l
    BY <1>6, <1>10, <1>13
  <2> DEFINE seen == [i \in 1..Len(observed') |-> observed'[i].frame]
  <2>2. /\ Len(observed') = Len(observed) + (Len(pending) + l)
        /\ \A i \in 1..Len(observed') : observed'[i] \in Observations
    BY <2>1, <1>8, ElementOfSeq
  <2>3. seen \in Seq(Media) /\ Len(seen) = Len(observed')
    BY <2>2, <1>2, <1>3 DEF Observations
  <2>4. \A i \in 1..Len(observed') : seen[i] = observed'[i].frame
    OBVIOUS
  <2>5. Collected' = seen \o <<>>
    BY DEF Collected
  <2> HIDE DEF seen
  <2>6. Collected' = seen
    BY <2>3, <2>5, ConcatEmptySeq
  <2>7. /\ Len(Collected) = Len(observed) + Len(pending)
        /\ \A i \in 1..Len(observed) : Collected[i] = observed[i].frame
        /\ \A i \in 1..Len(pending) : Collected[Len(observed) + i] = pending[i]
    BY CollectedItems
  <2>8. Len(Collected') = Len(Collected) + l /\ l \in Nat
    BY <2>2, <2>3, <2>6, <2>7, <1>2, <1>3
  <2>9. ASSUME NEW i \in 1..Len(frames) PROVE Collected'[Len(observed) + i] = frames[i]
    <3>1. i \in 1..Len(handed) /\ Len(observed) + i \in 1..Len(observed')
      BY <2>1, <2>2, <1>2, <1>3, <1>10
    <3>2. observed'[Len(observed) + i] = [frame |-> frames[i], to |-> Receiver(frames[i].channel)]
      BY <3>1, <1>6, <1>8
    <3> QED BY <3>1, <3>2, <2>4, <2>6
  <2>10. ASSUME NEW i \in 1..Len(Collected) PROVE Collected'[i] = Collected[i]
    <3>1. CASE i <= Len(observed)
      <4>1. i \in 1..Len(observed) /\ i \in 1..Len(observed')
        BY <3>1, <2>2, <2>7, <1>2, <1>3
      <4> QED BY <4>1, <2>4, <2>6, <2>7, <1>8
    <3>2. CASE ~(i <= Len(observed))
      <4> DEFINE j == i - Len(observed)
      <4>1. j \in 1..Len(pending) /\ j \in 1..Len(frames) /\ Len(observed) + j = i
        BY <3>2, <2>7, <1>2, <1>3, <1>10
      <4> HIDE DEF j
      <4>2. Collected'[Len(observed) + j] = frames[j]
        BY <4>1, <2>9
      <4> QED BY <4>1, <4>2, <2>7, <1>5
    <3> QED BY <3>1, <3>2
  <2>11. ASSUME NEW i \in 1..l PROVE Collected'[Len(Collected) + i] = Way[i]
    <3>1. /\ Len(pending) + i \in 1..Len(frames) /\ i \in 1..Len(lead)
          /\ Len(Collected) + i = Len(observed) + (Len(pending) + i)
      BY <2>7, <1>2, <1>3, <1>4, <1>10
    <3>2. Collected'[Len(observed) + (Len(pending) + i)] = frames[Len(pending) + i]
      BY <3>1, <2>9
    <3> QED BY <3>1, <3>2, <1>4, <1>5, <1>9
  <2> QED BY <2>8, <2>10, <2>11 DEF Collects
<1>14. Len(observed') >= Len(observed)
  BY <1>2, <1>8, <1>10
<1> QED BY <1>8, <1>12, <1>13, <1>14 DEF l
LEMMA WayTyped ==
    ASSUME ClientTypes, ServerTypes
    PROVE  /\ Way \in Seq(Items) /\ Len(Way) \in Nat /\ \A i \in 1..Len(Way) : Way[i] \in Items
           /\ Len(Way) = Len(buffer) + Len(wire) /\ Len(buffer) \in Nat /\ Len(wire) \in Nat
           /\ \A i \in 1..Len(buffer) : Way[i] = buffer[i]
           /\ \A i \in 1..Len(wire) : Way[Len(buffer) + i] = wire[i]
<1>1. buffer \in Seq(Items) /\ wire \in Seq(Items)
  BY DEF ClientTypes, ServerTypes
<1>2. /\ Way \in Seq(Items) /\ Len(Way) = Len(buffer) + Len(wire)
      /\ \A i \in 1..Len(buffer) : Way[i] = buffer[i]
      /\ \A i \in 1..Len(wire) : Way[Len(buffer) + i] = wire[i]
  BY <1>1, ConcatSplit DEF Way
<1> QED BY <1>1, <1>2, LenProperties, ElementOfSeq

\* The stream without its first d items.
LEMMA WayAdvanced ==
    ASSUME ClientTypes, ServerTypes, NEW d, Advances(d)
    PROVE  /\ d \in Nat /\ Len(Way') \in Nat /\ Len(Way') = Len(Way) - d
           /\ \A i \in 1..Len(Way') : d + i \in 1..Len(Way) /\ Way'[i] = Way[d + i]
<1>1. Way \in Seq(Items) /\ Len(Way) \in Nat
  BY WayTyped
<1>2. /\ Len(SubSeq(Way, d + 1, Len(Way))) = Len(Way) - d
      /\ \A i \in 1..Len(Way) - d : SubSeq(Way, d + 1, Len(Way))[i] = Way[d + i]
  BY <1>1, RestOfSeq DEF Advances
<1>3. d \in 0..Len(Way) /\ Way' = SubSeq(Way, d + 1, Len(Way))
  BY DEF Advances
<1>4. \A i \in 1..Len(Way) - d : d + i \in 1..Len(Way)
  BY <1>1, <1>3
<1> QED BY <1>1, <1>2, <1>3, <1>4

\* The frames the stream begins with are the next ones of those sent.
LEMMA LeadNumbers ==
    ASSUME ClientTypes, ServerTypes, FramesKept, ~Endless, Len(sent) <= MaxPending,
           NEW l \in 0..Len(Way), \A i \in 1..l : IsFrame(Way[i])
    PROVE  /\ Len(Collected) + l <= Len(sent)
           /\ \A i \in 1..l : Way[i].n = Len(Collected) + i /\ Way[i] = sent[Len(Collected) + i]
<1> DEFINE C == Len(Collected)
           wrong == {i \in 1..l : Way[i].n # C + i}
<1>1. Len(Way) \in Nat /\ C \in Nat /\ Len(sent) \in Nat
  BY WayTyped, CollectedItems, LenProperties DEF ServerTypes
<1>2. /\ C <= Len(sent)
      /\ \A i \in 1..Len(Way) : IsFrame(Way[i]) =>
            /\ Way[i].n \in C + 1..Len(sent) /\ Way[i] = sent[Way[i].n]
            /\ \A j \in 1..i - 1 : IsFrame(Way[j]) => Way[j].n < Way[i].n
      /\ \A n \in C + 1..Len(sent) : \E i \in 1..Len(Way) : IsFrame(Way[i]) /\ Way[i].n = n
  BY DEF FramesKept
<1> HIDE DEF C
<1>3. ASSUME wrong # {} PROVE FALSE
  <2>1. PICK i \in wrong : \A j \in wrong : i <= j
    <3>1. wrong \in SUBSET Nat
      BY <1>1
    <3> HIDE DEF wrong
    <3> QED BY <3>1, <1>3, Least
  <2>2. i \in 1..l /\ i \in 1..Len(Way) /\ Way[i].n # C + i /\ IsFrame(Way[i])
    BY <2>1, <1>1
  <2>3. \A j \in 1..i - 1 : Way[j].n = C + j
    <3> SUFFICES ASSUME NEW j \in 1..i - 1, Way[j].n # C + j PROVE FALSE
      OBVIOUS
    <3>1. j \in wrong
      BY <2>2, <1>1
    <3>2. i <= j
      BY <3>1, <2>1
    <3> QED BY <3>2, <2>2
  <2>4. Way[i].n \in C + 1..Len(sent)
    BY <2>2, <1>2
  <2>5. Way[i].n > C + i
    <3>1. CASE i = 1
      BY <3>1, <2>2, <2>4, <1>1
    <3>2. CASE i # 1
      <4>1. i - 1 \in 1..i - 1 /\ i - 1 \in 1..l /\ i - 1 \in 1..Len(Way)
        BY <3>2, <2>2, <1>1
      <4>2. Way[i - 1].n = C + (i - 1) /\ Way[i - 1].n < Way[i].n
        BY <4>1, <2>2, <2>3, <1>2
      <4> QED BY <4>2, <2>2, <2>4, <1>1
    <3> QED BY <3>1, <3>2
  <2>6. C + i \in C + 1..Len(sent)
    BY <2>2, <2>4, <2>5, <1>1
  <2>7. PICK j \in 1..Len(Way) : IsFrame(Way[j]) /\ Way[j].n = C + i
    BY <2>6, <1>2
  <2>8. CASE j < i
    <3>1. j \in 1..i - 1
      BY <2>8, <2>2
    <3> QED BY <3>1, <2>2, <2>3, <2>7, <1>1
  <2>9. CASE j > i
    <3>1. i \in 1..j - 1
      BY <2>9, <2>2
    <3>2. Way[i].n < Way[j].n
      BY <3>1, <2>2, <2>7, <1>2
    <3> QED BY <3>2, <2>2, <2>4, <2>5, <2>7, <1>1
  <2>10. CASE j = i
    BY <2>10, <2>2, <2>7
  <2> QED BY <2>2, <2>8, <2>9, <2>10
<1>4. ASSUME NEW i \in 1..l PROVE Way[i].n = C + i /\ Way[i] = sent[C + i] /\ C + i <= Len(sent)
  <2>1. Way[i].n = C + i
    BY <1>3
  <2>2. i \in 1..Len(Way)
    BY <1>1
  <2> QED BY <2>1, <2>2, <1>1, <1>2
<1>5. C + l <= Len(sent)
  <2>1. CASE l = 0
    BY <2>1, <1>1, <1>2
  <2>2. CASE l # 0
    <3>1. l \in 1..l
      BY <2>2, <1>1
    <3> QED BY <3>1, <1>4
  <2> QED BY <2>1, <2>2
<1> QED BY <1>4, <1>5 DEF C

\* Taking frames off the stream and collecting them keeps every frame.
LEMMA KeptStep ==
    ASSUME ClientTypes, ServerTypes, FramesKept, UNCHANGED sent,
           NEW l \in 0..Len(Way), \A i \in 1..l : IsFrame(Way[i]),
           NEW d, Advances(d), d = l \/ (d = l + 1 /\ d \in 1..Len(Way) /\ ~IsFrame(Way[d])),
           ~Endless /\ Len(sent) <= MaxPending => Collects(l)
    PROVE  FramesKept'
<1> SUFFICES ASSUME ~Endless, Len(sent) <= MaxPending
    PROVE /\ Len(Collected') <= Len(sent)
          /\ \A i \in 1..Len(Collected') : Collected'[i] = sent[i]
          /\ \A i \in 1..Len(Way') : IsFrame(Way'[i]) =>
                /\ Way'[i].n \in Len(Collected') + 1..Len(sent) /\ Way'[i] = sent[Way'[i].n]
                /\ \A j \in 1..i - 1 : IsFrame(Way'[j]) => Way'[j].n < Way'[i].n
          /\ \A n \in Len(Collected') + 1..Len(sent) :
                \E i \in 1..Len(Way') : IsFrame(Way'[i]) /\ Way'[i].n = n
  BY DEF FramesKept, IsFrame
<1> DEFINE C == Len(Collected)
<1>1. Len(Way) \in Nat /\ C \in Nat /\ Len(sent) \in Nat /\ l \in Nat
  BY WayTyped, CollectedItems, LenProperties DEF ServerTypes
<1>2. /\ C <= Len(sent)
      /\ \A i \in 1..C : Collected[i] = sent[i]
      /\ \A i \in 1..Len(Way) : IsFrame(Way[i]) =>
            /\ Way[i].n \in C + 1..Len(sent) /\ Way[i] = sent[Way[i].n]
            /\ \A j \in 1..i - 1 : IsFrame(Way[j]) => Way[j].n < Way[i].n
      /\ \A n \in C + 1..Len(sent) : \E i \in 1..Len(Way) : IsFrame(Way[i]) /\ Way[i].n = n
  BY DEF FramesKept
<1>3. /\ C + l <= Len(sent)
      /\ \A i \in 1..l : Way[i].n = C + i /\ Way[i] = sent[C + i]
  BY LeadNumbers
<1>4. /\ Len(Collected') = C + l
      /\ \A i \in 1..C : Collected'[i] = Collected[i]
      /\ \A i \in 1..l : Collected'[C + i] = Way[i]
  BY DEF Collects
<1>5. /\ d \in Nat /\ Len(Way') \in Nat /\ Len(Way') = Len(Way) - d
      /\ \A i \in 1..Len(Way') : d + i \in 1..Len(Way) /\ Way'[i] = Way[d + i]
  BY WayAdvanced
<1> HIDE DEF C
<1>6. ASSUME NEW i \in 1..C + l PROVE Collected'[i] = sent[i]
  <2>1. CASE i <= C
    BY <2>1, <1>1, <1>2, <1>4
  <2>2. CASE ~(i <= C)
    <3> DEFINE j == i - C
    <3>1. j \in 1..l /\ C + j = i
      BY <2>2, <1>1
    <3> HIDE DEF j
    <3> QED BY <3>1, <1>3, <1>4
  <2> QED BY <2>1, <2>2
<1>7. ASSUME NEW i \in 1..Len(Way'), IsFrame(Way'[i])
      PROVE  /\ Way'[i].n \in C + l + 1..Len(sent) /\ Way'[i] = sent[Way'[i].n]
             /\ \A j \in 1..i - 1 : IsFrame(Way'[j]) => Way'[j].n < Way'[i].n
  <2>1. d + i \in 1..Len(Way) /\ Way'[i] = Way[d + i] /\ IsFrame(Way[d + i])
    BY <1>5, <1>7
  <2>2. /\ Way[d + i].n \in C + 1..Len(sent) /\ Way[d + i] = sent[Way[d + i].n]
        /\ \A j \in 1..d + i - 1 : IsFrame(Way[j]) => Way[j].n < Way[d + i].n
    <3> DEFINE m == d + i
    <3>1. m \in 1..Len(Way) /\ IsFrame(Way[m])
      BY <2>1
    <3> HIDE DEF m
    <3>2. /\ Way[m].n \in C + 1..Len(sent) /\ Way[m] = sent[Way[m].n]
          /\ \A j \in 1..m - 1 : IsFrame(Way[j]) => Way[j].n < Way[m].n
      BY <3>1, <1>2
    <3> QED BY <3>2 DEF m
  <2>3. Way[d + i].n > C + l
    <3>1. CASE l = 0
      BY <3>1, <2>2, <1>1
    <3>2. CASE l # 0
      <4>0. d \in {l, l + 1} /\ i \in Nat \ {0}
        BY <1>5
      <4>1. l \in 1..l /\ l \in 1..d + i - 1
        BY <3>2, <4>0, <1>1
      <4>2. Way[l].n < Way[d + i].n
        BY <4>1, <2>2
      <4>3. Way[l].n = C + l
        BY <4>1, <1>3
      <4> QED BY <4>2, <4>3, <2>2, <1>1
    <3> QED BY <3>1, <3>2
  <2>4. ASSUME NEW j \in 1..i - 1, IsFrame(Way'[j]) PROVE Way'[j].n < Way'[i].n
    <3>1. j \in 1..Len(Way') /\ d + j \in 1..d + i - 1
      BY <1>5
    <3>2. Way'[j] = Way[d + j]
      BY <3>1, <1>5
    <3> QED BY <3>1, <3>2, <2>1, <2>2, <2>4
  <2>5. Way[d + i].n \in C + l + 1..Len(sent)
    BY <2>2, <2>3, <1>1
  <2> QED BY <2>1, <2>2, <2>4, <2>5
<1>8. ASSUME NEW n \in C + l + 1..Len(sent)
      PROVE  \E i \in 1..Len(Way') : IsFrame(Way'[i]) /\ Way'[i].n = n
  <2>1. n \in C + 1..Len(sent)
    BY <1>1
  <2>2. PICK i \in 1..Len(Way) : IsFrame(Way[i]) /\ Way[i].n = n
    BY <2>1, <1>2
  <2>3. i > l
    <3> SUFFICES ASSUME i <= l PROVE FALSE
      BY <1>1
    <3>1. i \in 1..l
      BY <1>1
    <3> QED BY <3>1, <2>2, <1>1, <1>3
  <2>4. i > d
    BY <2>2, <2>3, <1>1, <1>5
  <2> DEFINE j == i - d
  <2>5. j \in 1..Len(Way') /\ d + j = i
    BY <2>4, <1>1, <1>5
  <2> HIDE DEF j
  <2> QED BY <2>2, <2>5, <1>5
<1> QED BY <1>1, <1>3, <1>4, <1>6, <1>7, <1>8
LEMMA WayExtended ==
    ASSUME ClientTypes, ServerTypes, NEW item \in Items, wire' = Append(wire, item), UNCHANGED buffer
    PROVE  /\ wire' \in Seq(Items) /\ Len(Way') = Len(Way) + 1 /\ Way'[Len(Way) + 1] = item
           /\ \A i \in 1..Len(Way) : Way'[i] = Way[i]
<1>1. buffer \in Seq(Items) /\ wire \in Seq(Items)
  BY DEF ClientTypes, ServerTypes
<1>2. /\ wire' \in Seq(Items) /\ Len(wire') = Len(wire) + 1 /\ wire'[Len(wire) + 1] = item
      /\ \A i \in 1..Len(wire) : wire'[i] = wire[i]
  BY <1>1, AppendProperties
<1>3. /\ Len(Way) = Len(buffer) + Len(wire) /\ Len(buffer) \in Nat /\ Len(wire) \in Nat
      /\ \A i \in 1..Len(buffer) : Way[i] = buffer[i]
      /\ \A i \in 1..Len(wire) : Way[Len(buffer) + i] = wire[i]
  BY WayTyped
<1>4. /\ Len(Way') = Len(buffer) + Len(wire')
      /\ \A i \in 1..Len(buffer) : Way'[i] = buffer[i]
      /\ \A i \in 1..Len(wire') : Way'[Len(buffer) + i] = wire'[i]
  <2>1. Way' = buffer \o wire'
    BY DEF Way
  <2> QED BY <2>1, <1>1, <1>2, ConcatSplit
<1>5. ASSUME NEW i \in 1..Len(Way) PROVE Way'[i] = Way[i]
  <2>1. CASE i <= Len(buffer)
    BY <2>1, <1>3, <1>4
  <2>2. CASE ~(i <= Len(buffer))
    <3> DEFINE j == i - Len(buffer)
    <3>1. j \in 1..Len(wire) /\ j \in 1..Len(wire') /\ Len(buffer) + j = i
      BY <2>2, <1>2, <1>3
    <3> HIDE DEF j
    <3> QED BY <3>1, <1>2, <1>3, <1>4
  <2> QED BY <2>1, <2>2
<1>6. Len(Way') = Len(Way) + 1
  BY <1>2, <1>3, <1>4
<1>7. Way'[Len(Way) + 1] = item
  <2>1. Len(wire) + 1 \in 1..Len(wire') /\ Len(buffer) + (Len(wire) + 1) = Len(Way) + 1
    BY <1>2, <1>3
  <2> QED BY <2>1, <1>2, <1>4
<1> QED BY <1>2, <1>5, <1>6, <1>7

\* An answer that is sent leaves the frames alone; a frame is the next one.
LEMMA KeptExtended ==
    ASSUME ClientTypes, ServerTypes, FramesKept, UNCHANGED client,
           NEW item \in Items, wire' = Append(wire, item),
           \/ ~IsFrame(item) /\ UNCHANGED sent
           \/ IsFrame(item) /\ item.n = Len(sent) + 1 /\ sent' = Append(sent, item)
           \/ Endless /\ UNCHANGED sent
    PROVE  FramesKept'
<1> SUFFICES ASSUME ~Endless, Len(sent') <= MaxPending
    PROVE /\ Len(Collected') <= Len(sent')
          /\ \A i \in 1..Len(Collected') : Collected'[i] = sent'[i]
          /\ \A i \in 1..Len(Way') : IsFrame(Way'[i]) =>
                /\ Way'[i].n \in Len(Collected') + 1..Len(sent') /\ Way'[i] = sent'[Way'[i].n]
                /\ \A j \in 1..i - 1 : IsFrame(Way'[j]) => Way'[j].n < Way'[i].n
          /\ \A n \in Len(Collected') + 1..Len(sent') :
                \E i \in 1..Len(Way') : IsFrame(Way'[i]) /\ Way'[i].n = n
  BY DEF FramesKept, IsFrame
<1>1. /\ Len(Way') = Len(Way) + 1 /\ Way'[Len(Way) + 1] = item
      /\ \A i \in 1..Len(Way) : Way'[i] = Way[i]
  BY WayExtended DEF client
<1>2. Collected' = Collected
  BY DEF client, Collected
<1>3. sent \in Seq(Media) /\ Len(sent) \in Nat /\ Len(Way) \in Nat /\ Len(Collected) \in Nat
  BY WayTyped, CollectedItems, LenProperties DEF ServerTypes
<1>4. MaxPending \in Nat
  BY SessionAssumption
<1>5. CASE ~IsFrame(item) /\ UNCHANGED sent
  <2>1. /\ Len(Collected) <= Len(sent)
        /\ \A i \in 1..Len(Collected) : Collected[i] = sent[i]
        /\ \A i \in 1..Len(Way) : IsFrame(Way[i]) =>
              /\ Way[i].n \in Len(Collected) + 1..Len(sent) /\ Way[i] = sent[Way[i].n]
              /\ \A j \in 1..i - 1 : IsFrame(Way[j]) => Way[j].n < Way[i].n
        /\ \A n \in Len(Collected) + 1..Len(sent) : \E i \in 1..Len(Way) : IsFrame(Way[i]) /\ Way[i].n = n
    BY <1>5 DEF FramesKept
  <2>2. ASSUME NEW i \in 1..Len(Way'), IsFrame(Way'[i])
        PROVE  /\ Way'[i].n \in Len(Collected) + 1..Len(sent) /\ Way'[i] = sent[Way'[i].n]
               /\ \A j \in 1..i - 1 : IsFrame(Way'[j]) => Way'[j].n < Way'[i].n
    <3>1. i \in 1..Len(Way) /\ \A j \in 1..i - 1 : j \in 1..Len(Way)
      BY <1>1, <1>3, <1>5, <2>2
    <3> QED BY <3>1, <2>1, <2>2, <1>1
  <2>3. \A n \in Len(Collected) + 1..Len(sent) : \E i \in 1..Len(Way') : IsFrame(Way'[i]) /\ Way'[i].n = n
    <3>1. \A i \in 1..Len(Way) : i \in 1..Len(Way')
      BY <1>1, <1>3
    <3> QED BY <3>1, <2>1, <1>1
  <2> QED BY <1>2, <1>5, <2>1, <2>2, <2>3
<1>6. CASE IsFrame(item) /\ item.n = Len(sent) + 1 /\ sent' = Append(sent, item)
  <2>0. item \in Media
    BY <1>6, KindOfItem
  <2>1. /\ Len(sent') = Len(sent) + 1 /\ sent'[Len(sent) + 1] = item
        /\ \A i \in 1..Len(sent) : sent'[i] = sent[i]
    BY <1>3, <1>6, <2>0, AppendProperties
  <2>2. /\ Len(Collected) <= Len(sent)
        /\ \A i \in 1..Len(Collected) : Collected[i] = sent[i]
        /\ \A i \in 1..Len(Way) : IsFrame(Way[i]) =>
              /\ Way[i].n \in Len(Collected) + 1..Len(sent) /\ Way[i] = sent[Way[i].n]
              /\ \A j \in 1..i - 1 : IsFrame(Way[j]) => Way[j].n < Way[i].n
        /\ \A n \in Len(Collected) + 1..Len(sent) : \E i \in 1..Len(Way) : IsFrame(Way[i]) /\ Way[i].n = n
    <3>1. Len(sent) <= MaxPending
      BY <2>1, <1>3, <1>4
    <3> QED BY <3>1 DEF FramesKept
  <2>3. Len(Collected) <= Len(sent') /\ \A i \in 1..Len(Collected) : i \in 1..Len(sent)
    BY <2>1, <2>2, <1>3
  <2>4. ASSUME NEW i \in 1..Len(Way'), IsFrame(Way'[i])
        PROVE  /\ Way'[i].n \in Len(Collected) + 1..Len(sent') /\ Way'[i] = sent'[Way'[i].n]
               /\ \A j \in 1..i - 1 : IsFrame(Way'[j]) => Way'[j].n < Way'[i].n
    <3>0. \A j \in 1..i - 1 : j \in 1..Len(Way)
      BY <1>1, <1>3
    <3>1. CASE i \in 1..Len(Way)
      <4>1. /\ Way[i].n \in Len(Collected) + 1..Len(sent) /\ Way[i] = sent[Way[i].n]
            /\ \A j \in 1..i - 1 : IsFrame(Way[j]) => Way[j].n < Way[i].n
        BY <3>1, <2>2, <2>4, <1>1
      <4>2. Way[i].n \in Len(Collected) + 1..Len(sent') /\ Way[i].n \in 1..Len(sent)
        BY <4>1, <2>1, <1>3
      <4> QED BY <4>1, <4>2, <3>0, <3>1, <2>1, <1>1
    <3>2. CASE i = Len(Way) + 1
      <4>1. Way'[i].n = Len(sent) + 1 /\ Way'[i] = sent'[Len(sent) + 1]
        BY <3>2, <2>1, <1>1, <1>6
      <4>2. Len(sent) + 1 \in Len(Collected) + 1..Len(sent')
        BY <2>1, <2>2, <1>3
      <4>3. ASSUME NEW j \in 1..i - 1, IsFrame(Way'[j]) PROVE Way'[j].n < Len(sent) + 1
        <5>1. Way[j].n \in Len(Collected) + 1..Len(sent) /\ Way'[j] = Way[j]
          BY <4>3, <3>0, <2>2, <1>1
        <5> QED BY <5>1, <1>3
      <4> QED BY <4>1, <4>2, <4>3
    <3> QED BY <3>1, <3>2, <1>1, <1>3
  <2>5. ASSUME NEW n \in Len(Collected) + 1..Len(sent')
        PROVE  \E i \in 1..Len(Way') : IsFrame(Way'[i]) /\ Way'[i].n = n
    <3>1. CASE n = Len(sent) + 1
      <4>1. Len(Way) + 1 \in 1..Len(Way')
        BY <1>1, <1>3
      <4> QED BY <3>1, <4>1, <1>1, <1>6
    <3>2. CASE n # Len(sent) + 1
      <4>1. n \in Len(Collected) + 1..Len(sent)
        BY <3>2, <2>1, <1>3
      <4>2. PICK i \in 1..Len(Way) : IsFrame(Way[i]) /\ Way[i].n = n
        BY <4>1, <2>2
      <4>3. i \in 1..Len(Way')
        BY <1>1, <1>3
      <4> QED BY <4>2, <4>3, <1>1
    <3> QED BY <3>1, <3>2
  <2> QED BY <1>2, <2>1, <2>2, <2>3, <2>4, <2>5
<1> QED BY <1>5, <1>6
-----------------------------------------------------------------------------
\* What the end of a request, or its repetition, makes of the client.
Concluded(r) ==
    /\ phase' \in Phases /\ position' \in Position /\ asked' = None /\ retried' \in BOOLEAN
    /\ session' \in Nat \cup {None} /\ errors' \subseteq Position \cup {0}
    /\ runtimes' \in [Position -> Nat \cup {None}]
    /\ \A t \in Position : runtimes'[t] \in Channels \cup {2 * (t - 1), None}
    /\ phase' \in {"OPTIONS", "DESCRIBE"} => position' = 1
    /\ phase' \in Before => phase \in Before /\ \A t \in position'..Tracks : runtimes'[t] = None
    /\ (\E t \in Position : runtimes'[t] # None) => session' # None
    /\ phase' \in {"PLAY", "receive", "TEARDOWN", "done"} => \E t \in Position : runtimes'[t] # None
    /\ phase' \in Before \cup {"PLAY"} => phase \in Before \cup {"PLAY"}
    /\ phase' = "TEARDOWN" => retried'
    /\ \/ runtimes' = runtimes
       \/ /\ phase = "SETUP" /\ r.status = "ok"
          /\ runtimes' = [runtimes EXCEPT ![position] = IF r.channel = None THEN requested ELSE r.channel]

\* There is a track, and its number is one.
LEMMA PositionTyped ==
    /\ Position \subseteq Nat \ {0} /\ Tracks \in Nat \ {0} /\ 1 \in Position
    /\ \A p \in Position : /\ p < Tracks => p + 1 \in Position
                           /\ 2 * (p - 1) \in Nat /\ p \in p..Tracks
BY SessionAssumption DEF Position

\* What the ends of a request have in common: FailConcludes for an error, ...
LEMMA FailConcludes ==
    ASSUME ClientTypes, Progress, phase \in Methods, Fail, NEW r
    PROVE  Concluded(r)
<1>1. /\ asked' = None /\ retried' = FALSE /\ runtimes' = runtimes /\ session' = session
  BY DEF Fail
<1>2. CASE phase = "SETUP"
  <2>1. errors' = errors \cup {position} /\ NextTrack
    BY <1>2 DEF Fail
  <2>2. CASE position < Tracks
    <3>1. phase' = "SETUP" /\ position' = position + 1 /\ position + 1 \in Position
      BY <2>1, <2>2, PositionTyped DEF NextTrack, ClientTypes
    <3>2. \A t \in position'..Tracks : runtimes[t] = None
      BY <3>1, <1>2, PositionTyped DEF Progress, Before, ClientTypes
    <3> QED BY <1>1, <1>2, <2>1, <3>1, <3>2 DEF Concluded, ClientTypes, Progress, Phases, Methods, Before
  <2>3. CASE ~(position < Tracks)
    <3>1. /\ phase' = IF \E t \in Position : runtimes[t] # None THEN "PLAY" ELSE "failed"
          /\ position' = position
      BY <2>1, <2>3, <1>1 DEF NextTrack
    <3> QED BY <1>1, <1>2, <2>1, <3>1 DEF Concluded, ClientTypes, Progress, Phases, Methods, Before
  <2> QED BY <2>2, <2>3
<1>3. CASE phase # "SETUP"
  <2>1. /\ phase' \in {"done", "failed"} /\ position' = position
        /\ errors' \subseteq Position \cup {0}
        /\ phase' = "done" => phase = "TEARDOWN"
    BY <1>3 DEF Fail, ClientTypes
  <2> QED BY <1>1, <2>1 DEF Concluded, ClientTypes, Progress, Phases, Methods, Before
<1> QED BY <1>2, <1>3

\* ... for a first 401, ...
LEMMA ChallengeConcludes ==
    ASSUME ClientTypes, Progress, phase \in Methods, Challenge, NEW r
    PROVE  Concluded(r)
BY DEF Challenge, Concluded, ClientTypes, Progress, Phases, Methods, Before

\* ... for a 2xx answer, ...
LEMMA SucceedConcludes ==
    ASSUME ClientTypes, Progress, phase \in Methods, NEW r \in Answers, Succeed(r),
           phase = "SETUP" => r.status = "ok"
    PROVE  Concluded(r)
<1>1. asked' = None /\ retried' = FALSE
  BY DEF Succeed
<1>2. CASE phase = "SETUP"
  <2> DEFINE channel == IF r.channel = None THEN requested ELSE r.channel
  <2>1. Enrol(r) /\ NextTrack
    BY <1>2 DEF Succeed
  <2>2. /\ session' \in Nat \cup {None}
        /\ session # None => session' # None
    BY <2>1 DEF Enrol, Answers, ClientTypes
  <2>3. channel \in Channels \cup {2 * (position - 1)} /\ channel \in Nat /\ channel # None
    <3>1. r.channel \in Channels \cup {None} /\ position \in Position
      BY DEF Answers, ClientTypes
    <3>2. requested \in Nat /\ \A c \in Channels : c \in Nat
      BY <3>1, PositionTyped, SessionAssumption DEF requested
    <3> QED BY <3>1, <3>2 DEF requested, None
  <2>4. \/ runtimes' = runtimes /\ errors' = errors \cup {position}
        \/ runtimes' = [runtimes EXCEPT ![position] = channel] /\ errors' = errors /\ session' # None
    BY <2>1 DEF Enrol
  <2> HIDE DEF channel
  <2>5. /\ runtimes' \in [Position -> Nat \cup {None}] /\ errors' \subseteq Position \cup {0}
        /\ \A t \in Position : runtimes'[t] \in Channels \cup {2 * (t - 1), None}
        /\ \A t \in Position : t # position => runtimes'[t] = runtimes[t]
    <3>0. /\ runtimes \in [Position -> Nat \cup {None}] /\ errors \subseteq Position \cup {0}
          /\ position \in Position
          /\ \A t \in Position : runtimes[t] \in Channels \cup {2 * (t - 1), None}
      BY DEF ClientTypes
    <3>1. /\ runtimes' \in [Position -> Nat \cup {None}]
          /\ \A t \in Position : t # position => runtimes'[t] = runtimes[t]
          /\ runtimes'[position] \in {runtimes[position], channel}
      BY <3>0, <2>3, <2>4
    <3>2. \A t \in Position : runtimes'[t] \in Channels \cup {2 * (t - 1), None}
      BY <3>0, <3>1, <2>3
    <3>3. errors' \subseteq Position \cup {0}
      BY <3>0, <2>4
    <3> QED BY <3>1, <3>2, <3>3
  <2>6. (\E t \in Position : runtimes'[t] # None) => session' # None
    BY <2>2, <2>4 DEF Progress
  <2>7. runtimes' = runtimes \/ runtimes' = [runtimes EXCEPT ![position] = channel]
    BY <2>4
  <2>8. CASE position < Tracks
    <3>1. phase' = "SETUP" /\ position' = position + 1 /\ position + 1 \in Position
      BY <2>1, <2>8, PositionTyped DEF NextTrack, ClientTypes
    <3>2. ASSUME NEW t \in position'..Tracks PROVE runtimes'[t] = None
      <4>1. t \in Position /\ t # position /\ t \in position..Tracks
        BY <3>1, PositionTyped DEF ClientTypes, Position
      <4> QED BY <4>1, <2>5, <1>2 DEF Progress, Before
    <3> QED BY <1>1, <1>2, <2>2, <2>5, <2>6, <2>7, <3>1, <3>2
        DEF Concluded, Phases, Methods, Before, channel
  <2>9. CASE ~(position < Tracks)
    <3>1. /\ phase' = IF \E t \in Position : runtimes'[t] # None THEN "PLAY" ELSE "failed"
          /\ position' = position /\ position \in Position
      BY <2>1, <2>9 DEF NextTrack, ClientTypes
    <3> QED BY <1>1, <1>2, <2>2, <2>5, <2>6, <2>7, <3>1
        DEF Concluded, Phases, Methods, Before, channel
  <2> QED BY <2>8, <2>9
<1>3. CASE phase # "SETUP"
  <2>1. /\ position' = position /\ session' = session /\ runtimes' = runtimes /\ errors' = errors
        /\ phase' = CASE phase = "OPTIONS" -> "DESCRIBE"
                      [] phase = "DESCRIBE" -> "SETUP"
                      [] phase = "PLAY" -> "receive"
                      [] phase = "TEARDOWN" -> "done"
    BY <1>3 DEF Succeed, Methods
  <2> QED BY <1>1, <1>3, <2>1 DEF Concluded, ClientTypes, Progress, Phases, Methods, Before
<1> QED BY <1>2, <1>3

\* ... and so for whichever answer comes.
LEMMA AnsweredConcludes ==
    ASSUME ClientTypes, Progress, phase \in Methods, NEW r \in Answers, Answered(r)
    PROVE  Concluded(r) /\ taken' = Append(taken, [asked |-> asked, answered |-> r.cseq])
<1>1. r.status \in {"ok", "unauthorized", "refused"}
  BY DEF Answers
<1>2. \/ Challenge \/ Fail
      \/ Succeed(r) /\ (phase = "SETUP" => r.status = "ok")
  BY <1>1 DEF Answered
<1> QED BY <1>2, FailConcludes, ChallengeConcludes, SucceedConcludes DEF Answered
-----------------------------------------------------------------------------
LEMMA OrderedAdvances ==
    ASSUME ClientTypes, ServerTypes, Ordered, NEW d, Advances(d), UNCHANGED <<inbox, cseq>>
    PROVE  Ordered'
<1>1. /\ d \in Nat
      /\ \A i \in 1..Len(Way') : d + i \in 1..Len(Way) /\ Way'[i] = Way[d + i]
  BY WayAdvanced
<1>2. ASSUME NEW i \in 1..Len(inbox')
      PROVE  /\ inbox'[i].cseq < cseq'
             /\ \A j \in 1..i - 1 : inbox'[j].cseq < inbox'[i].cseq
             /\ \A j \in 1..Len(Way') : ~IsFrame(Way'[j]) => Way'[j].cseq < inbox'[i].cseq
  BY <1>1 DEF Ordered
<1>3. ASSUME NEW i \in 1..Len(Way'), ~IsFrame(Way'[i])
      PROVE  /\ Way'[i].cseq < cseq'
             /\ \A j \in 1..i - 1 : ~IsFrame(Way'[j]) => Way'[j].cseq < Way'[i].cseq
  <2> DEFINE m == d + i
  <2>1. m \in 1..Len(Way) /\ Way'[i] = Way[m] /\ \A j \in 1..i - 1 : j \in 1..Len(Way') /\ d + j \in 1..m - 1
    BY <1>1, WayAdvanced
  <2> HIDE DEF m
  <2>2. /\ Way[m].cseq < cseq
        /\ \A j \in 1..m - 1 : ~IsFrame(Way[j]) => Way[j].cseq < Way[m].cseq
    BY <2>1, <1>3 DEF Ordered
  <2>3. \A j \in 1..i - 1 : Way'[j] = Way[d + j]
    BY <2>1, <1>1
  <2> QED BY <2>1, <2>2, <2>3
<1> QED BY <1>2, <1>3 DEF Ordered, IsFrame

\* Taking items off the stream keeps TakenFirst, ...
LEMMA TakenAdvances ==
    ASSUME ClientTypes, ServerTypes, TakenFirst, NEW d, Advances(d), UNCHANGED <<inbox, cseq, taken>>
    PROVE  TakenFirst'
<1>1. \A i \in 1..Len(Way') : d + i \in 1..Len(Way) /\ Way'[i] = Way[d + i]
  BY WayAdvanced
<1>2. ASSUME NEW i \in 1..Len(taken)
      PROVE  \A j \in 1..Len(Way') : ~IsFrame(Way'[j]) => taken[i].answered < Way'[j].cseq
  BY <1>1 DEF TakenFirst
<1> QED BY <1>2 DEF TakenFirst, IsFrame

\* The answer that is used is the first of those on their way.
LEMMA TakenGrows ==
    ASSUME ClientTypes, ServerTypes, Ordered, TakenFirst, asked # None, NEW d, Advances(d),
           d \in 1..Len(Way), ~IsFrame(Way[d]), UNCHANGED <<inbox, cseq>>,
           taken' = Append(taken, [asked |-> asked, answered |-> Way[d].cseq])
    PROVE  TakenFirst' /\ taken' \in Seq([asked : Nat, answered : Nat])
<1> DEFINE last == [asked |-> asked, answered |-> Way[d].cseq]
           N == Len(taken)
<1>1. /\ \A i \in 1..Len(Way') : d + i \in 1..Len(Way) /\ Way'[i] = Way[d + i]
      /\ d \in Nat
  BY WayAdvanced
<1>2. Way[d] \in Answers
  BY WayTyped, KindOfItem
<1>3. /\ cseq \in Nat \ {0} /\ asked = cseq - 1 /\ asked \in Nat
      /\ Way[d].cseq \in Nat /\ Way[d].cseq < cseq
      /\ taken \in Seq([asked : Nat, answered : Nat]) /\ N \in Nat
  BY <1>2, LenProperties DEF ClientTypes, Answers, Ordered
<1>4. last \in [asked : Nat, answered : Nat]
  BY <1>3
<1>5. /\ taken' \in Seq([asked : Nat, answered : Nat])
      /\ Len(taken') = N + 1 /\ taken'[N + 1] = last
      /\ \A i \in 1..N : taken'[i] = taken[i]
  BY <1>3, <1>4, AppendProperties
<1> HIDE DEF N
<1>6. ASSUME NEW i \in 1..N
      PROVE  /\ taken'[i].answered <= taken'[i].asked /\ taken'[i].answered < cseq
             /\ \A j \in 1..i - 1 : taken'[j].answered < taken'[i].answered
             /\ \A j \in 1..Len(inbox) : taken'[i].answered < inbox[j].cseq
             /\ \A j \in 1..Len(Way') : ~IsFrame(Way'[j]) => taken'[i].answered < Way'[j].cseq
  <2>1. taken'[i] = taken[i] /\ \A j \in 1..i - 1 : taken'[j] = taken[j]
    BY <1>3, <1>5
  <2>2. /\ taken[i].answered <= taken[i].asked /\ taken[i].answered < cseq
        /\ \A j \in 1..i - 1 : taken[j].answered < taken[i].answered
        /\ \A j \in 1..Len(inbox) : taken[i].answered < inbox[j].cseq
        /\ \A j \in 1..Len(Way) : ~IsFrame(Way[j]) => taken[i].answered < Way[j].cseq
    BY DEF TakenFirst, N
  <2> QED BY <2>1, <2>2, <1>1
<1>7. /\ last.answered <= last.asked /\ last.answered < cseq
      /\ \A j \in 1..N : taken'[j].answered < last.answered
      /\ \A j \in 1..Len(inbox) : last.answered < inbox[j].cseq
      /\ \A j \in 1..Len(Way') : ~IsFrame(Way'[j]) => last.answered < Way'[j].cseq
  <2>1. \A j \in 1..N : taken[j].answered < Way[d].cseq
    BY DEF TakenFirst, N
  <2>2. \A j \in 1..Len(inbox) : Way[d].cseq < inbox[j].cseq
    BY DEF Ordered
  <2>3. ASSUME NEW j \in 1..Len(Way'), ~IsFrame(Way'[j]) PROVE Way[d].cseq < Way'[j].cseq
    <3> DEFINE m == d + j
    <3>1. m \in 1..Len(Way) /\ Way'[j] = Way[m] /\ d \in 1..m - 1
      BY <1>1
    <3> HIDE DEF m
    <3> QED BY <3>1, <2>3 DEF Ordered
  <2>4. last.answered = Way[d].cseq /\ last.answered <= last.asked /\ last.answered < cseq
    BY <1>3
  <2>5. \A j \in 1..N : taken'[j].answered < last.answered
    BY <2>1, <2>4, <1>5
  <2> QED BY <2>2, <2>3, <2>4, <2>5
<1>8. ASSUME NEW i \in 1..Len(taken')
      PROVE  /\ taken'[i].answered <= taken'[i].asked /\ taken'[i].answered < cseq
             /\ \A j \in 1..i - 1 : taken'[j].answered < taken'[i].answered
             /\ \A j \in 1..Len(inbox) : taken'[i].answered < inbox[j].cseq
             /\ \A j \in 1..Len(Way') : ~IsFrame(Way'[j]) => taken'[i].answered < Way'[j].cseq
  <2>1. CASE i \in 1..N
    BY <2>1, <1>6
  <2>2. CASE i = N + 1
    <3>1. i - 1 = N /\ taken'[i] = last
      BY <2>2, <1>3, <1>5
    <3> QED BY <3>1, <1>7
  <2>3. i \in 1..N \/ i = N + 1
    BY <1>3, <1>5
  <2> QED BY <2>1, <2>2, <2>3
<1> QED BY <1>5, <1>8 DEF TakenFirst, IsFrame

\* Where no request was given up the answer that is used was the only one.
LEMMA PromptTakes ==
    ASSUME ClientTypes, ServerTypes, Ordered, Prompt, NEW d, Advances(d),
           d \in 1..Len(Way), ~IsFrame(Way[d]), UNCHANGED <<inbox, cseq, late, closed>>,
           taken' = Append(taken, [asked |-> asked, answered |-> Way[d].cseq]), ~late
    PROVE  /\ \A i \in 1..Len(Way') : IsFrame(Way'[i])
           /\ ~closed => inbox = <<>>
           /\ \A i \in 1..Len(taken') : taken'[i].answered = taken'[i].asked
<1>1. Way[d].cseq = asked
  BY DEF Prompt
<1>2. Way[d] \in Answers /\ asked \in Nat
  BY <1>1, WayTyped, KindOfItem DEF Answers
<1>3. ASSUME NEW i \in 1..Len(Way'), ~IsFrame(Way'[i]) PROVE FALSE
  <2> DEFINE m == d + i
  <2>1. m \in 1..Len(Way) /\ Way'[i] = Way[m] /\ d \in 1..m - 1
    BY WayAdvanced
  <2> HIDE DEF m
  <2>2. Way[d].cseq < Way[m].cseq
    BY <2>1, <1>3 DEF Ordered
  <2>3. Way[m].cseq = asked
    BY <2>1, <1>3 DEF Prompt
  <2> QED BY <2>2, <2>3, <1>1, <1>2
<1>4. ASSUME ~closed, inbox # <<>> PROVE FALSE
  <2>1. 1 \in 1..Len(inbox)
    BY <1>4, EmptySeq DEF ServerTypes
  <2>2. inbox[1].cseq = asked /\ Way[d].cseq < inbox[1].cseq
    BY <2>1, <1>4 DEF Prompt, Ordered
  <2> QED BY <2>2, <1>1, <1>2
<1>5. /\ Len(taken) \in Nat /\ Len(taken') = Len(taken) + 1
      /\ taken'[Len(taken) + 1] = [asked |-> asked, answered |-> Way[d].cseq]
      /\ \A i \in 1..Len(taken) : taken'[i] = taken[i]
  <2>1. taken \in Seq([asked : Nat, answered : Nat])
    BY DEF ClientTypes
  <2>2. [asked |-> asked, answered |-> Way[d].cseq] \in [asked : Nat, answered : Nat]
    BY <1>1, <1>2
  <2> QED BY <2>1, <2>2, AppendProperties, LenProperties
<1>6. ASSUME NEW i \in 1..Len(taken') PROVE taken'[i].answered = taken'[i].asked
  <2>1. CASE i \in 1..Len(taken)
    BY <2>1, <1>5 DEF Prompt
  <2>2. CASE i = Len(taken) + 1
    BY <2>2, <1>1, <1>5
  <2> QED BY <2>1, <2>2, <1>5
<1> QED BY <1>3, <1>4, <1>6
\* What is still true of the routes once some of the stream was taken.
LEMMA RoutesAdvance ==
    ASSUME ClientTypes, ServerTypes, Routes, NEW d, Advances(d),
           UNCHANGED <<route, playing, late>>, pending' \in Seq(Media),
           \A i \in 1..Len(pending') :
              \/ \E j \in 1..Len(pending) : pending'[i] = pending[j]
              \/ \E j \in 1..Len(Way) : IsFrame(Way[j]) /\ pending'[i] = Way[j],
           phase' \in Before => phase \in Before,
           ~late => \A t \in Position : runtimes'[t] # None => route[t] = runtimes'[t],
           ~late /\ phase' = "SETUP" => \/ phase = "SETUP" /\ UNCHANGED position
                                        \/ \A i \in 1..Len(Way') : IsFrame(Way'[i])
    PROVE  Routes'
<1>1. \A i \in 1..Len(Way') : d + i \in 1..Len(Way) /\ Way'[i] = Way[d + i]
  BY WayAdvanced
<1>2. \A t, u \in Position : t # u /\ route'[t] # None => route'[t] # route'[u]
  BY DEF Routes
<1> SUFFICES ASSUME ~late
    PROVE /\ \A t \in Position : runtimes'[t] # None => route'[t] = runtimes'[t]
          /\ phase' = "SETUP" => \A i \in 1..Len(Way') :
               ~IsFrame(Way'[i]) /\ Way'[i].status = "ok" =>
                  route'[position'] = IF Way'[i].channel = None THEN requested' ELSE Way'[i].channel
          /\ \A i \in 1..Len(Way') : IsFrame(Way'[i]) => Routed(Way[i])'
          /\ \A i \in 1..Len(pending') : Routed(pending[i])'
          /\ phase' \in Before => /\ playing' = {} /\ pending' = <<>>
                                  /\ \A i \in 1..Len(Way') : ~IsFrame(Way'[i])
  BY <1>2 DEF Routes, IsFrame, Routed
<1>3. ASSUME phase' = "SETUP", NEW i \in 1..Len(Way'), ~IsFrame(Way'[i]), Way'[i].status = "ok"
      PROVE  route'[position'] = IF Way'[i].channel = None THEN requested' ELSE Way'[i].channel
  <2>1. phase = "SETUP" /\ position' = position
    BY <1>3
  <2> DEFINE m == d + i
  <2>2. m \in 1..Len(Way) /\ Way'[i] = Way[m]
    BY <1>1
  <2> HIDE DEF m
  <2>3. route[position] = IF Way[m].channel = None THEN requested ELSE Way[m].channel
    BY <2>1, <2>2, <1>3 DEF Routes
  <2> QED BY <2>1, <2>2, <2>3 DEF requested
<1>4. ASSUME NEW f, Routed(f) PROVE Routed(f)'
  BY <1>4 DEF Routed
<1>5. ASSUME NEW i \in 1..Len(Way'), IsFrame(Way'[i]) PROVE Routed(Way[i])'
  <2>1. Routed(Way'[i])
    BY <1>1, <1>5 DEF Routes
  <2> QED BY <2>1 DEF Routed
<1>6. ASSUME NEW i \in 1..Len(pending') PROVE Routed(pending[i])'
  <2>1. Routed(pending'[i])
    BY DEF Routes
  <2> QED BY <2>1 DEF Routed
<1>7. ASSUME phase' \in Before
      PROVE  /\ playing' = {} /\ pending' = <<>>
             /\ \A i \in 1..Len(Way') : ~IsFrame(Way'[i])
  <2>1. phase \in Before
    BY <1>7
  <2>2. playing = {} /\ pending = <<>> /\ \A i \in 1..Len(Way) : ~IsFrame(Way[i])
    BY <2>1 DEF Routes
  <2>3. pending' = <<>>
    <3> SUFFICES ASSUME pending' # <<>> PROVE FALSE
      OBVIOUS
    <3>1. 1 \in 1..Len(pending')
      BY EmptySeq
    <3>2. Len(pending) = 0
      BY <2>2
    <3> QED BY <3>1, <3>2, <2>2
  <2> QED BY <2>2, <2>3, <1>1
<1> QED BY <1>3, <1>5, <1>6, <1>7

\* A turn of read_response keeps the invariant.
LEMMA ReadInv ==
    ASSUME IInv, NEW k \in 0..Len(wire), read_response(k)
    PROVE  IInv'
<1> DEFINE items == buffer \o SubSeq(wire, 1, k)
           l == Lead(items)
           r == items[l + 1]
<1>0. /\ ClientTypes /\ ServerTypes /\ Ordered /\ TakenFirst /\ Prompt /\ Progress
      /\ Routes /\ MediaReachesItsTrack /\ Emptied /\ FramesKept
  BY DEF IInv
<1>1. /\ asked # None /\ UNCHANGED <<cseq, observed, late, server>>
      /\ pending' = Queued(items)
      /\ IF HasAnswer(items) THEN Answered(r)
         ELSE UNCHANGED <<phase, position, asked, retried, session, runtimes, errors, taken>>
  BY DEF read_response
<1>2. /\ items \in Seq(Items) /\ buffer' \in Seq(Items) /\ wire' \in Seq(Items)
      /\ l \in 0..Len(Way)
      /\ \A i \in 1..l : IsFrame(Way[i]) /\ items[i] = Way[i]
      /\ HasAnswer(items) => /\ Advances(l + 1) /\ l + 1 \in 1..Len(Way)
                             /\ ~IsFrame(Way[l + 1]) /\ r = Way[l + 1]
      /\ ~HasAnswer(items) => Advances(l)
  BY <1>0, ReadAdvances
<1>3. phase \in Methods
  BY <1>0, <1>1 DEF Progress
<1>4. /\ pending' \in Seq(Media) /\ Len(pending') <= Len(pending) + l
      /\ Len(pending) + l <= MaxPending => Len(pending') = Len(pending) + l
      /\ \A i \in 1..Len(pending') : pending'[i] = IF i <= Len(pending) THEN pending[i] ELSE items[i - Len(pending)]
  BY <1>0, <1>1, <1>2, QueuedItems DEF ClientTypes
<1> HIDE DEF items, l
<1>5. /\ Len(Way) \in Nat /\ l \in Nat /\ Len(pending) \in Nat /\ Len(observed) \in Nat
      /\ Len(Collected) = Len(observed) + Len(pending) /\ Len(pending') \in Nat
  BY <1>0, <1>2, <1>4, WayTyped, CollectedItems, LenProperties
<1>6. ASSUME NEW i \in 1..Len(pending')
      PROVE  \/ \E j \in 1..Len(pending) : pending'[i] = pending[j]
             \/ \E j \in 1..Len(Way) : IsFrame(Way[j]) /\ pending'[i] = Way[j]
  <2>1. CASE i <= Len(pending)
    BY <2>1, <1>4, <1>5
  <2>2. CASE ~(i <= Len(pending))
    <3> DEFINE j == i - Len(pending)
    <3>0. Len(pending') <= Len(pending) + l /\ l <= Len(Way)
      BY <1>2, <1>4, <1>5
    <3>1. j \in 1..l /\ j \in 1..Len(Way)
      BY <2>2, <3>0, <1>5
    <3>2. pending'[i] = items[j]
      BY <2>2, <1>4
    <3> HIDE DEF j
    <3> QED BY <3>1, <3>2, <1>2
  <2> QED BY <2>1, <2>2
<1>7. ASSUME ~Endless, Len(sent) <= MaxPending PROVE Collects(l)
  <2>1. Len(Collected) + l <= Len(sent) /\ Len(sent) \in Nat /\ MaxPending \in Nat
    BY <1>0, <1>2, <1>7, LeadNumbers, LenProperties, SessionAssumption DEF ServerTypes
  <2>2. Len(pending') = Len(pending) + l
    BY <2>1, <1>4, <1>5, <1>7
  <2> DEFINE seen == [i \in 1..Len(observed) |-> observed[i].frame]
  <2>3. seen \in Seq(Media) /\ Len(seen) = Len(observed)
    <3>1. \A i \in 1..Len(observed) : observed[i] \in Observations
      BY <1>0, ElementOfSeq DEF ClientTypes
    <3>2. \A i \in 1..Len(observed) : observed[i].frame \in Media
      BY <3>1 DEF Observations
    <3> QED BY <3>2, <1>5
  <2>4. Collected' = seen \o pending' /\ Collected = seen \o pending
    BY <1>1 DEF Collected
  <2> HIDE DEF seen
  <2>5. pending \in Seq(Media)
    BY <1>0 DEF ClientTypes
  <2>6. /\ \A i \in 1..Len(seen) : (seen \o pending)[i] = seen[i]
        /\ \A i \in 1..Len(pending) : (seen \o pending)[Len(seen) + i] = pending[i]
    BY <2>3, <2>5, ConcatSplit
  <2>7. /\ Len(seen \o pending') = Len(seen) + Len(pending')
        /\ \A i \in 1..Len(seen) : (seen \o pending')[i] = seen[i]
        /\ \A i \in 1..Len(pending') : (seen \o pending')[Len(seen) + i] = pending'[i]
    <3>1. seen \in Seq(Media) /\ pending' \in Seq(Media)
      BY <2>3, <1>4
    <3> QED BY <3>1, ConcatSplit
  <2>8. Len(Collected') = Len(Collected) + l
    BY <2>2, <2>3, <2>4, <2>7, <1>5
  <2>9. ASSUME NEW i \in 1..Len(Collected) PROVE Collected'[i] = Collected[i]
    <3>1. CASE i <= Len(observed)
      BY <3>1, <2>3, <2>4, <2>6, <2>7, <1>5
    <3>2. CASE ~(i <= Len(observed))
      <4> DEFINE j == i - Len(observed)
      <4>1. j \in 1..Len(pending) /\ j \in 1..Len(pending') /\ Len(seen) + j = i /\ j <= Len(pending)
        BY <3>2, <2>2, <2>3, <1>5
      <4> HIDE DEF j
      <4>2. Collected[i] = pending[j]
        BY <4>1, <2>4, <2>6
      <4>3. Collected'[i] = pending'[j]
        BY <4>1, <2>4, <2>7
      <4> QED BY <4>1, <4>2, <4>3, <1>4
    <3> QED BY <3>1, <3>2
  <2>10. ASSUME NEW i \in 1..l PROVE Collected'[Len(Collected) + i] = Way[i]
    <3> DEFINE j == Len(pending) + i
    <3>1. /\ j \in 1..Len(pending') /\ Len(Collected) + i = Len(seen) + j
          /\ ~(j <= Len(pending)) /\ j - Len(pending) = i
      BY <2>2, <2>3, <1>5
    <3> HIDE DEF j
    <3>2. Collected'[Len(seen) + j] = pending'[j]
      BY <3>1, <2>4, <2>7
    <3>3. pending'[j] = items[i]
      BY <3>1, <1>4
    <3> QED BY <3>1, <3>2, <3>3, <1>2
  <2> QED BY <2>8, <2>9, <2>10, <1>5 DEF Collects
<1>8. ServerTypes'
  BY <1>0, <1>1, <1>2 DEF ServerTypes, server
<1>9. CASE ~HasAnswer(items)
  <2>1. /\ Advances(l)
        /\ UNCHANGED <<phase, position, asked, retried, session, runtimes, errors, taken>>
    BY <1>1, <1>2, <1>9
  <2>2. ClientTypes' /\ Progress'
    BY <2>1, <1>0, <1>1, <1>2, <1>4 DEF ClientTypes, Progress
  <2>3. Ordered' /\ TakenFirst'
    BY <2>1, <1>0, <1>1, OrderedAdvances, TakenAdvances DEF server
  <2>4. Prompt'
    <3>1. \A i \in 1..Len(Way') : \E j \in 1..Len(Way) : Way'[i] = Way[j]
      BY <2>1, <1>0, WayAdvanced
    <3> QED BY <3>1, <2>1, <1>0, <1>1 DEF Prompt, IsFrame, requested, server
  <2>5. Routes'
    <3>1. ~late => \A t \in Position : runtimes'[t] # None => route[t] = runtimes'[t]
      BY <2>1, <1>0 DEF Routes
    <3> QED BY <3>1, <2>1, <1>0, <1>1, <1>4, <1>6, RoutesAdvance DEF server
  <2>6. MediaReachesItsTrack' /\ Emptied'
    BY <2>1, <1>0, <1>1 DEF MediaReachesItsTrack, Emptied
  <2>7. FramesKept'
    BY <2>1, <1>0, <1>1, <1>2, <1>7, KeptStep DEF server
  <2> QED BY <2>2, <2>3, <2>4, <2>5, <2>6, <2>7, <1>8 DEF IInv
<1>10. CASE HasAnswer(items)
  <2>1. /\ Advances(l + 1) /\ l + 1 \in 1..Len(Way) /\ ~IsFrame(Way[l + 1])
        /\ r = Way[l + 1] /\ r \in Answers
    BY <1>0, <1>2, <1>10, WayTyped, KindOfItem
  <2>2. Concluded(r) /\ taken' = Append(taken, [asked |-> asked, answered |-> r.cseq])
    BY <2>1, <1>0, <1>1, <1>3, <1>10, AnsweredConcludes
  <2>3. taken' = Append(taken, [asked |-> asked, answered |-> Way[l + 1].cseq])
    BY <2>1, <2>2
  <2> HIDE DEF r
  <2>4. Ordered'
    BY <2>1, <1>0, <1>1, OrderedAdvances DEF server
  <2>5. TakenFirst' /\ taken' \in Seq([asked : Nat, answered : Nat])
    BY <2>1, <2>3, <1>0, <1>1, TakenGrows DEF server
  <2>6. ASSUME ~late
        PROVE  /\ \A i \in 1..Len(Way') : IsFrame(Way'[i])
               /\ ~closed => inbox = <<>>
               /\ \A i \in 1..Len(taken') : taken'[i].answered = taken'[i].asked
    BY <2>1, <2>3, <2>6, <1>0, <1>1, PromptTakes DEF server
  <2>7. ClientTypes' /\ Progress'
    <3>1. ClientTypes'
      BY <2>2, <2>5, <1>0, <1>1, <1>2, <1>4 DEF ClientTypes, Concluded
    <3>2. Progress'
      BY <2>2, <1>0, <1>1 DEF Progress, Concluded, Before
    <3> QED BY <3>1, <3>2
  <2>8. Prompt'
    BY <2>6, <1>1, EmptySeq DEF Prompt, IsFrame, server
  <2>9. Routes'
    <3>1. ASSUME ~late PROVE \A t \in Position : runtimes'[t] # None => route[t] = runtimes'[t]
      <4>1. \A t \in Position : runtimes[t] # None => route[t] = runtimes[t]
        BY <3>1, <1>0 DEF Routes
      <4>2. CASE runtimes' = runtimes
        BY <4>1, <4>2
      <4>3. CASE /\ phase = "SETUP" /\ r.status = "ok"
                 /\ runtimes' = [runtimes EXCEPT ![position] = IF r.channel = None THEN requested ELSE r.channel]
        <5>1. route[position] = IF r.channel = None THEN requested ELSE r.channel
          BY <3>1, <4>3, <2>1, <1>0 DEF Routes
        <5>2. position \in Position /\ runtimes \in [Position -> Nat \cup {None}]
          BY <1>0 DEF ClientTypes
        <5> QED BY <4>1, <4>3, <5>1, <5>2
      <4> QED BY <4>2, <4>3, <2>2 DEF Concluded
    <3>2. phase' \in Before => phase \in Before
      BY <2>2 DEF Concluded
    <3>3. UNCHANGED <<route, playing, late>>
      BY <1>1 DEF server
    <3> QED BY <3>1, <3>2, <3>3, <2>1, <2>6, <1>0, <1>4, <1>6, RoutesAdvance
  <2>10. MediaReachesItsTrack'
    <3>1. CASE runtimes' = runtimes
      BY <3>1, <1>0, <1>1 DEF MediaReachesItsTrack
    <3>2. CASE phase = "SETUP"
      <4>1. observed' = <<>> /\ Len(observed') = 0
        BY <3>2, <1>0, <1>1 DEF Progress, Before
      <4> QED BY <4>1 DEF MediaReachesItsTrack
    <3> QED BY <3>1, <3>2, <2>2 DEF Concluded
  <2>11. Emptied'
    BY <2>2 DEF Emptied, Concluded
  <2>12. FramesKept'
    <3>1. l + 1 = l \/ (l + 1 = l + 1 /\ l + 1 \in 1..Len(Way) /\ ~IsFrame(Way[l + 1]))
      BY <2>1
    <3> QED BY <3>1, <2>1, <1>0, <1>1, <1>2, <1>7, KeptStep DEF server
  <2> QED BY <2>4, <2>5, <2>7, <2>8, <2>9, <2>10, <2>11, <2>12, <1>8 DEF IInv
<1> QED BY <1>9, <1>10
LEMMA EvenChannels ==
    ASSUME NEW c \in Channels, NEW e \in Channels
    PROVE  c + 1 # e /\ c \in Nat /\ c # None
BY SessionAssumption DEF None

\* A frame with the channel of its track is given to that track.
LEMMA ReceiverRight ==
    ASSUME ClientTypes, ServerTypes, Routes, ~late, NEW f \in Media, Routed(f)
    PROVE  IF runtimes[f.track] = None THEN Receiver(f.channel).track = None
           ELSE Receiver(f.channel) = [track |-> f.track, kind |-> f.kind]
<1> DEFINE t == f.track
           claims(offset) == {u \in Position : runtimes[u] # None /\ runtimes[u] + offset = f.channel}
           first(set) == CHOOSE u \in set : \A v \in set : u <= v
<1>1. /\ t \in Position /\ f.kind \in {"rtp", "rtcp"} /\ route[t] \in Channels
      /\ f.channel = IF f.kind = "rtp" THEN route[t] ELSE route[t] + 1
  BY DEF Media, Routed, ServerTypes
<1>2. \A u \in Position : runtimes[u] # None => runtimes[u] = route[u] /\ route[u] \in Channels
  BY DEF Routes, ServerTypes
<1>3. \A u \in Position : u # t /\ runtimes[u] # None => runtimes[u] # route[t]
  BY <1>1, <1>2 DEF Routes
<1>4. Receiver(f.channel) = IF claims(0) # {} THEN [track |-> first(claims(0)), kind |-> "rtp"]
                            ELSE IF claims(1) # {} THEN [track |-> first(claims(1)), kind |-> "rtcp"]
                            ELSE [track |-> None, kind |-> "none"]
  BY DEF Receiver
<1>5. first({t}) = t
  BY <1>1, PositionTyped
<1>6. CASE f.kind = "rtp"
  <2>1. \A u \in Position : runtimes[u] # None => runtimes[u] + 1 # f.channel
    BY <1>1, <1>2, <1>6, EvenChannels
  <2>2. \A u \in Position : u # t /\ runtimes[u] # None => runtimes[u] + 0 # f.channel
    BY <1>1, <1>2, <1>3, <1>6, EvenChannels
  <2>3. CASE runtimes[t] = None
    <3>1. claims(0) = {} /\ claims(1) = {}
      BY <2>1, <2>2, <2>3
    <3> QED BY <3>1, <2>3, <1>4
  <2>4. CASE runtimes[t] # None
    <3>1. runtimes[t] + 0 = f.channel
      BY <2>4, <1>1, <1>2, <1>6, EvenChannels
    <3>2. claims(0) = {t}
      BY <3>1, <2>2, <2>4, <1>1
    <3> QED BY <3>2, <2>4, <1>4, <1>5, <1>6
  <2> QED BY <2>3, <2>4
<1>7. CASE f.kind = "rtcp"
  <2>1. \A u \in Position : runtimes[u] # None => runtimes[u] + 0 # f.channel
    BY <1>1, <1>2, <1>7, EvenChannels
  <2>2. \A u \in Position : u # t /\ runtimes[u] # None => runtimes[u] + 1 # f.channel
    BY <1>1, <1>2, <1>3, <1>7, EvenChannels
  <2>3. CASE runtimes[t] = None
    <3>1. claims(0) = {} /\ claims(1) = {}
      BY <2>1, <2>2, <2>3
    <3> QED BY <3>1, <2>3, <1>4
  <2>4. CASE runtimes[t] # None
    <3>1. runtimes[t] + 1 = f.channel
      BY <2>4, <1>1, <1>2, <1>7, EvenChannels
    <3>2. claims(1) = {t} /\ claims(0) = {}
      BY <3>1, <2>1, <2>2, <2>4, <1>1
    <3> QED BY <3>2, <2>4, <1>4, <1>5, <1>7
  <2> QED BY <2>3, <2>4
<1> QED BY <1>1, <1>6, <1>7

\* While no request is out, and none was given up, there is no answer.
LEMMA NoAnswer ==
    ASSUME ClientTypes, ServerTypes, Prompt, ~late, asked = None
    PROVE  /\ \A i \in 1..Len(Way) : IsFrame(Way[i])
           /\ ~closed => inbox = <<>>
<1>1. ASSUME NEW i \in 1..Len(Way), ~IsFrame(Way[i]) PROVE FALSE
  <2>1. Way[i] \in Answers
    BY <1>1, WayTyped, KindOfItem
  <2> QED BY <2>1, <1>1 DEF Prompt, Answers, None
<1>2. ASSUME ~closed, inbox # <<>> PROVE FALSE
  <2>1. 1 \in 1..Len(inbox) /\ inbox[1] \in Requests
    BY <1>2, EmptySeq, ElementOfSeq DEF ServerTypes
  <2> QED BY <2>1, <1>2 DEF Prompt, Requests, None
<1> QED BY <1>1, <1>2

\* Sending a request keeps it: nothing older waits if no request was given up.
LEMMA SendInv ==
    ASSUME IInv, send_once
    PROVE  IInv'
<1> DEFINE request == [cseq |-> cseq, method |-> phase, track |-> position, auth |-> retried,
                       session |-> SessionHeader, channel |-> requested]
           N == Len(inbox)
<1>0. /\ ClientTypes /\ ServerTypes /\ Ordered /\ TakenFirst /\ Prompt /\ Progress
      /\ Routes /\ MediaReachesItsTrack /\ Emptied /\ FramesKept
  BY DEF IInv
<1>1. /\ phase \in Methods /\ asked = None /\ cseq' = cseq + 1 /\ asked' = cseq
      /\ inbox' = Append(inbox, request)
      /\ UNCHANGED <<phase, position, retried, session, runtimes, errors, buffer, pending, taken,
                     observed, late, login, route, member, playing, sent, closed, wire>>
  BY DEF send_once
<1>2. request \in Requests /\ (request.method = "PLAY" => request.session # None)
  <2>1. requested \in Nat
    BY <1>0, PositionTyped DEF requested, ClientTypes
  <2>2. phase = "PLAY" => session # None
    BY <1>0 DEF Progress
  <2> QED BY <2>1, <2>2, <1>0, <1>1 DEF Requests, SessionHeader, ClientTypes
<1>3. /\ request.cseq = cseq /\ request.method = phase /\ request.track = position
      /\ request.channel = requested
  OBVIOUS
<1> HIDE DEF request
<1>4. /\ inbox \in Seq(Requests) /\ N \in Nat
      /\ inbox' \in Seq(Requests) /\ Len(inbox') = N + 1 /\ inbox'[N + 1] = request
      /\ \A i \in 1..N : inbox'[i] = inbox[i] /\ inbox[i] \in Requests
  BY <1>0, <1>1, <1>2, AppendProperties, LenProperties, ElementOfSeq DEF ServerTypes
<1>5. Way' = Way /\ Collected' = Collected
  BY <1>1 DEF Way, Collected
<1> HIDE DEF N
<1>6. ClientTypes'
  BY <1>0, <1>1 DEF ClientTypes
<1>7. ServerTypes'
  <2>1. ASSUME NEW i \in 1..Len(inbox'), inbox'[i].method = "PLAY" PROVE inbox'[i].session # None
    <3>1. CASE i \in 1..N
      BY <3>1, <2>1, <1>0, <1>4 DEF ServerTypes, N
    <3>2. CASE i = N + 1
      BY <3>2, <2>1, <1>2, <1>4
    <3> QED BY <3>1, <3>2, <1>4
  <2> QED BY <2>1, <1>0, <1>1, <1>4 DEF ServerTypes
<1>8. \A j \in 1..Len(Way) : ~IsFrame(Way[j]) => Way[j].cseq < cseq
  BY <1>0 DEF Ordered
<1>9. Ordered'
  <2>1. ASSUME NEW i \in 1..Len(inbox')
        PROVE  /\ inbox'[i].cseq < cseq + 1
               /\ \A j \in 1..i - 1 : inbox'[j].cseq < inbox'[i].cseq
               /\ \A j \in 1..Len(Way) : ~IsFrame(Way[j]) => Way[j].cseq < inbox'[i].cseq
    <3>1. CASE i \in 1..N
      <4>1. \A j \in 1..i - 1 : inbox'[j] = inbox[j]
        BY <3>1, <1>4
      <4>2. inbox[i].cseq \in Nat /\ cseq \in Nat
        BY <3>1, <1>0, <1>4 DEF Requests, ClientTypes
      <4> QED BY <3>1, <4>1, <4>2, <1>0, <1>4 DEF Ordered, N
    <3>2. CASE i = N + 1
      <4>1. \A j \in 1..N : inbox'[j].cseq < cseq
        BY <1>0, <1>4 DEF Ordered, N
      <4>2. i - 1 = N /\ cseq < cseq + 1
        BY <3>2, <1>0, <1>4 DEF ClientTypes
      <4> QED BY <3>2, <4>1, <4>2, <1>3, <1>4, <1>8
    <3>3. i \in 1..N \/ i = N + 1
      BY <1>4
    <3> QED BY <3>1, <3>2, <3>3
  <2>2. \A i \in 1..Len(Way) : ~IsFrame(Way[i]) =>
          /\ Way[i].cseq < cseq + 1
          /\ \A j \in 1..i - 1 : ~IsFrame(Way[j]) => Way[j].cseq < Way[i].cseq
    <3>1. \A i \in 1..Len(Way) : ~IsFrame(Way[i]) => Way[i].cseq < cseq + 1
      <4> SUFFICES ASSUME NEW i \in 1..Len(Way), ~IsFrame(Way[i]) PROVE Way[i].cseq < cseq + 1
        OBVIOUS
      <4>1. Way[i].cseq \in Nat /\ cseq \in Nat
        BY <1>0, WayTyped, KindOfItem DEF Answers, ClientTypes
      <4> QED BY <4>1, <1>8
    <3> QED BY <3>1, <1>0 DEF Ordered
  <2> QED BY <2>1, <2>2, <1>1, <1>5 DEF Ordered, IsFrame
<1>10. TakenFirst'
  <2>1. ASSUME NEW i \in 1..Len(taken)
        PROVE  /\ taken[i].answered <= taken[i].asked /\ taken[i].answered < cseq + 1
               /\ \A j \in 1..i - 1 : taken[j].answered < taken[i].answered
               /\ \A j \in 1..Len(inbox') : taken[i].answered < inbox'[j].cseq
               /\ \A j \in 1..Len(Way) : ~IsFrame(Way[j]) => taken[i].answered < Way[j].cseq
    <3>1. /\ taken[i].answered <= taken[i].asked /\ taken[i].answered < cseq
          /\ \A j \in 1..i - 1 : taken[j].answered < taken[i].answered
          /\ \A j \in 1..N : taken[i].answered < inbox[j].cseq
          /\ \A j \in 1..Len(Way) : ~IsFrame(Way[j]) => taken[i].answered < Way[j].cseq
      BY <1>0 DEF TakenFirst, N
    <3>2. taken[i].answered \in Nat /\ cseq \in Nat
      <4>1. taken[i] \in [asked : Nat, answered : Nat]
        BY <1>0, ElementOfSeq DEF ClientTypes
      <4> QED BY <4>1, <1>0 DEF ClientTypes
    <3>3. ASSUME NEW j \in 1..Len(inbox') PROVE taken[i].answered < inbox'[j].cseq
      <4>1. CASE j \in 1..N
        BY <4>1, <3>1, <1>4
      <4>2. CASE j = N + 1
        BY <4>2, <3>1, <1>3, <1>4
      <4> QED BY <4>1, <4>2, <1>4
    <3> QED BY <3>1, <3>2, <3>3
  <2> QED BY <2>1, <1>1, <1>5 DEF TakenFirst, IsFrame
<1>11. Prompt'
  <2> SUFFICES ASSUME ~late PROVE Prompt'
    BY <1>1 DEF Prompt
  <2>1. (\A i \in 1..Len(Way) : IsFrame(Way[i])) /\ (~closed => inbox = <<>>)
    BY <1>0, <1>1, NoAnswer
  <2>2. \A i \in 1..Len(taken) : taken[i].answered = taken[i].asked
    BY <1>0 DEF Prompt
  <2>3. ~closed => N = 0
    BY <2>1 DEF N
  <2>4. ASSUME ~closed, NEW i \in 1..Len(inbox')
        PROVE  /\ inbox'[i].cseq = asked' /\ inbox'[i].method = phase
               /\ inbox'[i].track = position /\ inbox'[i].channel = requested
    BY <2>3, <2>4, <1>1, <1>3, <1>4
  <2> QED BY <2>1, <2>2, <2>4, <1>1, <1>5 DEF Prompt, IsFrame, requested
<1>12. Progress'
  BY <1>0, <1>1 DEF Progress
<1>13. Routes' /\ MediaReachesItsTrack'
  BY <1>0, <1>1, <1>5 DEF Routes, MediaReachesItsTrack, Routed, requested, IsFrame
<1>14. Emptied'
  BY <1>0, <1>1 DEF Emptied, ClientTypes, None
<1>15. FramesKept'
  BY <1>0, <1>1, <1>5 DEF FramesKept, IsFrame
<1> QED BY <1>6, <1>7, <1>9, <1>10, <1>11, <1>12, <1>13, <1>14, <1>15 DEF IInv
LEMMA InitInv ==
    ASSUME Init
    PROVE  IInv
<1>1. /\ Len(<<>>) = 0 /\ <<>> \in Seq(Items) /\ <<>> \in Seq(Media) /\ <<>> \in Seq(Requests)
      /\ <<>> \in Seq(Observations) /\ <<>> \in Seq([asked : Nat, answered : Nat])
  BY EmptySeq
<1>2. Way = <<>> /\ Collected = <<>>
  <2>1. Way = <<>>
    BY <1>1, ConcatEmptySeq DEF Init, Way
  <2>2. [i \in 1..Len(observed) |-> observed[i].frame] = <<>>
    BY <1>1 DEF Init
  <2> QED BY <2>1, <2>2, <1>1, ConcatEmptySeq DEF Init, Collected
<1>3. ClientTypes
  BY <1>1, PositionTyped DEF Init, ClientTypes, Phases, Methods
<1>4. ServerTypes
  <2>1. closed \in BOOLEAN /\ wire \in Seq(Items) /\ inbox \in Seq(Requests) /\ sent \in Seq(Media)
        /\ playing \subseteq Nat /\ Len(inbox) = 0
    BY <1>1 DEF Init
  <2>2. /\ route \in [Position -> Channels \cup {None}] /\ member \in [Position -> Nat \cup {None}]
        /\ \A t \in Position : member[t] = None <=> route[t] = None
    BY DEF Init
  <2> QED BY <2>1, <2>2 DEF ServerTypes
<1>5. Ordered /\ TakenFirst /\ Prompt /\ Routes /\ FramesKept
  BY <1>1, <1>2 DEF Init, Ordered, TakenFirst, Prompt, Routes, FramesKept
<1>6. Progress
  BY <1>1, PositionTyped DEF Init, Progress, Before, Methods, Position
<1>7. MediaReachesItsTrack /\ Emptied
  BY <1>1 DEF Init, MediaReachesItsTrack, Emptied
<1> QED BY <1>3, <1>4, <1>5, <1>6, <1>7 DEF IInv

\* A request is given up: by a timeout, or because the connection is closed
\* and nothing but frames is left of the stream.
LEMMA GiveUpInv ==
    ASSUME IInv, phase \in Methods, Fail, UNCHANGED <<cseq, buffer, pending, taken, observed, server, wire>>,
           \/ late' = TRUE
           \/ late' = late /\ closed /\ (~late => \A i \in 1..Len(Way) : IsFrame(Way[i]))
    PROVE  IInv'
<1>0. /\ ClientTypes /\ ServerTypes /\ Ordered /\ TakenFirst /\ Prompt /\ Progress
      /\ Routes /\ MediaReachesItsTrack /\ Emptied /\ FramesKept
  BY DEF IInv
<1>1. Concluded([status |-> "none"]) /\ retried' = FALSE /\ runtimes' = runtimes
  BY <1>0, FailConcludes DEF Fail
<1>2. Way' = Way /\ Collected' = Collected
  BY DEF Way, Collected
<1>3. late' \in BOOLEAN /\ (~late' => ~late)
  BY <1>0 DEF ClientTypes
<1>4. ClientTypes' /\ ServerTypes'
  BY <1>0, <1>1, <1>3 DEF ClientTypes, ServerTypes, Concluded, server
<1>5. Ordered' /\ TakenFirst' /\ FramesKept'
  BY <1>0, <1>2 DEF Ordered, TakenFirst, FramesKept, IsFrame, server
<1>6. Prompt'
  <2>1. CASE late' = TRUE
    BY <2>1 DEF Prompt
  <2>2. CASE late' = late /\ closed /\ (~late => \A i \in 1..Len(Way) : IsFrame(Way[i]))
    BY <2>2, <1>0, <1>2 DEF Prompt, IsFrame, server
  <2> QED BY <2>1, <2>2
<1>7. Progress'
  BY <1>0, <1>1 DEF Progress, Concluded, Before
<1>8. Routes'
  <2>1. CASE late' = TRUE
    BY <2>1, <1>0 DEF Routes, server
  <2>2. CASE late' = late /\ closed /\ (~late => \A i \in 1..Len(Way) : IsFrame(Way[i]))
    <3>1. UNCHANGED <<route, playing, late, pending>> /\ (phase' \in Before => phase \in Before)
      BY <2>2, <1>1 DEF server, Concluded
    <3> QED BY <3>1, <2>2, <1>0, <1>1, <1>2 DEF Routes, Routed, IsFrame, Before
  <2> QED BY <2>1, <2>2
<1>9. MediaReachesItsTrack' /\ Emptied'
  BY <1>0, <1>1, <1>3 DEF MediaReachesItsTrack, Emptied, Concluded
<1> QED BY <1>4, <1>5, <1>6, <1>7, <1>8, <1>9 DEF IInv

\* A timeout keeps it: from now on an answer may be late.
LEMMA TimeOutInv ==
    ASSUME IInv, TimeOut
    PROVE  IInv'
<1>1. asked # None /\ Fail /\ late' = TRUE /\ UNCHANGED <<cseq, buffer, pending, taken, observed, server, wire>>
  BY DEF TimeOut, Waiting
<1>2. phase \in Methods
  BY <1>1 DEF IInv, Progress
<1> QED BY <1>1, <1>2, GiveUpInv

\* The end of the connection keeps it.
LEMMA DisconnectedInv ==
    ASSUME IInv, Disconnected
    PROVE  IInv'
<1>1. /\ closed /\ (Waiting \/ (phase \in Methods /\ asked = None)) /\ Fail /\ late' = late
      /\ UNCHANGED <<cseq, buffer, pending, taken, observed, server, wire>>
  BY DEF Disconnected
<1>2. phase \in Methods
  BY <1>1 DEF IInv, Progress, Waiting
<1>3. ASSUME ~late PROVE \A i \in 1..Len(Way) : IsFrame(Way[i])
  <2>1. CASE asked = None
    BY <2>1, <1>3, NoAnswer DEF IInv
  <2>2. CASE Waiting
    <3>1. /\ buffer \in Seq(Items) /\ Lead(buffer) \in 0..Len(buffer)
          /\ \A i \in 1..Lead(buffer) : IsFrame(buffer[i])
      BY LeadProperties DEF IInv, ClientTypes
    <3>2. Lead(buffer) = Len(buffer)
      BY <2>2, <3>1, LenProperties DEF Waiting, HasAnswer
    <3>3. Way = buffer
      BY <2>2, <3>1, ConcatEmptySeq DEF Waiting, Way
    <3> QED BY <3>1, <3>2, <3>3
  <2> QED BY <1>1, <2>1, <2>2
<1> QED BY <1>1, <1>2, <1>3, GiveUpInv

\* What follows from any turn of the sample that takes the frames at hand.
LEMMA SampleInv ==
    ASSUME IInv, phase = "receive", phase' \in {"receive", "TEARDOWN"},
           UNCHANGED <<position, cseq, asked, retried, session, runtimes, errors, taken, late, server>>,
           observed' = observed \o Handed(pending \o SubSeq(buffer, 1, Lead(buffer))), pending' = <<>>,
           NEW read, NEW rest, read \in Seq(Items), rest \in Seq(Items), read \o rest = wire,
           buffer' = SubSeq(buffer, Lead(buffer) + 1, Len(buffer)) \o read, wire' = rest,
           phase' = "TEARDOWN" => read = <<>>
    PROVE  IInv'
<1> DEFINE l == Lead(buffer)
<1>0. /\ ClientTypes /\ ServerTypes /\ Ordered /\ TakenFirst /\ Prompt /\ Progress
      /\ Routes /\ MediaReachesItsTrack /\ Emptied /\ FramesKept
  BY DEF IInv
<1>1. asked = None
  BY <1>0 DEF Progress, Methods
<1>2. /\ l \in Nat /\ buffer' \in Seq(Items) /\ wire' \in Seq(Items) /\ Advances(l)
      /\ \A i \in 1..l : IsFrame(Way[i]) /\ buffer[i] = Way[i]
  BY <1>0, DrainAdvances DEF Splits
<1>3. /\ observed' \in Seq(Observations) /\ Len(observed') >= Len(observed)
      /\ \A i \in 1..Len(observed) : observed'[i] = observed[i]
      /\ \A i \in Len(observed) + 1..Len(observed') :
            /\ observed'[i].to = Receiver(observed'[i].frame.channel)
            /\ \/ \E j \in 1..Len(pending) : observed'[i].frame = pending[j]
               \/ \E j \in 1..l : observed'[i].frame = Way[j]
      /\ ~Endless => Collects(l)
  BY <1>0, DrainCollects
<1>4. pending' \in Seq(Media) /\ Len(pending') = 0
  BY EmptySeq
<1>5. l \in 0..Len(Way)
  BY <1>2 DEF Advances
<1>6. ClientTypes' /\ ServerTypes'
  BY <1>0, <1>2, <1>3, <1>4 DEF ClientTypes, ServerTypes, server, Phases, Methods
<1> HIDE DEF l
<1>7. Ordered' /\ TakenFirst'
  BY <1>0, <1>2, OrderedAdvances, TakenAdvances DEF server
<1>8. Prompt'
  <2> SUFFICES ASSUME ~late PROVE Prompt'
    BY DEF Prompt
  <2>1. (\A i \in 1..Len(Way) : IsFrame(Way[i])) /\ (~closed => inbox = <<>>)
    BY <1>0, <1>1, NoAnswer
  <2>2. \A i \in 1..Len(Way') : IsFrame(Way'[i])
    BY <2>1, <1>0, <1>2, WayAdvanced
  <2> QED BY <2>1, <2>2, <1>0, EmptySeq DEF Prompt, IsFrame, server
<1>9. Progress'
  BY <1>0, <1>1 DEF Progress, Before, Methods
<1>10. Routes'
  <2>1. ~late => \A t \in Position : runtimes'[t] # None => route[t] = runtimes'[t]
    BY <1>0 DEF Routes
  <2>2. phase' \notin Before
    BY DEF Before
  <2>3. phase' # "SETUP"
    OBVIOUS
  <2> QED BY <2>1, <2>2, <2>3, <1>0, <1>2, <1>4, RoutesAdvance DEF server
<1>11. MediaReachesItsTrack'
  <2> SUFFICES ASSUME ~late, NEW i \in 1..Len(observed')
               PROVE  IF runtimes[observed'[i].frame.track] = None THEN observed'[i].to.track = None
                      ELSE observed'[i].to = [track |-> observed'[i].frame.track, kind |-> observed'[i].frame.kind]
    BY DEF MediaReachesItsTrack
  <2>0. Len(observed) \in Nat /\ Len(observed') \in Nat
    BY <1>0, <1>3, LenProperties DEF ClientTypes
  <2>1. CASE i \in 1..Len(observed)
    BY <2>1, <1>0, <1>3 DEF MediaReachesItsTrack
  <2>2. CASE i \in Len(observed) + 1..Len(observed')
    <3> DEFINE f == observed'[i].frame
    <3>1. f \in Media
      <4>1. observed'[i] \in Observations
        BY <1>3, ElementOfSeq
      <4> QED BY <4>1 DEF Observations
    <3>2. Routed(f)
      <4>1. CASE \E j \in 1..Len(pending) : f = pending[j]
        BY <4>1, <1>0 DEF Routes
      <4>2. CASE \E j \in 1..l : f = Way[j]
        <5>1. \A j \in 1..l : j \in 1..Len(Way)
          BY <1>0, <1>5, WayTyped
        <5> QED BY <5>1, <4>2, <1>0, <1>2 DEF Routes
      <4> QED BY <4>1, <4>2, <2>2, <1>3
    <3>3. IF runtimes[f.track] = None THEN Receiver(f.channel).track = None
          ELSE Receiver(f.channel) = [track |-> f.track, kind |-> f.kind]
      BY <3>1, <3>2, <1>0, ReceiverRight
    <3> QED BY <3>3, <2>2, <1>3
  <2> QED BY <2>0, <2>1, <2>2
<1>12. Emptied'
  <2> SUFFICES ASSUME ~late, phase' = "TEARDOWN" PROVE buffer' = <<>>
    BY DEF Emptied
  <2>1. \A i \in 1..Len(Way) : IsFrame(Way[i])
    BY <1>0, <1>1, NoAnswer
  <2>2. /\ l \in 0..Len(buffer) /\ Len(buffer) \in Nat /\ buffer \in Seq(Items)
        /\ l = Len(buffer) \/ ~IsFrame(buffer[l + 1])
    BY <1>0, LeadProperties, LenProperties DEF ClientTypes, l
  <2>3. l = Len(buffer)
    <3> SUFFICES ASSUME l # Len(buffer) PROVE FALSE
      OBVIOUS
    <3>1. l + 1 \in 1..Len(buffer) /\ ~IsFrame(buffer[l + 1])
      BY <2>2
    <3>2. Way[l + 1] = buffer[l + 1] /\ l + 1 \in 1..Len(Way)
      BY <3>1, <2>2, <1>0, WayTyped
    <3> QED BY <3>1, <3>2, <2>1
  <2>4. SubSeq(buffer, l + 1, Len(buffer)) = <<>>
    BY <2>2, <2>3, SubSeqEmpty
  <2> QED BY <2>4, EmptySeq, ConcatEmptySeq DEF l
<1>13. FramesKept'
  BY <1>0, <1>2, <1>3, <1>5, KeptStep DEF server
<1> QED BY <1>6, <1>7, <1>8, <1>9, <1>10, <1>11, <1>12, <1>13 DEF IInv

\* A turn of the sample, its end and its cancellation keep it.
LEMMA ReceiveInv ==
    ASSUME IInv, NEW k \in 1..Len(wire), Receive(k)
    PROVE  IInv'
<1> DEFINE read == SubSeq(wire, 1, k)
           rest == SubSeq(wire, k + 1, Len(wire))
<1>1. /\ phase = "receive" /\ phase' = "receive"
      /\ UNCHANGED <<position, cseq, asked, retried, session, runtimes, errors, taken, late, server>>
      /\ observed' = observed \o Handed(pending \o SubSeq(buffer, 1, Lead(buffer))) /\ pending' = <<>>
      /\ buffer' = SubSeq(buffer, Lead(buffer) + 1, Len(buffer)) \o read /\ wire' = rest
  BY DEF Receive
<1>2. wire \in Seq(Items) /\ Len(wire) \in Nat
  BY LenProperties DEF IInv, ServerTypes
<1>3. read \in Seq(Items) /\ rest \in Seq(Items)
  <2>1. k \in 0..Len(wire)
    BY <1>2
  <2> QED BY <2>1, <1>2, StartOfSeq, RestOfSeq
<1>4. read \o rest = wire
  <2>1. 1 \in 1..Len(wire) + 1 /\ k \in 1 - 1..Len(wire) /\ Len(wire) \in k..Len(wire)
    BY <1>2
  <2>2. read \o rest = SubSeq(wire, 1, Len(wire))
    BY <2>1, <1>2, ConcatAdjacentSubSeq
  <2> QED BY <2>2, <1>2, SubSeqFull
<1> HIDE DEF read, rest
<1> QED BY <1>1, <1>3, <1>4, SampleInv

LEMMA EndReceiveInv ==
    ASSUME IInv, EndReceive
    PROVE  IInv'
<1>1. /\ phase = "receive" /\ phase' = "TEARDOWN" /\ wire' = wire
      /\ UNCHANGED <<position, cseq, asked, retried, session, runtimes, errors, taken, late, server>>
      /\ observed' = observed \o Handed(pending \o SubSeq(buffer, 1, Lead(buffer))) /\ pending' = <<>>
      /\ buffer' = SubSeq(buffer, Lead(buffer) + 1, Len(buffer))
  BY DEF EndReceive, Drained
<1>2. wire \in Seq(Items) /\ <<>> \in Seq(Items) /\ <<>> \o wire = wire
  BY EmptySeq, ConcatEmptySeq DEF IInv, ServerTypes
<1>3. buffer' = SubSeq(buffer, Lead(buffer) + 1, Len(buffer)) \o <<>>
  <2>1. Lead(buffer) \in 0..Len(buffer) /\ buffer \in Seq(Items)
    BY LeadProperties DEF IInv, ClientTypes
  <2>2. SubSeq(buffer, Lead(buffer) + 1, Len(buffer)) \in Seq(Items)
    BY <2>1, RestOfSeq
  <2> QED BY <2>2, <1>1, ConcatEmptySeq
<1> QED BY <1>1, <1>2, <1>3, SampleInv

LEMMA CancelInv ==
    ASSUME IInv, Cancel
    PROVE  IInv'
<1>0. /\ ClientTypes /\ ServerTypes /\ Ordered /\ TakenFirst /\ Prompt /\ Progress
      /\ Routes /\ MediaReachesItsTrack /\ Emptied /\ FramesKept
  BY DEF IInv
<1>1. /\ phase = "receive" /\ phase' = "failed"
      /\ UNCHANGED <<position, cseq, asked, retried, session, runtimes, errors, buffer, pending,
                     taken, observed, late, server, wire>>
  BY DEF Cancel
<1>2. Way' = Way /\ Collected' = Collected
  BY <1>1 DEF Way, Collected
<1>3. asked = None
  BY <1>0, <1>1 DEF Progress, Methods
<1>4. ClientTypes' /\ ServerTypes' /\ Progress'
  BY <1>0, <1>1, <1>3 DEF ClientTypes, ServerTypes, Progress, Phases, Before, server
<1>5. Ordered' /\ TakenFirst' /\ FramesKept'
  BY <1>0, <1>1, <1>2 DEF Ordered, TakenFirst, FramesKept, IsFrame, server
<1>6. Prompt'
  <2> SUFFICES ASSUME ~late PROVE Prompt'
    BY <1>1 DEF Prompt
  <2>1. (\A i \in 1..Len(Way) : IsFrame(Way[i])) /\ (~closed => inbox = <<>>)
    BY <1>0, <1>3, NoAnswer
  <2> QED BY <2>1, <1>0, <1>1, <1>2, EmptySeq DEF Prompt, IsFrame, server
<1>7. Routes' /\ MediaReachesItsTrack' /\ Emptied'
  BY <1>0, <1>1, <1>2 DEF Routes, Routed, MediaReachesItsTrack, Emptied, IsFrame, Before, server
<1> QED BY <1>4, <1>5, <1>6, <1>7 DEF IInv
-----------------------------------------------------------------------------
\* What any answer of the server leaves as it was.
LEMMA ReplyKeeps ==
    ASSUME IInv, inbox # <<>>, ~closed, UNCHANGED <<client, login, sent, closed>>,
           NEW status \in {"ok", "unauthorized", "refused"}, NEW s \in Nat \cup {None},
           NEW channel \in Channels \cup {None}, Reply(Head(inbox), status, s, channel)
    PROVE  /\ ClientTypes' /\ Ordered' /\ TakenFirst' /\ Prompt' /\ Progress'
           /\ MediaReachesItsTrack' /\ Emptied' /\ FramesKept'
           /\ wire' \in Seq(Items) /\ inbox' \in Seq(Requests)
           /\ \A i \in 1..Len(inbox') : inbox'[i].method = "PLAY" => inbox'[i].session # None
           /\ Head(inbox) \in Requests /\ Head(inbox) = inbox[1] /\ 1 \in 1..Len(inbox)
           /\ Len(Way') = Len(Way) + 1 /\ Len(Way) \in Nat
           /\ \A i \in 1..Len(Way) : Way'[i] = Way[i]
           /\ Way'[Len(Way) + 1].kind = "answer" /\ Way'[Len(Way) + 1].status = status
           /\ Way'[Len(Way) + 1].channel = channel
           /\ ~late => \A i \in 1..Len(Way) : IsFrame(Way[i])
<1> DEFINE first == inbox[1]
           answer == [kind |-> "answer", cseq |-> first.cseq, status |-> status,
                      session |-> s, channel |-> channel]
           N == Len(inbox)
           L == Len(Way)
<1>0. /\ ClientTypes /\ ServerTypes /\ Ordered /\ TakenFirst /\ Prompt /\ Progress
      /\ Routes /\ MediaReachesItsTrack /\ Emptied /\ FramesKept
  BY DEF IInv
<1>1. /\ inbox \in Seq(Requests) /\ N \in Nat /\ 1 \in 1..N
      /\ Head(inbox) = first /\ first \in Requests
  <2>1. inbox \in Seq(Requests)
    BY <1>0 DEF ServerTypes
  <2>2. N \in Nat /\ 1 \in 1..N
    BY <2>1, EmptySeq
  <2> QED BY <2>1, <2>2, ElementOfSeq
<1>2. inbox' = Tail(inbox) /\ wire' = Append(wire, answer)
  BY <1>1 DEF Reply
<1>3. /\ inbox' \in Seq(Requests) /\ Len(inbox') = N - 1
      /\ \A i \in 1..Len(inbox') : inbox'[i] = inbox[i + 1] /\ i + 1 \in 1..N
  <2>1. /\ Tail(inbox) \in Seq(Requests) /\ Len(Tail(inbox)) = N - 1
        /\ \A i \in 1..Len(Tail(inbox)) : Tail(inbox)[i] = inbox[i + 1]
    BY <1>1, HeadTailProperties
  <2> QED BY <2>1, <1>1, <1>2
<1>4. answer \in Answers /\ answer \in Items /\ ~IsFrame(answer)
  BY <1>1 DEF Answers, Items, IsFrame, Requests
<1>5. /\ answer.kind = "answer" /\ answer.cseq = first.cseq /\ answer.status = status
      /\ answer.channel = channel
  OBVIOUS
<1> HIDE DEF first, answer, N
<1>6. /\ wire' \in Seq(Items) /\ Len(Way') = L + 1 /\ Way'[L + 1] = answer
      /\ \A i \in 1..L : Way'[i] = Way[i]
  BY <1>0, <1>2, <1>4, WayExtended DEF client
<1>7. L \in Nat /\ cseq \in Nat /\ first.cseq \in Nat
  BY <1>0, <1>1, WayTyped DEF ClientTypes, Requests
<1> HIDE DEF L
<1>8. /\ first.cseq < cseq /\ \A i \in 2..N : first.cseq < inbox[i].cseq
      /\ \A j \in 1..L : ~IsFrame(Way[j]) => Way[j].cseq < first.cseq
  <2>1. \A i \in 2..N : i \in 1..N /\ 1 \in 1..i - 1
    BY <1>1
  <2> QED BY <2>1, <1>0, <1>1 DEF Ordered, first, N, L
<1>9. Ordered'
  <2>1. ASSUME NEW i \in 1..Len(inbox')
        PROVE  /\ inbox'[i].cseq < cseq
               /\ \A j \in 1..i - 1 : inbox'[j].cseq < inbox'[i].cseq
               /\ \A j \in 1..Len(Way') : ~IsFrame(Way'[j]) => Way'[j].cseq < inbox'[i].cseq
    <3> DEFINE m == i + 1
    <3>1. /\ m \in 1..N /\ m \in 2..N /\ inbox'[i] = inbox[m]
          /\ \A j \in 1..i - 1 : j + 1 \in 1..m - 1 /\ inbox'[j] = inbox[j + 1]
      BY <1>1, <1>3
    <3> HIDE DEF m
    <3>2. /\ inbox[m].cseq < cseq
          /\ \A j \in 1..m - 1 : inbox[j].cseq < inbox[m].cseq
          /\ \A j \in 1..L : ~IsFrame(Way[j]) => Way[j].cseq < inbox[m].cseq
          /\ first.cseq < inbox[m].cseq
      BY <3>1, <1>0, <1>8 DEF Ordered, N, L
    <3>3. ASSUME NEW j \in 1..Len(Way'), ~IsFrame(Way'[j]) PROVE Way'[j].cseq < inbox[m].cseq
      <4>1. CASE j \in 1..L
        BY <4>1, <3>2, <3>3, <1>6
      <4>2. CASE j = L + 1
        BY <4>2, <3>2, <1>5, <1>6
      <4> QED BY <4>1, <4>2, <1>6, <1>7
    <3> QED BY <3>1, <3>2, <3>3
  <2>2. ASSUME NEW i \in 1..Len(Way'), ~IsFrame(Way'[i])
        PROVE  /\ Way'[i].cseq < cseq
               /\ \A j \in 1..i - 1 : ~IsFrame(Way'[j]) => Way'[j].cseq < Way'[i].cseq
    <3>1. \A j \in 1..i - 1 : j \in 1..L /\ Way'[j] = Way[j]
      BY <1>6, <1>7
    <3>2. CASE i \in 1..L
      BY <3>1, <3>2, <2>2, <1>0, <1>6 DEF Ordered, L
    <3>3. CASE i = L + 1
      BY <3>1, <3>3, <1>5, <1>6, <1>8
    <3> QED BY <3>2, <3>3, <1>6, <1>7
  <2> QED BY <2>1, <2>2 DEF Ordered, IsFrame, client
<1>10. TakenFirst'
  <2>1. ASSUME NEW i \in 1..Len(taken)
        PROVE  /\ taken[i].answered <= taken[i].asked /\ taken[i].answered < cseq
               /\ \A j \in 1..i - 1 : taken[j].answered < taken[i].answered
               /\ \A j \in 1..Len(inbox') : taken[i].answered < inbox'[j].cseq
               /\ \A j \in 1..Len(Way') : ~IsFrame(Way'[j]) => taken[i].answered < Way'[j].cseq
    <3>1. /\ taken[i].answered <= taken[i].asked /\ taken[i].answered < cseq
          /\ \A j \in 1..i - 1 : taken[j].answered < taken[i].answered
          /\ \A j \in 1..N : taken[i].answered < inbox[j].cseq
          /\ \A j \in 1..L : ~IsFrame(Way[j]) => taken[i].answered < Way[j].cseq
      BY <1>0 DEF TakenFirst, N, L
    <3>2. taken[i].answered < first.cseq
      BY <3>1, <1>1 DEF first
    <3>3. ASSUME NEW j \in 1..Len(Way'), ~IsFrame(Way'[j]) PROVE taken[i].answered < Way'[j].cseq
      <4>1. CASE j \in 1..L
        BY <4>1, <3>1, <3>3, <1>6
      <4>2. CASE j = L + 1
        BY <4>2, <3>2, <1>5, <1>6
      <4> QED BY <4>1, <4>2, <1>6, <1>7
    <3> QED BY <3>1, <3>3, <1>3
  <2> QED BY <2>1 DEF TakenFirst, IsFrame, client
<1>11. ~late => \A i \in 1..L : IsFrame(Way[i])
  <2> SUFFICES ASSUME ~late, NEW i \in 1..L, ~IsFrame(Way[i]) PROVE FALSE
    OBVIOUS
  <2>1. Way[i].cseq < first.cseq
    BY <1>8
  <2>2. Way[i].cseq = asked /\ first.cseq = asked
    BY <1>0, <1>1 DEF Prompt, L, N, first
  <2> QED BY <2>1, <2>2, <1>7
<1>12. Prompt'
  <2> SUFFICES ASSUME ~late PROVE Prompt'
    BY DEF Prompt, client
  <2>1. \A i \in 1..Len(Way') : ~IsFrame(Way'[i]) => Way'[i].cseq = asked
    <3>1. first.cseq = asked
      BY <1>0, <1>1 DEF Prompt, N, first
    <3> SUFFICES ASSUME NEW i \in 1..Len(Way'), ~IsFrame(Way'[i]) PROVE Way'[i].cseq = asked
      OBVIOUS
    <3>2. CASE i \in 1..L
      BY <3>2, <1>6, <1>11
    <3>3. CASE i = L + 1
      BY <3>1, <3>3, <1>5, <1>6
    <3> QED BY <3>2, <3>3, <1>6, <1>7
  <2>2. \A i \in 1..Len(inbox') : /\ inbox'[i].cseq = asked /\ inbox'[i].method = phase
                                  /\ inbox'[i].track = position /\ inbox'[i].channel = requested
    BY <1>0, <1>3 DEF Prompt, N
  <2> QED BY <2>1, <2>2, <1>0 DEF Prompt, IsFrame, client, requested
<1>13. ClientTypes' /\ Progress' /\ MediaReachesItsTrack' /\ Emptied'
  BY <1>0 DEF ClientTypes, Progress, MediaReachesItsTrack, Emptied, client
<1>14. FramesKept'
  BY <1>0, <1>2, <1>4, KeptExtended
<1>15. \A i \in 1..Len(inbox') : inbox'[i].method = "PLAY" => inbox'[i].session # None
  BY <1>0, <1>3 DEF ServerTypes, N
<1> QED BY <1>1, <1>3, <1>5, <1>6, <1>7, <1>9, <1>10, <1>11, <1>12, <1>13, <1>14, <1>15
    DEF L, N, first

\* An answer that changes no route and, to SETUP, is no success.
LEMMA PlainReplyInv ==
    ASSUME IInv, inbox # <<>>, ~closed, UNCHANGED <<client, login, sent, closed, route, member>>,
           NEW status \in {"ok", "unauthorized", "refused"}, Reply(Head(inbox), status, None, None),
           status = "ok" => Head(inbox).method # "SETUP",
           \/ playing' \subseteq playing
           \/ Head(inbox).method = "PLAY" /\ playing' = playing \cup {Head(inbox).session}
    PROVE  IInv'
<1>0. /\ ClientTypes /\ ServerTypes /\ Ordered /\ TakenFirst /\ Prompt /\ Progress
      /\ Routes /\ MediaReachesItsTrack /\ Emptied /\ FramesKept
  BY DEF IInv
<1>1. /\ ClientTypes' /\ Ordered' /\ TakenFirst' /\ Prompt' /\ Progress'
      /\ MediaReachesItsTrack' /\ Emptied' /\ FramesKept'
      /\ wire' \in Seq(Items) /\ inbox' \in Seq(Requests)
      /\ \A i \in 1..Len(inbox') : inbox'[i].method = "PLAY" => inbox'[i].session # None
      /\ Head(inbox) \in Requests /\ Head(inbox) = inbox[1] /\ 1 \in 1..Len(inbox)
      /\ Len(Way') = Len(Way) + 1 /\ Len(Way) \in Nat
      /\ \A i \in 1..Len(Way) : Way'[i] = Way[i]
      /\ Way'[Len(Way) + 1].kind = "answer" /\ Way'[Len(Way) + 1].status = status
      /\ ~late => \A i \in 1..Len(Way) : IsFrame(Way[i])
  BY ReplyKeeps
<1>2. playing' \subseteq Nat
  BY <1>0, <1>1 DEF ServerTypes, Requests
<1>3. ServerTypes'
  BY <1>0, <1>1, <1>2 DEF ServerTypes
<1>4. Routes'
  <2>1. \A t, u \in Position : t # u /\ route'[t] # None => route'[t] # route'[u]
    BY <1>0 DEF Routes
  <2> SUFFICES ASSUME ~late
      PROVE /\ \A t \in Position : runtimes[t] # None => route[t] = runtimes[t]
            /\ phase = "SETUP" => \A i \in 1..Len(Way') :
                 ~IsFrame(Way'[i]) /\ Way'[i].status = "ok" =>
                    route[position] = IF Way'[i].channel = None THEN requested ELSE Way'[i].channel
            /\ \A i \in 1..Len(Way') : IsFrame(Way'[i]) => Routed(Way'[i])
            /\ \A i \in 1..Len(pending) : Routed(pending[i])
            /\ phase \in Before => /\ playing' = {} /\ pending = <<>>
                                   /\ \A i \in 1..Len(Way') : ~IsFrame(Way'[i])
    BY <2>1 DEF Routes, Routed, IsFrame, Before, requested, client
  <2>2. Head(inbox).method = phase
    BY <1>0, <1>1 DEF Prompt
  <2>3. \A i \in 1..Len(Way') : i \in 1..Len(Way) \/ i = Len(Way) + 1
    BY <1>1
  <2>4. ASSUME phase = "SETUP", NEW i \in 1..Len(Way'), ~IsFrame(Way'[i]), Way'[i].status = "ok" PROVE FALSE
    BY <2>2, <2>3, <2>4, <1>1
  <2>5. \A i \in 1..Len(Way') : IsFrame(Way'[i]) => i \in 1..Len(Way) /\ Way'[i] = Way[i]
    BY <2>3, <1>1 DEF IsFrame
  <2>6. phase \in Before => playing' \subseteq playing
    BY <2>2 DEF Before
  <2> QED BY <2>4, <2>5, <2>6, <1>0 DEF Routes
<1> QED BY <1>1, <1>3, <1>4 DEF IInv

\* An accepted SETUP keeps it: the channel is free and no media flows yet.
LEMMA AcceptInv ==
    ASSUME IInv, inbox # <<>>, ~closed, UNCHANGED <<client, login, sent, closed>>, Accept(Head(inbox))
    PROVE  IInv'
<1> DEFINE first == Head(inbox)
           t == first.track
           s == IF first.session = None THEN first.cseq ELSE first.session
<1>0. /\ ClientTypes /\ ServerTypes /\ Ordered /\ TakenFirst /\ Prompt /\ Progress
      /\ Routes /\ MediaReachesItsTrack /\ Emptied /\ FramesKept
  BY DEF IInv
<1>1. PICK channel \in Channels, named \in {s, None}, told \in Channels \cup {None} :
         /\ channel \notin {route[u] : u \in Position \ {t}}
         /\ told = channel \/ (told = None /\ channel = first.channel)
         /\ route' = [route EXCEPT ![t] = channel]
         /\ member' = [member EXCEPT ![t] = s]
         /\ Reply(first, "ok", named, told)
  BY DEF Accept
<1>2. first.method = "SETUP" /\ playing' = playing
  BY DEF Accept
<1>3. first \in Requests
  BY <1>0, EmptySeq, ElementOfSeq DEF ServerTypes
<1>4. t \in Position /\ s \in Nat /\ named \in Nat \cup {None}
  BY <1>3 DEF Requests
<1> HIDE DEF first, s
<1>5. /\ ClientTypes' /\ Ordered' /\ TakenFirst' /\ Prompt' /\ Progress'
      /\ MediaReachesItsTrack' /\ Emptied' /\ FramesKept'
      /\ wire' \in Seq(Items) /\ inbox' \in Seq(Requests)
      /\ \A i \in 1..Len(inbox') : inbox'[i].method = "PLAY" => inbox'[i].session # None
      /\ first = inbox[1] /\ 1 \in 1..Len(inbox)
      /\ Len(Way') = Len(Way) + 1 /\ Len(Way) \in Nat
      /\ \A i \in 1..Len(Way) : Way'[i] = Way[i]
      /\ Way'[Len(Way) + 1].kind = "answer" /\ Way'[Len(Way) + 1].channel = told
      /\ ~late => \A i \in 1..Len(Way) : IsFrame(Way[i])
  BY <1>1, <1>4, ReplyKeeps DEF first
<1> HIDE DEF t
<1>6. /\ route \in [Position -> Channels \cup {None}] /\ member \in [Position -> Nat \cup {None}]
      /\ \A u \in Position : member[u] = None <=> route[u] = None
      /\ channel # None /\ s # None
  BY <1>0, <1>4, EvenChannels DEF ServerTypes, None
<1>7. /\ route'[t] = channel /\ member'[t] = s
      /\ \A u \in Position : u # t => route'[u] = route[u] /\ member'[u] = member[u]
      /\ route' \in [Position -> Channels \cup {None}] /\ member' \in [Position -> Nat \cup {None}]
  BY <1>1, <1>4, <1>6
<1>8. ServerTypes'
  BY <1>0, <1>2, <1>4, <1>5, <1>6, <1>7 DEF ServerTypes
<1>9. \A u, v \in Position : u # v /\ route'[u] # None => route'[u] # route'[v]
  <2> SUFFICES ASSUME NEW u \in Position, NEW v \in Position, u # v, route'[u] # None
               PROVE  route'[u] # route'[v]
    OBVIOUS
  <2>1. \A w \in Position : w # t => route[w] # channel
    BY <1>1
  <2>2. CASE u = t
    BY <2>1, <2>2, <1>7
  <2>3. CASE v = t
    BY <2>1, <2>3, <1>7
  <2>4. CASE u # t /\ v # t
    BY <2>4, <1>0, <1>7 DEF Routes
  <2> QED BY <2>2, <2>3, <2>4
<1>10. Routes'
  <2> SUFFICES ASSUME ~late
      PROVE /\ \A u \in Position : runtimes[u] # None => route'[u] = runtimes[u]
            /\ \A i \in 1..Len(Way') :
                 ~IsFrame(Way'[i]) /\ Way'[i].status = "ok" =>
                    route'[position] = IF Way'[i].channel = None THEN requested ELSE Way'[i].channel
            /\ playing = {} /\ pending = <<>>
            /\ \A i \in 1..Len(Way') : ~IsFrame(Way'[i])
    BY <1>2, <1>9, EmptySeq DEF Routes, Routed, IsFrame, Before, requested, client
  <2>1. phase = "SETUP" /\ t = position /\ first.channel = requested
    BY <1>0, <1>2, <1>5 DEF Prompt, t
  <2>2. runtimes[t] = None
    <3>1. t \in position..Tracks
      BY <2>1, <1>4, PositionTyped
    <3> QED BY <3>1, <2>1, <1>0 DEF Progress, Before
  <2>3. playing = {} /\ pending = <<>> /\ \A i \in 1..Len(Way) : ~IsFrame(Way[i])
    BY <2>1, <1>0 DEF Routes, Before
  <2>4. Len(Way) = 0
    <3> SUFFICES ASSUME Len(Way) # 0 PROVE FALSE
      OBVIOUS
    <3>1. 1 \in 1..Len(Way)
      BY <1>5
    <3> QED BY <3>1, <2>3, <1>5
  <2>5. \A i \in 1..Len(Way') : i = Len(Way) + 1
    BY <2>4, <1>5
  <2>6. \A i \in 1..Len(Way') : ~IsFrame(Way'[i]) /\ Way'[i].channel = told
    BY <2>5, <1>5 DEF IsFrame
  <2>7. route'[position] = IF told = None THEN requested ELSE told
    BY <2>1, <1>1, <1>6, <1>7
  <2>8. \A u \in Position : runtimes[u] # None => route'[u] = runtimes[u]
    BY <2>2, <1>0, <1>7 DEF Routes
  <2> QED BY <2>3, <2>6, <2>7, <2>8
<1> QED BY <1>5, <1>8, <1>10 DEF IInv

\* Any answer of the server keeps it.
LEMMA AnswerInv ==
    ASSUME IInv, Answer
    PROVE  IInv'
<1> DEFINE first == Head(inbox)
<1>1. /\ inbox # <<>> /\ ~closed /\ UNCHANGED <<client, login, sent, closed>>
      /\ Accept(first) \/ Agree(first) \/ Refuse(first)
  BY DEF Answer
<1>2. CASE Accept(first)
  BY <1>1, <1>2, AcceptInv
<1>3. CASE Agree(first)
  <2>1. /\ first.method # "SETUP" /\ Reply(first, "ok", None, None) /\ UNCHANGED <<route, member>>
        /\ playing' = CASE first.method = "PLAY"     -> playing \cup {first.session}
                        [] first.method = "TEARDOWN" -> playing \ {first.session}
                        [] OTHER -> playing
    BY <1>3 DEF Agree
  <2>2. playing' \subseteq playing \/ (first.method = "PLAY" /\ playing' = playing \cup {first.session})
    <3> HIDE DEF first
    <3>1. CASE first.method = "PLAY"
      BY <2>1, <3>1
    <3>2. CASE first.method = "TEARDOWN"
      BY <2>1, <3>2
    <3>3. CASE first.method \notin {"PLAY", "TEARDOWN"}
      BY <2>1, <3>3
    <3> QED BY <3>1, <3>2, <3>3
  <2> QED BY <1>1, <2>1, <2>2, PlainReplyInv
<1>4. CASE Refuse(first)
  <2>1. UNCHANGED <<route, member, playing>>
    BY <1>4 DEF Refuse
  <2>2. Reply(first, "unauthorized", None, None) \/ Reply(first, "refused", None, None)
    BY <1>4 DEF Refuse
  <2> QED BY <1>1, <2>1, <2>2, PlainReplyInv
<1> QED BY <1>1, <1>2, <1>3, <1>4

\* So does media that starts before the answer to PLAY, ...
LEMMA StartEarlyInv ==
    ASSUME IInv, StartEarly
    PROVE  IInv'
<1>0. /\ ClientTypes /\ ServerTypes /\ Ordered /\ TakenFirst /\ Prompt /\ Progress
      /\ Routes /\ MediaReachesItsTrack /\ Emptied /\ FramesKept
  BY DEF IInv
<1>1. /\ inbox # <<>> /\ ~closed /\ Head(inbox).method = "PLAY"
      /\ playing' = playing \cup {Head(inbox).session}
      /\ UNCHANGED <<client, login, inbox, route, member, sent, closed, wire>>
  BY DEF StartEarly
<1>2. /\ 1 \in 1..Len(inbox) /\ Head(inbox) = inbox[1] /\ inbox[1] \in Requests
  BY <1>0, <1>1, EmptySeq, ElementOfSeq DEF ServerTypes
<1>3. Way' = Way /\ Collected' = Collected
  BY <1>1 DEF Way, Collected, client
<1>4. playing' \subseteq Nat
  BY <1>0, <1>1, <1>2 DEF ServerTypes, Requests
<1>5. ServerTypes'
  BY <1>0, <1>1, <1>4 DEF ServerTypes
<1>6. ClientTypes' /\ Progress' /\ MediaReachesItsTrack' /\ Emptied'
  BY <1>0, <1>1 DEF ClientTypes, Progress, MediaReachesItsTrack, Emptied, client
<1>7. Ordered' /\ TakenFirst' /\ FramesKept'
  BY <1>0, <1>1, <1>3 DEF Ordered, TakenFirst, FramesKept, IsFrame, client
<1>8. Prompt'
  BY <1>0, <1>1, <1>3 DEF Prompt, IsFrame, requested, client
<1>9. ~late => phase \notin Before
  BY <1>0, <1>1, <1>2 DEF Prompt, Before
<1>10. Routes'
  BY <1>0, <1>1, <1>3, <1>9 DEF Routes, Routed, IsFrame, requested, Before, client
<1> QED BY <1>5, <1>6, <1>7, <1>8, <1>10 DEF IInv

\* ... a frame, which is the next one and on the channel of its track, ...
LEMMA StreamInv ==
    ASSUME IInv, NEW t \in Position, NEW kind \in {"rtp", "rtcp"}, Stream(t, kind)
    PROVE  IInv'
<1> DEFINE frame == [kind |-> kind, track |-> t, n |-> IF Endless THEN 0 ELSE Len(sent) + 1,
                     channel |-> IF kind = "rtp" THEN route[t] ELSE route[t] + 1]
           L == Len(Way)
<1>0. /\ ClientTypes /\ ServerTypes /\ Ordered /\ TakenFirst /\ Prompt /\ Progress
      /\ Routes /\ MediaReachesItsTrack /\ Emptied /\ FramesKept
  BY DEF IInv
<1>1. /\ member[t] \in playing /\ ~closed /\ wire' = Append(wire, frame)
      /\ sent' = IF Endless THEN sent ELSE Append(sent, frame)
      /\ UNCHANGED <<client, login, inbox, route, member, playing, closed>>
  BY DEF Stream
<1>2. /\ sent \in Seq(Media) /\ Len(sent) \in Nat /\ route[t] # None /\ route[t] \in Nat
  <2>1. member[t] # None
    BY <1>0, <1>1 DEF ServerTypes, None
  <2>2. route[t] # None /\ route[t] \in Channels
    BY <2>1, <1>0 DEF ServerTypes
  <2> QED BY <2>2, <1>0, LenProperties, EvenChannels DEF ServerTypes
<1>3. frame \in Media /\ IsFrame(frame)
  BY <1>2 DEF Media, IsFrame
<1>4. /\ frame \in Items /\ Routed(frame)
      /\ ~Endless => frame.n = Len(sent) + 1
  BY <1>2, <1>3 DEF Items, Routed
<1> HIDE DEF frame
<1>5. /\ wire' \in Seq(Items) /\ Len(Way') = L + 1 /\ Way'[L + 1] = frame
      /\ \A i \in 1..L : Way'[i] = Way[i]
  BY <1>0, <1>1, <1>4, WayExtended DEF client
<1>6. L \in Nat
  BY <1>0, WayTyped
<1>7. \A i \in 1..Len(Way') : ~IsFrame(Way'[i]) => i \in 1..L /\ Way'[i] = Way[i]
  BY <1>3, <1>5, <1>6
<1> HIDE DEF L
<1>8. sent' \in Seq(Media)
  BY <1>1, <1>2, <1>3, AppendProperties
<1>9. ServerTypes'
  BY <1>0, <1>1, <1>5, <1>8 DEF ServerTypes
<1>10. ClientTypes' /\ Progress' /\ MediaReachesItsTrack' /\ Emptied'
  BY <1>0, <1>1 DEF ClientTypes, Progress, MediaReachesItsTrack, Emptied, client
<1>11. Ordered'
  <2>1. \A i \in 1..Len(inbox') :
          /\ inbox'[i].cseq < cseq'
          /\ \A j \in 1..i - 1 : inbox'[j].cseq < inbox'[i].cseq
          /\ \A j \in 1..Len(Way') : ~IsFrame(Way'[j]) => Way'[j].cseq < inbox'[i].cseq
    BY <1>0, <1>1, <1>7 DEF Ordered, L, client
  <2>2. ASSUME NEW i \in 1..Len(Way'), ~IsFrame(Way'[i])
        PROVE  /\ Way'[i].cseq < cseq'
               /\ \A j \in 1..i - 1 : ~IsFrame(Way'[j]) => Way'[j].cseq < Way'[i].cseq
    <3>1. i \in 1..L /\ Way'[i] = Way[i]
      BY <2>2, <1>7
    <3>2. \A j \in 1..i - 1 : j \in 1..L /\ Way'[j] = Way[j]
      BY <3>1, <1>5, <1>6
    <3> QED BY <3>1, <3>2, <2>2, <1>0, <1>1 DEF Ordered, L, client
  <2> QED BY <2>1, <2>2 DEF Ordered, IsFrame
<1>12. TakenFirst'
  <2>1. \A i \in 1..Len(taken') :
          /\ taken'[i].answered <= taken'[i].asked /\ taken'[i].answered < cseq'
          /\ \A j \in 1..i - 1 : taken'[j].answered < taken'[i].answered
          /\ \A j \in 1..Len(inbox') : taken'[i].answered < inbox'[j].cseq
          /\ \A j \in 1..Len(Way') : ~IsFrame(Way'[j]) => taken'[i].answered < Way'[j].cseq
    BY <1>0, <1>1, <1>7 DEF TakenFirst, L, client
  <2> QED BY <2>1 DEF TakenFirst, IsFrame
<1>13. Prompt'
  <2>1. ~late => \A i \in 1..Len(Way') : ~IsFrame(Way'[i]) => Way'[i].cseq = asked
    BY <1>0, <1>7 DEF Prompt, L
  <2> QED BY <2>1, <1>0, <1>1 DEF Prompt, IsFrame, requested, client
<1>14. Routes'
  <2>1. \A u, v \in Position : u # v /\ route'[u] # None => route'[u] # route'[v]
    BY <1>0, <1>1 DEF Routes
  <2> SUFFICES ASSUME ~late
      PROVE /\ \A u \in Position : runtimes[u] # None => route[u] = runtimes[u]
            /\ phase = "SETUP" => \A i \in 1..Len(Way') :
                 ~IsFrame(Way'[i]) /\ Way'[i].status = "ok" =>
                    route[position] = IF Way'[i].channel = None THEN requested ELSE Way'[i].channel
            /\ \A i \in 1..Len(Way') : IsFrame(Way'[i]) => Routed(Way'[i])
            /\ \A i \in 1..Len(pending) : Routed(pending[i])
            /\ phase \notin Before
    BY <2>1, <1>1 DEF Routes, Routed, IsFrame, Before, requested, client
  <2>2. phase \notin Before
    BY <1>0, <1>1 DEF Routes
  <2>3. \A i \in 1..Len(Way') : IsFrame(Way'[i]) => Routed(Way'[i])
    <3> SUFFICES ASSUME NEW i \in 1..Len(Way'), IsFrame(Way'[i]) PROVE Routed(Way'[i])
      OBVIOUS
    <3>1. CASE i = L + 1
      BY <3>1, <1>4, <1>5
    <3>2. CASE i \in 1..L
      BY <3>2, <1>0, <1>5 DEF Routes, L
    <3> QED BY <3>1, <3>2, <1>5, <1>6
  <2> QED BY <2>2, <2>3, <1>0 DEF Routes, Before
<1>15. FramesKept'
  BY <1>0, <1>1, <1>3, <1>4, KeptExtended
<1> QED BY <1>9, <1>10, <1>11, <1>12, <1>13, <1>14, <1>15 DEF IInv

\* ... and the server's end of the connection.
LEMMA CloseInv ==
    ASSUME IInv, Close
    PROVE  IInv'
<1>0. /\ ClientTypes /\ ServerTypes /\ Ordered /\ TakenFirst /\ Prompt /\ Progress
      /\ Routes /\ MediaReachesItsTrack /\ Emptied /\ FramesKept
  BY DEF IInv
<1>1. closed' = TRUE /\ UNCHANGED <<client, login, inbox, route, member, playing, sent, wire>>
  BY DEF Close
<1>2. Way' = Way /\ Collected' = Collected
  BY <1>1 DEF Way, Collected, client
<1>3. ServerTypes'
  BY <1>0, <1>1 DEF ServerTypes
<1>4. ClientTypes' /\ Progress' /\ MediaReachesItsTrack' /\ Emptied'
  BY <1>0, <1>1 DEF ClientTypes, Progress, MediaReachesItsTrack, Emptied, client
<1>5. Ordered' /\ TakenFirst' /\ FramesKept'
  BY <1>0, <1>1, <1>2 DEF Ordered, TakenFirst, FramesKept, IsFrame, client
<1>6. Prompt' /\ Routes'
  BY <1>0, <1>1, <1>2 DEF Prompt, Routes, Routed, IsFrame, requested, Before, client
<1> QED BY <1>3, <1>4, <1>5, <1>6 DEF IInv

LEMMA StutterInv ==
    ASSUME IInv, UNCHANGED vars
    PROVE  IInv'
<1>0. /\ ClientTypes /\ ServerTypes /\ Ordered /\ TakenFirst /\ Prompt /\ Progress
      /\ Routes /\ MediaReachesItsTrack /\ Emptied /\ FramesKept
  BY DEF IInv
<1>1. UNCHANGED <<client, server, wire>> /\ Way' = Way /\ Collected' = Collected
  BY DEF vars, Way, Collected, client
<1>2. ClientTypes' /\ ServerTypes' /\ Progress' /\ MediaReachesItsTrack' /\ Emptied'
  BY <1>0, <1>1 DEF ClientTypes, ServerTypes, Progress, MediaReachesItsTrack, Emptied, client, server
<1>3. Ordered' /\ TakenFirst' /\ FramesKept'
  BY <1>0, <1>1 DEF Ordered, TakenFirst, FramesKept, IsFrame, client, server
<1>4. Prompt' /\ Routes'
  BY <1>0, <1>1 DEF Prompt, Routes, Routed, IsFrame, requested, Before, client, server
<1> QED BY <1>2, <1>3, <1>4 DEF IInv

\* Every step keeps the invariant.
LEMMA NextInv ==
    ASSUME IInv, [Next]_vars
    PROVE  IInv'
<1>1. ASSUME send_once PROVE IInv'
  BY <1>1, SendInv
<1>2. ASSUME NEW k \in 0..Len(wire), read_response(k) PROVE IInv'
  BY <1>2, ReadInv
<1>3. ASSUME TimeOut PROVE IInv'
  BY <1>3, TimeOutInv
<1>4. ASSUME Disconnected PROVE IInv'
  BY <1>4, DisconnectedInv
<1>5. ASSUME NEW k \in 1..Len(wire), Receive(k) PROVE IInv'
  BY <1>5, ReceiveInv
<1>6. ASSUME EndReceive PROVE IInv'
  BY <1>6, EndReceiveInv
<1>7. ASSUME Cancel PROVE IInv'
  BY <1>7, CancelInv
<1>8. ASSUME Answer PROVE IInv'
  BY <1>8, AnswerInv
<1>9. ASSUME StartEarly PROVE IInv'
  BY <1>9, StartEarlyInv
<1>10. ASSUME Close PROVE IInv'
  BY <1>10, CloseInv
<1>11. ASSUME NEW t \in Position, NEW kind \in {"rtp", "rtcp"}, Stream(t, kind) PROVE IInv'
  BY <1>11, StreamInv
<1>12. ASSUME UNCHANGED vars PROVE IInv'
  BY <1>12, StutterInv
<1> QED BY <1>1, <1>2, <1>3, <1>4, <1>5, <1>6, <1>7, <1>8, <1>9, <1>10, <1>11, <1>12 DEF Next, Proceed

-----------------------------------------------------------------------------
\* The inductive invariant, for any number of tracks, any even channels and
\* any bounds, whether the media is counted or endless.
THEOREM SessionInvariant == Spec => []IInv
<1>1. Init => IInv
  BY InitInv
<1>2. IInv /\ [Next]_vars => IInv'
  BY NextInv
<1> QED BY <1>1, <1>2, PTL DEF Spec

\* The invariant says what the runs check.
LEMMA NothingMixed ==
    ASSUME IInv
    PROVE  NothingIsMixedUp
<1>0. ClientTypes /\ TakenFirst /\ Prompt /\ MediaReachesItsTrack
  BY DEF IInv
<1>1. taken \in Seq([asked : Nat, answered : Nat]) /\ Len(taken) \in Nat
  BY <1>0, LenProperties DEF ClientTypes
<1>2. \A i \in 2..Len(taken) : i \in 1..Len(taken) /\ i - 1 \in 1..i - 1
  BY <1>1
<1>3. AnswersMatch
  BY <1>0, <1>2 DEF AnswersMatch, TakenFirst, Prompt
<1> QED BY <1>0, <1>3 DEF NothingIsMixedUp

LEMMA MediaKept ==
    ASSUME IInv
    PROVE  MediaIsKept
<1>0. ClientTypes /\ ServerTypes /\ Progress /\ Emptied /\ FramesKept
  BY DEF IInv
<1>1. TypeOK
  <2>1. \A i \in 1..Len(pending) : IsFrame(pending[i])
    <3>1. pending \in Seq(Media)
      BY <1>0 DEF ClientTypes
    <3>2. \A i \in 1..Len(pending) : pending[i] \in Media
      BY <3>1, ElementOfSeq
    <3> QED BY <3>2 DEF Media, IsFrame
  <2>2. asked \in 0..cseq \cup {None}
    BY <1>0 DEF ClientTypes
  <2> QED BY <2>1, <2>2, <1>0 DEF TypeOK, ClientTypes, Progress, Phases
<1>2. late \/ OtherTracksContinue
  <2> SUFFICES ASSUME ~late, phase = "TEARDOWN", asked = None, ~retried PROVE Len(buffer) = 0
    BY DEF OtherTracksContinue
  <2> QED BY <1>0, EmptySeq DEF Emptied
<1> QED BY <1>0, <1>1, <1>2 DEF MediaIsKept

\* Every answer is used in order and at most once, for its own request unless
\* one was given up, and every frame is handed to its own track or to nobody.
THEOREM NothingIsMixed == Spec => []NothingIsMixedUp
<1>1. IInv => NothingIsMixedUp
  BY NothingMixed
<1> QED BY <1>1, SessionInvariant, PTL

\* The types; no frame is lost, repeated or overtaken between the network and
\* the tracks while the queue has room for all; and when the sample ends
\* everything that had arrived before has been handed over.
THEOREM MediaStaysKept == Spec => []MediaIsKept
<1>1. IInv => MediaIsKept
  BY MediaKept
<1> QED BY <1>1, SessionInvariant, PTL
=============================================================================
