---------------------------- MODULE TcpReassembly ---------------------------
(***************************************************************************)
(* crates/capture/src/tcp.rs, struct Reassembly: one direction of a        *)
(* captured TCP connection is put back in order.  A capture may start in   *)
(* the middle of a connection, lose frames, and hold retransmissions and   *)
(* overlapping segments; sequence numbers wrap at 2^32.                    *)
(*                                                                         *)
(* The byte at true stream position i is represented by i itself, so a     *)
(* chunk is the true position of its first byte and a length, and what     *)
(* reassembly delivers can be compared with what was sent.  Unwrapped      *)
(* positions of the code (i64, relative to the anchor) may be negative.    *)
(***************************************************************************)
EXTENDS Integers, Sequences, FiniteSets

CONSTANTS
    SeqSpace,               \* 2^32
    Isn,                  \* sequence number of the byte at true position 0
    StreamLen,            \* bytes the peer sends
    MaxLen,               \* largest segment
    MAX_PENDING_BYTES,    \* 64 KiB
    MAX_PENDING_SEGMENTS, \* 256
    SYNC_SEGMENTS,        \* 16: segments buffered before guessing the start
    SYNC_AGE,             \* 200 ms: or time waited before guessing it
    SKIP_AGE,             \* 2 s: time waited before a hole is given up
    MaxPushes,            \* bound on push calls
    MaxStep               \* largest step of the capture clock between pushes

Half == SeqSpace \div 2     \* i32::MAX is Half - 1
Unset == -1

ASSUME ReassemblyAssumption ==
    /\ SeqSpace \in Nat /\ SeqSpace = 2 * Half /\ StreamLen < Half
    /\ Isn \in 0..(SeqSpace - 1)
    /\ {StreamLen, MaxLen, MAX_PENDING_BYTES, MAX_PENDING_SEGMENTS,
        SYNC_SEGMENTS, SYNC_AGE, SKIP_AGE, MaxPushes, MaxStep} \subseteq Nat

VARIABLES
    anchor,     \* Option<u32>
    tcp,        \* the other fields of Reassembly
    out,        \* chunks handed to the decoder so far, in order
    now,        \* capture clock
    pushes,     \* number of push calls
    finished,   \* finish was called
    onTime,     \* history: true positions received at or after `expected`
    zero        \* history: true position of the anchor

vars == <<anchor, tcp, out, now, pushes, finished, onTime, zero>>

\* synced is expected.is_some(); expected is 0 until then (unwrap_or(0)).
\* pending maps an unwrapped position to the chunk buffered there.
Init ==
    /\ anchor = Unset
    /\ tcp = [synced |-> FALSE, expected |-> 0, pending |-> <<>>,
              pending_bytes |-> 0, first_micros |-> Unset, gaps |-> 0,
              retransmitted |-> 0, late |-> 0]
    /\ out = <<>>
    /\ now = 0 /\ pushes = 0 /\ finished = FALSE
    /\ onTime = {} /\ zero = 0

-----------------------------------------------------------------------------
Min2(a, b) == IF a <= b THEN a ELSE b
Least(S)   == CHOOSE x \in S : \A y \in S : x <= y
Drop(f, k) == [x \in DOMAIN f \ {k} |-> f[x]]
Stored(f, k, v) == [x \in DOMAIN f \cup {k} |-> IF x = k THEN v ELSE f[x]]

\* The unwrapped position of a sequence number, nearest to the reference.
Unwrap(sequence, a, reference) ==
    LET p == (reference - (reference % SeqSpace)) + ((sequence - a) % SeqSpace)
        q == IF p - reference > Half - 1 THEN p - SeqSpace ELSE p
    IN  IF reference - q > Half - 1 THEN q + SeqSpace ELSE q

\* One turn of drain's loop: pop the chunk at `position`, cut off what was
\* delivered before, and hand on the rest.
Deliver(s, position) ==
    LET c       == s.t.pending[position]
        overlap == Min2(s.t.expected - position, c.len)
        rest    == c.len - overlap
    IN  [t |-> [s.t EXCEPT !.pending = Drop(@, position),
                           !.pending_bytes = @ - c.len,
                           !.retransmitted = @ + overlap,
                           !.expected = @ + rest],
         o |-> IF rest = 0 THEN s.o
               ELSE Append(s.o, [src |-> c.src + overlap, len |-> rest,
                                 disc |-> FALSE])]

\* What is done of drain's loop: t is what it has left, o what it gives out.
Turn(s) ==
    IF s.t.synced /\ DOMAIN s.t.pending # {} /\ Least(DOMAIN s.t.pending) <= s.t.expected
    THEN Deliver(s, Least(DOMAIN s.t.pending)) ELSE s

\* drain: deliver from the front while there is no hole, then restart the
\* age of the oldest chunk still buffered.
drain(t) ==
    LET n == Cardinality(DOMAIN t.pending)
        turns[k \in 0..n] == IF k = 0 THEN [t |-> t, o |-> <<>>] ELSE Turn(turns[k - 1])
        times == {turns[n].t.pending[p].time : p \in DOMAIN turns[n].t.pending}
    IN  [turns[n] EXCEPT !.t.first_micros = IF times = {} THEN Unset ELSE Least(times)]

\* Mutant of skip_gap: the chunk behind a skipped hole is not marked.
skip_gap_unmarked(t) ==
    IF DOMAIN t.pending = {} THEN [t |-> t, o |-> <<>>]
    ELSE LET p == Least(DOMAIN t.pending)
         IN  drain([t EXCEPT !.synced = TRUE, !.expected = p,
                        !.gaps = IF t.synced /\ p > t.expected THEN @ + 1 ELSE @])

\* skip_gap: give up the hole before the first buffered chunk.
skip_gap(t) ==
    IF DOMAIN t.pending = {} THEN [t |-> t, o |-> <<>>]
    ELSE LET p   == Least(DOMAIN t.pending)
             gap == t.synced /\ p > t.expected
             d   == drain([t EXCEPT !.synced = TRUE, !.expected = p,
                                    !.gaps = IF gap THEN @ + 1 ELSE @])
         IN  IF gap /\ d.o # <<>> THEN [d EXCEPT !.o[1].disc = TRUE] ELSE d

\* The longer of two chunks at the same position is kept.
Buffer(t, position, chunk) ==
    LET old == IF position \in DOMAIN t.pending THEN t.pending[position].len ELSE 0
    IN  [t EXCEPT !.pending = Stored(@, position, chunk),
                  !.pending_bytes = @ - old + chunk.len]

\* The start of a connection seen from the middle is guessed once enough
\* segments, bytes or time have gone by.
Guess(t, age) ==
    IF /\ ~t.synced
       /\ \/ Cardinality(DOMAIN t.pending) >= SYNC_SEGMENTS
          \/ t.pending_bytes >= MAX_PENDING_BYTES
          \/ age >= SYNC_AGE
    THEN [t EXCEPT !.synced = TRUE, !.expected = Least(DOMAIN t.pending)]
    ELSE t

\* A limit is exceeded: the first hole is given up.
Overflowing(t, age) ==
    \/ t.pending_bytes > MAX_PENDING_BYTES
    \/ Cardinality(DOMAIN t.pending) > MAX_PENDING_SEGMENTS
    \/ age >= SKIP_AGE /\ DOMAIN t.pending # {}

\* What push does with the bytes of a segment that are not yet delivered.
Accept(t, position, chunk) ==
    IF position \in DOMAIN t.pending /\ t.pending[position].len >= chunk.len
    THEN [t |-> [t EXCEPT !.retransmitted = @ + chunk.len,
                          !.first_micros = IF @ = Unset THEN chunk.time ELSE @],
          o |-> <<>>]
    ELSE LET start == IF t.first_micros = Unset THEN chunk.time ELSE t.first_micros
             age   == IF chunk.time >= start THEN chunk.time - start ELSE 0
             d     == drain(Guess(Buffer(t, position, chunk), age))
         IN  IF Overflowing(d.t, age)
             THEN LET k == skip_gap(d.t) IN [t |-> k.t, o |-> d.o \o k.o]
             ELSE d

\* push: a frame with true position `at`, `len` payload bytes, at time `time`.
push(at, len, syn, time) ==
    LET sequence == (Isn + at) % SeqSpace
        a        == IF anchor = Unset THEN sequence ELSE anchor
        position == Unwrap(sequence, a, tcp.expected)
        t0       == IF syn /\ ~tcp.synced
                    THEN [tcp EXCEPT !.synced = TRUE, !.expected = position]
                    ELSE tcp
        start    == IF len > 0 /\ t0.synced /\ position < t0.expected
                    THEN Min2(t0.expected - position, len) ELSE 0
        t1       == [t0 EXCEPT !.retransmitted = @ + start,
                               !.late = IF t0.gaps > 0 THEN @ + start ELSE @]
        r        == IF start = len THEN [t |-> t1, o |-> <<>>]
                    ELSE Accept(t1, position + start,
                                [src |-> at + start, len |-> len - start,
                                 time |-> time])
    IN  /\ anchor' = a
        /\ zero' = IF anchor = Unset THEN at ELSE zero
        /\ tcp' = r.t
        /\ out' = out \o r.o
        /\ onTime' = onTime \cup (at + start)..(at + len - 1)

\* A frame of the connection is read from the capture.  Its clock moves on.
Push ==
    \E at \in 0..StreamLen, len \in 0..MaxLen, syn \in BOOLEAN, dt \in 0..MaxStep :
        /\ ~finished /\ pushes < MaxPushes
        /\ at + len <= StreamLen
        /\ syn => at = 0
        /\ now' = now + dt
        /\ pushes' = pushes + 1
        /\ push(at, len, syn, now + dt)
        /\ UNCHANGED finished

\* Mutant of Finish: only one hole is skipped when the connection ends.
FinishOnce ==
    LET r == skip_gap(tcp)
    IN  /\ ~finished /\ finished' = TRUE
        /\ tcp' = r.t /\ out' = out \o r.o
        /\ UNCHANGED <<anchor, now, pushes, onTime, zero>>

\* Another hole is given up.
SkipNext(s) == LET k == skip_gap(s.t) IN [t |-> k.t, o |-> s.o \o k.o]

\* finish: every remaining hole is given up; nothing stays buffered.
Finish ==
    LET n == Cardinality(DOMAIN tcp.pending)
        turns[k \in 0..n] == IF k = 0 THEN [t |-> tcp, o |-> <<>>] ELSE SkipNext(turns[k - 1])
    IN  /\ ~finished /\ finished' = TRUE
        /\ tcp' = turns[n].t /\ out' = out \o turns[n].o
        /\ UNCHANGED <<anchor, now, pushes, onTime, zero>>

Next == Push \/ Finish

Spec == Init /\ [][Next]_vars

-----------------------------------------------------------------------------
Bytes(c)   == c.src..(c.src + c.len - 1)
Delivered  == UNION {Bytes(out[i]) : i \in DOMAIN out}
Buffered   == UNION {Bytes(tcp.pending[p]) : p \in DOMAIN tcp.pending}

\* Field types; a buffered or delivered chunk is never empty.
TypeOK ==
    /\ anchor \in {Unset} \cup 0..(SeqSpace - 1)
    /\ tcp.synced \in BOOLEAN /\ tcp.expected \in Int
    /\ \A p \in DOMAIN tcp.pending : p \in Int /\ tcp.pending[p].len \in 1..MaxLen
    /\ {tcp.pending_bytes, tcp.gaps, tcp.retransmitted, tcp.late} \subseteq Nat
    /\ tcp.first_micros \in Nat \cup {Unset}
    /\ \A i \in DOMAIN out : out[i].len \in 1..MaxLen /\ out[i].disc \in BOOLEAN

\* Retransmitted and overlapping segments never make a byte reach the decoder
\* twice or before an earlier one.
DeliveredInOrder ==
    \A i, j \in DOMAIN out : i < j => out[i].src + out[i].len <= out[j].src

\* The decoder is told of every hole, and only of holes: it keeps its partial
\* message across a chunk boundary exactly when no byte is missing there.  And
\* `gaps` counts them, so a report without gaps is about a whole stream.
HolesAreMarked ==
    /\ \A i \in 2..Len(out) :
           out[i].disc <=> out[i].src # out[i - 1].src + out[i - 1].len
    /\ tcp.gaps = Cardinality({i \in DOMAIN out : out[i].disc})

\* What the decoder is given is the stream, with holes only where it is told.
DeliveryIsFaithful == DeliveredInOrder /\ HolesAreMarked

\* What is buffered, byte by byte.
Held(pending) == UNION {{p} \X (1..pending[p].len) : p \in DOMAIN pending}

\* A byte that arrives before its place in the stream was given up is never
\* forgotten: it is delivered or still buffered, at the position of its own
\* across the 2^32 wrap, and delivered after finish.  The account that decides
\* when holes are given up is the true amount buffered.
NothingForgotten ==
    /\ TypeOK
    /\ onTime \subseteq Delivered \cup Buffered
    /\ finished => onTime \subseteq Delivered
    /\ \A p \in DOMAIN tcp.pending : tcp.pending[p].src = p + zero
    /\ tcp.pending_bytes = Cardinality(Held(tcp.pending))
    /\ Cardinality(DOMAIN tcp.pending) <= MAX_PENDING_SEGMENTS
=============================================================================
