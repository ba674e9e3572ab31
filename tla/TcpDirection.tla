---------------------------- MODULE TcpDirection ----------------------------
(***************************************************************************)
(* Reassembly (crates/capture/src/tcp.rs) of one direction of a TCP        *)
(* connection as its users see it, at the grain of whole segments: what    *)
(* comes out, in which order, and behind which holes.  TcpReassembly       *)
(* models what is abstracted here: a byte count or an age that makes the   *)
(* reassembly guess a start or give up a hole is a choice of the user.     *)
(***************************************************************************)
EXTENDS Naturals, Sequences, FiniteSets

CONSTANT None   \* Option::None

\* next is the position expected, held the positions waiting behind a hole.
NewReassembly == [next |-> None, held |-> {}, gaps |-> 0]

Lowest(S) == CHOOSE p \in S : \A q \in S : p <= q

\* The positions of S from the lowest to the highest.
InOrder(S) ==
    [i \in 1..Cardinality(S) |-> CHOOSE p \in S : Cardinality({q \in S : q <= p}) = i]

\* drain: the held segments that follow on without a hole.  Of what comes out,
\* broken are the positions behind a hole (Chunk.discontinuity).
RunFrom(d) == {p \in d.held : \A q \in d.next..p : q \in d.held}
Drained(d) ==
    LET run == IF d.next = None THEN {} ELSE RunFrom(d)
    IN  [dir |-> [d EXCEPT !.held = @ \ run,
                           !.next = IF run = {} THEN @ ELSE @ + Cardinality(run)],
         out |-> InOrder(run), broken |-> {}]

NoOutput(d) == [dir |-> d, out |-> <<>>, broken |-> {}]

\* Mutant of SkipGap: the hole is not counted.
SkipGapUncounted(d) ==
    IF d.held = {} THEN NoOutput(d)
    ELSE Drained([d EXCEPT !.next = Lowest(d.held)])

\* skip_gap: give up on what is missing below the first held segment.
SkipGap(d) ==
    IF d.held = {} THEN NoOutput(d)
    ELSE LET p    == Lowest(d.held)
             gap  == d.next \notin {None, p}
             more == Drained([d EXCEPT !.next = p, !.gaps = IF gap THEN @ + 1 ELSE @])
         IN  [more EXCEPT !.broken = IF gap THEN {p} ELSE {}]

\* finish: skip every hole.
FinishDirection(d) ==
    LET starts == {p \in d.held : p - 1 \notin d.held}
        known  == {p \in starts : d.next # None \/ p # Lowest(d.held)}
    IN  IF d.held = {} THEN NoOutput(d)
        ELSE [dir |-> [next |-> 1 + CHOOSE p \in d.held : \A q \in d.held : q <= p,
                       held |-> {}, gaps |-> d.gaps + Cardinality(known)],
              out |-> InOrder(d.held), broken |-> known]

\* push: guess is the start of an unanchored direction being guessed, skip a
\* hole being given up, whenever the limits and the clock allow either.
PushSegment(d, p, guess, skip) ==
    IF (d.next # None /\ p < d.next) \/ p \in d.held THEN NoOutput(d)
    ELSE LET held    == [d EXCEPT !.held = @ \cup {p}]
             started == IF d.next = None /\ guess
                        THEN [held EXCEPT !.next = Lowest(held.held)] ELSE held
             drained == Drained(started)
             skipped == SkipGap(drained.dir)
         IN  IF skip /\ drained.dir.held # {}
             THEN [dir |-> skipped.dir, out |-> drained.out \o skipped.out,
                   broken |-> skipped.broken]
             ELSE drained
=============================================================================
