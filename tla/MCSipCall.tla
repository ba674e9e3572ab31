------------------------------ MODULE MCSipCall -----------------------------
(* SipCall with two callers that use the same Call-ID.                     *)
EXTENDS SipCall

CONSTANTS a, b    \* the callers

TwoCallers == {a, b}

\* a makes a call, changes its media or redials after it, and hangs up; b
\* makes one call.
Requests == [c \in TwoCallers |-> IF c = a THEN 3 ELSE 1]
=============================================================================
