----------------------------- MODULE SipDesktop -----------------------------
(***************************************************************************)
(* What the desktop does with SIP, in scenes: it captures and replays, or  *)
(* a device talks to a scenario of the engine (SipTrace); it starts and    *)
(* stops the engine, to which devices connect (SipEngineHost); it probes a *)
(* device (SipProbe).                                                      *)
(***************************************************************************)
EXTENDS SipTrace

CONSTANTS
    Transports, FirstLines, MaxActive, MaxStarts, Talks,  \* of SipEngineHost
    Replies                                               \* of SipProbe

VARIABLES desktop, slot, command, engines,
          carrier, reply, arrived, read, kept, attempt, verdict

Host  == INSTANCE SipEngineHost WITH None <- Nothing
Probe == INSTANCE SipProbe

ASSUME DesktopAssumption ==
    /\ MaxActive \in Nat /\ MaxStarts \in Nat
    /\ FirstLines \subseteq {"listening", "other", "garbage"}
    /\ IsFiniteSet(DOMAIN Talks) /\ \A p \in DOMAIN Talks : Talks[p] \in Seq(Host!Message)
    /\ Replies \subseteq Seq(Probe!Answer)
    /\ Nothing \notin Nat /\ Nothing \notin [name : {"start", "stop"}, child : Nat]

hostVars  == <<desktop, slot, command, engines>>
probeVars == <<carrier, reply, arrived, read, kept, attempt, verdict>>

desktopVars == <<vars, traceVars, hostVars, probeVars>>

\* No probe is made, and one is enough to stand for it.
NoProbe ==
    /\ carrier = "udp" /\ reply = <<>> /\ arrived = 0 /\ read = 0 /\ kept = <<>>
    /\ attempt = 0 /\ verdict = Probe!Open

Elsewhere == Unplanned /\ Unwatched

InitD ==
    \/ InitT /\ Host!InitHost /\ NoProbe
    \/ Elsewhere /\ scene = "host" /\ Host!InitHost /\ NoProbe
    \/ Elsewhere /\ scene = "probe" /\ Host!InitHost /\ Probe!InitProbe

NextD ==
    \/ NextT /\ UNCHANGED <<hostVars, probeVars>>
    \/ scene = "host" /\ Host!NextHost /\ UNCHANGED <<vars, traceVars, probeVars>>
    \/ scene = "probe" /\ Probe!NextProbe /\ UNCHANGED <<vars, traceVars, hostVars>>

SpecD == InitD /\ [][NextD]_desktopVars

\* Threads run, sockets time out, and a command goes on when it can.
FairSpecD ==
    /\ SpecD
    /\ WF_vars(SendAck \/ Send) /\ WF_vars(Timeout)
    /\ WF_(hostVars)(Host!StartReturns \/ Host!StopReturns)
    /\ \A c \in 1..MaxStarts : WF_(hostVars)(c \in DOMAIN engines /\ Host!Goes(c))
    /\ WF_(probeVars)(Probe!Deadline)
-----------------------------------------------------------------------------
\* The test engine runs only under the desktop's control and answers each
\* connection in turn, and a probe tells what the device has answered.
EnginesAreSound ==
    /\ scene = "host" => Host!EngineIsOwned /\ Host!AnsweredInTurn /\ Host!ActiveIsCounted
    /\ scene = "probe" => Probe!ProbeIsTrue

\* What is begun ends, whatever devices and the network do: a replay, a probe,
\* a command on the engine, and the engine after the desktop.
EverythingReturns ==
    /\ ReplayReturns /\ Probe!ProbeReturns
    /\ Host!CommandsReturn /\ Host!EnginesEnd
=============================================================================
