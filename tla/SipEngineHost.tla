--------------------------- MODULE SipEngineHost ---------------------------
(***************************************************************************)
(* The SIP test engine as a process: the desktop's commands that start it, *)
(* ask for it and stop it (apps/desktop/src-tauri/src/lib.rs), and its own *)
(* threads (apps/sip-engine/src/main.rs): one that reads stdin, one that   *)
(* receives or accepts, and a worker per TCP or TLS connection.            *)
(*                                                                         *)
(* What an engine answers is in SipSimulator and SipCall.  Here a message  *)
(* is [id, parts, answered, frames]: in how many parts it is sent, whether *)
(* its scenario answers it, and whether its length can be told.            *)
(***************************************************************************)
EXTENDS Integers, Sequences, FiniteSets

CONSTANTS
    None,        \* Option::None
    Transports,  \* of the engine: "udp" and "tcp", TLS is as TCP
    FirstLines,  \* what an executable beside the desktop's may say first
    MaxActive,   \* 32 connections
    MaxStarts,   \* bound: engines that are started
    Talks        \* bound: the messages of each device that connects

VARIABLES
    desktop,   \* "open", or "closed" after an exit or a crash
    slot,      \* SipEngineState: the child that is kept, or None
    command,   \* the command that holds the lock: [name, child], or None
    engines    \* every process that was started, in this order

hostVars == <<desktop, slot, command, engines>>

Message == [id : Nat, parts : Nat \ {0}, answered : BOOLEAN, frames : BOOLEAN]

Peers == DOMAIN Talks

NoLink == [state |-> "new", read |-> 0, data |-> <<>>, answers |-> <<>>]

NewEngine(transport) ==
    [transport |-> transport, state |-> "born", line |-> None, input |-> "open",
     stopped |-> FALSE, active |-> 0, links |-> [p \in Peers |-> NoLink]]

InitHost == desktop = "open" /\ slot = None /\ command = None /\ engines = <<>>

\* With a process its threads and connections end.
Ended(e) == [e EXCEPT !.state = "over", !.stopped = FALSE, !.active = 0,
                      !.links = [p \in Peers |-> NoLink]]

Over(c)  == engines[c].state = "over"
Alive(c) == engines[c].state \in {"born", "bound"}

\* An executable of this program listens or says nothing.
Own(c) == engines[c].line \in {None, "listening"}

-----------------------------------------------------------------------------
\* Mutant of StartEngine: what is kept is not asked whether it runs.
StartBlindly(transport) ==
    /\ desktop = "open" /\ command = None /\ Len(engines) < MaxStarts
    /\ engines' = Append(engines, NewEngine(transport))
    /\ slot' = None
    /\ command' = [name |-> "start", child |-> Len(engines) + 1]
    /\ UNCHANGED desktop

\* start_sip_simulator: it refuses while the child it keeps runs.
StartEngine(transport) ==
    /\ desktop = "open" /\ command = None /\ Len(engines) < MaxStarts
    /\ slot # None => Over(slot)
    /\ engines' = Append(engines, NewEngine(transport))
    /\ slot' = None
    /\ command' = [name |-> "start", child |-> Len(engines) + 1]
    /\ UNCHANGED desktop

\* The executable cannot be started.
SpawnFails ==
    /\ desktop = "open" /\ command = None /\ slot # None /\ Over(slot)
    /\ slot' = None
    /\ UNCHANGED <<desktop, command, engines>>

\* The rest of it, when the engine has said a line or is over: one that says
\* anything but where it listens is killed, and one whose line is no JSON is
\* also waited for.
StartReturns ==
    /\ command # None /\ command.name = "start"
    /\ LET c == command.child
           e == engines[c]
       IN  \/ /\ e.line = "listening"
              /\ slot' = c /\ UNCHANGED engines
           \/ /\ e.line = "other"
              /\ engines' = [engines EXCEPT ![c].state = IF Over(c) THEN @ ELSE "killed"]
              /\ UNCHANGED slot
           \/ /\ e.line = "garbage"
              /\ engines' = [engines EXCEPT ![c] = Ended(@)]
              /\ UNCHANGED slot
           \/ /\ e.line = None /\ Over(c)
              /\ UNCHANGED <<slot, engines>>
    /\ command' = None
    /\ UNCHANGED desktop

\* sip_simulator_status: a child that is over is forgotten.
Status ==
    /\ desktop = "open" /\ command = None /\ slot # None /\ Over(slot)
    /\ slot' = None
    /\ UNCHANGED <<desktop, command, engines>>

\* stop_sip_simulator: "stop" is written, and stdin is closed behind it.
StopEngine ==
    /\ desktop = "open" /\ command = None /\ slot # None
    /\ engines' = [engines EXCEPT ![slot].input = "stop"]
    /\ command' = [name |-> "stop", child |-> slot]
    /\ slot' = None
    /\ UNCHANGED desktop

\* It waits until the child is over, or kills it after two seconds.
StopReturns ==
    /\ command # None /\ command.name = "stop"
    /\ engines' = [engines EXCEPT ![command.child] = Ended(@)]
    /\ command' = None
    /\ UNCHANGED <<desktop, slot>>

\* The desktop exits or crashes: the pipes are closed.
CloseDesktop ==
    /\ desktop = "open" /\ desktop' = "closed"
    /\ slot' = None /\ command' = None
    /\ engines' = [c \in DOMAIN engines |->
                      [engines[c] EXCEPT !.input = IF @ = "open" THEN "closed" ELSE @]]

-----------------------------------------------------------------------------
Change(c, e) == engines' = [engines EXCEPT ![c] = e] /\ UNCHANGED <<desktop, slot, command>>

\* The socket is bound and the first line is printed.
Bind(c, line) ==
    /\ engines[c].state = "born"
    /\ Change(c, [engines[c] EXCEPT !.state = "bound", !.line = line])

\* The thread that reads stdin: "stop" and its end are the same.
Hear(c) ==
    /\ Alive(c) /\ Own(c) /\ engines[c].input # "open" /\ ~engines[c].stopped
    /\ Change(c, [engines[c] EXCEPT !.stopped = TRUE])

\* The loop sees it; workers end with the process.
Leave(c) ==
    /\ engines[c].state = "bound" /\ engines[c].stopped
    /\ Change(c, Ended(engines[c]))

\* The address cannot be bound, or an error ends the loop: of receiving, of
\* sending, of tick, of accept or of what is asked of the new connection.
EngineFails(c) ==
    /\ Alive(c)
    /\ Change(c, Ended(engines[c]))

\* A child that was killed and is not waited for.
Dies(c) ==
    /\ engines[c].state = "killed"
    /\ Change(c, Ended(engines[c]))

-----------------------------------------------------------------------------
\* Connections.
Link(c, p)          == engines[c].links[p]
SetLink(c, p, link) == Change(c, [engines[c] EXCEPT !.links[p] = link])

\* The parts of the first k messages of the device p; each tells its message.
PartsOf(p) ==
    LET upto[k \in 0..Len(Talks[p])] ==
            IF k = 0 THEN <<>>
            ELSE upto[k - 1] \o [n \in 1..Talks[p][k].parts |-> Talks[p][k]]
    IN  upto

\* All that it says.
Speech(p) == PartsOf(p)[Len(Talks[p])]

Connect(c, p) ==
    /\ engines[c].state = "bound" /\ engines[c].transport = "tcp" /\ engines[c].line = "listening"
    /\ Link(c, p).state = "new"
    /\ SetLink(c, p, [Link(c, p) EXCEPT !.state = "waiting"])

\* The listener's turn.  A connection too many is dropped.
Accept(c, p) ==
    /\ engines[c].state = "bound" /\ Link(c, p).state = "waiting"
    /\ \/ /\ engines[c].active >= MaxActive
          /\ SetLink(c, p, [Link(c, p) EXCEPT !.state = "rejected"])
       \/ /\ engines[c].active < MaxActive
          /\ Change(c, [engines[c] EXCEPT !.active = @ + 1, !.links[p].state = "open"])

\* The inner loop of handle_stream: every message that is there is answered,
\* up to one whose length cannot be told.
Turn(l) ==
    IF l.data = <<>> \/ l.state = "over" THEN l
    ELSE LET m == Head(l.data)
         IN  IF ~m.frames THEN [l EXCEPT !.state = "over"]
             ELSE IF Len(l.data) < m.parts THEN l
             ELSE [l EXCEPT !.data = SubSeq(@, m.parts + 1, Len(@)),
                            !.answers = IF m.answered THEN Append(@, m.id) ELSE @]

Handled(link) ==
    LET turns[k \in 0..Len(link.data)] == IF k = 0 THEN link ELSE Turn(turns[k - 1])
    IN  turns[Len(link.data)]

\* A worker reads as much as has come.  With the end of a worker its place is
\* free.
Read(c, p, n) ==
    /\ engines[c].state = "bound" /\ Link(c, p).state = "open" /\ ~engines[c].stopped
    /\ n <= Len(Speech(p)) - Link(c, p).read
    /\ LET link == Link(c, p)
           read == [link EXCEPT !.read = @ + n,
                                !.data = @ \o SubSeq(Speech(p), link.read + 1, link.read + n)]
           done == Handled(read)
       IN  Change(c, [engines[c] EXCEPT !.links[p] = done,
                                        !.active = IF done.state = "over" THEN @ - 1 ELSE @])

\* The device closes, the worker sees that the engine stops, or reading or
\* writing fails.
WorkerEnds(c, p) ==
    /\ engines[c].state = "bound" /\ Link(c, p).state = "open"
    /\ Change(c, [engines[c] EXCEPT !.active = @ - 1, !.links[p].state = "over"])

NextHost ==
    \/ \E transport \in Transports : StartEngine(transport)
    \/ SpawnFails \/ StartReturns \/ Status \/ StopEngine \/ StopReturns \/ CloseDesktop
    \/ \E c \in DOMAIN engines :
          \/ \E line \in FirstLines : Bind(c, line)
          \/ Hear(c) \/ Leave(c) \/ EngineFails(c) \/ Dies(c)
          \/ \E p \in Peers :
                \/ Connect(c, p) \/ Accept(c, p) \/ WorkerEnds(c, p)
                \/ \E n \in 1..Len(Speech(p)) : Read(c, p, n)

\* The engine's threads run, and a command goes on when it can.
Goes(c) == Hear(c) \/ Leave(c) \/ Dies(c) \/ \E line \in FirstLines : Bind(c, line)

-----------------------------------------------------------------------------
\* An engine that runs is the one that is kept, or the one that a command is
\* about; all others are over, or will be at once.
EngineIsOwned ==
    \A c \in DOMAIN engines : Alive(c) =>
        desktop = "closed" \/ slot = c \/ (command # None /\ command.child = c)

\* The answers that the first k messages of the device p call for.
Due(p) ==
    LET due[k \in 0..Len(Talks[p])] ==
            IF k = 0 THEN <<>>
            ELSE IF Talks[p][k].answered THEN Append(due[k - 1], Talks[p][k].id) ELSE due[k - 1]
    IN  due

\* Whatever the segments of a connection, its messages are answered once each
\* and in turn, and what was read and is left is less than a message.
AnsweredInTurn ==
    \A c \in DOMAIN engines : \A p \in Peers :
        LET link == Link(c, p)
        IN  \E k \in 0..Len(Talks[p]) :
                /\ link.answers = Due(p)[k] /\ Len(PartsOf(p)[k]) <= link.read
                /\ link.state = "open" =>
                       \A j \in k + 1..Len(Talks[p]) : link.read < Len(PartsOf(p)[j])

\* A connection is refused only while as many as are allowed are served: their
\* count is that of the workers.
ActiveIsCounted ==
    \A c \in DOMAIN engines :
        /\ engines[c].active = Cardinality({p \in Peers : Link(c, p).state = "open"})
        /\ engines[c].active <= MaxActive

\* No command waits for ever on an engine.
CommandsReturn == command # None ~> command = None

\* docs/sip-implementation.md:12: stdin is closed when the desktop exits or
\* crashes, and the engine exits after that.
EnginesEnd == desktop = "closed" ~> \A c \in DOMAIN engines : Own(c) => Over(c)
=============================================================================
