------------------------------- MODULE Moodpd -------------------------------
(***************************************************************************)
(* The daemon's event loop (src/src/main.cpp: run, parseMessage) over its  *)
(* buffered writer (NonblockWriter, whose variables it shares), its two    *)
(* sockets, the lamp's serial port and the terminal.                       *)
(*                                                                         *)
(* One pass of the loop: build the pollfd array, poll, then serve the fds  *)
(* in the array's order, each by the revents poll returned for it.  pc is  *)
(* "top", "poll", the fd being served, or "messages" inside the loop over  *)
(* an OSC packet.  A handler that writes to the lamp leaves the writer     *)
(* "flushing", and the loop goes on when the writer is "ready" again.      *)
(*                                                                         *)
(* A datagram is known by its number (0: it is malformed and nothing       *)
(* refers to it) and by the kinds of the messages in it.                   *)
(***************************************************************************)
EXTENDS NonblockWriter, FiniteSets, SequencesExt

CONSTANTS
    FrameLen,     \* the length of each kind of frame written to the lamp
    NoisySockets, \* the sockets that get malformed datagrams without end
    OscContents,  \* the message lists a client's OSC packet may hold
    LampIsTty,    \* the lamp's device is a terminal, not a file or a pipe
    StdinIsTty,   \* the daemon was started with a terminal as its stdin
    WakeRoom,     \* poll reports POLLOUT when the port has this much room
    QueueRoom,    \* bound: datagrams a socket's receive queue holds
    MaxPackets,   \* bound: well-addressed datagrams the clients send
    MaxFaults     \* bound: failing system calls and failing descriptors

Fds == {"sock", "serial", "stdin", "osc"}
OscKinds == {"rgb", "ori", "other"}
FrameKinds == {"init", "color", "raw", "rgb", "ori"}

ASSUME MoodpdAssumption ==
    /\ FrameLen \in [FrameKinds -> Sizes]
    /\ NoisySockets \subseteq {"sock", "osc"}
    /\ OscContents \subseteq Seq(OscKinds)
    /\ LampIsTty \in BOOLEAN /\ StdinIsTty \in BOOLEAN
    /\ WakeRoom \in 1..KernelRoom
    /\ QueueRoom \in Nat /\ MaxPackets \in Nat /\ MaxFaults \in Nat

VARIABLES
    pc,            \* where the loop is
    watched,       \* the fds of the pollfd array (a negative fd is not one)
    events,        \* what each of them is polled for
    revents,       \* what poll returned
    messages,      \* the rest of the OSC packet's message list
    allowRawMode,
    logMask,
    oscOpen,       \* oscSocket.handle # -1
    udpq,          \* kernel: sock's receive queue
    oscq,          \* kernel: the OSC socket's receive queue
    lampSays,      \* kernel: the lamp sent bytes nobody has read
    typed,         \* kernel: the key waiting on the terminal, v or r (the
                   \* others at most print a text)
    bad,           \* the fds that hung up or failed
    sent,          \* how many numbered datagrams the clients sent
    faults,        \* how many faults happened
    taken,         \* history: the numbered datagrams received, in order
    commands       \* history: the frames handed to the lamp, in order

loopVars == <<pc, watched, events, revents, messages>>
modeVars == <<allowRawMode, logMask, oscOpen>>
kernelVars == <<udpq, oscq, lampSays, typed, bad, sent>>
history == <<taken, commands>>
moodpdVars == <<writerVars, loopVars, modeVars, kernelVars, faults, history>>

Packet(kinds) == [id : 0..MaxPackets, messages : Seq(kinds), ok : BOOLEAN]

Noise == [id |-> 0, messages |-> <<>>, ok |-> FALSE]

Init ==
    /\ WriterInit
    /\ pc = "start"
    /\ watched = {}
    /\ events = [fd \in Fds |-> {}]
    /\ revents = [fd \in Fds |-> {}]
    /\ messages = <<>>
    /\ allowRawMode = FALSE
    /\ logMask \in {{}, {"error"}, {"error", "info"}}
    /\ oscOpen = TRUE
    /\ udpq = <<>> /\ oscq = <<>>
    /\ lampSays = FALSE
    /\ typed = "none"
    /\ bad = {}
    /\ sent = 0 /\ faults = 0
    /\ taken = <<>> /\ commands = <<>>

-----------------------------------------------------------------------------
(* Building the pollfd array and sleeping in poll *)

Running == writer = "ready"

\* isatty() fails on a terminal that hung up.
IsATty(fd) ==
    /\ fd \notin bad
    /\ fd = "serial" => LampIsTty
    /\ fd = "stdin" => StdinIsTty

\* Mutated form: wait for the port only when its queue is full.
WantsOutIfFull == Room = 0

WantsOut == buffer # <<>>

EventsFor(fd) ==
    IF fd = "serial"
    THEN (IF IsATty("serial") THEN {"in"} ELSE {})
         \cup (IF WantsOut THEN {"out"} ELSE {})
    ELSE {"in"}

\* The constructor ends by writing "q\n"; main then enters run().
Start ==
    /\ pc = "start"
    /\ Write(FrameLen["init"])
    /\ pc' = "top"
    /\ UNCHANGED <<watched, events, revents, messages, modeVars, kernelVars,
                   faults, history>>

\* The top of the loop: who is watched, and for what.
Register ==
    /\ Running
    /\ pc = "top"
    /\ watched' = {"sock", "serial"}
                  \cup (IF IsATty("stdin") THEN {"stdin"} ELSE {})
                  \cup (IF oscOpen THEN {"osc"} ELSE {})
    /\ events' = [fd \in Fds |-> EventsFor(fd)]
    /\ pc' = "poll"
    /\ UNCHANGED <<writerVars, revents, messages, modeVars, kernelVars, faults,
                   history>>

\* What the kernel could report now.
Possible ==
    [sock   |-> IF udpq # <<>> THEN {"in"} ELSE {},
     serial |-> (IF lampSays THEN {"in"} ELSE {})
                \cup (IF Room >= WakeRoom THEN {"out"} ELSE {}),
     stdin  |-> IF typed # "none" THEN {"in"} ELSE {},
     osc    |-> IF oscq # <<>> THEN {"in"} ELSE {}]

Ready(fd) ==
    IF fd \notin watched THEN {}
    ELSE (events[fd] \cap Possible[fd]) \cup (IF fd \in bad THEN {"bad"} ELSE {})

\* poll, with no timeout, returns when some fd is ready.
PollReturns ==
    /\ Running
    /\ pc = "poll"
    /\ \E fd \in Fds : Ready(fd) # {}
    /\ revents' = [fd \in Fds |-> Ready(fd)]
    /\ events' = [fd \in Fds |-> {}]          \* nothing reads them any more
    /\ pc' = "sock"
    /\ UNCHANGED <<writerVars, watched, messages, modeVars, kernelVars,
                   faults, history>>

Fault ==
    /\ faults < MaxFaults
    /\ faults' = faults + 1

\* Any failure of poll, an interrupted call included, ends the process.
PollFails ==
    /\ Running
    /\ pc = "poll"
    /\ Fault
    /\ Exit
    /\ UNCHANGED <<loopVars, modeVars, kernelVars, history>>

-----------------------------------------------------------------------------
(* Serving the fds *)

\* Mutated form: a datagram ends the pass, as a break for the continue would.
AfterBreak(fd) ==
    [sock   |-> IF revents["sock"] = {} THEN "serial" ELSE "top",
     serial |-> IF "stdin" \in watched THEN "stdin" ELSE "osc",
     stdin  |-> "osc",
     osc    |-> "top"][fd]

\* The entry of the array behind fd's.
After(fd) ==
    [sock   |-> "serial",
     serial |-> IF "stdin" \in watched THEN "stdin" ELSE "osc",
     stdin  |-> "osc",
     osc    |-> "top"][fd]

\* Done with fd, whose entry nothing reads again; after the last one the
\* array goes out of scope.
Leave(fd) ==
    /\ pc' = After(fd)
    /\ revents' = [revents EXCEPT ![fd] = {}]
    /\ watched' = IF fd = "osc" THEN {} ELSE watched
    /\ UNCHANGED events

Serving(fd) ==
    /\ Running
    /\ pc = fd
    /\ "bad" \notin revents[fd]

\* One bad descriptor ends the process, whichever it is.
FdWentBad ==
    /\ Running
    /\ pc \in Fds
    /\ "bad" \in revents[pc]
    /\ Exit
    /\ UNCHANGED <<loopVars, modeVars, kernelVars, faults, history>>

\* Mutated form: the test of revents is left out.
NeverIdle(fd) == FALSE

\* !pfd.revents&POLLIN is (!pfd.revents)&1: true when revents is 0.
Idle(fd) == revents[fd] = {}

\* The three handlers that begin with that test.
SkipIdle ==
    /\ \E fd \in {"sock", "stdin", "osc"} :
        /\ Serving(fd)
        /\ Idle(fd)
        /\ Leave(fd)
    /\ UNCHANGED <<writerVars, messages, modeVars,
                   kernelVars, faults, history>>

\* The numbered datagrams are recorded as they are received.
Take(p) ==
    taken' = IF p.id = 0 THEN taken
             ELSE Append(taken, [packet |-> p, raw |-> allowRawMode])

\* A frame goes to the lamp.
Send1(id, kind) ==
    /\ Write(FrameLen[kind])
    /\ commands' = Append(commands, [id |-> id, kind |-> kind])

\* recvfrom fails: the error is logged.
RecvFails ==
    /\ Serving("sock") /\ ~Idle("sock")
    /\ Fault
    /\ Leave("sock")
    /\ UNCHANGED <<writerVars, messages, modeVars,
                   kernelVars, history>>

\* Mutated form: raw mode is not asked for.
AlwaysUnderstood(kind) == kind \in {"color", "raw"}

\* What parseMessage passes on.
Understood(kind) == kind = "color" \/ (kind = "raw" /\ allowRawMode)

\* recvfrom takes a datagram: too short, with a wrong magic, of an unknown
\* type or with a bad colour it is dropped, else parseMessage acts on it.
RecvPacket ==
    /\ Serving("sock") /\ ~Idle("sock")
    /\ udpq # <<>>
    /\ udpq' = Tail(udpq)
    /\ Take(Head(udpq))
    /\ LET p == Head(udpq)
       IN  IF p.ok /\ Understood(p.messages[1])
           THEN Send1(p.id, p.messages[1])
           ELSE UNCHANGED <<writerVars, commands>>
    /\ Leave("sock")
    /\ UNCHANGED <<messages, modeVars, oscq, lampSays,
                   typed, bad, sent, faults>>

\* The lamp's bytes are read and dropped; then the buffer is flushed if the
\* port takes bytes.  With INFO logging on, a read that fails skips the flush.
ServeLamp ==
    /\ Serving("serial")
    /\ \E readFails \in BOOLEAN :
        /\ IF readFails THEN "in" \in revents["serial"] /\ Fault
                        ELSE UNCHANGED faults
        /\ lampSays' = (lampSays /\ ("in" \notin revents["serial"] \/ readFails))
        /\ IF "out" \in revents["serial"] /\ ~(readFails /\ "info" \in logMask)
           THEN Flush
           ELSE UNCHANGED writerVars
    /\ Leave("serial")
    /\ UNCHANGED <<messages, modeVars, udpq, oscq,
                   typed, bad, sent, history>>

\* Mutated form: from errors-only, v turns errors off with INFO on.
NextLogMaskSwapped ==
    IF logMask = {} THEN {"error"}
    ELSE IF "info" \in logMask THEN {} ELSE {"info"}

\* The key v: quiet, errors, errors and information, quiet.
NextLogMask ==
    IF logMask = {} THEN {"error"}
    ELSE IF "info" \in logMask THEN {} ELSE logMask \cup {"info"}

ReadKey ==
    /\ Serving("stdin") /\ ~Idle("stdin")
    /\ typed' = "none"
    /\ logMask' = IF typed = "v" THEN NextLogMask ELSE logMask
    /\ allowRawMode' = IF typed = "r" THEN ~allowRawMode ELSE allowRawMode
    /\ Leave("stdin")
    /\ UNCHANGED <<writerVars, messages, oscOpen, udpq,
                   oscq, lampSays, bad, sent, faults, history>>

ReadKeyFails ==
    /\ Serving("stdin") /\ ~Idle("stdin")
    /\ Fault
    /\ Leave("stdin")
    /\ UNCHANGED <<writerVars, messages, modeVars,
                   kernelVars, history>>

-----------------------------------------------------------------------------
(* The OSC socket: UdpSocket::receiveNextPacket and the loop over messages *)

\* select or recvfrom fails.  EAGAIN, EINTR and the like change nothing; any
\* other error of recvfrom closes the socket, and its queue goes with it.
OscReceiveFails ==
    /\ Serving("osc") /\ ~Idle("osc")
    /\ Fault
    /\ \/ UNCHANGED <<oscOpen, oscq>>
       \/ oscOpen' = FALSE /\ oscq' = <<>>
    /\ Leave("osc")
    /\ UNCHANGED <<writerVars, messages, allowRawMode,
                   logMask, udpq, lampSays, typed, bad, sent, history>>

\* PacketReader parses the whole packet first; a malformed one yields nothing.
OscReceive ==
    /\ Serving("osc") /\ ~Idle("osc")
    /\ oscq # <<>>
    /\ oscq' = Tail(oscq)
    /\ Take(Head(oscq))
    /\ messages' = IF Head(oscq).ok THEN Head(oscq).messages ELSE <<>>
    /\ pc' = "messages"
    /\ UNCHANGED <<writerVars, watched, events, revents, modeVars, udpq, lampSays,
                   typed, bad, sent, faults, commands>>

\* popMessage: an rgb or ori message becomes a frame, any other is dropped.
OscMessage ==
    /\ Running
    /\ pc = "messages"
    /\ messages # <<>>
    /\ messages' = Tail(messages)
    /\ IF Head(messages) \in {"rgb", "ori"}
       THEN Send1(Last(taken).packet.id, Head(messages))
       ELSE UNCHANGED <<writerVars, commands>>
    /\ UNCHANGED <<pc, watched, events, revents, modeVars, kernelVars, faults,
                   taken>>

OscMessagesDone ==
    /\ Running
    /\ pc = "messages"
    /\ messages = <<>>
    /\ Leave("osc")
    /\ UNCHANGED <<writerVars, messages, modeVars,
                   kernelVars, faults, history>>

\* A turn of flush() inside whichever handler called it.
Flushing ==
    /\ FlushTurn \/ WriteFailed
    /\ UNCHANGED <<loopVars, modeVars, kernelVars, faults, history>>

Daemon ==
    \/ Start \/ Register \/ PollReturns \/ PollFails
    \/ FdWentBad \/ SkipIdle
    \/ RecvFails \/ RecvPacket
    \/ ServeLamp
    \/ ReadKey \/ ReadKeyFails
    \/ OscReceiveFails \/ OscReceive \/ OscMessage \/ OscMessagesDone
    \/ Flushing

-----------------------------------------------------------------------------
(* The clients, the lamp, the terminal and the kernel.  What they do after *)
(* the process ended is left out.                                          *)

\* Malformed datagrams arrive without end; a full queue drops what comes.
NoiseArrives ==
    /\ \/ /\ "sock" \in NoisySockets
          /\ Len(udpq) < QueueRoom
          /\ udpq' = Append(udpq, Noise)
          /\ UNCHANGED oscq
       \/ /\ "osc" \in NoisySockets
          /\ oscOpen
          /\ Len(oscq) < QueueRoom
          /\ oscq' = Append(oscq, Noise)
          /\ UNCHANGED udpq
    /\ UNCHANGED sent

UdpArrives ==
    /\ sent < MaxPackets
    /\ sent' = sent + 1
    /\ Len(udpq) < QueueRoom
    /\ \E kind \in {"color", "raw"} :
        udpq' = Append(udpq, [id |-> sent + 1, messages |-> <<kind>>, ok |-> TRUE])
    /\ UNCHANGED oscq

\* One malformed message spoils the packet it is in.
OscArrives ==
    /\ sent < MaxPackets
    /\ sent' = sent + 1
    /\ oscOpen
    /\ Len(oscq) < QueueRoom
    /\ \E list \in OscContents, ok \in BOOLEAN :
        oscq' = Append(oscq, [id |-> sent + 1, messages |-> list, ok |-> ok])
    /\ UNCHANGED udpq

DatagramArrives ==
    /\ writer # "exited"
    /\ NoiseArrives \/ UdpArrives \/ OscArrives
    /\ UNCHANGED <<writerVars, loopVars, modeVars, lampSays, typed, bad, faults,
                   history>>

LampTalks ==
    /\ writer # "exited"
    /\ ~lampSays
    /\ lampSays' = TRUE
    /\ UNCHANGED <<writerVars, loopVars, modeVars, udpq, oscq, typed, bad, sent,
                   faults, history>>

KeyTyped ==
    /\ writer # "exited"
    /\ StdinIsTty
    /\ typed = "none"
    /\ typed' \in {"v", "r"}
    /\ UNCHANGED <<writerVars, loopVars, modeVars, udpq, oscq, lampSays, bad,
                   sent, faults, history>>

\* The terminal hangs up, the lamp is unplugged, a socket reports an error.
FdGoesBad ==
    /\ writer # "exited"
    /\ Fault
    /\ \E fd \in Fds \ bad : bad' = bad \cup {fd}
    /\ UNCHANGED <<writerVars, loopVars, modeVars, udpq, oscq, lampSays, typed,
                   sent, history>>

PortDrains ==
    /\ writer # "exited"
    /\ Drain
    /\ UNCHANGED <<loopVars, modeVars, kernelVars, faults, history>>

Next ==
    \/ Daemon
    \/ DatagramArrives \/ LampTalks \/ KeyTyped \/ FdGoesBad
    \/ PortDrains

Spec == Init /\ [][Next]_moodpdVars

\* The process is scheduled, and the port, which has no flow control, keeps
\* sending.  Nothing is assumed of clients, lamp or terminal.
FairSpec == Spec /\ WF_moodpdVars(Daemon) /\ WF_moodpdVars(PortDrains)

-----------------------------------------------------------------------------
(* Properties *)

\* The types of the loop's state; logMask never has INFO without ERROR.
TypeOK ==
    /\ WriterTypeOK
    /\ pc \in Fds \cup {"start", "top", "poll", "messages"}
    /\ watched \subseteq Fds
    /\ events \in [Fds -> SUBSET {"in", "out"}]
    /\ revents \in [Fds -> SUBSET {"in", "out", "bad"}]
    /\ messages \in Seq(OscKinds)
    /\ allowRawMode \in BOOLEAN
    /\ logMask \in {{}, {"error"}, {"error", "info"}}
    /\ oscOpen \in BOOLEAN
    /\ udpq \in Seq(Packet({"color", "raw"})) /\ oscq \in Seq(Packet(OscKinds))
    /\ lampSays \in BOOLEAN
    /\ typed \in {"none", "v", "r"}
    /\ bad \subseteq Fds
    /\ sent \in 0..MaxPackets /\ faults \in 0..MaxFaults

\* The loop sleeps in poll without a timeout, so whatever it forgot to ask for
\* would wait for the next unrelated event.  When it sleeps, no datagram waits
\* on an open socket, no key on a terminal that is up, and bytes wait in the
\* buffer only while the port has no room to report: draining it will wake the
\* loop.
NeverSleepsOnWork ==
    Running /\ pc = "poll" /\ (\A fd \in Fds : Ready(fd) = {})
    => /\ udpq = <<>>
       /\ oscOpen => oscq = <<>>
       /\ StdinIsTty /\ "stdin" \notin bad => typed = "none"
       /\ buffer # <<>> => Room < WakeRoom

\* sock is a blocking socket, and the test in front of its recvfrom,
\* !revents&POLLIN, only tells revents of 0 apart: an error or a hangup must
\* have ended the process by then.  When the loop calls recvfrom there is a
\* datagram to take, so the daemon never hangs there.
RecvNeverBlocks == Serving("sock") /\ ~Idle("sock") => udpq # <<>>

\* The frame one message of datagram id calls for, by README.rst, when raw
\* tells whether raw mode was on when the datagram was received.
FrameOf(id, kind, raw) ==
    IF kind \in {"color", "rgb", "ori"} \/ (kind = "raw" /\ raw)
    THEN <<[id |-> id, kind |-> kind]>> ELSE <<>>

Frames(id, kinds, raw) ==
    FlattenSeq([i \in DOMAIN kinds |-> FrameOf(id, kinds[i], raw)])

\* A malformed datagram, which is any with a malformed message, calls for none.
Called(t) ==
    IF t.packet.ok THEN Frames(t.packet.id, t.packet.messages, t.raw) ELSE <<>>

CalledByAll(received) ==
    FlattenSeq([i \in DOMAIN received |-> Called(received[i])])

\* The frames of the packet at hand that are still to be written.
StillToCome ==
    IF messages = <<>> THEN <<>>
    ELSE Frames(Last(taken).packet.id, messages, FALSE)

\* Across both sockets, the handlers, short writes and malformed packets, the
\* frames handed to the lamp are exactly those the received datagrams call
\* for, in the order of receipt: none lost, none twice, the frames of one OSC
\* packet adjacent, and none at all for a packet with a malformed message.
ExactlyDue == CalledByAll(taken) = commands \o StillToCome

\* No option turns raw mode on, so a daemon without a terminal never passes a
\* raw message to the lamp, whatever arrives.
RawOnlyFromTerminal ==
    (\E i \in DOMAIN commands : commands[i].kind = "raw") => StdinIsTty

WaitsIn(queue, n) == \E i \in DOMAIN queue : queue[i].id = n

IsReceived(n) == \E i \in DOMAIN taken : taken[i].packet.id = n

\* No socket starves: however fast malformed datagrams arrive on either, each
\* datagram in a queue is received by the daemon, or the process ends, or the
\* OSC socket is closed by an error and takes its queue with it.
EveryPacketServed ==
    \A n \in 1..MaxPackets :
        /\ WaitsIn(udpq, n) ~> (IsReceived(n) \/ writer = "exited")
        /\ WaitsIn(oscq, n) ~> (IsReceived(n) \/ writer = "exited" \/ ~oscOpen)

\* When the lamp's port fails, the daemon notices and ends, whatever else is
\* going on.
LampLossEndsDaemon == ("serial" \in bad) ~> (writer = "exited")

\* The loop's registration for POLLOUT, its flushes and its writer together
\* are the live stream of LampStream: what was accepted reaches the port, even
\* under a flood of datagrams, unless the process ends.
ImplementsLiveStream == Stream!FairSpec

\* README.rst: the OSC server listens on port 4243, as long as the daemon runs.
OscServerListens == writer # "exited" => oscOpen
=============================================================================
