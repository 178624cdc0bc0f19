# moodpd in TLA+

moodpd listens to UDP datagrams, to OSC packets and to keys on its terminal, and
drives a mood lamp on a serial port. This directory holds its formal model: TLA+
modules, configurations for the model checker TLC, and proofs for TLAPS. File
names below are those of the repository (`src/src/main.cpp` and so on).

## The system

One process, one thread, one loop around `poll`. What makes it hard is not
threads but the many parties around the loop: two sockets whose queues fill and
overflow, a serial port that takes none, some or all of the bytes it is offered,
a terminal that may hang up, a lamp that may be unplugged, and a library that
parses packets it did not build.

| Part | State | Operations | Talks to |
|---|---|---|---|
| Buffered writer (`utils.h`, `NonblockWriter`) | a deque of byte vectors | `write`, `flush`, error callback | serial port; called by every handler that drives the lamp |
| Event loop (`main.cpp`, `run`, `parseMessage`) | poll array and revents, raw mode, log level, the OSC packet at hand | a handler per descriptor | sockets, port, terminal, writer, OSC library |
| Startup and exit (`main.cpp`, constructor, `main`, `atexitfn`) | options, terminal settings, descriptors | the constructor's steps, `exit` | the system; ends in `run` |
| UDP wrapper (`udp.hh`, `UdpSocket`) | descriptor, sticky error text, two addresses | `bindTo`, `connectTo`, `receiveNextPacket`, `sendPacketTo`, `close` | kernel; the loop calls `receiveNextPacket` |
| OSC writer and reader (`oscpkt.hh`) | storage and open bundles; position, messages found, error | `startBundle`, `endBundle`, `addMessage`; `init`/`parse`, `popMessage` | a client's packet goes to the daemon's reader |
| OSC message and patterns (`oscpkt.hh`) | address, type tags, arguments | parse, push, pop, match | reader and loop |
| Command values (`main.cpp`) | none | colours, clamping, lamp index, orientation | the loop |
| MIDI bridge, colour chooser (`nanosublight.py`, `setcolor.py`) | last controller values | one message per event | clients of the daemon |

What makes each correct:

* writer: the lamp gets every accepted byte once and in order, whatever `::write`
  takes; nothing stays behind that the port would take;
* loop: never asleep while work waits, never blocked in `recvfrom`, no socket
  starved; what the lamp is told is exactly what the datagrams call for; raw
  bytes only when raw mode is on; a lost lamp ends the daemon;
* startup: everything or nothing, log levels as documented, the terminal given
  back;
* OSC: what was added to a packet comes out of it, or nothing does; parsing
  stays inside the packet and ends; what a message's reader pops is what its
  sender pushed; a pattern matches what it means;
* UDP wrapper: one descriptor, never lost, whatever fails; true results;
  datagrams go where they were sent;
* command values and clients: the bytes the lamp reads are the colour, the lamp
  and the angle the client meant.

`PROJECT.json` lists the components, the places where this code is hard to test
("hazards") with the property that covers each, the source lines each definition
models, and the disagreements with the documentation that were met.

## Modules

| Module | Models | Correspondence |
|---|---|---|
| `LampStream` | nothing in the code: the promise | a stream of accepted bytes that a device takes from the front, until the process stops |
| `NonblockWriter` | `NonblockWriter`, `SerialIO::writeFailed` | one action per operation and one per `::write` (`FlushWhole`, `FlushPart`, `WriteFailed`); a byte is its place in the stream, a vector an interval of places |
| `Moodpd` | `run`, `parseMessage`, `writeCommand`, `receiveNextPacket` as called | extends `NonblockWriter` and shares its variables; `pc` is the descriptor being served; one action per handler and per way it fails |
| `Startup` | constructor, `setLineOrientedStdin`, `atexitfn`, `daemonize`, `exit` | one action per option and per step of the constructor; a failure leaves through `Exit` |
| `OscFormat` | the words of a packet | a word is the number its four bytes spell, a message an opaque sequence of words |
| `OscWriter` | `PacketWriter`, `packMessage` | one action per call and outcome |
| `OscReader` | `PacketReader`, the verdict of `buildFromRawData` | the recursion of `parse` is a stack of frames; one action per branch |
| `OscPacket` | a client's writer, a foreign client, the daemon's reader | composes the two |
| `UdpSocket` | `UdpSocket` | one action per call and way it ends; `openSocket` takes a step per address; the kernel's descriptors beside the object's members |
| `PatternMatch` | `internalPatternMatch`, `fullPatternMatch`, `partialPatternMatch` | a pointer is a place, a null pointer 0, the recursion a recursive function; `Means` is what a pattern means |
| `OscMessage` | `Message`, `ArgReader`, `Storage` | byte by byte; one action per call of a sender and a receiver; a loop over the arguments is a recursive function; extends `PatternMatch` |
| `Commands` | the values in `run` and `parseMessage`, `sscanf` and `%02x` as they are used | operators from a request to a frame; extends `OscMessage`, as `run` uses the library |
| `LampClients` | `nanosublight.py`, and clients of every kind | each request and the frame it makes; extends `Commands` |
| `MC...` | | values of the constants for TLC |
| `..._proofs` | | theorems about the module they are named for; `Moodpd_proofs` holds the writer's too |
| `FlattenLemmas` | | induction on the naturals, and what `FlattenSeq` computes |

Some choices a reader should know of:

* A handler that writes to the lamp leaves the writer in state `flushing`; the
  loop's actions wait for `ready`. Between two `::write` calls the port drains
  and datagrams arrive, as they do in the program. Every other handler is one
  action, because it makes at most one system call whose result depends on
  anybody else.
* `revents` are what `poll` returned, however old they are when a handler reads
  them. The test `!pfd.revents&POLLIN` is modelled as C binds it: true when
  `revents` is 0.
* With INFO logging on, a failed read from the lamp skips the flush of the same
  pass (`main.cpp:368`); the log level is part of the state for that reason.
* A datagram has a number and the kinds of its messages. A malformed one is
  known only as malformed: the code drops it, whatever is wrong with it.
* In `Startup` the settings of a terminal are one of three values, and `tcsetattr`
  may fail for a process that `-d` took out of the foreground. A signal ends the
  process without `atexit` handlers (`Killed`).
* In `UdpSocket` an address is one of a set; `None` stands for -1 and for an
  address nobody filled in. `local_addr` and `remote_addr` stay what they were when
  the object is closed or opened again; that is in the code, and the model keeps
  it. An interrupted send leaves `sent` at 0, so it is not repeated and not reported
  as done. `sendPacketTo` looks at the address only if the socket is, or once was,
  bound; else the datagram goes to the peer. The history variable `past` keeps whether
  the object was ever bound and the last peer it had, which is what the code's stale
  addresses amount to; `partner` is the peer of the open socket.
* `OscMessage` keeps bytes and `OscReader` words: the reader of packets cares only
  where messages begin and end. The two meet in what a message is:
  `AcceptedIsCanonical` is why `OscReader` may take it as opaque.
* `Commands` keeps the receive buffer of `run`: what was received of a message, the 0
  put behind it, and `stale`, what an earlier datagram may have left there. A message
  is cut where the buffer ends. `Blanks` are the six characters `isspace` knows.
* Characters in the brackets of a pattern are compared as signed chars (`AsChar`), as on
  the platform `Startup` is about.
* What a datagram or an OSC message says does not change when the daemon writes,
  so `Commands` is separate from `Moodpd`: there a frame is a kind and a length.
* The fork parent is not modelled beyond its exit.

Each module also holds a few operators commented as mutated forms: what a
definition would be with a plausible bug. They show that the properties can
fail, and nothing else uses them.

## Runs

| Run | Configuration | Question | Bounds |
|---|---|---|---|
| writer | `MCNonblockWriter.cfg` | does the writer implement the byte stream? | vectors of 1 to 3 bytes, a queue of 3, 9 bytes in all: vectors that fit, are cut and are refused, up to nine of them buffered |
| loop_safety | `MCMoodpd.cfg` | is the lamp told exactly what the datagrams call for, and is work ever forgotten or waited for in the wrong place? | 2 numbered datagrams of every kind, a terminal, any one fault, a port of 1 byte against frames of 1 or 2, an OSC packet with two frames around a foreign message |
| loop_live | `MCMoodpdLive.cfg` | does everything that must happen happen, and raw mode not, without a terminal? | malformed datagrams without end on both sockets, 1 numbered one, 1 fault |
| startup | `MCStartup.cfg` | does every command line lead where it should? | up to two options with up to two flags, and three `-l` with one |
| osc_packets | `MCOscPacket.cfg` | does a packet survive the way? | every packet of six calls (two nested bundles with a message take five), and foreign packets over an alphabet with sizes that fit, overrun, are zero or are odd: up to two words without a header, a header and up to four words, and a header, a size, a nested header and up to three words |
| udp_sockets | `MCUdpSocket.cfg` | is a descriptor lost, a result wrong, a datagram sent astray? | two descriptors (one is in use while the next address is tried), two addresses, lists of up to two, any number of calls |
| client_values | `MCLampClients.cfg` | is the lamp told what the client meant? | see below |
| udp_stale_peer | `MCUdpStalePeer.cfg` | is `remote_addr` set only by a connected socket, and by what a bound one receives? | violated: see below |
| osc_socket_lost | `MCMoodpdOscDeaf.cfg` | "The OSC server listens on port 4243" | violated: see below |
| documented_options | `MCStartupHelp.cfg` | are the documented options options? | violated: see below |
| osc_unclosed | `MCOscUnclosed.cfg` | "the error flag will be raised if an opened bundle is not closed" | violated: see below |
| osc_blob_size | `MCOscBlobSize.cfg` | is a "blob so large that it did overflow" rejected? | violated: see below |

Receive queues hold one datagram in the loop's runs: a full queue drops what
comes, and one entry is enough for that and for a datagram that waits while
another is served. `MaxAccepted` in these runs is above what two datagrams can
cause, so it never stops a step. Deadlock is not checked: the process ends, and
with no more datagrams the loop sleeps; `NeverSleepsOnWork` states when it may. In
client_values a request is answered and that is all. In udp_sockets deadlock is
checked: the owner of a socket can always call something.

In client_values nothing but the bridge's memory carries over from one request to
the next, so requests are enumerated rather than chained: texts of up to six
characters over a digit, a letter, a blank and a minus, with other blanks and a 0 in chosen
ones, and ones at the end of the buffer, each with a clean buffer and with one that holds
digits; arguments around every
boundary of the arithmetic, the ends of the int included; names of up to three
characters; patterns of up to three special characters and chosen longer ones (brackets with
ranges, braces with three alternatives) against paths of up to three; messages of up to
two arguments of every type and up to three pops; foreign packets with heads, tags and
padding right and wrong. Three special characters are enough for a star or a double slash
before another, a bracket or a brace list left open, and both ends of a range.

### What the runs show

* The buffered writer never loses, repeats or swaps a byte (`ExactlyOnceInOrder`,
  `BufferIsTheRest`), and is the abstract stream (`ImplementsStream`).
* Frames handed to the lamp are those the received datagrams call for, in order,
  with OSC packets as a whole (`ExactlyDue`); raw ones only in raw mode, and
  never without a terminal (`RawOnlyFromTerminal`).
* The loop sleeps only when nothing waits on a socket, on a terminal that is up or in the
  buffer (`NeverSleepsOnWork`), and the blocking `recvfrom` never blocks (`RecvNeverBlocks`). This rests on the daemon being
  the only reader of its socket, and on the kernel not withdrawing a datagram it
  reported; Linux may do that for one with a bad checksum, which is not modelled.
* No flood starves a socket: a datagram that waits is received, or the process ends, or
  the OSC socket is closed by an error (`EveryPacketServed`). A lost lamp ends the daemon
  (`LampLossEndsDaemon`), and accepted bytes keep moving (`ImplementsLiveStream`).
* The constructor gives the terminal back on every path to `exit`
  (`TerminalGivenBack`), sets the log levels the help text describes
  (`LogMaskAsDocumented`), enters `run` with everything (`RunsWithEverything`)
  and ends (`StartupEnds`).
* The reader of OSC packets stays inside them (`StaysInside`), uses every word
  once (`EveryWordUsedOnce`), ends (`ReadingEnds`), delivers nothing of a bad
  packet (`AllOrNothing`), and whatever calls built a packet, delivers what was
  added to it or nothing (`RoundTrip`).
* The socket object holds exactly one descriptor or none (`NoDescriptorLost`), tells
  whether it was opened (`OpenTellsTheTruth`), has none once it has an error
  (`ErrorMeansClosed`), and sends once or not at all, to a place that `SentWhereAsked` names: its
  peer, the address given, the last sender, or, if it is bound and has heard nobody, the
  peer of an earlier socket.
* Colours, clamped values, angles, raw bytes and knobs reach the lamp as meant
  (`ColourAsWritten`, `RgbAsClamped`, `OrientationAsTurned`, `RawAsSent`,
  `KnobReachesLamp`), with the exceptions below. There is a colour frame exactly if the
  text begins with three components, and neither it nor a raw frame has anything in it of
  what an earlier datagram left in the buffer.
* A message arrives as it was pushed (`ArrivesAsPushed`), an accepted one is understood
  to the last byte (`AcceptedIsCanonical`), the recommended chain of calls is true
  exactly for the right arguments (`ChainTellsTheTruth`), and patterns match what they mean
  (`MatchIsMeant`, `PartialIsMeant`). Where a path matches, its directory matches partly
  (`DirectoryMatches`), as `oscpkt_test.cc:348` expects of every match it checks.

Where the properties stop, because the code does:

* `OrientationAsTurned`: below -180 degrees, or where r+180 overflows, the value is
  negative (`OriTurnsBackwards`) and the frame has eight digits for it.
* `ColourAsWritten`: a component with a minus sign makes eight digits. Messages with `0x`
  in them are excluded by the assumption on the clients (`ClientsAssumption`).
* `KnobReachesLamp`: controllers 28 to 31 count as lamps 1 and 2 again, and the frame holds the
  colours of controllers 16 to 21.
* `MatchIsMeant`: of alternatives of which one begins another, the first is taken
  (`{a,ab}c` misses `abc`). `PartialIsMeant`: a bracket or brace list that fails returns a
  place, not null, so a partial match with one says little. `DirectoryMatches`: not with a
  slash in braces, where `{a/b,a}X` takes `a/bX` but not `a/`.
* `EveryPacketServed`: when an error closes the OSC socket, its queue is lost (see the
  findings).
* Braces with stars in them are text, as in the code.

Five statements of the repository do not hold:

* README.rst says the OSC server listens on port 4243. After an error of
  `recvfrom` that is not one of four, `receiveNextPacket` closes the socket
  (`udp.hh:255`); the loop does not look, and the daemon goes on without it.
* The help text lists `-r`. getopt's list of letters does not (`main.cpp:242`), so
  `-r` prints the help text and exits with 1.
* `oscpkt.hh:614` promises an error flag for a bundle that was not closed. There
  is none. `RoundTrip` shows that this is harmless to the receiver: it takes all
  the messages of such a packet, or rejects it.
* `oscpkt.hh:465` says a blob so large that its size overflows is rejected. The size is
  added up in 32 bits (`oscpkt.hh:458`), so the last four sizes wrap to 0..3; the
  first of them passes, if the other arguments of the message use up its bytes. What
  `popBlob` then does is undefined; the model only says which bytes the message claims.
* `udp.hh:123` says `remote_addr` is set for connected sockets, and for bound ones by what
  they receive. `openSocket` does not clear it, so an object that was connected and is
  then bound sends its first `sendPacket` to the peer of the earlier socket, and reports
  it as sent.

### Fairness

* `Moodpd!FairSpec` assumes that the process is scheduled (`WF` of `Daemon`) and
  that the serial port keeps sending (`WF` of `PortDrains`): it has no flow
  control, `openSerial` turns CRTSCTS and XON/XOFF off. Nothing is assumed of clients,
  lamp, terminal or failures. `poll` and the handlers are one thread, so weak
  fairness of the whole loop, not of each action, is what the system gives.
* `Startup!Spec` assumes the constructor is scheduled, `OscPacket!Spec` that the
  reader's calls run on. `UdpSocket` and `LampClients` promise nothing of when their
  owners call, and state no liveness.
* Liveness is checked, not proved: TLAPS cannot reason about `ENABLED`.

## Proofs

| Theorem | Module | States |
|---|---|---|
| `WriterTypes`, `WriterInOrder`, `WriterKeepsTheRest` | `Moodpd_proofs` | the writer's invariants, for any sizes, port and bound |
| `WriterImplementsStream` | `Moodpd_proofs` | the writer refines `LampStream!Spec` |
| `MoodpdUsesWriter` | `Moodpd_proofs` | every behaviour of the daemon is one of the writer's |
| `MoodpdInOrder`, `MoodpdKeepsTheRest`, `MoodpdImplementsStream` | `Moodpd_proofs` | so the whole daemon has the writer's properties |
| `MoodpdTypes` | `Moodpd_proofs` | types and reachable log levels |
| `LoopNeverSleepsOnWork`, `LoopRecvNeverBlocks` | `Moodpd_proofs` | for any clients, lamp, terminal and faults |
| `LoopRawOnlyFromTerminal` | `Moodpd_proofs` | raw mode needs a terminal, for any packets and faults |
| `LoopWritesExactlyDue` | `Moodpd_proofs` | the lamp is told what the received datagrams call for, in order, for any datagrams and any packets of messages |
| `StartupTypes`, `TerminalIsGivenBack`, `RunStartsWithEverything` | `Startup_proofs` | on every command line |
| `LogMaskIsAsDocumented` | `Startup_proofs` | however many `-l` the command line has, in any order |
| `UdpTypes`, `UdpNoDescriptorLost`, `UdpOpenTellsTheTruth`, `UdpErrorMeansClosed`, `UdpSentWhereAsked` | `UdpSocket_proofs` | for any descriptors, addresses and failures |
| `PacketTypes`, `PacketStaysInside`, `PacketAllOrNothing`, `PacketUsesEveryWordOnce` | `OscPacket_proofs` | for any messages, time tags, calls and foreign packets |
| `PacketRoundTrip` | `OscPacket_proofs` | whatever calls built a packet, the reader hands out what was added, in order and with its time tags; all of it, if the packet is well-built, and all or nothing, if not |
| `AcceptedStandApart` | `OscMessage_proofs` | in bytes: what the library accepts as a message begins with a slash, and none of it is the beginning of another |
| `Int32Survives`, `BytesSurvive` | `OscMessage_proofs` | what `int2bytes`, `pod2bytes` and the padding write, the reader's conversions read: every int, every value of every type |
| `SentIsReceived` | `LampClients_proofs` | any values pushed into a message for any address arrive, each at its place |
| `AcceptedIsUnderstood` | `LampClients_proofs` | a packet of any bytes that is accepted is what the library itself would have written of the values it found in it, but for a blob whose size wraps |
| `ChainIsTrue` | `LampClients_proofs` | any chain of `popXXX` calls tells the truth and returns a beginning of what was pushed |
| `FullMatchUnderstood`, `PartialMatchUnderstood` | `PatternMatch_proofs` | for every pattern and every path the matcher accepts what `Means` says, and nothing else |
| `DirectoryUnderstood` | `PatternMatch_proofs` | for every pattern without a slash in braces, and every path |
| `FullMatchIsTrue`, `PartialMatchIsTrue`, `DirectoryMatchIsTrue` | `LampClients_proofs` | so the runs' properties of matching hold, whatever is asked |
| `LiteralMatches` | `PatternMatch_proofs` | a pattern without special characters matches its own text and nothing else |
| `RgbMatches`, `OriMatches` | `LampClients_proofs` | the daemon's two patterns take each their own addresses, for every name of a lamp |
| `RawIsSent` | `LampClients_proofs` | for every message of any size and whatever the buffer held |
| `ColourIsWritten` | `LampClients_proofs` | for every message without a `0x` and whatever the buffer held |
| `RgbIsClamped`, `OrientationIsTurned` | `LampClients_proofs` | from the ints a client passes, through the message, the matcher and `%02x`, to the frame: any ints, any name, any arguments of another client |
| `KnobReaches` | `LampClients_proofs` | for any state of the bridge and any position, through the message and the name that is read back |
| `ClampIsNearest`, `HexSpells`, `OriTurns`, `OriTurnsBackwards` | `LampClients_proofs` | the arithmetic of the commands for every int; TLC tries 26 |

They assume only the named assumptions on the constants (`WriterAssumption`,
`MoodpdAssumption`, `StartupAssumption`, `UdpAssumption`, `OscFormatAssumption`,
`OscPacketAssumption`, `MessageAssumption`, `ClientsAssumption`), which TLC evaluates on
every run. `OscFormatAssumption` says that no message begins with `#` and none is the beginning
of another; the packet's model takes messages as opaque words, and for the bytes
`buildFromRawData` accepts both are the theorem `AcceptedStandApart`. The last two say that texts are C strings (characters 1 to 255), that a packet is
whole words and shorter than the greatest int, and that values are what C types hold.

The models compute with recursive functions (`Bracket`, `Reached`, `Means`, `ScanArgs`,
`PushAll`) and folds (`FlattenSeq`), and their lemmas are inductions over data. The
library's induction theorems take an operator, which the provers cannot instantiate;
`FlattenLemmas` wins `NatSetInduction`, for a set of naturals instead of a predicate, from
the library's fact that finite sets are well-founded under strict inclusion. Each recursive
function is first proved to exist, by growing it one argument at a time, and then to
satisfy its equation.

* Writer. `WriterInv` is the conjunction of types, order and rest. Order alone is
  not inductive: that the next byte to be written is the next of the stream
  needs the deque to start where the descriptor ended, which is the first part
  of `BufferIsTheRest`; keeping that over a `pop_front` needs the vectors to be
  adjacent, its third part. The refinement then maps `write` to `Accept`, a `::write`
  that takes something to `Transfer`, an exit to `Stop` and the rest to stuttering.
* Daemon. One lemma per group of actions shows that it changes the writer's
  variables only through the writer's operations; the invariants carry over.
* Loop. `LoopInv` says that between `Register` and `poll` nobody but the kernel acts,
  so the array still fits the buffer, the sockets and the terminal, and that from `poll` to the
  socket's handler, the first in the array, datagrams only come. It would not be
  inductive for a handler further back, and need not be: only `sock` is blocking.
* Startup. `TerminalInv`: before the terminal is taken it is as found and no
  handler is registered; afterwards the handler is, with the settings found.
  `TakenInv` adds what is open and bound at each step, and that a process goes into
  the background only before it takes the terminal.
* Raw mode. `RawInv`: without a terminal no descriptor of the array is the terminal's, so
  its handler never runs; the key is the only way to raw mode, and raw mode the only
  way to a raw frame.
* Socket. `UdpInv` adds to the properties that an open in progress has no descriptor yet
  and no error, and that the peer a descriptor was connected to is the partner the
  object knows; that the refused descriptors are closed makes it inductive. `PastInv` adds
  that the addresses the object holds are the ones `past` tells of; without it a bound
  socket that has heard nobody could send anywhere.
* Packets. `ReaderInv`: the stack of parse calls is nested, each inside the one
  below, so a new element, checked against its own bundle only, is inside all of
  them; what is found are messages; nothing is handed out before the stack is empty.
  `WriterInv` holds the writer to its types: the header of an open bundle is inside
  the storage.

* What is due. `DueInv`: what was handed to the lamp, and what the messages at hand still
  call for, is what the datagrams taken so far call for; `FlattenAppend` and
  `FlattenHeadTail` carry that over a datagram more and a message less.
* Every word. What is pending is a sum over the stack of calls; because the calls are nested
  it telescopes to the distance from the innermost position to the outermost end, and
  each step of the reader moves that by what it uses.
* Round trip. `RoundInv` adds three parts to the invariants above. `ShapeInv`: what the writer's
  calls have stored is one closed item, one item that is still open, or spoilt by a second item
  at the top. `ReadingInv`: what is found so far, and what the calls on the reader's stack will
  still find in their elements, is what was added, or the outermost call is doomed. An open bundle
  dooms it, as its element has the size 0 in front of a word that is no multiple of four (`#bun`);
  a second item does so too, as a message may not be followed by anything and a bundle not by what is
  no size. `HandedOutFirst`: what was handed out is a beginning of what was found. None of them
  alone is inductive. What an element holds is told without recursion, by the partition of its
  words (`Elements`); that it can be parted in one way only needs messages that do not
  begin one another.
* Log levels. `MaskInv`: at every point the command line is the flags that are done with,
  whose levels the mask holds, followed by the flags to come.
* Messages. `Carries`: each push adds a tag, the padded bytes of the value and the
  place of the argument, and leaves the bytes before it alone. `Laid` says the same of a
  packet at hand; induction over the arguments shows that `ScanArgs` finds each of them
  there, and the padding that `ceil4` passes over is what the sender added. The other way,
  `AcceptedFacts` collects what the tests of `buildFromRawData` establish, and the zeros it
  checks are the only bytes a sender has no choice of; so a sender of the same values
  writes the same bytes (`WrittenAgain`). Without `~SizeWrapped` that is false.
* The chain. `ChainInv`: a reader without an error is at the argument the calls have
  come to, and they all fit; one with an error has a call that does not fit, or one too many,
  and nothing that comes later removes it. That is what makes it inductive although
  `popBool` and `pop()` move on after an error.
* Patterns. `Accepts(p, t)` and `Means(p, t)` are compared from the last place of the
  pattern to the first. Sound: every result `internalPatternMatch` hands on is the result
  for a place its element may lead to (`Spans`). Complete: the best of a star's results is
  the end if any is; of alternatives of which none begins another only one can match, so
  the first that does is that one.
* Directories. From the last place of the pattern to the first: where the rest of the pattern
  takes the rest of the path, it takes the rest of the directory at least partly. A star or
  double slash that reaches past the last slash may end at the end of the directory instead,
  and an element that cannot go on there returns its place, which is not null. An alternative
  without a slash is all before the last slash or all behind it; that is where
  `BracesWithinElements` is needed.
* Addresses. The characters of a literal pattern decide where a match may go: each leads one
  place on, past its own character. For a literal as a whole that is `LiteralMatches`; in
  the pattern for colours the star between two literals may lead over a name but not over a
  slash, so it takes exactly the addresses whose name has none.
* Digits. `Scan` takes its value from the front of its text and leaves the rest, so three of them
  take three disjoint pieces, each at least a digit long; of six digits in front each takes two,
  and `%02x` writes the same two again (`HexSpells`). The other way, `Components` says without
  `Scan` where a component may end; there is at most one such place, and it is where `Scan`
  stops (`ComponentIsRead`, `ReadIsComponent`). `BufferFacts` and `TextIs` keep what is behind
  the message in the buffer out of both.
* Frames. `FrameInv` says which frame answers which request, one named part for each kind of client
  (`ColorFramed`, `RgbFramed`, `OriFramed`, `MoveFramed`, ...), as a request and what is pushed for it
  determine the message; a step that changes neither keeps it. The
  lemmas behind `SentIsReceived` and `ChainIsTrue` then give the ints the daemon pops, the
  patterns the branch it takes, and the arithmetic lemmas the digits. They are for any three ints;
  the requests of the model, and so the theorems, repeat one (`<<v, 255, v>>`, `<<v, w, v>>`).

Only model-checked: the liveness properties, and the runs that expect a violation. Every invariant
and every action property that a run checks is stated by a theorem.

## Plan

Done, in this order: the core (writer, loop), startup, OSC packets, the UDP socket,
OSC messages and patterns, the command values and the bridge, and the proofs
above. Left: `OscReader` takes messages as opaque where it could extend
`OscMessage`, and the packet's proofs could then reach into them; `Moodpd` could read its OSC
socket through `UdpSocket`, of which it has only the receiving side.

## Not modelled

* A `0x` in front of a number, which `sscanf` would take; the host's byte order, which
  decides how `moodpd_packet`'s magic is compared.
* `Url` and the functions that print host names and ports: the daemon does not
  call them.
* In the bridge: the search for the MIDI device, polling, and the messages to the
  dali server, which is another program.
* Whether `popBlob` crashes on a blob whose size wrapped: undefined in C++.
* The fields of termios, the text of log messages, Windows branches, the protocol
  disabled at compile time (`MUCPROTOCOL`, and with it `cmd_handler.h`).
* `setcolor.py`, the OSC tests and demo, the build files: no state of the daemon.
* Memory: a buffer that grows without bound under load ends the process
  somewhere; the models stop at `MaxAccepted`.

## Running

    tlc -workers 2 -config MCMoodpd.cfg MCMoodpd.tla
    tlapm Moodpd_proofs.tla

The loop's runs and client_values take a minute or two each, the others seconds; the proofs of
a module take up to several minutes from nothing.
