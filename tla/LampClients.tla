----------------------------- MODULE LampClients -----------------------------
(***************************************************************************)
(* What the daemon makes of the requests of its clients: of the bridge     *)
(* from a MIDI controller (src/nanosublight.py), of clients that send      *)
(* colours, raw bytes and OSC messages of their own, and of any sender of  *)
(* OSC messages to the library.                                            *)
(***************************************************************************)
EXTENDS Commands

CONSTANTS
    Texts,          \* the messages of colour commands
    Messages,       \* the messages of raw commands
    Stale,          \* what the receive buffer may hold behind a datagram
    Names, Numbers, \* the lamps' names and the arguments in OSC messages
    ArgLists,       \* the arguments of other OSC messages
    Patterns, Paths,\* what the library is asked to match
    Controllers,    \* the controllers that are moved
    Positions       \* where they can be (a MIDI value)

\* Somewhere in text is "0x", which a libc may or may not take for a number.
HasPrefix(text) == \E i \in 1..(Len(text) - 1) : text[i] = 48 /\ text[i + 1] \in {88, 120}

ASSUME ClientsAssumption ==
    /\ Texts \subseteq Seq(0..255) /\ Messages \subseteq Seq(0..255)
    /\ Stale \subseteq Seq(0..255)
    /\ Names \subseteq Seq(1..255)
    /\ \A text \in Texts \cup Names : ~HasPrefix(text)
    /\ Patterns \subseteq Seq(1..255) /\ Paths \subseteq Seq(1..255)
    /\ ArgLists \subseteq Seq(Value)
    /\ Numbers \subseteq (-MaxInt - 1)..MaxInt
    /\ Controllers \subseteq 0..127 /\ Positions \subseteq 0..127

VARIABLES
    controllerState,   \* what the bridge remembers of each controller
    request,           \* history: the last request
    frame              \* what it made the daemon write

vars == <<messageVars, controllerState, request, frame>>

Init ==
    /\ MessageInit
    /\ controllerState = [c \in 0..127 |-> 0]
    /\ request = [kind |-> "none"]
    /\ frame = NoFrame

Int32(v) == [tag |-> Int32Tag, bytes |-> Int32Bytes(v)]

\* The message as the daemon gets it.
Osc(address, args) == Built(Packed(PushAll(InitMessage(address), args)))

RgbMessage(name, numbers) ==
    Osc(LampsPath \o name \o RgbPath, [k \in 1..3 |-> Int32(numbers[k])])

-----------------------------------------------------------------------------
(* The bridge *)

\* Mutated form: the colours are read before the new value is stored.
Remembered(state) == controllerState

AsStored(state) == state

\* '%02d' % (lampno+1): decimal digits, which the daemon reads as hexadecimal.
LampName(number) == <<48 + (number \div 10), 48 + (number % 10)>>

\* The first of the three controllers of a lamp: of the main lamp, or of one of
\* the four small ones.
FirstOf(c) == IF c < 3 THEN 0 ELSE 16 + (3 * (((c - 16) \div 3) % 4))

NumberFor(c) == IF c < 3 THEN 0 ELSE ((FirstOf(c) - 16) \div 3) + 1

\* Buttons and the controllers between belong to the dali server.
ForMoodlamp(c) == c < 3 \/ c \in 16..31

\* A batch of events was read, and its last one is a controller's.
Moved(c, position) ==
    /\ controllerState' = [controllerState EXCEPT ![c] = position * 2]
    /\ request' = [kind |-> IF ForMoodlamp(c) THEN "moved" ELSE "dali",
                   controller |-> c, position |-> position]
    /\ frame' = IF ForMoodlamp(c)
                THEN OscFrame(RgbMessage(LampName(NumberFor(c)),
                         [k \in 1..3 |-> AsStored(controllerState')[FirstOf(c) + k - 1]]))
                ELSE NoFrame

-----------------------------------------------------------------------------
(* Other clients *)

ColorSent == \E message \in Texts, stale \in Stale :
    request' = [kind |-> "color", message |-> message] /\ frame' = ColorFrame(message, stale)

RawSent == \E message \in Messages, stale \in Stale :
    request' = [kind |-> "raw", message |-> message] /\ frame' = RawFrame(message, stale)

RgbSent == \E name \in Names, v \in Numbers :
    /\ request' = [kind |-> "rgb", name |-> name, numbers |-> <<v, 255, v>>]
    /\ frame' = OscFrame(RgbMessage(name, request'.numbers))

OriSent == \E v \in Numbers, w \in Numbers :
    /\ request' = [kind |-> "ori", numbers |-> <<v, w, v>>]
    /\ frame' = OscFrame(Osc(OriPath, [k \in 1..3 |-> Int32(request'.numbers[k])]))

OtherOscSent == \E args \in ArgLists, address \in {OriPath, LampsPath \o <<48>> \o RgbPath} :
    /\ request' = [kind |-> "other", args |-> args]
    /\ frame' = OscFrame(Osc(address, args))

Matched == \E pattern \in Patterns, path \in Paths :
    request' = [kind |-> "match", pattern |-> pattern, path |-> path] /\ frame' = NoFrame

\* What a request makes the daemon write depends on nothing that came before
\* it, so one is enough.
Fresh == request.kind = "none" /\ out = NoMessage /\ in = NoMessage

Next ==
    \/ /\ request.kind \in {"none", "moved", "dali"} /\ out = NoMessage /\ in = NoMessage
       /\ \E c \in Controllers, position \in Positions : Moved(c, position)
       /\ UNCHANGED messageVars
    \/ /\ Fresh
       /\ ColorSent \/ RawSent \/ RgbSent \/ OriSent \/ OtherOscSent \/ Matched
       /\ UNCHANGED <<messageVars, controllerState>>
    \/ /\ request.kind = "none"
       /\ MessageNext
       /\ UNCHANGED <<controllerState, request, frame>>

Spec == Init /\ [][Next]_vars

-----------------------------------------------------------------------------
(* Properties *)

\* The byte that the digits at place k of the frame stand for.
ByteAt(k) == 16 * frame.digits[k] + frame.digits[k + 1]

\* Where a component at the front of text may end: it is blanks, then one digit
\* that no digit follows, or two digits, or a sign and a digit.
Components(text) ==
    {n \in DOMAIN text :
        /\ text[n] \in DOMAIN DigitValue
        /\ \E blanks \in {n - 1, n - 2} \cap Nat :
            /\ \A i \in 1..blanks : text[i] \in Blanks
            /\ IF blanks = n - 1 THEN n < Len(text) => text[n + 1] \notin DOMAIN DigitValue
                                 ELSE text[n - 1] \in {Plus, Dash} \cup DOMAIN DigitValue}

\* The number that the component stands for that ends at n.
Meaning(text, n) ==
    LET digit == DigitValue[text[n]]
    IN  IF n = 1 THEN digit
        ELSE IF text[n - 1] = Dash THEN -digit
        ELSE IF text[n - 1] \in DOMAIN DigitValue THEN 16 * DigitValue[text[n - 1]] + digit
        ELSE digit

\* src/README.rst: the text of a colour command is "#RRGGBB".  A frame is written
\* exactly for the messages that begin, up to a first 0 and as far as they fit
\* into the buffer, with three components, whatever an earlier datagram left
\* behind them.  Six digits reach the lamp as they are; otherwise it is told the
\* numbers the components stand for, and if none is negative it gets six digits,
\* two for each of them.
ColourAsWritten ==
    request.kind = "color" =>
        LET room == MaxPacketSize - HeaderSize
            text == TextIn(SubSeq(request.message, 1, Min({Len(request.message), room})))
            green(i) == Drop(text, i)
            blue(i, j) == Drop(green(i), j)
        IN  /\ Run(text, DOMAIN DigitValue, 6) = 6 =>
                    frame.digits = [k \in 1..6 |-> DigitValue[text[k]]]
            /\ frame # NoFrame =>
                    \E i \in Components(text) : \E j \in Components(green(i)) :
                        Components(blue(i, j)) # {}
            /\ \A i \in Components(text) : \A j \in Components(green(i)) :
                \A k \in Components(blue(i, j)) :
                    LET value == <<Meaning(text, i), Meaning(green(i), j), Meaning(blue(i, j), k)>>
                    IN  /\ frame = Writes(value)
                        /\ (\A c \in 1..3 : value[c] >= 0) =>
                            /\ Len(frame.digits) = 6
                            /\ \A c \in 1..3 : ByteAt(2 * c - 1) = value[c]

\* b is the number of a byte that is nearest to v.
IsNearest(b, v) == b \in 0..255 /\ \A w \in 0..255 : (v <= w => b <= w) /\ (w <= v => w <= b)

\* A colour sent over OSC arrives as three bytes, each the nearest to what was
\* sent, with the lamp's number behind them, for every name that is one element
\* of a path and whatever the numbers are; other arguments make no frame.
RgbAsClamped ==
    /\ request.kind = "rgb" =>
        /\ (frame # NoFrame) <=> Slash \notin ToSet(request.name)
        /\ frame # NoFrame =>
            /\ Len(frame.digits) = 8
            /\ \A k \in 1..3 : IsNearest(ByteAt(2 * k - 1), request.numbers[k])
            /\ Run(request.name, DOMAIN DigitValue, 2) = 2 =>
                    SubSeq(frame.digits, 7, 8) = [k \in 1..2 |-> DigitValue[request.name[k]]]
    /\ request.kind = "other" =>
        ((frame # NoFrame) <=> [k \in DOMAIN request.args |-> request.args[k].tag]
                             = <<Int32Tag, Int32Tag, Int32Tag>>)

\* An angle of a compass, however many turns it counts, becomes the part of the
\* full circle it is ahead of south, as a byte; from -180 degrees on, and up to
\* where the int overflows.
OrientationAsTurned ==
    request.kind = "ori" /\ (\A k \in 1..3 : request.numbers[k] \in -180..(MaxInt - 180)) =>
        /\ Len(frame.digits) = 6
        /\ \A k \in 1..3 : \E ahead \in 0..359 :
            /\ (ahead - (request.numbers[k] % 360)) % 360 = 180
            /\ 360 * ByteAt(2 * k - 1) <= 255 * ahead
            /\ 255 * ahead < 360 * (ByteAt(2 * k - 1) + 1)

\* A raw message that is not empty reaches the lamp byte by byte, zeros and
\* newlines included, as far as it fits into the buffer, and nothing of an
\* earlier datagram with it; an empty one writes nothing.
RawAsSent ==
    request.kind = "raw" =>
        LET message == request.message
        IN  /\ frame = NoFrame <=> message = <<>>
            /\ Len(frame.bytes) = Min({Len(message), MaxPacketSize - HeaderSize})
            /\ \A i \in DOMAIN frame.bytes : frame.bytes[i] = message[i]

\* A knob that was moved is in the frame the move makes, at the place of its
\* colour and for the lamp it belongs to, though the lamp's number travels as
\* decimal digits and is read as hexadecimal ones.  Of the controllers from 16
\* on, three belong to each lamp.
KnobReachesLamp ==
    request.kind = "moved" /\ request.controller \notin 28..31 =>
        LET c == request.controller
            lamp == IF c < 3 THEN 0 ELSE 1 + ((c - 16) \div 3)
            colour == IF c < 3 THEN c ELSE (c - 16) % 3
        IN  /\ Len(frame.digits) = 8
            /\ ByteAt(2 * colour + 1) = 2 * request.position
            /\ ByteAt(7) = lamp

\* fullPatternMatch accepts what the pattern means.
MatchIsMeant == request.kind = "match" => FullMatchIsMeant(request.pattern, request.path)

\* partialPatternMatch accepts what the beginning of the pattern means.
PartialIsMeant == request.kind = "match" => PartialMatchIsMeant(request.pattern, request.path)

\* Where fullPatternMatch accepts a path, partialPatternMatch accepts its
\* directory, with brackets and braces too.
DirectoryMatches == request.kind = "match" => DirectoryIsMatched(request.pattern, request.path)
=============================================================================
