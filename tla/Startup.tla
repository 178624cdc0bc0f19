------------------------------ MODULE Startup ------------------------------
(***************************************************************************)
(* The daemon from main to run() and to its end (src/src/main.cpp): the    *)
(* constructor parses the command line, takes over the terminal, opens the *)
(* two sockets and the lamp's device in this order, and every failure on   *)
(* the way leaves through exit(), which runs the atexit handler.           *)
(*                                                                         *)
(* run() itself is module Moodpd; here it is one step that may end.        *)
(***************************************************************************)
EXTENDS Naturals, Sequences, SequencesExt

CONSTANTS
    CommandLines,  \* the command lines the daemon may be started with
    StdinIsTty     \* stdin is a terminal

(* An option is what getopt makes of one argument: its letter and, for -l,  *)
(* the flags that follow.                                                   *)
Letters == {"h", "l", "d", "t", "r", "x"}      \* x: any letter nobody documents
Flags == {"e", "i", "q", "z"}                  \* z: any other flag
Option == [letter : Letters, flags : Seq(Flags)]

ASSUME StartupAssumption ==
    /\ CommandLines \subseteq Seq(Option)
    /\ StdinIsTty \in BOOLEAN

VARIABLES
    step,          \* how far the constructor got
    args,          \* the options getopt has not returned
    flags,         \* the rest of the flags of the -l at hand
    logMask,
    terminal,      \* the settings of the terminal on stdin
    oldSettings,   \* the settings setLineOrientedStdin saved
    restoring,     \* atexit(atexitfn) was called
    background,    \* fork() took the process out of the terminal's foreground
    open,          \* the descriptors that are open
    bound,         \* the sockets that are bound to their port
    argv,          \* history: the whole command line
    found,         \* history: the terminal's settings before the daemon
    rejected       \* history: the letter that was answered with the help text

optionVars == <<args, flags, logMask>>
ttyVars == <<terminal, oldSettings, restoring, background>>
fdVars == <<open, bound>>
history == <<argv, found, rejected>>
vars == <<step, optionVars, ttyVars, fdVars, history>>

Settings == {"lines", "keys", "other"}   \* canonical; per key; anything else

Init ==
    /\ step = "options"
    /\ argv \in CommandLines
    /\ args = argv
    /\ flags = <<>>
    /\ logMask = {"error"}
    /\ found \in {"lines", "other"}
    /\ terminal = found
    /\ oldSettings = "none"
    /\ restoring = FALSE
    /\ open = {} /\ bound = {}
    /\ rejected = "none"
    /\ background = FALSE

-----------------------------------------------------------------------------
(* exit() *)

\* tcsetattr on stdin.  It fails without a terminal, and may fail once the
\* process is in the background; nothing looks at its result.
SetTerminal(settings) ==
    \/ StdinIsTty /\ terminal' = settings
    \/ (~StdinIsTty \/ background) /\ UNCHANGED terminal

\* exit() runs atexitfn, if it is registered, and closes the descriptors.
Exit ==
    /\ step' = "exited"
    /\ IF restoring THEN SetTerminal(oldSettings) ELSE UNCHANGED terminal
    /\ open' = {} /\ bound' = {}

\* fail() and the exit() calls of the constructor, from the given step.
FailFrom(s) ==
    /\ step = s
    /\ Exit
    /\ UNCHANGED <<optionVars, oldSettings, restoring, background, history>>

-----------------------------------------------------------------------------
(* The command line: getopt(argc, argv, "hl:dt:") *)

KnownLetters == {"h", "l", "d", "t"}

\* Mutated form: where char is unsigned, getopt's -1 does not end the loop.
EndOfOptionsUnsigned == FALSE

\* char opt compares equal to -1 when the options are used up.
EndOfOptions == args = <<>>

NextOption(letters) ==
    /\ step = "options"
    /\ args # <<>>
    /\ Head(args).letter \in letters
    /\ args' = Tail(args)

OptionsDone ==
    /\ step = "options"
    /\ EndOfOptions
    /\ step' = "terminal"
    /\ UNCHANGED <<optionVars, ttyVars, fdVars, history>>

\* -h, and any letter getopt answers with '?': the help text, and exit.
Help ==
    /\ NextOption({"h"} \cup (Letters \ KnownLetters))
    /\ rejected' = IF Head(args).letter = "h" THEN rejected ELSE Head(args).letter
    /\ Exit
    /\ UNCHANGED <<flags, logMask, oldSettings, restoring, background, argv,
                   found>>

\* -d: the parent exits; the process modelled here is the child.
Daemonize ==
    /\ NextOption({"d"})
    /\ background' = TRUE
    /\ UNCHANGED <<step, flags, logMask, terminal, oldSettings, restoring,
                   fdVars, history>>

ForkFails ==
    /\ NextOption({"d"})
    /\ Exit
    /\ UNCHANGED <<flags, logMask, oldSettings, restoring, background, history>>

\* -t: another device for the lamp.
LampTty ==
    /\ NextOption({"t"})
    /\ UNCHANGED <<step, flags, logMask, ttyVars, fdVars, history>>

LogFlags ==
    /\ NextOption({"l"})
    /\ flags' = Head(args).flags
    /\ step' = "flags"
    /\ UNCHANGED <<logMask, ttyVars, fdVars, history>>

\* Mutated form: a break behind case 'i'.
WithBreak(mask, flag) ==
    [i |-> mask \cup {"info"}, e |-> mask \cup {"error"}, q |-> {}][flag]

\* One turn of the switch; case 'i' falls through to case 'e'.
WithFlag(mask, flag) ==
    [i |-> mask \cup {"info", "error"}, e |-> mask \cup {"error"}, q |-> {}][flag]

LogFlag ==
    /\ step = "flags"
    /\ flags # <<>>
    /\ Head(flags) \in {"e", "i", "q"}
    /\ logMask' = WithFlag(logMask, Head(flags))
    /\ flags' = Tail(flags)
    /\ UNCHANGED <<step, args, ttyVars, fdVars, history>>

UnknownLogFlag ==
    /\ flags # <<>>
    /\ Head(flags) \notin {"e", "i", "q"}
    /\ FailFrom("flags")

LogFlagsDone ==
    /\ step = "flags"
    /\ flags = <<>>
    /\ step' = "options"
    /\ UNCHANGED <<optionVars, ttyVars, fdVars, history>>

-----------------------------------------------------------------------------
(* The terminal, the sockets and the lamp *)

\* Mutated forms: the settings are saved after they were changed, or not at all.
SettingsAfterwards == "keys"
SettingsNotSaved == oldSettings

SettingsToSave == terminal

\* setLineOrientedStdin(), then atexit(atexitfn).
TakeTerminal ==
    /\ step = "terminal"
    /\ oldSettings' = IF StdinIsTty THEN SettingsToSave ELSE oldSettings
    /\ SetTerminal("keys")
    /\ restoring' = TRUE
    /\ step' = "socket"
    /\ UNCHANGED <<optionVars, background, fdVars, history>>

OpenSock ==
    /\ step = "socket"
    /\ open' = open \cup {"sock"}
    /\ step' = "bind"
    /\ UNCHANGED <<optionVars, ttyVars, bound, history>>

\* Mutated form: the result of bind is not looked at.
BindSockUnchecked ==
    /\ step = "bind"
    /\ bound' \in {bound, bound \cup {"sock"}}
    /\ step' = "serial"
    /\ UNCHANGED <<optionVars, ttyVars, open, history>>

BindSock ==
    /\ step = "bind"
    /\ bound' = bound \cup {"sock"}
    /\ step' = "serial"
    /\ UNCHANGED <<optionVars, ttyVars, open, history>>

OpenSerial ==
    /\ step = "serial"
    /\ open' = open \cup {"serial"}
    /\ step' = "osc"
    /\ UNCHANGED <<optionVars, ttyVars, bound, history>>

BindOsc ==
    /\ step = "osc"
    /\ open' = open \cup {"osc"}
    /\ bound' = bound \cup {"osc"}
    /\ step' = "hello"
    /\ UNCHANGED <<optionVars, ttyVars, history>>

\* serial.write("q\n", 2), and main calls run().
Hello ==
    /\ step = "hello"
    /\ step' = "running"
    /\ UNCHANGED <<optionVars, ttyVars, fdVars, history>>

\* socket, bind, the lamp's device, the OSC socket or the first write fails.
SetupFails == \E s \in {"socket", "bind", "serial", "osc", "hello"} : FailFrom(s)

\* run() ends only through exit().
RunEnds == FailFrom("running")

\* No signal has a handler: one that ends the process runs no atexit handler.
Killed ==
    /\ step \notin {"exited", "killed"}
    /\ step' = "killed"
    /\ open' = {} /\ bound' = {}
    /\ UNCHANGED <<optionVars, ttyVars, history>>

Proceed ==
    \/ OptionsDone \/ Help \/ Daemonize \/ ForkFails \/ LampTty
    \/ LogFlags \/ LogFlag \/ UnknownLogFlag \/ LogFlagsDone
    \/ TakeTerminal \/ OpenSock \/ BindSock \/ OpenSerial \/ BindOsc \/ Hello
    \/ SetupFails

Next == Proceed \/ RunEnds \/ Killed

\* The process is scheduled while it starts up.
Spec == Init /\ [][Next]_vars /\ WF_vars(Proceed)

-----------------------------------------------------------------------------
(* Properties *)

\* The types of the constructor's state.
TypeOK ==
    /\ step \in {"options", "flags", "terminal", "socket", "bind", "serial",
                 "osc", "hello", "running", "exited", "killed"}
    /\ args \in Seq(Option) /\ argv \in Seq(Option) /\ flags \in Seq(Flags)
    /\ logMask \subseteq {"error", "info"}
    /\ terminal \in Settings /\ found \in Settings
    /\ rejected \in Letters \cup {"none"}
    /\ oldSettings \in Settings \cup {"none"}
    /\ restoring \in BOOLEAN /\ background \in BOOLEAN
    /\ open \subseteq {"sock", "serial", "osc"} /\ bound \subseteq {"sock", "osc"}

\* However the daemon ends by itself, after a wrong option, a port in use, a
\* lamp that is not there or an error of run(), the terminal has the settings
\* it had before, unless -d took the right to set them away in between.
TerminalGivenBack == step = "exited" /\ ~background => terminal = found

\* The flags of an option, and those of all the -l options together, in order.
FlagsIn(option) == IF option.letter = "l" THEN option.flags ELSE <<>>
FlagsOf(options) == FlattenSeq([i \in DOMAIN options |-> FlagsIn(options[i])])

\* The flags that count: those behind the last q.
SinceQuiet(given) ==
    {given[i] : i \in {j \in DOMAIN given :
        \A k \in j..Len(given) : given[k] # "q"}}

\* The levels the help text promises for the flags that were given.
DocumentedMask(given) ==
    (IF SinceQuiet(given) # {} \/ given = <<>> THEN {"error"} ELSE {})
    \cup (IF "i" \in SinceQuiet(given) THEN {"info"} ELSE {})

\* What the help text says of -l: e is the default, i logs errors as well, q
\* logs nothing, and the flags can be combined: over any number of -l options
\* the constructor's loop yields the levels named since the last q.
LogMaskAsDocumented == step = "terminal" => logMask = DocumentedMask(FlagsOf(argv))

\* The constructor leaves nothing out when it gets as far as run(): both ports
\* are open and bound, the lamp's port is open, and a terminal is known as it was
\* found and, unless -d took the process off it, set to read keys.
RunsWithEverything ==
    step = "running" =>
        /\ open = {"sock", "serial", "osc"}
        /\ bound = {"sock", "osc"}
        /\ StdinIsTty => oldSettings = found
        /\ StdinIsTty /\ ~background => terminal = "keys"

\* Startup comes to an end on every command line.
StartupEnds == <>(step \in {"running", "exited", "killed"})

\* The help text lists -h, -r, -l, -d and -t: none of these is answered with
\* the help text and exit(1).  getopt's own list of letters has no r.
DocumentedOptionsAccepted == rejected \notin {"h", "r", "l", "d", "t"}
=============================================================================
