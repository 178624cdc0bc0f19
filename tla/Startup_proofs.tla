--------------------------- MODULE Startup_proofs ---------------------------
(***************************************************************************)
(* Startup on every command line: types, and the terminal given back.      *)
(***************************************************************************)
EXTENDS Startup, FlattenLemmas

USE DEF optionVars, ttyVars, fdVars, history

BeforeTerminal == {"options", "flags", "terminal"}
AfterTerminal == {"socket", "bind", "serial", "osc", "hello", "running"}

(* The terminal is as it was found until it is taken; then atexitfn is      *)
(* registered and its settings are the ones that were found.                *)
TerminalInv ==
    /\ step \in BeforeTerminal => terminal = found /\ ~restoring
    /\ step \in AfterTerminal =>
        /\ restoring
        /\ StdinIsTty => oldSettings = found
        /\ ~StdinIsTty => terminal = found
    /\ TerminalGivenBack

StartupInv == TypeOK /\ TerminalInv

(* Each step of the constructor begins with what the steps before it took,  *)
(* and a process still in the foreground has the terminal it set.           *)
TakenInv ==
    /\ step \in BeforeTerminal \cup {"socket"} => open = {} /\ bound = {}
    /\ step = "bind" => open = {"sock"} /\ bound = {}
    /\ step = "serial" => open = {"sock"} /\ bound = {"sock"}
    /\ step = "osc" => open = {"sock", "serial"} /\ bound = {"sock"}
    /\ step \in {"hello", "running"} =>
        open = {"sock", "serial", "osc"} /\ bound = {"sock", "osc"}
    /\ step \in AfterTerminal /\ StdinIsTty /\ ~background => terminal = "keys"

\* exit() before the terminal is taken leaves it alone, and afterwards
\* atexitfn puts the settings back.
LEMMA ExitGivesBack ==
    ASSUME StartupInv, Exit, step \in BeforeTerminal \cup AfterTerminal,
           UNCHANGED <<flags, logMask, oldSettings, restoring, background>>,
           UNCHANGED <<argv, found>>,
           args' \in Seq(Option), rejected' \in Letters \cup {"none"}
    PROVE  StartupInv'
<1>1. step' = "exited" /\ open' = {} /\ bound' = {}
    BY DEF Exit
<1>2. terminal' \in Settings /\ (~background => terminal' = found)
  <2>1. CASE step \in BeforeTerminal
      BY <2>1 DEF Exit, StartupInv, TerminalInv, TypeOK
  <2>2. CASE step \in AfterTerminal
    <3>1. SetTerminal(oldSettings)
        BY <2>2 DEF Exit, StartupInv, TerminalInv
    <3> QED
        BY <2>2, <3>1, StartupAssumption
        DEF SetTerminal, StartupInv, TerminalInv, TypeOK
  <2> QED
      BY <2>1, <2>2
<1>3. TerminalInv'
    BY <1>1, <1>2
    DEF TerminalInv, TerminalGivenBack, BeforeTerminal, AfterTerminal
<1>4. TypeOK'
    BY <1>1, <1>2 DEF StartupInv, TypeOK
<1> QED
    BY <1>3, <1>4 DEF StartupInv

\* A failure at any step of the constructor, or of run(), keeps the invariant.
LEMMA FailFromKeeps ==
    ASSUME StartupInv, NEW s \in BeforeTerminal \cup AfterTerminal, FailFrom(s)
    PROVE  StartupInv'
<1>1. args' \in Seq(Option) /\ rejected' \in Letters \cup {"none"}
    BY DEF FailFrom, StartupInv, TypeOK
<1> QED
    BY <1>1, ExitGivesBack DEF FailFrom

\* What getopt returns is an option, and options are what is left.
LEMMA NextOptionTypes ==
    ASSUME StartupInv, NEW letters, NextOption(letters)
    PROVE  /\ step = "options"
           /\ Head(args) \in Option
           /\ args' \in Seq(Option)
<1>1. args \in Seq(Option) /\ args # <<>>
    BY DEF NextOption, StartupInv, TypeOK
<1> QED
    BY <1>1, HeadTailProperties DEF NextOption

\* Every step of the constructor keeps the invariant.
LEMMA ProceedKeeps == StartupInv /\ Proceed => StartupInv'
<1> SUFFICES ASSUME StartupInv, Proceed
             PROVE  StartupInv'
    OBVIOUS
<1> USE DEF TerminalInv, TerminalGivenBack, BeforeTerminal, AfterTerminal
<1>1. CASE OptionsDone
    BY <1>1 DEF OptionsDone, StartupInv, TypeOK
<1>2. CASE Help
  <2>1. /\ step = "options" /\ args' \in Seq(Option)
        /\ Head(args).letter \in Letters
      BY <1>2, NextOptionTypes DEF Help, Option
  <2>2. rejected' \in Letters \cup {"none"}
      BY <1>2, <2>1 DEF Help, StartupInv, TypeOK
  <2> QED
      BY <1>2, <2>1, <2>2, ExitGivesBack DEF Help
<1>3. CASE Daemonize
  <2>1. args' \in Seq(Option)
      BY <1>3, NextOptionTypes DEF Daemonize
  <2> QED
      BY <1>3, <2>1 DEF Daemonize, StartupInv, TypeOK
<1>4. CASE ForkFails
  <2>1. step = "options" /\ args' \in Seq(Option)
      BY <1>4, NextOptionTypes DEF ForkFails
  <2>2. rejected' \in Letters \cup {"none"}
      BY <1>4 DEF ForkFails, StartupInv, TypeOK
  <2> QED
      BY <1>4, <2>1, <2>2, ExitGivesBack DEF ForkFails
<1>5. CASE LampTty
  <2>1. args' \in Seq(Option)
      BY <1>5, NextOptionTypes DEF LampTty
  <2> QED
      BY <1>5, <2>1 DEF LampTty, StartupInv, TypeOK
<1>6. CASE LogFlags
  <2>1. step = "options" /\ args' \in Seq(Option) /\ Head(args) \in Option
      BY <1>6, NextOptionTypes DEF LogFlags
  <2>2. flags' \in Seq(Flags)
      BY <1>6, <2>1 DEF LogFlags, Option
  <2> QED
      BY <1>6, <2>1, <2>2 DEF LogFlags, StartupInv, TypeOK
<1>7. CASE LogFlag
  <2>1. flags' \in Seq(Flags)
      BY <1>7, HeadTailProperties DEF LogFlag, StartupInv, TypeOK
  <2>2. logMask' \subseteq {"error", "info"}
    <3>1. logMask \subseteq {"error", "info"}
        BY DEF StartupInv, TypeOK
    <3>2. logMask' = WithFlag(logMask, Head(flags))
        BY <1>7 DEF LogFlag
    <3>3. CASE Head(flags) = "e"
      <4>1. logMask' = logMask \cup {"error"}
          BY <3>2, <3>3 DEF WithFlag
      <4> QED
          BY <3>1, <4>1
    <3>4. CASE Head(flags) = "i"
      <4>1. logMask' = logMask \cup {"info", "error"}
          BY <3>2, <3>4 DEF WithFlag
      <4> QED
          BY <3>1, <4>1
    <3>5. CASE Head(flags) = "q"
      <4>1. logMask' = {}
          BY <3>2, <3>5 DEF WithFlag
      <4> QED
          BY <4>1
    <3> QED
        BY <1>7, <3>3, <3>4, <3>5 DEF LogFlag
  <2> QED
      BY <1>7, <2>1, <2>2 DEF LogFlag, StartupInv, TypeOK
<1>8. CASE UnknownLogFlag
    BY <1>8, FailFromKeeps DEF UnknownLogFlag
<1>9. CASE LogFlagsDone
    BY <1>9 DEF LogFlagsDone, StartupInv, TypeOK
<1>10. CASE TakeTerminal
    BY <1>10, StartupAssumption
    DEF TakeTerminal, SetTerminal, SettingsToSave, StartupInv, TypeOK, Settings
<1>11. CASE OpenSock
    BY <1>11 DEF OpenSock, StartupInv, TypeOK
<1>12. CASE BindSock
    BY <1>12 DEF BindSock, StartupInv, TypeOK
<1>13. CASE OpenSerial
    BY <1>13 DEF OpenSerial, StartupInv, TypeOK
<1>14. CASE BindOsc
    BY <1>14 DEF BindOsc, StartupInv, TypeOK
<1>15. CASE Hello
    BY <1>15 DEF Hello, StartupInv, TypeOK
<1>16. CASE SetupFails
    BY <1>16, FailFromKeeps DEF SetupFails
<1> QED
    BY <1>1, <1>2, <1>3, <1>4, <1>5, <1>6, <1>7, <1>8, <1>9, <1>10, <1>11,
       <1>12, <1>13, <1>14, <1>15, <1>16 DEF Proceed

\* So do the end of run() and a signal.
LEMMA StartupInvNext == StartupInv /\ [Next]_vars => StartupInv'
<1> SUFFICES ASSUME StartupInv, [Next]_vars
             PROVE  StartupInv'
    OBVIOUS
<1>1. CASE Proceed
    BY <1>1, ProceedKeeps
<1>2. CASE RunEnds
    BY <1>2, FailFromKeeps DEF RunEnds, AfterTerminal
<1>3. CASE Killed
    BY <1>3
    DEF Killed, StartupInv, TypeOK, TerminalInv, TerminalGivenBack,
        BeforeTerminal, AfterTerminal
<1>4. CASE UNCHANGED vars
    BY <1>4
    DEF vars, StartupInv, TypeOK, TerminalInv, TerminalGivenBack
<1> QED
    BY <1>1, <1>2, <1>3, <1>4 DEF Next

\* The invariant holds on every command line.
LEMMA StartupInvariant == Spec => []StartupInv
<1>1. Init => StartupInv
  <2> SUFFICES ASSUME Init PROVE StartupInv
      OBVIOUS
  <2>1. argv \in Seq(Option) /\ args \in Seq(Option) /\ flags \in Seq(Flags)
      BY StartupAssumption, EmptySeq DEF Init
  <2>2. TypeOK
      BY <2>1 DEF Init, TypeOK, Settings
  <2>3. TerminalInv
      BY DEF Init, TerminalInv, TerminalGivenBack, BeforeTerminal, AfterTerminal
  <2> QED
      BY <2>2, <2>3 DEF StartupInv
<1>2. StartupInv /\ [Next]_vars => StartupInv'
    BY StartupInvNext
<1> QED
    BY <1>1, <1>2, PTL DEF Spec

\* The constructor's state keeps its types on every command line.
THEOREM StartupTypes == Spec => []TypeOK
<1>1. StartupInv => TypeOK
    BY DEF StartupInv
<1> QED
    BY <1>1, StartupInvariant, PTL

\* On every path to exit(), from the first option to the end of run(), the
\* terminal is left with the settings the daemon found.
THEOREM TerminalIsGivenBack == Spec => []TerminalGivenBack
<1>1. StartupInv => TerminalGivenBack
    BY DEF StartupInv, TerminalInv
<1> QED
    BY <1>1, StartupInvariant, PTL

\* Exit, whatever runs it, ends the obligation.
LEMMA ExitEndsTaken == Exit => TakenInv'
BY DEF Exit, TakenInv, BeforeTerminal, AfterTerminal

\* Every step takes one thing more, and a process goes into the background
\* only before it takes the terminal.
LEMMA TakenNext == TakenInv /\ [Next]_vars => TakenInv'
<1> SUFFICES ASSUME TakenInv, [Next]_vars
             PROVE  TakenInv'
    OBVIOUS
<1> USE DEF BeforeTerminal, AfterTerminal
<1>1. CASE OptionsDone \/ LampTty \/ LogFlags \/ LogFlag \/ LogFlagsDone
    BY <1>1 DEF OptionsDone, LampTty, LogFlags, LogFlag, LogFlagsDone, NextOption, TakenInv
<1>2. CASE Help \/ ForkFails \/ UnknownLogFlag \/ SetupFails \/ RunEnds
    BY <1>2, ExitEndsTaken DEF Help, ForkFails, UnknownLogFlag, SetupFails, RunEnds, FailFrom
<1>3. CASE Daemonize
    BY <1>3 DEF Daemonize, NextOption, TakenInv
<1>4. CASE TakeTerminal
    BY <1>4, StartupAssumption DEF TakeTerminal, SetTerminal, TakenInv
<1>5. CASE OpenSock \/ BindSock
    BY <1>5 DEF OpenSock, BindSock, TakenInv
<1>6. CASE OpenSerial \/ BindOsc \/ Hello
    BY <1>6 DEF OpenSerial, BindOsc, Hello, TakenInv
<1>7. CASE Killed
    BY <1>7 DEF Killed, TakenInv
<1>8. CASE UNCHANGED vars
    BY <1>8 DEF vars, TakenInv
<1> QED
    BY <1>1, <1>2, <1>3, <1>4, <1>5, <1>6, <1>7, <1>8 DEF Next, Proceed

\* run() starts with both sockets bound, the lamp open and the terminal taken,
\* on every command line that gets that far.
THEOREM RunStartsWithEverything == Spec => []RunsWithEverything
<1>1. Init => TakenInv
    BY DEF Init, TakenInv, BeforeTerminal, AfterTerminal
<1>2. TakenInv /\ [Next]_vars => TakenInv'
    BY TakenNext
<1>3. StartupInv /\ TakenInv => RunsWithEverything
    BY DEF StartupInv, TerminalInv, TakenInv, RunsWithEverything, AfterTerminal
<1> QED
    BY <1>1, <1>2, <1>3, StartupInvariant, PTL DEF Spec

-----------------------------------------------------------------------------
(* The log levels *)

\* The flags that are done with, the rest of the -l at hand and the flags of
\* the options getopt has not returned.
Split(done) == Joined(done, Joined(flags, FlagsOf(args)))

(* While the command line is parsed, it consists of flags that are done     *)
(* with, whose levels logMask holds, and of flags to come.                  *)
MaskInv ==
    /\ step = "options" => flags = <<>>
    /\ step = "terminal" => flags = <<>> /\ args = <<>>
    /\ step \in BeforeTerminal =>
        \E done \in Seq(Flags) :
            FlagsOf(argv) = Split(done) /\ logMask = DocumentedMask(done)

LEMMA FlagsInType == ASSUME NEW option \in Option PROVE FlagsIn(option) \in Seq(Flags)
<1>1. option.flags \in Seq(Flags)
    BY DEF Option
<1> QED
    BY <1>1, EmptySeq DEF FlagsIn

\* The flags of every option.
EachFlags(options) == [i \in DOMAIN options |-> FlagsIn(options[i])]

LEMMA EachFlagsType ==
    ASSUME NEW options \in Seq(Option)
    PROVE  /\ EachFlags(options) \in Seq(Seq(Flags))
           /\ Len(EachFlags(options)) = Len(options)
           /\ \A i \in 1..Len(options) : EachFlags(options)[i] = FlagsIn(options[i])
<1>1. Len(options) \in Nat /\ DOMAIN options = 1..Len(options)
    BY LenProperties
<1>2. \A i \in 1..Len(options) : FlagsIn(options[i]) \in Seq(Flags)
    BY <1>1, ElementOfSeq, FlagsInType
<1>3. EachFlags(options) = [i \in 1..Len(options) |-> FlagsIn(options[i])]
    BY <1>1 DEF EachFlags
<1> QED
    BY <1>1, <1>2, <1>3, SeqDef, LenProperties

LEMMA FlagsOfType ==
    ASSUME NEW options \in Seq(Option)
    PROVE  FlagsOf(options) \in Seq(Flags)
<1>1. FlagsOf(options) = FlattenSeq(EachFlags(options))
    BY DEF FlagsOf, EachFlags
<1> QED
    BY <1>1, EachFlagsType, FlattenType

LEMMA FlagsOfNothing == FlagsOf(<<>>) = <<>>
<1>1. EachFlags(<<>>) = <<>>
  <2>1. <<>> \in Seq(Option) /\ Len(<<>>) = 0
      BY EmptySeq
  <2>2. EachFlags(<<>>) \in Seq(Seq(Flags)) /\ Len(EachFlags(<<>>)) = 0
      BY <2>1, EachFlagsType
  <2> QED
      BY <2>2, EmptySeq
<1> QED
    BY <1>1, FlattenEmpty DEF FlagsOf, EachFlags

\* The flags of the first option come before those of the others.
LEMMA FlagsOfHeadTail ==
    ASSUME NEW options \in Seq(Option), options # <<>>
    PROVE  FlagsOf(options) = Joined(FlagsIn(Head(options)), FlagsOf(Tail(options)))
<1> DEFINE s == EachFlags(options)
           rest == EachFlags(Tail(options))
<1>1. PICK n \in Nat : Len(options) = n + 1
  <2>1. Len(options) \in Nat /\ Len(options) # 0
      BY LenProperties, EmptySeq
  <2>2. Len(options) - 1 \in Nat /\ Len(options) = (Len(options) - 1) + 1
      BY <2>1
  <2> QED
      BY <2>2
<1>2. /\ Head(options) = options[1] /\ Tail(options) \in Seq(Option)
      /\ Len(Tail(options)) = n
      /\ \A i \in 1..n : Tail(options)[i] = options[i + 1]
    BY <1>1, HeadTailProperties
<1>3. /\ s \in Seq(Seq(Flags)) /\ Len(s) = n + 1
      /\ \A i \in 1..(n + 1) : s[i] = FlagsIn(options[i])
    BY <1>1, EachFlagsType
<1>4. /\ rest \in Seq(Seq(Flags)) /\ Len(rest) = n
      /\ \A i \in 1..n : rest[i] = FlagsIn(Tail(options)[i])
    BY <1>2, EachFlagsType
<1>5. FlagsOf(options) = FlattenSeq(s) /\ FlagsOf(Tail(options)) = FlattenSeq(rest)
    BY DEF FlagsOf, EachFlags
<1> HIDE DEF s, rest
<1>6. s # <<>>
    BY <1>3, EmptySeq
<1>7. /\ Head(s) = FlagsIn(Head(options)) /\ Tail(s) \in Seq(Seq(Flags)) /\ Len(Tail(s)) = n
      /\ \A i \in 1..n : Tail(s)[i] = s[i + 1]
    BY <1>2, <1>3, <1>6, HeadTailProperties
<1>8. \A i \in 1..n : Tail(s)[i] = rest[i]
  <2> TAKE i \in 1..n
  <2>1. i + 1 \in 1..(n + 1)
      OBVIOUS
  <2> QED
      BY <1>2, <1>3, <1>4, <1>7, <2>1
<1>9. Tail(s) = rest
    BY <1>4, <1>7, <1>8, SeqEqual
<1> QED
    BY <1>3, <1>5, <1>6, <1>7, <1>9, FlattenHeadTail DEF Joined

\* One flag more: q forgets the ones before it, any other counts.
LEMMA SinceQuietAppend ==
    ASSUME NEW done \in Seq(Flags), NEW flag \in Flags
    PROVE  SinceQuiet(Append(done, flag)) =
               IF flag = "q" THEN {} ELSE SinceQuiet(done) \cup {flag}
<1> DEFINE more == Append(done, flag)
<1>1. /\ Len(done) \in Nat /\ DOMAIN done = 1..Len(done)
      /\ Len(more) = Len(done) + 1 /\ DOMAIN more = 1..(Len(done) + 1)
      /\ \A i \in 1..Len(done) : more[i] = done[i]
      /\ more[Len(done) + 1] = flag
    BY AppendProperties, LenProperties
<1> HIDE DEF more
<1>2. CASE flag = "q"
  <2>1. \A j \in 1..(Len(done) + 1) : Len(done) + 1 \in j..(Len(done) + 1)
      BY <1>1
  <2>2. \A j \in DOMAIN more : ~(\A k \in j..Len(more) : more[k] # "q")
      BY <1>1, <1>2, <2>1
  <2>3. SinceQuiet(more) = {}
      BY <2>2 DEF SinceQuiet
  <2> QED
      BY <1>2, <2>3 DEF more
<1>3. CASE flag # "q"
  <2>1. ASSUME NEW j \in 1..Len(done)
        PROVE  (\A k \in j..Len(more) : more[k] # "q")
                   <=> (\A k \in j..Len(done) : done[k] # "q")
      BY <1>1, <1>3
  <2>2. \A k \in (Len(done) + 1)..Len(more) : more[k] # "q"
      BY <1>1, <1>3
  <2>3. SinceQuiet(more) \subseteq SinceQuiet(done) \cup {flag}
      BY <1>1, <2>1 DEF SinceQuiet
  <2>4. SinceQuiet(done) \subseteq SinceQuiet(more)
      BY <1>1, <2>1 DEF SinceQuiet
  <2>5. flag \in SinceQuiet(more)
    <3>1. Len(done) + 1 \in DOMAIN more
        BY <1>1
    <3> QED
        BY <1>1, <2>2, <3>1 DEF SinceQuiet
  <2> QED
      BY <1>3, <2>3, <2>4, <2>5 DEF more
<1> QED
    BY <1>2, <1>3

\* One turn of the switch does to the mask what the help text says.
LEMMA MaskAppend ==
    ASSUME NEW done \in Seq(Flags), NEW flag \in {"e", "i", "q"}
    PROVE  DocumentedMask(Append(done, flag)) = WithFlag(DocumentedMask(done), flag)
<1>1. flag \in Flags
    BY DEF Flags
<1>2. Append(done, flag) # <<>>
    BY <1>1, AppendProperties, EmptySeq
<1>3. SinceQuiet(Append(done, flag)) =
          IF flag = "q" THEN {} ELSE SinceQuiet(done) \cup {flag}
    BY <1>1, SinceQuietAppend
<1>4. CASE flag = "e"
  <2>1. WithFlag(DocumentedMask(done), flag) = DocumentedMask(done) \cup {"error"}
      BY <1>4 DEF WithFlag
  <2> QED
      BY <1>2, <1>3, <1>4, <2>1 DEF DocumentedMask
<1>5. CASE flag = "i"
  <2>1. WithFlag(DocumentedMask(done), flag) = DocumentedMask(done) \cup {"info", "error"}
      BY <1>5 DEF WithFlag
  <2> QED
      BY <1>2, <1>3, <1>5, <2>1 DEF DocumentedMask
<1>6. CASE flag = "q"
  <2>1. WithFlag(DocumentedMask(done), flag) = {}
      BY <1>6 DEF WithFlag
  <2> QED
      BY <1>2, <1>3, <1>6, <2>1 DEF DocumentedMask
<1> QED
    BY <1>4, <1>5, <1>6

\* The options that are left and the flags at hand are typed; so is the split.
LEMMA SplitTypes ==
    ASSUME StartupInv
    PROVE  /\ args \in Seq(Option) /\ flags \in Seq(Flags)
           /\ FlagsOf(args) \in Seq(Flags)
           /\ flags = <<>> => \A done : Split(done) = Joined(done, FlagsOf(args))
<1>1. args \in Seq(Option) /\ flags \in Seq(Flags)
    BY DEF StartupInv, TypeOK
<1>2. FlagsOf(args) \in Seq(Flags)
    BY <1>1, FlagsOfType
<1>3. ASSUME flags = <<>>
      PROVE  \A done : Split(done) = Joined(done, FlagsOf(args))
  <2>1. Joined(flags, FlagsOf(args)) = FlagsOf(args)
      BY <1>2, <1>3, JoinedEmpty
  <2> QED
      BY <2>1 DEF Split
<1> QED
    BY <1>1, <1>2, <1>3

\* An option is taken off the command line: its flags, if it has any, are the
\* ones at hand.
LEMMA OptionSplits ==
    ASSUME StartupInv, flags = <<>>, NEW letters, NextOption(letters),
           flags' = FlagsIn(Head(args))
    PROVE  \A done : Split(done)' = Split(done)
<1> TAKE done
<1>1. args \in Seq(Option) /\ args # <<>> /\ args' = Tail(args)
    BY DEF NextOption, StartupInv, TypeOK
<1>2. FlagsOf(args) = Joined(flags', FlagsOf(args'))
    BY <1>1, FlagsOfHeadTail
<1>3. Split(done) = Joined(done, FlagsOf(args))
    BY SplitTypes
<1> QED
    BY <1>2, <1>3 DEF Split

\* A flag is taken off the ones at hand and is done with.
LEMMA FlagSplits ==
    ASSUME StartupInv, LogFlag, NEW done \in Seq(Flags)
    PROVE  \E more \in Seq(Flags) :
               more = Append(done, Head(flags)) /\ Split(more)' = Split(done)
<1> DEFINE one == <<Head(flags)>>
           rest == FlagsOf(args)
<1>1. /\ flags \in Seq(Flags) /\ flags # <<>> /\ rest \in Seq(Flags)
      /\ flags' = Tail(flags) /\ args' = args
    BY SplitTypes DEF LogFlag
<1>2. /\ Head(flags) \in Flags /\ Tail(flags) \in Seq(Flags) /\ one \in Seq(Flags)
      /\ flags = Joined(one, Tail(flags))
    BY <1>1, HeadTailProperties, ConcatSimplifications DEF Joined
<1>3. Append(done, Head(flags)) = Joined(done, one) /\ Append(done, Head(flags)) \in Seq(Flags)
    BY <1>2, AppendIsConcat, AppendProperties DEF Joined
<1> HIDE DEF one, rest
<1>4. PICK tail \in Seq(Flags) : tail = Tail(flags)
    BY <1>2
<1>5. Joined(flags, rest) = Joined(one, Joined(tail, rest))
  <2>1. flags = Joined(one, tail)
      BY <1>2, <1>4
  <2>2. Joined(Joined(one, tail), rest) = Joined(one, Joined(tail, rest))
      BY <1>1, <1>2, JoinedAssociative
  <2> QED
      BY <2>1, <2>2
<1>6. Joined(tail, rest) \in Seq(Flags)
    BY <1>1, JoinedType
<1>7. Joined(Joined(done, one), Joined(tail, rest)) = Joined(done, Joined(one, Joined(tail, rest)))
    BY <1>2, <1>6, JoinedAssociative
<1>8. Split(done) = Joined(done, Joined(flags, rest))
    BY DEF Split, rest
<1>9. PICK more \in Seq(Flags) : more = Append(done, Head(flags))
    BY <1>3
<1>10. Split(more)' = Joined(more, Joined(tail, rest))
    BY <1>1, <1>4 DEF Split, rest
<1>11. Joined(more, Joined(tail, rest)) = Joined(Joined(done, one), Joined(tail, rest))
    BY <1>3, <1>9
<1> QED
    BY <1>5, <1>7, <1>8, <1>9, <1>10, <1>11

\* Every step of the constructor keeps the mask the one the flags so far ask for.
LEMMA MaskNext == StartupInv /\ MaskInv /\ [Next]_vars => MaskInv'
<1> SUFFICES ASSUME StartupInv, MaskInv, [Next]_vars
             PROVE  MaskInv'
    OBVIOUS
<1> USE DEF BeforeTerminal
<1>0. ASSUME step \in BeforeTerminal, argv' = argv, logMask' = logMask,
             \A done : Split(done)' = Split(done)
      PROVE  \E done \in Seq(Flags) :
                 FlagsOf(argv') = Split(done)' /\ logMask' = DocumentedMask(done)
    BY <1>0 DEF MaskInv
<1>1. CASE OptionsDone \/ LogFlagsDone
    BY <1>0, <1>1 DEF OptionsDone, LogFlagsDone, EndOfOptions, MaskInv, Split
<1>2. CASE Daemonize \/ LampTty
  <2>1. PICK letters \in SUBSET {"d", "t"} : NextOption(letters)
      BY <1>2 DEF Daemonize, LampTty
  <2>2. step = "options" /\ flags = <<>> /\ flags' = FlagsIn(Head(args))
    <3>1. step = "options" /\ Head(args).letter # "l"
        BY <2>1 DEF NextOption
    <3>2. flags' = flags /\ flags = <<>>
        BY <1>2, <3>1 DEF Daemonize, LampTty, MaskInv
    <3> QED
        BY <3>1, <3>2 DEF FlagsIn
  <2>3. \A done : Split(done)' = Split(done)
      BY <2>1, <2>2, OptionSplits
  <2>4. argv' = argv /\ logMask' = logMask /\ step' = "options" /\ flags' = flags
      BY <1>2, <2>2 DEF Daemonize, LampTty
  <2> QED
      BY <1>0, <2>2, <2>3, <2>4 DEF MaskInv
<1>3. CASE LogFlags
  <2>1. step = "options" /\ flags = <<>> /\ flags' = FlagsIn(Head(args)) /\ NextOption({"l"})
      BY <1>3 DEF LogFlags, NextOption, MaskInv, FlagsIn
  <2>2. \A done : Split(done)' = Split(done)
      BY <2>1, OptionSplits
  <2>3. argv' = argv /\ logMask' = logMask /\ step' = "flags"
      BY <1>3 DEF LogFlags
  <2> QED
      BY <1>0, <2>1, <2>2, <2>3 DEF MaskInv
<1>4. CASE LogFlag
  <2>1. PICK done \in Seq(Flags) : FlagsOf(argv) = Split(done) /\ logMask = DocumentedMask(done)
      BY <1>4 DEF LogFlag, MaskInv
  <2>2. PICK more \in Seq(Flags) : more = Append(done, Head(flags)) /\ Split(more)' = Split(done)
      BY <1>4, FlagSplits
  <2>3. logMask' = DocumentedMask(more)
      BY <1>4, <2>1, <2>2, MaskAppend DEF LogFlag
  <2>4. argv' = argv /\ step' = "flags"
      BY <1>4 DEF LogFlag
  <2>5. FlagsOf(argv') = Split(more)'
      BY <2>1, <2>2, <2>4
  <2> QED
      BY <2>3, <2>4, <2>5 DEF MaskInv
<1>5. CASE Help \/ ForkFails \/ UnknownLogFlag \/ SetupFails \/ RunEnds \/ Killed
  <2>1. step' \in {"exited", "killed"}
      BY <1>5 DEF Help, ForkFails, UnknownLogFlag, SetupFails, RunEnds, FailFrom, Exit, Killed
  <2> QED
      BY <2>1 DEF MaskInv
<1>6. CASE TakeTerminal \/ OpenSock \/ BindSock \/ OpenSerial \/ BindOsc \/ Hello
  <2>1. step' \in {"socket", "bind", "serial", "osc", "hello", "running"}
      BY <1>6 DEF TakeTerminal, OpenSock, BindSock, OpenSerial, BindOsc, Hello
  <2> QED
      BY <2>1 DEF MaskInv
<1>7. CASE UNCHANGED vars
  <2>1. \A done : Split(done)' = Split(done)
      BY <1>7 DEF vars, Split
  <2> QED
      BY <1>0, <1>7, <2>1 DEF vars, MaskInv
<1> QED
    BY <1>1, <1>2, <1>3, <1>4, <1>5, <1>6, <1>7 DEF Next, Proceed

\* Over any number of -l options with any flags, the loop of the constructor
\* that falls through from i to e yields the levels the help text promises.
THEOREM LogMaskIsAsDocumented == Spec => []LogMaskAsDocumented
<1>1. Init => MaskInv
  <2> SUFFICES ASSUME Init PROVE MaskInv
      OBVIOUS
  <2>1. <<>> \in Seq(Flags) /\ FlagsOf(argv) \in Seq(Flags) /\ args = argv /\ flags = <<>>
      BY StartupAssumption, EmptySeq, FlagsOfType DEF Init
  <2>2. Split(<<>>) = FlagsOf(argv)
      BY <2>1, JoinedEmpty DEF Split
  <2>3. DocumentedMask(<<>>) = {"error"}
    <3>1. DOMAIN <<>> = {}
        BY EmptySeq
    <3>2. SinceQuiet(<<>>) = {}
        BY <3>1 DEF SinceQuiet
    <3> QED
        BY <3>2 DEF DocumentedMask
  <2> QED
      BY <2>1, <2>2, <2>3 DEF Init, MaskInv
<1>2. StartupInv /\ StartupInv' /\ MaskInv /\ [Next]_vars => MaskInv'
    BY MaskNext
<1>3. MaskInv /\ StartupInv => LogMaskAsDocumented
  <2> SUFFICES ASSUME MaskInv, StartupInv, step = "terminal"
               PROVE  logMask = DocumentedMask(FlagsOf(argv))
      BY DEF LogMaskAsDocumented
  <2>1. flags = <<>> /\ args = <<>>
      BY DEF MaskInv
  <2>2. PICK done \in Seq(Flags) : FlagsOf(argv) = Split(done) /\ logMask = DocumentedMask(done)
      BY DEF MaskInv, BeforeTerminal
  <2>3. Split(done) = done
      BY <2>1, FlagsOfNothing, EmptySeq, JoinedEmpty DEF Split
  <2> QED
      BY <2>2, <2>3
<1> QED
    BY <1>1, <1>2, <1>3, StartupInvariant, PTL DEF Spec
=============================================================================
