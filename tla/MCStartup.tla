----------------------------- MODULE MCStartup -----------------------------
(* Every command line of up to two options, -l with up to two flags, and of  *)
(* three -l options with one flag.                                           *)
EXTENDS Startup

Flagless == [letter : Letters \ {"l"}, flags : {<<>>}]
LogOption(lengths) ==
    [letter : {"l"}, flags : UNION {[1..n -> Flags] : n \in lengths}]
Options == Flagless \cup LogOption({0, 1, 2})

MCCommandLines ==
    {<<>>} \cup {<<o>> : o \in Options} \cup (Options \X Options)
    \cup (LogOption({1}) \X LogOption({1}) \X LogOption({1}))
=============================================================================
