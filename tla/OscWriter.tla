----------------------------- MODULE OscWriter -----------------------------
(***************************************************************************)
(* PacketWriter (src/oscpkt/oscpkt.hh): calls of startBundle, addMessage   *)
(* and endBundle, in any order, append to the storage.  A nested bundle's  *)
(* size is unknown when it begins: a word is kept free for it and filled   *)
(* in when the bundle ends.                                                *)
(*                                                                         *)
(* Positions are counted in words; a size on the wire is in bytes.         *)
(***************************************************************************)
EXTENDS OscFormat

CONSTANTS
    TimeTags,      \* the time tags bundles are given, each two words
    MaxCalls       \* bound: how many calls build a packet

VARIABLES
    storage,
    bundles,       \* where the open bundles begin
    err,           \* the error flag
    calls,         \* how many calls were made
    added,         \* history: the messages added, with their bundles' time tags
    openTags,      \* history: the time tags of the open bundles
    topLevel       \* history: how many bundles and messages are in no bundle

writerVars == <<storage, bundles, err, calls, added, openTags, topLevel>>

WriterInit ==
    /\ storage = <<>> /\ bundles = <<>> /\ err = FALSE
    /\ calls = 0
    /\ added = <<>> /\ openTags = <<>> /\ topLevel = 0

Call ==
    /\ calls < MaxCalls
    /\ calls' = calls + 1

\* One more item, in the innermost open bundle or in none.
NewItem == topLevel' = IF bundles = <<>> THEN topLevel + 1 ELSE topLevel

StartBundle(tag) ==
    /\ Call
    /\ LET before == IF bundles = <<>> THEN storage ELSE Append(storage, 0)
       IN  /\ storage' = before \o BundleMark \o tag
           /\ bundles' = Append(bundles, Len(before))
    /\ openTags' = Append(openTags, tag)
    /\ NewItem
    /\ UNCHANGED <<err, added>>

\* Mutated form: an empty bundle stays without the word that ends it.
PaddedNever == storage

\* A bundle of nothing but its header gets one word, the size of no element.
Padded ==
    IF Len(storage) - Last(bundles) = 4 THEN Append(storage, 0) ELSE storage

\* The size of a nested bundle goes in front of it.
EndBundle ==
    /\ Call
    /\ bundles # <<>>
    /\ storage' =
        IF Len(bundles) = 1 THEN Padded
        ELSE [Padded EXCEPT ![Last(bundles)] = 4 * (Len(Padded) - Last(bundles))]
    /\ bundles' = Front(bundles)
    /\ openTags' = Front(openTags)
    /\ UNCHANGED <<err, added, topLevel>>

EndBundleUnopened ==
    /\ Call
    /\ bundles = <<>>
    /\ err' = TRUE
    /\ UNCHANGED <<storage, bundles, added, openTags, topLevel>>

\* A packet that already holds something takes no message outside a bundle.
NeedsBundle == storage # <<>> /\ bundles = <<>>

\* packMessage: in a bundle, a message comes with its size.
Packed(m) == (IF bundles = <<>> THEN <<>> ELSE <<4 * Len(m)>>) \o m

AddMessage(m) ==
    /\ Call
    /\ ~NeedsBundle
    /\ storage' = storage \o Packed(m)
    /\ added' = Append(added,
          [words |-> m,
           tag   |-> IF openTags = <<>> THEN Immediate ELSE Last(openTags)])
    /\ NewItem
    /\ UNCHANGED <<bundles, err, openTags>>

\* A message that is not OK, or one that needs a bundle, writes nothing.
AddRefused ==
    /\ Call
    /\ err' = TRUE
    /\ UNCHANGED <<storage, bundles, added, openTags, topLevel>>

WriterCall ==
    \/ \E tag \in TimeTags : StartBundle(tag)
    \/ EndBundle \/ EndBundleUnopened
    \/ \E m \in Messages : AddMessage(m)
    \/ AddRefused

WriterTypes ==
    /\ storage \in Seq(Nat)
    /\ bundles \in Seq(Nat) /\ openTags \in Seq(TimeTags)
    /\ Len(openTags) = Len(bundles)
    /\ err \in BOOLEAN
    /\ calls \in 0..MaxCalls /\ topLevel \in 0..MaxCalls
    /\ added \in Seq([words : Messages, tag : TimeTags \cup {Immediate}])
=============================================================================
