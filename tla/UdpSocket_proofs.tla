-------------------------- MODULE UdpSocket_proofs --------------------------
(***************************************************************************)
(* The UDP socket object, for any number of descriptors and addresses and  *)
(* any lists that getaddrinfo may return: whatever its owner calls in      *)
(* whatever order, it loses no descriptor and tells the truth.             *)
(***************************************************************************)
EXTENDS UdpSocket, SequenceTheorems, TLAPS

(* While openSocket tries addresses the object has neither a socket nor an  *)
(* error.                                                                   *)
OpeningInv ==
    ~Idle =>
        /\ handle = None /\ IsOk /\ partner = None
        /\ opening.mode \in {"bound", "connected"}
        /\ last.call = "opening"

(* A connected socket's peer is the one the kernel knows, and remote_addr   *)
(* is right whenever the open socket has a partner at all.                  *)
PeerInv ==
    /\ handle # None =>
        /\ kernel[handle].as \in {"bound", "connected"}
        /\ kernel[handle].as = "connected" =>
            partner = kernel[handle].addr /\ partner \in Addrs
    /\ partner # None => partner = remoteAddr

(* What the addresses that outlive a socket say of the earlier ones.        *)
PastInv ==
    /\ remoteAddr = past.peer
    /\ ~past.bound => localAddr = None

UdpInv ==
    /\ UdpTypeOK
    /\ OpeningInv
    /\ PeerInv
    /\ PastInv
    /\ NoDescriptorLost
    /\ OpenTellsTheTruth
    /\ ErrorMeansClosed
    /\ SentWhereAsked

\* openSocket is not in progress.
LEMMA NotOpeningType ==
    NotOpening \in [mode : {"none", "bound", "connected"}, rest : Seq(Addrs)]
<1>1. <<>> \in Seq(Addrs)
    BY EmptySeq
<1> QED
    BY <1>1 DEF NotOpening

\* Before the first call there is nothing that could be wrong.
LEMMA UdpInit == Init => UdpInv
<1> SUFFICES ASSUME Init PROVE UdpInv
    OBVIOUS
<1>1. UdpTypeOK
    BY NotOpeningType DEF Init, UdpTypeOK, Closed
<1>2. OpeningInv /\ PeerInv /\ PastInv
    BY DEF Init, OpeningInv, PeerInv, PastInv, Idle
<1>3. NoDescriptorLost
    BY UdpAssumption DEF Init, NoDescriptorLost
<1>4. OpenTellsTheTruth /\ ErrorMeansClosed /\ SentWhereAsked
    BY DEF Init, OpenTellsTheTruth, ErrorMeansClosed, SentWhereAsked, IsOk
<1> QED
    BY <1>1, <1>2, <1>3, <1>4 DEF UdpInv

\* close() leaves no descriptor behind.
LEMMA NothingLeft ==
    ASSUME UdpTypeOK, NoDescriptorLost
    PROVE  AfterClose = [fd \in Fds |-> Closed]
<1>1. kernel \in [Fds -> [as : {"closed", "bound", "connected"}, addr : Addrs \cup {None}]]
    BY DEF UdpTypeOK
<1>2. \A fd \in Fds : kernel[fd] # Closed => fd = handle
    BY DEF NoDescriptorLost
<1>3. CASE handle = None
    BY <1>1, <1>2, <1>3, UdpAssumption DEF AfterClose
<1>4. CASE handle # None
    BY <1>1, <1>2, <1>4 DEF AfterClose, UdpTypeOK
<1> QED
    BY <1>3, <1>4

\* The kernel without descriptors is one of the kernel's states.
LEMMA AllClosed ==
    ASSUME handle' = None, kernel' = [fd \in Fds |-> Closed]
    PROVE  /\ kernel' \in [Fds -> [as : {"closed", "bound", "connected"}, addr : Addrs \cup {None}]]
           /\ NoDescriptorLost'
BY UdpAssumption DEF NoDescriptorLost, Closed

\* close() by the owner.
LEMMA CloseKeeps == UdpInv /\ Close => UdpInv'
<1> SUFFICES ASSUME UdpInv, Close PROVE UdpInv'
    OBVIOUS
<1>1. handle' = None /\ kernel' = [fd \in Fds |-> Closed]
    BY NothingLeft DEF Close, UdpInv
<1>2. UdpTypeOK' /\ NoDescriptorLost'
    BY <1>1, AllClosed DEF Close, UdpInv, UdpTypeOK, addrVars
<1>3. OpeningInv' /\ PeerInv' /\ PastInv'
    BY <1>1 DEF Close, UdpInv, OpeningInv, PeerInv, PastInv, Idle, addrVars
<1>4. OpenTellsTheTruth' /\ ErrorMeansClosed' /\ SentWhereAsked'
    BY <1>1 DEF Close, Returns, OpenTellsTheTruth, ErrorMeansClosed, SentWhereAsked
<1> QED
    BY <1>2, <1>3, <1>4 DEF UdpInv

\* openSocket forgets the old socket and its error.
LEMMA OpenKeeps ==
    ASSUME UdpInv, NEW mode \in {"bound", "connected"}, OpenSocket(mode)
    PROVE  UdpInv'
<1>1. handle' = None /\ kernel' = [fd \in Fds |-> Closed]
    BY NothingLeft DEF OpenSocket, UdpInv
<1>2. /\ partner' = None /\ localAddr' = localAddr /\ remoteAddr' = remoteAddr
      /\ past' = past /\ Idle
    BY DEF OpenSocket, addrVars
<1>3. CASE /\ \E list \in AddressLists : opening' = [mode |-> mode, rest |-> list]
           /\ errorMessage' = ""
           /\ Returns("opening", TRUE)
  <2>0. PICK list \in Seq(Addrs) : opening' = [mode |-> mode, rest |-> list]
      BY <1>3, UdpAssumption
  <2>a. /\ opening'.mode = mode
        /\ opening' \in [mode : {"none", "bound", "connected"}, rest : Seq(Addrs)]
      BY <2>0
  <2>1. UdpTypeOK' /\ NoDescriptorLost'
      BY <1>1, <1>2, <1>3, <2>a, AllClosed DEF UdpInv, UdpTypeOK
  <2>b. last'.call = "opening"
      BY <1>3 DEF Returns
  <2>2. OpeningInv' /\ PeerInv' /\ PastInv'
      BY <1>1, <1>2, <1>3, <2>a, <2>b DEF UdpInv, OpeningInv, PeerInv, PastInv, IsOk
  <2>3. OpenTellsTheTruth' /\ ErrorMeansClosed' /\ SentWhereAsked'
      BY <1>1, <1>3 DEF Returns, OpenTellsTheTruth, ErrorMeansClosed, SentWhereAsked
  <2> QED
      BY <2>1, <2>2, <2>3 DEF UdpInv
<1>4. CASE /\ errorMessage' = "getaddrinfo"
           /\ Returns(mode, FALSE)
           /\ UNCHANGED opening
  <2>1. UdpTypeOK' /\ NoDescriptorLost'
      BY <1>1, <1>2, <1>4, AllClosed DEF UdpInv, UdpTypeOK
  <2>2. OpeningInv' /\ PeerInv' /\ PastInv'
      BY <1>1, <1>2, <1>4 DEF UdpInv, OpeningInv, PeerInv, PastInv, Idle
  <2>3. OpenTellsTheTruth' /\ ErrorMeansClosed' /\ SentWhereAsked'
      BY <1>1, <1>4 DEF Returns, OpenTellsTheTruth, ErrorMeansClosed, SentWhereAsked, IsOk
  <2> QED
      BY <2>1, <2>2, <2>3 DEF UdpInv
<1> QED
    BY <1>3, <1>4 DEF OpenSocket

\* The next address is tried with nothing changed but the list.
LEMMA AddressGone ==
    ASSUME UdpInv, opening.rest # <<>>, NextAddress,
           UNCHANGED <<handle, errorMessage, addrVars, kernel, last, partner, past>>
    PROVE  UdpInv'
<1>1. opening \in [mode : {"none", "bound", "connected"}, rest : Seq(Addrs)]
    BY DEF UdpInv, UdpTypeOK
<1>2. ~Idle
    BY DEF Idle, NotOpening
<1>3. Tail(opening.rest) \in Seq(Addrs)
    BY <1>1, HeadTailProperties
<1>4. /\ opening'.mode = opening.mode
      /\ opening' \in [mode : {"none", "bound", "connected"}, rest : Seq(Addrs)]
    BY <1>1, <1>3 DEF NextAddress
<1>5. ~Idle'
    BY <1>2, <1>4 DEF UdpInv, OpeningInv, Idle, NotOpening
<1> QED
    BY <1>2, <1>4, <1>5 DEF UdpInv, UdpTypeOK, OpeningInv, PeerInv, PastInv, NoDescriptorLost,
       OpenTellsTheTruth, ErrorMeansClosed, SentWhereAsked, IsOk, addrVars

\* What is closed again was closed before.
LEMMA RejectedKeeps == UdpInv /\ AddressRejected => UdpInv'
<1> SUFFICES ASSUME UdpInv, AddressRejected PROVE UdpInv'
    OBVIOUS
<1>1. kernel' = kernel
    BY DEF AddressRejected, Rejected, UdpInv, UdpTypeOK
<1> QED
    BY <1>1, AddressGone DEF AddressRejected

\* bind or connect succeeds: the new descriptor is the handle.
LEMMA WorksKeeps == UdpInv /\ AddressWorks => UdpInv'
<1> SUFFICES ASSUME UdpInv, AddressWorks PROVE UdpInv'
    OBVIOUS
<1> DEFINE addr == Head(opening.rest)
<1>1. /\ opening.rest \in Seq(Addrs) /\ opening.rest # <<>>
      /\ kernel \in [Fds -> [as : {"closed", "bound", "connected"}, addr : Addrs \cup {None}]]
    BY DEF AddressWorks, UdpInv, UdpTypeOK
<1>2. addr \in Addrs /\ addr # None
    BY <1>1, HeadTailProperties, UdpAssumption
<1>3. /\ ~Idle /\ handle = None /\ errorMessage = ""
      /\ opening.mode \in {"bound", "connected"} /\ partner = None
  <2>1. ~Idle
      BY <1>1 DEF Idle, NotOpening
  <2> QED
      BY <2>1 DEF UdpInv, OpeningInv, IsOk
<1>4. PICK fd \in Fds : /\ handle' = fd
                        /\ kernel' = [kernel EXCEPT ![fd] = [as |-> opening.mode, addr |-> addr]]
    BY DEF AddressWorks
<1>5. opening' = NotOpening /\ errorMessage' = "" /\ Returns(opening.mode, TRUE)
    BY <1>1, <1>3 DEF AddressWorks, Found
<1>6. \/ /\ opening.mode = "bound" /\ localAddr' \in {localAddr, addr}
         /\ partner' = None /\ remoteAddr' = remoteAddr
         /\ past' = [past EXCEPT !.bound = TRUE]
      \/ /\ opening.mode = "connected" /\ localAddr' = localAddr
         /\ partner' = addr /\ remoteAddr' = addr
         /\ past' = [past EXCEPT !.peer = addr]
    BY <1>3 DEF AddressWorks, Peer
<1>7. fd # None
    BY UdpAssumption
<1> HIDE DEF addr
<1>8. kernel'[fd] = [as |-> opening.mode, addr |-> addr]
    BY <1>1, <1>4
<1>a. kernel'[fd].as = opening.mode /\ kernel'[fd].addr = addr
    BY <1>8
<1>9. UdpTypeOK'
  <2>1. kernel' \in [Fds -> [as : {"closed", "bound", "connected"}, addr : Addrs \cup {None}]]
      BY <1>1, <1>2, <1>3, <1>4
  <2>2. /\ localAddr' \in Addrs \cup {None} /\ remoteAddr' \in Addrs \cup {None}
        /\ partner' \in Addrs \cup {None}
        /\ past' \in [bound : BOOLEAN, peer : Addrs \cup {None}]
      BY <1>2, <1>6 DEF UdpInv, UdpTypeOK
  <2>3. opening' \in [mode : {"none", "bound", "connected"}, rest : Seq(Addrs)]
      BY <1>5, NotOpeningType
  <2> QED
      BY <1>4, <1>5, <2>1, <2>2, <2>3 DEF UdpTypeOK
<1>10. OpeningInv'
    BY <1>5 DEF OpeningInv, Idle
<1>11. PeerInv'
    BY <1>2, <1>3, <1>4, <1>6, <1>a DEF PeerInv
<1>14. PastInv'
    BY <1>6 DEF PastInv, UdpInv, UdpTypeOK
<1>12. NoDescriptorLost'
  <2>1. \A other \in Fds \ {fd} : kernel'[other] = kernel[other] /\ kernel[other] = Closed
      BY <1>1, <1>3, <1>4, UdpAssumption DEF UdpInv, NoDescriptorLost
  <2>2. kernel'[fd] # Closed
    <3>1. kernel'[fd].as # "closed"
        BY <1>3, <1>a
    <3> QED
        BY <3>1 DEF Closed
  <2> QED
      BY <1>4, <2>1, <2>2 DEF NoDescriptorLost
<1>13. OpenTellsTheTruth' /\ ErrorMeansClosed' /\ SentWhereAsked'
  <2>1. last'.call = opening.mode /\ last'.ok
      BY <1>5 DEF Returns
  <2> QED
      BY <1>3, <1>4, <1>5, <1>7, <1>a, <2>1
      DEF OpenTellsTheTruth, ErrorMeansClosed, SentWhereAsked, IsOk
<1> QED
    BY <1>9, <1>10, <1>11, <1>12, <1>13, <1>14 DEF UdpInv

\* No address works: an error and no descriptor.
LEMMA FailsKeeps == UdpInv /\ OpenFails => UdpInv'
<1> SUFFICES ASSUME UdpInv, OpenFails PROVE UdpInv'
    OBVIOUS
<1>1. /\ handle = None /\ partner = None /\ errorMessage = ""
      /\ opening.mode \in {"bound", "connected"}
    BY DEF OpenFails, UdpInv, OpeningInv, IsOk
<1>2. /\ errorMessage' = opening.mode /\ opening' = NotOpening /\ Returns(opening.mode, FALSE)
      /\ UNCHANGED <<handle, addrVars, kernel, partner, past>>
    BY <1>1 DEF OpenFails, SetErr, IsOk
<1>3. UdpTypeOK'
    BY <1>1, <1>2, NotOpeningType DEF UdpInv, UdpTypeOK, addrVars
<1> QED
    BY <1>1, <1>2, <1>3 DEF UdpInv, OpeningInv, PeerInv, PastInv, NoDescriptorLost,
       OpenTellsTheTruth, ErrorMeansClosed, SentWhereAsked, IsOk, Idle, Returns, addrVars

\* A call that leaves the socket alone and sends nothing.
LEMMA QuietCall ==
    ASSUME UdpInv, Idle, NEW call \in {"receive", "send"}, Returns(call, FALSE),
           UNCHANGED <<handle, addrVars, opening, kernel, partner, past>>,
           errorMessage' \in {"", "getaddrinfo", "bound", "connected", "not opened", "system"},
           errorMessage' # "" => handle = None
    PROVE  UdpInv'
<1>1. UdpTypeOK'
    BY DEF UdpInv, UdpTypeOK, addrVars
<1> QED
    BY <1>1 DEF UdpInv, OpeningInv, PeerInv, PastInv, NoDescriptorLost,
       OpenTellsTheTruth, ErrorMeansClosed, SentWhereAsked, IsOk, Idle, Returns, addrVars

\* A call on an object that is not open only sets its error.
LEMMA NotOpenedKeeps ==
    ASSUME UdpInv, NEW call \in {"receive", "send"}, NotOpened(call)
    PROVE  UdpInv'
<1>1. handle = None
    BY DEF NotOpened, Usable, UdpInv, ErrorMeansClosed
<1>2. errorMessage' \in {"", "getaddrinfo", "bound", "connected", "not opened", "system"}
    BY DEF NotOpened, SetErr, UdpInv, UdpTypeOK
<1> QED
    BY <1>1, <1>2, QuietCall DEF NotOpened

\* A datagram makes its sender the partner.
LEMMA ReceiveKeeps == UdpInv /\ Receive => UdpInv'
<1> SUFFICES ASSUME UdpInv, Receive PROVE UdpInv'
    OBVIOUS
<1>1. /\ remoteAddr' \in Addrs /\ partner' = remoteAddr' /\ localAddr' = localAddr
      /\ past' = [past EXCEPT !.peer = remoteAddr']
    BY DEF Receive, Usable, UdpInv, PeerInv
<1>2. kernel[handle].as = "connected" => partner' = kernel[handle].addr
    BY DEF Receive
<1>3. UdpTypeOK'
    BY <1>1 DEF Receive, UdpInv, UdpTypeOK
<1>4. PastInv'
    BY <1>1 DEF UdpInv, UdpTypeOK, PastInv
<1> QED
    BY <1>1, <1>2, <1>3, <1>4 DEF Receive, UdpInv, OpeningInv, PeerInv, NoDescriptorLost,
       OpenTellsTheTruth, ErrorMeansClosed, SentWhereAsked, IsOk, Idle, Returns

\* An error of recvfrom closes the socket.
LEMMA ReceiveFailsKeeps == UdpInv /\ ReceiveFails => UdpInv'
<1> SUFFICES ASSUME UdpInv, ReceiveFails PROVE UdpInv'
    OBVIOUS
<1>1. handle' = None /\ kernel' = [fd \in Fds |-> Closed]
    BY NothingLeft DEF ReceiveFails, HandleAfterError, UdpInv
<1>2. errorMessage' = "system"
    BY DEF ReceiveFails, Usable, SetErr
<1>3. UdpTypeOK' /\ NoDescriptorLost'
    BY <1>1, <1>2, AllClosed DEF ReceiveFails, UdpInv, UdpTypeOK, addrVars
<1> QED
    BY <1>1, <1>2, <1>3 DEF ReceiveFails, UdpInv, OpeningInv, PeerInv, PastInv,
       OpenTellsTheTruth, ErrorMeansClosed, SentWhereAsked, IsOk, Idle, Returns, addrVars

\* Where a datagram goes: what isBound() makes of it on either kind of socket.
LEMMA SendKeeps ==
    ASSUME UdpInv, NEW to \in Addrs \cup {None}, NEW addr,
           addr = (IF to = None THEN remoteAddr ELSE to), Send("send", to, addr)
    PROVE  UdpInv'
<1>1. PICK outcome \in {"interrupted", "failed", "sent"} :
        /\ outcome = "sent" => Destination(addr) # None
        /\ last' = [call |-> "send", ok |-> Sent(outcome), to |-> to,
                    went |-> IF outcome = "sent" THEN Destination(addr) ELSE None]
    BY DEF Send
<1>2. /\ UNCHANGED <<handle, errorMessage, addrVars, opening, kernel, partner, past>>
      /\ Idle /\ IsOk /\ handle # None
    BY DEF Send, Usable
<1>3. \/ Destination(addr) = addr
      \/ kernel[handle].as = "bound" /\ Destination(addr) = None
      \/ kernel[handle].as = "connected" /\ Destination(addr) = partner
    BY <1>2 DEF Destination, UdpInv, PeerInv
<1>4. SentWhereAsked'
  <2>1. /\ last'.call = "send" /\ last'.to = to /\ last'.ok = (outcome = "sent")
        /\ last'.went = IF outcome = "sent" THEN Destination(addr) ELSE None
      BY <1>1 DEF Sent
  <2>2. last'.ok <=> last'.went # None
      BY <1>1, <2>1
  <2>3. ASSUME last'.went # None
        PROVE  /\ to # None /\ kernel[handle].as = "bound" => last'.went = to
               /\ to # None /\ kernel[handle].as # "bound" =>
                    /\ last'.went \in {to, partner}
                    /\ ~past.bound => last'.went = partner
               /\ to = None /\ partner # None => last'.went = partner
               /\ to = None /\ partner = None =>
                    kernel[handle].as = "bound" /\ last'.went = past.peer
    <3>1. last'.went = Destination(addr) /\ Destination(addr) # None
        BY <2>1, <2>3
    <3>2. partner # None => partner = remoteAddr
        BY DEF UdpInv, PeerInv
    <3>3. remoteAddr = past.peer /\ (~past.bound => localAddr = None)
        BY DEF UdpInv, PastInv
    <3>4. /\ kernel[handle].as \in {"bound", "connected"}
          /\ kernel[handle].as = "connected" =>
                partner = kernel[handle].addr /\ partner # None
        BY <1>2, UdpAssumption DEF UdpInv, PeerInv
    <3>5. localAddr = None /\ kernel[handle].as = "connected" => Destination(addr) = partner
        BY <3>4 DEF Destination, IsBound
    <3> QED
        BY <1>3, <3>1, <3>2, <3>3, <3>4, <3>5
  <2> QED
      BY <1>2, <2>1, <2>2, <2>3 DEF SentWhereAsked
<1>5. UdpTypeOK'
    BY <1>2 DEF UdpInv, UdpTypeOK, addrVars
<1>6. last'.call = "send"
    BY <1>1
<1> QED
    BY <1>2, <1>4, <1>5, <1>6 DEF UdpInv, OpeningInv, PeerInv, PastInv, NoDescriptorLost,
       OpenTellsTheTruth, ErrorMeansClosed, IsOk, Idle, addrVars

\* Every step keeps the invariant.
LEMMA UdpNext == UdpInv /\ [Next]_vars => UdpInv'
<1> SUFFICES ASSUME UdpInv, [Next]_vars PROVE UdpInv'
    OBVIOUS
<1>1. CASE Close
    BY <1>1, CloseKeeps
<1>2. ASSUME NEW mode \in {"bound", "connected"}, OpenSocket(mode) PROVE UdpInv'
    BY <1>2, OpenKeeps
<1>3. CASE SocketFails
    BY <1>3, AddressGone DEF SocketFails
<1>4. CASE AddressRejected
    BY <1>4, RejectedKeeps
<1>5. CASE AddressWorks
    BY <1>5, WorksKeeps
<1>6. CASE OpenFails
    BY <1>6, FailsKeeps
<1>7. ASSUME NEW call \in {"receive", "send"}, NotOpened(call) PROVE UdpInv'
    BY <1>7, NotOpenedKeeps
<1>8. CASE Receive
    BY <1>8, ReceiveKeeps
<1>9. CASE ReceivesNothing
  <2>1. errorMessage \in {"", "getaddrinfo", "bound", "connected", "not opened", "system"}
      BY DEF UdpInv, UdpTypeOK
  <2> QED
      BY <1>9, <2>1, QuietCall DEF ReceivesNothing, Usable, IsOk
<1>10. CASE ReceiveFails
    BY <1>10, ReceiveFailsKeeps
<1>11. CASE Send("send", None, remoteAddr)
    BY <1>11, SendKeeps
<1>12. ASSUME NEW addr \in Addrs, Send("send", addr, addr) PROVE UdpInv'
    BY <1>12, SendKeeps, UdpAssumption
<1>13. CASE UNCHANGED vars
  <2>1. UNCHANGED <<handle, errorMessage, localAddr, remoteAddr, opening, kernel, last,
                    partner, past>>
      BY <1>13 DEF vars
  <2>2. UdpTypeOK' /\ OpeningInv' /\ PeerInv' /\ PastInv'
      BY <2>1, ZenonT(60) DEF UdpInv, UdpTypeOK, OpeningInv, PeerInv, PastInv, IsOk, Idle
  <2> QED
      BY <2>1, <2>2 DEF UdpInv, NoDescriptorLost, OpenTellsTheTruth, ErrorMeansClosed,
         SentWhereAsked, IsOk, Idle
<1> QED
    BY <1>1, <1>2, <1>3, <1>4, <1>5, <1>6, <1>7, <1>8, <1>9, <1>10, <1>11, <1>12, <1>13
    DEF Next

\* So it holds always.
LEMMA UdpInvariant == Spec => []UdpInv
BY UdpInit, UdpNext, PTL DEF Spec

\* The members and the kernel's side keep their types.
THEOREM UdpTypes == Spec => []UdpTypeOK
<1>1. UdpInv => UdpTypeOK
    BY DEF UdpInv
<1> QED
    BY <1>1, UdpInvariant, PTL

\* Every descriptor openSocket ever got is the handle or closed, however many
\* addresses refuse and however often the object is opened again.
THEOREM UdpNoDescriptorLost == Spec => []NoDescriptorLost
<1>1. UdpInv => NoDescriptorLost
    BY DEF UdpInv
<1> QED
    BY <1>1, UdpInvariant, PTL

\* bindTo and connectTo return what is the case.
THEOREM UdpOpenTellsTheTruth == Spec => []OpenTellsTheTruth
<1>1. UdpInv => OpenTellsTheTruth
    BY DEF UdpInv
<1> QED
    BY <1>1, UdpInvariant, PTL

\* An object with an error holds no descriptor.
THEOREM UdpErrorMeansClosed == Spec => []ErrorMeansClosed
<1>1. UdpInv => ErrorMeansClosed
    BY DEF UdpInv
<1> QED
    BY <1>1, UdpInvariant, PTL

\* Where every datagram goes, once or not at all, through any number of
\* reopenings: on a bound socket to the address given, on a connected one that
\* never was bound to the peer, and from sendPacket to the peer, or, on a bound
\* socket that has heard nobody, to whom an earlier socket had.
THEOREM UdpSentWhereAsked == Spec => []SentWhereAsked
<1>1. UdpInv => SentWhereAsked
    BY DEF UdpInv
<1> QED
    BY <1>1, UdpInvariant, PTL
=============================================================================
