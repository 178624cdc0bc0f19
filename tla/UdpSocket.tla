------------------------------ MODULE UdpSocket ------------------------------
(***************************************************************************)
(* UdpSocket (src/oscpkt/udp.hh): one object of the class, its owner, who  *)
(* calls it in any order, and the kernel's side of its descriptors.  Each  *)
(* call is a step, but for openSocket, which takes one per address it      *)
(* tries.                                                                  *)
(***************************************************************************)
EXTENDS Naturals, Sequences

CONSTANTS
    Fds,            \* the descriptors the kernel may give out
    Addrs,          \* the addresses of this host and of others
    None,           \* no descriptor (-1), no address (AF_UNSPEC)
    AddressLists    \* what getaddrinfo may return

ASSUME UdpAssumption ==
    /\ None \notin Fds \cup Addrs
    /\ AddressLists \subseteq Seq(Addrs)

VARIABLES
    handle, errorMessage, localAddr, remoteAddr,    \* the object's members
    opening,   \* openSocket in progress: for what, and the addresses left
    kernel,    \* what each descriptor is, and the address it has
    last,      \* history: the last call, its result, and where its datagram was
               \* told to go and went
    partner,   \* history: whom the open socket is connected to, or heard last
    past       \* history: of all sockets the object has had, whether one was
               \* bound, and the last address one was connected to or heard

vars == <<handle, errorMessage, localAddr, remoteAddr, opening, kernel, last,
          partner, past>>
addrVars == <<localAddr, remoteAddr>>

Closed == [as |-> "closed", addr |-> None]
NotOpening == [mode |-> "none", rest |-> <<>>]

Init ==
    /\ handle = None /\ errorMessage = "" /\ localAddr = None /\ remoteAddr = None
    /\ opening = NotOpening
    /\ kernel = [fd \in Fds |-> Closed]
    /\ last = [call |-> "none", ok |-> TRUE, to |-> None, went |-> None]
    /\ partner = None
    /\ past = [bound |-> FALSE, peer |-> None]

IsOk == errorMessage = ""

\* Only the first error is kept.
SetErr(msg) == errorMessage' = IF IsOk THEN msg ELSE errorMessage

IsBound == localAddr # None

Returns(call, ok) == last' = [call |-> call, ok |-> ok, to |-> None, went |-> None]

Idle == opening = NotOpening

\* What close() leaves of the kernel's descriptors.
AfterClose ==
    IF handle = None THEN kernel ELSE [kernel EXCEPT ![handle] = Closed]

Close ==
    /\ Idle
    /\ kernel' = AfterClose
    /\ handle' = None
    /\ Returns("close", TRUE)
    /\ partner' = None
    /\ UNCHANGED <<errorMessage, addrVars, opening, past>>

-----------------------------------------------------------------------------
(* bindTo, connectTo: openSocket *)

\* The old socket and its error are gone before the address is looked up.
OpenSocket(mode) ==
    /\ Idle
    /\ kernel' = AfterClose
    /\ handle' = None
    /\ partner' = None
    /\ \/ \E list \in AddressLists : opening' = [mode |-> mode, rest |-> list]
          /\ errorMessage' = ""
          /\ Returns("opening", TRUE)
       \/ errorMessage' = "getaddrinfo"
          /\ Returns(mode, FALSE)
          /\ UNCHANGED opening
    /\ UNCHANGED <<addrVars, past>>

NextAddress == opening' = [opening EXCEPT !.rest = Tail(@)]

SocketFails ==
    /\ opening.rest # <<>>
    /\ NextAddress
    /\ UNCHANGED <<handle, errorMessage, addrVars, kernel, last, partner, past>>

\* Mutated form: the descriptor is forgotten, not closed.
RejectedKept(fd) == [kernel EXCEPT ![fd] = [as |-> "fresh", addr |-> None]]

\* socket() gives fd, bind() or connect() fails, close() takes it back.
Rejected(fd) == [kernel EXCEPT ![fd] = Closed]

AddressRejected ==
    /\ opening.rest # <<>>
    /\ \E fd \in Fds :
        /\ kernel[fd] = Closed
        /\ kernel' = Rejected(fd)
    /\ NextAddress
    /\ UNCHANGED <<handle, errorMessage, addrVars, last, partner, past>>

\* Mutated form: no break, so rp goes on to the next address.
FoundBehind == Len(opening.rest) > 1

\* rp, when the loop is left.
Found == opening.rest # <<>>

\* Mutated form: the address is copied only if there was none.
PeerKept(addr) == IF remoteAddr = None THEN addr ELSE remoteAddr

Peer(addr) == addr

\* bind or connect succeeds, and the loop is left by its break.  getsockname
\* is not required to succeed.
AddressWorks ==
    /\ opening.rest # <<>>
    /\ LET addr == Head(opening.rest)
       IN  /\ \E fd \in Fds :
               /\ kernel[fd] = Closed
               /\ handle' = fd
               /\ kernel' = [kernel EXCEPT ![fd] = [as |-> opening.mode, addr |-> addr]]
           /\ IF opening.mode = "bound"
              THEN /\ localAddr' \in {localAddr, addr}
                   /\ partner' = None
                   /\ past' = [past EXCEPT !.bound = TRUE]
                   /\ UNCHANGED remoteAddr
              ELSE /\ remoteAddr' = Peer(addr)
                   /\ partner' = addr
                   /\ past' = [past EXCEPT !.peer = addr]
                   /\ UNCHANGED localAddr
    /\ opening' = NotOpening
    /\ Returns(opening.mode, Found)
    /\ UNCHANGED errorMessage

OpenFails ==
    /\ ~Idle
    /\ ~Found
    /\ SetErr(opening.mode)
    /\ opening' = NotOpening
    /\ Returns(opening.mode, FALSE)
    /\ UNCHANGED <<handle, addrVars, kernel, partner, past>>

-----------------------------------------------------------------------------
(* receiveNextPacket, sendPacket, sendPacketTo *)

Usable == IsOk /\ handle # None

NotOpened(call) ==
    /\ Idle
    /\ ~Usable
    /\ SetErr("not opened")
    /\ Returns(call, FALSE)
    /\ UNCHANGED <<handle, addrVars, opening, kernel, partner, past>>

\* A connected socket hears its peer only.
Receive ==
    /\ Idle /\ Usable
    /\ remoteAddr' \in IF kernel[handle].as = "bound" THEN Addrs ELSE {kernel[handle].addr}
    /\ partner' = remoteAddr'
    /\ past' = [past EXCEPT !.peer = remoteAddr']
    /\ Returns("receive", TRUE)
    /\ UNCHANGED <<handle, errorMessage, localAddr, opening, kernel>>

\* A timeout, a failing select, or EAGAIN, EINTR, ECONNRESET, ECONNREFUSED.
ReceivesNothing ==
    /\ Idle /\ Usable
    /\ Returns("receive", FALSE)
    /\ UNCHANGED <<handle, errorMessage, addrVars, opening, kernel, partner, past>>

\* Mutated form: the socket stays open.
HandleKept == handle

HandleAfterError == None

\* Any other error of recvfrom.
ReceiveFails ==
    /\ Idle /\ Usable
    /\ SetErr("system")
    /\ handle' = HandleAfterError
    /\ kernel' = IF handle' = None THEN AfterClose ELSE kernel
    /\ Returns("receive", FALSE)
    /\ partner' = None
    /\ UNCHANGED <<addrVars, opening, past>>

\* Where the kernel sends it: sendto needs an address, send a connected socket.
Destination(addr) ==
    IF IsBound THEN addr
    ELSE IF kernel[handle].as = "bound" THEN None ELSE kernel[handle].addr

\* (size_t)sent == sz: an error is -1 and an interrupted call leaves 0.
Sent(outcome) == outcome = "sent"

\* sendPacket is a send to remote_addr.
Send(call, to, addr) ==
    /\ Idle /\ Usable
    /\ \E outcome \in {"interrupted", "failed"}
                      \cup (IF Destination(addr) # None THEN {"sent"} ELSE {}) :
        last' = [call |-> call, ok |-> Sent(outcome), to |-> to,
                 went |-> IF outcome = "sent" THEN Destination(addr) ELSE None]
    /\ UNCHANGED <<handle, errorMessage, addrVars, opening, kernel, partner, past>>

Next ==
    \/ Close
    \/ \E mode \in {"bound", "connected"} : OpenSocket(mode)
    \/ SocketFails \/ AddressRejected \/ AddressWorks \/ OpenFails
    \/ \E call \in {"receive", "send"} : NotOpened(call)
    \/ Receive \/ ReceivesNothing \/ ReceiveFails
    \/ Send("send", None, remoteAddr)
    \/ \E addr \in Addrs : Send("send", addr, addr)

Spec == Init /\ [][Next]_vars

-----------------------------------------------------------------------------
(* Properties *)

\* The types of the object's members and of the kernel's side.
UdpTypeOK ==
    /\ handle \in Fds \cup {None}
    /\ errorMessage \in {"", "getaddrinfo", "bound", "connected", "not opened", "system"}
    /\ localAddr \in Addrs \cup {None} /\ remoteAddr \in Addrs \cup {None}
    /\ opening \in [mode : {"none", "bound", "connected"}, rest : Seq(Addrs)]
    /\ kernel \in [Fds -> [as : {"closed", "bound", "connected"}, addr : Addrs \cup {None}]]
    /\ partner \in Addrs \cup {None}
    /\ past \in [bound : BOOLEAN, peer : Addrs \cup {None}]

\* However many addresses are refused, and however often the object is opened
\* again: the descriptors the kernel holds for it are exactly its handle.
NoDescriptorLost == \A fd \in Fds : kernel[fd] # Closed <=> fd = handle

\* bindTo and connectTo return true with a descriptor that is bound, or
\* connected, and no error; false with no descriptor and an error.
OpenTellsTheTruth ==
    last.call \in {"bound", "connected"} /\ Idle =>
        IF last.ok THEN IsOk /\ handle # None /\ kernel[handle].as = last.call
        ELSE ~IsOk /\ handle = None

\* An object with an error has no descriptor, so the owner that polls its
\* socketHandle(), as run() does, never polls one that can no longer be read.
ErrorMeansClosed == ~IsOk => handle = None

\* A datagram is on the wire once if the call returned true, else not at all;
\* an interrupted one is not repeated.  sendPacketTo on a bound socket goes to
\* the address given; on a connected one of an object that never was bound it
\* goes to the peer, whatever address is given; on a connected one of an object
\* that was bound before, either may happen (isBound() looks at the address of
\* an earlier socket).  sendPacket goes to the peer or to the sender of the last
\* datagram; a bound socket that has heard nobody yet sends to the peer of the
\* object's earlier sockets.
SentWhereAsked ==
    last.call = "send" =>
        /\ last.ok <=> last.went # None
        /\ last.went # None =>
            LET bound == kernel[handle].as = "bound"
            IN  /\ last.to # None /\ bound => last.went = last.to
                /\ last.to # None /\ ~bound =>
                    /\ last.went \in {last.to, partner}
                    /\ ~past.bound => last.went = partner
                /\ last.to = None /\ partner # None => last.went = partner
                /\ last.to = None /\ partner = None => bound /\ last.went = past.peer

\* What udp.hh:123 says of remote_addr: it is set for connected sockets, and for
\* bound ones by the datagrams they receive.  So sendPacket reaches the open
\* socket's peer, or the sender of its last datagram, or nobody.
SentToOwnPeer ==
    last.call = "send" /\ last.to = None => last.went \in {None, partner}
=============================================================================
