---------------------------- MODULE MCUdpSocket ----------------------------
(* Two addresses, and every list of up to two of them for getaddrinfo.       *)
EXTENDS UdpSocket

MCAddressLists == UNION {[1..n -> Addrs] : n \in 0..2}
=============================================================================
