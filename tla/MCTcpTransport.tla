--------------------------- MODULE MCTcpTransport ---------------------------
(* Instances of TcpTransport for TLC.                                       *)
EXTENDS TcpTransport

\* TCP with a peer that sends anything; UDP with one that keeps to the lengths.
TcpAndUdp ==
  {[datagrams |-> FALSE, strays |-> StrayKinds],
   [datagrams |-> TRUE, strays |-> {"unknownProtocol"}]}
=============================================================================
