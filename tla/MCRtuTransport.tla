--------------------------- MODULE MCRtuTransport ---------------------------
(* Instances of RtuTransport for TLC, and the CRC its frames carry.         *)
EXTENDS RtuTransport, Crc

\* An exception, and a coil that is read: frames of 5 and 6 bytes.
ShortAnswers == {[code |-> "exception", third |-> 2], [code |-> "read", third |-> 1]}
=============================================================================
