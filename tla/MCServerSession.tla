--------------------------- MODULE MCServerSession ---------------------------
(* Instances of ServerSession for TLC.                                      *)
EXTENDS ServerSession, TLC

Request(txn, fc, length, addr, value, count) ==
  [txn |-> txn, proto |-> 0, length |-> length, unit |-> 9,
   fc |-> fc, addr |-> addr, value |-> value, count |-> count]

\* Every limit of the validation from both sides, one request per session.
ReadFrames ==
  {Request(7, fc, length, addr, value, 0) :
     fc \in BitReads \cup RegisterReads, length \in {5, 6, 7}, addr \in {0, 65411, 65535},
     value \in {0, 1, 2, 7, 8, 9, 124, 125, 126, 2000, 2001, 65535}}
SingleWriteFrames ==
  {Request(7, fc, length, addr, value, 0) :
     fc \in SingleWrites, length \in {5, 6, 7}, addr \in {0, 65535},
     value \in {0, 1, 255, 65280, 65535}}
MultipleWriteFrames ==
  {Request(7, fc, length, addr, value, count) :
     fc \in MultipleWrites, length \in {7, 8, 9, 11, 253, 254}, addr \in {0, 65413, 65535},
     value \in {0, 1, 2, 8, 9, 16, 123, 124, 125, 1968, 1969, 2000},
     count \in {0, 1, 2, 4, 246, 247}}
OtherFrames ==
  {Request(7, fc, length, 0, 1, 0) : fc \in {7, 22, 131}, length \in {2, 6}}
BadFrames ==
  {Request(7, ReadCoils, length, 0, 1, 0) : length \in {0, 1, 254, 255, 65535}}
    \cup {[Request(7, ReadCoils, 6, 0, 1, 0) EXCEPT !.proto = 1]}
BoundaryFrames ==
  ReadFrames \cup SingleWriteFrames \cup MultipleWriteFrames \cup OtherFrames \cup BadFrames

\* Requests of several kinds and ids: served, refused, and ending the session.
PipelinedFrames ==
  {Request(1, ReadHoldingRegisters, 6, 0, 2, 0), Request(2, ReadCoils, 6, 65535, 2, 0),
   Request(3, WriteSingleRegister, 6, 4, 5, 0), Request(4, 7, 2, 0, 0, 0),
   Request(5, ReadCoils, 5, 0, 1, 0)}

\* One request at a limit, or any three in a row.
Sessions == {<<f>> : f \in BoundaryFrames} \cup [1..3 -> PipelinedFrames]

\* Any two in a row.
ShortSessions == [1..2 -> PipelinedFrames]
=============================================================================
