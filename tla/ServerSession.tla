---------------------------- MODULE ServerSession ----------------------------
(***************************************************************************)
(* One session of ModbusServer: handleTransport (server.go:381-810) over   *)
(* the receiving and answering side of tcpTransport (tcp_transport.go).    *)
(* Requests, their validation and the responses are those of ModbusPdu.    *)
(***************************************************************************)
EXTENDS ModbusPdu, Sequences

CONSTANTS Scripts,  \* the sequences of frames a client may send in a session
          NoCall    \* no handler call is waiting for its response

ASSUME ScriptsAssumption == Scripts \subseteq Seq(FrameType)

VARIABLES
  script,    \* the frames the client has yet to send
  wire,      \* the frames on their way to the server
  broken,    \* the client has reset or closed the connection, or stopped reading
  phase,     \* where the session goroutine is
  expired,   \* the deadline ReadRequest set has passed
  frame,     \* the request last read
  lastTxnId, \* tt.lastTxnId
  call,      \* the handler call whose response is still due
  reply,     \* the response PDU being written, or the last one
  out,       \* the last frame written
  asked,     \* how many requests were read
  answered   \* how many responses were written

clientVars == <<script, wire, broken>>
vars == <<clientVars, phase, expired, frame, lastTxnId, call, reply, out, asked, answered>>

-----------------------------------------------------------------------------
\* The call the handler gets: which of its methods, and what for.  The values of
\* a multiple write are decoded from as many payload bytes as there are.
HandlerCall(f) ==
  [handler |-> CASE f.fc \in {ReadCoils, WriteSingleCoil, WriteMultipleCoils} -> "HandleCoils"
                 [] f.fc = ReadDiscreteInputs -> "HandleDiscreteInputs"
                 [] f.fc = ReadInputRegisters -> "HandleInputRegisters"
                 [] OTHER -> "HandleHoldingRegisters",
   isWrite |-> f.fc \in SingleWrites \cup MultipleWrites,
   addr |-> f.addr,
   quantity |-> IF f.fc \in SingleWrites THEN 1 ELSE f.value,
   args |-> CASE f.fc \in SingleWrites -> 1
              [] f.fc = WriteMultipleCoils -> f.value
              [] f.fc = WriteMultipleRegisters -> (Payload(f) - 5) \div 2
              [] OTHER -> 0]

\* The errors a handler may return.
HandlerErrors == {"nil", "ErrProtocolError", "ErrIllegalDataValue", "other"}

NoFrame == [txn |-> 0, proto |-> 0, length |-> 0, unit |-> 0, fc |-> 0, addr |-> 0,
            value |-> 0, count |-> 0]
NoReply == [unit |-> 0, fc |-> 0, payload |-> 0, addr |-> 0, value |-> 0, count |-> 0]

TypeOK == /\ script \in Seq(FrameType)
          /\ wire \in Seq(FrameType)
          /\ broken \in BOOLEAN
          /\ phase \in {"read", "validate", "handle", "write", "closed"}
          /\ expired \in BOOLEAN
          /\ frame \in FrameType
          /\ lastTxnId \in UInt16
          /\ call = NoCall \/ call = HandlerCall(frame)
          /\ reply \in PduType
          /\ out \in FrameType
          /\ asked \in Nat /\ answered \in Nat

Init == /\ script \in Scripts /\ wire = << >> /\ broken = FALSE
        /\ phase = "read" /\ expired = FALSE
        /\ frame = NoFrame /\ lastTxnId = 0
        /\ call = NoCall /\ reply = NoReply /\ out = NoFrame
        /\ asked = 0 /\ answered = 0

-----------------------------------------------------------------------------
(* The client and the clock.                                               *)

\* The client need not wait for a response before it sends the next request.
Send ==
  /\ script # << >> /\ ~broken
  /\ script' = Tail(script)
  /\ wire' = Append(wire, Head(script))
  /\ UNCHANGED <<broken, phase, expired, frame, lastTxnId, call, reply, out, asked, answered>>

Break ==
  /\ ~broken
  /\ broken' = TRUE
  /\ UNCHANGED <<script, wire, phase, expired, frame, lastTxnId, call, reply, out, asked,
                 answered>>

\* The one deadline of a turn covers reading, handling and writing.  Time passes
\* while a read waits and while the handler works; a client that leaves its
\* responses unread until a write blocks counts as broken.
DeadlinePasses ==
  /\ ~expired /\ phase \in {"read", "handle"}
  /\ expired' = TRUE
  /\ UNCHANGED <<clientVars, phase, frame, lastTxnId, call, reply, out, asked, answered>>

-----------------------------------------------------------------------------
(* Mutants of the steps below, named after the definition they replace.    *)

\* The transaction id of the request is not stored.
ReadRequest_KeepsOldId ==
  /\ phase = "read" /\ ~expired
  /\ wire # << >>
  /\ LengthLegal(Head(wire)) /\ Head(wire).proto = 0
  /\ frame' = Head(wire)
  /\ wire' = Tail(wire)
  /\ phase' = "validate"
  /\ asked' = asked + 1
  /\ UNCHANGED <<script, broken, expired, lastTxnId, call, reply, out, answered>>

\* The handler's values are sent without a look at how many they are.
HandlerReturns_Unchecked(n, err) ==
  /\ phase = "handle"
  /\ err # "ErrProtocolError"
  /\ reply' = IF err # "nil" THEN Negative(frame, err)
              ELSE IF call.isWrite THEN Positive(frame)
              ELSE [Positive(frame) EXCEPT !.payload = 1 + BytesFor(frame.fc, n)]
  /\ phase' = "write"
  /\ UNCHANGED <<clientVars, expired, frame, lastTxnId, call, out, asked, answered>>

\* A response may be written once more after it went out.
WriteResponse_Twice ==
  /\ phase = "write" /\ ~expired
  /\ out' = Assemble(lastTxnId, reply)
  /\ answered' = answered + 1
  /\ call' = NoCall
  /\ phase' \in {"read", "write"}
  /\ UNCHANGED <<clientVars, expired, frame, lastTxnId, reply, asked>>

\* A read timeout is waited out instead of ending the session.
ReadFails_IgnoresTimeout ==
  /\ phase = "read"
  /\ \/ wire # << >> /\ ~(LengthLegal(Head(wire)) /\ Head(wire).proto = 0)
     \/ broken
  /\ phase' = "closed"
  /\ UNCHANGED <<clientVars, expired, frame, lastTxnId, call, reply, out, asked, answered>>

-----------------------------------------------------------------------------
(* The session goroutine.                                                  *)

\* A whole frame of protocol 0 is a request; what was received can be read even
\* after the client has gone.
ReadRequest ==
  /\ phase = "read" /\ ~expired
  /\ wire # << >>
  /\ LengthLegal(Head(wire)) /\ Head(wire).proto = 0
  /\ frame' = Head(wire)
  /\ wire' = Tail(wire)
  /\ lastTxnId' = Head(wire).txn
  /\ phase' = "validate"
  /\ asked' = asked + 1
  /\ UNCHANGED <<script, broken, expired, call, reply, out, answered>>

\* Every error of ReadRequest ends the session: a frame of illegal length or of
\* another protocol, a timeout, a closed connection.
ReadFails ==
  /\ phase = "read"
  /\ \/ wire # << >> /\ ~(LengthLegal(Head(wire)) /\ Head(wire).proto = 0)
     \/ expired
     \/ broken
  /\ phase' = "closed"
  /\ UNCHANGED <<clientVars, expired, frame, lastTxnId, call, reply, out, asked, answered>>

CallHandler ==
  /\ phase = "validate"
  /\ Verdict(frame) = "nil"
  /\ call' = HandlerCall(frame)
  /\ phase' = "handle"
  /\ UNCHANGED <<clientVars, expired, frame, lastTxnId, reply, out, asked, answered>>

\* The handler returns n values and an error.  Only reads have their number
\* checked; ErrProtocolError closes the link, other errors are sent back.
HandlerReturns(n, err) ==
  /\ phase = "handle"
  /\ err # "ErrProtocolError"
  /\ reply' = IF err # "nil" THEN Negative(frame, err)
              ELSE IF ~call.isWrite /\ n # call.quantity
                   THEN Negative(frame, "ErrServerDeviceFailure")
                   ELSE Positive(frame)
  /\ phase' = "write"
  /\ UNCHANGED <<clientVars, expired, frame, lastTxnId, call, out, asked, answered>>

Refuse ==
  /\ phase = "validate"
  /\ Verdict(frame) \notin {"nil", "ErrProtocolError"}
  /\ reply' = Negative(frame, Verdict(frame))
  /\ phase' = "write"
  /\ UNCHANGED <<clientVars, expired, frame, lastTxnId, call, out, asked, answered>>

\* A protocol error, of the request or of its handler, closes the link.
CloseLink ==
  /\ \/ phase = "validate" /\ Verdict(frame) = "ErrProtocolError"
     \/ phase = "handle"
  /\ phase' = "closed"
  /\ UNCHANGED <<clientVars, expired, frame, lastTxnId, call, reply, out, asked, answered>>

\* The response goes out under the transaction id stored by ReadRequest; the
\* next ReadRequest sets a new deadline.
WriteResponse ==
  /\ phase = "write" /\ ~expired
  /\ out' = Assemble(lastTxnId, reply)
  /\ answered' = answered + 1
  /\ call' = NoCall
  /\ phase' = "read"
  /\ UNCHANGED <<clientVars, expired, frame, lastTxnId, reply, asked>>

\* A failed write is logged and the session goes on.
WriteFails ==
  /\ phase = "write"
  /\ expired \/ broken
  /\ call' = NoCall
  /\ phase' = "read"
  /\ expired' = FALSE
  /\ UNCHANGED <<clientVars, frame, lastTxnId, reply, out, asked, answered>>

HandlerStep == \E err \in HandlerErrors : \E n \in {0, call.quantity, call.quantity + 1} :
                 HandlerReturns(n, err)

SessionStep == \/ ReadRequest \/ ReadFails \/ CallHandler \/ Refuse
               \/ CloseLink \/ WriteResponse \/ WriteFails
               \/ phase = "handle" /\ HandlerStep

Next == Send \/ Break \/ DeadlinePasses \/ SessionStep

Spec == Init /\ [][Next]_vars

\* Deadlines pass while a read waits, handlers return, the goroutine is scheduled.
FairSpec == Spec /\ WF_vars(SessionStep) /\ WF_vars(DeadlinePasses /\ phase = "read")

-----------------------------------------------------------------------------
(* Properties.                                                             *)

\* The handler is never asked for anything beyond address 65535, never for
\* nothing, and never with other than as many values as the request covers
\* (server.go:89-92: "After decoding and validating an incoming request"),
\* although quantity, byte count and payload arrive separately.
HandlerInputInRange ==
  call # NoCall => /\ call.quantity >= 1
                   /\ call.addr + call.quantity <= 65536
                   /\ call.isWrite => call.args = call.quantity

\* Whatever was asked, the frame sent is one that readMBAPFrame of the other end
\* takes, and its byte count says how many bytes follow: neither the uint8 nor
\* the uint16 the lengths are put in has cut them (server.go:408, 462, 648).
ResponseFits ==
  answered > 0 => /\ LengthLegal(out)
                  /\ out.fc \in BitReads \cup RegisterReads => out.count = out.length - 3

\* The inductive invariant behind the two: what is pending was validated, and
\* what is about to be written fits.
SInv == /\ TypeOK
        /\ call # NoCall => Verdict(frame) = "nil"
        /\ phase = "validate" => call = NoCall
        /\ phase = "handle" => call = HandlerCall(frame) /\ Verdict(frame) = "nil"
        /\ phase = "read" => call = NoCall
        /\ phase = "write" => Fits(reply)
        /\ ResponseFits

\* A response carries the transaction and unit ids of the request it answers, its
\* function code but for the error bit, and for a write its address and value,
\* with requests queued up behind it (tcp_transport.go:78, 85, server.go:752).
EchoesRequest ==
  [][answered' # answered =>
       /\ out'.txn = frame.txn /\ out'.unit = frame.unit
       /\ out'.fc % 128 = frame.fc % 128
       /\ out'.fc \in SingleWrites \cup MultipleWrites =>
            out'.addr = frame.addr /\ out'.value = frame.value]_vars

\* No request is answered twice, and none before it was read.
OneAnswerEach ==
  /\ answered <= asked
  /\ phase \in {"validate", "handle", "write"} => answered < asked

\* A session whose client falls silent ends (server.go:25: "client connections
\* will be closed if idle for this long").
IdleSessionEnds == <>(phase = "closed")

-----------------------------------------------------------------------------
(* What comments of the code say and the code does not do.                 *)

\* server.go:100: if the error is "nil, a positive modbus response is sent back":
\* when the session waits for the next request on a sound connection, every
\* earlier one has been answered.
EveryRequestAnswered == phase = "read" /\ ~broken => answered = asked

=============================================================================
