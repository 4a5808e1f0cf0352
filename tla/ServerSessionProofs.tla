------------------------- MODULE ServerSessionProofs -------------------------
(* Proofs about ServerSession for whatever frames a client may send.        *)
EXTENDS ServerSession, ModbusPduProofs, SequenceTheorems

\* What the handler is asked for, for every request that passes.
LEMMA CallInRange ==
  ASSUME NEW f \in FrameType, Verdict(f) = "nil"
  PROVE  /\ HandlerCall(f).quantity >= 1
         /\ HandlerCall(f).addr + HandlerCall(f).quantity <= 65536
         /\ HandlerCall(f).isWrite => HandlerCall(f).args = HandlerCall(f).quantity
<1>1. f.addr \in Nat /\ f.addr <= 65535 /\ f.value \in Nat
  <2>1. f.addr \in UInt16 /\ f.value \in UInt16
    BY DEF FrameType
  <2>2. MaxUInt16 \in Nat
    BY DEF MaxUInt16
  <2>3. f.addr \in Nat /\ f.addr <= MaxUInt16 /\ f.value \in Nat
    BY <2>1, <2>2 DEF UInt16
  <2>4. QED BY <2>3 DEF MaxUInt16
<1>2. CASE f.fc \in SingleWrites
  <2>1. f.fc \notin MultipleWrites
    BY <1>2 DEF SingleWrites, MultipleWrites, WriteSingleCoil, WriteSingleRegister,
                WriteMultipleCoils, WriteMultipleRegisters
  <2>2. f.fc # WriteMultipleCoils /\ f.fc # WriteMultipleRegisters
    BY <2>1 DEF MultipleWrites
  <2>3. HandlerCall(f).quantity = 1 /\ HandlerCall(f).addr = f.addr
    BY <1>2 DEF HandlerCall
  <2>4. HandlerCall(f).args = 1
    BY <1>2, <2>2 DEF HandlerCall
  <2>5. QED BY <1>1, <2>3, <2>4
<1>3. CASE f.fc \notin SingleWrites
  <2>1. QuantityLegal(f) /\ AddressLegal(f) /\ f.fc \in Supported
    BY <1>3, Validated
  <2>2. Limit(f.fc) \in Nat
    BY DEF Limit
  <2>3. 1 <= f.value
    BY <1>1, <2>1, <2>2 DEF QuantityLegal
  <2>4. f.addr + f.value <= 65536
    BY <1>1, <2>1 DEF AddressLegal
  <2>5. ASSUME f.fc = WriteMultipleRegisters PROVE (Payload(f) - 5) \div 2 = f.value
    <3>1. Payload(f) - 5 = BytesFor(f.fc, f.value)
      BY <2>5, Validated DEF ValuesWhole, MultipleWrites
    <3>2. BytesFor(f.fc, f.value) = 2 * f.value
      BY <2>5 DEF BytesFor, BitReads, ReadCoils, ReadDiscreteInputs, WriteMultipleCoils,
         WriteMultipleRegisters
    <3>3. QED BY <1>1, <3>1, <3>2
  <2>6. HandlerCall(f).quantity = f.value /\ HandlerCall(f).addr = f.addr
    BY <1>3 DEF HandlerCall
  <2>7. HandlerCall(f).isWrite => f.fc \in {WriteMultipleCoils, WriteMultipleRegisters}
    BY <1>3 DEF HandlerCall, MultipleWrites
  <2>8. WriteMultipleCoils # WriteMultipleRegisters
    BY DEF WriteMultipleCoils, WriteMultipleRegisters
  <2>9. f.fc = WriteMultipleCoils => HandlerCall(f).args = f.value
    BY <1>3, <2>8 DEF HandlerCall
  <2>10. f.fc = WriteMultipleRegisters => HandlerCall(f).args = f.value
    BY <1>3, <2>5, <2>8 DEF HandlerCall
  <2>11. QED
    BY <2>3, <2>4, <2>6, <2>7, <2>9, <2>10
<1>4. QED BY <1>2, <1>3

\* What stands for no frame read or sent yet is typed like one.
LEMMA NoFrameType == NoFrame \in FrameType
BY ZeroFits DEF NoFrame, FrameType

\* The initial state of a session satisfies the invariant.
LEMMA InitSInv == Init => SInv
<1> SUFFICES ASSUME Init PROVE SInv
  OBVIOUS
<1>1. NoFrame \in FrameType /\ 0 \in UInt16
  BY NoFrameType, ZeroFits
<1>2. NoReply \in PduType
  BY ZeroFits DEF NoReply, PduType
<1>3. TypeOK
  <2>1. script \in Seq(FrameType) /\ wire \in Seq(FrameType)
    BY ScriptsAssumption DEF Init
  <2>2. QED BY <1>1, <1>2, <2>1 DEF Init, TypeOK
<1>4. QED BY <1>3 DEF Init, SInv, ResponseFits

\* Every step of client, clock and session goroutine preserves the invariant.
LEMMA SInvStep ==
  ASSUME SInv, [Next]_vars PROVE SInv'
<1> USE DEF SInv, TypeOK, ResponseFits, clientVars
<1>1. CASE Send
  <2>1. /\ script # << >> /\ Head(script) \in FrameType /\ Tail(script) \in Seq(FrameType)
        /\ script' = Tail(script) /\ wire' = Append(wire, Head(script))
    BY <1>1, HeadTailProperties DEF Send
  <2>2. wire' \in Seq(FrameType)
    BY <2>1, AppendProperties
  <2>3. QED
    BY <1>1, <2>1, <2>2 DEF Send
<1>2. CASE Break
  BY <1>2 DEF Break
<1>3. CASE DeadlinePasses
  BY <1>3 DEF DeadlinePasses
<1>4. CASE ReadRequest
  <2>1. /\ wire # << >> /\ Head(wire) \in FrameType /\ Tail(wire) \in Seq(FrameType)
        /\ frame' = Head(wire) /\ wire' = Tail(wire) /\ lastTxnId' = Head(wire).txn
        /\ phase' = "validate" /\ call = NoCall /\ asked' = asked + 1
    BY <1>4, HeadTailProperties DEF ReadRequest
  <2>2. lastTxnId' \in UInt16
    BY <2>1 DEF FrameType
  <2>3. QED
    BY <1>4, <2>1, <2>2 DEF ReadRequest
<1>5. CASE ReadFails
  BY <1>5 DEF ReadFails
<1>6. CASE CallHandler
  <2>1. /\ phase = "validate" /\ phase' = "handle" /\ Verdict(frame) = "nil"
        /\ call' = HandlerCall(frame) /\ frame' = frame
        /\ frame \in FrameType
    BY <1>6 DEF CallHandler
  <2>2. call' = NoCall \/ call' = HandlerCall(frame')
    BY <2>1
  <2>3. Verdict(frame') = "nil"
    BY <2>1
  <2>4. TypeOK'
    BY <1>6, <2>2 DEF CallHandler
  <2>5. QED
    BY <1>6, <2>1, <2>3, <2>4 DEF CallHandler
<1>7. ASSUME NEW n, NEW err, HandlerReturns(n, err) PROVE SInv'
  <2>1. frame \in FrameType /\ Verdict(frame) = "nil"
    BY <1>7 DEF HandlerReturns
  <2>2. \/ reply' = Positive(frame)
        \/ reply' = Negative(frame, err)
        \/ reply' = Negative(frame, "ErrServerDeviceFailure")
    BY <1>7 DEF HandlerReturns
  <2>3. reply' \in PduType /\ Fits(reply')
    BY <2>1, <2>2, PositiveFits, PositiveType, NegativeFits
  <2>4. QED
    BY <1>7, <2>3 DEF HandlerReturns
<1>8. CASE Refuse
  <2>1. reply' \in PduType /\ Fits(reply')
    BY <1>8, NegativeFits DEF Refuse
  <2>2. QED
    BY <1>8, <2>1 DEF Refuse
<1>9. CASE CloseLink
  BY <1>9 DEF CloseLink
<1>10. CASE WriteResponse
  <2>1. lastTxnId \in UInt16 /\ reply \in PduType /\ Fits(reply)
    BY <1>10 DEF WriteResponse
  <2>2. /\ out' \in FrameType
        /\ LengthLegal(out')
        /\ out'.fc \in BitReads \cup RegisterReads => out'.count = out'.length - 3
    BY <1>10, <2>1, AssembledFits DEF WriteResponse
  <2>3. QED
    BY <1>10, <2>2 DEF WriteResponse
<1>11. CASE WriteFails
  BY <1>11 DEF WriteFails
<1>12. CASE UNCHANGED vars
  BY <1>12 DEF vars
<1>13. QED
  BY <1>1, <1>2, <1>3, <1>4, <1>5, <1>6, <1>7, <1>8, <1>9, <1>10, <1>11, <1>12
     DEF Next, SessionStep, HandlerStep

\* Every reachable state of a session satisfies the inductive invariant.
THEOREM SessionInvariance == Spec => []SInv
<1>1. SInv /\ [Next]_vars => SInv'
  BY SInvStep
<1>2. QED BY InitSInv, <1>1, PTL DEF Spec

\* Type correctness.
THEOREM SessionTypeCorrect == Spec => []TypeOK
<1>1. SInv => TypeOK
  BY DEF SInv
<1>2. QED BY <1>1, SessionInvariance, PTL

\* For every frame a client can send, the handler is called in range or not at
\* all.
THEOREM HandlerIsCalledInRange == Spec => []HandlerInputInRange
<1>1. ASSUME SInv PROVE HandlerInputInRange
  <2>1. SUFFICES ASSUME call # NoCall
                 PROVE  /\ call.quantity >= 1
                        /\ call.addr + call.quantity <= 65536
                        /\ call.isWrite => call.args = call.quantity
    BY DEF HandlerInputInRange
  <2>2. call = HandlerCall(frame) /\ Verdict(frame) = "nil"
    BY <1>1, <2>1 DEF SInv, TypeOK
  <2>3. frame \in FrameType
    BY <1>1 DEF SInv, TypeOK
  <2>4. QED BY <2>2, <2>3, CallInRange
<1>2. QED BY <1>1, SessionInvariance, PTL

\* For every frame a client can send, the response frame is one its own
\* readMBAPFrame accepts, with a byte count that says what follows.
THEOREM ResponsesFit == Spec => []ResponseFits
<1>1. SInv => ResponseFits
  BY DEF SInv
<1>2. QED BY <1>1, SessionInvariance, PTL

-----------------------------------------------------------------------------
(* Requests and their answers.                                             *)

\* No request is answered twice, and none before it was read (server.go:388, 797-806).
THEOREM AnsweredOnce == Spec => []OneAnswerEach
<1>1. Init => OneAnswerEach
  BY DEF Init, OneAnswerEach
<1>2. ASSUME TypeOK, OneAnswerEach, [Next]_vars PROVE OneAnswerEach'
  <2>1. asked \in Nat /\ answered \in Nat
    BY <1>2 DEF TypeOK
  <2>2. CASE Send \/ Break \/ DeadlinePasses
    BY <1>2, <2>2 DEF Send, Break, DeadlinePasses, OneAnswerEach
  <2>3. CASE ReadRequest
    BY <1>2, <2>1, <2>3 DEF ReadRequest, OneAnswerEach
  <2>4. CASE ReadFails \/ CloseLink
    BY <1>2, <2>4 DEF ReadFails, CloseLink, OneAnswerEach
  <2>5. CASE CallHandler \/ Refuse
    BY <1>2, <2>5 DEF CallHandler, Refuse, OneAnswerEach
  <2>6. ASSUME NEW n, NEW err, HandlerReturns(n, err) PROVE OneAnswerEach'
    BY <1>2, <2>6 DEF HandlerReturns, OneAnswerEach
  <2>7. CASE WriteResponse
    BY <1>2, <2>1, <2>7 DEF WriteResponse, OneAnswerEach
  <2>8. CASE WriteFails
    BY <1>2, <2>8 DEF WriteFails, OneAnswerEach
  <2>9. CASE UNCHANGED vars
    BY <1>2, <2>9 DEF vars, OneAnswerEach
  <2>10. QED
    BY <1>2, <2>2, <2>3, <2>4, <2>5, <2>6, <2>7, <2>8, <2>9
       DEF Next, SessionStep, HandlerStep
<1>3. QED BY <1>1, <1>2, SessionTypeCorrect, PTL DEF Spec

\* What a response to f repeats of it, before it has its transaction id.
Repeats(r, f) == /\ r.unit = f.unit
                 /\ r.fc % 128 = f.fc % 128
                 /\ r.fc \in SingleWrites \cup MultipleWrites =>
                      r.addr = f.addr /\ r.value = f.value

\* The request at hand is the one whose transaction id is stored, and the response
\* to be written repeats it.
EchoInv == /\ phase \in {"validate", "handle", "write"} => lastTxnId = frame.txn
           /\ phase = "write" => Repeats(reply, frame)

\* Both kinds of response repeat their request: an error bit makes no write of one.
LEMMA ResponsesRepeat ==
  ASSUME NEW f \in FrameType
  PROVE  /\ Repeats(Positive(f), f)
         /\ \A err : Repeats(Negative(f, err), f)
<1>1. f.fc \in 0..255
  BY DEF FrameType, Byte
<1>2. Repeats(Positive(f), f)
  <2>1. CASE f.fc \in BitReads \cup RegisterReads
    BY <2>1 DEF Positive, Repeats, BitReads, RegisterReads, SingleWrites, MultipleWrites,
       ReadCoils, ReadDiscreteInputs, ReadHoldingRegisters, ReadInputRegisters,
       WriteSingleCoil, WriteSingleRegister, WriteMultipleCoils, WriteMultipleRegisters
  <2>2. CASE f.fc \notin BitReads \cup RegisterReads
    BY <2>2 DEF Positive, Repeats
  <2>3. QED BY <2>1, <2>2
<1>3. ASSUME NEW err PROVE Repeats(Negative(f, err), f)
  <2> DEFINE r == Negative(f, err)
  <2>1. r.unit = f.unit /\ r.fc = IF f.fc >= 128 THEN f.fc ELSE f.fc + 128
    BY DEF Negative
  <2> HIDE DEF r
  <2>2. r.fc >= 128 /\ r.fc % 128 = f.fc % 128
    BY <1>1, <2>1
  <2>3. r.fc \notin SingleWrites \cup MultipleWrites
    BY <2>2 DEF SingleWrites, MultipleWrites, WriteSingleCoil, WriteSingleRegister,
       WriteMultipleCoils, WriteMultipleRegisters
  <2>4. QED BY <2>1, <2>2, <2>3 DEF Repeats, r
<1>4. QED BY <1>2, <1>3

\* Every step keeps request, transaction id and response together.
LEMMA EchoStep ==
  ASSUME SInv, EchoInv, [Next]_vars PROVE EchoInv'
<1> USE DEF EchoInv
<1>0. frame \in FrameType
  BY DEF SInv, TypeOK
<1>1. CASE Send \/ Break \/ DeadlinePasses
  BY <1>1 DEF Send, Break, DeadlinePasses
<1>2. CASE ReadRequest
  BY <1>2 DEF ReadRequest
<1>3. CASE ReadFails \/ CloseLink \/ CallHandler
  BY <1>3 DEF ReadFails, CloseLink, CallHandler
<1>4. ASSUME NEW n, NEW err, HandlerReturns(n, err) PROVE EchoInv'
  <2>1. Repeats(reply', frame)
    BY <1>0, <1>4, ResponsesRepeat DEF HandlerReturns
  <2>2. QED BY <1>4, <2>1 DEF HandlerReturns
<1>5. CASE Refuse
  <2>1. Repeats(reply', frame)
    BY <1>0, <1>5, ResponsesRepeat DEF Refuse
  <2>2. QED BY <1>5, <2>1 DEF Refuse
<1>6. CASE WriteResponse \/ WriteFails
  BY <1>6 DEF WriteResponse, WriteFails
<1>7. CASE UNCHANGED vars
  BY <1>7 DEF vars
<1>8. QED
  BY <1>1, <1>2, <1>3, <1>4, <1>5, <1>6, <1>7 DEF Next, SessionStep, HandlerStep

\* A response carries the transaction and unit ids of the request it answers, its
\* function code but for the error bit, and for a write its address and value, for
\* every frame and with any requests behind it (tcp_transport.go:78, 85, server.go:752).
THEOREM ResponsesEcho == Spec => EchoesRequest
<1>1. Init => EchoInv
  BY DEF Init, EchoInv
<1>2. ASSUME SInv, EchoInv, [Next]_vars
      PROVE  answered' # answered =>
               /\ out'.txn = frame.txn /\ out'.unit = frame.unit
               /\ out'.fc % 128 = frame.fc % 128
               /\ out'.fc \in SingleWrites \cup MultipleWrites =>
                    out'.addr = frame.addr /\ out'.value = frame.value
  <2>1. CASE WriteResponse
    <3>1. out' = Assemble(frame.txn, reply) /\ Repeats(reply, frame)
      BY <1>2, <2>1 DEF WriteResponse, EchoInv
    <3>2. QED BY <3>1 DEF Assemble, Repeats
  <2>2. CASE ~WriteResponse
    BY <1>2, <2>2 DEF Next, SessionStep, HandlerStep, Send, Break, DeadlinePasses,
       ReadRequest, ReadFails, CallHandler, HandlerReturns, Refuse, CloseLink, WriteFails,
       vars
  <2>3. QED BY <2>1, <2>2
<1>3. SInv /\ EchoInv /\ [Next]_vars => EchoInv'
  BY EchoStep
<1>4. QED BY <1>1, <1>2, <1>3, SessionInvariance, PTL DEF Spec, EchoesRequest

-----------------------------------------------------------------------------
(* That a session goes on: the half of IdleSessionEnds that rests on no     *)
(* fairness.                                                                *)

\* How many steps of its own a session may yet take: four for each request that its
\* client may send, to read, judge, handle and answer it, and one to end.
TurnLeft == [closed |-> 0, read |-> 1, write |-> 2, handle |-> 3, validate |-> 4][phase]
SessionLeft == 4 * (Len(script) + Len(wire)) + TurnLeft

\* A step of the session brings its end nearer, a step of client or clock never puts it
\* off.
TurnStep ==
  /\ SessionLeft \in Nat
  /\ SessionStep => SessionLeft' < SessionLeft
  /\ SessionLeft' <= SessionLeft

\* Each phase has its number of steps.
LEMMA TurnLeftType ==
  ASSUME phase \in {"read", "validate", "handle", "write", "closed"}
  PROVE  /\ TurnLeft \in Nat
         /\ phase = "closed" => TurnLeft = 0
         /\ phase = "read" => TurnLeft = 1
         /\ phase = "write" => TurnLeft = 2
         /\ phase = "handle" => TurnLeft = 3
         /\ phase = "validate" => TurnLeft = 4
BY DEF TurnLeft

\* A session goes round its loop once for each request and no more, whether it is
\* answered, refused or dropped: the frames of the client bound what it does
\* (server.go:388-808).
THEOREM SessionGoesOn == Spec => [][TurnStep]_vars
<1>1. ASSUME SInv, Next PROVE TurnStep
  <2>1. TypeOK /\ TypeOK'
    BY <1>1, SInvStep DEF SInv
  <2>2. /\ Len(script) \in Nat /\ Len(wire) \in Nat /\ Len(script') \in Nat /\ Len(wire') \in Nat
        /\ TurnLeft \in Nat /\ TurnLeft' \in Nat
    <3>1. TurnLeft \in Nat
      BY <2>1, TurnLeftType DEF TypeOK
    <3>2. TurnLeft' \in Nat
      BY <2>1 DEF TypeOK, TurnLeft
    <3>3. QED BY <2>1, <3>1, <3>2 DEF TypeOK
  <2>3. SessionLeft \in Nat
    BY <2>2 DEF SessionLeft
  <2>4. ASSUME script' = script, wire' = wire, TurnLeft' < TurnLeft
        PROVE  SessionLeft' < SessionLeft
    BY <2>2, <2>4 DEF SessionLeft
  <2>5. CASE SessionStep
    <3>1. CASE ReadRequest
      <4>1. phase = "read" /\ phase' = "validate" /\ script' = script
            /\ wire # << >> /\ wire' = Tail(wire)
        BY <3>1 DEF ReadRequest
      <4>2. Len(wire') = Len(wire) - 1
        BY <2>1, <4>1, HeadTailProperties DEF TypeOK
      <4>3. TurnLeft = 1 /\ TurnLeft' = 4
        BY <4>1 DEF TurnLeft
      <4>4. SessionLeft' < SessionLeft
        BY <2>2, <4>1, <4>2, <4>3 DEF SessionLeft
      <4>5. QED BY <2>3, <2>2, <4>4 DEF TurnStep, SessionLeft
    <3>2. CASE ~ReadRequest
      <4>1. UNCHANGED <<script, wire>>
        BY <2>5, <3>2 DEF SessionStep, HandlerStep, ReadFails, CallHandler, Refuse, CloseLink,
                  WriteResponse, WriteFails, HandlerReturns, clientVars
      <4>2. /\ phase = "read" => phase' = "closed"
            /\ phase = "validate" => phase' \in {"handle", "write", "closed"}
            /\ phase = "handle" => phase' \in {"write", "closed"}
            /\ phase = "write" => phase' = "read"
            /\ phase # "closed"
        BY <2>5, <3>2 DEF SessionStep, HandlerStep, ReadFails, CallHandler, Refuse, CloseLink,
                  WriteResponse, WriteFails, HandlerReturns
      <4>3. TurnLeft' < TurnLeft
        BY <2>1, <4>2 DEF TypeOK, TurnLeft
      <4>4. SessionLeft' < SessionLeft
        BY <2>4, <4>1, <4>3
      <4>5. QED BY <2>3, <2>2, <4>4 DEF TurnStep, SessionLeft
    <3>3. QED BY <3>1, <3>2
  <2>6. ASSUME phase' = phase, Len(script') + Len(wire') = Len(script) + Len(wire), ~SessionStep
        PROVE  TurnStep
    <3>1. TurnLeft' = TurnLeft
      BY <2>6 DEF TurnLeft
    <3>2. SessionLeft' = SessionLeft
      BY <2>2, <2>6, <3>1 DEF SessionLeft
    <3>3. QED BY <2>3, <2>6, <3>2 DEF TurnStep
  <2>7. CASE ~SessionStep /\ Send
    <3>1. /\ script # << >> /\ script' = Tail(script) /\ wire' = Append(wire, Head(script))
          /\ phase' = phase
      BY <2>7 DEF Send
    <3>2. Len(script') = Len(script) - 1 /\ Head(script) \in FrameType
      BY <2>1, <3>1, HeadTailProperties DEF TypeOK
    <3>3. Len(wire') = Len(wire) + 1
      BY <2>1, <3>1, <3>2, AppendProperties DEF TypeOK
    <3>4. QED BY <2>2, <2>6, <2>7, <3>1, <3>2, <3>3
  <2>8. CASE ~SessionStep /\ (Break \/ DeadlinePasses)
    <3>1. phase' = phase /\ script' = script /\ wire' = wire
      BY <2>8 DEF Break, DeadlinePasses, clientVars
    <3>2. QED BY <2>6, <2>8, <3>1
  <2>9. QED BY <1>1, <2>5, <2>7, <2>8 DEF Next
<1>2. QED BY <1>1, SessionInvariance, PTL DEF Spec

=============================================================================
