---------------------------- MODULE ModbusClient ----------------------------
(***************************************************************************)
(* The requests of ModbusClient (src/internal/modbus/client.go): what each *)
(* operation checks and sends, and what it makes of the answer, be it from *)
(* the ModbusServer of the same package or from a device of its own mind.  *)
(*                                                                         *)
(* mc.lock makes an operation, from its checks to its verdict on the       *)
(* answer, one request at a time; TcpTransport models how the answer is    *)
(* found.  Values and their encoding are left out, their number is kept.   *)
(***************************************************************************)
EXTENDS ModbusPdu

CONSTANTS Ops,    \* the operations a caller may ask for
          Units,  \* the unit ids it may set
          NoOp    \* no operation is under way

\* n is the quantity asked for or the length of the slice to write (for the
\* single writes the value), width how many bytes a value takes; bytes have
\* width 1, 16-bit registers 2; for coils it is not looked at.
OpType == [fc : Supported, addr : UInt16, n : Nat, width : {1, 2, 4, 8}]

\* A quantity is a uint16, a slice may be of any length.
ASSUME OpsAssumption == /\ Ops \subseteq OpType
                        /\ \A op \in Ops : op.fc \in BitReads \cup RegisterReads \cup SingleWrites
                                             => op.n <= 65535
                        /\ Units \subseteq Byte
                        /\ NoOp \notin Ops

VARIABLES
  unitId,    \* mc.unitId
  op,        \* the operation under way, or NoOp
  stage,     \* "idle"; "sent": its request is out; "answered"; "returned"
  req,       \* its request
  res,       \* the answer
  byServer,  \* it was given by ModbusServer
  err,       \* the error the operation returned with
  count      \* how many values it returned or wrote

vars == <<unitId, op, stage, req, res, byServer, err, count>>

-----------------------------------------------------------------------------
(* Requests.                                                               *)

\* The size of a slice of n values in bytes, an odd byte padded.
ValueBytes(o) == IF o.width = 1 THEN o.n + (o.n % 2) ELSE o.n * o.width

\* Mutant: the byte before an odd end is forgotten.
Registers_RoundsDown(o) ==
  IF o.fc \in RegisterReads THEN ((o.n * o.width) \div 2) % 65536
                            ELSE (ValueBytes(o) % 65536) \div 2

\* How many registers: a read multiplies in 16 bits, a write cuts the length of
\* its payload to 16 bits before it halves it.
Registers(o) ==
  IF o.fc \in RegisterReads THEN (ValueBytes(o) \div 2) % 65536
                            ELSE (ValueBytes(o) % 65536) \div 2

\* The quantity or value field of the request.
Field(o) ==
  CASE o.fc \in RegisterReads \cup {WriteMultipleRegisters} -> Registers(o)
    [] o.fc = WriteSingleCoil -> IF o.n = 0 THEN 0 ELSE 65280
    [] OTHER -> o.n % 65536

\* How many bytes of values follow the byte count of a multiple write.
DataBytes(o) == IF o.fc = WriteMultipleCoils THEN BytesFor(o.fc, o.n) ELSE ValueBytes(o)

\* uint32(addr)+uint32(quantity)-1 > 0xffff: true of 0 + 0 - 1, too.
PastEnd(o) == o.addr + Field(o) - 1 < 0 \/ o.addr + Field(o) - 1 > 65535

\* Mutant: the limits on multiple writes are not checked.
QuantityRefused_NoLimit(o) ==
  \/ o.fc \in BitReads /\ (Field(o) = 0 \/ Field(o) > 2000)
  \/ o.fc \in MultipleWrites /\ Field(o) = 0

\* The quantities that are refused.  readRegisters only logs that a quantity is
\* 0 or above 123, and goes on.
QuantityRefused(o) ==
  \/ o.fc \in BitReads /\ (Field(o) = 0 \/ Field(o) > 2000)
  \/ o.fc = WriteMultipleCoils /\ (Field(o) = 0 \/ Field(o) > 1968)
  \/ o.fc = WriteMultipleRegisters /\ (Field(o) = 0 \/ Field(o) > 123)

Refused(o) == o.fc \notin SingleWrites /\ (QuantityRefused(o) \/ PastEnd(o))

\* The frame; byte count and MBAP length are cut to their widths.
Request(o, unit) ==
  [txn |-> 0, proto |-> 0, unit |-> unit, fc |-> o.fc, addr |-> o.addr, value |-> Field(o),
   length |-> IF o.fc \in MultipleWrites THEN (7 + DataBytes(o)) % 65536 ELSE 6,
   count |-> IF o.fc \in MultipleWrites THEN DataBytes(o) % 256 ELSE 0]

-----------------------------------------------------------------------------
(* Answers.                                                                *)

\* mapExceptionCodeToError.
ExceptionError(code) ==
  CASE code = 1 -> "ErrIllegalFunction"
    [] code = 2 -> "ErrIllegalDataAddress"
    [] code = 3 -> "ErrIllegalDataValue"
    [] code = 4 -> "ErrServerDeviceFailure"
    [] code = 5 -> "ErrAcknowledge"
    [] code = 6 -> "ErrServerDeviceBusy"
    [] code = 8 -> "ErrMemoryParityError"
    [] code = 10 -> "ErrGWPathUnavailable"
    [] code = 11 -> "ErrGWTargetFailedToRespond"
    [] OTHER -> "unknown exception code"

\* executeRequest: gateways may report errors as unit 255.
UnitMatches(q, r) == r.unit = q.unit \/ (r.fc >= 128 /\ r.unit = 255)

\* Mutant: that a coil was switched on is not looked for in the echo.
SameValue_CoilUnseen(q, r) == IF q.fc = WriteSingleCoil THEN r.value % 256 = 0
                                                        ELSE r.value = q.value

\* The value echoed to a write; of a coil that is switched off only the second
\* byte is compared.
SameValue(q, r) == IF q.fc = WriteSingleCoil
                   THEN /\ q.value = 65280 => r.value \div 256 = 255
                        /\ r.value % 256 = 0
                   ELSE r.value = q.value

Echoes(q, r) == r.payload = 4 /\ r.addr = q.addr /\ SameValue(q, r)

\* Mutant: the byte count is not counted into the payload.
Delivers_NoCountByte(q, r) == /\ r.payload = BytesFor(q.fc, q.value)
                              /\ r.count = BytesFor(q.fc, q.value)

\* A read is answered with as many bytes as its values take.
Delivers(q, r) == /\ r.payload = 1 + BytesFor(q.fc, q.value)
                  /\ r.count = BytesFor(q.fc, q.value)

Confirms(q, r) == IF q.fc \in BitReads \cup RegisterReads THEN Delivers(q, r)
                                                         ELSE Echoes(q, r)

\* What an operation returns for answer r to its request q.
Outcome(q, r) ==
  IF ~UnitMatches(q, r) THEN "ErrBadUnitId"
  ELSE IF r.fc = q.fc /\ Confirms(q, r) THEN "nil"
  ELSE IF r.fc = q.fc + 128 /\ r.payload = 1 THEN ExceptionError(r.count)
  ELSE "ErrProtocolError"

\* How many values request q returned to operation o or had written for it.
Values(o, q) ==
  CASE o.fc \in SingleWrites -> 1
    [] o.fc \in RegisterReads \cup {WriteMultipleRegisters} ->
         IF o.width = 1 THEN 2 * q.value - (o.n % 2) ELSE (2 * q.value) \div o.width
    [] OTHER -> q.value

-----------------------------------------------------------------------------
NoRequest == [txn |-> 0, proto |-> 0, length |-> 0, unit |-> 0, fc |-> 0, addr |-> 0,
              value |-> 0, count |-> 0]
NoAnswer == [unit |-> 0, fc |-> 0, payload |-> 0, addr |-> 0, value |-> 0, count |-> 0]

TypeOK == /\ unitId \in Byte
          /\ op \in Ops \cup {NoOp}
          /\ stage \in {"idle", "sent", "answered", "returned"}
          /\ req \in FrameType
          /\ res \in PduType
          /\ byServer \in BOOLEAN
          /\ count \in Nat

Init == /\ unitId = 1
        /\ op = NoOp /\ stage = "idle"
        /\ req = NoRequest /\ res = NoAnswer /\ byServer = FALSE
        /\ err = "none" /\ count = 0

SetUnitId(id) ==
  /\ stage = "idle"
  /\ unitId' = id
  /\ UNCHANGED <<op, stage, req, res, byServer, err, count>>

\* The operation ends with error e.
Fails(e) == /\ stage' = "returned" /\ err' = e
            /\ UNCHANGED <<unitId, req, res, byServer, count>>

\* The checks refuse the operation: nothing is sent.
Refuse(o) ==
  /\ stage = "idle"
  /\ Refused(o)
  /\ op' = o
  /\ Fails("ErrUnexpectedParameters")

Send(o) ==
  /\ stage = "idle"
  /\ ~Refused(o)
  /\ op' = o
  /\ req' = Request(o, unitId)
  /\ stage' = "sent"
  /\ UNCHANGED <<unitId, res, byServer, err, count>>

Accepted(q) == LengthLegal(q) /\ Verdict(q) # "ErrProtocolError"

\* ModbusServer answers; its handler may return an error.
ServerAnswers(handlerErr) ==
  /\ stage = "sent"
  /\ Accepted(req)
  /\ res' = IF Verdict(req) # "nil" THEN Negative(req, Verdict(req))
            ELSE IF handlerErr # "nil" THEN Negative(req, handlerErr)
            ELSE Positive(req)
  /\ byServer' = TRUE
  /\ stage' = "answered"
  /\ UNCHANGED <<unitId, op, req, err, count>>

\* ModbusServer closes the link on a protocol error.
ServerHangsUp ==
  /\ stage = "sent"
  /\ ~Accepted(req)
  /\ Fails("ioError")
  /\ UNCHANGED op

\* Another device answers, properly but for at most one field.
DeviceAnswers ==
  /\ stage = "sent"
  /\ \E r \in {Positive(req), Negative(req, "ErrServerDeviceBusy")} :
       \/ res' = r
       \/ \E x \in {0, 255} : res' = [r EXCEPT !.unit = x]
       \/ res' = [r EXCEPT !.fc = (@ + 1) % 256]
       \/ \E x \in {0, 1, 4, r.payload + 1} : res' = [r EXCEPT !.payload = x]
       \/ \E x \in {1, 255} : res' = [r EXCEPT !.count = (@ + x) % 256]
       \/ res' = [r EXCEPT !.addr = (@ + 1) % 65536]
       \/ \E x \in {1, 256, 65280} : res' = [r EXCEPT !.value = (@ + x) % 65536]
  /\ stage' = "answered"
  /\ UNCHANGED <<unitId, op, req, byServer, err, count>>

\* The transport fails: a timeout, a closed connection, a broken frame.
TransportFails ==
  /\ stage = "sent"
  /\ Fails("ioError")
  /\ UNCHANGED op

\* Mutant: the answer's function code is all that is looked at.
Return_AnyAnswer ==
  /\ stage = "answered"
  /\ err' = IF res.fc = req.fc THEN "nil" ELSE "ErrProtocolError"
  /\ count' = IF res.fc = req.fc THEN Values(op, req) ELSE 0
  /\ stage' = "returned"
  /\ UNCHANGED <<unitId, op, req, res, byServer>>

Return ==
  /\ stage = "answered"
  /\ err' = Outcome(req, res)
  /\ count' = IF Outcome(req, res) = "nil" THEN Values(op, req) ELSE 0
  /\ stage' = "returned"
  /\ UNCHANGED <<unitId, op, req, res, byServer>>

\* The caller has the result; what the operation knew is gone.
Finish ==
  /\ stage = "returned"
  /\ op' = NoOp /\ stage' = "idle"
  /\ req' = NoRequest /\ res' = NoAnswer /\ byServer' = FALSE
  /\ err' = "none" /\ count' = 0
  /\ UNCHANGED unitId

HandlerErrors == {"nil", "ErrIllegalDataValue", "ErrServerDeviceBusy", "other"}

Next == \/ \E id \in Units : SetUnitId(id)
        \/ \E o \in Ops : Refuse(o) \/ Send(o)
        \/ \E e \in HandlerErrors : ServerAnswers(e)
        \/ ServerHangsUp \/ DeviceAnswers \/ TransportFails \/ Return \/ Finish

Spec == Init /\ [][Next]_vars

-----------------------------------------------------------------------------
(* Properties.                                                             *)

\* The sizes of an operation fit the 16 bits they are computed in.
FitsUInt16(o) == /\ o.n <= 65535 /\ ValueBytes(o) <= 131070
                 /\ o.fc = WriteMultipleRegisters => ValueBytes(o) <= 65535

\* Whatever passes the client's checks passes the server's: limits, addresses,
\* byte counts and frame lengths of the two files agree (client.go:630-646 with
\* server.go:527-551, client.go:1112-1128 with server.go:708-729).  The register
\* reads of a quantity readRegisters complains of but sends are set apart.
SentIsAccepted ==
  stage = "sent" /\ FitsUInt16(op) /\ (op.fc \in RegisterReads => req.value \in 1..123)
    => LengthLegal(req) /\ Verdict(req) = "nil"

\* What an operation returns for an answer it does not take for one.
Misunderstood == {"ErrProtocolError", "ErrBadUnitId", "unknown exception code"}

\* An answer of ModbusServer never looks like a broken one to ModbusClient: it
\* returns no error, or one the server has an exception code for.
ServerIsUnderstood ==
  stage = "returned" /\ byServer => err \notin Misunderstood

\* An operation that returns no error has returned or written as many values as
\* it was asked for, through every conversion of values to registers to bytes.
SuccessIsComplete ==
  stage = "returned" /\ err = "nil" /\ FitsUInt16(op) =>
    count = IF op.fc \in SingleWrites THEN 1 ELSE op.n

\* A coil is to be switched off: line 597 then takes any first byte of the echoed value.
SwitchesOff(q) == q.fc = WriteSingleCoil /\ q.value = 0

\* No answer but the proper one makes an operation succeed: it comes from the
\* unit addressed, is of the function asked for and of the size of the values, or
\* repeats address and value of the write (client.go:589-601, 673-682, 727-736,
\* 971-990, 1063-1080, 1153-1163).  Only of a coil switched off the value may be
\* another one, whose second byte is 0.
SuccessIsConfirmed ==
  stage = "returned" /\ err = "nil" =>
    /\ res.unit = req.unit /\ res.fc = req.fc
    /\ res.payload = Positive(req).payload
    /\ IF req.fc \in SingleWrites \cup MultipleWrites
       THEN /\ res.addr = req.addr
            /\ IF SwitchesOff(req) THEN res.value % 256 = 0 ELSE res.value = req.value
       ELSE res.count = Positive(req).count

(* The inductive invariant.                                                *)
CInv == /\ TypeOK
        /\ stage \in {"sent", "answered"} =>
             op \in Ops /\ ~Refused(op) /\ req = Request(op, req.unit)
        /\ stage = "returned" /\ err = "nil" =>
             /\ op \in Ops /\ ~Refused(op) /\ req = Request(op, req.unit)
             /\ Outcome(req, res) = "nil"
             /\ count = Values(op, req)
        /\ byServer => stage \in {"answered", "returned"}
        /\ stage = "answered" /\ byServer => Outcome(req, res) \notin Misunderstood
        /\ ServerIsUnderstood

-----------------------------------------------------------------------------
(* What the code's own messages and comments say and it does not do.       *)

\* client.go:490: "read 4 * quantity uint16 registers", client.go:1120: "quantity of
\* registers exceeds 123": an operation that succeeds has read or written all the
\* values it was asked for.
OperationsComplete ==
  stage = "returned" /\ err = "nil" /\ op.fc \in RegisterReads \cup {WriteMultipleRegisters} =>
    count = op.n

=============================================================================
