----------------------------- MODULE ModbusPdu -----------------------------
(***************************************************************************)
(* Modbus requests and responses as the server and the client see them,    *)
(* and how the server validates, refuses and answers a request (server.go, *)
(* tcp_transport.go, modbus.go).                                           *)
(*                                                                         *)
(* A frame is its MBAP header and the fields of its PDU: function code,    *)
(* address, the 16-bit field after it (a quantity or a value), the byte    *)
(* count field.  Coil and register values are left out.  length is the     *)
(* MBAP length: unit id, function code and payload.                        *)
(***************************************************************************)
EXTENDS Integers

Byte == 0..255
MaxUInt16 == 65535
UInt16 == 0..MaxUInt16
FrameType == [txn : UInt16, proto : UInt16, length : UInt16, unit : Byte,
              fc : Byte, addr : UInt16, value : UInt16, count : Byte]

\* Function codes (modbus.go:21-34).
ReadCoils == 1
ReadDiscreteInputs == 2
ReadHoldingRegisters == 3
ReadInputRegisters == 4
WriteSingleCoil == 5
WriteSingleRegister == 6
WriteMultipleCoils == 15
WriteMultipleRegisters == 16

BitReads == {ReadCoils, ReadDiscreteInputs}
RegisterReads == {ReadHoldingRegisters, ReadInputRegisters}
SingleWrites == {WriteSingleCoil, WriteSingleRegister}
MultipleWrites == {WriteMultipleCoils, WriteMultipleRegisters}
Supported == BitReads \cup RegisterReads \cup SingleWrites \cup MultipleWrites

maxTCPFrameLength == 260
mbapHeaderLength == 7

-----------------------------------------------------------------------------
(* Decoding and validation.                                                *)

Payload(f) == f.length - 2

\* readMBAPFrame reads the PDU only if the frame is neither empty nor too long.
LengthLegal(f) == /\ f.length - 1 + mbapHeaderLength <= maxTCPFrameLength
                  /\ f.length > 1

\* Mutant: registers are limited like coils.
Limit_CoilsForAll(fc) == IF fc \in BitReads \cup RegisterReads THEN 2000 ELSE 1968

\* The most coils or registers a request may name.
Limit(fc) == CASE fc \in BitReads -> 2000
               [] fc = WriteMultipleCoils -> 1968
               [] fc \in RegisterReads -> 125
               [] OTHER -> 123

\* How many bytes the values of q coils or registers take.
BytesFor(fc, q) == IF fc \in BitReads \cup {WriteMultipleCoils}
                   THEN q \div 8 + (IF q % 8 = 0 THEN 0 ELSE 1)
                   ELSE 2 * q

QuantityLegal(f) == f.value \in 1..Limit(f.fc)
AddressLegal(f) == f.addr + f.value - 1 <= 65535

\* Mutant: the payload's own length is not looked at.
ValuesWhole_CountOnly(f) == f.count = BytesFor(f.fc, f.value) % 256

\* The byte count is compared as the uint8 it is sent as.
ValuesWhole(f) == /\ f.count = BytesFor(f.fc, f.value) % 256
                  /\ Payload(f) - 5 = BytesFor(f.fc, f.value)

\* The checks made before the address is looked at.
Malformed(f) ==
  \/ f.fc \in BitReads \cup RegisterReads \cup SingleWrites /\ Payload(f) # 4
  \/ f.fc \in MultipleWrites /\ Payload(f) < 6
  \/ f.fc = WriteSingleCoil /\ f.value \notin {0, 65280}
  \/ f.fc \notin SingleWrites /\ ~QuantityLegal(f)

\* What the checks of the function code's case come to, in their order.
Verdict(f) ==
  IF f.fc \notin Supported THEN "ErrIllegalFunction"
  ELSE IF Malformed(f) THEN "ErrProtocolError"
  ELSE IF f.fc \notin SingleWrites /\ ~AddressLegal(f) THEN "ErrIllegalDataAddress"
  ELSE IF f.fc \in MultipleWrites /\ ~ValuesWhole(f) THEN "ErrProtocolError"
  ELSE "nil"

-----------------------------------------------------------------------------
(* Responses.                                                              *)

\* A PDU with the length of its payload and the fields the program looks at; an
\* exception code stands in the place of the byte count.
PduType == [unit : Byte, fc : Byte, payload : Nat, addr : UInt16, value : UInt16,
            count : Byte]

\* A response that goes into one frame and whose byte count says its size.
Fits(r) == /\ r.payload \in 1..251
           /\ r.fc \in BitReads \cup RegisterReads => r.count = r.payload - 1

\* mapErrorToExceptionCode; everything it does not list is a device failure.
ExceptionCode(err) ==
  CASE err = "ErrIllegalFunction" -> 1
    [] err = "ErrIllegalDataAddress" -> 2
    [] err = "ErrIllegalDataValue" -> 3
    [] err = "ErrAcknowledge" -> 5
    [] err = "ErrServerDeviceBusy" -> 6
    [] err = "ErrMemoryParityError" -> 8
    [] err = "ErrGWPathUnavailable" -> 10
    [] err = "ErrGWTargetFailedToRespond" -> 11
    [] OTHER -> 4

Negative(f, err) ==
  [unit |-> f.unit, fc |-> IF f.fc >= 128 THEN f.fc ELSE f.fc + 128,
   payload |-> 1, addr |-> 0, value |-> 0, count |-> ExceptionCode(err)]

\* A read is answered with a byte count and the values, a write with an echo of
\* its address and value or quantity.
Positive(f) ==
  IF f.fc \in BitReads \cup RegisterReads
  THEN [unit |-> f.unit, fc |-> f.fc, payload |-> 1 + BytesFor(f.fc, f.value),
        addr |-> 0, value |-> 0, count |-> BytesFor(f.fc, f.value) % 256]
  ELSE [unit |-> f.unit, fc |-> f.fc, payload |-> 4,
        addr |-> f.addr, value |-> f.value, count |-> 0]

\* assembleMBAPFrame: the length is cut to 16 bits.
Assemble(txn, p) ==
  [txn |-> txn, proto |-> 0, length |-> (2 + p.payload) % 65536, unit |-> p.unit,
   fc |-> p.fc, addr |-> p.addr, value |-> p.value, count |-> p.count]

=============================================================================
