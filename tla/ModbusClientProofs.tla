------------------------- MODULE ModbusClientProofs -------------------------
(* Proofs about ModbusClient for every set of operations and every answer.  *)
EXTENDS ModbusClient, ModbusPduProofs

\* The fields of an operation.
LEMMA OpFields ==
  ASSUME NEW o \in Ops
  PROVE  /\ o.fc \in Supported /\ o.addr \in UInt16 /\ o.n \in Nat
         /\ o.width \in {1, 2, 4, 8}
         /\ o.fc \in RegisterReads => o.n <= 65535
BY OpsAssumption DEF OpType

\* A 16-bit value is a natural number that the 16 bits hold.
LEMMA UInt16Values ==
  /\ \A x : x \in UInt16 <=> x \in Nat /\ x <= 65535
  /\ \A x \in Nat : x % 65536 \in UInt16
  /\ \A x \in Nat : x % 256 \in Byte
<1>1. \A x : x \in UInt16 <=> x \in Nat /\ x <= 65535
  <2>1. MaxUInt16 = 65535
    BY DEF MaxUInt16
  <2>2. MaxUInt16 \in Nat
    BY <2>1
  <2>3. \A x : x \in UInt16 <=> x \in Nat /\ x <= MaxUInt16
    BY <2>2 DEF UInt16
  <2>4. QED BY <2>1, <2>3
<1>2. \A x \in Nat : x % 65536 \in Nat /\ x % 65536 <= 65535
  OBVIOUS
<1>3. \A x \in Nat : x % 256 \in Byte
  BY DEF Byte
<1>4. QED BY <1>1, <1>2, <1>3

\* The slice of an operation fills whole registers (client.go:880, 904).
LEMMA ValueBytesEven ==
  ASSUME NEW o \in Ops
  PROVE  /\ ValueBytes(o) \in Nat
         /\ ValueBytes(o) = 2 * (ValueBytes(o) \div 2)
         /\ o.width = 1 => ValueBytes(o) = o.n + (o.n % 2)
         /\ o.width = 2 => ValueBytes(o) = o.n * 2
         /\ o.width = 4 => ValueBytes(o) = o.n * 4
         /\ o.width = 8 => ValueBytes(o) = o.n * 8
BY OpFields DEF ValueBytes

\* The registers of an operation are counted in 16 bits.
LEMMA RegistersType ==
  ASSUME NEW o \in Ops
  PROVE  Registers(o) \in UInt16
<1>1. ValueBytes(o) \in Nat
  BY ValueBytesEven
<1>2. ValueBytes(o) \div 2 \in Nat
  BY <1>1
<1>3. (ValueBytes(o) % 65536) \div 2 \in Nat /\ (ValueBytes(o) % 65536) \div 2 <= 65535
  BY <1>1
<1>4. QED BY <1>2, <1>3, UInt16Values DEF Registers

\* So is every value or quantity that goes into a request.
LEMMA FieldType ==
  ASSUME NEW o \in Ops
  PROVE  Field(o) \in UInt16
<1>1. Registers(o) \in UInt16
  BY RegistersType
<1>2. 0 \in UInt16 /\ 65280 \in UInt16
  BY UInt16Values
<1>3. o.n % 65536 \in UInt16
  BY OpFields, UInt16Values
<1>4. QED BY <1>1, <1>2, <1>3 DEF Field

\* The values of a multiple write.
LEMMA DataBytesType ==
  ASSUME NEW o \in Ops
  PROVE  DataBytes(o) \in Nat
<1>1. BytesFor(o.fc, o.n) \in Nat
  BY OpFields DEF BytesFor
<1>2. QED BY <1>1, ValueBytesEven DEF DataBytes

\* A request is a frame, whatever the operation.
LEMMA RequestType ==
  ASSUME NEW o \in Ops, NEW unit \in Byte
  PROVE  Request(o, unit) \in FrameType
<1>1. /\ o.fc \in Byte /\ o.addr \in UInt16 /\ Field(o) \in UInt16
  <2>1. o.fc \in Byte
    BY OpFields DEF Supported, BitReads, RegisterReads, SingleWrites, MultipleWrites,
       ReadCoils, ReadDiscreteInputs, ReadHoldingRegisters, ReadInputRegisters,
       WriteSingleCoil, WriteSingleRegister, WriteMultipleCoils, WriteMultipleRegisters, Byte
  <2>2. QED BY <2>1, OpFields, FieldType
<1>2. 7 + DataBytes(o) \in Nat /\ DataBytes(o) \in Nat
  BY DataBytesType
<1>3. (7 + DataBytes(o)) % 65536 \in UInt16 /\ DataBytes(o) % 256 \in Byte
  BY <1>2, UInt16Values
<1>4. 6 \in UInt16 /\ 0 \in UInt16 /\ 0 \in Byte
  BY UInt16Values, ZeroFits
<1>5. (IF o.fc \in MultipleWrites THEN (7 + DataBytes(o)) % 65536 ELSE 6) \in UInt16
  BY <1>3, <1>4
<1>6. (IF o.fc \in MultipleWrites THEN DataBytes(o) % 256 ELSE 0) \in Byte
  BY <1>3, <1>4
<1>7. QED BY <1>1, <1>4, <1>5, <1>6 DEF Request, FrameType

\* The server's limits (server.go:410, 527, 595, 708).
LEMMA Limits ==
  /\ \A fc \in BitReads : Limit(fc) = 2000
  /\ \A fc \in RegisterReads : Limit(fc) = 125
  /\ Limit(WriteMultipleCoils) = 1968
  /\ Limit(WriteMultipleRegisters) = 123
BY DEF Limit, BitReads, RegisterReads, ReadCoils, ReadDiscreteInputs, ReadHoldingRegisters,
       ReadInputRegisters, WriteMultipleCoils, WriteMultipleRegisters

\* What an operation that passes the client's checks asks for passes the server's
\* (client.go:630-646, 925-947, 1109-1128; server.go:399-551, 662-729).
LEMMA RequestAccepted ==
  ASSUME NEW o \in Ops, NEW unit \in Byte, ~Refused(o), FitsUInt16(o),
         o.fc \in RegisterReads => Field(o) \in 1..123
  PROVE  LengthLegal(Request(o, unit)) /\ Verdict(Request(o, unit)) = "nil"
<1> DEFINE q == Request(o, unit)
<1> USE DEF ReadCoils, ReadDiscreteInputs, ReadHoldingRegisters, ReadInputRegisters,
            WriteSingleCoil, WriteSingleRegister, WriteMultipleCoils, WriteMultipleRegisters
<1>1. q.fc = o.fc /\ q.value = Field(o) /\ q.addr = o.addr
  BY DEF Request
<1>2. o.fc \notin SingleWrites => AddressLegal(q)
  <2>1. Field(o) \in Int /\ o.addr \in Int
    BY FieldType, OpFields, UInt16Values
  <2>2. o.fc \notin SingleWrites => ~PastEnd(o)
    BY DEF Refused
  <2>3. o.fc \notin SingleWrites => o.addr + Field(o) - 1 <= 65535
    BY <2>1, <2>2 DEF PastEnd
  <2>4. QED BY <1>1, <2>3 DEF AddressLegal
<1>3. CASE o.fc \in BitReads \cup RegisterReads
  <2>1. q.length = 6 /\ o.fc \notin SingleWrites /\ o.fc \notin MultipleWrites
    BY <1>3 DEF Request, BitReads, RegisterReads, SingleWrites, MultipleWrites
  <2>2. QuantityLegal(q)
    <3>2. CASE o.fc \in BitReads
      <4>1. Limit(o.fc) = 2000
        BY <3>2, Limits
      <4>2. ~QuantityRefused(o)
        BY <2>1 DEF Refused
      <4>3. Field(o) # 0 /\ Field(o) <= 2000
        <5>1. ~(Field(o) = 0 \/ Field(o) > 2000)
          BY <3>2, <4>2 DEF QuantityRefused
        <5>2. Field(o) \in Nat
          BY FieldType, UInt16Values
        <5>3. QED BY <5>1, <5>2
      <4>4. Field(o) \in 1..Limit(o.fc)
        <5>1. Field(o) \in Nat /\ Limit(o.fc) \in Nat /\ Field(o) <= Limit(o.fc)
          BY <4>1, <4>3, FieldType, UInt16Values
        <5>2. QED BY <4>3, <5>1
      <4>5. QED BY <1>1, <4>4 DEF QuantityLegal
    <3>3. CASE o.fc \in RegisterReads
      <4>1. Limit(o.fc) = 125
        BY <3>3, Limits
      <4>2. Field(o) \in 1..123
        BY <3>3
      <4>3. QED BY <1>1, <4>1, <4>2 DEF QuantityLegal
    <3>4. QED BY <1>3, <3>2, <3>3
  <2>3. LengthLegal(q) /\ Payload(q) = 4
    BY <2>1 DEF LengthLegal, Payload, mbapHeaderLength, maxTCPFrameLength
  <2>4. ~Malformed(q)
    BY <1>1, <1>3, <2>1, <2>2, <2>3 DEF Malformed, BitReads, RegisterReads, MultipleWrites
  <2>5. Verdict(q) = "nil"
    BY <1>1, <1>2, <1>3, <2>1, <2>4 DEF Verdict, Supported
  <2>6. QED BY <2>3, <2>5
<1>4. CASE o.fc \in SingleWrites
  <2>1. q.length = 6 /\ o.fc \notin MultipleWrites /\ o.fc \notin BitReads \cup RegisterReads
    BY <1>4 DEF Request, BitReads, RegisterReads, SingleWrites, MultipleWrites
  <2>2. LengthLegal(q) /\ Payload(q) = 4
    BY <2>1 DEF LengthLegal, Payload, mbapHeaderLength, maxTCPFrameLength
  <2>3. o.fc = WriteSingleCoil => q.value \in {0, 65280}
    BY <1>1 DEF Field, RegisterReads
  <2>4. ~Malformed(q)
    BY <1>1, <1>4, <2>1, <2>2, <2>3 DEF Malformed
  <2>5. Verdict(q) = "nil"
    BY <1>1, <1>4, <2>1, <2>4 DEF Verdict, Supported
  <2>6. QED BY <2>2, <2>5
<1>5. CASE o.fc \in MultipleWrites
  <2>1. /\ o.fc \notin SingleWrites /\ o.fc \notin BitReads \cup RegisterReads
        /\ q.length = (7 + DataBytes(o)) % 65536 /\ q.count = DataBytes(o) % 256
    BY <1>5 DEF Request, BitReads, RegisterReads, SingleWrites, MultipleWrites
  <2>2. DataBytes(o) = BytesFor(o.fc, Field(o)) /\ DataBytes(o) \in 1..246 /\ QuantityLegal(q)
    <3>1. CASE o.fc = WriteMultipleCoils
      <4>1. Field(o) = o.n /\ Field(o) \in Nat /\ Field(o) # 0 /\ Field(o) <= 1968
        <5>1. Field(o) = o.n % 65536 /\ ~(Field(o) = 0 \/ Field(o) > 1968)
          BY <2>1, <3>1 DEF Field, Refused, QuantityRefused, BitReads, RegisterReads
        <5>2. o.n \in Nat /\ o.n <= 65535
          BY OpFields DEF FitsUInt16
        <5>3. QED BY <5>1, <5>2
      <4>2. DataBytes(o) = BytesFor(o.fc, Field(o))
        BY <3>1, <4>1 DEF DataBytes
      <4>3. BytesFor(o.fc, Field(o)) \in 1..246
        <5>1. BytesFor(o.fc, Field(o)) =
                Field(o) \div 8 + (IF Field(o) % 8 = 0 THEN 0 ELSE 1)
          BY <3>1 DEF BytesFor
        <5>2. QED BY <4>1, <5>1
      <4>4. Limit(o.fc) = 1968
        BY <3>1, Limits
      <4>5. Field(o) \in 1..Limit(o.fc)
        <5>1. Limit(o.fc) \in Nat /\ Field(o) <= Limit(o.fc)
          BY <4>1, <4>4
        <5>2. QED BY <4>1, <5>1
      <4>6. QED BY <1>1, <4>2, <4>3, <4>5 DEF QuantityLegal
    <3>2. CASE o.fc = WriteMultipleRegisters
      <4>1. Field(o) = Registers(o) /\ Field(o) \in 1..123
        <5>1. Field(o) = Registers(o) /\ ~(Field(o) = 0 \/ Field(o) > 123)
          BY <2>1, <3>2 DEF Field, Refused, QuantityRefused, BitReads, RegisterReads
        <5>2. Field(o) \in Nat
          BY FieldType, UInt16Values
        <5>3. QED BY <5>1, <5>2
      <4>2. Registers(o) = ValueBytes(o) \div 2
        <5>1. ValueBytes(o) \in Nat /\ ValueBytes(o) <= 65535
          BY <3>2, ValueBytesEven DEF FitsUInt16
        <5>2. Registers(o) = (ValueBytes(o) % 65536) \div 2
          BY <3>2 DEF Registers, RegisterReads
        <5>3. ValueBytes(o) % 65536 = ValueBytes(o)
          BY <5>1
        <5>4. QED BY <5>2, <5>3
      <4>3. ValueBytes(o) = 2 * Field(o)
        BY <4>1, <4>2, ValueBytesEven
      <4>4. DataBytes(o) = ValueBytes(o) /\ BytesFor(o.fc, Field(o)) = 2 * Field(o)
        BY <3>2 DEF DataBytes, BytesFor, BitReads
      <4>5. Limit(o.fc) = 123
        BY <3>2, Limits
      <4>6. QED BY <1>1, <4>1, <4>3, <4>4, <4>5 DEF QuantityLegal
    <3>3. QED BY <1>5, <3>1, <3>2 DEF MultipleWrites
  <2>3. q.length = 7 + DataBytes(o)
    BY <2>1, <2>2
  <2>4. LengthLegal(q) /\ Payload(q) = 5 + DataBytes(o)
    BY <2>2, <2>3 DEF LengthLegal, Payload, mbapHeaderLength, maxTCPFrameLength
  <2>5. ValuesWhole(q)
    BY <1>1, <2>1, <2>2, <2>4 DEF ValuesWhole
  <2>6. ~Malformed(q)
    BY <1>1, <1>5, <2>1, <2>2, <2>4 DEF Malformed, SingleWrites
  <2>7. Verdict(q) = "nil"
    BY <1>1, <1>2, <1>5, <2>1, <2>5, <2>6 DEF Verdict, Supported
  <2>8. QED BY <2>4, <2>7
<1>6. QED
  BY <1>3, <1>4, <1>5, OpFields DEF Supported

\* An operation succeeds on no answer but one of the addressed unit that
\* confirms its request: an exception never maps to nil (modbus.go:76-101).
LEMMA NilOutcome ==
  ASSUME NEW q \in FrameType, NEW r, Outcome(q, r) = "nil"
  PROVE  UnitMatches(q, r) /\ r.fc = q.fc /\ Confirms(q, r)
<1>1. \A code : ExceptionError(code) # "nil"
  BY DEF ExceptionError
<1>2. QED BY <1>1 DEF Outcome

\* The number of values is a natural number.
LEMMA ValuesType ==
  ASSUME NEW o \in Ops, NEW q \in FrameType, q.value = Field(o), ~Refused(o)
  PROVE  Values(o, q) \in Nat
<1>1. Field(o) \in Nat /\ o.n \in Nat
  BY FieldType, UInt16Values, OpFields
<1>2. ASSUME o.fc \in RegisterReads \cup {WriteMultipleRegisters}, o.width = 1
      PROVE  2 * Field(o) - (o.n % 2) \in Nat
  <2>1. Field(o) = Registers(o)
    BY <1>2 DEF Field, RegisterReads, ReadHoldingRegisters, ReadInputRegisters,
                WriteSingleCoil, WriteMultipleRegisters
  <2>2. CASE o.fc \in RegisterReads
    <3>1. o.n <= 65535 /\ ValueBytes(o) = o.n + (o.n % 2)
      BY <1>2, <2>2, OpFields, ValueBytesEven
    <3>2. Field(o) = ((o.n + (o.n % 2)) \div 2) % 65536
      BY <2>1, <2>2, <3>1 DEF Registers
    <3>3. (o.n + (o.n % 2)) \div 2 \in Nat /\ (o.n + (o.n % 2)) \div 2 <= 65535
      BY <1>1, <3>1
    <3>4. Field(o) = (o.n + (o.n % 2)) \div 2
      BY <3>2, <3>3
    <3>5. QED BY <1>1, <3>4
  <2>3. CASE o.fc = WriteMultipleRegisters
    <3>1. ~(Field(o) = 0)
      BY <2>3 DEF Refused, QuantityRefused, SingleWrites, WriteSingleCoil,
                  WriteSingleRegister, WriteMultipleRegisters
    <3>2. QED BY <1>1, <3>1
  <2>4. QED BY <1>2, <2>2, <2>3
<1>3. \A w \in {1, 2, 4, 8} : (2 * Field(o)) \div w \in Nat
  BY <1>1
<1>4. o.width \in {1, 2, 4, 8}
  BY OpFields
<1>5. QED BY <1>1, <1>2, <1>3, <1>4 DEF Values

\* The initial state of a client satisfies the invariant.
LEMMA InitCInv == Init => CInv
<1> SUFFICES ASSUME Init PROVE CInv
  OBVIOUS
<1>1. 1 \in Byte /\ 0 \in Byte /\ 0 \in UInt16
  BY ZeroFits DEF Byte
<1>2. NoRequest \in FrameType /\ NoAnswer \in PduType
  BY <1>1 DEF NoRequest, NoAnswer, FrameType, PduType
<1>3. TypeOK
  BY <1>1, <1>2 DEF Init, TypeOK
<1>4. stage = "idle" /\ byServer = FALSE
  BY DEF Init
<1>5. QED BY <1>3, <1>4 DEF CInv, ServerIsUnderstood

\* The exceptions of the server are those the client knows (modbus.go:76-129),
\* and a positive response passes the client's checks of it.
LEMMA ServerUnderstood ==
  ASSUME NEW q \in FrameType, NEW r, q.fc \in Supported,
         \/ Verdict(q) = "nil" /\ r = Positive(q)
         \/ \E e : r = Negative(q, e) /\ (Verdict(q) = "nil" \/ e = Verdict(q))
  PROVE  Outcome(q, r) \notin Misunderstood
<1>1. r.unit = q.unit
  BY DEF Positive, Negative
<1>2. UnitMatches(q, r)
  BY <1>1 DEF UnitMatches
<1>3. CASE Verdict(q) = "nil" /\ r = Positive(q)
  <2>1. r.fc = q.fc
    BY <1>3 DEF Positive
  <2>2. Confirms(q, r)
    <3>1. CASE q.fc \in BitReads \cup RegisterReads
      <4>1. r.payload = 1 + BytesFor(q.fc, q.value) /\ r.count = BytesFor(q.fc, q.value) % 256
        BY <1>3, <3>1 DEF Positive
      <4>2. r.payload \in 1..251 /\ r.count = r.payload - 1
        BY <1>3, <2>1, <3>1, PositiveFits DEF Fits
      <4>3. BytesFor(q.fc, q.value) \in Int
        <5>1. q.value \in Nat
          BY UInt16Values DEF FrameType
        <5>2. QED BY <5>1 DEF BytesFor
      <4>4. r.count = BytesFor(q.fc, q.value)
        BY <4>1, <4>2, <4>3
      <4>5. QED BY <3>1, <4>1, <4>4 DEF Confirms, Delivers
    <3>2. CASE q.fc \notin BitReads \cup RegisterReads
      <4>1. r.payload = 4 /\ r.addr = q.addr /\ r.value = q.value
        BY <1>3, <3>2 DEF Positive
      <4>2. q.fc = WriteSingleCoil => q.value \in {0, 65280}
        BY <1>3 DEF Verdict, Malformed
      <4>3. SameValue(q, r)
        BY <4>1, <4>2 DEF SameValue
      <4>4. QED BY <3>2, <4>1, <4>3 DEF Confirms, Echoes
    <3>3. QED BY <3>1, <3>2
  <2>3. QED BY <1>2, <2>1, <2>2 DEF Outcome, Misunderstood
<1>4. ASSUME NEW e, r = Negative(q, e), Verdict(q) = "nil" \/ e = Verdict(q)
      PROVE  Outcome(q, r) \notin Misunderstood
  <2>1. r.payload = 1 /\ r.count = ExceptionCode(e)
        /\ r.fc = IF q.fc >= 128 THEN q.fc ELSE q.fc + 128
    BY <1>4 DEF Negative
  <2>2. ExceptionError(r.count) \notin Misunderstood
    BY <2>1 DEF ExceptionCode, ExceptionError, Misunderstood
  <2>3. q.fc \in 1..127
    BY DEF Supported, BitReads, RegisterReads, SingleWrites, MultipleWrites,
       ReadCoils, ReadDiscreteInputs, ReadHoldingRegisters, ReadInputRegisters,
       WriteSingleCoil, WriteSingleRegister, WriteMultipleCoils, WriteMultipleRegisters
  <2>4. r.fc = q.fc + 128 /\ r.fc # q.fc
    BY <2>1, <2>3
  <2>5. Outcome(q, r) = ExceptionError(r.count)
    BY <1>2, <2>1, <2>4 DEF Outcome
  <2>6. QED BY <2>2, <2>5
<1>5. QED BY <1>3, <1>4

\* Whatever a device answers is a response.
LEMMA DeviceAnswerType ==
  ASSUME TypeOK, DeviceAnswers
  PROVE  res' \in PduType
<1> DEFINE Answers == {Positive(req), Negative(req, "ErrServerDeviceBusy")}
<1>1. PICK r \in Answers :
        \/ res' = r
        \/ \E x \in {0, 255} : res' = [r EXCEPT !.unit = x]
        \/ res' = [r EXCEPT !.fc = (@ + 1) % 256]
        \/ \E x \in {0, 1, 4, r.payload + 1} : res' = [r EXCEPT !.payload = x]
        \/ \E x \in {1, 255} : res' = [r EXCEPT !.count = (@ + x) % 256]
        \/ res' = [r EXCEPT !.addr = (@ + 1) % 65536]
        \/ \E x \in {1, 256, 65280} : res' = [r EXCEPT !.value = (@ + x) % 65536]
  BY DEF DeviceAnswers
<1>2. r \in PduType
  BY PositiveType, NegativeFits DEF TypeOK
<1>3. r.fc \in Nat /\ r.count \in Nat /\ r.payload \in Nat
  BY <1>2 DEF PduType, Byte
<1>4. r.addr \in Nat /\ r.value \in Nat
  BY <1>2, UInt16Values DEF PduType
<1>5. /\ (r.fc + 1) % 256 \in Byte
      /\ \A x \in {1, 255} : (r.count + x) % 256 \in Byte
      /\ (r.addr + 1) % 65536 \in UInt16
      /\ \A x \in {1, 256, 65280} : (r.value + x) % 65536 \in UInt16
      /\ \A x \in {0, 1, 4, r.payload + 1} : x \in Nat
      /\ \A x \in {0, 255} : x \in Byte
  <2>1. /\ r.fc + 1 \in Nat /\ r.addr + 1 \in Nat
        /\ \A x \in {1, 255} : r.count + x \in Nat
        /\ \A x \in {1, 256, 65280} : r.value + x \in Nat
    BY <1>3, <1>4
  <2>2. \A x \in {0, 255} : x \in Byte
    BY DEF Byte
  <2>3. QED BY <1>3, <2>1, <2>2, UInt16Values
<1>6. QED BY <1>1, <1>2, <1>5 DEF PduType

\* Between two operations nothing is known of a request.
LEMMA FinishKeepsCInv ==
  ASSUME CInv, Finish PROVE CInv'
<1>1. NoRequest \in FrameType /\ NoAnswer \in PduType
  BY ZeroFits DEF NoRequest, NoAnswer, FrameType, PduType
<1>2. /\ stage' = "idle" /\ op' = NoOp /\ unitId' = unitId /\ count' = 0
      /\ req' = NoRequest /\ res' = NoAnswer
  BY DEF Finish
<1>3. byServer' \in BOOLEAN /\ ~byServer'
  BY DEF Finish
<1>4. TypeOK'
  BY <1>1, <1>2, <1>3 DEF CInv, TypeOK
<1>5. QED BY <1>2, <1>3, <1>4 DEF CInv, ServerIsUnderstood

\* Every step of caller, server, device and client preserves the invariant.
LEMMA CInvStep ==
  ASSUME CInv, [Next]_vars PROVE CInv'
<1> USE OpsAssumption DEF CInv, TypeOK, Fails, ServerIsUnderstood
<1>1. ASSUME NEW id \in Units, SetUnitId(id) PROVE CInv'
  BY <1>1 DEF SetUnitId
<1>2. ASSUME NEW o \in Ops, Refuse(o) PROVE CInv'
  BY <1>2 DEF Refuse
<1>3. ASSUME NEW o \in Ops, Send(o) PROVE CInv'
  <2>1. req' = Request(o, unitId) /\ op' = o /\ stage' = "sent" /\ ~Refused(o)
    BY <1>3 DEF Send
  <2>2. req' \in FrameType
    BY <2>1, RequestType
  <2>3. req'.unit = unitId
    BY <2>1 DEF Request
  <2>4. QED BY <1>3, <2>1, <2>2, <2>3 DEF Send
<1>4. ASSUME NEW e \in HandlerErrors, ServerAnswers(e) PROVE CInv'
  <2>1. \/ res' = Positive(req)
        \/ res' = Negative(req, Verdict(req))
        \/ res' = Negative(req, e)
    BY <1>4 DEF ServerAnswers
  <2>2. res' \in PduType
    BY <2>1, PositiveType, NegativeFits
  <2>3. Outcome(req, res') \notin Misunderstood
    <3>1. req \in FrameType /\ req.fc \in Supported
      <4>1. op \in Ops /\ req = Request(op, req.unit)
        BY <1>4 DEF ServerAnswers
      <4>2. QED BY <4>1, OpFields DEF Request
    <3>2. CASE Verdict(req) # "nil"
      BY <1>4, <3>1, <3>2, ServerUnderstood DEF ServerAnswers
    <3>3. CASE Verdict(req) = "nil"
      BY <1>4, <3>1, <3>3, ServerUnderstood DEF ServerAnswers
    <3>4. QED BY <3>2, <3>3
  <2>4. QED BY <1>4, <2>2, <2>3 DEF ServerAnswers
<1>5. CASE ServerHangsUp
  BY <1>5 DEF ServerHangsUp
<1>6. CASE DeviceAnswers
  BY <1>6, DeviceAnswerType DEF DeviceAnswers
<1>7. CASE TransportFails
  BY <1>7 DEF TransportFails
<1>8. CASE Return
  <2>1. /\ stage = "answered" /\ op \in Ops /\ ~Refused(op) /\ req = Request(op, req.unit)
        /\ op' = op /\ req' = req /\ res' = res /\ err' = Outcome(req, res)
        /\ stage' = "returned" /\ unitId' = unitId /\ byServer' = byServer
    BY <1>8 DEF Return
  <2>2. req.value = Field(op)
    BY <2>1 DEF Request
  <2>3. Values(op, req) \in Nat
    BY <2>1, <2>2, ValuesType
  <2>4. QED BY <1>8, <2>1, <2>3 DEF Return
<1>9. CASE Finish
  BY <1>9, FinishKeepsCInv
<1>10. CASE UNCHANGED vars
  BY <1>10 DEF vars
<1>11. QED
  BY <1>1, <1>2, <1>3, <1>4, <1>5, <1>6, <1>7, <1>8, <1>9, <1>10 DEF Next

\* Every reachable state of a client satisfies the inductive invariant.
THEOREM ClientInvariance == Spec => []CInv
<1>1. CInv /\ [Next]_vars => CInv'
  BY CInvStep
<1>2. QED BY InitCInv, <1>1, PTL DEF Spec

\* Type correctness.
THEOREM ClientTypeCorrect == Spec => []TypeOK
<1>1. CInv => TypeOK
  BY DEF CInv
<1>2. QED BY <1>1, ClientInvariance, PTL

\* Whatever operation of a fitting size the client sends, the server of the same
\* package accepts: the two files' limits agree for all arguments.
THEOREM SentRequestsAreAccepted == Spec => []SentIsAccepted
<1>1. ASSUME CInv PROVE SentIsAccepted
  <2>1. SUFFICES ASSUME stage = "sent", FitsUInt16(op),
                        op.fc \in RegisterReads => req.value \in 1..123
                 PROVE  LengthLegal(req) /\ Verdict(req) = "nil"
    BY DEF SentIsAccepted
  <2>2. op \in Ops /\ ~Refused(op) /\ req = Request(op, req.unit) /\ req \in FrameType
    BY <1>1, <2>1 DEF CInv, TypeOK
  <2>3. req.unit \in Byte
    BY <2>2 DEF FrameType
  <2>4. req.value = Field(op)
    BY <2>2 DEF Request
  <2>5. QED BY <2>1, <2>2, <2>3, <2>4, RequestAccepted
<1>2. QED BY <1>1, ClientInvariance, PTL

\* The client understands every answer of the server.
THEOREM ServerAnswersAreUnderstood == Spec => []ServerIsUnderstood
<1>1. CInv => ServerIsUnderstood
  BY DEF CInv
<1>2. QED BY <1>1, ClientInvariance, PTL

\* Success means the proper answer of the proper unit, with the address and the value
\* of the write (of a coil switched off only the value's second byte), for every answer
\* there is.
THEOREM SuccessMeansConfirmed == Spec => []SuccessIsConfirmed
<1>1. ASSUME CInv PROVE SuccessIsConfirmed
  <2>1. SUFFICES ASSUME stage = "returned", err = "nil"
                 PROVE  /\ res.unit = req.unit /\ res.fc = req.fc
                        /\ res.payload = Positive(req).payload
                        /\ IF req.fc \in SingleWrites \cup MultipleWrites
                           THEN /\ res.addr = req.addr
                                /\ IF SwitchesOff(req) THEN res.value % 256 = 0
                                                       ELSE res.value = req.value
                           ELSE res.count = Positive(req).count
    BY DEF SuccessIsConfirmed
  <2>2. /\ op \in Ops /\ req = Request(op, req.unit) /\ req \in FrameType /\ res \in PduType
        /\ Outcome(req, res) = "nil"
    BY <1>1, <2>1 DEF CInv, TypeOK
  <2>3. UnitMatches(req, res) /\ res.fc = req.fc /\ Confirms(req, res)
    BY <2>2, NilOutcome
  <2>4. req.fc \in Supported
    BY <2>2, OpFields DEF Request
  <2>5. res.unit = req.unit
    <3>1. req.fc \in 1..127
      BY <2>4 DEF Supported, BitReads, RegisterReads, SingleWrites, MultipleWrites,
         ReadCoils, ReadDiscreteInputs, ReadHoldingRegisters, ReadInputRegisters,
         WriteSingleCoil, WriteSingleRegister, WriteMultipleCoils, WriteMultipleRegisters
    <3>2. QED BY <2>3, <3>1 DEF UnitMatches
  <2>6. CASE req.fc \in BitReads \cup RegisterReads
    <3>1. Delivers(req, res)
      BY <2>3, <2>6 DEF Confirms
    <3>2. BytesFor(req.fc, req.value) = res.count /\ res.count \in 0..255
      BY <2>2, <3>1 DEF Delivers, PduType, Byte
    <3>3. Positive(req).payload = 1 + res.count /\ Positive(req).count = res.count % 256
      BY <2>6, <3>2 DEF Positive
    <3>4. res.payload = Positive(req).payload /\ res.count = Positive(req).count
      BY <3>1, <3>2, <3>3 DEF Delivers
    <3>5. req.fc \notin SingleWrites \cup MultipleWrites
      BY <2>6 DEF BitReads, RegisterReads, SingleWrites, MultipleWrites,
         ReadCoils, ReadDiscreteInputs, ReadHoldingRegisters, ReadInputRegisters,
         WriteSingleCoil, WriteSingleRegister, WriteMultipleCoils, WriteMultipleRegisters
    <3>6. QED BY <2>3, <2>5, <3>4, <3>5
  <2>7. CASE req.fc \notin BitReads \cup RegisterReads
    <3>1. Echoes(req, res) /\ Positive(req).payload = 4
      BY <2>3, <2>7 DEF Confirms, Positive
    <3>2. req.fc \in SingleWrites \cup MultipleWrites
      BY <2>4, <2>7 DEF Supported
    <3>3. SameValue(req, res)
      BY <3>1 DEF Echoes
    <3>4. IF SwitchesOff(req) THEN res.value % 256 = 0 ELSE res.value = req.value
      <4>1. CASE req.fc = WriteSingleCoil /\ req.value = 65280
        <5>1. res.value \div 256 = 255 /\ res.value % 256 = 0 /\ res.value \in UInt16
          BY <2>2, <3>3, <4>1 DEF SameValue, PduType
        <5>2. res.value = 65280
          BY <5>1 DEF UInt16
        <5>3. QED BY <4>1, <5>2 DEF SwitchesOff
      <4>2. CASE req.fc = WriteSingleCoil /\ req.value # 65280
        <5>1. req.value = 0
          BY <2>2, <4>2 DEF Request, Field, WriteSingleCoil, WriteMultipleRegisters,
             RegisterReads, ReadHoldingRegisters, ReadInputRegisters
        <5>2. QED BY <3>3, <4>2, <5>1 DEF SameValue, SwitchesOff
      <4>3. CASE req.fc # WriteSingleCoil
        BY <3>3, <4>3 DEF SameValue, SwitchesOff
      <4>4. QED BY <4>1, <4>2, <4>3
    <3>5. QED BY <2>3, <2>5, <3>1, <3>2, <3>4 DEF Echoes
  <2>8. QED BY <2>6, <2>7
<1>2. QED BY <1>1, ClientInvariance, PTL

\* The way from values to registers to a field and back loses nothing, for an
\* operation whose sizes fit 16 bits.
LEMMA ValuesComplete ==
  ASSUME NEW o \in Ops, NEW q, q.value = Field(o), ~Refused(o), FitsUInt16(o)
  PROVE  Values(o, q) = IF o.fc \in SingleWrites THEN 1 ELSE o.n
<1> USE DEF ReadCoils, ReadDiscreteInputs, ReadHoldingRegisters, ReadInputRegisters,
            WriteSingleCoil, WriteSingleRegister, WriteMultipleCoils, WriteMultipleRegisters
<1>1. o.n \in Nat /\ o.n <= 65535 /\ o.fc \in Supported /\ o.width \in {1, 2, 4, 8}
  BY OpFields DEF FitsUInt16
<1>2. CASE o.fc \in SingleWrites
  BY <1>2 DEF Values, SingleWrites, RegisterReads
<1>3. CASE o.fc \in BitReads \cup {WriteMultipleCoils}
  <2>1. Field(o) = o.n % 65536
    BY <1>3 DEF Field, BitReads, RegisterReads
  <2>2. Field(o) = o.n
    BY <1>1, <2>1
  <2>3. Values(o, q) = q.value
    BY <1>3 DEF Values, BitReads, RegisterReads, SingleWrites
  <2>4. QED BY <1>3, <2>2, <2>3 DEF BitReads, SingleWrites
<1>4. CASE o.fc \in RegisterReads \cup {WriteMultipleRegisters}
  <2>1. Field(o) = Registers(o)
    BY <1>4 DEF Field, RegisterReads
  <2>2. Registers(o) = ValueBytes(o) \div 2
    <3>1. ValueBytes(o) \in Nat /\ ValueBytes(o) <= 131070
      BY ValueBytesEven DEF FitsUInt16
    <3>2. ASSUME o.fc \in RegisterReads PROVE Registers(o) = ValueBytes(o) \div 2
      <4>1. Registers(o) = (ValueBytes(o) \div 2) % 65536
        BY <3>2 DEF Registers
      <4>2. ValueBytes(o) \div 2 \in Nat /\ ValueBytes(o) \div 2 <= 65535
        BY <3>1
      <4>3. QED BY <4>1, <4>2
    <3>3. ASSUME o.fc = WriteMultipleRegisters PROVE Registers(o) = ValueBytes(o) \div 2
      <4>1. Registers(o) = (ValueBytes(o) % 65536) \div 2
        BY <3>3 DEF Registers, RegisterReads
      <4>2. ValueBytes(o) <= 65535
        BY <3>3 DEF FitsUInt16
      <4>3. ValueBytes(o) % 65536 = ValueBytes(o)
        BY <3>1, <4>2
      <4>4. QED BY <4>1, <4>3
    <3>4. QED BY <1>4, <3>2, <3>3
  <2>3. 2 * q.value = ValueBytes(o)
    BY <2>1, <2>2, ValueBytesEven
  <2>4. Values(o, q) = IF o.width = 1 THEN ValueBytes(o) - (o.n % 2)
                                      ELSE ValueBytes(o) \div o.width
    BY <1>4, <2>3 DEF Values, SingleWrites, RegisterReads
  <2>5. Values(o, q) = o.n
    <3>1. CASE o.width = 1
      BY <1>1, <2>4, <3>1, ValueBytesEven
    <3>2. CASE o.width = 2
      BY <1>1, <2>4, <3>2, ValueBytesEven
    <3>3. CASE o.width = 4
      BY <1>1, <2>4, <3>3, ValueBytesEven
    <3>4. CASE o.width = 8
      BY <1>1, <2>4, <3>4, ValueBytesEven
    <3>5. QED BY <1>1, <3>1, <3>2, <3>3, <3>4
  <2>6. o.fc \notin SingleWrites
    BY <1>4 DEF SingleWrites, RegisterReads
  <2>7. QED BY <2>5, <2>6
<1>5. QED
  BY <1>1, <1>2, <1>3, <1>4 DEF Supported, MultipleWrites

\* A success returned or wrote every value asked for, whatever the width, the
\* quantity and the answer.
THEOREM SuccessMeansComplete == Spec => []SuccessIsComplete
<1>1. ASSUME CInv PROVE SuccessIsComplete
  <2>1. SUFFICES ASSUME stage = "returned", err = "nil", FitsUInt16(op)
                 PROVE  count = IF op.fc \in SingleWrites THEN 1 ELSE op.n
    BY DEF SuccessIsComplete
  <2>2. op \in Ops /\ ~Refused(op) /\ req = Request(op, req.unit) /\ count = Values(op, req)
    BY <1>1, <2>1 DEF CInv
  <2>3. req.value = Field(op)
    BY <2>2 DEF Request
  <2>4. QED BY <2>1, <2>2, <2>3, ValuesComplete
<1>2. QED BY <1>1, ClientInvariance, PTL

=============================================================================
