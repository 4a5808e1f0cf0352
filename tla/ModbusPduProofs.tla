--------------------------- MODULE ModbusPduProofs ---------------------------
(* What holds of every request and response of ModbusPdu.                   *)
EXTENDS ModbusPdu, TLAPS

\* What the validation (server.go:399-551, 662-729) has established of a request
\* it lets through.
LEMMA Validated ==
  ASSUME NEW f \in FrameType, Verdict(f) = "nil"
  PROVE  /\ f.fc \in Supported
         /\ f.fc \notin SingleWrites => QuantityLegal(f) /\ AddressLegal(f)
         /\ f.fc \in MultipleWrites => ValuesWhole(f)
BY DEF Verdict, Malformed

\* The limits (server.go:410, 527, 595, 708) keep every response in one frame.
LEMMA PositiveFits ==
  ASSUME NEW f \in FrameType, Verdict(f) = "nil"
  PROVE  Fits(Positive(f))
<1> USE DEF ReadCoils, ReadDiscreteInputs, ReadHoldingRegisters, ReadInputRegisters,
            WriteSingleCoil, WriteSingleRegister, WriteMultipleCoils,
            BitReads, RegisterReads, SingleWrites
<1>1. CASE f.fc \in BitReads
  <2>1. Limit(f.fc) = 2000
    BY <1>1 DEF Limit
  <2>2. f.value \in Int /\ 1 <= f.value /\ f.value <= Limit(f.fc)
    <3>1. Limit(f.fc) \in Int
      BY <2>1
    <3>2. f.value \in 1..Limit(f.fc)
      <4>1. f.fc \notin SingleWrites
        BY <1>1
      <4>2. QED BY <4>1, Validated DEF QuantityLegal
    <3>3. QED BY <3>1, <3>2
  <2>3. BytesFor(f.fc, f.value) \in Int /\ 1 <= BytesFor(f.fc, f.value)
          /\ BytesFor(f.fc, f.value) <= 250
    BY <1>1, <2>1, <2>2 DEF BytesFor
  <2>4. QED BY <1>1, <2>3 DEF Positive, Fits
<1>2. CASE f.fc \in RegisterReads
  <2>1. f.fc \notin SingleWrites /\ Limit(f.fc) = 125
    BY <1>2 DEF Limit
  <2>2. f.value \in 1..125
    BY <2>1, Validated DEF QuantityLegal
  <2>3. BytesFor(f.fc, f.value) \in 1..250
    BY <1>2, <2>2 DEF BytesFor
  <2>4. QED BY <1>2, <2>3 DEF Positive, Fits
<1>3. CASE f.fc \notin BitReads \cup RegisterReads
  BY <1>3 DEF Positive, Fits
<1>4. QED BY <1>1, <1>2, <1>3

\* Zero is a value of every field, so a blank frame is a frame.
LEMMA ZeroFits == 0 \in UInt16 /\ 0 \in Byte
<1>1. MaxUInt16 \in Nat
  BY DEF MaxUInt16
<1>2. QED BY <1>1 DEF UInt16, Byte

\* The responses have the types of their fields.
LEMMA PositiveType ==
  ASSUME NEW f \in FrameType
  PROVE  Positive(f) \in PduType
<1>1. f.unit \in Byte /\ f.fc \in Byte /\ f.addr \in UInt16 /\ f.value \in UInt16
  BY DEF FrameType
<1>2. CASE f.fc \in BitReads \cup RegisterReads
  <2> DEFINE size == BytesFor(f.fc, f.value)
  <2>1. Positive(f) = [unit |-> f.unit, fc |-> f.fc, payload |-> 1 + size,
                       addr |-> 0, value |-> 0, count |-> size % 256]
    BY <1>2 DEF Positive
  <2>2. f.value \in Nat
    BY <1>1 DEF UInt16
  <2>3. size \in Nat
    BY <2>2 DEF BytesFor
  <2> HIDE DEF size
  <2>4. 1 + size \in Nat /\ size % 256 \in Byte
    BY <2>3 DEF Byte
  <2>5. QED BY <1>1, <2>1, <2>4, ZeroFits DEF PduType
<1>3. CASE f.fc \notin BitReads \cup RegisterReads
  <2>1. Positive(f) = [unit |-> f.unit, fc |-> f.fc, payload |-> 4, addr |-> f.addr,
                       value |-> f.value, count |-> 0]
    BY <1>3 DEF Positive
  <2>2. QED BY <1>1, <2>1, ZeroFits DEF PduType
<1>4. QED BY <1>2, <1>3

\* Exception responses (server.go:789-793) are typed and fit.
LEMMA NegativeFits ==
  ASSUME NEW f \in FrameType, NEW err
  PROVE  Negative(f, err) \in PduType /\ Fits(Negative(f, err))
<1>1. f.unit \in Byte /\ f.fc \in Byte /\ f.addr \in UInt16 /\ f.value \in UInt16
  BY DEF FrameType
<1>2. ExceptionCode(err) \in Byte
  BY DEF ExceptionCode, Byte
<1>3. (IF f.fc >= 128 THEN f.fc ELSE f.fc + 128) \in Byte
  BY <1>1 DEF Byte
<1>4. (IF f.fc >= 128 THEN f.fc ELSE f.fc + 128) \notin BitReads \cup RegisterReads
  BY <1>1 DEF Byte, BitReads, RegisterReads, ReadCoils, ReadDiscreteInputs,
              ReadHoldingRegisters, ReadInputRegisters
<1>5. QED BY <1>1, <1>2, <1>3, <1>4, ZeroFits DEF Negative, PduType, Fits

\* assembleMBAPFrame cuts nothing off a response that fits.
LEMMA AssembledFits ==
  ASSUME NEW txn \in UInt16, NEW r \in PduType, Fits(r)
  PROVE  /\ Assemble(txn, r) \in FrameType
         /\ LengthLegal(Assemble(txn, r))
         /\ Assemble(txn, r).fc \in BitReads \cup RegisterReads =>
              Assemble(txn, r).count = Assemble(txn, r).length - 3
<1> DEFINE length == (2 + r.payload) % 65536
<1>1. r.payload \in 1..251
  BY DEF Fits
<1>2. length = 2 + r.payload
  BY <1>1
<1>3. /\ r.unit \in Byte /\ r.fc \in Byte /\ r.count \in Byte
      /\ r.addr \in UInt16 /\ r.value \in UInt16
  BY DEF PduType
<1>4. Assemble(txn, r) = [txn |-> txn, proto |-> 0, length |-> length,
                          unit |-> r.unit, fc |-> r.fc, addr |-> r.addr,
                          value |-> r.value, count |-> r.count]
  BY DEF Assemble
<1> HIDE DEF length
<1>5. length \in UInt16
  <2>1. length \in Nat /\ length <= 253
    BY <1>1, <1>2
  <2>2. MaxUInt16 \in Nat /\ 253 <= MaxUInt16
    BY DEF MaxUInt16
  <2>3. length \in Nat /\ length <= MaxUInt16
    BY <2>1, <2>2
  <2>4. QED BY <2>3 DEF UInt16
<1>6. Assemble(txn, r) \in FrameType
  BY <1>3, <1>4, <1>5, ZeroFits DEF FrameType
<1>7. LengthLegal(Assemble(txn, r))
  BY <1>1, <1>2, <1>4 DEF LengthLegal, mbapHeaderLength, maxTCPFrameLength
<1>8. r.fc \in BitReads \cup RegisterReads => r.count = length - 3
  BY <1>1, <1>2 DEF Fits
<1>9. QED BY <1>4, <1>6, <1>7, <1>8

=============================================================================
