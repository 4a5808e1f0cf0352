------------------------- MODULE RtuTransportProofs -------------------------
(* Proofs about RtuTransport for every number of exchanges, every kind of    *)
(* answer and every number of faults; about Crc for frames of every length.  *)
EXTENDS RtuTransport, Crc, WellFoundedInduction, SequenceTheorems, TLAPS

\* What devices answer has a known code.
LEMMA ReplyTypes ==
  ASSUME TypeOK, NEW n \in Requests
  PROVE  /\ reply[n].code \in {"read", "write", "mask", "exception"}
         /\ reply[n].third \in 0..255
<1>1. reply[n] \in Shape
  BY RtuAssumption DEF TypeOK
<1>2. QED BY <1>1 DEF Shape, Codes

\* A frame has five bytes at least, and no more than a length in one byte allows.
LEMMA FrameLengths ==
  ASSUME TypeOK, NEW n \in Requests
  PROVE  FrameLength(n) \in 5..260 /\ FrameLength(n) \in Nat
BY ReplyTypes DEF FrameLength, expectedResponseLenth

\* A header that fits asks for two bytes at least, and for no more than rxbuf has.
LEMMA NeedBounds ==
  ASSUME NEW code \in Codes, NEW third \in 0..255, Fits(code, third)
  PROVE  expectedResponseLenth(code, third) + 2 \in 2..(maxRTUFrameLength - 3)
BY DEF Fits, expectedResponseLenth, maxRTUFrameLength, Codes

\* What the second and third bytes may be are codes and lengths.
LEMMA HeaderTypes ==
  ASSUME TypeOK, NEW b \in Bytes
  PROVE  CodesOf(b) \subseteq Codes /\ ThirdsOf(b) \subseteq 0..255
<1>1. CASE b = Noise
  BY <1>1, RtuAssumption DEF Noise, Byte, CodesOf, ThirdsOf
<1>2. CASE b \in [req : 1..asked, pos : 1..(maxRTUFrameLength + 4)]
  <2>1. b.req \in Requests
    BY <1>2, RtuAssumption DEF TypeOK, Requests
  <2>2. QED BY <2>1, ReplyTypes, RtuAssumption DEF CodesOf, ThirdsOf, Codes
<1>3. QED BY <1>1, <1>2 DEF Bytes

\* The rest of the line.
LEMMA Dropped ==
  ASSUME TypeOK, NEW k \in 0..Len(line)
  PROVE  /\ Drop(k) \in Seq(Bytes) /\ Len(Drop(k)) = Len(line) - k
         /\ \A i \in 1..Len(Drop(k)) : i + k \in DOMAIN line /\ Drop(k)[i] = line[i + k]
<1>1. line \in Seq(Bytes) /\ Len(line) \in Nat /\ DOMAIN line = 1..Len(line)
  BY DEF TypeOK
<1> DEFINE rest == SubSeq(line, k + 1, Len(line))
<1>2. rest \in Seq(Bytes)
  BY <1>1
<1>3. Len(rest) = IF k + 1 <= Len(line) THEN Len(line) - (k + 1) + 1 ELSE 0
  BY <1>1
<1>4. \A i \in 1..Len(rest) : rest[i] = line[(k + 1) + i - 1]
  BY <1>1, <1>3
<1>5. Drop(k) = rest
  BY DEF Drop
<1> HIDE DEF rest
<1>6. k \in Nat /\ k <= Len(line)
  BY <1>1
<1>7. Len(rest) = Len(line) - k
  <2>1. \A m, j \in Nat : j <= m =>
          (IF j + 1 <= m THEN m - (j + 1) + 1 ELSE 0) = m - j
    OBVIOUS
  <2>2. Len(line) \in Nat /\ k \in Nat /\ k <= Len(line)
    BY <1>1
  <2>3. (IF k + 1 <= Len(line) THEN Len(line) - (k + 1) + 1 ELSE 0) = Len(line) - k
    BY <2>1, <2>2
  <2>4. QED BY <1>3, <2>3
<1>8. \A i \in 1..Len(rest) : (k + 1) + i - 1 = i + k /\ i + k \in 1..Len(line)
  BY <1>1, <1>6, <1>7
<1>9. QED BY <1>1, <1>2, <1>4, <1>5, <1>7, <1>8

\* Bytes that stay in their order, and noise, disturb no order.
LEMMA Fewer ==
  ASSUME RInv, reply' = reply, line' \in Seq(Bytes), NEW f \in [DOMAIN line' -> Nat],
         \A i, j \in DOMAIN line' : i < j => f[i] < f[j],
         \A i \in DOMAIN line' :
           line'[i] = Noise \/ (f[i] \in DOMAIN line /\ line'[i] = line[f[i]])
  PROVE  /\ \A i, j \in DOMAIN line' :
              i < j /\ line'[i].req = line'[j].req /\ line'[i].req # 0 =>
                line'[i].pos < line'[j].pos
         /\ \A i \in DOMAIN line' : line'[i].req # 0 =>
              line'[i].pos <= FrameLength(line'[i].req)
         /\ OnLine' \ {0} \subseteq OnLine
<1>1. Noise.req = 0
  BY DEF Noise, Byte
<1>2. ASSUME NEW i \in DOMAIN line', line'[i].req # 0
      PROVE  f[i] \in DOMAIN line /\ line'[i] = line[f[i]]
  BY <1>1, <1>2
<1>3. ASSUME NEW i \in DOMAIN line', NEW j \in DOMAIN line',
             i < j, line'[i].req = line'[j].req, line'[i].req # 0
      PROVE  line'[i].pos < line'[j].pos
  BY <1>2, <1>3 DEF RInv, InOrder
<1>4. ASSUME NEW i \in DOMAIN line', line'[i].req # 0
      PROVE  line'[i].pos <= FrameLength(line'[i].req)
  BY <1>2, <1>4 DEF RInv, InOrder
<1>5. OnLine' \ {0} \subseteq OnLine
  BY <1>2 DEF OnLine
<1>6. QED BY <1>3, <1>4, <1>5

\* Reading k bytes disturbs no order.
LEMMA DropInOrder ==
  ASSUME RInv, NEW k \in 0..Len(line), line' = Drop(k),
         reply' = reply, asked' = asked, due' = due
  PROVE  InOrder' /\ line' \in Seq(Bytes)' /\ OnLine' \ {0} \subseteq OnLine
<1>1. /\ TypeOK /\ Len(line) \in Nat /\ k \in Nat
  BY DEF RInv, TypeOK
<1>2. /\ line' \in Seq(Bytes) /\ Len(line') \in Nat /\ DOMAIN line' = 1..Len(line')
      /\ \A i \in DOMAIN line' : i + k \in DOMAIN line /\ line'[i] = line[i + k]
  BY <1>1, Dropped
<1> DEFINE f == [i \in DOMAIN line' |-> i + k]
<1>3. /\ f \in [DOMAIN line' -> Nat]
      /\ \A i, j \in DOMAIN line' : i < j => f[i] < f[j]
      /\ \A i \in DOMAIN line' : f[i] \in DOMAIN line /\ line'[i] = line[f[i]]
  BY <1>1, <1>2
<1> HIDE DEF f
<1>4. /\ \A i, j \in DOMAIN line' :
           i < j /\ line'[i].req = line'[j].req /\ line'[i].req # 0 =>
             line'[i].pos < line'[j].pos
      /\ \A i \in DOMAIN line' : line'[i].req # 0 =>
           line'[i].pos <= FrameLength(line'[i].req)
      /\ OnLine' \ {0} \subseteq OnLine
  BY <1>2, <1>3, Fewer
<1>5. due' \cap OnLine' = {}
  BY <1>1, <1>4 DEF RInv, InOrder, TypeOK
<1>6. InOrder'
  BY <1>4, <1>5 DEF InOrder, FrameLength
<1>7. QED BY <1>2, <1>4, <1>6 DEF Bytes

\* What is left of a frame when its last byte has been read: nothing.
LEMMA WholeFrameRead ==
  ASSUME RInv, pc = "body", Len(line) >= need,
         NEW n \in 1..asked, Received = Frame(n)
  PROVE  /\ n \in OnLine /\ need \in 0..Len(line)
         /\ \A i \in DOMAIN Drop(need) : Drop(need)[i].req # n
<1>1. /\ line \in Seq(Bytes) /\ taken \in Seq(Bytes) /\ Len(taken) = 3 /\ Len(line) \in Nat
      /\ need \in Nat /\ need >= 2 /\ DOMAIN line = 1..Len(line)
  BY DEF RInv, TypeOK, BodyFits, maxRTUFrameLength
<1>2. n \in Requests /\ FrameLength(n) \in Nat
  <2>1. TypeOK /\ n \in Requests
    BY RtuAssumption DEF RInv, TypeOK, Requests
  <2>2. QED BY <2>1, FrameLengths
<1> DEFINE body == SubSeq(line, 1, need)
<1>3. body \in Seq(Bytes) /\ Len(body) = need /\ \A i \in 1..need : body[i] = line[i]
  BY <1>1
<1>4. /\ Len(Received) = 3 + need
      /\ \A i \in 1..need : Received[3 + i] = line[i]
  <2>1. Received = taken \o body
    BY DEF Received
  <2> HIDE DEF body
  <2>2. /\ Len(Received) = 3 + need
        /\ \A i \in 1..(3 + need) : Received[i] = IF i <= 3 THEN taken[i] ELSE body[i - 3]
    <3>1. /\ Len(taken \o body) = Len(taken) + Len(body)
          /\ \A i \in 1..(Len(taken) + Len(body)) :
               (taken \o body)[i] = IF i <= Len(taken) THEN taken[i] ELSE body[i - Len(taken)]
      <4>1. taken \in Seq(Bytes) /\ body \in Seq(Bytes)
        BY <1>1, <1>3
      <4>2. QED BY <4>1, ConcatProperties
    <3>2. Len(taken) = 3 /\ Len(body) = need
      BY <1>1, <1>3
    <3>3. QED BY <2>1, <3>1, <3>2
  <2>3. ASSUME NEW i \in 1..need PROVE Received[3 + i] = line[i]
    <3>1. 3 + i \in 1..(3 + need) /\ ~(3 + i <= 3) /\ (3 + i) - 3 = i
      BY <1>1
    <3>2. QED BY <1>3, <2>2, <3>1
  <2>4. QED BY <2>2, <2>3
<1>5. Len(Received) = FrameLength(n)
  BY <1>2 DEF Frame
<1>6. line[need] = Byte(n, FrameLength(n))
  <2>1. 3 + need \in 1..FrameLength(n)
    BY <1>1, <1>4, <1>5
  <2>2. Received[3 + need] = Byte(n, 3 + need)
    BY <2>1 DEF Frame
  <2>3. QED BY <1>1, <1>4, <1>5, <2>2
<1>7. n \in OnLine /\ need \in 0..Len(line) /\ need \in DOMAIN line
  BY <1>1, <1>6 DEF OnLine, Byte
<1>8. ASSUME NEW i \in DOMAIN Drop(need), Drop(need)[i].req = n PROVE FALSE
  <2>1. /\ i \in 1..Len(Drop(need)) /\ i + need \in DOMAIN line
        /\ Drop(need)[i] = line[i + need]
    <3>1. TypeOK /\ need \in 0..Len(line)
      BY <1>7 DEF RInv
    <3>2. Drop(need) \in Seq(Bytes)
      BY <3>1, Dropped
    <3>3. i \in 1..Len(Drop(need))
      BY <1>8, <3>2
    <3>4. QED BY <3>1, <3>3, Dropped
  <2>2. n # 0 /\ line[need].req = n /\ line[need].pos = FrameLength(n)
    BY <1>6 DEF Byte
  <2>3. need < i + need
    BY <1>1, <2>1
  <2>4. FrameLength(n) < line[i + need].pos
    BY <1>7, <1>8, <2>1, <2>2, <2>3 DEF RInv, InOrder
  <2>5. line[i + need].pos <= FrameLength(n)
    BY <1>8, <2>1, <2>2 DEF RInv, InOrder
  <2>6. line[i + need].pos \in Nat
    BY <1>1, <2>1 DEF Bytes, Noise, Byte
  <2>7. QED BY <1>2, <2>4, <2>5, <2>6
<1>9. QED BY <1>7, <1>8
-----------------------------------------------------------------------------
\* Nothing has been asked at first.
LEMMA InitRInv == Init => RInv
<1> SUFFICES ASSUME Init PROVE RInv
  OBVIOUS
<1>1. /\ line = << >> /\ taken = << >> /\ DOMAIN line = {} /\ OnLine = {}
      /\ line \in Seq(Bytes) /\ taken \in Seq(Bytes)
  BY DEF Init, OnLine
<1>2. result \in Results /\ 0 \in 0..MaxRequests /\ 0 \in 0..MaxFaults
  BY RtuAssumption DEF Init, NoResult, Results
<1>3. settled \in BOOLEAN
  BY Zenon DEF Init
<1>4. need \in 0..(maxRTUFrameLength - 3) /\ asked \in 0..MaxRequests /\ faults \in 0..MaxFaults
  BY <1>2 DEF Init, maxRTUFrameLength
<1>5. TypeOK
  BY <1>1, <1>2, <1>3, <1>4 DEF Init, TypeOK
<1>6. QED BY <1>1, <1>5 DEF Init, RInv, InOrder, BodyFits, SettledInv, HeaderInv, AskedInv, OwnWhenSettled

\* An exchange returns in good order, if it returns an answer that is due to it.
LEMMA Returned ==
  ASSUME RInv, UNCHANGED devices, NEW k \in 0..Len(line), NEW r \in Results, Return(r, k),
         settled /\ r.kind = "answer" => r.req = asked
  PROVE  RInv'
<1> USE DEF devices, Return
<1>1. InOrder' /\ line' \in Seq(Bytes)'
  BY DropInOrder
<1>2. silence' \in {"passed", "noted", "missed"}
  BY DEF RInv, TypeOK
<1>3. TypeOK'
  BY <1>1, <1>2 DEF RInv, TypeOK, Results, Bytes, maxRTUFrameLength
<1>4. BodyFits' /\ SettledInv' /\ HeaderInv' /\ AskedInv'
  BY DEF BodyFits, SettledInv, HeaderInv, AskedInv, OwnWhenSettled
<1>5. QED BY <1>1, <1>3, <1>4 DEF RInv

\* So does the way to the flush.
LEMMA Resynced ==
  ASSUME RInv, UNCHANGED devices, NEW k \in 0..Len(line), Resync(k), pc # "idle"
  PROVE  RInv'
<1> USE DEF devices, Resync
<1>1. InOrder' /\ line' \in Seq(Bytes)' /\ OnLine' \ {0} \subseteq OnLine
  BY DropInOrder
<1>2. TypeOK'
  BY <1>1 DEF RInv, TypeOK, Results, Bytes, maxRTUFrameLength
<1>3. BodyFits' /\ SettledInv' /\ HeaderInv' /\ AskedInv'
  BY <1>1 DEF RInv, BodyFits, SettledInv, HeaderInv, AskedInv, OwnWhenSettled
<1>4. QED BY <1>1, <1>2, <1>3 DEF RInv

\* A failure is a result, and no answer.
LEMMA FailedTypes ==
  \A kind \in {"timeout", "error"} : Failed(kind) \in Results /\ Failed(kind).kind # "answer"
BY DEF Failed, Results

\* With one more request every byte and result is still one.
LEMMA OneMore ==
  ASSUME TypeOK, asked' = asked + 1
  PROVE  /\ \A s \in Seq(Bytes) : s \in Seq(Bytes')
         /\ \A r \in Results : r \in Results'
<1>1. 1..asked \subseteq 1..asked'
  BY RtuAssumption DEF TypeOK
<1>2. Bytes \subseteq Bytes'
  BY <1>1 DEF Bytes
<1>3. \A s \in Seq(Bytes) : s \in Seq(Bytes')
  BY <1>2
<1>4. \A r \in Results : r \in Results'
  BY <1>1 DEF Results
<1>5. QED BY <1>3, <1>4

\* The next request.
LEMMA ExecuteRequestKeeps ==
  ASSUME RInv, ExecuteRequest PROVE RInv'
<1> USE DEF ExecuteRequest
<1>1. TypeOK /\ asked \in Nat /\ asked' \in 0..MaxRequests
  BY RtuAssumption DEF RInv, TypeOK
<1>2. line' \in Seq(Bytes)' /\ taken' \in Seq(Bytes)'
  BY <1>1, OneMore DEF TypeOK
<1>3. result' \in Results' /\ result'.kind # "answer"
  BY DEF NoResult, Results
<1>4. asked \notin 0..(asked - 1) /\ due \subseteq 1..asked /\ due' \subseteq 1..asked'
  BY <1>1 DEF TypeOK
<1>5. TypeOK'
  BY <1>1, <1>2, <1>3, <1>4 DEF TypeOK
<1>6. asked' \notin OnLine
  <2>1. \A i \in DOMAIN line : line[i].req \in 0..asked
    BY <1>1 DEF TypeOK, Bytes, Noise, Byte
  <2>2. QED BY <1>1, <2>1 DEF OnLine
<1>7. InOrder'
  BY <1>6 DEF RInv, InOrder, FrameLength, OnLine
<1>8. SettledInv'
  <2>1. SUFFICES ASSUME settled' PROVE (due' \cup OnLine') \ {0} \subseteq {asked'}
    BY <1>3 DEF SettledInv, OwnWhenSettled
  <2>2. due = {} /\ line = << >>
    BY <2>1, Zenon
  <2>3. due' = {asked'} /\ DOMAIN line' = {}
    BY <2>2
  <2>4. OnLine' = {}
    BY <2>3 DEF OnLine
  <2>5. QED BY <2>3, <2>4
<1>9. QED BY <1>1, <1>5, <1>7, <1>8 DEF RInv, BodyFits, HeaderInv, AskedInv

\* A request that is not sent.
LEMMA SendFailsKeeps ==
  ASSUME RInv, SendFails PROVE RInv'
<1> USE DEF SendFails, devices
<1>1. TypeOK /\ asked \in Nat /\ asked' \in 0..MaxRequests
  BY RtuAssumption DEF RInv, TypeOK
<1>2. line' \in Seq(Bytes)' /\ taken' \in Seq(Bytes)'
  BY <1>1, OneMore DEF TypeOK
<1>3. result' \in Results' /\ result'.kind # "answer"
  BY <1>1, FailedTypes, OneMore
<1>4. due' \subseteq 1..asked'
  BY <1>1 DEF TypeOK
<1>5. TypeOK'
  BY <1>1, <1>2, <1>3, <1>4 DEF TypeOK
<1>6. InOrder' /\ BodyFits' /\ SettledInv' /\ HeaderInv' /\ AskedInv'
  BY <1>3 DEF RInv, InOrder, FrameLength, OnLine, BodyFits, SettledInv, HeaderInv, AskedInv,
              OwnWhenSettled
<1>7. QED BY <1>5, <1>6 DEF RInv

\* Three bytes are read.
LEMMA ReadHeaderKeeps ==
  ASSUME RInv, ReadHeader PROVE RInv'
<1>1. /\ TypeOK /\ line \in Seq(Bytes) /\ Len(line) \in Nat /\ Len(line) >= 3
      /\ pc = "header" /\ UNCHANGED devices /\ 3 \in 0..Len(line)
  BY DEF ReadHeader, RInv, TypeOK
<1>2. PICK code \in CodesOf(line[2]), third \in ThirdsOf(line[3]) :
        \/ Resync(3)
        \/ /\ Fits(code, third)
           /\ pc' = "body"
           /\ taken' = SubSeq(line, 1, 3)
           /\ need' = expectedResponseLenth(code, third) + 2
           /\ line' = Drop(3)
           /\ silence' = "missed"
           /\ UNCHANGED <<asked, result, settled>>
  BY DEF ReadHeader
<1>3. CASE Resync(3)
  BY <1>1, <1>3, Resynced
<1>4. CASE /\ Fits(code, third)
           /\ pc' = "body"
           /\ taken' = SubSeq(line, 1, 3)
           /\ need' = expectedResponseLenth(code, third) + 2
           /\ line' = Drop(3)
           /\ silence' = "missed"
           /\ UNCHANGED <<asked, result, settled>>
  <2>1. code \in Codes /\ third \in 0..255
    <3>1. line[2] \in Bytes /\ line[3] \in Bytes
      BY <1>1
    <3>2. QED BY <1>1, <3>1, HeaderTypes
  <2>2. need' \in 2..(maxRTUFrameLength - 3)
    BY <1>4, <2>1, NeedBounds
  <2>3. taken' \in Seq(Bytes) /\ Len(taken') = 3
    BY <1>1, <1>4
  <2>4. InOrder' /\ line' \in Seq(Bytes)' /\ OnLine' \ {0} \subseteq OnLine
    BY <1>1, <1>4, DropInOrder DEF devices
  <2>5. need' \in 0..(maxRTUFrameLength - 3)
    BY <2>2 DEF maxRTUFrameLength
  <2>6. TypeOK'
    BY <1>1, <1>4, <2>3, <2>4, <2>5 DEF devices, TypeOK, Results, Bytes
  <2>7. BodyFits' /\ SettledInv' /\ HeaderInv' /\ AskedInv'
    BY <1>1, <1>4, <2>2, <2>3, <2>4
       DEF devices, RInv, BodyFits, SettledInv, HeaderInv, AskedInv, OwnWhenSettled
  <2>8. QED BY <2>4, <2>6, <2>7 DEF RInv
<1>5. QED BY <1>2, <1>3, <1>4

\* The body is read: an answer is one of those under way.
LEMMA ReadBodyKeeps ==
  ASSUME RInv, ReadBody PROVE RInv'
<1>1. /\ Len(line) \in Nat /\ Len(line) >= need /\ need \in 0..Len(line)
      /\ pc = "body" /\ UNCHANGED devices
  BY DEF ReadBody, RInv, TypeOK
<1>2. ASSUME NEW n \in 1..asked, Received = Frame(n),
             Return([kind |-> "answer", req |-> n], need)
      PROVE  RInv'
  <2>1. n \in OnLine /\ n # 0
    BY <1>1, <1>2, WholeFrameRead
  <2>2. settled => n = asked
    BY <1>1, <2>1 DEF RInv, SettledInv
  <2>3. [kind |-> "answer", req |-> n] \in Results
    BY DEF Results
  <2>4. QED BY <1>1, <1>2, <2>2, <2>3, Returned
<1>3. CASE Resync(need)
  BY <1>1, <1>3, Resynced
<1>4. QED BY <1>2, <1>3 DEF ReadBody

\* A fault keeps the order of the other bytes.
LEMMA FaultKeeps ==
  ASSUME RInv, Fault, line' \in Seq(Bytes), NEW f \in [DOMAIN line' -> Nat],
         \A i, j \in DOMAIN line' : i < j => f[i] < f[j],
         \A i \in DOMAIN line' :
           line'[i] = Noise \/ (f[i] \in DOMAIN line /\ line'[i] = line[f[i]])
  PROVE  RInv' /\ OnLine' \ {0} \subseteq OnLine
<1> USE DEF Fault
<1>1. /\ \A i, j \in DOMAIN line' :
           i < j /\ line'[i].req = line'[j].req /\ line'[i].req # 0 =>
             line'[i].pos < line'[j].pos
      /\ \A i \in DOMAIN line' : line'[i].req # 0 =>
           line'[i].pos <= FrameLength(line'[i].req)
      /\ OnLine' \ {0} \subseteq OnLine
  BY Fewer
<1>2. due' \cap OnLine' = {}
  BY <1>1 DEF RInv, InOrder, TypeOK
<1>3. InOrder'
  BY <1>1, <1>2 DEF InOrder, FrameLength
<1>4. faults' \in 0..MaxFaults
  BY RtuAssumption DEF RInv, TypeOK
<1>5. TypeOK'
  BY <1>4 DEF RInv, TypeOK, Results, Bytes
<1>6. BodyFits' /\ SettledInv' /\ HeaderInv' /\ AskedInv'
  BY <1>1 DEF RInv, BodyFits, SettledInv, HeaderInv, AskedInv, OwnWhenSettled
<1>7. QED BY <1>1, <1>3, <1>5, <1>6 DEF RInv

\* A byte changed is noise.
LEMMA ByteChangesKeeps ==
  ASSUME RInv, NEW i \in DOMAIN line, ByteChanges(i)
  PROVE  RInv' /\ OnLine' \ {0} \subseteq OnLine
<1>1. /\ line \in Seq(Bytes) /\ Fault /\ line' = [line EXCEPT ![i] = Noise]
      /\ Noise \in Bytes
  BY DEF RInv, TypeOK, ByteChanges, Bytes
<1>2. line' \in Seq(Bytes) /\ DOMAIN line' = DOMAIN line /\ DOMAIN line \subseteq Nat
  BY <1>1
<1> DEFINE f == [j \in DOMAIN line' |-> j]
<1>3. /\ f \in [DOMAIN line' -> Nat]
      /\ \A j, k \in DOMAIN line' : j < k => f[j] < f[k]
      /\ \A j \in DOMAIN line' :
           line'[j] = Noise \/ (f[j] \in DOMAIN line /\ line'[j] = line[f[j]])
  BY <1>1, <1>2
<1> HIDE DEF f
<1>4. QED BY <1>1, <1>2, <1>3, FaultKeeps

\* A byte lost leaves the others in order.
LEMMA ByteLostKeeps ==
  ASSUME RInv, NEW i \in DOMAIN line, ByteLost(i)
  PROVE  RInv' /\ OnLine' \ {0} \subseteq OnLine
<1>1. /\ TypeOK /\ line \in Seq(Bytes) /\ Fault /\ Len(line) \in Nat /\ DOMAIN line = 1..Len(line)
      /\ i \in Nat /\ 1 <= i /\ i <= Len(line) /\ i \in 0..Len(line)
  BY DEF RInv, TypeOK, ByteLost
<1> DEFINE front == SubSeq(line, 1, i - 1)
<1>2. front \in Seq(Bytes) /\ \A j \in 1..(i - 1) : front[j] = line[j]
  BY <1>1
<1>3. Len(front) = i - 1
  BY <1>1
<1>4. line' = front \o Drop(i)
  BY DEF ByteLost
<1> HIDE DEF front
<1>5. /\ Drop(i) \in Seq(Bytes) /\ Len(Drop(i)) = Len(line) - i
      /\ \A j \in 1..(Len(line) - i) : Drop(i)[j] = line[j + i]
  BY <1>1, Dropped
<1>6. /\ line' \in Seq(Bytes)
      /\ Len(line') = (i - 1) + (Len(line) - i)
      /\ \A j \in 1..((i - 1) + (Len(line) - i)) :
           line'[j] = IF j <= i - 1 THEN front[j] ELSE Drop(i)[j - (i - 1)]
  <2>1. /\ front \o Drop(i) \in Seq(Bytes)
        /\ Len(front \o Drop(i)) = Len(front) + Len(Drop(i))
        /\ \A j \in 1..(Len(front) + Len(Drop(i))) :
             (front \o Drop(i))[j] =
               IF j <= Len(front) THEN front[j] ELSE Drop(i)[j - Len(front)]
    BY <1>2, <1>5, ConcatProperties
  <2>2. QED BY <1>3, <1>4, <1>5, <2>1
<1>7. Len(line') = Len(line) - 1 /\ DOMAIN line' = 1..(Len(line) - 1)
  BY <1>1, <1>6
<1>8. ASSUME NEW j \in 1..(Len(line) - 1)
      PROVE  /\ j <= i - 1 => line'[j] = line[j] /\ j \in DOMAIN line
             /\ j > i - 1 => line'[j] = line[j + 1] /\ j + 1 \in DOMAIN line
  <2>1. j \in 1..((i - 1) + (Len(line) - i))
    BY <1>1
  <2>2. CASE j <= i - 1
    BY <1>1, <1>2, <1>6, <2>1, <2>2
  <2>3. CASE j > i - 1
    <3>1. j - (i - 1) \in 1..(Len(line) - i) /\ (j - (i - 1)) + i = j + 1
      BY <1>1, <2>3
    <3>2. line'[j] = Drop(i)[j - (i - 1)]
      BY <1>1, <1>6, <2>1, <2>3
    <3>3. Drop(i)[j - (i - 1)] = line[(j - (i - 1)) + i]
      BY <1>5, <3>1
    <3>4. QED BY <1>1, <2>3, <3>1, <3>2, <3>3
  <2>4. QED BY <1>1, <2>2, <2>3
<1> DEFINE f == [j \in DOMAIN line' |-> IF j <= i - 1 THEN j ELSE j + 1]
<1>9. /\ f \in [DOMAIN line' -> Nat]
      /\ \A j, k \in DOMAIN line' : j < k => f[j] < f[k]
  BY <1>1, <1>7
<1>10. \A j \in DOMAIN line' : f[j] \in DOMAIN line /\ line'[j] = line[f[j]]
  BY <1>1, <1>7, <1>8
<1> HIDE DEF f
<1>11. QED BY <1>1, <1>6, <1>9, <1>10, FaultKeeps

\* Noise at the end leaves the others in order.
LEMMA NoiseArrivesKeeps ==
  ASSUME RInv, NoiseArrives
  PROVE  RInv' /\ OnLine' \ {0} \subseteq OnLine
<1>1. /\ line \in Seq(Bytes) /\ Fault /\ line' = Append(line, Noise) /\ Len(line) \in Nat
      /\ Noise \in Bytes
  BY DEF RInv, TypeOK, NoiseArrives, Bytes
<1>2. /\ line' \in Seq(Bytes) /\ DOMAIN line' = 1..(Len(line) + 1) /\ DOMAIN line = 1..Len(line)
      /\ \A j \in 1..Len(line) : line'[j] = line[j]
      /\ line'[Len(line) + 1] = Noise
  BY <1>1, AppendProperties
<1> DEFINE f == [j \in DOMAIN line' |-> j]
<1>3. /\ f \in [DOMAIN line' -> Nat]
      /\ \A j, k \in DOMAIN line' : j < k => f[j] < f[k]
      /\ \A j \in DOMAIN line' :
           line'[j] = Noise \/ (f[j] \in DOMAIN line /\ line'[j] = line[f[j]])
  BY <1>1, <1>2
<1> HIDE DEF f
<1>4. QED BY <1>1, <1>2, <1>3, FaultKeeps

\* An answer that comes has its bytes in order, and no device owes it any more.
LEMMA DeviceAnswersKeeps ==
  ASSUME RInv, NEW n \in due, DeviceAnswers(n)
  PROVE  RInv' /\ OnLine' \subseteq OnLine \cup {n}
<1>0. /\ line' = line \o Frame(n) /\ due' = due \ {n}
      /\ UNCHANGED <<link, reply, asked, pc, taken, need, result, silence, settled, faults>>
  BY DEF DeviceAnswers
<1>1. /\ TypeOK /\ line \in Seq(Bytes) /\ Len(line) \in Nat /\ DOMAIN line = 1..Len(line)
      /\ n \in 1..asked /\ n \in Requests /\ n # 0
  BY RtuAssumption DEF RInv, TypeOK, Requests
<1>2. FrameLength(n) \in 5..260 /\ FrameLength(n) \in Nat
  BY <1>1, FrameLengths
<1>3. /\ Frame(n) \in Seq(Bytes) /\ Len(Frame(n)) = FrameLength(n)
      /\ \A i \in 1..FrameLength(n) : Frame(n)[i] = Byte(n, i)
  <2>1. \A i \in 1..FrameLength(n) : Byte(n, i) \in Bytes
    <3>1. maxRTUFrameLength + 4 = 260
      BY DEF maxRTUFrameLength
    <3>2. \A i \in 1..FrameLength(n) : i \in 1..260
      BY <1>2
    <3>3. QED BY <1>1, <3>1, <3>2 DEF Byte, Bytes
  <2>2. QED BY <1>2, <2>1 DEF Frame
<1>4. /\ line' \in Seq(Bytes)
      /\ Len(line') = Len(line) + FrameLength(n)
      /\ \A i \in 1..(Len(line) + FrameLength(n)) :
           line'[i] = IF i <= Len(line) THEN line[i] ELSE Frame(n)[i - Len(line)]
  <2>1. /\ line \o Frame(n) \in Seq(Bytes)
        /\ Len(line \o Frame(n)) = Len(line) + Len(Frame(n))
        /\ \A i \in 1..(Len(line) + Len(Frame(n))) :
             (line \o Frame(n))[i] =
               IF i <= Len(line) THEN line[i] ELSE Frame(n)[i - Len(line)]
    BY <1>1, <1>3, ConcatProperties
  <2>2. QED BY <1>0, <1>3, <2>1
<1>5. DOMAIN line' = 1..(Len(line) + FrameLength(n))
  BY <1>4
<1>6. ASSUME NEW i \in DOMAIN line'
      PROVE  \/ i \in DOMAIN line /\ line'[i] = line[i] /\ line[i].req # n
             \/ /\ i > Len(line)
                /\ line'[i] = Byte(n, i - Len(line)) /\ i - Len(line) \in 1..FrameLength(n)
  <2>1. CASE i <= Len(line)
    <3>1. i \in DOMAIN line /\ line'[i] = line[i]
      BY <1>1, <1>2, <1>4, <1>5, <2>1
    <3>2. line[i].req # n
      BY <3>1 DEF RInv, InOrder, OnLine
    <3>3. QED BY <3>1, <3>2
  <2>2. CASE i > Len(line)
    <3>1. /\ i \in 1..(Len(line) + FrameLength(n)) /\ ~(i <= Len(line))
          /\ i - Len(line) \in 1..FrameLength(n)
      <4>1. \A l, m, k \in Nat :
              k \in 1..(l + m) /\ k > l => ~(k <= l) /\ k - l \in 1..m
        OBVIOUS
      <4>2. i \in 1..(Len(line) + FrameLength(n)) /\ i \in Nat
        BY <1>1, <1>2, <1>5
      <4>3. QED BY <1>1, <1>2, <2>2, <4>1, <4>2
    <3>2. line'[i] = Frame(n)[i - Len(line)]
      BY <1>4, <3>1
    <3>3. Frame(n)[i - Len(line)] = Byte(n, i - Len(line))
      BY <1>3, <3>1
    <3>4. QED BY <2>2, <3>1, <3>2, <3>3
  <2>3. QED BY <1>1, <1>2, <1>5, <2>1, <2>2
<1>7. \A i \in DOMAIN line' : i \in Nat
  BY <1>1, <1>2, <1>5
<1>8. ASSUME NEW i \in DOMAIN line', NEW j \in DOMAIN line',
             i < j, line'[i].req = line'[j].req, line'[i].req # 0
      PROVE  line'[i].pos < line'[j].pos
  <2>1. CASE i \in DOMAIN line /\ line'[i] = line[i] /\ line[i].req # n
    <3>1. j \in DOMAIN line /\ line'[j] = line[j]
      <4>1. line'[j].req # n
        BY <1>8, <2>1
      <4>2. \A i0 : Byte(n, i0).req = n
        BY DEF Byte
      <4>3. QED BY <1>6, <4>1, <4>2
    <3>2. QED BY <1>8, <2>1, <3>1 DEF RInv, InOrder
  <2>2. CASE /\ i > Len(line)
             /\ line'[i] = Byte(n, i - Len(line)) /\ i - Len(line) \in 1..FrameLength(n)
    <3>1. line'[j] = Byte(n, j - Len(line))
      BY <1>1, <1>6, <1>7, <1>8, <2>2
    <3>2. QED BY <1>1, <1>7, <1>8, <2>2, <3>1 DEF Byte
  <2>3. QED BY <1>6, <2>1, <2>2
<1>9. ASSUME NEW i \in DOMAIN line', line'[i].req # 0
      PROVE  line'[i].pos <= FrameLength(line'[i].req)
  <2>1. CASE i \in DOMAIN line /\ line'[i] = line[i] /\ line[i].req # n
    BY <1>9, <2>1 DEF RInv, InOrder
  <2>2. CASE line'[i] = Byte(n, i - Len(line)) /\ i - Len(line) \in 1..FrameLength(n)
    BY <1>2, <2>2 DEF Byte
  <2>3. QED BY <1>6, <2>1, <2>2
<1>10. OnLine' \subseteq OnLine \cup {n}
  <2>1. ASSUME NEW i \in DOMAIN line' PROVE line'[i].req \in OnLine \cup {n}
    <3>1. CASE i \in DOMAIN line /\ line'[i] = line[i]
      BY <3>1 DEF OnLine
    <3>2. CASE line'[i] = Byte(n, i - Len(line))
      BY <3>2 DEF Byte
    <3>3. QED BY <1>6, <3>1, <3>2
  <2>2. QED BY <2>1 DEF OnLine
<1>11. due' \cap OnLine' = {}
  BY <1>0, <1>10 DEF RInv, InOrder
<1>12. InOrder'
  BY <1>0, <1>8, <1>9, <1>11 DEF InOrder, FrameLength
<1>13. TypeOK'
  BY <1>0, <1>1, <1>4 DEF TypeOK, Results, Bytes
<1>14. BodyFits' /\ SettledInv' /\ HeaderInv' /\ AskedInv'
  BY <1>0, <1>10 DEF RInv, BodyFits, SettledInv, HeaderInv, AskedInv, OwnWhenSettled
<1>15. QED BY <1>10, <1>12, <1>13, <1>14 DEF RInv

-----------------------------------------------------------------------------
\* Every step of transport, devices and line preserves the invariant.
LEMMA RInvStep ==
  ASSUME RInv, [Next]_vars PROVE RInv'
<1>1. Len(line) \in Nat /\ need \in Nat /\ 0 \in 0..Len(line)
  BY DEF RInv, TypeOK, maxRTUFrameLength
<1>2. CASE ExecuteRequest
  BY <1>2, ExecuteRequestKeeps
<1>3. CASE SendFails
  BY <1>3, SendFailsKeeps
<1>4. CASE ReadHeader
  BY <1>4, ReadHeaderKeeps
<1>5. CASE HeaderTimesOut
  BY <1>1, <1>5, FailedTypes, Returned DEF HeaderTimesOut
<1>6. CASE HeaderCut
  <2>1. PICK k \in 1..2 : k <= Len(line) /\ Resync(k)
    BY <1>6 DEF HeaderCut
  <2>2. k \in 0..Len(line) /\ pc # "idle" /\ UNCHANGED devices
    BY <1>1, <1>6, <2>1 DEF HeaderCut
  <2>3. QED BY <2>1, <2>2, Resynced
<1>7. CASE ReadBody
  BY <1>7, ReadBodyKeeps
<1>8. CASE BodyTimesOut
  <2>1. PICK k \in 0..(need - 1) : k <= Len(line) /\ Return(Failed("timeout"), k)
    BY <1>8 DEF BodyTimesOut
  <2>2. k \in 0..Len(line) /\ UNCHANGED devices
    BY <1>1, <1>8, <2>1 DEF BodyTimesOut
  <2>3. QED BY <2>1, <2>2, FailedTypes, Returned
<1>9. CASE BodyCut
  <2>1. PICK k \in 1..(need - 1) : k <= Len(line) /\ Resync(k)
    BY <1>9 DEF BodyCut
  <2>2. k \in 0..Len(line) /\ pc # "idle" /\ UNCHANGED devices
    BY <1>1, <1>9, <2>1 DEF BodyCut
  <2>3. QED BY <2>1, <2>2, Resynced
<1>10. CASE ReadFails
  <2>1. PICK k \in Nat : k <= Len(line) /\ Return(Failed("error"), k)
    BY <1>1, <1>10 DEF ReadFails
  <2>2. k \in 0..Len(line) /\ UNCHANGED devices
    BY <1>1, <1>10, <2>1 DEF ReadFails
  <2>3. QED BY <2>1, <2>2, FailedTypes, Returned
<1>11. CASE Discard
  <2>1. PICK k \in 0..Len(line) : Return(Failed("error"), k)
    BY <1>11 DEF Discard
  <2>2. UNCHANGED devices
    BY <1>11 DEF Discard
  <2>3. QED BY <2>1, <2>2, FailedTypes, Returned
<1>12. CASE Silence
  BY <1>12 DEF Silence, devices, RInv, TypeOK, Results, Bytes, InOrder, FrameLength, OnLine,
               BodyFits, SettledInv, HeaderInv, AskedInv, OwnWhenSettled
<1>13. ASSUME NEW n \in due, DeviceAnswers(n) PROVE RInv'
  BY <1>13, DeviceAnswersKeeps
<1>14. ASSUME NEW n \in due, Unanswered(n) PROVE RInv'
  BY <1>14 DEF Unanswered, RInv, TypeOK, Results, Bytes, InOrder, FrameLength, OnLine,
               BodyFits, SettledInv, HeaderInv, AskedInv, OwnWhenSettled
<1>15. ASSUME NEW i \in DOMAIN line, ByteChanges(i) PROVE RInv'
  BY <1>15, ByteChangesKeeps
<1>16. ASSUME NEW i \in DOMAIN line, ByteLost(i) PROVE RInv'
  BY <1>16, ByteLostKeeps
<1>17. CASE NoiseArrives
  BY <1>17, NoiseArrivesKeeps
<1>18. CASE UNCHANGED vars
  BY ZenonT(40), <1>18 DEF vars, RInv, TypeOK, Results, Bytes, InOrder, FrameLength, OnLine,
               BodyFits, SettledInv, HeaderInv, AskedInv, OwnWhenSettled
<1>19. QED
  BY <1>2, <1>3, <1>4, <1>5, <1>6, <1>7, <1>8, <1>9, <1>10, <1>11, <1>12, <1>13, <1>14,
     <1>15, <1>16, <1>17, <1>18 DEF Next, Transport

\* Every reachable state of the transport satisfies the inductive invariant: bytes of
\* a frame come in order, and the body of a frame fits rxbuf (rtu_transport.go:166).
THEOREM RtuInvariance == Spec => []RInv
<1>1. RInv /\ [Next]_vars => RInv'
  BY RInvStep
<1>2. QED BY InitRInv, <1>1, PTL DEF Spec

\* An exchange that began with nothing under way returns its own answer or none,
\* whatever happens to the bytes meanwhile (rtu_transport.go:136-199).
THEOREM SettledAnswers == Spec => []OwnWhenSettled
<1>1. RInv => OwnWhenSettled
  BY DEF RInv, SettledInv, OwnWhenSettled
<1>2. QED BY <1>1, RtuInvariance, PTL

-----------------------------------------------------------------------------
\* What an exchange has heard it notes, but for a deadline amid a body.
LEMMA HeardStep ==
  ASSUME RInv, [Next]_vars, pc # "idle", pc' = "idle", silence' = "missed"
  PROVE  link = "serial" /\ pc = "body" /\ result'.kind = "timeout"
<1>1. link \in {"serial", "conn"}
  BY DEF RInv, TypeOK
<1>2. ASSUME NEW r, NEW k, Return(r, k)
      PROVE  link = "serial" /\ r.kind = "timeout" /\ result' = r /\ (k > 0 \/ silence = "missed")
  BY <1>1, <1>2 DEF Return, Marks
<1>3. Failed("error").kind # "timeout"
  BY DEF Failed
<1>4. CASE HeaderTimesOut
  <2>1. Return(Failed("timeout"), 0) /\ pc = "header"
    BY <1>4 DEF HeaderTimesOut
  <2>2. silence = "missed"
    BY <1>2, <2>1
  <2>3. QED BY <2>1, <2>2 DEF RInv, HeaderInv
<1>5. CASE BodyTimesOut
  BY <1>2, <1>5 DEF BodyTimesOut
<1>6. CASE ReadBody
  <2>1. PICK n \in 1..asked : Return([kind |-> "answer", req |-> n], need)
    BY <1>6 DEF ReadBody, Resync
  <2>2. QED BY <1>2, <2>1
<1>7. CASE ReadFails
  BY <1>2, <1>3, <1>7 DEF ReadFails
<1>8. CASE Discard
  BY <1>2, <1>3, <1>8 DEF Discard
<1>9. CASE ReadHeader
  BY <1>9 DEF ReadHeader, Resync
<1>10. CASE HeaderCut \/ BodyCut
  BY <1>10 DEF HeaderCut, BodyCut, Resync
<1>11. CASE \/ ExecuteRequest \/ SendFails \/ Silence
            \/ \E n \in due : DeviceAnswers(n) \/ Unanswered(n)
            \/ \E i \in DOMAIN line : ByteChanges(i) \/ ByteLost(i)
            \/ NoiseArrives \/ UNCHANGED vars
  BY <1>11 DEF ExecuteRequest, SendFails, Silence, DeviceAnswers, Unanswered, ByteChanges,
               ByteLost, NoiseArrives, Fault, vars
<1>12. QED
  BY <1>4, <1>5, <1>6, <1>7, <1>8, <1>9, <1>10, <1>11 DEF Next, Transport

\* lastActivity covers whatever an exchange read, unless a deadline passed amid a body
\* on a serial line (rtu_transport.go:104-107).
THEOREM ActivityIsNoted == Spec => HeardIsNoted
<1>1. RInv /\ [Next]_vars =>
        [pc # "idle" /\ pc' = "idle" /\ silence' = "missed" =>
           link = "serial" /\ pc = "body" /\ result'.kind = "timeout"]_vars
  BY HeardStep
<1>2. QED BY <1>1, RtuInvariance, PTL DEF Spec, HeardIsNoted

-----------------------------------------------------------------------------
\* No more is owed when no answer came to be due and no byte to be under way.
LEMMA OwedNoMore ==
  ASSUME (due' \cup OnLine') \ {0} \subseteq due \cup OnLine
  PROVE  Service!NoMoreThan([n \in Requests |-> IF n \in due' \cup OnLine' THEN 1 ELSE 0],
                            [n \in Requests |-> IF n \in due \cup OnLine THEN 1 ELSE 0])
<1>1. \A n \in Requests : n # 0
  BY DEF Requests
<1>2. QED BY <1>1 DEF Service!NoMoreThan

\* Reading takes bytes off the line.
LEMMA ReadOwesNoMore ==
  ASSUME RInv, NEW k \in 0..Len(line), line' = Drop(k), UNCHANGED devices, asked' = asked
  PROVE  (due' \cup OnLine') \ {0} \subseteq due \cup OnLine
BY DropInOrder DEF devices

\* A step between two events of an exchange at most loses answers.
LEMMA LostStep ==
  ASSUME (due' \cup OnLine') \ {0} \subseteq due \cup OnLine,
         asked' = asked, result' = result, pc = "idle" <=> pc' = "idle"
  PROVE  Service!Lost
BY OwedNoMore DEF Service!Lost

\* An exchange fails.
LEMMA FailsStep ==
  ASSUME RInv, UNCHANGED devices, NEW kind \in {"timeout", "error"}, NEW k \in 0..Len(line),
         Return(Failed(kind), k), pc # "idle"
  PROVE  Service!Fails
<1>1. /\ line' = Drop(k) /\ asked' = asked /\ pc' = "idle" /\ result'.req = 0
  BY DEF Return, Failed
<1>2. (due' \cup OnLine') \ {0} \subseteq due \cup OnLine
  BY <1>1, ReadOwesNoMore
<1>3. asked # 0
  BY DEF RInv, AskedInv
<1>4. QED BY <1>1, <1>2, <1>3, OwedNoMore DEF Service!Fails

\* A request is asked, and its answer due.
LEMMA AskStep ==
  ASSUME RInv, ExecuteRequest PROVE \E r \in Requests : Service!Ask(r)
<1>1. /\ asked' \in Requests /\ pc = "idle" /\ pc' = "header" /\ result'.req = 0
      /\ due' = due \cup {asked'} /\ line' = line
  BY RtuAssumption DEF ExecuteRequest, RInv, TypeOK, Requests, NoResult
<1>2. due' \cup OnLine' = (due \cup OnLine) \cup {asked'}
  BY <1>1 DEF OnLine
<1>3. asked' \notin due \cup OnLine
  <2>1. \A i \in DOMAIN line : line[i].req \in 0..asked
    BY DEF RInv, TypeOK, Bytes, Noise, Byte
  <2>2. asked' = asked + 1 /\ asked \in Nat /\ due \subseteq 1..asked
    BY RtuAssumption DEF ExecuteRequest, RInv, TypeOK
  <2>3. QED BY <2>1, <2>2 DEF OnLine
<1>4. Service!NoMoreThan(
        [n \in Requests |-> IF n \in due' \cup OnLine' THEN 1 ELSE 0],
        [[n \in Requests |-> IF n \in due \cup OnLine THEN 1 ELSE 0]
           EXCEPT ![asked'] = @ + 1])
  BY <1>1, <1>2, <1>3 DEF Service!NoMoreThan
<1>5. PICK r \in Requests : r = asked'
  BY <1>1
<1>6. Service!Ask(r)
  <2>1. (IF pc = "idle" THEN 0 ELSE asked) = 0 /\ (IF pc' = "idle" THEN 0 ELSE asked') = r
    BY <1>1, <1>5
  <2>2. QED BY <1>1, <1>4, <1>5, <2>1 DEF Service!Ask
<1>7. QED BY <1>6

\* An answer is returned that was due, and is not any more.
LEMMA AnsweredStep ==
  ASSUME RInv, pc = "body", Len(line) >= need, UNCHANGED devices,
         NEW n \in 1..asked, Received = Frame(n),
         Return([kind |-> "answer", req |-> n], need)
  PROVE  \E r \in Requests : Service!Answered(r)
<1>1. /\ n \in OnLine /\ need \in 0..Len(line)
      /\ \A i \in DOMAIN Drop(need) : Drop(need)[i].req # n
  BY WholeFrameRead
<1>2. /\ line' = Drop(need) /\ asked' = asked /\ pc' = "idle" /\ result'.req = n
      /\ due' = due
  BY DEF Return, devices
<1>3. (due' \cup OnLine') \ {0} \subseteq due \cup OnLine
  BY <1>1, <1>2, ReadOwesNoMore
<1>4. n \notin OnLine'
  BY <1>1, <1>2 DEF OnLine
<1>5. n \notin due'
  BY <1>1, <1>2 DEF RInv, InOrder
<1>6. n \in Requests /\ asked # 0 /\ \A m \in Requests : m # 0
  BY RtuAssumption DEF RInv, TypeOK, Requests
<1>7. Service!NoMoreThan(
        [m \in Requests |-> IF m \in due' \cup OnLine' THEN 1 ELSE 0],
        [[m \in Requests |-> IF m \in due \cup OnLine THEN 1 ELSE 0]
           EXCEPT ![n] = @ - 1])
  BY <1>1, <1>3, <1>4, <1>5, <1>6 DEF Service!NoMoreThan
<1>8. Service!Answered(n)
  BY <1>1, <1>2, <1>6, <1>7 DEF Service!Answered
<1>9. QED BY <1>6, <1>8

\* Every step is one of the service, or none.
LEMMA ServiceStep ==
  ASSUME RInv, [Next]_vars
  PROVE  Service!ServiceNext \/ UNCHANGED Service!served
<1>1. /\ Len(line) \in Nat /\ need \in Nat /\ 0 \in 0..Len(line) /\ link' = link /\ 0 \notin due
      /\ asked \in Nat
  <2>1. Len(line) \in Nat /\ need \in Nat /\ 0 \in 0..Len(line) /\ 0 \notin due /\ asked \in Nat
    BY RtuAssumption DEF RInv, TypeOK, maxRTUFrameLength
  <2>2. link' = link
    BY DEF Next, Transport, vars, devices, ExecuteRequest, SendFails, ReadHeader,
           HeaderTimesOut, HeaderCut, ReadBody, BodyTimesOut, BodyCut, ReadFails, Discard,
           Silence, DeviceAnswers, Unanswered, ByteChanges, ByteLost, NoiseArrives, Fault
  <2>3. QED BY <2>1, <2>2
<1>2. ASSUME NEW k \in 0..Len(line), Resync(k), UNCHANGED devices, pc # "idle"
      PROVE  Service!Lost
  BY <1>2, ReadOwesNoMore, LostStep DEF Resync
<1>3. CASE ExecuteRequest
  BY <1>3, AskStep DEF Service!ServiceNext
<1>4. CASE SendFails
  <2>1. /\ pc = "idle" /\ pc' = "idle" /\ result'.req = 0 /\ due' = due /\ line' = line
    BY <1>4 DEF SendFails, devices, Failed
  <2>2. (due' \cup OnLine') \ {0} \subseteq due \cup OnLine
    BY <2>1 DEF OnLine
  <2>3. Service!FailsUnasked
    BY <2>1, <2>2, OwedNoMore DEF Service!FailsUnasked
  <2>4. QED BY <2>3 DEF Service!ServiceNext
<1>5. CASE ReadHeader
  <2>1. /\ 3 \in 0..Len(line) /\ line' = Drop(3) /\ UNCHANGED devices
        /\ UNCHANGED <<asked, result>> /\ pc # "idle" /\ pc' # "idle"
    BY <1>1, <1>5 DEF ReadHeader, Resync
  <2>2. Service!Lost
    BY <2>1, ReadOwesNoMore, LostStep
  <2>3. QED BY <2>2 DEF Service!ServiceNext
<1>6. CASE HeaderTimesOut
  <2>1. Service!Fails
    BY <1>1, <1>6, FailsStep DEF HeaderTimesOut
  <2>2. QED BY <2>1 DEF Service!ServiceNext
<1>7. CASE HeaderCut
  <2>1. PICK k \in 1..2 : k <= Len(line) /\ Resync(k)
    BY <1>7 DEF HeaderCut
  <2>2. k \in 0..Len(line) /\ pc # "idle" /\ UNCHANGED devices
    BY <1>1, <1>7, <2>1 DEF HeaderCut
  <2>3. Service!Lost
    BY <1>2, <2>1, <2>2
  <2>4. QED BY <2>3 DEF Service!ServiceNext
<1>8. CASE ReadBody
  <2>1. /\ need \in 0..Len(line) /\ Len(line) >= need /\ pc = "body" /\ UNCHANGED devices
    BY <1>1, <1>8 DEF ReadBody
  <2>2. ASSUME NEW n \in 1..asked, Received = Frame(n),
               Return([kind |-> "answer", req |-> n], need)
        PROVE  \E r \in Requests : Service!Answered(r)
    BY <2>1, <2>2, AnsweredStep
  <2>3. CASE Resync(need)
    <3>1. Service!Lost
      BY <1>2, <2>1, <2>3
    <3>2. QED BY <3>1 DEF Service!ServiceNext
  <2>4. CASE \E r \in Requests : Service!Answered(r)
    BY <2>4 DEF Service!ServiceNext
  <2>5. QED BY <1>8, <2>2, <2>3, <2>4 DEF ReadBody
<1>9. CASE BodyTimesOut
  <2>1. PICK k \in 0..(need - 1) : k <= Len(line) /\ Return(Failed("timeout"), k)
    BY <1>9 DEF BodyTimesOut
  <2>2. k \in 0..Len(line) /\ pc # "idle" /\ UNCHANGED devices
    BY <1>1, <1>9, <2>1 DEF BodyTimesOut
  <2>3. Service!Fails
    BY <2>1, <2>2, FailsStep
  <2>4. QED BY <2>3 DEF Service!ServiceNext
<1>10. CASE BodyCut
  <2>1. PICK k \in 1..(need - 1) : k <= Len(line) /\ Resync(k)
    BY <1>10 DEF BodyCut
  <2>2. k \in 0..Len(line) /\ pc # "idle" /\ UNCHANGED devices
    BY <1>1, <1>10, <2>1 DEF BodyCut
  <2>3. Service!Lost
    BY <1>2, <2>1, <2>2
  <2>4. QED BY <2>3 DEF Service!ServiceNext
<1>11. CASE ReadFails
  <2>1. PICK k \in Nat : k <= Len(line) /\ Return(Failed("error"), k)
    BY <1>1, <1>11 DEF ReadFails
  <2>2. k \in 0..Len(line) /\ pc # "idle" /\ UNCHANGED devices
    BY <1>1, <1>11, <2>1 DEF ReadFails
  <2>3. Service!Fails
    BY <2>1, <2>2, FailsStep
  <2>4. QED BY <2>3 DEF Service!ServiceNext
<1>12. CASE Discard
  <2>1. PICK k \in 0..Len(line) : Return(Failed("error"), k)
    BY <1>12 DEF Discard
  <2>2. pc # "idle" /\ UNCHANGED devices
    BY <1>12 DEF Discard
  <2>3. Service!Fails
    BY <2>1, <2>2, FailsStep
  <2>4. QED BY <2>3 DEF Service!ServiceNext
<1>13. CASE Silence
  <2>1. Service!Lost
    BY <1>13, LostStep DEF Silence, devices, OnLine
  <2>2. QED BY <2>1 DEF Service!ServiceNext
<1>14. ASSUME NEW n \in due, DeviceAnswers(n) PROVE Service!Lost
  <2>1. /\ line' = line \o Frame(n) /\ due' = due \ {n} /\ line \in Seq(Bytes)
        /\ UNCHANGED <<asked, pc, result>>
    BY <1>14 DEF DeviceAnswers, RInv, TypeOK
  <2>2. OnLine' \subseteq OnLine \cup {n}
    BY <1>14, DeviceAnswersKeeps
  <2>3. QED BY <2>1, <2>2, LostStep
<1>15. ASSUME NEW n \in due, Unanswered(n) PROVE Service!Lost
  BY <1>15, LostStep DEF Unanswered, OnLine
<1>16. ASSUME Fault, OnLine' \ {0} \subseteq OnLine PROVE Service!Lost
  BY <1>16, LostStep DEF Fault
<1>17. ASSUME NEW i \in DOMAIN line, ByteChanges(i) \/ ByteLost(i) PROVE Service!Lost
  BY <1>16, <1>17, ByteChangesKeeps, ByteLostKeeps DEF ByteChanges, ByteLost
<1>18. CASE NoiseArrives
  BY <1>16, <1>18, NoiseArrivesKeeps DEF NoiseArrives, Service!ServiceNext
<1>19. CASE UNCHANGED vars
  BY <1>19 DEF vars, Service!served, OnLine
<1>20. QED
  BY <1>3, <1>4, <1>5, <1>6, <1>7, <1>8, <1>9, <1>10, <1>11, <1>12, <1>13, <1>14, <1>15,
     <1>17, <1>18, <1>19 DEF Next, Transport, Service!ServiceNext

\* The transport implements ExchangeService (rtu_transport.go:59-110).
THEOREM ServiceImplemented == Spec => ServesExchange
<1>1. Init => Service!ServiceInit
  <2>1. SUFFICES ASSUME Init PROVE Service!ServiceInit
    OBVIOUS
  <2>2. pc = "idle" /\ due = {} /\ OnLine = {} /\ result.req = 0
    BY <2>1 DEF Init, OnLine, NoResult
  <2>3. QED BY <2>2 DEF Service!ServiceInit
<1>2. RInv /\ [Next]_vars => [Service!ServiceNext]_(Service!served)
  BY ServiceStep
<1>3. QED BY <1>1, <1>2, RtuInvariance, PTL DEF Spec, ServesExchange, Service!ServiceSpec

-----------------------------------------------------------------------------
(***************************************************************************)
(* The CRC itself, for frames of every length. crcAdd is a loop over the   *)
(* bytes of a frame, so these are inductions over their number.            *)
(***************************************************************************)

\* A set of numbers has a least one.
LEMMA LeastOf ==
  ASSUME NEW T, T \subseteq Nat, T # {}
  PROVE  \E m \in T : \A k \in T : m <= k
<1>1. PICK m \in T : \A k \in T : ~ (<<k, m>> \in OpToRel(<, Nat))
  BY NatLessThanWellFounded, WFMin
<1>2. OpToRel(<, Nat) = {ss \in Nat \X Nat : ss[1] < ss[2]}
  BY DEF OpToRel
<1>3. ASSUME NEW k \in T PROVE m <= k
  <2>1. ~ (<<k, m>> \in {ss \in Nat \X Nat : ss[1] < ss[2]})
    BY <1>1, <1>2, Zenon
  <2>2. QED BY <2>1
<1>4. QED BY <1>3

\* Induction, for a set instead of a predicate: what is said of a number is said by
\* its membership.
LEMMA ReachesAll ==
  ASSUME NEW a \in Nat, NEW G, a \in G, NEW b \in Nat,
         \A n \in Nat : a <= n /\ n < b /\ n \in G => n + 1 \in G
  PROVE  \A n \in Nat : a <= n /\ n <= b => n \in G
<1> DEFINE T == {n \in Nat : a <= n /\ n <= b /\ n \notin G}
<1>1. SUFFICES ASSUME T # {} PROVE FALSE
  OBVIOUS
<1>2. PICK m \in T : \A k \in T : m <= k
  BY <1>1, LeastOf
<1>3. m \in Nat /\ a < m /\ m <= b /\ m \notin G
  OBVIOUS
<1>4. m - 1 \in Nat /\ a <= m - 1 /\ m - 1 < b /\ m - 1 \notin T
  BY <1>2, <1>3
<1>5. m - 1 \in G /\ (m - 1) + 1 = m
  BY <1>3, <1>4
<1>6. QED BY <1>3, <1>4, <1>5

\* What the two sets are; the provers are not to take them apart.
LEMMA Octets == \A x : x \in Octet <=> x \in Nat /\ x < 256
BY DEF Octet

\* What a register may be, as numbers.
LEMMA Registers == \A x : x \in Register <=> x \in Nat /\ x < 65536
<1> DEFINE top == 65535
<1>1. top \in Nat
  OBVIOUS
<1>2. Register = 0..top
  BY DEF Register
<1> HIDE DEF top
<1>3. \A x : x \in Register <=> x \in Nat /\ x <= top
  BY <1>1, <1>2
<1>4. QED BY <1>3 DEF top

\* The two bytes of a register.
LEMMA Halves ==
  ASSUME NEW c \in Register
  PROVE  Low(c) \in Octet /\ High(c) \in Octet /\ c = 256 * High(c) + Low(c)
<1>1. c \in Nat /\ c < 65536
  BY Registers
<1>2. /\ c % 256 \in Nat /\ c % 256 < 256
      /\ c \div 256 \in Nat /\ c \div 256 < 256
      /\ c = 256 * (c \div 256) + (c % 256)
  BY <1>1
<1>3. QED BY <1>2, Octets DEF Low, High

\* Two bytes make a register, and can be told from it.
LEMMA Joined ==
  ASSUME NEW h \in Octet, NEW l \in Octet
  PROVE  /\ 256 * h + l \in Register
         /\ High(256 * h + l) = h /\ Low(256 * h + l) = l
<1>1. h \in Nat /\ l \in Nat /\ h < 256 /\ l < 256
  BY Octets
<1>2. (256 * h + l) \div 256 = h /\ (256 * h + l) % 256 = l
  BY <1>1
<1>3. 256 * h + l \in Nat /\ 256 * h + l < 65536
  BY <1>1
<1>4. QED BY <1>2, <1>3, Registers DEF Low, High

\* An exclusive or tells what was added to the same byte.
LEMMA XorTells ==
  ASSUME NEW x \in Octet, NEW y \in Octet, NEW z \in Octet
  PROVE  /\ xor(x, z) = xor(y, z) => x = y
         /\ xor(z, x) = xor(z, y) => x = y
<1>1. xor(xor(x, z), z) = x /\ xor(xor(y, z), z) = y
  BY XorCancels, Zenon
<1>2. xor(x, z) = xor(z, x) /\ xor(y, z) = xor(z, y)
  BY XorCancels, Zenon
<1>3. xor(x, z) = xor(y, z) => x = y
  BY <1>1, Zenon
<1>4. xor(z, x) = xor(z, y) => x = y
  BY <1>2, <1>3, Zenon
<1>5. QED BY <1>3, <1>4, Zenon

\* Adding 0 adds nothing.
LEMMA XorWithNothing == \A x \in Octet : xor(x, 0) = x
<1>1. SUFFICES ASSUME NEW x \in Octet PROVE xor(x, 0) = x
  OBVIOUS
<1>2. xor(xor(x, x), x) = x /\ xor(x, x) = 0
  BY XorCancels, NoEntryForNothing, Zenon
<1>3. 0 \in Octet
  BY Octets
<1>4. xor(0, x) = xor(x, 0)
  BY <1>3, XorCancels, Zenon
<1>5. QED BY <1>2, <1>4

\* The index of the entry that is added for b.
EntryAt(c, b) == xor(b, Low(c))
EntryFor(c, b) == crcTable[EntryAt(c, b) + 1]

\* One byte of a frame makes a register of a register: its high byte is that of the entry,
\* its low byte the old high one with the entry's low byte added.
LEMMA StepParts ==
  ASSUME NEW c \in Register, NEW b \in Octet
  PROVE  /\ EntryAt(c, b) \in Octet
         /\ EntryFor(c, b) \in Register
         /\ crcStep(c, b) \in Register
         /\ High(crcStep(c, b)) = High(EntryFor(c, b))
         /\ Low(crcStep(c, b)) = xor(High(c), Low(EntryFor(c, b)))
<1>1. Low(c) \in Octet /\ High(c) \in Octet
  BY Halves, Zenon
<1>2. EntryAt(c, b) \in Octet
  BY <1>1, XorCancels, Zenon DEF EntryAt
<1>3. EntryFor(c, b) \in Register
  BY <1>2, TableIsOfPolynomial, Zenon DEF EntryFor
<1>4. High(EntryFor(c, b)) \in Octet /\ Low(EntryFor(c, b)) \in Octet
  BY <1>3, Halves, Zenon
<1>5. xor(High(c), Low(EntryFor(c, b))) \in Octet
  BY <1>1, <1>4, XorCancels, Zenon
<1>6. crcStep(c, b) = 256 * High(EntryFor(c, b)) + xor(High(c), Low(EntryFor(c, b)))
  BY Zenon DEF crcStep, EntryAt, EntryFor
<1>7. QED BY <1>2, <1>3, <1>4, <1>5, <1>6, Joined

\* Two steps that leave the same register used the same entry; with equal bytes they began
\* at the same register.
LEMMA StepTells ==
  ASSUME NEW c \in Register, NEW d \in Register, NEW b \in Octet, NEW e \in Octet,
         crcStep(c, b) = crcStep(d, e)
  PROVE  /\ EntryAt(c, b) = EntryAt(d, e) /\ High(c) = High(d)
         /\ b = e => c = d
         /\ c = d => b = e
<1>1. /\ EntryAt(c, b) \in Octet /\ EntryAt(d, e) \in Octet
      /\ EntryFor(c, b) \in Register
      /\ High(EntryFor(c, b)) = High(EntryFor(d, e))
      /\ xor(High(c), Low(EntryFor(c, b))) = xor(High(d), Low(EntryFor(d, e)))
  BY StepParts
<1>2. EntryAt(c, b) = EntryAt(d, e)
  BY <1>1, HighBytesDiffer, Zenon DEF EntryFor
<1>3. /\ Low(c) \in Octet /\ High(c) \in Octet /\ c = 256 * High(c) + Low(c)
      /\ Low(d) \in Octet /\ High(d) \in Octet /\ d = 256 * High(d) + Low(d)
  BY Halves, Zenon
<1>4. High(c) = High(d)
  <2>1. Low(EntryFor(c, b)) \in Octet
    BY <1>1, Halves, Zenon
  <2>2. EntryFor(c, b) = EntryFor(d, e)
    BY <1>2, Zenon DEF EntryFor
  <2>3. QED BY <1>1, <1>3, <2>1, <2>2, XorTells, Zenon
<1>5. b = e => c = d
  <2>1. b = e => Low(c) = Low(d)
    BY <1>2, <1>3, XorTells, Zenon DEF EntryAt
  <2>2. QED BY <1>3, <1>4, <2>1, Zenon
<1>6. c = d => b = e
  BY <1>2, <1>3, XorTells, Zenon DEF EntryAt
<1>7. QED BY <1>2, <1>4, <1>5, <1>6, Zenon

\* From one register, two bytes leave a register that tells them both.
LEMMA TwoStepsTell ==
  ASSUME NEW c \in Register,
         NEW b1 \in Octet, NEW b2 \in Octet, NEW e1 \in Octet, NEW e2 \in Octet,
         crcStep(crcStep(c, b1), b2) = crcStep(crcStep(c, e1), e2)
  PROVE  b1 = e1 /\ b2 = e2
<1>1. crcStep(c, b1) \in Register /\ crcStep(c, e1) \in Register
  BY StepParts, Zenon
<1>2. High(crcStep(c, b1)) = High(crcStep(c, e1))
  BY <1>1, StepTells, Zenon
<1>3. /\ EntryAt(c, b1) \in Octet /\ EntryAt(c, e1) \in Octet
      /\ High(EntryFor(c, b1)) = High(EntryFor(c, e1))
  BY <1>2, StepParts, Zenon
<1>4. EntryAt(c, b1) = EntryAt(c, e1)
  BY <1>3, HighBytesDiffer, Zenon DEF EntryFor
<1>5. Low(c) \in Octet
  BY Halves, Zenon
<1>6. b1 = e1
  BY <1>4, <1>5, XorTells, Zenon DEF EntryAt
<1>7. b2 = e2
  BY <1>1, <1>6, StepTells
<1>8. QED BY <1>6, <1>7

\* The register is brought to zero by its own two bytes, and by no others.
LEMMA OwnBytesClear ==
  ASSUME NEW c \in Register, NEW low \in Octet, NEW high \in Octet
  PROVE  crcStep(crcStep(c, low), high) = 0 <=> 256 * high + low = c
<1>1. Low(c) \in Octet /\ High(c) \in Octet /\ c = 256 * High(c) + Low(c) /\ 0 \in Octet
  BY Halves, Octets
<1>2. crcStep(crcStep(c, Low(c)), High(c)) = 0
  <2>1. /\ crcStep(c, Low(c)) = 256 * High(crcTable[1]) + xor(High(c), Low(crcTable[1]))
        /\ xor(Low(c), Low(c)) = 0
    BY <1>1, NoEntryForNothing DEF crcStep
  <2>2. High(0) = 0 /\ Low(0) = 0 /\ crcTable[1] = 0
    BY NoEntryForNothing DEF High, Low
  <2>3. xor(High(c), 0) = High(c) /\ xor(0, 0) = 0
    BY <1>1, NoEntryForNothing, XorWithNothing
  <2>4. crcStep(c, Low(c)) = High(c)
    BY <1>1, <2>1, <2>2, <2>3, Octets
  <2>5. Low(High(c)) = High(c) /\ High(High(c)) = 0
    BY <1>1, Octets DEF Low, High
  <2>6. crcStep(High(c), High(c)) = 256 * High(crcTable[1]) + xor(0, Low(crcTable[1]))
    BY <1>1, <2>5, NoEntryForNothing DEF crcStep
  <2>7. QED BY <2>2, <2>3, <2>4, <2>6
<1>3. ASSUME crcStep(crcStep(c, low), high) = 0 PROVE low = Low(c) /\ high = High(c)
  BY <1>1, <1>2, <1>3, TwoStepsTell
<1>4. ASSUME 256 * high + low = c PROVE low = Low(c) /\ high = High(c)
  BY <1>4, Joined
<1>5. QED BY <1>1, <1>2, <1>3, <1>4

\* The registers after each byte of in.
Loop(crc, in, f) ==
  /\ f \in [0..Len(in) -> Register]
  /\ f[0] = crc
  /\ \A n \in 1..Len(in) : f[n] = crcStep(f[n - 1], in[n])

\* The loop over a frame has a value at each of its places.
LEMMA LoopExists ==
  ASSUME NEW crc \in Register, NEW in \in Seq(Octet)
  PROVE  \E f : Loop(crc, in, f)
<1> DEFINE Upto(k, f) == /\ f \in [0..k -> Register]
                         /\ f[0] = crc
                         /\ \A n \in 1..k : f[n] = crcStep(f[n - 1], in[n])
           G == {k \in Nat : \E f : Upto(k, f)}
<1>1. Len(in) \in Nat /\ \A n \in 1..Len(in) : in[n] \in Octet
  OBVIOUS
<1>2. 0 \in G
  <2>1. Upto(0, [n \in 0..0 |-> crc])
    OBVIOUS
  <2>2. QED BY <2>1
<1>3. ASSUME NEW k \in Nat, 0 <= k, k < Len(in), k \in G PROVE k + 1 \in G
  <2>1. PICK f : Upto(k, f)
    BY <1>3
  <2> DEFINE g == [n \in 0..(k + 1) |-> IF n = k + 1 THEN crcStep(f[k], in[k + 1]) ELSE f[n]]
  <2>2. f[k] \in Register /\ in[k + 1] \in Octet
    BY <1>1, <1>3, <2>1
  <2>3. crcStep(f[k], in[k + 1]) \in Register
    BY <2>2, StepParts, Zenon
  <2>4. g \in [0..(k + 1) -> Register]
    BY <2>1, <2>3
  <2>5. g[0] = crc
    BY <2>1
  <2>6. ASSUME NEW n \in 1..(k + 1) PROVE g[n] = crcStep(g[n - 1], in[n])
    <3>1. CASE n = k + 1
      BY <3>1
    <3>2. CASE n # k + 1
      <4>1. n \in 1..k /\ n - 1 \in 0..k
        BY <3>2
      <4>2. g[n] = f[n] /\ g[n - 1] = f[n - 1]
        BY <3>2, <4>1
      <4>3. QED BY <2>1, <4>1, <4>2
    <3>3. QED BY <3>1, <3>2
  <2>7. Upto(k + 1, g)
    BY <2>4, <2>5, <2>6
  <2>8. k + 1 \in Nat
    BY <1>3
  <2>9. QED BY <2>7, <2>8
<1>4. Len(in) \in G
  <2> HIDE DEF G
  <2>1. \A n \in Nat : 0 <= n /\ n < Len(in) /\ n \in G => n + 1 \in G
    BY <1>3
  <2>2. 0 \in Nat /\ Len(in) \in Nat
    BY <1>1
  <2>3. \A n \in Nat : 0 <= n /\ n <= Len(in) => n \in G
    BY <1>2, <2>1, <2>2, ReachesAll, Zenon
  <2>4. QED BY <2>2, <2>3
<1>5. QED BY <1>4 DEF Loop

\* crcAdd returns the last of them.
LEMMA AddLoops ==
  ASSUME NEW crc \in Register, NEW in \in Seq(Octet)
  PROVE  \E f : Loop(crc, in, f) /\ crcAdd(crc, in) = f[Len(in)]
<1> DEFINE after[n \in 0..Len(in)] == IF n = 0 THEN crc ELSE crcStep(after[n - 1], in[n])
<1>1. PICK f : Loop(crc, in, f)
  BY LoopExists
<1>2. f = [n \in 0..Len(in) |-> IF n = 0 THEN crc ELSE crcStep(f[n - 1], in[n])]
  BY <1>1 DEF Loop
<1>3. after = [n \in 0..Len(in) |-> IF n = 0 THEN crc ELSE crcStep(after[n - 1], in[n])]
  BY <1>2
<1>4. crcAdd(crc, in) = after[Len(in)]
  BY DEF crcAdd
<1> HIDE DEF after
<1>5. Len(in) \in Nat
  OBVIOUS
<1> DEFINE G == {n \in 0..Len(in) : after[n] = f[n]}
<1>6. 0 \in G
  BY <1>1, <1>3, <1>5 DEF Loop
<1>7. ASSUME NEW n \in Nat, 0 <= n, n < Len(in), n \in G PROVE n + 1 \in G
  <2>1. n + 1 \in 0..Len(in) /\ n + 1 # 0 /\ (n + 1) - 1 = n
    BY <1>5, <1>7
  <2>2. after[n + 1] = crcStep(after[n], in[n + 1])
    BY <1>3, <2>1
  <2>3. f[n + 1] = crcStep(f[n], in[n + 1])
    BY <1>2, <2>1
  <2>4. QED BY <1>7, <2>1, <2>2, <2>3
<1>8. Len(in) \in G
  <2> HIDE DEF G
  <2>1. \A n \in Nat : 0 <= n /\ n < Len(in) /\ n \in G => n + 1 \in G
    BY <1>7
  <2>2. 0 \in Nat /\ Len(in) \in Nat
    BY <1>5
  <2>3. \A n \in Nat : 0 <= n /\ n <= Len(in) => n \in G
    BY <1>6, <2>1, <2>2, ReachesAll, Zenon
  <2>4. QED BY <2>2, <2>3
<1>9. QED BY <1>1, <1>4, <1>8

\* Two frames whose bytes agree up to m leave the same register.
LEMMA SameSoFar ==
  ASSUME NEW crc \in Register, NEW a \in Seq(Octet), NEW b \in Seq(Octet), NEW f, NEW g,
         Loop(crc, a, f), Loop(crc, b, g),
         NEW m \in Nat, m <= Len(a), m <= Len(b), \A n \in 1..m : a[n] = b[n]
  PROVE  f[m] = g[m]
<1> DEFINE G == {n \in 0..m : f[n] = g[n]}
<1>1. Len(a) \in Nat /\ Len(b) \in Nat
  OBVIOUS
<1>2. 0 \in G
  BY DEF Loop
<1>3. ASSUME NEW n \in Nat, 0 <= n, n < m, n \in G PROVE n + 1 \in G
  <2>1. /\ n + 1 \in 1..Len(a) /\ n + 1 \in 1..Len(b) /\ n + 1 \in 1..m
        /\ (n + 1) - 1 = n /\ f[n] = g[n]
    BY <1>1, <1>3
  <2>2. f[n + 1] = crcStep(f[n], a[n + 1]) /\ g[n + 1] = crcStep(g[n], b[n + 1])
    BY <2>1 DEF Loop
  <2>3. QED BY <2>1, <2>2
<1> HIDE DEF G
<1>4. \A n \in Nat : 0 <= n /\ n < m /\ n \in G => n + 1 \in G
  BY <1>3
<1>5. 0 \in Nat
  OBVIOUS
<1>6. \A n \in Nat : 0 <= n /\ n <= m => n \in G
  BY <1>2, <1>4, <1>5, ReachesAll, Zenon
<1>7. m \in G
  BY <1>6
<1>8. QED BY <1>7 DEF G

\* Once two registers differ, equal bytes keep them apart.
LEMMA StayApart ==
  ASSUME NEW crc \in Register, NEW a \in Seq(Octet), NEW b \in Seq(Octet), NEW f, NEW g,
         Loop(crc, a, f), Loop(crc, b, g), Len(a) = Len(b),
         NEW m \in 0..Len(a), f[m] # g[m], \A n \in (m + 1)..Len(a) : a[n] = b[n]
  PROVE  f[Len(a)] # g[Len(a)]
<1> DEFINE G == {n \in m..Len(a) : f[n] # g[n]}
<1>1. Len(a) \in Nat /\ m \in Nat
  OBVIOUS
<1>2. m \in G
  BY <1>1
<1>3. ASSUME NEW n \in Nat, m <= n, n < Len(a), n \in G PROVE n + 1 \in G
  <2>1. /\ n + 1 \in 1..Len(a) /\ n + 1 \in (m + 1)..Len(a) /\ n + 1 \in m..Len(a)
        /\ n \in 0..Len(a) /\ (n + 1) - 1 = n /\ f[n] # g[n]
    BY <1>1, <1>3
  <2>2. f[n + 1] = crcStep(f[n], a[n + 1]) /\ g[n + 1] = crcStep(g[n], b[n + 1])
    BY <2>1 DEF Loop
  <2>3. f[n] \in Register /\ g[n] \in Register /\ a[n + 1] \in Octet /\ b[n + 1] \in Octet
    BY <2>1 DEF Loop
  <2>4. a[n + 1] = b[n + 1]
    BY <2>1
  <2>5. f[n + 1] # g[n + 1]
    BY <2>1, <2>2, <2>3, <2>4, StepTells
  <2>6. QED BY <2>1, <2>5
<1> HIDE DEF G
<1>4. \A n \in Nat : m <= n /\ n < Len(a) /\ n \in G => n + 1 \in G
  BY <1>3
<1>5. \A n \in Nat : m <= n /\ n <= Len(a) => n \in G
  BY <1>1, <1>2, <1>4, ReachesAll, Zenon
<1>6. Len(a) \in G
  BY <1>1, <1>5
<1>7. QED BY <1>6 DEF G

\* A frame passes if, and only if, its own CRC brings the register to zero.
LEMMA PassesAtZero ==
  ASSUME NEW frame \in Seq(Octet), Len(frame) >= 2, NEW f, Loop(crcInit, frame, f)
  PROVE  Passes(frame) <=> f[Len(frame)] = 0
<1> DEFINE L == Len(frame)
           body == SubSeq(frame, 1, L - 2)
           c == f[L - 2]
           low == frame[L - 1]
           high == frame[L]
<1>1. crcInit \in Register
  BY Registers DEF crcInit
<1>2. L \in Nat /\ L - 2 \in 0..L /\ L - 1 \in 1..L /\ L \in 1..L
  OBVIOUS
<1>3. body \in Seq(Octet) /\ Len(body) = L - 2 /\ \A n \in 1..(L - 2) : body[n] = frame[n]
  <2>1. 1 \in Int /\ L - 2 \in Int /\ \A n \in 1..(L - 2) : frame[n] \in Octet
    BY <1>2
  <2>2. /\ body \in Seq(Octet) /\ Len(body) = IF 1 <= L - 2 THEN (L - 2) - 1 + 1 ELSE 0
        /\ \A n \in 1..((L - 2) - 1 + 1) : body[n] = frame[1 + n - 1]
    BY <2>1, SubSeqProperties
  <2> HIDE DEF body
  <2>3. Len(body) = L - 2
    <3> HIDE DEF L
    <3>1. L \in Int /\ L - 2 >= 0
      BY <1>2
    <3>2. Len(body) = IF 1 <= L - 2 THEN (L - 2) - 1 + 1 ELSE 0
      BY <2>2
    <3>3. QED BY <3>1, <3>2
  <2>4. ASSUME NEW n \in 1..(L - 2) PROVE body[n] = frame[n]
    <3>1. n \in 1..((L - 2) - 1 + 1) /\ 1 + n - 1 = n
      BY <1>2
    <3>2. QED BY <2>2, <3>1
  <2>5. QED BY <2>2, <2>3, <2>4
<1>4. c \in Register /\ low \in Octet /\ high \in Octet
  BY <1>2 DEF Loop
<1>5. PICK g : Loop(crcInit, body, g) /\ crcAdd(crcInit, body) = g[Len(body)]
  BY <1>1, <1>3, AddLoops
<1>6. g[L - 2] = c
  <2> DEFINE m == L - 2
  <2> HIDE DEF body
  <2>1. /\ m \in Nat /\ m <= Len(frame) /\ m <= Len(body)
        /\ \A n \in 1..m : frame[n] = body[n]
    BY <1>2, <1>3
  <2> HIDE DEF m, L, c
  <2>2. f[m] = g[m]
    BY <1>1, <1>3, <1>5, <2>1, SameSoFar
  <2>3. QED BY <2>2 DEF m, c
<1>7. Passes(frame) <=> 256 * high + low = c
  BY <1>3, <1>5, <1>6 DEF Passes, crcIsEqual, crcOf
<1>8. f[L - 1] = crcStep(c, low) /\ f[L] = crcStep(crcStep(c, low), high)
  <2>1. f[L - 1] = crcStep(f[(L - 1) - 1], low) /\ (L - 1) - 1 = L - 2
    BY <1>2 DEF Loop
  <2>2. f[L] = crcStep(f[L - 1], high)
    BY <1>2 DEF Loop
  <2>3. QED BY <2>1, <2>2
<1> HIDE DEF L, body, c, low, high
<1>9. QED BY <1>4, <1>7, <1>8, OwnBytesClear DEF L


\* What assembleRTUFrame sends passes readRTUFrame, whatever its bytes are.
THEOREM OwnCrcPasses ==
  ASSUME NEW frame \in Seq(Octet)
  PROVE  Passes(WithCrc(frame))
<1> DEFINE c == crcOf(frame)
           sent == WithCrc(frame)
<1>1. c \in Register
  <2>1. crcInit \in Register
    BY Registers DEF crcInit
  <2>2. PICK f : Loop(crcInit, frame, f) /\ crcAdd(crcInit, frame) = f[Len(frame)]
    BY <2>1, AddLoops
  <2>3. QED BY <2>2 DEF Loop, crcOf
<1>2. Low(c) \in Octet /\ High(c) \in Octet /\ c = 256 * High(c) + Low(c)
  BY <1>1, Halves
<1>3. sent = frame \o <<Low(c), High(c)>>
  BY DEF WithCrc, crcValue
<1> HIDE DEF c, sent
<1>4. /\ Len(sent) = Len(frame) + 2
      /\ sent[Len(sent) - 1] = Low(c) /\ sent[Len(sent)] = High(c)
      /\ SubSeq(sent, 1, Len(sent) - 2) = frame
  BY <1>2, <1>3
<1>5. crcOf(SubSeq(sent, 1, Len(sent) - 2)) = c
  BY <1>4 DEF c
<1>6. QED BY <1>2, <1>4, <1>5 DEF Passes, crcIsEqual, sent

\* A frame whose bytes were changed on the line does not pass when the changed
\* bytes are one, or two in a row, the CRC's own included.
THEOREM ChangesAreTold ==
  ASSUME NEW sent \in Seq(Octet), NEW got \in Seq(Octet),
         Len(got) = Len(sent), Len(sent) >= 2, Passes(sent),
         NEW i \in 1..(Len(sent) - 1),
         \A n \in 1..Len(sent) : n \notin {i, i + 1} => got[n] = sent[n],
         got # sent
  PROVE  ~ Passes(got)
<1> DEFINE L == Len(sent)
<1>1. L \in Nat /\ i \in Nat /\ i - 1 \in 0..L /\ i + 1 \in 1..L /\ i \in 1..L
  OBVIOUS
<1>2. crcInit \in Register
  BY Registers DEF crcInit
<1>3. PICK f : Loop(crcInit, sent, f)
  BY <1>2, LoopExists
<1>4. PICK g : Loop(crcInit, got, g)
  BY <1>2, LoopExists
<1>5. SUFFICES ASSUME Passes(got) PROVE FALSE
  OBVIOUS
<1>6. f[L] = 0 /\ g[L] = 0
  BY <1>3, <1>4, <1>5, PassesAtZero
<1>7. f[i - 1] = g[i - 1]
  <2>1. i - 1 \in Nat /\ i - 1 <= Len(sent) /\ i - 1 <= Len(got)
    BY <1>1
  <2>2. \A n \in 1..(i - 1) : sent[n] = got[n]
    BY <1>1
  <2>3. QED BY <1>2, <1>3, <1>4, <2>1, <2>2, SameSoFar
<1>8. f[i + 1] = g[i + 1]
  <2>1. SUFFICES ASSUME f[i + 1] # g[i + 1] PROVE FALSE
    OBVIOUS
  <2>2. i + 1 \in 0..Len(sent) /\ \A n \in ((i + 1) + 1)..Len(sent) : sent[n] = got[n]
    BY <1>1
  <2>3. f[L] # g[L]
    BY <1>2, <1>3, <1>4, <2>1, <2>2, StayApart
  <2>4. QED BY <1>6, <2>3
<1>9. /\ f[i - 1] \in Register /\ sent[i] \in Octet /\ sent[i + 1] \in Octet
      /\ got[i] \in Octet /\ got[i + 1] \in Octet
  BY <1>1, <1>3 DEF Loop
<1>10. f[i + 1] = crcStep(crcStep(f[i - 1], sent[i]), sent[i + 1])
  BY <1>1, <1>3 DEF Loop
<1>11. g[i + 1] = crcStep(crcStep(g[i - 1], got[i]), got[i + 1])
  BY <1>1, <1>4 DEF Loop
<1>12. sent[i] = got[i] /\ sent[i + 1] = got[i + 1]
  <2>1. crcStep(crcStep(f[i - 1], sent[i]), sent[i + 1]) = crcStep(crcStep(f[i - 1], got[i]), got[i + 1])
    BY <1>7, <1>8, <1>10, <1>11
  <2>2. QED BY <1>9, <2>1, TwoStepsTell
<1>13. \A n \in 1..Len(sent) : got[n] = sent[n]
  BY <1>12
<1>14. QED BY <1>13
=============================================================================
