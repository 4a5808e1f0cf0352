------------------------- MODULE TcpTransportProofs -------------------------
(* Proofs about TcpTransport for every number of transaction ids, of        *)
(* requests and of frames under way.                                        *)
EXTENDS TcpTransport, SequenceTheorems, TLAPS

\* Division with remainder.
LEMMA Division ==
  ASSUME NEW m \in Nat \ {0}, NEW a \in Nat
  PROVE  /\ a \div m \in Nat
         /\ a % m \in 0..(m - 1) /\ a % m \in Nat
         /\ a = m * (a \div m) + (a % m)
<1>1. a \div m \in Int /\ a % m \in 0..(m - 1) /\ a % m \in Nat
  OBVIOUS
<1>2. a = m * (a \div m) + (a % m)
  OBVIOUS
<1>3. a \div m \in Nat
  OBVIOUS
<1>4. QED BY <1>1, <1>2, <1>3

\* A product of m and another integer is 0 or no smaller than m.
LEMMA Multiple ==
  ASSUME NEW m \in Nat \ {0}, NEW k \in Int, m * k \in 0..(m - 1)
  PROVE  k = 0
<1>1. CASE k >= 1
  <2>1. m * k >= m
    BY <1>1
  <2>2. QED BY <2>1
<1>2. CASE k <= -1
  <2>1. m * k <= -m
    BY <1>2
  <2>2. QED BY <2>1
<1>3. QED BY <1>1, <1>2

\* Remainders tell numbers apart that are less than m from one another.
LEMMA RemainderUnique ==
  ASSUME NEW m \in Nat \ {0}, NEW a \in Nat, NEW b \in Nat,
         a <= b, b - a < m, a % m = b % m
  PROVE  a = b
<1> DEFINE k == (b \div m) - (a \div m)
<1>1. /\ a \div m \in Nat /\ a = m * (a \div m) + (a % m)
      /\ b \div m \in Nat /\ b = m * (b \div m) + (b % m)
      /\ a % m \in Nat
  BY Division
<1>2. k \in Int /\ b - a = m * k
  BY <1>1
<1>3. m * k \in 0..(m - 1)
  BY <1>2
<1>4. k = 0
  <2> HIDE DEF k
  <2>1. QED BY <1>2, <1>3, Multiple
<1>5. QED BY <1>2, <1>4

\* The transaction id goes with the number of the request (tcp_transport.go:50).
LEMMA NextRemainder ==
  ASSUME NEW m \in Nat \ {0}, NEW a \in Nat
  PROVE  ((a % m) + 1) % m = (a + 1) % m
<1> DEFINE r == a % m
<1> DEFINE s == (a + 1) % m
<1> DEFINE t == (r + 1) % m
<1>1. r \in Nat /\ a \div m \in Nat /\ a = m * (a \div m) + r
  BY Division
<1>2. s \in 0..(m - 1) /\ (a + 1) \div m \in Nat /\ a + 1 = m * ((a + 1) \div m) + s
  <2>1. a + 1 \in Nat
    OBVIOUS
  <2> HIDE DEF r, t
  <2>2. QED BY <2>1, Division
<1>3. t \in 0..(m - 1) /\ (r + 1) \div m \in Nat /\ r + 1 = m * ((r + 1) \div m) + t
  <2>1. r + 1 \in Nat
    BY <1>1
  <2> HIDE DEF r, s
  <2>2. QED BY <2>1, Division
<1> DEFINE k == (a \div m) + ((r + 1) \div m) - ((a + 1) \div m)
<1> HIDE DEF r, s, t
<1>4. k \in Int /\ s - t = m * k
  BY <1>1, <1>2, <1>3
<1>5. CASE s >= t
  <2>1. m * k \in 0..(m - 1)
    BY <1>2, <1>3, <1>4, <1>5
  <2>2. k = 0
    <3> HIDE DEF k
    <3>1. QED BY <1>4, <2>1, Multiple
  <2>3. s = t
    BY <1>2, <1>3, <1>4, <2>2
  <2>4. QED BY <2>3 DEF s, t, r
<1>6. CASE s < t
  <2>1. m * (-k) \in 0..(m - 1)
    BY <1>2, <1>3, <1>4, <1>6
  <2>2. -k = 0
    <3> HIDE DEF k
    <3>1. QED BY <1>4, <2>1, Multiple
  <2>3. s = t
    BY <1>2, <1>3, <1>4, <2>2
  <2>4. QED BY <2>3 DEF s, t, r
<1>7. QED BY <1>2, <1>3, <1>5, <1>6

-----------------------------------------------------------------------------
\* Nothing has been asked or answered at first.
LEMMA InitTInv == Init => TInv
<1> SUFFICES ASSUME Init PROVE TInv
  OBVIOUS
<1>1. 0 % TxnIds = 0 /\ 0 \in 0..(TxnIds - 1)
  BY TransportAssumption
<1>2. stream = << >> /\ stream \in Seq(Frames)
  BY DEF Init
<1>3. result \in Results /\ result.kind # "answer"
  BY DEF Init, Results, NoResult
<1>4. head = NoFrame /\ head.kind = "none"
  BY DEF Init, NoFrame
<1>5. leftover \in BOOLEAN /\ closed \in BOOLEAN
  BY DEF Init
<1>6. asked \in 0..MaxRequests /\ left \in 0..Timeout /\ lastTxnId \in 0..(TxnIds - 1)
  BY <1>1, TransportAssumption DEF Init
<1>7. TypeOK
  BY <1>2, <1>3, <1>4, <1>5, <1>6 DEF Init, TypeOK
<1>8. WrapperInv
  BY <1>2 DEF Init, WrapperInv
<1>9. QED BY <1>1, <1>2, <1>3, <1>4, <1>7, <1>8 DEF Init, TInv

\* What an error returns.
LEMMA FailedType ==
  ASSUME NEW k \in {"none", "garbage", "timeout", "error"}
  PROVE  Failed(k) \in Results /\ Failed(k).kind # "answer" /\ Failed(k).kind = k
BY DEF Failed, Results

\* A frame under way that answers is an answer; the rest of one is no answer.
LEMMA FrameFacts ==
  /\ \A f \in Frames : /\ f.kind \in {"answer", "rest"} \cup StrayKinds
                       /\ f.kind = "answer" => f \in Answer
                       /\ f.kind # "answer" => f.req = 0
  /\ Rest \in Frames /\ Rest.kind = "rest"
<1>1. ASSUME NEW f \in Frames
      PROVE  /\ f.kind \in {"answer", "rest"} \cup StrayKinds
             /\ f.kind = "answer" => f \in Answer
             /\ f.kind # "answer" => f.req = 0
  <2>1. CASE f \in Answer
    BY <2>1 DEF Answer
  <2>2. CASE f \in {Stray(kind) : kind \in StrayKinds \cup {"rest"}}
    BY <2>2 DEF Stray, Frame, NoReq, StrayKinds
  <2>3. QED BY <2>1, <2>2 DEF Frames
<1>2. Rest \in Frames /\ Rest.kind = "rest"
  BY DEF Rest, Stray, Frame, Frames
<1>3. QED BY <1>1, <1>2

\* A sequence of frames of which all are in F is a sequence over F.
LEMMA SeqOver ==
  ASSUME NEW S, NEW F, NEW s \in Seq(S), \A i \in DOMAIN s : s[i] \in F
  PROVE  s \in Seq(F)
<1>1. Len(s) \in Nat /\ DOMAIN s = 1..Len(s) /\ s \in [1..Len(s) -> S]
  OBVIOUS
<1>2. s \in [1..Len(s) -> F]
  BY <1>1
<1>3. QED BY <1>1, <1>2, SeqDef

\* What is behind k frames of what there is to read: no rest but the wrapper's.
LEMMA BehindFrames ==
  ASSUME NEW F, stream \in Seq(F), leftover \in BOOLEAN, NEW k \in 0..Len(Available)
  PROVE  /\ Available \in Seq(F \cup {Rest}) /\ Len(Available) \in Nat
         /\ leftover => Available # << >> /\ Available[1] = Rest
         /\ Behind(k) \in Seq(F \cup {Rest})
         /\ Len(Behind(k)) = Len(Available) - k
         /\ ~(leftover /\ k = 0) => Behind(k) \in Seq(F)
         /\ leftover /\ k = 0 => Behind(k) # << >> /\ Tail(Behind(k)) \in Seq(F)
<1>1. CASE ~leftover
  <2>1. Available = stream /\ Available \in Seq(F)
    BY <1>1 DEF Available
  <2>2. Behind(k) \in Seq(F) /\ Len(Behind(k)) = Len(Available) - k
    BY <2>1 DEF Behind
  <2>3. Available \in Seq(F \cup {Rest}) /\ Behind(k) \in Seq(F \cup {Rest})
    BY <2>1, <2>2, SeqOver
  <2>4. QED BY <1>1, <2>1, <2>2, <2>3
<1>2. CASE leftover
  <2>1. /\ Available = <<Rest>> \o stream /\ stream \in Seq(F \cup {Rest})
        /\ <<Rest>> \in Seq(F \cup {Rest})
    BY <1>2, SeqOver DEF Available
  <2>2. /\ Available \in Seq(F \cup {Rest}) /\ Len(Available) = Len(stream) + 1
        /\ Available[1] = Rest
        /\ \A i \in 2..Len(Available) : Available[i] \in F
    BY <2>1
  <2>3. /\ Behind(k) \in Seq(F \cup {Rest}) /\ Len(Behind(k)) = Len(Available) - k
        /\ \A i \in 1..Len(Behind(k)) : Behind(k)[i] = Available[k + i]
    BY <2>2 DEF Behind
  <2>4. CASE k = 0
    <3>1. Len(Behind(k)) >= 1 /\ Behind(k) # << >>
      BY <2>2, <2>3, <2>4
    <3>2. Tail(Behind(k)) \in Seq(F \cup {Rest})
          /\ \A i \in DOMAIN Tail(Behind(k)) :
               i + 1 \in 2..Len(Behind(k)) /\ Tail(Behind(k))[i] = Behind(k)[i + 1]
      BY <2>3, <3>1, HeadTailProperties
    <3>3. \A i \in DOMAIN Tail(Behind(k)) : Tail(Behind(k))[i] \in F
      BY <2>2, <2>3, <2>4, <3>2
    <3>4. Tail(Behind(k)) \in Seq(F)
      BY <3>2, <3>3, SeqOver
    <3>5. QED BY <2>2, <2>3, <2>4, <3>1, <3>4, EmptySeq
  <2>5. CASE k # 0
    <3>1. ASSUME NEW i \in DOMAIN Behind(k) PROVE Behind(k)[i] \in F
      <4>1. i \in 1..Len(Behind(k)) /\ k + i \in 2..Len(Available)
        BY <2>2, <2>3, <2>5
      <4>2. QED BY <2>2, <2>3, <4>1
    <3>2. Behind(k) \in Seq(F)
      BY <2>3, <3>1, SeqOver
    <3>3. QED BY <2>2, <2>3, <2>5, <3>2, EmptySeq
  <2>6. QED BY <2>4, <2>5
<1>3. QED BY <1>1, <1>2

\* Reads leave frames that were there, and the rest of one: of datagrams in the
\* wrapper, at the head of a stream if it was cut.
LEMMA Taken ==
  ASSUME NEW F, stream \in Seq(F), leftover \in BOOLEAN, link' = link,
         NEW k \in Nat, NEW cut \in BOOLEAN, Takes(k, cut)
  PROVE  /\ stream' \in Seq(F \cup {Rest})
         /\ Datagrams => stream' \in Seq(F) /\ leftover' = Holds(k, cut)
         /\ ~Datagrams => leftover' = leftover
                          /\ (cut => stream' # << >> /\ stream'[1] = Rest)
         /\ leftover' \in BOOLEAN
<1>0. Len(Available) \in Nat
  BY BehindFrames, 0 \in 0..Len(Available) DEF Available
<1>1. Touched(k, cut) <= Len(Available) /\ k \in 0..Len(Available) /\ (cut => k < Len(Available))
  BY <1>0 DEF Takes, Touched
<1> DEFINE rest == Behind(k)
<1>2. /\ rest \in Seq(F \cup {Rest}) /\ Len(rest) = Len(Available) - k
      /\ ~(leftover /\ k = 0) => rest \in Seq(F)
      /\ leftover /\ k = 0 => rest # << >> /\ Tail(rest) \in Seq(F)
  BY <1>1, BehindFrames
<1> HIDE DEF rest
<1>3. cut => /\ rest # << >>
             /\ Tail(rest) \in Seq(F \cup {Rest})
             /\ rest \in Seq(F) => Tail(rest) \in Seq(F)
  BY <1>0, <1>1, <1>2
<1>4. CASE Datagrams
  <2>1. /\ leftover' = Holds(k, cut)
        /\ stream' = IF Holds(k, cut) THEN Tail(rest) ELSE rest
    BY <1>4 DEF Takes, rest
  <2>2. stream' \in Seq(F)
    BY <1>2, <1>3, <2>1 DEF Holds
  <2>3. stream' \in Seq(F \cup {Rest}) /\ leftover' \in BOOLEAN
    BY <2>1, <2>2, SeqOver DEF Holds
  <2>4. QED BY <1>4, <2>1, <2>2, <2>3
<1>5. CASE ~Datagrams
  <2>1. /\ leftover' = leftover
        /\ stream' = IF cut THEN <<Rest>> \o Tail(rest) ELSE rest
    BY <1>5 DEF Takes, rest
  <2>2. cut => /\ <<Rest>> \in Seq(F \cup {Rest}) /\ Tail(rest) \in Seq(F \cup {Rest})
               /\ stream' = <<Rest>> \o Tail(rest)
    BY <1>3, <2>1
  <2>3. cut => stream' \in Seq(F \cup {Rest}) /\ Len(stream') >= 1 /\ stream'[1] = Rest
    BY <2>2
  <2>4. ~cut => stream' \in Seq(F \cup {Rest})
    BY <1>2, <2>1
  <2>5. cut => stream' # << >>
    BY <2>3
  <2>6. QED BY <1>5, <2>1, <2>3, <2>4, <2>5
<1>6. QED BY <1>4, <1>5

\* The frames whose answers, if they are answers, are to requests that were asked.
Known == {f \in Frames : f.kind = "answer" => Numbered(f)}

\* What TInv says of the stream, and of what is left when reads have taken of it.
LEMMA TakenFrames ==
  ASSUME TInv, link' = link, asked' = asked, NEW k \in Nat, NEW cut \in BOOLEAN, Takes(k, cut)
  PROVE  /\ stream' \in Seq(Frames) /\ leftover' \in BOOLEAN
         /\ \A i \in DOMAIN stream' : stream'[i].kind = "answer" => Numbered(stream'[i])
         /\ Datagrams => /\ \A i \in DOMAIN stream' : stream'[i].kind # "rest"
                         /\ leftover' = Holds(k, cut)
         /\ ~Datagrams => ~leftover'
         /\ cut => leftover' \/ (stream' # << >> /\ stream'[1] = Rest)
<1> DEFINE Whole == {f \in Known : Datagrams => f.kind # "rest"}
<1>1. stream \in Seq(Frames) /\ leftover \in BOOLEAN
  BY DEF TInv, TypeOK
<1>2. \A i \in DOMAIN stream : stream[i] \in Whole
  BY <1>1 DEF TInv, WrapperInv, Known
<1>3. stream \in Seq(Whole)
  BY <1>1, <1>2, SeqOver
<1>4. /\ stream' \in Seq(Whole \cup {Rest})
      /\ Datagrams => stream' \in Seq(Whole) /\ leftover' = Holds(k, cut)
      /\ ~Datagrams => leftover' = leftover
                       /\ (cut => stream' # << >> /\ stream'[1] = Rest)
      /\ leftover' \in BOOLEAN
  <2> HIDE DEF Whole
  <2>1. QED BY <1>1, <1>3, Taken
<1>5. \A f \in Whole \cup {Rest} : f \in Frames /\ (f.kind = "answer" => Numbered(f))
  BY FrameFacts DEF Known
<1>6. \A i \in DOMAIN stream' : stream'[i] \in Whole \cup {Rest}
  <2> HIDE DEF Whole
  <2>1. QED BY <1>4
<1>7. stream' \in Seq(Frames)
  <2>1. \A i \in DOMAIN stream' : stream'[i] \in Frames
    BY <1>5, <1>6
  <2> HIDE DEF Whole
  <2>2. QED BY <1>4, <2>1, SeqOver
<1>8. \A i \in DOMAIN stream' : stream'[i].kind = "answer" => Numbered(stream'[i])
  BY <1>5, <1>6
<1>9. Datagrams => \A i \in DOMAIN stream' : stream'[i].kind # "rest"
  <2>1. SUFFICES ASSUME Datagrams, NEW i \in DOMAIN stream' PROVE stream'[i].kind # "rest"
    OBVIOUS
  <2>2. stream'[i] \in Whole
    <3> HIDE DEF Whole
    <3>1. QED BY <1>4, <2>1
  <2>3. QED BY <2>1, <2>2
<1>10. ~Datagrams => ~leftover'
  BY <1>4 DEF TInv, WrapperInv
<1>11. cut => leftover' \/ (stream' # << >> /\ stream'[1] = Rest)
  BY <1>4 DEF Holds
<1>12. QED BY <1>4, <1>7, <1>8, <1>9, <1>10, <1>11

\* The head of the stream is a frame, and an answer only to a request that was asked.
LEMMA HeadKnown ==
  ASSUME TInv, stream # << >>
  PROVE  /\ Head(stream) \in Frames /\ Head(stream) = stream[1] /\ 1 \in DOMAIN stream
         /\ Head(stream).kind = "answer" => Numbered(Head(stream))
<1>1. stream \in Seq(Frames) /\ Len(stream) \in Nat /\ Len(stream) >= 1
  BY EmptySeq DEF TInv, TypeOK
<1>2. Head(stream) = stream[1] /\ 1 \in DOMAIN stream /\ Head(stream) \in Frames
  BY <1>1
<1>3. QED BY <1>2 DEF TInv

\* What would be read next, by where the rests are.
LEMMA Amid ==
  ASSUME TInv
  PROVE  /\ leftover => AmidFrame
         /\ ~leftover /\ stream # << >> => (AmidFrame <=> stream[1].kind = "rest")
         /\ ~leftover /\ stream = << >> => ~AmidFrame
<1>1. stream \in Seq(Frames)
  BY DEF TInv, TypeOK
<1>2. leftover => Available # << >> /\ Available[1] = Rest
  <2>1. leftover => /\ Available = <<Rest>> \o stream /\ <<Rest>> \in Seq(Frames)
                    /\ Len(Available) = Len(stream) + 1 /\ Available[1] = Rest
    BY <1>1, FrameFacts DEF Available
  <2>2. QED BY <1>1, <2>1
<1>3. QED BY <1>2, FrameFacts DEF AmidFrame, Available

\* A new exchange spends one number and one id, and keeps those of the others.
LEMMA IdSpent ==
  ASSUME TInv, asked < MaxRequests, asked' = asked + 1, lastTxnId' = NextTxnId
  PROVE  /\ asked' \in 0..MaxRequests /\ asked' \in Nat /\ asked' >= 1
         /\ lastTxnId' \in 0..(TxnIds - 1) /\ lastTxnId' \in Nat
         /\ lastTxnId' = asked' % TxnIds
         /\ \A n : n \in 1..asked => n \in 1..asked'
<1>1. asked \in Nat /\ TxnIds \in Nat \ {0} /\ MaxRequests \in Nat
  BY TransportAssumption DEF TInv, TypeOK
<1>2. lastTxnId' = (asked + 1) % TxnIds
  BY <1>1, NextRemainder DEF TInv, NextTxnId
<1>3. (asked + 1) % TxnIds \in 0..(TxnIds - 1) /\ (asked + 1) % TxnIds \in Nat
  <2>1. asked + 1 \in Nat
    BY <1>1
  <2>2. QED BY <1>1, <2>1, Division
<1>4. QED BY <1>1, <1>2, <1>3

\* The transport keeps its link.
LEMMA LinkStays ==
  ASSUME [Next]_vars PROVE link' = link
BY DEF Next, Client, vars, peer, ExecuteRequest, WriteFails, ReadHeader, SkipPdu, ReadPdu,
       ReadOutOfFrame, PduTimesOut, HeaderTimesOut, ReadFails, Tick, PeerAnswers,
       PeerSends, PeerCloses

\* Where wrapper and stream stay as they are, or a frame comes behind the others,
\* what would be read next is what it was.
LEMMA AmidStays ==
  ASSUME TInv, UNCHANGED leftover,
         \/ UNCHANGED stream
         \/ \E f \in Frames : stream' = Append(stream, f)
  PROVE  AmidFrame => AmidFrame'
<1> USE DEF AmidFrame, Available
<1>1. stream \in Seq(Frames)
  BY DEF TInv, TypeOK
<1>2. CASE UNCHANGED stream
  BY <1>2
<1>3. ASSUME NEW f \in Frames, stream' = Append(stream, f) PROVE AmidFrame => AmidFrame'
  <2>1. /\ stream' \in Seq(Frames) /\ stream' # << >>
        /\ stream # << >> => stream'[1] = stream[1]
    BY <1>1, <1>3
  <2>2. leftover => AmidFrame'
    <3>1. leftover => /\ Available' = <<Rest>> \o stream' /\ <<Rest>> \in Seq(Frames)
                      /\ Len(Available') = Len(stream') + 1 /\ Available'[1] = Rest
      BY <2>1, FrameFacts
    <3>2. QED BY <2>1, <3>1, FrameFacts
  <2>3. QED BY <2>1, <2>2
<1>4. QED BY <1>2, <1>3

\* What every step keeps to that reads nothing and leaves no header read without need.
LEMMA WrapperStays ==
  ASSUME TInv, UNCHANGED <<link, leftover, stream, closed>>, pc' = "pdu" => pc = "pdu"
  PROVE  WrapperInv'
<1>1. AmidFrame => AmidFrame'
  BY AmidStays
<1>2. QED BY <1>1 DEF TInv, WrapperInv, Datagrams

\* An exchange that returns without an answer, having read what it read.
LEMMA NoAnswer ==
  ASSUME TInv, link' = link, NEW k \in {"garbage", "timeout", "error"},
         Return(Failed(k)), UNCHANGED <<asked, lastTxnId, left, owed, closed>>,
         stream' \in Seq(Frames), leftover' \in BOOLEAN,
         \A i \in DOMAIN stream' : stream'[i].kind = "answer" => Numbered(stream'[i]),
         Datagrams => \A i \in DOMAIN stream' : stream'[i].kind # "rest",
         ~Datagrams => ~leftover'
  PROVE  TInv'
<1>1. /\ result' \in Results /\ result'.kind # "answer" /\ pc' = "idle"
      /\ head' = NoFrame /\ head'.kind = "none"
  BY FailedType DEF Return, NoFrame
<1>2. TypeOK'
  BY <1>1 DEF TInv, TypeOK
<1>3. WrapperInv'
  BY <1>1 DEF TInv, WrapperInv, Datagrams
<1>4. QED BY <1>1, <1>2, <1>3 DEF TInv, Numbered

\* Every step of client, clock, peer and network preserves the invariant.
LEMMA TInvStep ==
  ASSUME TInv, [Next]_vars PROVE TInv'
<1>0. link' = link /\ link' \in Links
  BY LinkStays DEF TInv, TypeOK
<1> USE <1>0
<1> USE TransportAssumption DEF TInv, TypeOK, peer, Numbered, Return
<1>1. CASE ExecuteRequest
  <2>1. asked < MaxRequests /\ asked' = asked + 1 /\ lastTxnId' = NextTxnId
    BY <1>1 DEF ExecuteRequest
  <2>2. /\ asked' \in 0..MaxRequests /\ asked' \in Nat /\ asked' >= 1
        /\ lastTxnId' \in 0..(TxnIds - 1) /\ lastTxnId' \in Nat
        /\ lastTxnId' = asked' % TxnIds
        /\ \A n : n \in 1..asked => n \in 1..asked'
    BY <2>1, IdSpent
  <2>3. owed' = owed \cup {[req |-> asked', txn |-> lastTxnId']}
    BY <1>1 DEF ExecuteRequest
  <2>4. owed' \subseteq Request /\ \A r \in owed' : Numbered(r)'
    BY <2>2, <2>3 DEF Request
  <2>5. result' \in Results /\ result'.kind # "answer"
    BY <1>1 DEF ExecuteRequest, NoResult, Results
  <2>6. left' \in 0..Timeout /\ pc' = "header" /\ UNCHANGED <<head, leftover, stream, closed>>
    BY <1>1 DEF ExecuteRequest
  <2>7. TypeOK'
    BY <2>2, <2>4, <2>5, <2>6
  <2>8. WrapperInv'
    BY <2>6, WrapperStays
  <2>9. QED BY <2>2, <2>4, <2>5, <2>6, <2>7, <2>8
<1>2. CASE WriteFails
  <2>1. asked < MaxRequests /\ asked' = asked + 1 /\ lastTxnId' = NextTxnId
    BY <1>2 DEF WriteFails
  <2>2. /\ asked' \in 0..MaxRequests /\ asked' \in Nat /\ asked' >= 1
        /\ lastTxnId' \in 0..(TxnIds - 1) /\ lastTxnId' \in Nat
        /\ lastTxnId' = asked' % TxnIds
        /\ \A n : n \in 1..asked => n \in 1..asked'
    BY <2>1, IdSpent
  <2>3. result' \in Results /\ result'.kind # "answer"
    BY <1>2, FailedType DEF WriteFails
  <2>4. left' \in 0..Timeout /\ UNCHANGED <<pc, head, leftover, owed, stream, closed>>
    BY <1>2 DEF WriteFails
  <2>5. TypeOK'
    BY <2>2, <2>3, <2>4
  <2>6. WrapperInv'
    BY <2>4, WrapperStays
  <2>7. QED BY <2>2, <2>3, <2>4, <2>5, <2>6
<1>3. CASE ReadHeader
  <2>1. stream # << >> /\ UNCHANGED <<asked, lastTxnId, left, owed, closed>>
    BY <1>3 DEF ReadHeader
  <2>2. Head(stream) \in Frames /\ (Head(stream).kind = "answer" => Numbered(Head(stream)))
    BY <2>1, HeadKnown
  <2>3. CASE Head(stream).kind = "illegalLength"
    <3>1. PICK cut \in BOOLEAN : Takes(IF cut THEN 0 ELSE 1, cut)
      BY <1>3, <2>3 DEF ReadHeader, Reads
    <3>2. /\ stream' \in Seq(Frames) /\ leftover' \in BOOLEAN
          /\ \A i \in DOMAIN stream' : stream'[i].kind = "answer" => Numbered(stream'[i])
          /\ Datagrams => \A i \in DOMAIN stream' : stream'[i].kind # "rest"
          /\ ~Datagrams => ~leftover'
      BY <2>1, <3>1, TakenFrames
    <3>3. Return(Failed("error"))
      BY <1>3, <2>3 DEF ReadHeader
    <3>4. QED BY <2>1, <3>2, <3>3, NoAnswer
  <2>4. CASE Head(stream).kind # "illegalLength"
    <3>1. pc' = "pdu" /\ head' = Head(stream) /\ UNCHANGED result /\ Takes(0, TRUE)
      BY <1>3, <2>4 DEF ReadHeader, Reads
    <3>2. /\ stream' \in Seq(Frames) /\ leftover' \in BOOLEAN
          /\ \A i \in DOMAIN stream' : stream'[i].kind = "answer" => Numbered(stream'[i])
          /\ Datagrams => \A i \in DOMAIN stream' : stream'[i].kind # "rest"
          /\ ~Datagrams => ~leftover'
          /\ leftover' \/ (stream' # << >> /\ stream'[1] = Rest)
      BY <2>1, <3>1, TakenFrames
    <3>3. head'.kind \in {"answer", "unknownProtocol"}
      <4>1. ~AmidFrame
        BY <1>3 DEF ReadHeader
      <4>2. Head(stream).kind # "rest"
        BY <2>1, <4>1, HeadKnown, Amid
      <4>3. QED BY <2>2, <2>4, <3>1, <4>2, FrameFacts DEF StrayKinds
    <3>4. TypeOK'
      BY <2>1, <2>2, <3>1, <3>2
    <3>5. AmidFrame'
      <4>1. leftover' => /\ Available' = <<Rest>> \o stream' /\ <<Rest>> \in Seq(Frames)
                         /\ Len(Available') = Len(stream') + 1 /\ Available'[1] = Rest
        BY <3>2, FrameFacts DEF Available
      <4>2. QED BY <3>2, <4>1, FrameFacts DEF AmidFrame, Available
    <3>6. WrapperInv'
      BY <2>1, <3>2, <3>5 DEF WrapperInv, Datagrams
    <3>7. QED BY <2>1, <2>2, <3>1, <3>2, <3>3, <3>4, <3>6
  <2>5. QED BY <2>3, <2>4
<1>4. CASE SkipPdu
  <2>1. /\ pc' = "header" /\ head' = NoFrame /\ head'.kind = "none" /\ Takes(1, FALSE)
        /\ UNCHANGED <<asked, lastTxnId, left, result, owed, closed>>
    BY <1>4 DEF SkipPdu, NoFrame, Reads
  <2>2. /\ stream' \in Seq(Frames) /\ leftover' \in BOOLEAN
        /\ \A i \in DOMAIN stream' : stream'[i].kind = "answer" => Numbered(stream'[i])
        /\ Datagrams => \A i \in DOMAIN stream' : stream'[i].kind # "rest"
        /\ ~Datagrams => ~leftover'
    BY <2>1, TakenFrames
  <2>3. TypeOK'
    BY <2>1, <2>2
  <2>4. WrapperInv'
    BY <2>1, <2>2 DEF WrapperInv, Datagrams
  <2>5. QED BY <2>1, <2>2, <2>3, <2>4
<1>5. CASE ReadPdu
  <2>1. /\ pc = "pdu" /\ ~Ignored(head) /\ head' = NoFrame /\ pc' = "idle" /\ Takes(1, FALSE)
        /\ result' = [kind |-> "answer", req |-> head.req]
        /\ UNCHANGED <<asked, lastTxnId, left, owed, closed>>
    BY <1>5 DEF ReadPdu, Reads
  <2>2. head.kind = "answer" /\ head.txn = lastTxnId
    BY <2>1 DEF Ignored
  <2>3. head.req \in 1..asked /\ head.req % TxnIds = asked % TxnIds
    BY <2>2
  <2>4. head.req \in Nat
    BY <2>3
  <2>5. result' \in Results /\ head'.kind = "none"
    BY <2>1, <2>4 DEF Results, NoFrame
  <2>6. /\ stream' \in Seq(Frames) /\ leftover' \in BOOLEAN
        /\ \A i \in DOMAIN stream' : stream'[i].kind = "answer" => Numbered(stream'[i])
        /\ Datagrams => \A i \in DOMAIN stream' : stream'[i].kind # "rest"
        /\ ~Datagrams => ~leftover'
    BY <2>1, TakenFrames
  <2>7. TypeOK'
    BY <2>1, <2>5, <2>6
  <2>8. WrapperInv'
    BY <2>1, <2>6 DEF WrapperInv, Datagrams
  <2>9. QED BY <2>1, <2>3, <2>5, <2>6, <2>7, <2>8
<1>6. CASE ReadOutOfFrame
  <2>1. UNCHANGED <<asked, lastTxnId, left, owed, closed>> /\ pc = "header"
    BY <1>6 DEF ReadOutOfFrame
  <2>2. PICK k \in 0..Len(Available), cut \in BOOLEAN : Takes(k, cut)
    BY <1>6 DEF ReadOutOfFrame, Reads
  <2>3. k \in Nat
    OBVIOUS
  <2>4. /\ stream' \in Seq(Frames) /\ leftover' \in BOOLEAN
        /\ \A i \in DOMAIN stream' : stream'[i].kind = "answer" => Numbered(stream'[i])
        /\ Datagrams => \A i \in DOMAIN stream' : stream'[i].kind # "rest"
        /\ ~Datagrams => ~leftover'
    BY <2>1, <2>2, <2>3, TakenFrames
  <2>5. CASE UNCHANGED <<pc, head, result>>
    <3>1. TypeOK'
      BY <2>1, <2>4, <2>5
    <3>2. WrapperInv'
      BY <2>1, <2>4, <2>5 DEF WrapperInv, Datagrams
    <3>3. QED BY <2>1, <2>4, <2>5, <3>1, <3>2
  <2>6. ASSUME NEW kind \in {"garbage", "error"}, Return(Failed(kind)) PROVE TInv'
    BY <2>1, <2>4, <2>6, NoAnswer
  <2>7. QED BY <1>6, <2>5, <2>6 DEF ReadOutOfFrame
<1>7. CASE PduTimesOut
  <2>1. Return(Failed("timeout")) /\ UNCHANGED <<asked, lastTxnId, left, leftover, owed, stream, closed>>
    BY <1>7 DEF PduTimesOut
  <2>2. QED BY <2>1, NoAnswer DEF WrapperInv
<1>8. CASE HeaderTimesOut
  <2>1. Return(Failed("timeout")) /\ UNCHANGED <<asked, lastTxnId, left, owed, closed>>
    BY <1>8 DEF HeaderTimesOut
  <2>2. PICK k \in 0..Len(Available), cut \in BOOLEAN : Takes(k, cut)
    BY <1>8 DEF HeaderTimesOut, Swallows
  <2>3. /\ stream' \in Seq(Frames) /\ leftover' \in BOOLEAN
        /\ \A i \in DOMAIN stream' : stream'[i].kind = "answer" => Numbered(stream'[i])
        /\ Datagrams => \A i \in DOMAIN stream' : stream'[i].kind # "rest"
        /\ ~Datagrams => ~leftover'
    BY <2>1, <2>2, TakenFrames
  <2>4. QED BY <2>1, <2>3, NoAnswer
<1>9. CASE ReadFails
  <2>1. Return(Failed("error")) /\ UNCHANGED <<asked, lastTxnId, left, owed, closed>>
    BY <1>9 DEF ReadFails
  <2>2. CASE stream' = << >> /\ UNCHANGED leftover
    <3>1. stream' \in Seq(Frames) /\ DOMAIN stream' = {}
      BY <2>2
    <3>2. leftover' \in BOOLEAN /\ (~Datagrams => ~leftover')
      BY <2>2 DEF WrapperInv
    <3>3. QED BY <2>1, <3>1, <3>2, NoAnswer
  <2>3. ASSUME NEW k \in 0..Len(Available), Takes(k, FALSE) PROVE TInv'
    <3>1. /\ stream' \in Seq(Frames) /\ leftover' \in BOOLEAN
          /\ \A i \in DOMAIN stream' : stream'[i].kind = "answer" => Numbered(stream'[i])
          /\ Datagrams => \A i \in DOMAIN stream' : stream'[i].kind # "rest"
          /\ ~Datagrams => ~leftover'
      <4>1. k \in Nat /\ FALSE \in BOOLEAN
        OBVIOUS
      <4>2. QED BY <2>1, <2>3, <4>1, TakenFrames
    <3>2. QED BY <2>1, <3>1, NoAnswer
  <2>4. QED BY <1>9, <2>2, <2>3 DEF ReadFails, Swallows
<1>10. CASE Tick
  <2>1. left' \in 0..Timeout
    BY <1>10 DEF Tick, expired
  <2>2. UNCHANGED <<asked, lastTxnId, pc, head, leftover, result, owed, stream, closed>>
    BY <1>10 DEF Tick
  <2>3. WrapperInv'
    BY <2>2, WrapperStays
  <2>4. QED BY <2>1, <2>2, <2>3
<1>11. ASSUME NEW f \in Frames, stream' = Append(stream, f), ~closed,
              f.kind # "rest", f.kind = "answer" => Numbered(f), owed' \subseteq owed,
              UNCHANGED <<asked, lastTxnId, pc, left, head, leftover, result, closed>>
       PROVE  TInv'
  <2>1. /\ stream' \in Seq(Frames)
        /\ \A i \in DOMAIN stream' : stream'[i].kind = "answer" => Numbered(stream'[i])
    BY <1>11, AppendProperties
  <2>2. Datagrams => \A i \in DOMAIN stream' : stream'[i].kind # "rest"
    BY <1>11, AppendProperties DEF WrapperInv
  <2>3. AmidFrame => AmidFrame'
    BY <1>11, AmidStays
  <2>4. WrapperInv'
    BY <1>11, <2>2, <2>3 DEF WrapperInv, Datagrams
  <2>5. TypeOK'
    BY <1>11, <2>1
  <2>6. QED BY <1>11, <2>1, <2>4, <2>5
<1>12. ASSUME NEW r \in owed, PeerAnswers(r) PROVE TInv'
  <2>1. Frame("answer", r) \in Frames /\ Numbered(Frame("answer", r))
        /\ Frame("answer", r).kind # "rest"
    BY DEF Frame, Frames, Answer, Request
  <2>2. /\ stream' = Append(stream, Frame("answer", r)) /\ ~closed
        /\ owed' \subseteq owed
        /\ UNCHANGED <<asked, lastTxnId, pc, left, head, leftover, result, closed>>
    BY <1>12 DEF PeerAnswers
  <2>3. QED BY <1>11, <2>1, <2>2
<1>13. ASSUME NEW kind \in link.strays, PeerSends(kind) PROVE TInv'
  <2>1. Stray(kind) \in Frames /\ Stray(kind).kind \notin {"answer", "rest"}
    BY TransportAssumption DEF Link, Stray, Frame, Frames, StrayKinds
  <2>2. /\ stream' = Append(stream, Stray(kind)) /\ ~closed
        /\ UNCHANGED <<asked, lastTxnId, pc, left, head, leftover, result, owed, closed>>
    BY <1>13 DEF PeerSends
  <2>3. QED BY <1>11, <2>1, <2>2
<1>14. CASE PeerCloses
  <2>1. /\ ~Datagrams /\ closed' = TRUE
        /\ UNCHANGED <<asked, lastTxnId, pc, left, head, leftover, result, owed, stream>>
    BY <1>14 DEF PeerCloses
  <2>2. AmidFrame => AmidFrame'
    BY <2>1, AmidStays
  <2>3. WrapperInv'
    BY <2>1, <2>2 DEF WrapperInv, Datagrams
  <2>4. QED BY <2>1, <2>3
<1>15. CASE UNCHANGED vars
  <2>1. UNCHANGED <<asked, lastTxnId, pc, left, head, leftover, result, owed, stream, closed>>
    BY <1>15 DEF vars
  <2>2. WrapperInv'
    BY <2>1, WrapperStays
  <2>3. QED BY <2>1, <2>2
<1>16. QED
  BY <1>1, <1>2, <1>3, <1>4, <1>5, <1>6, <1>7, <1>8, <1>9, <1>10, <1>12,
     <1>13, <1>14, <1>15 DEF Next, Client

\* Every reachable state of the transport satisfies the inductive invariant.
THEOREM TransportInvariance == Spec => []TInv
<1>1. TInv /\ [Next]_vars => TInv'
  BY TInvStep
<1>2. QED BY InitTInv, <1>1, PTL DEF Spec

\* Type correctness.
THEOREM TransportTypeCorrect == Spec => []TypeOK
<1>1. TInv => TypeOK
  BY DEF TInv
<1>2. QED BY <1>1, TransportInvariance, PTL

\* However late, often or out of order responses come, no exchange returns that of
\* another request less than TxnIds requests ago.
THEOREM NoForeignAnswer == Spec => []OwnAnswer
<1>1. ASSUME TInv PROVE OwnAnswer
  <2>1. SUFFICES ASSUME result.kind = "answer", asked - result.req < TxnIds
                 PROVE  result.req = asked
    BY DEF OwnAnswer
  <2>2. asked \in Nat /\ result.req \in 1..asked /\ result.req % TxnIds = asked % TxnIds
    BY <1>1, <2>1, TransportAssumption DEF TInv, TypeOK
  <2>3. result.req \in Nat /\ result.req <= asked
    BY <2>2
  <2>4. QED BY <2>1, <2>2, <2>3, RemainderUnique, TransportAssumption
<1>2. QED BY <1>1, TransportInvariance, PTL

-----------------------------------------------------------------------------
\* Over UDP no frame of illegal length is under way, and nothing has been left where
\* a header is read.
InFrame == /\ \A i \in DOMAIN stream : stream[i].kind # "illegalLength"
           /\ leftover => pc = "pdu"
           /\ result.kind # "garbage"

\* Over UDP, in frame, a read from the wrapper takes frames whole or leaves the rest of
\* one in it.
LEMMA InFrameReads ==
  ASSUME Datagrams, TInv, InFrame, link' = link, asked' = asked,
         NEW k \in Nat, NEW cut \in BOOLEAN, Takes(k, cut)
  PROVE  /\ \A i \in DOMAIN stream' : stream'[i].kind # "illegalLength"
         /\ leftover' = Holds(k, cut)
<1> DEFINE Legal == {f \in Frames : f.kind # "illegalLength"}
<1>1. stream \in Seq(Frames) /\ leftover \in BOOLEAN
  BY DEF TInv, TypeOK
<1>2. \A i \in DOMAIN stream : stream[i] \in Legal
  BY <1>1 DEF InFrame
<1>3. stream \in Seq(Legal)
  <2> HIDE DEF Legal
  <2>1. QED BY <1>1, <1>2, SeqOver
<1>4. stream' \in Seq(Legal) /\ leftover' = Holds(k, cut)
  <2> HIDE DEF Legal
  <2>1. QED BY <1>1, <1>3, Taken
<1>5. \A i \in DOMAIN stream' : stream'[i] \in Legal
  <2> HIDE DEF Legal
  <2>1. QED BY <1>4
<1>6. QED BY <1>4, <1>5

\* Over UDP a header is read where nothing is left.
LEMMA HeaderInFrame ==
  ASSUME Datagrams, TInv, InFrame, pc = "header"
  PROVE  ~leftover /\ ~AmidFrame
<1>1. ~leftover
  BY DEF InFrame
<1>2. stream # << >> => stream[1].kind # "rest"
  BY HeadKnown DEF TInv, WrapperInv
<1>3. QED BY <1>1, <1>2, Amid

\* No step over UDP leaves the frame, whenever the deadline passes.
LEMMA InFrameStep ==
  ASSUME Datagrams, "illegalLength" \notin link.strays, TInv, InFrame, [Next]_vars
  PROVE  InFrame'
<1> USE DEF peer, Return
<1>0. link' = link /\ link.strays \subseteq StrayKinds
  BY LinkStays, TransportAssumption DEF TInv, TypeOK, Link
<1>1. stream \in Seq(Frames) /\ ~closed
  BY DEF TInv, TypeOK, WrapperInv
<1>2. \A k \in {"error", "timeout"} : Failed(k).kind # "garbage"
  BY DEF Failed
<1>3. CASE ExecuteRequest
  <2>1. pc = "idle"
    BY <1>3 DEF ExecuteRequest
  <2>2. QED BY <1>3, <2>1 DEF ExecuteRequest, NoResult, InFrame
<1>4. CASE WriteFails
  BY <1>2, <1>4 DEF WriteFails, InFrame
<1>5. CASE ReadHeader
  <2>1. /\ stream # << >> /\ asked' = asked
        /\ Head(stream).kind # "illegalLength" =>
             pc' = "pdu" /\ UNCHANGED result /\ Takes(0, TRUE)
    BY <1>5 DEF ReadHeader, Reads
  <2>2. Head(stream).kind # "illegalLength"
    BY <2>1, HeadKnown DEF InFrame
  <2>3. \A i \in DOMAIN stream' : stream'[i].kind # "illegalLength"
    BY <1>0, <2>1, <2>2, InFrameReads
  <2>4. QED BY <2>1, <2>2, <2>3 DEF InFrame
<1>6. CASE SkipPdu
  <2>1. asked' = asked /\ Takes(1, FALSE) /\ UNCHANGED result
    BY <1>6 DEF SkipPdu, Reads
  <2>2. /\ \A i \in DOMAIN stream' : stream'[i].kind # "illegalLength"
        /\ leftover' = Holds(1, FALSE)
    BY <1>0, <2>1, InFrameReads
  <2>3. ~Holds(1, FALSE)
    BY DEF Holds
  <2>4. ~leftover'
    BY <2>2, <2>3
  <2>5. result'.kind # "garbage"
    BY <2>1 DEF InFrame
  <2>6. QED BY <2>2, <2>4, <2>5 DEF InFrame
<1>7. CASE ReadPdu
  <2>1. asked' = asked /\ Takes(1, FALSE) /\ result'.kind = "answer"
    BY <1>7 DEF ReadPdu, Reads
  <2>2. /\ \A i \in DOMAIN stream' : stream'[i].kind # "illegalLength"
        /\ leftover' = Holds(1, FALSE)
    BY <1>0, <2>1, InFrameReads
  <2>3. ~Holds(1, FALSE)
    BY DEF Holds
  <2>4. ~leftover'
    BY <2>2, <2>3
  <2>5. result'.kind # "garbage"
    BY <2>1 DEF InFrame
  <2>6. QED BY <2>2, <2>4, <2>5 DEF InFrame
<1>8. CASE ReadOutOfFrame
  BY <1>8, HeaderInFrame DEF ReadOutOfFrame
<1>9. CASE PduTimesOut
  BY <1>2, <1>9 DEF PduTimesOut, InFrame
<1>10. CASE HeaderTimesOut
  <2>1. /\ asked' = asked /\ result' = Failed("timeout") /\ ~leftover /\ ~AmidFrame
    BY <1>10, HeaderInFrame DEF HeaderTimesOut
  <2>2. Takes(0, FALSE)
    BY <1>10, <2>1 DEF HeaderTimesOut, Swallows
  <2>3. /\ \A i \in DOMAIN stream' : stream'[i].kind # "illegalLength"
        /\ leftover' = Holds(0, FALSE)
    BY <1>0, <2>1, <2>2, InFrameReads
  <2>4. QED BY <1>2, <2>1, <2>3 DEF InFrame, Holds
<1>11. CASE ReadFails
  <2>1. pc = "header" /\ asked' = asked /\ result' = Failed("error")
        /\ \E k \in 0..Len(Available) : Swallows(k, FALSE)
    BY <1>1, <1>11 DEF ReadFails
  <2>2. ~leftover /\ ~AmidFrame
    BY <2>1, HeaderInFrame
  <2>3. Takes(0, FALSE)
    BY <2>1, <2>2 DEF Swallows
  <2>4. /\ \A i \in DOMAIN stream' : stream'[i].kind # "illegalLength"
        /\ leftover' = Holds(0, FALSE)
    BY <1>0, <2>1, <2>3, InFrameReads
  <2>5. QED BY <1>2, <2>1, <2>2, <2>4 DEF InFrame, Holds
<1>12. CASE Tick
  BY <1>12 DEF Tick, InFrame
<1>13. ASSUME NEW f \in Frames, f.kind # "illegalLength", stream' = Append(stream, f)
       PROVE  \A i \in DOMAIN stream' : stream'[i].kind # "illegalLength"
  BY <1>1, <1>13, AppendProperties DEF InFrame
<1>14. ASSUME NEW r \in owed, PeerAnswers(r) PROVE InFrame'
  <2>1. Frame("answer", r) \in Frames /\ Frame("answer", r).kind # "illegalLength"
    BY DEF Frame, Frames, Answer, Request, TInv, TypeOK
  <2>2. QED BY <1>13, <1>14, <2>1 DEF PeerAnswers, InFrame
<1>15. ASSUME NEW kind \in link.strays, PeerSends(kind) PROVE InFrame'
  <2>1. Stray(kind) \in Frames /\ Stray(kind).kind # "illegalLength"
    BY <1>0 DEF Stray, Frame, Frames
  <2>2. QED BY <1>13, <1>15, <2>1 DEF PeerSends, InFrame
<1>16. CASE PeerCloses
  BY <1>16 DEF PeerCloses
<1>17. CASE UNCHANGED vars
  BY <1>17 DEF vars, InFrame
<1>18. QED
  BY <1>3, <1>4, <1>5, <1>6, <1>7, <1>8, <1>9, <1>10, <1>11, <1>12, <1>14, <1>15,
     <1>16, <1>17 DEF Next, Client

\* Over UDP, with a peer that sends no frame of illegal length, no timeout and no
\* order or number of datagrams leaves a rest in udpSockWrapper where a header is read.
THEOREM NoTimeoutCutsADatagram == Spec => []DatagramsStayInFrame
<1> DEFINE Inv == TInv /\ (Datagrams /\ "illegalLength" \notin link.strays => InFrame)
<1>1. Init => Inv
  BY InitTInv DEF Init, InFrame, NoResult
<1>2. Inv /\ [Next]_vars => Inv'
  BY TInvStep, InFrameStep, LinkStays DEF Datagrams
<1>3. Inv => DatagramsStayInFrame
  BY DEF InFrame, DatagramsStayInFrame
<1>4. QED BY <1>1, <1>2, <1>3, PTL DEF Spec

-----------------------------------------------------------------------------
(* That an exchange has one deadline: the half of ExchangeEnds that rests   *)
(* on no fairness.                                                          *)

\* While an exchange runs, its deadline comes nearer or stays; once it has passed no
\* other frame is taken up, and one at hand is only put away.
ExchangeStep ==
  pc # "idle" /\ pc' # "idle" =>
    /\ asked' = asked /\ lastTxnId' = lastTxnId
    /\ left' <= left
    /\ expired /\ pc' # pc => pc = "pdu" /\ pc' = "header"

\* However many frames a peer sends that an exchange has to skip, all of them come
\* under the one deadline it set as it began: readResponse goes round its loop
\* without setting another (tcp_transport.go:44, 98-121).
THEOREM OneDeadline == Spec => [][ExchangeStep]_vars
<1>1. ASSUME TInv, Next PROVE ExchangeStep
  <2>1. SUFFICES ASSUME pc # "idle", pc' # "idle" PROVE ExchangeStep
    BY DEF ExchangeStep
  <2>2. left \in Nat
    BY <1>1, TransportAssumption DEF TInv, TypeOK
  <2>3. ~ExecuteRequest /\ ~WriteFails /\ ~ReadPdu /\ ~PduTimesOut /\ ~HeaderTimesOut /\ ~ReadFails
    BY <2>1 DEF ExecuteRequest, WriteFails, ReadPdu, PduTimesOut, HeaderTimesOut, ReadFails,
                Return
  <2>4. CASE ReadHeader
    <3>1. ~leftover
      BY <1>1, <2>4, Amid DEF ReadHeader
    <3>2. pc' = "idle" \/ ~expired
      BY <2>4, <3>1 DEF ReadHeader, Return, Reads
    <3>3. QED BY <2>1, <2>2, <2>4, <3>2 DEF ReadHeader, ExchangeStep
  <2>5. CASE SkipPdu
    BY <2>2, <2>5 DEF SkipPdu, ExchangeStep
  <2>6. CASE ReadOutOfFrame
    BY <2>1, <2>2, <2>6 DEF ReadOutOfFrame, Return, ExchangeStep
  <2>7. CASE Tick
    BY <2>2, <2>7 DEF Tick, ExchangeStep
  <2>8. CASE \E r \in owed : PeerAnswers(r)
    BY <2>2, <2>8 DEF PeerAnswers, ExchangeStep
  <2>9. CASE \E kind \in link.strays : PeerSends(kind)
    BY <2>2, <2>9 DEF PeerSends, ExchangeStep
  <2>10. CASE PeerCloses
    BY <2>2, <2>10 DEF PeerCloses, ExchangeStep
  <2>11. QED
    BY <1>1, <2>3, <2>4, <2>5, <2>6, <2>7, <2>8, <2>9, <2>10 DEF Next, Client
<1>2. QED BY <1>1, TransportInvariance, PTL DEF Spec

=============================================================================
