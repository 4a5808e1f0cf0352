---------------------------- MODULE TcpTransport ----------------------------
(***************************************************************************)
(* How ModbusClient exchanges requests and responses over a socket         *)
(* (src/internal/modbus/tcp_transport.go) and over udpSockWrapper          *)
(* (src/internal/modbus/udp.go).                                           *)
(*                                                                         *)
(* mc.lock lets one exchange run at a time.  The peer may answer any       *)
(* request it got, in any order and as late as it likes, may send frames   *)
(* nobody asked for, and may close the link; datagrams may be duplicated.  *)
(* A frame is read in two steps, its header and its PDU, and its rest is   *)
(* where the bytes come from: at the head of a stream, or in the wrapper,  *)
(* which took the datagram whole.  Where a rest is left when a header is   *)
(* read, the transport is out of frame, and what it then takes for frames  *)
(* is any cut of what follows.  A write is sent or fails whole.            *)
(***************************************************************************)
EXTENDS Integers, Sequences

CONSTANTS TxnIds,       \* how many transaction ids there are: 65536 in the code
          Timeout,      \* tt.timeout in ticks of a clock
          Links,        \* the links there are, see Link
          MaxRequests,  \* bound on exchanges
          MaxStream     \* bound on frames under way to the client

StrayKinds == {"unknownProtocol", "illegalLength"}

\* A link is a socket or a udpSockWrapper, with a peer that sends strays unasked.
Link == [datagrams : BOOLEAN, strays : SUBSET StrayKinds]

ASSUME TransportAssumption == /\ TxnIds \in Nat \ {0}
                              /\ Timeout \in Nat \ {0}
                              /\ Links \subseteq Link
                              /\ MaxRequests \in Nat
                              /\ MaxStream \in Nat

VARIABLES
  link,       \* tt.socket and the peer behind it
  asked,      \* the exchanges begun so far: exchange n asks request n
  lastTxnId,  \* tt.lastTxnId
  pc,         \* "idle"; readMBAPFrame is about to read a "header" or a "pdu"
  left,       \* how long it is until the deadline
  head,       \* the frame whose header has been read
  leftover,   \* udpSockWrapper holds the rest of a datagram: leftoverCount > 0
  result,     \* what the last exchange returned
  owed,       \* the requests the peer got and may still answer
  stream,     \* the frames under way to the client, the first maybe begun
  closed      \* the peer has closed the link

vars == <<link, asked, lastTxnId, pc, left, head, leftover, result, owed, stream, closed>>
peer == <<link, owed, stream, closed>>

Datagrams == link.datagrams

expired == left = 0

Request == [req : Nat, txn : Nat]
Answer == [kind : {"answer"}, req : Nat, txn : Nat]
NoReq == [req |-> 0, txn |-> 0]

\* A stray frame answers nothing; the rest of a frame is what a read has left of it.
Frame(kind, r) == [kind |-> kind, req |-> r.req, txn |-> r.txn]
Stray(kind) == Frame(kind, NoReq)
Rest == Stray("rest")
Frames == Answer \cup {Stray(kind) : kind \in StrayKinds \cup {"rest"}}
NoFrame == [kind |-> "none", req |-> 0, txn |-> 0]

\* An exchange returns the response to request req, bytes that are no response
\* ("garbage"), or an error.
Results == [kind : {"answer"}, req : Nat]
             \cup {[kind |-> k, req |-> 0] : k \in {"none", "garbage", "timeout", "error"}}
NoResult == [kind |-> "none", req |-> 0]
Failed(kind) == [kind |-> kind, req |-> 0]

TypeOK == /\ link \in Links
          /\ asked \in 0..MaxRequests
          /\ lastTxnId \in 0..(TxnIds - 1)
          /\ pc \in {"idle", "header", "pdu"}
          /\ left \in 0..Timeout
          /\ head \in Frames \cup {NoFrame}
          /\ leftover \in BOOLEAN
          /\ result \in Results
          /\ owed \subseteq Request
          /\ stream \in Seq(Frames)
          /\ closed \in BOOLEAN

Init == /\ link \in Links
        /\ asked = 0 /\ lastTxnId = 0
        /\ pc = "idle" /\ left = Timeout /\ head = NoFrame
        /\ leftover = FALSE
        /\ result = NoResult
        /\ owed = {} /\ stream = << >> /\ closed = FALSE

-----------------------------------------------------------------------------
(* Reading from the link.                                                  *)

\* What there is to read, in order: what the wrapper holds comes first.
Available == IF leftover THEN <<Rest>> \o stream ELSE stream

\* What would be read next is amid a frame.
AmidFrame == Available # << >> /\ Available[1].kind = "rest"

Behind(k) == SubSeq(Available, k + 1, Len(Available))
Touched(k, cut) == k + (IF cut THEN 1 ELSE 0)

\* The wrapper still holds a rest: of the frame that was cut, or the one it held.
Holds(k, cut) == cut \/ (leftover /\ k = 0)

\* Mutant: udpSockWrapper does not count down what it held when all of it is taken.
Takes_KeepsLeftover(k, cut) ==
  /\ Touched(k, cut) <= Len(Available)
  /\ IF Datagrams
     THEN /\ leftover' = (Holds(k, cut) \/ leftover)
          /\ stream' = IF Holds(k, cut) THEN Tail(Behind(k)) ELSE Behind(k)
     ELSE /\ stream' = IF cut THEN <<Rest>> \o Tail(Behind(k)) ELSE Behind(k)
          /\ UNCHANGED leftover

\* Reads take k frames, or what is left of them, and, if cut, a part of the next.  A
\* socket keeps the rest; the wrapper takes a datagram whole and keeps the rest itself.
Takes(k, cut) ==
  /\ Touched(k, cut) <= Len(Available)
  /\ IF Datagrams
     THEN /\ leftover' = Holds(k, cut)
          /\ stream' = IF Holds(k, cut) THEN Tail(Behind(k)) ELSE Behind(k)
     ELSE /\ stream' = IF cut THEN <<Rest>> \o Tail(Behind(k)) ELSE Behind(k)
          /\ UNCHANGED leftover

\* The deadline is the socket's: what the wrapper holds can be had after it, too.
Reads(k, cut) == Takes(k, cut) /\ (~expired \/ (leftover /\ Touched(k, cut) <= 1))

\* What the reads for a header took before they failed: in frame less than a header,
\* and of datagrams nothing.  Out of frame it is anything, of datagrams all the wrapper
\* held, since it asks the socket only then, and whole ones.
Swallows(k, cut) ==
  /\ Takes(k, cut)
  /\ ~AmidFrame => k = 0
  /\ Datagrams => ~cut /\ (leftover => k > 0)

-----------------------------------------------------------------------------
(* The client.                                                             *)

NextTxnId == (lastTxnId + 1) % TxnIds

\* Mutant: only an answer uses a transaction id up.
ExecuteRequest_KeepsId ==
  /\ pc = "idle" /\ asked < MaxRequests
  /\ asked' = asked + 1
  /\ lastTxnId' = IF result.kind = "answer" THEN NextTxnId ELSE lastTxnId
  /\ left' = Timeout
  /\ pc' = "header"
  /\ result' = NoResult
  /\ owed' = owed \cup {[req |-> asked', txn |-> lastTxnId']}
  /\ UNCHANGED <<link, head, leftover, stream, closed>>

\* A new deadline, the next transaction id, the request on its way.
ExecuteRequest ==
  /\ pc = "idle" /\ asked < MaxRequests
  /\ asked' = asked + 1
  /\ lastTxnId' = NextTxnId
  /\ left' = Timeout
  /\ pc' = "header"
  /\ result' = NoResult
  /\ owed' = owed \cup {[req |-> asked', txn |-> lastTxnId']}
  /\ UNCHANGED <<link, head, leftover, stream, closed>>

\* The write fails; the transaction id is spent.
WriteFails ==
  /\ pc = "idle" /\ asked < MaxRequests
  /\ asked' = asked + 1
  /\ lastTxnId' = NextTxnId
  /\ left' = Timeout
  /\ result' = Failed("error")
  /\ UNCHANGED <<link, pc, head, leftover, owed, stream, closed>>

\* The exchange returns r.
Return(r) == pc' = "idle" /\ head' = NoFrame /\ result' = r

\* The header of the next frame.  A frame that is too long or empty is an error,
\* and what follows its header, if anything, is left.
ReadHeader ==
  /\ pc = "header" /\ ~AmidFrame
  /\ stream # << >>
  /\ IF Head(stream).kind = "illegalLength"
     THEN /\ Return(Failed("error"))
          /\ \E cut \in BOOLEAN : Reads(IF cut THEN 0 ELSE 1, cut)
     ELSE /\ pc' = "pdu" /\ head' = Head(stream)
          /\ Reads(0, TRUE)
          /\ UNCHANGED result
  /\ UNCHANGED <<link, asked, lastTxnId, left, owed, closed>>

\* readResponse goes on with the next frame.
Ignored(f) == f.kind = "unknownProtocol" \/ f.txn # lastTxnId

\* Mutant: every frame gets a deadline of its own.
SkipPdu_RearmsDeadline ==
  /\ pc = "pdu" /\ Reads(1, FALSE)
  /\ Ignored(head)
  /\ pc' = "header" /\ head' = NoFrame
  /\ left' = Timeout
  /\ UNCHANGED <<link, asked, lastTxnId, result, owed, closed>>

\* The PDU, which is the rest of its frame, of a frame that is not the response.
SkipPdu ==
  /\ pc = "pdu" /\ Reads(1, FALSE)
  /\ Ignored(head)
  /\ pc' = "header" /\ head' = NoFrame
  /\ UNCHANGED <<link, asked, lastTxnId, left, result, owed, closed>>

\* The PDU of the response.
ReadPdu ==
  /\ pc = "pdu" /\ Reads(1, FALSE)
  /\ ~Ignored(head)
  /\ Return([kind |-> "answer", req |-> head.req])
  /\ UNCHANGED <<link, asked, lastTxnId, left, owed, closed>>

\* Out of frame, seven bytes of anything are a header: of a frame to ignore, of
\* one that is taken for the response, or of one of illegal length.  It may end
\* after any of the frames that follow, or amid one.
ReadOutOfFrame ==
  /\ pc = "header" /\ AmidFrame
  /\ \E k \in 0..Len(Available), cut \in BOOLEAN : Touched(k, cut) > 0 /\ Reads(k, cut)
  /\ \/ UNCHANGED <<pc, head, result>>
     \/ \E kind \in {"garbage", "error"} : Return(Failed(kind))
  /\ UNCHANGED <<link, asked, lastTxnId, left, owed, closed>>

\* The deadline passes between header and PDU, or amid the PDU, in a read of the
\* socket.
PduTimesOut ==
  /\ pc = "pdu" /\ expired /\ ~leftover
  /\ Return(Failed("timeout"))
  /\ UNCHANGED <<asked, lastTxnId, left, leftover, peer>>

\* The deadline passes before the header, or amid it: io.ReadFull has then
\* swallowed the bytes that came.
HeaderTimesOut ==
  /\ pc = "header" /\ expired
  /\ Return(Failed("timeout"))
  /\ \E k \in 0..Len(Available), cut \in BOOLEAN : Swallows(k, cut)
  /\ UNCHANGED <<link, asked, lastTxnId, left, owed, closed>>

\* The link is closed, or breaks with frames under way; of a datagram that finds
\* no peer only the error comes back.
ReadFails ==
  /\ \/ pc \in {"header", "pdu"} /\ closed /\ stream' = << >> /\ UNCHANGED leftover
     \/ /\ pc = "header" /\ Datagrams
        /\ \E k \in 0..Len(Available) : Swallows(k, FALSE)
  /\ Return(Failed("error"))
  /\ UNCHANGED <<link, asked, lastTxnId, left, owed, closed>>

Tick ==
  /\ pc # "idle" /\ ~expired
  /\ left' = left - 1
  /\ UNCHANGED <<asked, lastTxnId, pc, head, leftover, result, peer>>

-----------------------------------------------------------------------------
(* The peer and the network.                                               *)

PeerAnswers(r) ==
  /\ r \in owed /\ ~closed /\ Len(stream) < MaxStream
  /\ stream' = Append(stream, Frame("answer", r))
  /\ \/ owed' = owed \ {r}
     \/ Datagrams /\ owed' = owed
  /\ UNCHANGED <<link, asked, lastTxnId, pc, left, head, leftover, result, closed>>

PeerSends(kind) ==
  /\ ~closed /\ Len(stream) < MaxStream
  /\ stream' = Append(stream, Stray(kind))
  /\ UNCHANGED <<link, asked, lastTxnId, pc, left, head, leftover, result, owed, closed>>

PeerCloses ==
  /\ ~closed /\ ~Datagrams
  /\ closed' = TRUE
  /\ UNCHANGED <<link, asked, lastTxnId, pc, left, head, leftover, result, owed, stream>>

-----------------------------------------------------------------------------
Client == \/ ExecuteRequest \/ WriteFails \/ ReadHeader \/ SkipPdu \/ ReadPdu
          \/ ReadOutOfFrame \/ PduTimesOut \/ HeaderTimesOut \/ ReadFails

Next == \/ Client
        \/ Tick
        \/ \E r \in owed : PeerAnswers(r)
        \/ \E kind \in link.strays : PeerSends(kind)
        \/ PeerCloses

Spec == Init /\ [][Next]_vars

\* Deadlines pass, and a read that has bytes or an error returns.
Fairness == /\ WF_vars(Tick)
            /\ WF_vars(PduTimesOut) /\ WF_vars(HeaderTimesOut)
            /\ WF_vars(SkipPdu) /\ WF_vars(ReadPdu)

FairSpec == Spec /\ Fairness

-----------------------------------------------------------------------------
(* Properties.                                                             *)

\* The id of a request is its number, modulo the 65536 there are.
Numbered(f) == f.req \in 1..asked /\ f.txn = f.req % TxnIds

\* An exchange never returns the response to another request, however late, often
\* or out of order responses come, unless it is 65536 requests late: readResponse
\* (tcp_transport.go:95-124) and the id spent by every request, answered or not
\* (50).
OwnAnswer ==
  result.kind = "answer" /\ asked - result.req < TxnIds => result.req = asked

\* Over UDP, whatever deadlines pass and whatever is duplicated, the wrapper holds
\* nothing when a header is read: it hands out the rest of a datagram without looking
\* at the deadline, and lets go of it when it is taken (udp.go:29-39, 50-56).  So no
\* exchange takes bytes amid a frame for its response.
DatagramsStayInFrame ==
  Datagrams /\ "illegalLength" \notin link.strays =>
    (leftover => pc = "pdu") /\ result.kind # "garbage"

\* An exchange ends, whatever the peer sends: one deadline for all the frames it
\* skips (tcp_transport.go:44).
ExchangeEnds == pc # "idle" ~> pc = "idle"

(* The inductive invariant.                                                *)

\* Only the wrapper holds a rest of a datagram, and nobody closes it; between a header
\* and its PDU there is a rest to be read.
WrapperInv == /\ IF Datagrams
                 THEN ~closed /\ \A i \in DOMAIN stream : stream[i].kind # "rest"
                 ELSE ~leftover
              /\ pc = "pdu" => AmidFrame

TInv == /\ TypeOK
        /\ lastTxnId = asked % TxnIds
        /\ \A r \in owed : Numbered(r)
        /\ \A i \in DOMAIN stream : stream[i].kind = "answer" => Numbered(stream[i])
        /\ head.kind = "answer" => Numbered(head)
        /\ pc = "pdu" => head.kind \in {"answer", "unknownProtocol"}
        /\ result.kind = "answer" =>
             result.req \in 1..asked /\ result.req % TxnIds = asked % TxnIds
        /\ WrapperInv

=============================================================================
