---------------------------- MODULE RtuTransport ----------------------------
(***************************************************************************)
(* How ModbusClient exchanges requests and responses over a serial line or *)
(* over a socket that carries RTU frames                                   *)
(* (src/internal/modbus/rtu_transport.go, src/internal/modbus/serial.go).  *)
(*                                                                         *)
(* mc.lock lets one exchange run at a time.  An RTU frame has no           *)
(* transaction id and no length: the transport reads three bytes, takes    *)
(* from them how many more there must be, and knows by the CRC whether     *)
(* they were one frame.  Devices answer as late as they like and in any    *)
(* order; bytes get lost, changed or come from nowhere.  A deadline may    *)
(* pass after any byte.                                                    *)
(*                                                                         *)
(* The CRC is ideal here: it tells every frame that is cut or changed.     *)
(***************************************************************************)
EXTENDS Naturals, Sequences

CONSTANTS Shapes,       \* what devices answer
          ThirdBytes,   \* what a byte out of place may be where a length is
          MaxRequests,  \* bound on exchanges
          MaxLine,      \* bound on bytes under way to the transport
          MaxFaults     \* bound on bytes lost, changed or from nowhere

\* Function codes of one length of response: reads of coils and registers, writes,
\* a masked write, exceptions, all others.
Codes == {"read", "write", "mask", "exception", "unknown"}
Shape == [code : Codes \ {"unknown"}, third : 0..255]

ASSUME RtuAssumption == /\ Shapes \subseteq Shape
                        /\ ThirdBytes \subseteq 0..255
                        /\ MaxRequests \in Nat
                        /\ MaxLine \in Nat
                        /\ MaxFaults \in Nat

VARIABLES
  link,     \* a serialPortWrapper, "serial", or a net.Conn, "conn"
  reply,    \* how the answer to each request looks
  asked,    \* the exchanges begun so far: exchange n asks request n
  pc,       \* "idle"; about to read a "header" or a "body", or to "flush"
  taken,    \* the header that has been read
  need,     \* how many bytes are to follow it
  result,   \* what the last exchange returned
  silence,  \* whether 3.5 character times have "passed" since a byte was read;
            \* if not, lastActivity has it "noted" or "missed"
  settled,  \* as the exchange began nothing was under way, from or to a device
  due,      \* the requests devices may still answer
  line,     \* the bytes under way to the transport
  faults    \* how many bytes were lost, changed or from nowhere

vars == <<link, reply, asked, pc, taken, need, result, silence, settled, due, line, faults>>
devices == <<link, reply, due, faults>>

Requests == 1..MaxRequests

maxRTUFrameLength == 256

\* Of a response, without the header and the CRC.
expectedResponseLenth(code, third) ==
  [read |-> third, write |-> 3, mask |-> 5, exception |-> 0][code]

FrameLength(n) == 3 + expectedResponseLenth(reply[n].code, reply[n].third) + 2

\* A byte is known by the frame it belongs to and its place there.
Byte(n, i) == [req |-> n, pos |-> i]
Noise == Byte(0, 0)
Bytes == {Noise} \cup [req : 1..asked, pos : 1..(maxRTUFrameLength + 4)]
Frame(n) == [i \in 1..FrameLength(n) |-> Byte(n, i)]

OnLine == {line[i].req : i \in DOMAIN line}
Drop(k) == SubSeq(line, k + 1, Len(line))

Results == [kind : {"answer"}, req : 1..asked]
             \cup {[kind |-> k, req |-> 0] : k \in {"none", "timeout", "error"}}
NoResult == [kind |-> "none", req |-> 0]
Failed(kind) == [kind |-> kind, req |-> 0]

TypeOK == /\ link \in {"serial", "conn"}
          /\ reply \in [Requests -> Shapes]
          /\ asked \in 0..MaxRequests
          /\ pc \in {"idle", "header", "body", "flush"}
          /\ taken \in Seq(Bytes)
          /\ need \in 0..(maxRTUFrameLength - 3)
          /\ result \in Results
          /\ silence \in {"passed", "noted", "missed"}
          /\ settled \in BOOLEAN
          /\ due \subseteq 1..asked
          /\ line \in Seq(Bytes)
          /\ faults \in 0..MaxFaults

Init == /\ link \in {"serial", "conn"}
        /\ reply \in [Requests -> Shapes]
        /\ asked = 0 /\ pc = "idle" /\ taken = << >> /\ need = 0
        /\ result = NoResult
        /\ silence = "passed" /\ settled = FALSE
        /\ due = {} /\ line = << >> /\ faults = 0

-----------------------------------------------------------------------------
(* The transport.                                                          *)

\* The request is sent when the silence lastActivity asks for is over, and read
\* for when it has been sent and t3.5 has passed once more.
ExecuteRequest ==
  /\ pc = "idle" /\ asked < MaxRequests
  /\ silence # "noted"
  /\ asked' = asked + 1
  /\ pc' = "header"
  /\ result' = NoResult
  /\ silence' = "passed"
  /\ settled' = (due = {} /\ line = << >>)
  /\ due' = due \cup {asked'}
  /\ UNCHANGED <<link, reply, taken, need, line, faults>>

\* The deadline cannot be set, or the write fails.
SendFails ==
  /\ pc = "idle" /\ asked < MaxRequests
  /\ asked' = asked + 1
  /\ result' = Failed("error")
  /\ UNCHANGED <<devices, pc, taken, need, silence, settled, line>>

\* Mutant: only an answer counts as activity.
Marks_Answers(r) == r.kind = "answer"

\* err # ErrRequestTimedOut: the timeout of a net.Conn is another error.
Marks(r) == r.kind = "timeout" => link = "conn"

\* The exchange returns r, having read k bytes more.
Return(r, k) == /\ pc' = "idle" /\ taken' = << >> /\ need' = 0
                /\ result' = r
                /\ line' = Drop(k)
                /\ silence' = IF Marks(r) THEN "noted"
                              ELSE IF k > 0 THEN "missed" ELSE silence
                /\ UNCHANGED <<asked, settled>>

\* What was read is no frame: wait, and flush the line.
Resync(k) == /\ pc' = "flush" /\ taken' = << >> /\ need' = 0
             /\ line' = Drop(k)
             /\ silence' = "missed"
             /\ UNCHANGED <<asked, result, settled>>

\* Mutant: the CRC is forgotten.
Fits_NoCrc(code, third) ==
  code # "unknown" /\ 3 + expectedResponseLenth(code, third) <= maxRTUFrameLength

Fits(code, third) ==
  code # "unknown" /\ 3 + expectedResponseLenth(code, third) + 2 <= maxRTUFrameLength

\* What the second and the third byte of a header may be: any byte, unless they are
\* the second and the third of a frame.
CodesOf(b) == IF b.pos = 2 THEN {reply[b.req].code} ELSE Codes
ThirdsOf(b) == IF b.pos = 3 THEN {reply[b.req].third} ELSE ThirdBytes

\* Three bytes tell how many are to follow, or that they are no header.
ReadHeader ==
  /\ pc = "header" /\ Len(line) >= 3
  /\ \E code \in CodesOf(line[2]), third \in ThirdsOf(line[3]) :
       \/ ~Fits(code, third) /\ Resync(3)
       \/ /\ Fits(code, third)
          /\ pc' = "body"
          /\ taken' = SubSeq(line, 1, 3)
          /\ need' = expectedResponseLenth(code, third) + 2
          /\ line' = Drop(3)
          /\ silence' = "missed"
          /\ UNCHANGED <<asked, result, settled>>
  /\ UNCHANGED devices

\* Nothing came before the deadline.
HeaderTimesOut ==
  /\ pc = "header"
  /\ Return(Failed("timeout"), 0)
  /\ UNCHANGED devices

\* One or two bytes came before the deadline or an error: ErrShortFrame.
HeaderCut ==
  /\ pc = "header"
  /\ \E k \in 1..2 : k <= Len(line) /\ Resync(k)
  /\ UNCHANGED devices

Received == taken \o SubSeq(line, 1, need)

\* Mutant: the CRC is not compared.
ReadBody_NoCrc ==
  /\ pc = "body" /\ Len(line) >= need
  /\ Return([kind |-> "answer", req |-> taken[1].req], need)
  /\ UNCHANGED devices

\* The CRC is right if these bytes are one frame.
ReadBody ==
  /\ pc = "body" /\ Len(line) >= need
  /\ \/ \E n \in 1..asked :
          Received = Frame(n) /\ Return([kind |-> "answer", req |-> n], need)
     \/ /\ \A n \in 1..asked : Received # Frame(n)
        /\ Resync(need)
  /\ UNCHANGED devices

\* The deadline passes; what came of the body is gone, what is to come starts the
\* next frame: there is no flush.
BodyTimesOut ==
  /\ pc = "body"
  /\ \E k \in 0..(need - 1) : k <= Len(line) /\ Return(Failed("timeout"), k)
  /\ UNCHANGED devices

\* The link ends amid the body: io.ErrUnexpectedEOF, then ErrShortFrame.
BodyCut ==
  /\ pc = "body"
  /\ \E k \in 1..(need - 1) : k <= Len(line) /\ Resync(k)
  /\ UNCHANGED devices

\* Any other error of the link.
ReadFails ==
  /\ \/ pc = "header" /\ Return(Failed("error"), 0)
     \/ /\ pc = "body"
        /\ \E k \in 0..(need - 1) : k <= Len(line) /\ Return(Failed("error"), k)
  /\ UNCHANGED devices

\* discard eats what has come by then.
Discard ==
  /\ pc = "flush"
  /\ \E k \in 0..Len(line) : Return(Failed("error"), k)
  /\ UNCHANGED devices

\* 3.5 character times in which nothing is read.
Silence ==
  /\ silence # "passed"
  /\ silence' = "passed"
  /\ UNCHANGED <<devices, asked, pc, taken, need, result, settled, line>>

-----------------------------------------------------------------------------
(* The devices and the line.                                               *)

DeviceAnswers(n) ==
  /\ n \in due /\ Len(line) + FrameLength(n) <= MaxLine
  /\ line' = line \o Frame(n)
  /\ due' = due \ {n}
  /\ UNCHANGED <<link, reply, asked, pc, taken, need, result, silence, settled, faults>>

\* The request does not reach a device, or its answer gets lost whole.
Unanswered(n) ==
  /\ n \in due
  /\ due' = due \ {n}
  /\ UNCHANGED <<link, reply, asked, pc, taken, need, result, silence, settled, line, faults>>

Fault == /\ faults < MaxFaults
         /\ faults' = faults + 1
         /\ UNCHANGED <<link, reply, asked, pc, taken, need, result, silence, settled, due>>

ByteChanges(i) == Fault /\ line' = [line EXCEPT ![i] = Noise]

ByteLost(i) == Fault /\ line' = SubSeq(line, 1, i - 1) \o Drop(i)

NoiseArrives == Fault /\ Len(line) < MaxLine /\ line' = Append(line, Noise)

-----------------------------------------------------------------------------
Transport == \/ ExecuteRequest \/ SendFails
             \/ ReadHeader \/ HeaderTimesOut \/ HeaderCut
             \/ ReadBody \/ BodyTimesOut \/ BodyCut \/ ReadFails \/ Discard
             \/ Silence

Next == \/ Transport
        \/ \E n \in due : DeviceAnswers(n) \/ Unanswered(n)
        \/ \E i \in DOMAIN line : ByteChanges(i) \/ ByteLost(i)
        \/ NoiseArrives

Spec == Init /\ [][Next]_vars

-----------------------------------------------------------------------------
(* Properties.                                                             *)

\* Whatever came late, cut or changed, an exchange that began when nothing was
\* under way returns the answer to its own request or none (rtu_transport.go:136-199):
\* what an exchange leaves behind is all that can put the next one out of step.
OwnWhenSettled == settled /\ result.kind = "answer" => result.req = asked

\* What an exchange reads off the line it marks as activity, so that the next
\* request keeps its distance (rtu_transport.go:70-75, 104-107) -- except that a
\* deadline that passes amid a body on a serial line is an ErrRequestTimedOut, and
\* the bytes before it go unmarked.
HeardIsNoted ==
  [][pc # "idle" /\ pc' = "idle" /\ silence' = "missed" =>
       link = "serial" /\ pc = "body" /\ result'.kind = "timeout"]_vars

\* The transport keeps the promise of ExchangeService: it returns answers to
\* requests that were asked, each once, though it cannot tell which
\* (rtu_transport.go:59-110).
Service == INSTANCE ExchangeService
  WITH NoRequest <- 0,
       waiting <- IF pc = "idle" THEN 0 ELSE asked,
       owed <- [n \in Requests |-> IF n \in due \cup OnLine THEN 1 ELSE 0],
       answer <- result.req
ServesExchange == Service!ServiceSpec

(* The inductive invariant.                                                *)

\* The bytes of a frame come in order, and only of a request no device has to answer
\* any more.
InOrder == /\ \A i, j \in DOMAIN line :
                i < j /\ line[i].req = line[j].req /\ line[i].req # 0 =>
                  line[i].pos < line[j].pos
           /\ \A i \in DOMAIN line : line[i].req # 0 =>
                line[i].pos <= FrameLength(line[i].req)
           /\ due \cap OnLine = {}

\* rxbuf has room for the body.
BodyFits == pc = "body" => need \in 2..(maxRTUFrameLength - 3) /\ Len(taken) = 3

SettledInv == settled => /\ pc # "idle" => (due \cup OnLine) \ {0} \subseteq {asked}
                         /\ OwnWhenSettled

\* The line was quiet when the request was sent, and nothing has been read since.
HeaderInv == pc = "header" => silence = "passed"

AskedInv == pc # "idle" => asked # 0

RInv == TypeOK /\ InOrder /\ BodyFits /\ SettledInv /\ HeaderInv /\ AskedInv

=============================================================================
