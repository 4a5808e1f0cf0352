---------------------------- MODULE ClientCallers ----------------------------
(***************************************************************************)
(* Several goroutines that share one ModbusClient (src/internal/modbus/    *)
(* client.go): Open and Close, SetUnitId and SetEncoding, and the reads    *)
(* and writes of registers, under mc.lock and beside it.                   *)
(*                                                                         *)
(* A request and its answer are dealt with under the lock.  The values are *)
(* not: a read decodes them after readRegisters has let go of the lock, a  *)
(* write of a slice encodes them, one by one, before writeRegisters takes  *)
(* it.  The two fields of the encoding are loaded one by one, and stored   *)
(* one by one, so a load may come between the stores; the operations on    *)
(* 16-bit registers and on bytes use the first field only.                 *)
(* What a request asks and what its answer may be is in ModbusClient.      *)
(***************************************************************************)
EXTENDS ValueEncoding

CONSTANTS Callers,   \* the goroutines
          UnitIds,   \* the unit ids they set
          Values,    \* how many values a slice has
          Data,      \* values of 32 and 64 bits
          MaxOpens,  \* bound: how many calls of Open get a connection
          None       \* nobody holds the lock

ASSUME CallersAssumption == /\ None \notin Callers
                            /\ UnitIds \subseteq 0..255
                            /\ Values \in Nat \ {0}
                            /\ Data \subseteq Wide
                            /\ MaxOpens \in Nat

\* 0 stands for any other number than those of Endianness and WordOrder.
Encodings == Orders \X Orders
Unset == 0
NoEncoding == <<Unset, Unset>>

\* What the fields have been, before anything is noted and after one encoding is.
Never == <<{}, {}>>
Only(e) == <<{e[1]}, {e[2]}>>

\* The n-th socket is the one the n-th successful Open got; 0 is a nil transport.
Nil == 0
Sockets == 1..MaxOpens

VARIABLES
  holder,      \* who holds mc.lock
  setting,     \* the word order that SetEncoding has yet to store
  unitId, endianness, wordOrder, transport,  \* the fields of mc
  opens,       \* how many sockets have been opened
  open,        \* those not closed
  panicked,    \* the process died of a nil dereference
  pc,          \* where each caller is
  kind,        \* what it called
  todo,        \* how many values it has yet to encode or decode
  loaded,      \* the endianness it has loaded for a value, without the word order
  used,        \* the encodings it has used
  sentUnder,   \* the encoding in force as its request was sent
  unit, via,   \* the unit id and the transport of the exchange it waits for
  since        \* history: what the two fields have been since it may use them, see InUse

client == <<unitId, endianness, wordOrder, transport, opens, open>>
local == <<kind, todo, loaded, used, sentUnder, unit, via, since>>
vars == <<holder, setting, client, panicked, pc, local>>

Encoding == <<endianness, wordOrder>>
Kinds == {"read", "writeSlice", "writeRegister"}
PcStates == {"idle", "dial", "setEncoding", "encode", "lock", "exchange", "decode",
             "returned"}
LockFree == holder = None

TypeOK == /\ holder \in Callers \cup {None}
          /\ setting \in Orders \cup {Unset}
          /\ unitId \in 0..255
          /\ endianness \in Orders /\ wordOrder \in Orders
          /\ transport \in Sockets \cup {Nil}
          /\ opens \in 0..MaxOpens
          /\ open \subseteq Sockets
          /\ panicked \in BOOLEAN
          /\ pc \in [Callers -> PcStates]
          /\ kind \in [Callers -> Kinds]
          /\ todo \in [Callers -> Nat]
          /\ loaded \in [Callers -> Orders \cup {Unset}]
          /\ used \in [Callers -> SUBSET Encodings]
          /\ sentUnder \in [Callers -> Encodings \cup {NoEncoding}]
          /\ unit \in [Callers -> 0..255]
          /\ via \in [Callers -> Sockets \cup {Nil}]
          /\ since \in [Callers -> (SUBSET Orders) \X (SUBSET Orders)]

\* NewClient: big endian, high word first, unit 1, no transport yet.
Init == /\ holder = None /\ setting = Unset
        /\ unitId = 1 /\ endianness = 1 /\ wordOrder = 1
        /\ transport = Nil /\ opens = 0 /\ open = {}
        /\ panicked = FALSE
        /\ pc = [c \in Callers |-> "idle"]
        /\ kind = [c \in Callers |-> "read"]
        /\ todo = [c \in Callers |-> 0]
        /\ loaded = [c \in Callers |-> Unset]
        /\ used = [c \in Callers |-> {}]
        /\ sentUnder = [c \in Callers |-> NoEncoding]
        /\ unit = [c \in Callers |-> 0]
        /\ via = [c \in Callers |-> Nil]
        /\ since = [c \in Callers |-> Never]

Survives == ~panicked /\ panicked' = FALSE
Goes(c, to) == pc' = [pc EXCEPT ![c] = to]

\* The call of c is over and what it knew is gone.
Forgets(c) == /\ Goes(c, "idle")
              /\ kind' = [kind EXCEPT ![c] = "read"]
              /\ todo' = [todo EXCEPT ![c] = 0]
              /\ used' = [used EXCEPT ![c] = {}]
              /\ sentUnder' = [sentUnder EXCEPT ![c] = NoEncoding]
              /\ unit' = [unit EXCEPT ![c] = 0]
              /\ via' = [via EXCEPT ![c] = Nil]
              /\ since' = [since EXCEPT ![c] = Never]

-----------------------------------------------------------------------------
(* Mutants, named after the definition they replace.                       *)

\* The unit id is set without the lock.
SetUnitId_Unlocked(c, id) ==
  /\ pc[c] = "idle"
  /\ unitId' = id
  /\ Survives
  /\ UNCHANGED <<holder, setting, endianness, wordOrder, transport, opens, open, pc, local>>

\* A refused operation returns without giving the lock back.
Refuse_KeepsLock(c) ==
  /\ pc[c] = "lock" /\ LockFree
  /\ kind[c] # "writeRegister"
  /\ holder' = c
  /\ Forgets(c)
  /\ Survives
  /\ UNCHANGED <<setting, client, loaded>>

\* The lock is given back before the answer has come.
Send_Unlocks(c) ==
  /\ pc[c] = "lock" /\ LockFree
  /\ transport # Nil
  /\ sentUnder' = [sentUnder EXCEPT ![c] = Encoding]
  /\ unit' = [unit EXCEPT ![c] = unitId]
  /\ via' = [via EXCEPT ![c] = transport]
  /\ used' = [used EXCEPT ![c] = IF kind[c] = "writeRegister" THEN {Encoding} ELSE @]
  /\ since' = [since EXCEPT ![c] = IF kind[c] = "writeSlice" THEN @ ELSE Only(Encoding)]
  /\ Goes(c, "exchange")
  /\ Survives
  /\ UNCHANGED <<holder, setting, client, kind, todo, loaded>>

-----------------------------------------------------------------------------
(* Open, Close and the setters.                                            *)

\* Dialling takes up to 15 s, with the lock held.
OpenBegin(c) ==
  /\ pc[c] = "idle" /\ LockFree
  /\ holder' = c
  /\ Goes(c, "dial")
  /\ Survives
  /\ UNCHANGED <<setting, client, local>>

\* The new transport replaces whatever there was.
OpenDone(c) ==
  /\ pc[c] = "dial" /\ opens < MaxOpens
  /\ opens' = opens + 1
  /\ transport' = opens'
  /\ open' = open \cup {opens'}
  /\ holder' = None
  /\ Goes(c, "idle")
  /\ Survives
  /\ UNCHANGED <<setting, unitId, endianness, wordOrder, local>>

\* A dial or a handshake that fails leaves the transport as it was.
DialFails(c) ==
  /\ pc[c] = "dial"
  /\ holder' = None
  /\ Goes(c, "idle")
  /\ Survives
  /\ UNCHANGED <<setting, client, local>>

\* Closing leaves the closed transport in place.
Close(c) ==
  /\ pc[c] = "idle" /\ LockFree
  /\ transport # Nil
  /\ open' = open \ {transport}
  /\ Survives
  /\ UNCHANGED <<holder, setting, unitId, endianness, wordOrder, transport, opens, pc, local>>

SetUnitId(c, id) ==
  /\ pc[c] = "idle" /\ LockFree
  /\ unitId' = id
  /\ Survives
  /\ UNCHANGED <<holder, setting, endianness, wordOrder, transport, opens, open, pc, local>>

\* The call of c is where it uses the encoding, or may yet: a slice is written in what
\* was in force since the call began, other values in what was since the request was sent.
InUse(c) == \/ pc[c] \in {"encode", "exchange", "decode"}
            \/ pc[c] = "lock" /\ kind[c] = "writeSlice"

\* Such calls note what a store puts in force.
Noted(e) == [c \in Callers |-> IF InUse(c) THEN <<since[c][1] \cup {e[1]}, since[c][2] \cup {e[2]}>>
                                          ELSE since[c]]

\* Both parameters are checked before either field is set; then the first one is.
SetEncoding(c, e, w) ==
  /\ pc[c] = "idle" /\ LockFree
  /\ IF e \in Orders /\ w \in Orders
     THEN /\ endianness' = e /\ setting' = w
          /\ since' = Noted(<<e, wordOrder>>)
          /\ holder' = c
          /\ Goes(c, "setEncoding")
     ELSE UNCHANGED <<endianness, setting, since, holder, pc>>
  /\ Survives
  /\ UNCHANGED <<unitId, wordOrder, transport, opens, open, kind, todo, loaded, used,
                 sentUnder, unit, via>>

\* The second one.
StoreWordOrder(c) ==
  /\ pc[c] = "setEncoding"
  /\ wordOrder' = setting /\ setting' = Unset
  /\ since' = Noted(<<endianness, setting>>)
  /\ holder' = None
  /\ Goes(c, "idle")
  /\ Survives
  /\ UNCHANGED <<unitId, endianness, transport, opens, open, kind, todo, loaded, used,
                 sentUnder, unit, via>>

-----------------------------------------------------------------------------
(* Reads and writes.                                                       *)

\* Mutant: a read loads the endianness before it takes the lock.
Call_LoadsEarly(c, k) ==
  /\ pc[c] = "idle"
  /\ kind' = [kind EXCEPT ![c] = k]
  /\ todo' = [todo EXCEPT ![c] = IF k = "writeSlice" THEN Values ELSE 1]
  /\ since' = [since EXCEPT ![c] = IF k = "writeSlice" THEN Only(Encoding) ELSE Never]
  /\ loaded' = [loaded EXCEPT ![c] = IF k = "read" THEN endianness ELSE Unset]
  /\ Goes(c, IF k = "writeSlice" THEN "encode" ELSE "lock")
  /\ Survives
  /\ UNCHANGED <<holder, setting, client, used, sentUnder, unit, via>>

Call(c, k) ==
  /\ pc[c] = "idle"
  /\ kind' = [kind EXCEPT ![c] = k]
  /\ todo' = [todo EXCEPT ![c] = IF k = "writeSlice" THEN Values ELSE 1]
  /\ since' = [since EXCEPT ![c] = IF k = "writeSlice" THEN Only(Encoding) ELSE Never]
  /\ Goes(c, IF k = "writeSlice" THEN "encode" ELSE "lock")
  /\ Survives
  /\ UNCHANGED <<holder, setting, client, loaded, used, sentUnder, unit, via>>

\* The two loads for one value, without the lock: a write makes them for each of
\* its values, a read once for all.
LoadEndianness(c) ==
  /\ pc[c] \in {"encode", "decode"} /\ loaded[c] = Unset
  /\ loaded' = [loaded EXCEPT ![c] = endianness]
  /\ Survives
  /\ UNCHANGED <<holder, setting, client, pc, kind, todo, used, sentUnder, unit, via, since>>

LoadWordOrder(c) ==
  /\ pc[c] \in {"encode", "decode"} /\ loaded[c] # Unset
  /\ used' = [used EXCEPT ![c] = @ \cup {<<loaded[c], wordOrder>>}]
  /\ loaded' = [loaded EXCEPT ![c] = Unset]
  /\ todo' = [todo EXCEPT ![c] = @ - 1]
  /\ IF todo[c] > 1 THEN UNCHANGED pc
                    ELSE Goes(c, IF pc[c] = "encode" THEN "lock" ELSE "returned")
  /\ Survives
  /\ UNCHANGED <<holder, setting, client, kind, sentUnder, unit, via, since>>

\* The checks refuse the operation; WriteRegister has none.
Refuse(c) ==
  /\ pc[c] = "lock" /\ LockFree
  /\ kind[c] # "writeRegister"
  /\ Forgets(c)
  /\ Survives
  /\ UNCHANGED <<holder, setting, client, loaded>>

\* The request goes out; WriteRegister encodes its value under the lock.
Send(c) ==
  /\ pc[c] = "lock" /\ LockFree
  /\ transport # Nil
  /\ holder' = c
  /\ sentUnder' = [sentUnder EXCEPT ![c] = Encoding]
  /\ unit' = [unit EXCEPT ![c] = unitId]
  /\ via' = [via EXCEPT ![c] = transport]
  /\ used' = [used EXCEPT ![c] = IF kind[c] = "writeRegister" THEN {Encoding} ELSE @]
  /\ since' = [since EXCEPT ![c] = IF kind[c] = "writeSlice" THEN @ ELSE Only(Encoding)]
  /\ Goes(c, "exchange")
  /\ Survives
  /\ UNCHANGED <<setting, client, kind, todo, loaded>>

\* Close and the operations call the transport's methods unseen.
DereferenceNil(c, at) ==
  /\ pc[c] = at /\ LockFree
  /\ transport = Nil
  /\ ~panicked
  /\ panicked' = TRUE
  /\ UNCHANGED <<holder, setting, client, pc, local>>

\* The proper answer.  WriteRegister decodes the echoed value under the lock.
Answered(c) ==
  /\ pc[c] = "exchange"
  /\ via[c] \in open
  /\ holder' = None
  /\ Goes(c, IF kind[c] = "read" THEN "decode" ELSE "returned")
  /\ used' = [used EXCEPT ![c] = IF kind[c] = "writeRegister" THEN @ \cup {Encoding} ELSE @]
  /\ unit' = [unit EXCEPT ![c] = 0]
  /\ via' = [via EXCEPT ![c] = Nil]
  /\ Survives
  /\ UNCHANGED <<setting, client, kind, todo, loaded, sentUnder, since>>

\* An error of the transport, a closed one for instance, or another answer.
ExchangeFails(c) ==
  /\ pc[c] = "exchange"
  /\ holder' = None
  /\ Forgets(c)
  /\ Survives
  /\ UNCHANGED <<setting, client, loaded>>

\* A call that succeeded returns its values.
Return(c) ==
  /\ pc[c] = "returned"
  /\ Forgets(c)
  /\ loaded' = [loaded EXCEPT ![c] = Unset]
  /\ Survives
  /\ UNCHANGED <<holder, setting, client>>

-----------------------------------------------------------------------------
Locked(c) == Refuse(c) \/ Send(c) \/ DereferenceNil(c, "lock")
Works(c) == \/ OpenDone(c) \/ DialFails(c) \/ StoreWordOrder(c)
            \/ LoadEndianness(c) \/ LoadWordOrder(c)
            \/ Answered(c) \/ ExchangeFails(c) \/ Return(c)

Begins(c) == \/ OpenBegin(c) \/ Close(c) \/ DereferenceNil(c, "idle")
             \/ \E id \in UnitIds : SetUnitId(c, id)
             \/ \E e, w \in Orders \cup {Unset} : SetEncoding(c, e, w)
             \/ \E k \in Kinds : Call(c, k)

Next == \E c \in Callers : Begins(c) \/ Locked(c) \/ Works(c)

Spec == Init /\ [][Next]_vars

\* Dialling and exchanges end by their deadlines, goroutines are scheduled, and
\* sync.Mutex hands the lock to a waiter that has waited too long.
Fairness == \A c \in Callers : WF_vars(Works(c)) /\ SF_vars(Locked(c))

FairSpec == Spec /\ Fairness

-----------------------------------------------------------------------------
(* Properties.                                                             *)

\* From the sending of a request to the judgement of its answer nothing it rests
\* on changes: the unit id the answer is compared with, the transport it comes
\* from, the encoding a single write and its echo are compared in; no other exchange
\* runs, and no SetEncoding is half done (client.go:323, 333, 343, 704, 1016).
ExchangeUndisturbed ==
  \A c \in Callers : pc[c] = "exchange" =>
    /\ unitId = unit[c] /\ transport = via[c] /\ Encoding = sentUnder[c]
    /\ \A d \in Callers : pc[d] \in {"exchange", "dial", "setEncoding"} => d = c

\* The encodings whose fields have both been in force while the call of c might use
\* them, together or not.
InForce(c) == since[c][1] \X since[c][2]

\* Although it loads the encoding many times beside the lock, and others set it
\* meanwhile, field by field, a call uses nothing older or newer than what was in
\* force while it needed it: every half it uses was in force after its call began, or,
\* if it reads, after its request was sent (client.go:413, 441, 774).  So a call amid
\* which nobody changes a field uses one encoding, and what WriteRegister sends and
\* compares under the lock (client.go:719, 737) is never mixed.
UsesWhatWasInForce ==
  \A c \in Callers : pc[c] = "returned" =>
    /\ used[c] # {} /\ used[c] \subseteq InForce(c)
    /\ sentUnder[c] \in InForce(c)
    /\ kind[c] = "writeRegister" => used[c] = {sentUnder[c]}

\* Nobody changed a field of the encoding while the call of c might use it.
Quiet(c) == since[c] = Only(sentUnder[c])

\* So what a quiet call wrote reads back under the encoding its request was sent
\* under, and lies in the registers as that encoding has it (client.go:27-33,
\* encoding.go:72-92, 142-166).
QuietValuesSurvive ==
  \A c \in Callers : pc[c] = "returned" /\ Quiet(c) =>
    \A u \in used[c], v \in Data :
      LET e == sentUnder[c][1]
          w == sentUnder[c][2]
          written == wideToBytes(u[1], u[2], v)
      IN  bytesToWide(e, w, written) = v /\ written = Registers(e, w, v)

\* Every call ends: whoever takes the lock gives it back, on the paths that
\* return early, too.
CallEnds == \A c \in Callers : pc[c] # "idle" ~> (pc[c] = "idle" \/ panicked)

(* The inductive invariant, in its parts.                                  *)

\* The lock is held by those who dial, exchange or set the encoding, and by nobody else.
LockInv == /\ \A c \in Callers : pc[c] \in {"exchange", "dial", "setEncoding"} <=> holder = c
           /\ \A c \in Callers : pc[c] = "setEncoding" => setting \in Orders

\* The transport is the last socket opened.
TransportInv == transport = opens /\ open \subseteq 1..opens

\* While an exchange runs nothing of the client changes.
ExchangeInv ==
  \A c \in Callers : pc[c] = "exchange" =>
    unit[c] = unitId /\ via[c] = transport /\ sentUnder[c] = Encoding

\* What the call of c has loaded and used is of what was in force.
CallUses(c) ==
  /\ InUse(c) => Encoding \in InForce(c)
  /\ loaded[c] # Unset => /\ pc[c] \in {"encode", "decode"}
                          /\ loaded[c] \in since[c][1]
  /\ used[c] \subseteq InForce(c)
  /\ pc[c] \in {"exchange", "decode", "returned"} => sentUnder[c] \in InForce(c)

\* And whether it has used any.
HasUsed(c) ==
  /\ pc[c] \in {"idle", "dial", "setEncoding"} => used[c] = {}
  /\ pc[c] = "lock" => (used[c] = {} <=> kind[c] # "writeSlice")
  /\ pc[c] = "exchange" => (used[c] = {} <=> kind[c] = "read")
  /\ pc[c] = "decode" => kind[c] = "read"
  /\ pc[c] = "returned" => used[c] # {}
  /\ pc[c] \in {"exchange", "returned"} /\ kind[c] = "writeRegister" =>
       used[c] = {sentUnder[c]}
UsesInv == \A c \in Callers : CallUses(c) /\ HasUsed(c)

\* A call has values left to encode or decode where it goes on to do so.
TodoInv ==
  \A c \in Callers :
    /\ \/ pc[c] \in {"encode", "decode"}
       \/ pc[c] \in {"lock", "exchange"} /\ kind[c] = "read"
       => todo[c] > 0
    /\ pc[c] = "encode" => kind[c] = "writeSlice"

CallersInv == TypeOK /\ LockInv /\ TransportInv /\ ExchangeInv /\ UsesInv /\ TodoInv

-----------------------------------------------------------------------------
(* What a comment of the code says and the code does not do.               *)

\* client.go:341: SetEncoding "sets the encoding (endianness and word ordering) of
\* subsequent requests": a request has the encoding that was set as it was sent.
EncodingOfRequest ==
  \A c \in Callers : pc[c] = "returned" => used[c] = {sentUnder[c]}

=============================================================================
