------------------------- MODULE ClientCallersProofs -------------------------
(* Proofs about ClientCallers for any number of callers, values and sockets. *)
EXTENDS ClientCallers, SequenceTheorems, TLAPS

\* Orders and encodings in the terms the provers use.
LEMMA EncodingType ==
  ASSUME TypeOK PROVE Encoding \in Encodings /\ endianness # Unset /\ Unset \notin Orders
BY DEF TypeOK, Encoding, Encodings, Orders, Unset

\* The initial state satisfies the invariant.
LEMMA InitCallersInv == Init => CallersInv
<1> SUFFICES ASSUME Init PROVE CallersInv
  OBVIOUS
<1>1. TypeOK
  <2>1. /\ pc \in [Callers -> PcStates] /\ kind \in [Callers -> Kinds]
        /\ todo \in [Callers -> Nat] /\ unit \in [Callers -> 0..255]
    BY DEF Init, PcStates, Kinds
  <2>2. /\ loaded \in [Callers -> Orders \cup {Unset}]
        /\ used \in [Callers -> SUBSET Encodings]
        /\ sentUnder \in [Callers -> Encodings \cup {NoEncoding}]
        /\ via \in [Callers -> Sockets \cup {Nil}]
        /\ since \in [Callers -> (SUBSET Orders) \X (SUBSET Orders)]
    BY DEF Init, Never
  <2>3. /\ holder \in Callers \cup {None} /\ setting \in Orders \cup {Unset}
        /\ unitId \in 0..255
        /\ endianness \in Orders /\ wordOrder \in Orders
        /\ transport \in Sockets \cup {Nil} /\ opens \in 0..MaxOpens
    BY CallersAssumption DEF Init, Orders, Nil
  <2>4. open \subseteq Sockets /\ panicked \in BOOLEAN
    BY DEF Init
  <2>5. QED BY <2>1, <2>2, <2>3, <2>4 DEF TypeOK
<1>2. LockInv
  BY CallersAssumption DEF Init, LockInv
<1>3. TransportInv
  BY DEF Init, TransportInv, Nil
<1>4. ExchangeInv
  BY DEF Init, ExchangeInv
<1>5. UsesInv
  BY DEF Init, UsesInv, CallUses, HasUsed, InUse
<1>6. TodoInv
  BY DEF Init, TodoInv
<1>7. QED BY <1>1, <1>2, <1>3, <1>4, <1>5, <1>6 DEF CallersInv

\* A call that is over has well-typed variables.
LEMMA ForgetsType ==
  ASSUME TypeOK, NEW c \in Callers, Forgets(c)
  PROVE  /\ pc' \in [Callers -> PcStates]
         /\ kind' \in [Callers -> Kinds]
         /\ todo' \in [Callers -> Nat]
         /\ used' \in [Callers -> SUBSET Encodings]
         /\ sentUnder' \in [Callers -> Encodings \cup {NoEncoding}]
         /\ unit' \in [Callers -> 0..255]
         /\ via' \in [Callers -> Sockets \cup {Nil}]
         /\ since' \in [Callers -> (SUBSET Orders) \X (SUBSET Orders)]
<1> USE DEF TypeOK, Forgets, Goes
<1>1. pc' \in [Callers -> PcStates]
  BY DEF PcStates
<1>2. kind' \in [Callers -> Kinds]
  BY DEF Kinds
<1>3. todo' \in [Callers -> Nat]
  OBVIOUS
<1>4. used' \in [Callers -> SUBSET Encodings]
  OBVIOUS
<1>5. sentUnder' \in [Callers -> Encodings \cup {NoEncoding}]
  OBVIOUS
<1>6. unit' \in [Callers -> 0..255]
  OBVIOUS
<1>7. via' \in [Callers -> Sockets \cup {Nil}]
  OBVIOUS
<1>8. since' \in [Callers -> (SUBSET Orders) \X (SUBSET Orders)]
  BY DEF Never
<1>9. QED BY <1>1, <1>2, <1>3, <1>4, <1>5, <1>6, <1>7, <1>8

\* What is noted are orders.
LEMMA OnlyType ==
  ASSUME NEW e \in Encodings PROVE Only(e) \in (SUBSET Orders) \X (SUBSET Orders)
BY DEF Only, Encodings

\* The same of what is added to what was noted.
LEMMA NotedType ==
  ASSUME TypeOK, NEW e \in Orders, NEW w \in Orders
  PROVE  Noted(<<e, w>>) \in [Callers -> (SUBSET Orders) \X (SUBSET Orders)]
<1>1. ASSUME NEW c \in Callers
      PROVE  /\ since[c] \in (SUBSET Orders) \X (SUBSET Orders)
             /\ <<since[c][1] \cup {e}, since[c][2] \cup {w}>> \in (SUBSET Orders) \X (SUBSET Orders)
  BY DEF TypeOK
<1>2. QED BY <1>1 DEF Noted

\* Every step keeps the types.
LEMMA TypeStep ==
  ASSUME CallersInv, [Next]_vars PROVE TypeOK'
<1> USE CallersAssumption DEF TypeOK, Orders, Kinds, PcStates, Nil, Unset
<1>0. TypeOK /\ TransportInv /\ Encoding \in Encodings
  BY EncodingType DEF CallersInv
<1>1. ASSUME NEW c \in Callers, OpenBegin(c) PROVE TypeOK'
  BY <1>0, <1>1 DEF OpenBegin, Goes, Survives, client, local
<1>2. ASSUME NEW c \in Callers, OpenDone(c) PROVE TypeOK'
  <2>1. opens' \in 0..MaxOpens /\ opens' \in Sockets
    BY <1>0, <1>2 DEF OpenDone, Sockets
  <2>2. QED BY <1>0, <1>2, <2>1 DEF OpenDone, Goes, Survives, local
<1>3. ASSUME NEW c \in Callers, DialFails(c) PROVE TypeOK'
  BY <1>0, <1>3 DEF DialFails, Goes, Survives, client, local
<1>4. ASSUME NEW c \in Callers, Close(c) PROVE TypeOK'
  BY <1>0, <1>4 DEF Close, Survives, local
<1>5. ASSUME NEW c \in Callers, NEW id \in UnitIds, SetUnitId(c, id) PROVE TypeOK'
  BY <1>0, <1>5 DEF SetUnitId, Survives, local
<1>6. ASSUME NEW c \in Callers, NEW e, NEW w, SetEncoding(c, e, w) PROVE TypeOK'
  <2>1. endianness' \in Orders /\ setting' \in Orders \cup {Unset}
        /\ holder' \in Callers \cup {None}
    BY <1>0, <1>6 DEF SetEncoding
  <2>2. since' \in [Callers -> (SUBSET Orders) \X (SUBSET Orders)]
    <3>1. CASE e \in Orders /\ w \in Orders
      <4>1. since' = Noted(<<e, wordOrder>>)
        BY <1>6, <3>1 DEF SetEncoding
      <4>2. wordOrder \in Orders
        BY <1>0
      <4>3. Noted(<<e, wordOrder>>) \in [Callers -> (SUBSET Orders) \X (SUBSET Orders)]
        BY <1>0, <3>1, <4>2, NotedType
      <4>4. QED BY <4>1, <4>3
    <3>2. CASE ~(e \in Orders /\ w \in Orders)
      BY <1>0, <1>6, <3>2 DEF SetEncoding
    <3>3. QED BY <3>1, <3>2
  <2>3. pc' \in [Callers -> PcStates]
    BY <1>0, <1>6 DEF SetEncoding, Goes
  <2>4. QED BY <1>0, <1>6, <2>1, <2>2, <2>3 DEF SetEncoding, Survives
<1>7. ASSUME NEW c \in Callers, NEW k \in Kinds, Call(c, k) PROVE TypeOK'
  <2>1. since' \in [Callers -> (SUBSET Orders) \X (SUBSET Orders)]
    BY <1>0, <1>7, OnlyType DEF Call, Never
  <2>2. pc' \in [Callers -> PcStates] /\ kind' \in [Callers -> Kinds]
    BY <1>0, <1>7 DEF Call, Goes
  <2>3. todo' \in [Callers -> Nat]
    BY <1>0, <1>7 DEF Call
  <2>4. QED BY <1>0, <1>7, <2>1, <2>2, <2>3 DEF Call, Survives, client
<1>8. ASSUME NEW c \in Callers, LoadEndianness(c) PROVE TypeOK'
  BY <1>0, <1>8 DEF LoadEndianness, Survives, client
<1>9. ASSUME NEW c \in Callers, LoadWordOrder(c) PROVE TypeOK'
  <2>1. loaded[c] \in Orders /\ wordOrder \in Orders
    BY <1>0, <1>9 DEF LoadWordOrder
  <2>2. <<loaded[c], wordOrder>> \in Encodings
    BY <2>1 DEF Encodings
  <2>3. used' \in [Callers -> SUBSET Encodings]
    <3>1. used' = [used EXCEPT ![c] = used[c] \cup {<<loaded[c], wordOrder>>}]
      BY <1>9 DEF LoadWordOrder
    <3>2. used \in [Callers -> SUBSET Encodings]
          /\ used[c] \cup {<<loaded[c], wordOrder>>} \in SUBSET Encodings
      BY <1>0, <2>2
    <3>3. QED BY <3>1, <3>2
  <2>4. todo[c] - 1 \in Nat
    BY <1>0, <1>9 DEF LoadWordOrder, CallersInv, TodoInv
  <2>5. pc' \in [Callers -> PcStates] /\ todo' \in [Callers -> Nat]
        /\ loaded' \in [Callers -> Orders \cup {Unset}]
    BY <1>0, <1>9, <2>4 DEF LoadWordOrder, Goes
  <2>6. /\ UNCHANGED <<holder, setting, unitId, endianness, wordOrder, transport, opens, open>>
        /\ UNCHANGED <<kind, sentUnder, unit, via, since>> /\ panicked' \in BOOLEAN
    BY <1>9, Zenon DEF LoadWordOrder, Survives, client
  <2>7. QED BY <1>0, <2>3, <2>5, <2>6
<1>10. ASSUME NEW c \in Callers, Refuse(c) PROVE TypeOK'
  <2>1. Forgets(c) /\ UNCHANGED <<holder, loaded>>
    BY <1>10 DEF Refuse
  <2>2. /\ UNCHANGED <<setting, unitId, endianness, wordOrder, transport, opens, open>>
        /\ panicked' \in BOOLEAN
    BY <1>10, Zenon DEF Refuse, Survives, client
  <2>3. QED BY <1>0, <2>1, <2>2, ForgetsType
<1>11. ASSUME NEW c \in Callers, Send(c) PROVE TypeOK'
  <2>1. since' \in [Callers -> (SUBSET Orders) \X (SUBSET Orders)]
    BY <1>0, <1>11, OnlyType DEF Send
  <2>2. used' \in [Callers -> SUBSET Encodings]
    BY <1>0, <1>11 DEF Send
  <2>3. /\ pc' \in [Callers -> PcStates] /\ holder' \in Callers \cup {None}
        /\ sentUnder' \in [Callers -> Encodings \cup {NoEncoding}]
    BY <1>0, <1>11 DEF Send, Goes
  <2>4. unit' \in [Callers -> 0..255] /\ via' \in [Callers -> Sockets \cup {Nil}]
    BY <1>0, <1>11 DEF Send
  <2>5. QED BY <1>0, <1>11, <2>1, <2>2, <2>3, <2>4 DEF Send, Survives, client
<1>12. ASSUME NEW c \in Callers, NEW at, DereferenceNil(c, at) PROVE TypeOK'
  BY <1>0, <1>12 DEF DereferenceNil, client, local
<1>13. ASSUME NEW c \in Callers, Answered(c) PROVE TypeOK'
  <2>1. used' \in [Callers -> SUBSET Encodings]
    BY <1>0, <1>13 DEF Answered
  <2>2. pc' \in [Callers -> PcStates]
    BY <1>0, <1>13 DEF Answered, Goes
  <2>3. unit' \in [Callers -> 0..255] /\ via' \in [Callers -> Sockets \cup {Nil}]
    BY <1>0, <1>13 DEF Answered
  <2>4. holder' \in Callers \cup {None}
    BY <1>0, <1>13 DEF Answered
  <2>5. QED BY <1>0, <1>13, <2>1, <2>2, <2>3, <2>4 DEF Answered, Survives, client
<1>14. ASSUME NEW c \in Callers, ExchangeFails(c) PROVE TypeOK'
  <2>1. Forgets(c) /\ holder' = None /\ UNCHANGED loaded
    BY <1>14 DEF ExchangeFails
  <2>2. /\ UNCHANGED <<setting, unitId, endianness, wordOrder, transport, opens, open>>
        /\ panicked' \in BOOLEAN
    BY <1>14, Zenon DEF ExchangeFails, Survives, client
  <2>3. QED BY <1>0, <2>1, <2>2, ForgetsType
<1>15. ASSUME NEW c \in Callers, Return(c) PROVE TypeOK'
  <2>1. Forgets(c) /\ UNCHANGED holder
    BY <1>15 DEF Return
  <2>2. /\ UNCHANGED <<setting, unitId, endianness, wordOrder, transport, opens, open>>
        /\ panicked' \in BOOLEAN
    BY <1>15, Zenon DEF Return, Survives, client
  <2>3. loaded' \in [Callers -> Orders \cup {Unset}]
    BY <1>0, <1>15 DEF Return
  <2>4. QED BY <1>0, <2>1, <2>2, <2>3, ForgetsType
<1>16. ASSUME NEW c \in Callers, StoreWordOrder(c) PROVE TypeOK'
  <2>1. setting \in Orders
    BY <1>16 DEF StoreWordOrder, CallersInv, LockInv
  <2>2. since' \in [Callers -> (SUBSET Orders) \X (SUBSET Orders)]
    BY <1>0, <1>16, <2>1, NotedType DEF StoreWordOrder
  <2>3. pc' \in [Callers -> PcStates] /\ holder' \in Callers \cup {None}
    BY <1>0, <1>16 DEF StoreWordOrder, Goes
  <2>4. QED BY <1>0, <1>16, <2>1, <2>2, <2>3 DEF StoreWordOrder, Survives
<1>17. CASE UNCHANGED vars
  BY <1>0, <1>17 DEF vars, client, local
<1>18. QED
  BY ZenonT(40), <1>1, <1>2, <1>3, <1>4, <1>5, <1>6, <1>7, <1>8, <1>9, <1>10, <1>11, <1>12, <1>13,
     <1>14, <1>15, <1>16, <1>17 DEF Next, Begins, Locked, Works

\* The lock is held by those who dial, exchange or set the encoding, after every step
\* too.
LEMMA LockStep ==
  ASSUME CallersInv, [Next]_vars PROVE LockInv'
<1> USE CallersAssumption DEF LockInv, Goes, Forgets, LockFree, TypeOK, PcStates
<1>0. TypeOK /\ LockInv
  BY DEF CallersInv
<1>1. ASSUME NEW c \in Callers, OpenBegin(c) PROVE LockInv'
  BY <1>0, <1>1 DEF OpenBegin
<1>2. ASSUME NEW c \in Callers, OpenDone(c) PROVE LockInv'
  BY <1>0, <1>2 DEF OpenDone
<1>3. ASSUME NEW c \in Callers, DialFails(c) PROVE LockInv'
  BY <1>0, <1>3 DEF DialFails
<1>4. ASSUME NEW c \in Callers, Close(c) PROVE LockInv'
  BY <1>0, <1>4 DEF Close
<1>5. ASSUME NEW c \in Callers, NEW id \in UnitIds, SetUnitId(c, id) PROVE LockInv'
  BY <1>0, <1>5 DEF SetUnitId
<1>6. ASSUME NEW c \in Callers, NEW e, NEW w, SetEncoding(c, e, w) PROVE LockInv'
  BY <1>0, <1>6 DEF SetEncoding
<1>7. ASSUME NEW c \in Callers, NEW k \in Kinds, Call(c, k) PROVE LockInv'
  BY <1>0, <1>7 DEF Call
<1>8. ASSUME NEW c \in Callers, LoadEndianness(c) PROVE LockInv'
  BY <1>0, <1>8 DEF LoadEndianness
<1>9. ASSUME NEW c \in Callers, LoadWordOrder(c) PROVE LockInv'
  BY <1>0, <1>9 DEF LoadWordOrder
<1>10. ASSUME NEW c \in Callers, Refuse(c) PROVE LockInv'
  BY <1>0, <1>10 DEF Refuse
<1>11. ASSUME NEW c \in Callers, Send(c) PROVE LockInv'
  BY <1>0, <1>11 DEF Send
<1>12. ASSUME NEW c \in Callers, NEW at, DereferenceNil(c, at) PROVE LockInv'
  BY <1>0, <1>12 DEF DereferenceNil
<1>13. ASSUME NEW c \in Callers, Answered(c) PROVE LockInv'
  BY <1>0, <1>13 DEF Answered
<1>14. ASSUME NEW c \in Callers, ExchangeFails(c) PROVE LockInv'
  BY <1>0, <1>14 DEF ExchangeFails
<1>15. ASSUME NEW c \in Callers, Return(c) PROVE LockInv'
  BY <1>0, <1>15 DEF Return
<1>16. ASSUME NEW c \in Callers, StoreWordOrder(c) PROVE LockInv'
  BY <1>0, <1>16 DEF StoreWordOrder
<1>17. CASE UNCHANGED vars
  BY <1>0, <1>17 DEF vars
<1>18. QED
  BY <1>1, <1>2, <1>3, <1>4, <1>5, <1>6, <1>7, <1>8, <1>9, <1>10, <1>11, <1>12, <1>13,
     <1>14, <1>15, <1>16, <1>17 DEF Next, Begins, Locked, Works

\* The transport is the last socket opened, after every step too.
LEMMA TransportStep ==
  ASSUME CallersInv, [Next]_vars PROVE TransportInv'
<1>0. TypeOK /\ TransportInv
  BY DEF CallersInv
<1>1. ASSUME NEW c \in Callers, OpenDone(c) PROVE TransportInv'
  BY <1>0, <1>1 DEF OpenDone, TransportInv, TypeOK
<1>2. ASSUME NEW c \in Callers, Close(c) PROVE TransportInv'
  BY <1>0, <1>2 DEF Close, TransportInv
<1>3. CASE UNCHANGED <<transport, opens, open>>
  BY <1>0, <1>3 DEF TransportInv
<1>4. QED
  BY <1>1, <1>2, <1>3 DEF Next, Begins, Locked, Works, OpenBegin, DialFails, SetUnitId,
     SetEncoding, StoreWordOrder, Call, LoadEndianness, LoadWordOrder, Refuse, Send,
     DereferenceNil, Answered, ExchangeFails, Return, vars, client

\* A call has values left where it needs them, after every step too.
LEMMA TodoStep ==
  ASSUME CallersInv, [Next]_vars PROVE TodoInv'
<1> USE CallersAssumption DEF TodoInv, Goes, Forgets, TypeOK, Kinds, PcStates
<1>0. TypeOK /\ TodoInv
  BY DEF CallersInv
<1>1. ASSUME NEW c \in Callers, OpenBegin(c) PROVE TodoInv'
  BY <1>0, <1>1 DEF OpenBegin, local
<1>2. ASSUME NEW c \in Callers, OpenDone(c) \/ DialFails(c) PROVE TodoInv'
  BY <1>0, <1>2 DEF OpenDone, DialFails, local
<1>3. ASSUME NEW c \in Callers, NEW k \in Kinds, Call(c, k) PROVE TodoInv'
  BY <1>0, <1>3 DEF Call
<1>4. ASSUME NEW c \in Callers, LoadWordOrder(c) PROVE TodoInv'
  BY <1>0, <1>4 DEF LoadWordOrder
<1>5. ASSUME NEW c \in Callers, Refuse(c) \/ ExchangeFails(c) \/ Return(c) PROVE TodoInv'
  <2>1. Forgets(c)
    BY <1>5 DEF Refuse, ExchangeFails, Return
  <2>2. ASSUME NEW d \in Callers
        PROVE  \/ pc'[d] = "idle"
               \/ pc'[d] = pc[d] /\ kind'[d] = kind[d] /\ todo'[d] = todo[d]
    BY <1>0, <2>1, <2>2
  <2>3. QED BY <1>0, <2>2
<1>6. ASSUME NEW c \in Callers, Send(c) PROVE TodoInv'
  BY <1>0, <1>6 DEF Send
<1>7. ASSUME NEW c \in Callers, Answered(c) PROVE TodoInv'
  BY <1>0, <1>7 DEF Answered
<1>8. ASSUME NEW c \in Callers, NEW e, NEW w, SetEncoding(c, e, w) PROVE TodoInv'
  BY <1>0, <1>8 DEF SetEncoding
<1>9. ASSUME NEW c \in Callers, StoreWordOrder(c) PROVE TodoInv'
  BY <1>0, <1>9 DEF StoreWordOrder
<1>10. CASE UNCHANGED <<pc, kind, todo>>
  BY <1>0, <1>10
<1>11. QED
  BY <1>1, <1>2, <1>3, <1>4, <1>5, <1>6, <1>7, <1>8, <1>9, <1>10 DEF Next, Begins, Locked,
     Works, Close, SetUnitId, LoadEndianness, DereferenceNil, vars, local

\* Nobody touches anything of the client while an exchange runs.
LEMMA ExchangeInvStep ==
  ASSUME CallersInv, [Next]_vars PROVE ExchangeInv'
<1> SUFFICES ASSUME NEW d \in Callers, pc'[d] = "exchange"
             PROVE  unit'[d] = unitId' /\ via'[d] = transport' /\ sentUnder'[d] = Encoding'
  BY DEF ExchangeInv
<1>0. /\ TypeOK /\ LockInv
      /\ pc[d] = "exchange" => unit[d] = unitId /\ via[d] = transport /\ sentUnder[d] = Encoding
  BY DEF CallersInv, ExchangeInv
<1> USE CallersAssumption
<1> USE DEF Encoding, Goes, Forgets, LockFree, LockInv, TypeOK, PcStates
<1>1. ASSUME NEW c \in Callers, Send(c) \/ Answered(c)
      PROVE  unit'[d] = unitId' /\ via'[d] = transport' /\ sentUnder'[d] = Encoding'
  BY <1>0, <1>1 DEF Send, Answered, client
<1>2. ASSUME NEW c \in Callers,
             OpenBegin(c) \/ OpenDone(c) \/ DialFails(c) \/ Close(c) \/ StoreWordOrder(c)
      PROVE  unit'[d] = unitId' /\ via'[d] = transport' /\ sentUnder'[d] = Encoding'
  BY <1>0, <1>2 DEF OpenBegin, OpenDone, DialFails, Close, StoreWordOrder, client, local
<1>3. ASSUME NEW c \in Callers, NEW id \in UnitIds, SetUnitId(c, id)
      PROVE  unit'[d] = unitId' /\ via'[d] = transport' /\ sentUnder'[d] = Encoding'
  BY <1>0, <1>3 DEF SetUnitId, local
<1>4. ASSUME NEW c \in Callers, NEW e, NEW w, SetEncoding(c, e, w)
      PROVE  unit'[d] = unitId' /\ via'[d] = transport' /\ sentUnder'[d] = Encoding'
  BY <1>0, <1>4 DEF SetEncoding
<1>5. ASSUME NEW c \in Callers, Refuse(c) \/ ExchangeFails(c) \/ Return(c)
      PROVE  unit'[d] = unitId' /\ via'[d] = transport' /\ sentUnder'[d] = Encoding'
  BY <1>0, <1>5 DEF Refuse, ExchangeFails, Return, client
<1>6. ASSUME NEW c \in Callers, LoadEndianness(c) \/ LoadWordOrder(c)
      PROVE  unit'[d] = unitId' /\ via'[d] = transport' /\ sentUnder'[d] = Encoding'
  BY <1>0, <1>6 DEF LoadEndianness, LoadWordOrder, client
<1>7. ASSUME NEW c \in Callers, NEW k \in Kinds, Call(c, k)
      PROVE  unit'[d] = unitId' /\ via'[d] = transport' /\ sentUnder'[d] = Encoding'
  BY <1>0, <1>7 DEF Call, client
<1>8. ASSUME NEW c \in Callers, NEW at, DereferenceNil(c, at)
      PROVE  unit'[d] = unitId' /\ via'[d] = transport' /\ sentUnder'[d] = Encoding'
  BY <1>0, <1>8 DEF DereferenceNil, client, local
<1>9. CASE UNCHANGED vars
  BY <1>0, <1>9 DEF vars, client, local
<1>10. QED
  BY <1>1, <1>2, <1>3, <1>4, <1>5, <1>6, <1>7, <1>8, <1>9 DEF Next, Begins, Locked, Works

\* An encoding of noted fields.
LEMMA InForceOf ==
  ASSUME TypeOK, NEW c \in Callers, NEW x, NEW y
  PROVE  <<x, y>> \in InForce(c) <=> x \in since[c][1] /\ y \in since[c][2]
BY DEF InForce

\* What is in force now is the one encoding noted, where it is the only one.
LEMMA OnlyIt ==
  ASSUME TypeOK, NEW c \in Callers, since'[c] = Only(Encoding)
  PROVE  InForce(c)' = {Encoding}
<1>1. Only(Encoding) = <<{endianness}, {wordOrder}>>
  BY DEF Only, Encoding
<1>2. InForce(c)' = {endianness} \X {wordOrder}
  BY <1>1 DEF InForce
<1>3. QED BY <1>2 DEF Encoding

\* The call of d, if no step is taken of it: where others store nothing, and where they
\* do, its uses are of what was in force, since it notes what is stored.
LEMMA OthersUses ==
  ASSUME TypeOK, NEW d \in Callers, CallUses(d), HasUsed(d),
         pc'[d] = pc[d], kind'[d] = kind[d], loaded'[d] = loaded[d], used'[d] = used[d],
         sentUnder'[d] = sentUnder[d],
         \/ since'[d] = since[d] /\ (InUse(d) => Encoding' = Encoding)
         \/ /\ Encoding' \in Encodings
            /\ since'[d] = IF InUse(d) THEN <<since[d][1] \cup {Encoding'[1]},
                                              since[d][2] \cup {Encoding'[2]}>>
                                       ELSE since[d]
  PROVE  CallUses(d)' /\ HasUsed(d)'
<1>1. HasUsed(d)'
  BY DEF HasUsed
<1>2. InUse(d)' <=> InUse(d)
  BY DEF InUse
<1>3. CASE since'[d] = since[d] /\ (InUse(d) => Encoding' = Encoding)
  <2>1. InForce(d)' = InForce(d)
    BY <1>3 DEF InForce
  <2>2. InUse(d)' => Encoding' \in InForce(d)'
    BY <1>2, <1>3, <2>1 DEF CallUses
  <2>3. QED BY <1>1, <1>3, <2>1, <2>2 DEF CallUses
<1>4. CASE /\ Encoding' \in Encodings
           /\ since'[d] = IF InUse(d) THEN <<since[d][1] \cup {Encoding'[1]},
                                             since[d][2] \cup {Encoding'[2]}>>
                                      ELSE since[d]
  <2>1. CASE ~InUse(d)
    <3>1. InForce(d)' = InForce(d) /\ since'[d] = since[d]
      BY <1>4, <2>1 DEF InForce
    <3>2. QED BY <1>1, <1>2, <2>1, <3>1 DEF CallUses
  <2>2. CASE InUse(d)
    <3>1. /\ since'[d][1] = since[d][1] \cup {Encoding'[1]}
          /\ since'[d][2] = since[d][2] \cup {Encoding'[2]}
      BY <1>4, <2>2
    <3>2. InForce(d) \subseteq InForce(d)'
      BY <3>1 DEF InForce
    <3>3. Encoding' = <<Encoding'[1], Encoding'[2]>>
      BY DEF Encoding
    <3>4. Encoding' \in InForce(d)'
      BY <3>1, <3>3 DEF InForce
    <3>5. loaded[d] \in since[d][1] => loaded[d] \in since'[d][1]
      BY <3>1
    <3>6. QED BY <1>1, <3>2, <3>4, <3>5 DEF CallUses
  <2>3. QED BY <2>1, <2>2
<1>5. QED BY <1>3, <1>4

\* A call that is over, or has not begun, has used nothing.
LEMMA ForgetsUses ==
  ASSUME TypeOK, NEW c \in Callers, Forgets(c), loaded'[c] = Unset
  PROVE  CallUses(c)' /\ HasUsed(c)'
<1>1. pc'[c] = "idle" /\ used'[c] = {} /\ kind'[c] = "read"
  BY DEF Forgets, Goes, TypeOK
<1>2. QED BY <1>1 DEF CallUses, HasUsed, InUse

\* Whatever others store, a call uses nothing but what was in force.
LEMMA UsesStep ==
  ASSUME CallersInv, [Next]_vars PROVE UsesInv'
<1> SUFFICES ASSUME NEW d \in Callers PROVE CallUses(d)' /\ HasUsed(d)'
  BY DEF UsesInv
<1>0. /\ TypeOK /\ LockInv /\ TodoInv /\ CallUses(d) /\ HasUsed(d)
      /\ pc[d] = "exchange" => sentUnder[d] = Encoding
  BY DEF CallersInv, UsesInv, ExchangeInv
<1> USE CallersAssumption
<1>1. CASE UNCHANGED <<endianness, wordOrder, pc, kind, loaded, used, sentUnder, since>>
  BY <1>0, <1>1, OthersUses DEF Encoding
<1>2. ASSUME NEW c \in Callers, OpenBegin(c) \/ OpenDone(c) \/ DialFails(c)
      PROVE  CallUses(d)' /\ HasUsed(d)'
  <2>1. UNCHANGED <<endianness, wordOrder, kind, loaded, used, sentUnder, since>>
    BY <1>2 DEF OpenBegin, OpenDone, DialFails, client, local
  <2>2. CASE c # d
    <3>1. pc'[d] = pc[d]
      BY <1>0, <1>2, <2>2 DEF OpenBegin, OpenDone, DialFails, Goes, TypeOK
    <3>2. QED BY <1>0, <2>1, <3>1, OthersUses DEF Encoding
  <2>3. CASE c = d
    <3>1. pc[d] \in {"idle", "dial"} /\ pc'[d] \in {"idle", "dial"}
      BY <1>0, <1>2, <2>3 DEF OpenBegin, OpenDone, DialFails, Goes, TypeOK
    <3>2. loaded'[d] = Unset /\ used'[d] = {}
      BY <1>0, <2>1, <3>1 DEF CallUses, HasUsed
    <3>3. QED BY <3>1, <3>2 DEF CallUses, HasUsed, InUse
  <2>4. QED BY <2>2, <2>3
<1>3. ASSUME NEW c \in Callers, NEW e, NEW w, SetEncoding(c, e, w)
      PROVE  CallUses(d)' /\ HasUsed(d)'
  <2>1. UNCHANGED <<wordOrder, kind, loaded, used, sentUnder>>
    BY <1>3 DEF SetEncoding
  <2>2. CASE ~(e \in Orders /\ w \in Orders)
    BY <1>1, <1>3, <2>1, <2>2 DEF SetEncoding
  <2>3. CASE e \in Orders /\ w \in Orders
    <3>1. /\ endianness' = e /\ since' = Noted(<<e, wordOrder>>) /\ pc[c] = "idle"
          /\ Goes(c, "setEncoding")
      BY <1>3, <2>3 DEF SetEncoding
    <3>2. Encoding' = <<e, wordOrder>> /\ Encoding' \in Encodings
      BY <1>0, <2>1, <2>3, <3>1 DEF Encoding, Encodings, TypeOK
    <3>3. since'[d] = IF InUse(d) THEN <<since[d][1] \cup {Encoding'[1]},
                                         since[d][2] \cup {Encoding'[2]}>>
                                  ELSE since[d]
      BY <3>1, <3>2 DEF Noted
    <3>4. CASE c # d
      <4>1. pc'[d] = pc[d]
        BY <1>0, <3>1, <3>4 DEF Goes, TypeOK
      <4>2. QED BY <1>0, <2>1, <3>2, <3>3, <4>1, OthersUses
    <3>5. CASE c = d
      <4>1. pc[d] = "idle" /\ pc'[d] = "setEncoding"
        BY <1>0, <3>1, <3>5 DEF Goes, TypeOK
      <4>2. loaded'[d] = Unset /\ used'[d] = {}
        BY <1>0, <2>1, <4>1 DEF CallUses, HasUsed
      <4>3. QED BY <4>1, <4>2 DEF CallUses, HasUsed, InUse
    <3>6. QED BY <3>4, <3>5
  <2>4. QED BY <2>2, <2>3
<1>4. ASSUME NEW c \in Callers, StoreWordOrder(c) PROVE CallUses(d)' /\ HasUsed(d)'
  <2>1. /\ UNCHANGED <<endianness, kind, loaded, used, sentUnder>>
        /\ wordOrder' = setting /\ since' = Noted(<<endianness, setting>>)
        /\ pc[c] = "setEncoding" /\ Goes(c, "idle")
    BY <1>4 DEF StoreWordOrder
  <2>2. Encoding' = <<endianness, setting>> /\ Encoding' \in Encodings
    BY <1>0, <2>1 DEF Encoding, Encodings, TypeOK, LockInv
  <2>3. since'[d] = IF InUse(d) THEN <<since[d][1] \cup {Encoding'[1]},
                                       since[d][2] \cup {Encoding'[2]}>>
                                ELSE since[d]
    BY <2>1, <2>2 DEF Noted
  <2>4. CASE c # d
    <3>1. pc'[d] = pc[d]
      BY <1>0, <2>1, <2>4 DEF Goes, TypeOK
    <3>2. QED BY <1>0, <2>1, <2>2, <2>3, <3>1, OthersUses
  <2>5. CASE c = d
    <3>1. pc[d] = "setEncoding" /\ pc'[d] = "idle"
      BY <1>0, <2>1, <2>5 DEF Goes, TypeOK
    <3>2. loaded'[d] = Unset /\ used'[d] = {}
      BY <1>0, <2>1, <3>1 DEF CallUses, HasUsed
    <3>3. QED BY <3>1, <3>2 DEF CallUses, HasUsed, InUse
  <2>6. QED BY <2>4, <2>5
<1>5. ASSUME NEW c \in Callers, c # d,
             \/ \E k \in Kinds : Call(c, k)
             \/ LoadEndianness(c) \/ LoadWordOrder(c) \/ Refuse(c) \/ Send(c)
             \/ Answered(c) \/ ExchangeFails(c) \/ Return(c)
      PROVE  CallUses(d)' /\ HasUsed(d)'
  <2>1. UNCHANGED <<endianness, wordOrder>>
    BY <1>5 DEF Call, LoadEndianness, LoadWordOrder, Refuse, Send, Answered, ExchangeFails,
                Return, client
  <2>2. /\ pc'[d] = pc[d] /\ kind'[d] = kind[d] /\ loaded'[d] = loaded[d] /\ used'[d] = used[d]
        /\ sentUnder'[d] = sentUnder[d] /\ since'[d] = since[d]
    BY <1>0, <1>5 DEF Call, LoadEndianness, LoadWordOrder, Refuse, Send, Answered,
                      ExchangeFails, Return, Goes, Forgets, TypeOK
  <2>3. QED BY <1>0, <2>1, <2>2, OthersUses DEF Encoding
<1>6. ASSUME NEW k \in Kinds, Call(d, k) PROVE CallUses(d)' /\ HasUsed(d)'
  <2>1. /\ pc[d] = "idle" /\ kind'[d] = k
        /\ pc'[d] = IF k = "writeSlice" THEN "encode" ELSE "lock"
        /\ k = "writeSlice" => since'[d] = Only(Encoding)
        /\ UNCHANGED <<endianness, wordOrder, loaded, used>>
    BY <1>0, <1>6 DEF Call, Goes, TypeOK, client
  <2>2. loaded'[d] = Unset /\ used'[d] = {}
    BY <1>0, <2>1 DEF CallUses, HasUsed
  <2>3. InUse(d)' => Encoding' \in InForce(d)'
    BY <1>0, <2>1, OnlyIt DEF InUse, Encoding
  <2>4. QED BY <2>1, <2>2, <2>3 DEF CallUses, HasUsed
<1>7. ASSUME LoadEndianness(d) PROVE CallUses(d)' /\ HasUsed(d)'
  <2>1. /\ pc[d] \in {"encode", "decode"} /\ loaded'[d] = endianness
        /\ UNCHANGED <<endianness, wordOrder, pc, kind, used, sentUnder, since>>
    BY <1>0, <1>7 DEF LoadEndianness, TypeOK, client
  <2>2. Encoding \in InForce(d) /\ endianness \in since[d][1]
    BY <1>0, <2>1, InForceOf DEF CallUses, InUse, Encoding
  <2>3. InForce(d)' = InForce(d) /\ Encoding' = Encoding
    BY <2>1 DEF InForce, Encoding
  <2>4. HasUsed(d)'
    BY <1>0, <2>1 DEF HasUsed
  <2>5. QED BY <1>0, <2>1, <2>2, <2>3, <2>4 DEF CallUses
<1>8. ASSUME LoadWordOrder(d) PROVE CallUses(d)' /\ HasUsed(d)'
  <2>1. /\ pc[d] \in {"encode", "decode"} /\ loaded[d] # Unset /\ loaded'[d] = Unset
        /\ used'[d] = used[d] \cup {<<loaded[d], wordOrder>>}
        /\ UNCHANGED <<endianness, wordOrder, kind, sentUnder, since>>
        /\ \/ pc'[d] = pc[d]
           \/ pc[d] = "encode" /\ pc'[d] = "lock"
           \/ pc[d] = "decode" /\ pc'[d] = "returned"
    BY <1>0, <1>8 DEF LoadWordOrder, Goes, TypeOK, client
  <2>2. Encoding \in InForce(d) /\ <<loaded[d], wordOrder>> \in InForce(d)
    BY <1>0, <2>1, InForceOf DEF CallUses, InUse, Encoding
  <2>3. InForce(d)' = InForce(d) /\ Encoding' = Encoding
    BY <2>1 DEF InForce, Encoding
  <2>4. /\ pc[d] = "encode" => kind[d] = "writeSlice"
        /\ pc[d] = "decode" => kind[d] = "read"
    BY <1>0 DEF TodoInv, HasUsed
  <2>5. HasUsed(d)'
    BY <1>0, <2>1, <2>4 DEF HasUsed
  <2>6. CallUses(d)'
    BY <1>0, <2>1, <2>2, <2>3, <2>4 DEF CallUses
  <2>7. QED BY <2>5, <2>6
<1>9. ASSUME Send(d) PROVE CallUses(d)' /\ HasUsed(d)'
  <2>1. /\ pc[d] = "lock" /\ pc'[d] = "exchange"
        /\ sentUnder'[d] = Encoding
        /\ used'[d] = IF kind[d] = "writeRegister" THEN {Encoding} ELSE used[d]
        /\ since'[d] = IF kind[d] = "writeSlice" THEN since[d] ELSE Only(Encoding)
        /\ UNCHANGED <<endianness, wordOrder, kind, loaded>>
    BY <1>0, <1>9 DEF Send, Goes, TypeOK, client
  <2>2. loaded'[d] = Unset
    BY <1>0, <2>1 DEF CallUses
  <2>3. HasUsed(d)'
    <3>1. /\ kind[d] \in Kinds /\ kind'[d] = kind[d]
          /\ used[d] = {} <=> kind[d] # "writeSlice"
      BY <1>0, <2>1 DEF HasUsed, TypeOK
    <3>2. used'[d] = {} <=> kind[d] = "read"
      BY <2>1, <3>1 DEF Kinds
    <3> QED
      BY <2>1, <3>1, <3>2 DEF HasUsed
  <2>4. CASE kind[d] = "writeSlice"
    <3>1. InForce(d)' = InForce(d) /\ Encoding' = Encoding /\ Encoding \in InForce(d)
      BY <1>0, <2>1, <2>4 DEF InForce, Encoding, CallUses, InUse
    <3>2. QED BY <1>0, <2>1, <2>2, <2>3, <2>4, <3>1 DEF CallUses
  <2>5. CASE kind[d] # "writeSlice"
    <3>1. InForce(d)' = {Encoding} /\ Encoding' = Encoding
      BY <1>0, <2>1, <2>5, OnlyIt DEF Encoding
    <3>2. used'[d] \subseteq {Encoding}
      BY <1>0, <2>1, <2>5 DEF HasUsed
    <3>3. QED BY <2>1, <2>2, <2>3, <3>1, <3>2 DEF CallUses
  <2>6. QED BY <2>4, <2>5
<1>10. ASSUME Answered(d) PROVE CallUses(d)' /\ HasUsed(d)'
  <2>1. /\ pc[d] = "exchange"
        /\ pc'[d] = IF kind[d] = "read" THEN "decode" ELSE "returned"
        /\ used'[d] = IF kind[d] = "writeRegister" THEN used[d] \cup {Encoding} ELSE used[d]
        /\ UNCHANGED <<endianness, wordOrder, kind, loaded, sentUnder, since>>
    BY <1>0, <1>10 DEF Answered, Goes, TypeOK, client
  <2>2. InForce(d)' = InForce(d) /\ Encoding' = Encoding /\ Encoding \in InForce(d)
    BY <1>0, <2>1 DEF InForce, Encoding, CallUses, InUse
  <2>3. used'[d] = used[d]
    BY <1>0, <2>1 DEF HasUsed
  <2>4. HasUsed(d)'
    BY <1>0, <2>1, <2>3 DEF HasUsed
  <2>5. loaded'[d] = Unset
    BY <1>0, <2>1 DEF CallUses
  <2>6. QED BY <1>0, <2>1, <2>2, <2>3, <2>4, <2>5 DEF CallUses
<1>11. ASSUME Refuse(d) \/ ExchangeFails(d) \/ Return(d) PROVE CallUses(d)' /\ HasUsed(d)'
  <2>1. Forgets(d)
    BY <1>11 DEF Refuse, ExchangeFails, Return
  <2>2. loaded'[d] = Unset
    BY <1>0, <1>11 DEF Refuse, ExchangeFails, Return, CallUses, TypeOK
  <2>3. QED BY <1>0, <2>1, <2>2, ForgetsUses
<1>12. ASSUME NEW c \in Callers, Close(c) \/ DereferenceNil(c, "idle") \/ DereferenceNil(c, "lock")
              \/ \E id \in UnitIds : SetUnitId(c, id)
       PROVE  CallUses(d)' /\ HasUsed(d)'
  BY <1>1, <1>12 DEF Close, DereferenceNil, SetUnitId, client, local
<1>13. CASE UNCHANGED vars
  BY <1>1, <1>13 DEF vars, client, local
<1>14. ASSUME NEW c \in Callers, Begins(c) \/ Locked(c) \/ Works(c)
       PROVE  CallUses(d)' /\ HasUsed(d)'
  BY <1>2, <1>3, <1>4, <1>5, <1>6, <1>7, <1>8, <1>9, <1>10, <1>11, <1>12, <1>14
     DEF Begins, Locked, Works
<1>15. QED BY <1>13, <1>14 DEF Next

\* The inductive invariant holds for any number of callers, values and sockets.
THEOREM CallersInvariance == Spec => []CallersInv
<1>1. CallersInv /\ [Next]_vars => CallersInv'
  BY TypeStep, LockStep, TransportStep, ExchangeInvStep, UsesStep, TodoStep DEF CallersInv
<1>2. QED BY InitCallersInv, <1>1, PTL DEF Spec

\* Every variable of the shared client keeps its type: no transport is kept that no
\* Open got (client.go:200).
THEOREM CallersTypeCorrect == Spec => []TypeOK
<1>1. CallersInv => TypeOK
  BY DEF CallersInv
<1>2. QED BY CallersInvariance, <1>1, PTL

\* From the sending of a request to the judgement of its answer neither the unit id
\* nor the transport nor the encoding changes, no other exchange or dial runs and no
\* SetEncoding is half done
\* (client.go:323, 333, 343, 704, 1016).
THEOREM ExchangesUndisturbed == Spec => []ExchangeUndisturbed
<1>1. CallersInv => ExchangeUndisturbed
  BY DEF CallersInv, LockInv, ExchangeInv, ExchangeUndisturbed
<1>2. QED BY CallersInvariance, <1>1, PTL

\* Whatever others store, and between whichever of a call's loads, every half of an
\* encoding it uses was in force after it began, or, if it reads, after its request was
\* sent; WriteRegister uses the one its request was sent under (client.go:358, 413, 441,
\* 774).
THEOREM CallsUseWhatWasInForce == Spec => []UsesWhatWasInForce
<1>1. CallersInv => UsesWhatWasInForce
  BY DEF CallersInv, UsesInv, CallUses, HasUsed, UsesWhatWasInForce
<1>2. QED BY CallersInvariance, <1>1, PTL

-----------------------------------------------------------------------------
(* That a call goes on: the half of CallEnds that rests on no fairness.    *)

\* How many steps of its own the call of c may yet take: two loads for each value,
\* one for the lock, one for the exchange, one to return.
LoadsLeft(c) == IF loaded[c] = Unset THEN 2 * todo[c] ELSE 2 * todo[c] - 1
CallLeft(c) == CASE pc[c] = "encode" -> 3 + LoadsLeft(c)
                 [] pc[c] = "lock" -> 3 + 2 * todo[c]
                 [] pc[c] = "exchange" -> 2 + 2 * todo[c]
                 [] pc[c] = "decode" -> 1 + LoadsLeft(c)
                 [] pc[c] \in {"returned", "dial", "setEncoding"} -> 1
                 [] OTHER -> 0

\* A step of its own brings the end of a call nearer, and no step puts it off.
CallStep ==
  \A c \in Callers :
    /\ CallLeft(c) \in Nat
    /\ Works(c) \/ Refuse(c) \/ Send(c) => CallLeft(c)' < CallLeft(c)
    /\ pc[c] # "idle" => CallLeft(c)' <= CallLeft(c)

\* Nothing that c has yet to do is touched.
LEMMA OthersCall ==
  ASSUME NEW d \in Callers, pc'[d] = pc[d], todo'[d] = todo[d], loaded'[d] = loaded[d]
  PROVE  CallLeft(d)' = CallLeft(d)
BY DEF CallLeft, LoadsLeft

\* A step of c leaves the others alone.
LEMMA OneCallMoves ==
  ASSUME CallersInv, NEW c \in Callers, NEW d \in Callers, c # d,
         Begins(c) \/ Locked(c) \/ Works(c)
  PROVE  CallLeft(d)' = CallLeft(d)
<1>1. TypeOK
  BY DEF CallersInv
<1>2. pc'[d] = pc[d] /\ todo'[d] = todo[d] /\ loaded'[d] = loaded[d]
  <2> USE <1>1 DEF TypeOK, Goes, Forgets, client, local
  <2>1. CASE Begins(c)
    BY <2>1 DEF Begins, OpenBegin, Close, DereferenceNil, SetUnitId, SetEncoding, Call
  <2>2. CASE Locked(c)
    BY <2>2 DEF Locked, Refuse, Send, DereferenceNil
  <2>3. CASE Works(c)
    BY <2>3 DEF Works, OpenDone, DialFails, StoreWordOrder, LoadEndianness, LoadWordOrder, Answered,
       ExchangeFails, Return
  <2>4. QED BY <2>1, <2>2, <2>3
<1>3. QED BY <1>2, OthersCall

\* It is a number.
LEMMA CallLeftType ==
  ASSUME CallersInv, NEW c \in Callers PROVE CallLeft(c) \in Nat
<1>1. /\ todo[c] \in Nat /\ pc[c] \in PcStates
      /\ pc[c] \in {"encode", "decode"} => todo[c] > 0
  BY DEF CallersInv, TypeOK, TodoInv
<1>2. QED BY <1>1 DEF CallLeft, LoadsLeft, PcStates

\* A step of its own.
LEMMA OwnStep ==
  ASSUME CallersInv, NEW c \in Callers, Works(c) \/ Refuse(c) \/ Send(c)
  PROVE  CallLeft(c)' \in Nat /\ CallLeft(c)' < CallLeft(c)
<1>1. TypeOK /\ TodoInv /\ CallUses(c)
  BY DEF CallersInv, UsesInv
<1>2. /\ todo[c] \in Nat /\ loaded[c] \in Orders \cup {Unset} /\ endianness \in Orders
      /\ Unset \notin Orders
      /\ pc[c] \in {"encode", "decode"} => todo[c] > 0
      /\ pc[c] \notin {"encode", "decode"} => loaded[c] = Unset
  BY <1>1, EncodingType DEF TypeOK, TodoInv, CallUses
<1>3. CASE OpenDone(c) \/ DialFails(c) \/ StoreWordOrder(c)
  <2>1. pc[c] \in {"dial", "setEncoding"} /\ pc'[c] = "idle"
    BY <1>1, <1>3 DEF OpenDone, DialFails, StoreWordOrder, Goes, TypeOK
  <2>2. QED BY <2>1 DEF CallLeft
<1>4. CASE Refuse(c) \/ ExchangeFails(c) \/ Return(c)
  <2>1. pc[c] \in {"lock", "exchange", "returned"} /\ pc'[c] = "idle"
    BY <1>1, <1>4 DEF Refuse, ExchangeFails, Return, Forgets, Goes, TypeOK
  <2>2. QED BY <1>2, <2>1 DEF CallLeft
<1>5. CASE LoadEndianness(c)
  <2>1. /\ pc[c] \in {"encode", "decode"} /\ pc'[c] = pc[c] /\ todo'[c] = todo[c]
        /\ loaded[c] = Unset /\ loaded'[c] = endianness
    BY <1>1, <1>5 DEF LoadEndianness, TypeOK
  <2>2. QED BY <1>2, <2>1 DEF CallLeft, LoadsLeft
<1>6. CASE LoadWordOrder(c)
  <2>1. /\ pc[c] \in {"encode", "decode"} /\ todo'[c] = todo[c] - 1
        /\ loaded[c] # Unset /\ loaded'[c] = Unset
        /\ todo[c] > 1 => pc'[c] = pc[c]
        /\ ~ (todo[c] > 1) => pc'[c] = IF pc[c] = "encode" THEN "lock" ELSE "returned"
    BY <1>1, <1>6 DEF LoadWordOrder, Goes, TypeOK
  <2>2. CASE todo[c] > 1
    BY <1>2, <2>1, <2>2 DEF CallLeft, LoadsLeft
  <2>3. CASE ~ (todo[c] > 1)
    BY <1>2, <2>1, <2>3 DEF CallLeft, LoadsLeft
  <2>4. QED BY <2>2, <2>3
<1>7. CASE Send(c)
  <2>1. pc[c] = "lock" /\ pc'[c] = "exchange" /\ todo'[c] = todo[c]
    BY <1>1, <1>7 DEF Send, Goes, TypeOK
  <2>2. QED BY <1>2, <2>1 DEF CallLeft
<1>8. CASE Answered(c)
  <2>1. /\ pc[c] = "exchange" /\ pc'[c] \in {"decode", "returned"}
        /\ todo'[c] = todo[c] /\ loaded'[c] = loaded[c]
    BY <1>1, <1>8 DEF Answered, Goes, TypeOK
  <2>2. QED BY <1>2, <2>1 DEF CallLeft, LoadsLeft
<1>9. QED BY <1>3, <1>4, <1>5, <1>6, <1>7, <1>8 DEF Works

\* Every step of a call's own brings its end nearer and none of another goroutine puts
\* it off, whatever they set meanwhile: it loops over its values only, and nothing makes
\* it start again (client.go:770-777, 1011-1052).
THEOREM CallsGoOn == Spec => [][CallStep]_vars
<1>1. ASSUME CallersInv, Next PROVE CallStep
  <2>1. SUFFICES ASSUME NEW d \in Callers
                 PROVE  /\ CallLeft(d) \in Nat
                        /\ Works(d) \/ Refuse(d) \/ Send(d) => CallLeft(d)' < CallLeft(d)
                        /\ pc[d] # "idle" => CallLeft(d)' <= CallLeft(d)
    BY DEF CallStep
  <2>2. CallLeft(d) \in Nat
    BY <1>1, CallLeftType
  <2>3. PICK c \in Callers : Begins(c) \/ Locked(c) \/ Works(c)
    BY <1>1 DEF Next
  <2>4. Works(d) \/ Refuse(d) \/ Send(d) => CallLeft(d)' < CallLeft(d)
    BY <1>1, OwnStep
  <2>5. CASE c # d
    BY <1>1, <2>2, <2>3, <2>4, <2>5, OneCallMoves
  <2>6. CASE c = d /\ Begins(d)
    <3>1. pc[d] = "idle" \/ UNCHANGED <<pc, todo, loaded>>
      BY <2>6 DEF Begins, OpenBegin, Close, DereferenceNil, SetUnitId, SetEncoding, Call, local
    <3>2. QED BY <2>2, <2>4, <3>1, OthersCall
  <2>7. CASE c = d /\ DereferenceNil(d, "lock")
    <3>1. UNCHANGED <<pc, todo, loaded>>
      BY <2>7 DEF DereferenceNil, local
    <3>2. QED BY <2>2, <2>4, <3>1, OthersCall
  <2>8. CASE Works(d) \/ Refuse(d) \/ Send(d)
    <3>1. CallLeft(d)' \in Nat /\ CallLeft(d)' < CallLeft(d)
      BY <1>1, <2>8, OwnStep
    <3>2. CallLeft(d)' <= CallLeft(d)
      BY <2>2, <3>1
    <3>3. QED BY <2>2, <3>1, <3>2
  <2>9. QED BY <2>3, <2>5, <2>6, <2>7, <2>8 DEF Locked
<1>2. QED BY <1>1, CallersInvariance, PTL DEF Spec

-----------------------------------------------------------------------------
(* The encodings, for every value.                                         *)

\* A function of 1..n is a sequence of that length; so are so many bytes.
LEMMA LengthOf ==
  ASSUME NEW S, NEW n \in Nat, NEW b \in [1..n -> S] PROVE b \in Seq(S) /\ Len(b) = n
<1>1. b \in Seq(S)
  BY SeqDef
<1>2. Len(b) \in Nat /\ DOMAIN b = 1..Len(b)
  BY <1>1, LenProperties
<1>3. DOMAIN b = 1..n
  OBVIOUS
<1>4. n \in 1..Len(b) \/ n = 0
  BY <1>2, <1>3
<1>5. Len(b) \in 1..n \/ Len(b) = 0
  BY <1>2, <1>3
<1>6. QED BY <1>1, <1>2, <1>3, <1>4, <1>5

\* The length of so many bytes.
LEMMA LengthOfBytes ==
  ASSUME NEW n \in Nat, NEW b \in [1..n -> Byte] PROVE Len(b) = n
BY LengthOf

\* The other byte order has the same length and brings the first one back.
LEMMA LittleEndianTwice ==
  ASSUME NEW n \in Nat, NEW b \in [1..n -> Byte]
  PROVE  /\ LittleEndian(b) \in [1..n -> Byte]
         /\ \A i \in 1..n : LittleEndian(b)[i] = b[n + 1 - i]
         /\ LittleEndian(LittleEndian(b)) = b
<1>1. Len(b) = n
  BY LengthOfBytes
<1>2. /\ LittleEndian(b) \in [1..n -> Byte]
      /\ \A i \in 1..n : LittleEndian(b)[i] = b[n + 1 - i]
  BY <1>1 DEF LittleEndian
<1>3. Len(LittleEndian(b)) = n
  BY <1>2, LengthOfBytes
<1>4. LittleEndian(LittleEndian(b)) = [i \in 1..n |-> LittleEndian(b)[n + 1 - i]]
  BY <1>3 DEF LittleEndian
<1>5. \A i \in 1..n : n + 1 - i \in 1..n /\ n + 1 - (n + 1 - i) = i
  OBVIOUS
<1>6. QED BY <1>2, <1>4, <1>5

\* So does the other order of words.
LEMMA SwapTwice ==
  ASSUME NEW n \in {4, 8}, NEW b \in [1..n -> Byte]
  PROVE  /\ SwapWords(b) \in [1..n -> Byte]
         /\ \A i \in 1..n : SwapWords(b)[i] = b[IF i % 2 = 1 THEN n - i ELSE n - i + 2]
         /\ SwapWords(SwapWords(b)) = b
<1> DEFINE at(i) == IF i % 2 = 1 THEN n - i ELSE n - i + 2
<1>1. Len(b) = n
  BY LengthOfBytes
<1>2. \A i \in 1..n : at(i) \in 1..n /\ at(at(i)) = i
  OBVIOUS
<1>3. SwapWords(b) = [i \in 1..n |-> b[at(i)]]
  BY <1>1 DEF SwapWords
<1>4. SwapWords(b) \in [1..n -> Byte]
  BY <1>2, <1>3
<1>5. Len(SwapWords(b)) = n
  BY <1>4, LengthOfBytes
<1>6. SwapWords(SwapWords(b)) = [i \in 1..n |-> SwapWords(b)[at(i)]]
  <2>1. ASSUME NEW x, Len(x) = n PROVE SwapWords(x) = [i \in 1..n |-> x[at(i)]]
    BY <2>1 DEF SwapWords
  <2> QED
    BY <1>5, <2>1
<1> HIDE DEF at
<1>7. SwapWords(SwapWords(b)) = b
  BY <1>2, <1>3, <1>6
<1>8. \A i \in 1..n : SwapWords(b)[i] = b[at(i)]
  BY <1>3
<1>9. QED BY <1>4, <1>7, <1>8 DEF at

\* What a value is encoded to has as many bytes.
LEMMA WideTypes ==
  ASSUME NEW n \in {4, 8}, NEW v \in [1..n -> Byte], NEW e \in Orders, NEW w \in Orders
  PROVE  wideToBytes(e, w, v) \in [1..n -> Byte]
<1>1. uint16ToBytes(e, v) \in [1..n -> Byte]
  BY LittleEndianTwice DEF uint16ToBytes
<1>2. SwapWords(uint16ToBytes(e, v)) \in [1..n -> Byte]
  BY <1>1, SwapTwice
<1>3. QED BY <1>1, <1>2 DEF wideToBytes

\* Every value of 32 or 64 bits comes back from what it was encoded to, in each of
\* the four encodings (encoding.go:48-97, 116-169).
THEOREM WidesComeBack ==
  ASSUME NEW e \in Orders, NEW w \in Orders, NEW v \in Wide
  PROVE  bytesToWide(e, w, wideToBytes(e, w, v)) = v
<1>1. PICK n \in {4, 8} : v \in [1..n -> Byte]
  BY DEF Wide
<1>2. uint16ToBytes(e, v) \in [1..n -> Byte]
  BY <1>1, LittleEndianTwice DEF uint16ToBytes
<1>3. bytesToUint16(e, uint16ToBytes(e, v)) = v
  BY <1>1, LittleEndianTwice DEF uint16ToBytes, bytesToUint16
<1>4. SwapWords(SwapWords(uint16ToBytes(e, v))) = uint16ToBytes(e, v)
  BY <1>2, SwapTwice
<1>5. QED BY <1>3, <1>4 DEF wideToBytes, bytesToWide

\* And the registers hold it in the order of words asked for, each of them with its
\* bytes in the order asked for (client.go:27-33).
THEOREM WidesAreRegisters ==
  ASSUME NEW e \in Orders, NEW w \in Orders, NEW v \in Wide
  PROVE  wideToBytes(e, w, v) = Registers(e, w, v)
<1>1. PICK n \in {4, 8} : v \in [1..n -> Byte]
  BY DEF Wide
<1> DEFINE out == uint16ToBytes(e, v)
           coded == wideToBytes(e, w, v)
           regs == Registers(e, w, v)
<1>2. Len(v) = n
  BY <1>1, LengthOfBytes
<1>3. /\ out \in [1..n -> Byte]
      /\ \A i \in 1..n : out[i] = v[IF e = BIG_ENDIAN THEN i ELSE n + 1 - i]
  BY <1>1, LittleEndianTwice DEF uint16ToBytes
<1>4. /\ coded \in [1..n -> Byte]
      /\ \A i \in 1..n :
           coded[i] = out[IF ~Swaps(e, w) THEN i
                          ELSE IF i % 2 = 1 THEN n - i ELSE n - i + 2]
  <2> HIDE DEF out
  <2>1. coded = IF Swaps(e, w) THEN SwapWords(out) ELSE out
    BY DEF wideToBytes, out
  <2>2. /\ SwapWords(out) \in [1..n -> Byte]
        /\ \A i \in 1..n : SwapWords(out)[i] = out[IF i % 2 = 1 THEN n - i ELSE n - i + 2]
    BY <1>3, SwapTwice
  <2>3. CASE Swaps(e, w)
    BY <2>1, <2>2, <2>3
  <2>4. CASE ~Swaps(e, w)
    BY <1>3, <2>1, <2>4
  <2>5. QED BY <2>3, <2>4
<1>5. regs = [i \in 1..n |->
               v[2 * (IF w = HIGH_WORD_FIRST THEN (i + 1) \div 2
                      ELSE n \div 2 + 1 - (i + 1) \div 2)
                 - (IF (i % 2 = 1) = (e = BIG_ENDIAN) THEN 1 ELSE 0)]]
  BY <1>2 DEF Registers
<1>6. ASSUME NEW i \in 1..n PROVE coded[i] = regs[i]
  <2> HIDE DEF out, coded, regs
  <2>1. PICK r \in 1..(n \div 2), low \in {0, 1} : i = 2 * r - 1 + low
    <3>1. /\ i % 2 = 1 => i = 2 * ((i + 1) \div 2) - 1 + 0
          /\ i % 2 # 1 => i = 2 * ((i + 1) \div 2) - 1 + 1
          /\ (i + 1) \div 2 \in 1..(n \div 2)
      OBVIOUS
    <3>2. QED BY <3>1
  <2>2. (i + 1) \div 2 = r /\ (i % 2 = 1 <=> low = 0)
    BY <2>1
  <2>3. /\ ~Swaps(e, w) => coded[i] = out[i]
        /\ Swaps(e, w) => coded[i] = out[n - 2 * r + 1 + low]
        /\ n - 2 * r + 1 + low \in 1..n
    BY <1>4, <2>1, <2>2
  <2>4. /\ e = BIG_ENDIAN => \A k \in 1..n : out[k] = v[k]
        /\ e # BIG_ENDIAN => \A k \in 1..n : out[k] = v[n + 1 - k]
    BY <1>3
  <2>5. /\ w = HIGH_WORD_FIRST /\ e = BIG_ENDIAN => regs[i] = v[2 * r - 1 + low]
        /\ w = HIGH_WORD_FIRST /\ e # BIG_ENDIAN => regs[i] = v[2 * r - low]
        /\ w # HIGH_WORD_FIRST /\ e = BIG_ENDIAN => regs[i] = v[n + 2 - 2 * r - 1 + low]
        /\ w # HIGH_WORD_FIRST /\ e # BIG_ENDIAN => regs[i] = v[n + 2 - 2 * r - low]
    <3>1. regs[i] = v[2 * (IF w = HIGH_WORD_FIRST THEN r ELSE n \div 2 + 1 - r)
                      - (IF (low = 0) = (e = BIG_ENDIAN) THEN 1 ELSE 0)]
      BY <1>5, <2>2
    <3>2. 2 * (n \div 2 + 1 - r) = n + 2 - 2 * r
      OBVIOUS
    <3>3. CASE w = HIGH_WORD_FIRST
      BY <3>1, <3>3
    <3>4. CASE w # HIGH_WORD_FIRST
      BY <3>1, <3>2, <3>4
    <3>5. QED BY <3>3, <3>4
  <2>6. CASE e = BIG_ENDIAN /\ w = HIGH_WORD_FIRST
    BY <2>1, <2>3, <2>4, <2>5, <2>6
       DEF Swaps, BIG_ENDIAN, LITTLE_ENDIAN, HIGH_WORD_FIRST, LOW_WORD_FIRST
  <2>7. CASE e = BIG_ENDIAN /\ w = LOW_WORD_FIRST
    BY <2>1, <2>3, <2>4, <2>5, <2>7
       DEF Swaps, BIG_ENDIAN, LITTLE_ENDIAN, HIGH_WORD_FIRST, LOW_WORD_FIRST
  <2>8. CASE e = LITTLE_ENDIAN /\ w = HIGH_WORD_FIRST
    BY <2>1, <2>3, <2>4, <2>5, <2>8
       DEF Swaps, BIG_ENDIAN, LITTLE_ENDIAN, HIGH_WORD_FIRST, LOW_WORD_FIRST
  <2>9. CASE e = LITTLE_ENDIAN /\ w = LOW_WORD_FIRST
    BY <2>1, <2>3, <2>4, <2>5, <2>9
       DEF Swaps, BIG_ENDIAN, LITTLE_ENDIAN, HIGH_WORD_FIRST, LOW_WORD_FIRST
  <2>10. QED
    BY <2>6, <2>7, <2>8, <2>9
       DEF Orders, BIG_ENDIAN, LITTLE_ENDIAN, HIGH_WORD_FIRST, LOW_WORD_FIRST
<1> HIDE DEF out, coded, regs
<1>7. DOMAIN coded = 1..n /\ DOMAIN regs = 1..n
  BY <1>4, <1>5
<1>8. coded = regs
  BY <1>4, <1>5, <1>6, <1>7
<1>9. QED BY <1>8 DEF coded, regs

\* Quotient and remainder of a place among values of 4 or 8 bytes or bits.
LEMMA PlaceOf ==
  /\ \A q \in Nat : \A r \in 0..3 : (4 * q + r) \div 4 = q /\ (4 * q + r) % 4 = r
  /\ \A q \in Nat : \A r \in 0..7 : (8 * q + r) \div 8 = q /\ (8 * q + r) % 8 = r
OBVIOUS

\* A list of wide values, however long, comes back from the bytes that were appended
\* for each of them (client.go:770-777, encoding.go:48-70).
THEOREM ListsComeBack ==
  ASSUME NEW size \in {4, 8}, NEW e \in Orders, NEW w \in Orders,
         NEW m \in Nat, NEW vs \in [1..m -> [1..size -> Byte]]
  PROVE  bytesToWides(size, e, w, widesToBytes(size, e, w, vs)) = vs
<1> DEFINE coded(n) == wideToBytes(e, w, vs[n])
           b == widesToBytes(size, e, w, vs)
<1>1. Len(vs) = m
  BY LengthOf
<1>2. ASSUME NEW n \in 1..m
      PROVE  coded(n) \in [1..size -> Byte] /\ bytesToWide(e, w, coded(n)) = vs[n]
  <2>1. vs[n] \in [1..size -> Byte] /\ vs[n] \in Wide
    BY DEF Wide
  <2>2. coded(n) \in [1..size -> Byte]
    BY <2>1, WideTypes
  <2>3. QED BY <2>1, <2>2, WidesComeBack
<1>3. b = [i \in 1..(size * m) |-> coded((i - 1) \div size + 1)[((i - 1) % size) + 1]]
  BY <1>1 DEF widesToBytes
<1> HIDE DEF coded, b
<1>4. ASSUME NEW i \in 1..(size * m)
      PROVE  (i - 1) \div size + 1 \in 1..m /\ ((i - 1) % size) + 1 \in 1..size
  <2>1. CASE size = 4
    BY <2>1
  <2>2. CASE size = 8
    BY <2>2
  <2>3. QED BY <2>1, <2>2
<1>5. size * m \in Nat /\ (size * m) \div size = m
  <2>1. CASE size = 4
    BY <2>1
  <2>2. CASE size = 8
    BY <2>2
  <2>3. QED BY <2>1, <2>2
<1>6. b \in [1..(size * m) -> Byte]
  BY <1>2, <1>3, <1>4
<1>7. Len(b) = size * m
  BY <1>5, <1>6, LengthOf
<1>8. ASSUME NEW n \in 1..m PROVE NthOf(size, b, n) = coded(n)
  <2>1. ASSUME NEW k \in 1..size
        PROVE  /\ (n - 1) * size + k \in 1..(size * m)
               /\ ((n - 1) * size + k - 1) \div size + 1 = n
               /\ (((n - 1) * size + k - 1) % size) + 1 = k
    <3> DEFINE i == (n - 1) * size + k
    <3>1. CASE size = 4
      <4>1. i \in Int /\ i - 1 = 4 * (n - 1) + (k - 1) /\ k - 1 \in 0..3 /\ n - 1 \in Nat /\ n <= m
        BY <3>1
      <4> HIDE DEF i
      <4>2. (i - 1) \div 4 = n - 1 /\ (i - 1) % 4 = k - 1
        BY <4>1, PlaceOf, SMTT(30)
      <4>3. i \in 1..(4 * m)
        BY <4>1
      <4>4. QED BY <3>1, <4>2, <4>3 DEF i
    <3>2. CASE size = 8
      <4>1. i \in Int /\ i - 1 = 8 * (n - 1) + (k - 1) /\ k - 1 \in 0..7 /\ n - 1 \in Nat /\ n <= m
        BY <3>2
      <4> HIDE DEF i
      <4>2. (i - 1) \div 8 = n - 1 /\ (i - 1) % 8 = k - 1
        BY <4>1, PlaceOf, SMTT(30)
      <4>3. i \in 1..(8 * m)
        BY <4>1
      <4>4. QED BY <3>2, <4>2, <4>3 DEF i
    <3>3. QED BY <3>1, <3>2
  <2>2. ASSUME NEW k \in 1..size PROVE b[(n - 1) * size + k] = coded(n)[k]
    <3> DEFINE i == (n - 1) * size + k
    <3>1. i \in 1..(size * m) /\ (i - 1) \div size + 1 = n /\ ((i - 1) % size) + 1 = k
      BY <2>1
    <3> HIDE DEF i
    <3>2. b[i] = coded((i - 1) \div size + 1)[((i - 1) % size) + 1]
      BY <1>3, <3>1
    <3>3. b[i] = coded(n)[k]
      BY <3>1, <3>2
    <3>4. QED BY <3>3 DEF i
  <2>3. NthOf(size, b, n) = [k \in 1..size |-> b[(n - 1) * size + k]]
    <3> DEFINE first == (n - 1) * size
               part == SubSeq(b, first + 1, n * size)
    <3>1. first \in Nat /\ n * size = first + size
      BY <2>1
    <3>2. \A i \in (first + 1)..(n * size) : b[i] \in Byte
      <4>1. ASSUME NEW i \in (first + 1)..(n * size) PROVE i \in 1..(size * m)
        <5>1. CASE size = 4
          BY <5>1
        <5>2. CASE size = 8
          BY <5>2
        <5>3. QED BY <5>1, <5>2
      <4>2. QED BY <1>6, <4>1
    <3>3. NthOf(size, b, n) = part
      BY DEF NthOf
    <3> HIDE DEF first
    <3>4. /\ part \in Seq(Byte) /\ Len(part) = size
          /\ \A k \in 1..size : part[k] = b[first + k]
      BY <3>1, <3>2, SubSeqProperties
    <3>5. QED BY <3>3, <3>4 DEF first
  <2>4. QED BY <1>2, <2>2, <2>3
<1>9. bytesToWides(size, e, w, b) = [n \in 1..m |-> bytesToWide(e, w, coded(n))]
  BY <1>5, <1>7, <1>8 DEF bytesToWides
<1>10. QED BY <1>2, <1>9 DEF b

\* A list of coils, however long, comes back from the bytes it was packed into
\* (encoding.go:187-213).
THEOREM CoilsComeBack ==
  ASSUME NEW n \in Nat, NEW v \in [1..n -> BOOLEAN]
  PROVE  decodeBools(n, encodeBools(v)) = v
<1>1. v \in Seq(BOOLEAN) /\ Len(v) = n
  <2>1. v \in Seq(BOOLEAN)
    BY SeqDef
  <2>2. Len(v) \in Nat /\ DOMAIN v = 1..Len(v)
    BY <2>1, LenProperties
  <2>3. (n \in 1..Len(v) \/ n = 0) /\ (Len(v) \in 1..n \/ Len(v) = 0)
    BY <2>2
  <2>4. QED BY <2>1, <2>2, <2>3
<1> DEFINE bytes == encodeBools(v)
           byte(i) == (i - 1) \div 8 + 1
           bit(i) == (i - 1) % 8
<1>2. ASSUME NEW i \in 1..n
      PROVE  /\ byte(i) \in 1..ByteCount(n) /\ bit(i) \in 0..7
             /\ 8 * (byte(i) - 1) + bit(i) + 1 = i
  BY DEF ByteCount
<1>3. bytes = [i \in 1..ByteCount(n) |-> [k \in 0..7 |->
                 8 * (i - 1) + k + 1 \in 1..n /\ v[8 * (i - 1) + k + 1]]]
  BY <1>1 DEF encodeBools
<1> HIDE DEF bytes, byte, bit
<1>4. ASSUME NEW i \in 1..n PROVE bytes[byte(i)][bit(i)] = v[i]
  <2>1. bytes[byte(i)][bit(i)] = (/\ 8 * (byte(i) - 1) + bit(i) + 1 \in 1..n
                                  /\ v[8 * (byte(i) - 1) + bit(i) + 1])
    BY <1>2, <1>3
  <2>2. 8 * (byte(i) - 1) + bit(i) + 1 = i
    BY <1>2
  <2>3. bytes[byte(i)][bit(i)] = (i \in 1..n /\ v[i])
    BY <2>1, <2>2, Zenon
  <2>4. v[i] = TRUE \/ v[i] = FALSE
    OBVIOUS
  <2>5. CASE v[i] = TRUE
    BY <2>3, <2>5
  <2>6. CASE v[i] = FALSE
    BY <2>3, <2>6
  <2>7. QED BY <2>4, <2>5, <2>6
<1>5. decodeBools(n, bytes) = [i \in 1..n |-> bytes[byte(i)][bit(i)]]
  BY DEF decodeBools, byte, bit
<1>6. QED BY <1>4, <1>5 DEF bytes

\* What a quiet call wrote reads back under the encoding its request was sent under, and
\* lies in the registers as that encoding has it (client.go:27-33, encoding.go:72-92,
\* 142-166).
THEOREM QuietValuesSurviving == Spec => []QuietValuesSurvive
<1>1. ASSUME CallersInv PROVE QuietValuesSurvive
  <2>1. ASSUME NEW c \in Callers, pc[c] = "returned", Quiet(c),
               NEW u \in used[c], NEW v \in Data
        PROVE  /\ bytesToWide(sentUnder[c][1], sentUnder[c][2], wideToBytes(u[1], u[2], v)) = v
               /\ wideToBytes(u[1], u[2], v) = Registers(sentUnder[c][1], sentUnder[c][2], v)
    <3>1. /\ u \in Encodings /\ u \in InForce(c) /\ sentUnder[c] \in InForce(c)
          /\ since[c] \in (SUBSET Orders) \X (SUBSET Orders)
      BY <1>1, <2>1 DEF CallersInv, UsesInv, CallUses, TypeOK
    <3>2. since[c][1] = {sentUnder[c][1]} /\ since[c][2] = {sentUnder[c][2]}
      BY <2>1 DEF Quiet, Only
    <3>3. u[1] = sentUnder[c][1] /\ u[2] = sentUnder[c][2] /\ u[1] \in Orders /\ u[2] \in Orders
      BY <3>1, <3>2 DEF InForce, Encodings
    <3>4. v \in Wide
      BY CallersAssumption
    <3>5. QED BY <3>3, <3>4, WidesComeBack, WidesAreRegisters
  <2>2. QED BY <2>1 DEF QuietValuesSurvive
<1>2. QED BY CallersInvariance, <1>1, PTL

=============================================================================
