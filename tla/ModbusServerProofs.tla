------------------------- MODULE ModbusServerProofs -------------------------
(* Proofs about ModbusServer for every set of connections, every limit,     *)
(* every number of restarts, with and without TLS.                          *)
EXTENDS ModbusServer, SequenceTheorems, FiniteSetTheorems, TLAPS

\* What handleTCPClient's swap and cut (server.go:363-367) make of the pool.
LEMMA RemoveAtElements ==
  ASSUME NEW S, NEW s \in Seq(S), NEW i \in 1..Len(s)
  PROVE  /\ RemoveAt(s, i) \in Seq(S)
         /\ Len(RemoveAt(s, i)) = Len(s) - 1
         /\ \A k \in 1..(Len(s) - 1) :
              RemoveAt(s, i)[k] = IF k = i THEN s[Len(s)] ELSE s[k]
<1> DEFINE t == [s EXCEPT ![i] = s[Len(s)]]
<1>1. Len(s) \in Nat /\ Len(s) \in 1..Len(s)
  BY LenProperties
<1>2. s[Len(s)] \in S
  BY <1>1, ElementOfSeq
<1>3. /\ t \in Seq(S)
      /\ \A k \in 1..Len(s) : t[k] = IF k = i THEN s[Len(s)] ELSE s[k]
      /\ Len(t) = Len(s)
  BY <1>2, ExceptSeq
<1> HIDE DEF t
<1> DEFINE m == Len(s) - 1
<1>4. /\ m \in Int /\ 0 <= m
      /\ \A k \in 1..m : t[k] \in S
  BY <1>1, <1>3, ElementOfSeq
<1>5. RemoveAt(s, i) = SubSeq(t, 1, m)
  BY DEF RemoveAt, t
<1> HIDE DEF m
<1>6. /\ SubSeq(t, 1, m) \in Seq(S)
      /\ Len(SubSeq(t, 1, m)) = m
      /\ \A k \in 1..m : SubSeq(t, 1, m)[k] = t[k]
  <2>1. /\ SubSeq(t, 1, m) \in Seq(S)
        /\ Len(SubSeq(t, 1, m)) = IF 1 <= m THEN m - 1 + 1 ELSE 0
        /\ \A k \in 1..(m - 1 + 1) : SubSeq(t, 1, m)[k] = t[1 + k - 1]
    BY <1>4, SubSeqProperties
  <2>2. m - 1 + 1 = m /\ \A k \in 1..m : 1 + k - 1 = k
    BY <1>4
  <2>3. QED BY <1>4, <2>1, <2>2
<1>7. /\ RemoveAt(s, i) \in Seq(S)
      /\ Len(RemoveAt(s, i)) = m
      /\ \A k \in 1..m : RemoveAt(s, i)[k] = IF k = i THEN s[Len(s)] ELSE s[k]
  <2>1. \A k \in 1..m : k \in 1..Len(s)
    BY <1>1 DEF m
  <2>2. QED BY <1>3, <1>5, <1>6, <2>1
<1>8. QED BY <1>7 DEF m

\* Admitting a socket (server.go:307) adds it to what the pool holds.
LEMMA AppendElements ==
  ASSUME NEW S, NEW s \in Seq(S), NEW x \in S, IsInjective(s), x \notin Range(s)
  PROVE  IsInjective(Append(s, x)) /\ Range(Append(s, x)) = Range(s) \cup {x}
<1>1. /\ Len(s) \in Nat
      /\ DOMAIN s = 1..Len(s)
      /\ DOMAIN Append(s, x) = 1..(Len(s) + 1)
      /\ Append(s, x)[Len(s) + 1] = x
      /\ \A k \in 1..Len(s) : Append(s, x)[k] = s[k]
  OBVIOUS
<1> DEFINE t == Append(s, x)
<1> HIDE DEF t
<1>2. /\ DOMAIN t = 1..(Len(s) + 1)
      /\ t[Len(s) + 1] = x
      /\ \A k \in 1..Len(s) : t[k] = s[k]
  BY <1>1 DEF t
<1>3. IsInjective(t)
  BY <1>1, <1>2 DEF IsInjective, Range
<1>4. Range(t) \subseteq Range(s) \cup {x}
  BY <1>1, <1>2 DEF Range
<1>5. Range(s) \cup {x} \subseteq Range(t)
  <2>1. x \in Range(t)
    BY <1>1, <1>2 DEF Range
  <2>2. \A k \in 1..Len(s) : k \in 1..(Len(s) + 1)
    BY <1>1
  <2>3. QED
    BY <1>1, <1>2, <2>1, <2>2 DEF Range
<1>6. QED BY <1>3, <1>4, <1>5 DEF t

\* Cutting a socket out of a duplicate-free pool removes it and nothing else.
LEMMA RemoveAtDistinct ==
  ASSUME NEW S, NEW s \in Seq(S), NEW i \in 1..Len(s), IsInjective(s)
  PROVE  /\ IsInjective(RemoveAt(s, i))
         /\ Range(RemoveAt(s, i)) = Range(s) \ {s[i]}
<1> DEFINE t == RemoveAt(s, i)
           n == Len(s)
<1>1. /\ n \in Nat /\ n >= 1 /\ i \in 1..n
      /\ DOMAIN s = 1..n
      /\ DOMAIN t = 1..(n - 1)
      /\ \A k \in 1..(n - 1) : t[k] = IF k = i THEN s[n] ELSE s[k]
  BY LenProperties, RemoveAtElements
<1> HIDE DEF t, n
<1>2. IsInjective(t)
  <2>1. \A j, k \in 1..n : s[j] = s[k] => j = k
    BY <1>1 DEF IsInjective, n
  <2>2. ASSUME NEW j \in 1..(n - 1), NEW k \in 1..(n - 1), t[j] = t[k] PROVE j = k
    BY <1>1, <2>1, <2>2
  <2>3. QED BY <1>1, <2>2 DEF IsInjective
<1>3. \A k \in 1..(n - 1) : t[k] \in Range(s) \ {s[i]}
  <2>1. \A j, k \in 1..n : s[j] = s[k] => j = k
    BY <1>1 DEF IsInjective, n
  <2>2. \A k \in 1..n : s[k] \in Range(s)
    BY <1>1 DEF Range
  <2>3. QED BY <1>1, <2>1, <2>2
<1>4. ASSUME NEW d \in Range(s), d # s[i] PROVE d \in Range(t)
  <2>1. PICK k \in 1..n : s[k] = d
    BY <1>1 DEF Range
  <2>2. \E j \in 1..(n - 1) : t[j] = d
    <3>1. CASE k = n
      BY <1>1, <1>4, <2>1, <3>1
    <3>2. CASE k # n
      BY <1>1, <1>4, <2>1, <3>2
    <3>3. QED BY <3>1, <3>2
  <2>3. QED BY <1>1, <2>2 DEF Range
<1>5. Range(t) = Range(s) \ {s[i]}
  BY <1>1, <1>3, <1>4 DEF Range
<1>6. QED BY <1>2, <1>5 DEF t

\* The session's removal takes its own socket out of an exact pool.
LEMMA PoolAfterRemove ==
  ASSUME TypeOK, PoolExact, NEW c \in Clients, Remove(c)
  PROVE  /\ tcpClients' \in Seq(Clients)
         /\ Len(tcpClients') = Len(tcpClients) - 1
         /\ IsInjective(tcpClients') /\ Pool' = Pool \ {c}
<1>1. tcpClients \in Seq(Clients) /\ DOMAIN tcpClients = 1..Len(tcpClients)
  BY LenProperties DEF TypeOK
<1>2. c \in Pool
  BY DEF PoolExact, Serving, Remove, Becomes, Served
<1>3. PICK i \in 1..Len(tcpClients) : /\ tcpClients[i] = c
                                    /\ tcpClients' = RemoveAt(tcpClients, i)
  BY <1>1, <1>2 DEF Remove
<1>4. QED
  BY <1>1, <1>3, RemoveAtElements, RemoveAtDistinct DEF PoolExact, Pool

\* Every step leaves every variable in its type.
LEMMA TypeOKStep ==
  ASSUME IInv, [Next]_vars PROVE TypeOK'
<1> USE ConfAssumption DEF IInv, TypeOK, LockFree, PoolInv, AcceptorsHold, Holding, PcStates, ConnStates, Served
<1>1. ASSUME StartListening PROVE TypeOK'
  <2>1. starts' \in 1..MaxStarts /\ starts' \in 0..MaxStarts
    BY <1>1 DEF StartListening
  <2>2. listening' \subseteq Acceptors /\ tcpListener' \in Acceptors \cup {Nil}
    BY <2>1, <1>1 DEF StartListening, Acceptors
  <2>3. pc' \in [Acceptors -> PcStates]
    BY <1>1 DEF StartListening
  <2>4. QED
    BY <2>1, <2>2, <2>3, <1>1 DEF StartListening, Survives
<1>2. ASSUME StartFails PROVE TypeOK'
  BY <1>2 DEF StartFails, Survives, userVars, acceptorVars
<1>3. ASSUME StopBegin PROVE TypeOK'
  BY <1>3 DEF StopBegin, Survives, userVars, acceptorVars
<1>4. ASSUME StopCloseOne PROVE TypeOK'
  <2>1. closing' \in Nat /\ open' \subseteq Clients
    BY <1>4 DEF StopCloseOne
  <2>2. QED
    BY <2>1, <1>4 DEF StopCloseOne, Survives, userVars, acceptorVars
<1>5. ASSUME StopReturns PROVE TypeOK'
  BY <1>5 DEF StopReturns, Survives, userVars, acceptorVars
<1>6. ASSUME NEW a \in Acceptors, LoadListener(a) PROVE TypeOK'
  BY <1>6 DEF LoadListener, Survives, userVars, acceptorVars
<1>7. ASSUME NEW a \in Acceptors, DereferenceNil(a) PROVE TypeOK'
  BY <1>7 DEF DereferenceNil, Survives, userVars, acceptorVars
<1>8. ASSUME NEW a \in Acceptors, NEW c \in Clients, AcceptConn(a, c) PROVE TypeOK'
  BY <1>8 DEF AcceptConn, Survives, userVars, acceptorVars
<1>9. ASSUME NEW a \in Acceptors, AcceptFails(a) PROVE TypeOK'
  BY <1>9 DEF AcceptFails, Survives, userVars, acceptorVars
<1>10. ASSUME NEW a \in Acceptors, AcceptClosed(a) PROVE TypeOK'
  BY <1>10 DEF AcceptClosed, Survives, userVars, acceptorVars
<1>11. ASSUME NEW a \in Acceptors, Admit(a) PROVE TypeOK'
  <2>1. sock[a] \in Clients
    BY <1>11 DEF Admit
  <2>2. tcpClients' \in Seq(Clients)
    BY <2>1, <1>11 DEF Admit
  <2>3. conn' \in [Clients -> ConnStates] /\ sock' \in [Acceptors -> Clients \cup {None}]
    BY <2>1, <1>11 DEF Admit
  <2>4. pc' \in [Acceptors -> PcStates]
    BY <1>11 DEF Admit
  <2>5. QED
    BY <2>2, <2>3, <2>4, <1>11 DEF Admit, Survives, userVars
<1>12. ASSUME NEW a \in Acceptors, Refuse(a) PROVE TypeOK'
  BY <1>12 DEF Refuse, Survives, userVars, acceptorVars
<1>13. ASSUME NEW a \in Acceptors, Discard(a) PROVE TypeOK'
  BY <1>13 DEF Discard, Survives, userVars, acceptorVars
<1>14. ASSUME NEW c \in Clients, Connect(c) PROVE TypeOK'
  <2>1. via' \in [Clients -> Acceptors \cup {Nil}]
    BY <1>14 DEF Connect
  <2>2. conn' \in [Clients -> ConnStates]
    BY <1>14 DEF Connect
  <2>3. QED
    BY <2>1, <2>2, <1>14 DEF Connect, Survives, userVars, acceptorVars
<1>15. ASSUME NEW c \in Clients, HandshakeDone(c) PROVE TypeOK'
  BY <1>15 DEF HandshakeDone, Survives, userVars, acceptorVars, Becomes
<1>16. ASSUME NEW c \in Clients, HandshakeFails(c) PROVE TypeOK'
  BY <1>16 DEF HandshakeFails, Survives, userVars, acceptorVars, Becomes
<1>17. ASSUME NEW c \in Clients, ReadRequest(c) PROVE TypeOK'
  BY <1>17 DEF ReadRequest, Survives, userVars, acceptorVars, Becomes
<1>18. ASSUME NEW c \in Clients, ReadFails(c) PROVE TypeOK'
  BY <1>18 DEF ReadFails, Survives, userVars, acceptorVars, Becomes
<1>19. ASSUME NEW c \in Clients, CallHandler(c) PROVE TypeOK'
  <2>1. late' \in [Clients -> Nat]
    BY <1>19 DEF CallHandler
  <2>2. conn' \in [Clients -> ConnStates]
    BY <1>19 DEF CallHandler, Becomes
  <2>3. QED
    BY <2>1, <2>2, <1>19 DEF CallHandler, Survives, userVars, acceptorVars
<1>20. ASSUME NEW c \in Clients, AnswerException(c) PROVE TypeOK'
  BY <1>20 DEF AnswerException, Survives, userVars, acceptorVars, Becomes
<1>21. ASSUME NEW c \in Clients, HandlerReturns(c) PROVE TypeOK'
  BY <1>21 DEF HandlerReturns, Survives, userVars, acceptorVars, Becomes
<1>22. ASSUME NEW c \in Clients, ProtocolError(c) PROVE TypeOK'
  BY ZenonT(40), <1>22 DEF ProtocolError, Survives, userVars, acceptorVars, Becomes
<1>23. ASSUME NEW c \in Clients, Remove(c) PROVE TypeOK'
  <2>1. tcpClients' \in Seq(Clients)
    BY <1>23, PoolAfterRemove
  <2>2. conn' \in [Clients -> ConnStates]
    BY <1>23 DEF Remove, Becomes
  <2>3. QED
    BY <2>1, <2>2, <1>23 DEF Remove, Survives, userVars, acceptorVars
<1>24. ASSUME NEW c \in Clients, CloseSocket(c) PROVE TypeOK'
  BY <1>24 DEF CloseSocket, Survives, userVars, acceptorVars, Becomes
<1>25. CASE UNCHANGED vars
  BY <1>25 DEF vars, userVars, acceptorVars
<1>26. QED
  BY <1>1, <1>2, <1>3, <1>4, <1>5, <1>6, <1>7, <1>8, <1>9, <1>10, <1>11, <1>12, <1>13, <1>14, <1>15, <1>16, <1>17, <1>18, <1>19, <1>20, <1>21, <1>22, <1>23, <1>24, <1>25 DEF Next, UserCall, StopGoesOn, AcceptorStep, Accept, SessionStep

\* Every step keeps each accepted socket with one acceptor (server.go:289-326).
LEMMA AcceptorsHoldStep ==
  ASSUME IInv, [Next]_vars PROVE AcceptorsHold'
<1> USE ConfAssumption DEF IInv, TypeOK, LockFree, AcceptorsHold, Holding, PcStates, ConnStates, Served, Acceptors, Nil
<1>1. ASSUME StartListening PROVE AcceptorsHold'
  BY <1>1 DEF StartListening, Survives, userVars, acceptorVars
<1>2. ASSUME StartFails PROVE AcceptorsHold'
  BY <1>2 DEF StartFails, Survives, userVars, acceptorVars
<1>3. ASSUME StopBegin PROVE AcceptorsHold'
  BY <1>3 DEF StopBegin, Survives, userVars, acceptorVars
<1>4. ASSUME StopCloseOne PROVE AcceptorsHold'
  BY <1>4 DEF StopCloseOne, Survives, userVars, acceptorVars
<1>5. ASSUME StopReturns PROVE AcceptorsHold'
  BY <1>5 DEF StopReturns, Survives, userVars, acceptorVars
<1>6. ASSUME NEW a \in Acceptors, LoadListener(a) PROVE AcceptorsHold'
  BY <1>6 DEF LoadListener, Survives, userVars, acceptorVars
<1>7. ASSUME NEW a \in Acceptors, DereferenceNil(a) PROVE AcceptorsHold'
  BY <1>7 DEF DereferenceNil, Survives, userVars, acceptorVars
<1>8. ASSUME NEW a \in Acceptors, NEW c \in Clients, AcceptConn(a, c) PROVE AcceptorsHold'
  <2>1. \A b \in Acceptors : sock[b] # c
    BY ZenonT(40), <1>8 DEF AcceptConn
  <2>2. /\ sock' = [sock EXCEPT ![a] = c]
        /\ pc' = [pc EXCEPT ![a] = "admit"]
        /\ conn' = [conn EXCEPT ![c] = "accepted"]
        /\ starts' = starts /\ pc[a] = "accept" /\ c # None
    BY <1>8 DEF AcceptConn, userVars
  <2>3. QED
    BY <2>1, <2>2
<1>9. ASSUME NEW a \in Acceptors, AcceptFails(a) PROVE AcceptorsHold'
  BY <1>9 DEF AcceptFails, Survives, userVars, acceptorVars
<1>10. ASSUME NEW a \in Acceptors, AcceptClosed(a) PROVE AcceptorsHold'
  BY <1>10 DEF AcceptClosed, Survives, userVars, acceptorVars
<1>11. ASSUME NEW a \in Acceptors, Admit(a) PROVE AcceptorsHold'
  BY <1>11 DEF Admit, Survives, userVars, acceptorVars
<1>12. ASSUME NEW a \in Acceptors, Refuse(a) PROVE AcceptorsHold'
  BY <1>12 DEF Refuse, Survives, userVars, acceptorVars
<1>13. ASSUME NEW a \in Acceptors, Discard(a) PROVE AcceptorsHold'
  BY <1>13 DEF Discard, Survives, userVars, acceptorVars
<1>14. ASSUME NEW c \in Clients, Connect(c) PROVE AcceptorsHold'
  BY <1>14 DEF Connect, Survives, userVars, acceptorVars
<1>15. ASSUME NEW c \in Clients, HandshakeDone(c) PROVE AcceptorsHold'
  BY <1>15 DEF HandshakeDone, Survives, userVars, acceptorVars, Becomes
<1>16. ASSUME NEW c \in Clients, HandshakeFails(c) PROVE AcceptorsHold'
  BY <1>16 DEF HandshakeFails, Survives, userVars, acceptorVars, Becomes
<1>17. ASSUME NEW c \in Clients, ReadRequest(c) PROVE AcceptorsHold'
  BY <1>17 DEF ReadRequest, Survives, userVars, acceptorVars, Becomes
<1>18. ASSUME NEW c \in Clients, ReadFails(c) PROVE AcceptorsHold'
  BY <1>18 DEF ReadFails, Survives, userVars, acceptorVars, Becomes
<1>19. ASSUME NEW c \in Clients, CallHandler(c) PROVE AcceptorsHold'
  BY <1>19 DEF CallHandler, Survives, userVars, acceptorVars, Becomes
<1>20. ASSUME NEW c \in Clients, AnswerException(c) PROVE AcceptorsHold'
  BY <1>20 DEF AnswerException, Survives, userVars, acceptorVars, Becomes
<1>21. ASSUME NEW c \in Clients, HandlerReturns(c) PROVE AcceptorsHold'
  BY <1>21 DEF HandlerReturns, Survives, userVars, acceptorVars, Becomes
<1>22. ASSUME NEW c \in Clients, ProtocolError(c) PROVE AcceptorsHold'
  BY <1>22 DEF ProtocolError, Survives, userVars, acceptorVars, Becomes
<1>23. ASSUME NEW c \in Clients, Remove(c) PROVE AcceptorsHold'
  BY <1>23 DEF Remove, Survives, userVars, acceptorVars, Becomes
<1>24. ASSUME NEW c \in Clients, CloseSocket(c) PROVE AcceptorsHold'
  BY <1>24 DEF CloseSocket, Survives, userVars, acceptorVars, Becomes
<1>25. CASE UNCHANGED vars
  BY <1>25 DEF vars, userVars, acceptorVars
<1>26. QED
  BY <1>1, <1>2, <1>3, <1>4, <1>5, <1>6, <1>7, <1>8, <1>9, <1>10, <1>11, <1>12, <1>13, <1>14, <1>15, <1>16, <1>17, <1>18, <1>19, <1>20, <1>21, <1>22, <1>23, <1>24, <1>25 DEF Next, UserCall, StopGoesOn, AcceptorStep, Accept, SessionStep

\* Admission and removal (server.go:304, 361-370) keep the pool exact and bounded.
LEMMA PoolInvStep ==
  ASSUME IInv, [Next]_vars PROVE PoolInv'
<1> USE ConfAssumption DEF IInv, TypeOK, LockFree, PoolInv, ConnStates
<1>1. ASSUME StartListening PROVE PoolInv'
  <2>1. UNCHANGED tcpClients /\ Serving' = Serving
    BY <1>1 DEF StartListening, Serving, Served, userVars, acceptorVars
  <2>2. QED
    BY <2>1 DEF PoolExact, Pool
<1>2. ASSUME StartFails PROVE PoolInv'
  <2>1. UNCHANGED tcpClients /\ Serving' = Serving
    BY <1>2 DEF StartFails, Serving, Served, userVars, acceptorVars
  <2>2. QED
    BY <2>1 DEF PoolExact, Pool
<1>3. ASSUME StopBegin PROVE PoolInv'
  <2>1. UNCHANGED tcpClients /\ Serving' = Serving
    BY <1>3 DEF StopBegin, Serving, Served, userVars, acceptorVars
  <2>2. QED
    BY <2>1 DEF PoolExact, Pool
<1>4. ASSUME StopCloseOne PROVE PoolInv'
  <2>1. UNCHANGED tcpClients /\ Serving' = Serving
    BY <1>4 DEF StopCloseOne, Serving, Served, userVars, acceptorVars
  <2>2. QED
    BY <2>1 DEF PoolExact, Pool
<1>5. ASSUME StopReturns PROVE PoolInv'
  <2>1. UNCHANGED tcpClients /\ Serving' = Serving
    BY <1>5 DEF StopReturns, Serving, Served, userVars, acceptorVars
  <2>2. QED
    BY <2>1 DEF PoolExact, Pool
<1>6. ASSUME NEW a \in Acceptors, LoadListener(a) PROVE PoolInv'
  <2>1. UNCHANGED tcpClients /\ Serving' = Serving
    BY <1>6 DEF LoadListener, Serving, Served, userVars, acceptorVars
  <2>2. QED
    BY <2>1 DEF PoolExact, Pool
<1>7. ASSUME NEW a \in Acceptors, DereferenceNil(a) PROVE PoolInv'
  <2>1. UNCHANGED tcpClients /\ Serving' = Serving
    BY <1>7 DEF DereferenceNil, Serving, Served, userVars, acceptorVars
  <2>2. QED
    BY <2>1 DEF PoolExact, Pool
<1>8. ASSUME NEW a \in Acceptors, NEW c \in Clients, AcceptConn(a, c) PROVE PoolInv'
  <2>1. UNCHANGED tcpClients /\ Serving' = Serving
    BY <1>8 DEF AcceptConn, Serving, Served, userVars, acceptorVars
  <2>2. QED
    BY <2>1 DEF PoolExact, Pool
<1>9. ASSUME NEW a \in Acceptors, AcceptFails(a) PROVE PoolInv'
  <2>1. UNCHANGED tcpClients /\ Serving' = Serving
    BY <1>9 DEF AcceptFails, Serving, Served, userVars, acceptorVars
  <2>2. QED
    BY <2>1 DEF PoolExact, Pool
<1>10. ASSUME NEW a \in Acceptors, AcceptClosed(a) PROVE PoolInv'
  <2>1. UNCHANGED tcpClients /\ Serving' = Serving
    BY <1>10 DEF AcceptClosed, Serving, Served, userVars, acceptorVars
  <2>2. QED
    BY <2>1 DEF PoolExact, Pool
<1>11. ASSUME NEW a \in Acceptors, Admit(a) PROVE PoolInv'
  <2>1. /\ sock[a] \in Clients /\ conn[sock[a]] = "accepted"
        /\ Len(tcpClients) < MaxClients
        /\ tcpClients' = Append(tcpClients, sock[a])
        /\ conn' = [conn EXCEPT ![sock[a]] = IF TLS THEN "handshake" ELSE "read"]
    BY <1>11 DEF Admit, MayAdmit, AcceptorsHold, Holding
  <2>2. sock[a] \notin Pool
    BY <2>1 DEF PoolExact, Serving, Served
  <2>3. IsInjective(tcpClients') /\ Pool' = Pool \cup {sock[a]}
    BY <2>1, <2>2, AppendElements DEF PoolExact, Pool
  <2>4. Serving' = Serving \cup {sock[a]}
    BY <2>1 DEF Serving, Served
  <2>5. Len(tcpClients') <= MaxClients
    BY <2>1
  <2>6. QED
    BY <2>3, <2>4, <2>5 DEF PoolExact
<1>12. ASSUME NEW a \in Acceptors, Refuse(a) PROVE PoolInv'
  <2>1. UNCHANGED tcpClients /\ Serving' = Serving
    BY <1>12 DEF Refuse, Serving, Served, userVars, acceptorVars, AcceptorsHold, Holding
  <2>2. QED
    BY <2>1 DEF PoolExact, Pool
<1>13. ASSUME NEW a \in Acceptors, Discard(a) PROVE PoolInv'
  <2>1. UNCHANGED tcpClients /\ Serving' = Serving
    BY <1>13 DEF Discard, Serving, Served, userVars, acceptorVars, AcceptorsHold, Holding
  <2>2. QED
    BY <2>1 DEF PoolExact, Pool
<1>14. ASSUME NEW c \in Clients, Connect(c) PROVE PoolInv'
  <2>1. UNCHANGED tcpClients /\ Serving' = Serving
    BY <1>14 DEF Connect, Serving, Served, userVars, acceptorVars
  <2>2. QED
    BY <2>1 DEF PoolExact, Pool
<1>15. ASSUME NEW c \in Clients, HandshakeDone(c) PROVE PoolInv'
  <2>1. UNCHANGED tcpClients /\ Serving' = Serving
    BY <1>15 DEF HandshakeDone, Serving, Served, userVars, acceptorVars, Becomes
  <2>2. QED
    BY <2>1 DEF PoolExact, Pool
<1>16. ASSUME NEW c \in Clients, HandshakeFails(c) PROVE PoolInv'
  <2>1. UNCHANGED tcpClients /\ Serving' = Serving
    BY <1>16 DEF HandshakeFails, Serving, Served, userVars, acceptorVars, Becomes
  <2>2. QED
    BY <2>1 DEF PoolExact, Pool
<1>17. ASSUME NEW c \in Clients, ReadRequest(c) PROVE PoolInv'
  <2>1. UNCHANGED tcpClients /\ Serving' = Serving
    BY <1>17 DEF ReadRequest, Serving, Served, userVars, acceptorVars, Becomes
  <2>2. QED
    BY <2>1 DEF PoolExact, Pool
<1>18. ASSUME NEW c \in Clients, ReadFails(c) PROVE PoolInv'
  <2>1. UNCHANGED tcpClients /\ Serving' = Serving
    BY <1>18 DEF ReadFails, Serving, Served, userVars, acceptorVars, Becomes
  <2>2. QED
    BY <2>1 DEF PoolExact, Pool
<1>19. ASSUME NEW c \in Clients, CallHandler(c) PROVE PoolInv'
  <2>1. UNCHANGED tcpClients /\ Serving' = Serving
    BY <1>19 DEF CallHandler, Serving, Served, userVars, acceptorVars, Becomes
  <2>2. QED
    BY <2>1 DEF PoolExact, Pool
<1>20. ASSUME NEW c \in Clients, AnswerException(c) PROVE PoolInv'
  <2>1. UNCHANGED tcpClients /\ Serving' = Serving
    BY <1>20 DEF AnswerException, Serving, Served, userVars, acceptorVars, Becomes
  <2>2. QED
    BY <2>1 DEF PoolExact, Pool
<1>21. ASSUME NEW c \in Clients, HandlerReturns(c) PROVE PoolInv'
  <2>1. UNCHANGED tcpClients /\ Serving' = Serving
    BY <1>21 DEF HandlerReturns, Serving, Served, userVars, acceptorVars, Becomes
  <2>2. QED
    BY <2>1 DEF PoolExact, Pool
<1>22. ASSUME NEW c \in Clients, ProtocolError(c) PROVE PoolInv'
  <2>1. UNCHANGED tcpClients /\ Serving' = Serving
    BY <1>22 DEF ProtocolError, Serving, Served, userVars, acceptorVars, Becomes
  <2>2. QED
    BY <2>1 DEF PoolExact, Pool
<1>23. ASSUME NEW c \in Clients, Remove(c) PROVE PoolInv'
  <2>1. /\ IsInjective(tcpClients') /\ Pool' = Pool \ {c}
        /\ Len(tcpClients') <= MaxClients
    BY <1>23, PoolAfterRemove
  <2>2. Serving' = Serving \ {c}
    BY <1>23 DEF Remove, Becomes, Serving, Served
  <2>3. QED
    BY <2>1, <2>2 DEF PoolExact
<1>24. ASSUME NEW c \in Clients, CloseSocket(c) PROVE PoolInv'
  <2>1. UNCHANGED tcpClients /\ Serving' = Serving
    BY <1>24 DEF CloseSocket, Serving, Served, userVars, acceptorVars, Becomes
  <2>2. QED
    BY <2>1 DEF PoolExact, Pool
<1>25. CASE UNCHANGED vars
  BY <1>25 DEF vars, PoolExact, Pool, Serving
<1>26. QED
  BY <1>1, <1>2, <1>3, <1>4, <1>5, <1>6, <1>7, <1>8, <1>9, <1>10, <1>11, <1>12, <1>13, <1>14, <1>15, <1>16, <1>17, <1>18, <1>19, <1>20, <1>21, <1>22, <1>23, <1>24, <1>25 DEF Next, UserCall, StopGoesOn, AcceptorStep, Accept, SessionStep

\* What Stop has walked past (server.go:274-277) stays closed.
LEMMA StopInvStep ==
  ASSUME IInv, [Next]_vars PROVE StopInv'
<1> USE ConfAssumption DEF IInv, TypeOK, LockFree, StopInv, PoolInv, Holding, PcStates, ConnStates, Served
<1>1. ASSUME StartListening PROVE StopInv'
  BY <1>1 DEF StartListening, Survives, userVars, acceptorVars
<1>2. ASSUME StartFails PROVE StopInv'
  BY <1>2 DEF StartFails, Survives, userVars, acceptorVars
<1>3. ASSUME StopBegin PROVE StopInv'
  BY <1>3 DEF StopBegin, Survives, userVars, acceptorVars
<1>4. ASSUME StopCloseOne PROVE StopInv'
  BY <1>4 DEF StopCloseOne, Survives, userVars, acceptorVars
<1>5. ASSUME StopReturns PROVE StopInv'
  BY <1>5 DEF StopReturns, Survives, userVars, acceptorVars
<1>6. ASSUME NEW a \in Acceptors, LoadListener(a) PROVE StopInv'
  BY <1>6 DEF LoadListener, Survives, userVars, acceptorVars
<1>7. ASSUME NEW a \in Acceptors, DereferenceNil(a) PROVE StopInv'
  BY <1>7 DEF DereferenceNil, Survives, userVars, acceptorVars
<1>8. ASSUME NEW a \in Acceptors, NEW c \in Clients, AcceptConn(a, c) PROVE StopInv'
  <2>1. \A i \in DOMAIN tcpClients : tcpClients[i] # c
    BY <1>8 DEF AcceptConn, PoolExact, Pool, Range, Serving, Served
  <2>2. QED
    BY <2>1, <1>8 DEF AcceptConn, Survives, userVars
<1>9. ASSUME NEW a \in Acceptors, AcceptFails(a) PROVE StopInv'
  BY <1>9 DEF AcceptFails, Survives, userVars, acceptorVars
<1>10. ASSUME NEW a \in Acceptors, AcceptClosed(a) PROVE StopInv'
  BY <1>10 DEF AcceptClosed, Survives, userVars, acceptorVars
<1>11. ASSUME NEW a \in Acceptors, Admit(a) PROVE StopInv'
  BY <1>11 DEF Admit, MayAdmit, Survives, userVars
<1>12. ASSUME NEW a \in Acceptors, Refuse(a) PROVE StopInv'
  BY <1>12 DEF Refuse, Survives, userVars, acceptorVars
<1>13. ASSUME NEW a \in Acceptors, Discard(a) PROVE StopInv'
  BY <1>13 DEF Discard, Survives, userVars, acceptorVars
<1>14. ASSUME NEW c \in Clients, Connect(c) PROVE StopInv'
  BY <1>14 DEF Connect, Survives, userVars, acceptorVars
<1>15. ASSUME NEW c \in Clients, HandshakeDone(c) PROVE StopInv'
  BY <1>15 DEF HandshakeDone, Survives, userVars, acceptorVars, Becomes
<1>16. ASSUME NEW c \in Clients, HandshakeFails(c) PROVE StopInv'
  BY <1>16 DEF HandshakeFails, Survives, userVars, acceptorVars, Becomes
<1>17. ASSUME NEW c \in Clients, ReadRequest(c) PROVE StopInv'
  BY <1>17 DEF ReadRequest, Survives, userVars, acceptorVars, Becomes
<1>18. ASSUME NEW c \in Clients, ReadFails(c) PROVE StopInv'
  BY <1>18 DEF ReadFails, Survives, userVars, acceptorVars, Becomes
<1>19. ASSUME NEW c \in Clients, CallHandler(c) PROVE StopInv'
  BY <1>19 DEF CallHandler, Survives, userVars, acceptorVars, Becomes
<1>20. ASSUME NEW c \in Clients, AnswerException(c) PROVE StopInv'
  BY <1>20 DEF AnswerException, Survives, userVars, acceptorVars, Becomes
<1>21. ASSUME NEW c \in Clients, HandlerReturns(c) PROVE StopInv'
  BY <1>21 DEF HandlerReturns, Survives, userVars, acceptorVars, Becomes
<1>22. ASSUME NEW c \in Clients, ProtocolError(c) PROVE StopInv'
  BY <1>22 DEF ProtocolError, Survives, userVars, acceptorVars, Becomes
<1>23. ASSUME NEW c \in Clients, Remove(c) PROVE StopInv'
  <2>1. \A i \in DOMAIN tcpClients' : \E j \in DOMAIN tcpClients : tcpClients'[i] = tcpClients[j]
    <3>1. Pool' \subseteq Pool
      BY <1>23, PoolAfterRemove
    <3>2. \A i \in DOMAIN tcpClients' : tcpClients'[i] \in Pool'
      BY DEF Pool, Range
    <3>3. \A d \in Pool : \E j \in DOMAIN tcpClients : d = tcpClients[j]
      BY DEF Pool, Range
    <3>4. QED BY <3>1, <3>2, <3>3
  <2>2. LockFree /\ UNCHANGED <<closing, open, started>>
    BY <1>23 DEF Remove, userVars
  <2>3. QED
    BY <2>1, <2>2
<1>24. ASSUME NEW c \in Clients, CloseSocket(c) PROVE StopInv'
  BY <1>24 DEF CloseSocket, Survives, userVars, acceptorVars, Becomes
<1>25. CASE UNCHANGED vars
  BY <1>25 DEF vars, userVars, acceptorVars
<1>26. QED
  BY <1>1, <1>2, <1>3, <1>4, <1>5, <1>6, <1>7, <1>8, <1>9, <1>10, <1>11, <1>12, <1>13, <1>14, <1>15, <1>16, <1>17, <1>18, <1>19, <1>20, <1>21, <1>22, <1>23, <1>24, <1>25 DEF Next, UserCall, StopGoesOn, AcceptorStep, Accept, SessionStep

\* No step leaves an open socket to nobody.
LEMMA OpenInvStep ==
  ASSUME IInv, [Next]_vars PROVE OpenInv'
<1> USE ConfAssumption DEF IInv, TypeOK, LockFree, OpenInv, AcceptorsHold, Holding, PcStates, ConnStates, Served
<1>1. ASSUME StartListening PROVE OpenInv'
  BY <1>1 DEF StartListening, Survives, userVars, acceptorVars
<1>2. ASSUME StartFails PROVE OpenInv'
  BY <1>2 DEF StartFails, Survives, userVars, acceptorVars
<1>3. ASSUME StopBegin PROVE OpenInv'
  BY <1>3 DEF StopBegin, Survives, userVars, acceptorVars
<1>4. ASSUME StopCloseOne PROVE OpenInv'
  <2>1. conn[tcpClients[closing]] \in Served
    <3>1. closing \in DOMAIN tcpClients
      BY <1>4, LenProperties DEF StopCloseOne
    <3>2. tcpClients[closing] \in Serving
      BY <3>1 DEF PoolInv, PoolExact, Pool, Range
    <3>3. QED BY <3>2 DEF Serving
  <2>2. QED
    BY <2>1, <1>4 DEF StopCloseOne, userVars, acceptorVars
<1>5. ASSUME StopReturns PROVE OpenInv'
  BY <1>5 DEF StopReturns, Survives, userVars, acceptorVars
<1>6. ASSUME NEW a \in Acceptors, LoadListener(a) PROVE OpenInv'
  BY <1>6 DEF LoadListener, Survives, userVars, acceptorVars
<1>7. ASSUME NEW a \in Acceptors, DereferenceNil(a) PROVE OpenInv'
  BY <1>7 DEF DereferenceNil, Survives, userVars, acceptorVars
<1>8. ASSUME NEW a \in Acceptors, NEW c \in Clients, AcceptConn(a, c) PROVE OpenInv'
  <2>1. /\ sock' = [sock EXCEPT ![a] = c] /\ pc[a] = "accept" /\ c \notin open
        /\ conn' = [conn EXCEPT ![c] = "accepted"] /\ open' = open \cup {c}
    BY <1>8 DEF AcceptConn
  <2>2. \A d \in Clients : conn'[d] \in {"accepted", "rejected"} => d \in open'
    BY <2>1
  <2>3. \A d \in open' : conn'[d] \in Served \cup {"accepted", "rejected", "close"}
    BY <2>1
  <2>4. ASSUME NEW d \in Clients \ {c}, conn'[d] \in {"accepted", "rejected"}
        PROVE  \E b \in Acceptors \ {a} : sock[b] = d
    <3>1. PICK b \in Acceptors : sock[b] = d
      BY <2>1, <2>4
    <3>2. b # a
      BY <2>1, <3>1
    <3>3. QED BY <3>1, <3>2
  <2>5. \A d \in Clients : conn'[d] \in {"accepted", "rejected"} =>
                         \E b \in Acceptors : sock'[b] = d
    BY <2>1, <2>4
  <2>6. QED BY <2>2, <2>3, <2>5
<1>9. ASSUME NEW a \in Acceptors, AcceptFails(a) PROVE OpenInv'
  BY <1>9 DEF AcceptFails, Survives, userVars, acceptorVars
<1>10. ASSUME NEW a \in Acceptors, AcceptClosed(a) PROVE OpenInv'
  BY <1>10 DEF AcceptClosed, Survives, userVars, acceptorVars
<1>11. ASSUME NEW a \in Acceptors, Admit(a) PROVE OpenInv'
  BY <1>11 DEF Admit, Survives, userVars, acceptorVars
<1>12. ASSUME NEW a \in Acceptors, Refuse(a) PROVE OpenInv'
  BY <1>12 DEF Refuse, Survives, userVars, acceptorVars
<1>13. ASSUME NEW a \in Acceptors, Discard(a) PROVE OpenInv'
  BY <1>13 DEF Discard, Survives, userVars, acceptorVars
<1>14. ASSUME NEW c \in Clients, Connect(c) PROVE OpenInv'
  BY <1>14 DEF Connect, Survives, userVars, acceptorVars
<1>15. ASSUME NEW c \in Clients, HandshakeDone(c) PROVE OpenInv'
  BY <1>15 DEF HandshakeDone, Survives, userVars, acceptorVars, Becomes
<1>16. ASSUME NEW c \in Clients, HandshakeFails(c) PROVE OpenInv'
  BY <1>16 DEF HandshakeFails, Survives, userVars, acceptorVars, Becomes
<1>17. ASSUME NEW c \in Clients, ReadRequest(c) PROVE OpenInv'
  BY <1>17 DEF ReadRequest, Survives, userVars, acceptorVars, Becomes
<1>18. ASSUME NEW c \in Clients, ReadFails(c) PROVE OpenInv'
  BY <1>18 DEF ReadFails, Survives, userVars, acceptorVars, Becomes
<1>19. ASSUME NEW c \in Clients, CallHandler(c) PROVE OpenInv'
  BY <1>19 DEF CallHandler, Survives, userVars, acceptorVars, Becomes
<1>20. ASSUME NEW c \in Clients, AnswerException(c) PROVE OpenInv'
  BY <1>20 DEF AnswerException, Survives, userVars, acceptorVars, Becomes
<1>21. ASSUME NEW c \in Clients, HandlerReturns(c) PROVE OpenInv'
  BY <1>21 DEF HandlerReturns, Survives, userVars, acceptorVars, Becomes
<1>22. ASSUME NEW c \in Clients, ProtocolError(c) PROVE OpenInv'
  BY <1>22 DEF ProtocolError, Survives, userVars, acceptorVars, Becomes
<1>23. ASSUME NEW c \in Clients, Remove(c) PROVE OpenInv'
  BY <1>23 DEF Remove, Survives, userVars, acceptorVars, Becomes
<1>24. ASSUME NEW c \in Clients, CloseSocket(c) PROVE OpenInv'
  BY <1>24 DEF CloseSocket, Survives, userVars, acceptorVars, Becomes
<1>25. CASE UNCHANGED vars
  BY <1>25 DEF vars, userVars, acceptorVars
<1>26. QED
  BY <1>1, <1>2, <1>3, <1>4, <1>5, <1>6, <1>7, <1>8, <1>9, <1>10, <1>11, <1>12, <1>13, <1>14, <1>15, <1>16, <1>17, <1>18, <1>19, <1>20, <1>21, <1>22, <1>23, <1>24, <1>25 DEF Next, UserCall, StopGoesOn, AcceptorStep, Accept, SessionStep

\* A closed socket gives its session no second request (tcp_transport.go:67).
LEMMA LateInvStep ==
  ASSUME IInv, [Next]_vars PROVE LateInv'
<1> USE ConfAssumption DEF IInv, TypeOK, LockFree, LateInv, AcceptorsHold, ConnStates, Served
<1>1. ASSUME StartListening PROVE LateInv'
  BY <1>1 DEF StartListening, Survives, userVars, acceptorVars
<1>2. ASSUME StartFails PROVE LateInv'
  BY <1>2 DEF StartFails, Survives, userVars, acceptorVars
<1>3. ASSUME StopBegin PROVE LateInv'
  BY <1>3 DEF StopBegin, Survives, userVars, acceptorVars
<1>4. ASSUME StopCloseOne PROVE LateInv'
  BY <1>4 DEF StopCloseOne, Survives, userVars, acceptorVars
<1>5. ASSUME StopReturns PROVE LateInv'
  BY <1>5 DEF StopReturns, Survives, userVars, acceptorVars
<1>6. ASSUME NEW a \in Acceptors, LoadListener(a) PROVE LateInv'
  BY <1>6 DEF LoadListener, Survives, userVars, acceptorVars
<1>7. ASSUME NEW a \in Acceptors, DereferenceNil(a) PROVE LateInv'
  BY <1>7 DEF DereferenceNil, Survives, userVars, acceptorVars
<1>8. ASSUME NEW a \in Acceptors, NEW c \in Clients, AcceptConn(a, c) PROVE LateInv'
  BY <1>8 DEF AcceptConn, Survives, userVars, acceptorVars
<1>9. ASSUME NEW a \in Acceptors, AcceptFails(a) PROVE LateInv'
  BY <1>9 DEF AcceptFails, Survives, userVars, acceptorVars
<1>10. ASSUME NEW a \in Acceptors, AcceptClosed(a) PROVE LateInv'
  BY <1>10 DEF AcceptClosed, Survives, userVars, acceptorVars
<1>11. ASSUME NEW a \in Acceptors, Admit(a) PROVE LateInv'
  BY <1>11 DEF Admit, Survives, userVars, acceptorVars
<1>12. ASSUME NEW a \in Acceptors, Refuse(a) PROVE LateInv'
  BY <1>12 DEF Refuse, Survives, userVars, acceptorVars
<1>13. ASSUME NEW a \in Acceptors, Discard(a) PROVE LateInv'
  BY <1>13 DEF Discard, Survives, userVars, acceptorVars
<1>14. ASSUME NEW c \in Clients, Connect(c) PROVE LateInv'
  BY <1>14 DEF Connect, Survives, userVars, acceptorVars
<1>15. ASSUME NEW c \in Clients, HandshakeDone(c) PROVE LateInv'
  BY <1>15 DEF HandshakeDone, Survives, userVars, acceptorVars, Becomes
<1>16. ASSUME NEW c \in Clients, HandshakeFails(c) PROVE LateInv'
  BY <1>16 DEF HandshakeFails, Survives, userVars, acceptorVars, Becomes
<1>17. ASSUME NEW c \in Clients, ReadRequest(c) PROVE LateInv'
  BY <1>17 DEF ReadRequest, Survives, userVars, acceptorVars, Becomes
<1>18. ASSUME NEW c \in Clients, ReadFails(c) PROVE LateInv'
  BY <1>18 DEF ReadFails, Survives, userVars, acceptorVars, Becomes
<1>19. ASSUME NEW c \in Clients, CallHandler(c) PROVE LateInv'
  BY <1>19 DEF CallHandler, Survives, userVars, acceptorVars, Becomes
<1>20. ASSUME NEW c \in Clients, AnswerException(c) PROVE LateInv'
  BY <1>20 DEF AnswerException, Survives, userVars, acceptorVars, Becomes
<1>21. ASSUME NEW c \in Clients, HandlerReturns(c) PROVE LateInv'
  BY <1>21 DEF HandlerReturns, Survives, userVars, acceptorVars, Becomes
<1>22. ASSUME NEW c \in Clients, ProtocolError(c) PROVE LateInv'
  BY <1>22 DEF ProtocolError, Survives, userVars, acceptorVars, Becomes
<1>23. ASSUME NEW c \in Clients, Remove(c) PROVE LateInv'
  BY <1>23 DEF Remove, Survives, userVars, acceptorVars, Becomes
<1>24. ASSUME NEW c \in Clients, CloseSocket(c) PROVE LateInv'
  BY <1>24 DEF CloseSocket, Survives, userVars, acceptorVars, Becomes
<1>25. CASE UNCHANGED vars
  BY <1>25 DEF vars, userVars, acceptorVars
<1>26. QED
  BY <1>1, <1>2, <1>3, <1>4, <1>5, <1>6, <1>7, <1>8, <1>9, <1>10, <1>11, <1>12, <1>13, <1>14, <1>15, <1>16, <1>17, <1>18, <1>19, <1>20, <1>21, <1>22, <1>23, <1>24, <1>25 DEF Next, UserCall, StopGoesOn, AcceptorStep, Accept, SessionStep

\* One listener at most is open, after every step too.
LEMMA ListenInvStep ==
  ASSUME IInv, [Next]_vars PROVE ListenInv'
<1> USE DEF IInv, ListenInv
<1>1. CASE StartListening
  BY <1>1 DEF StartListening
<1>2. CASE StartFails
  BY <1>2 DEF StartFails
<1>3. CASE StopBegin
  BY <1>3 DEF StopBegin
<1>4. CASE UNCHANGED <<started, tcpListener, listening>>
  BY <1>4
<1>5. CASE StopGoesOn
  BY <1>4, <1>5 DEF StopGoesOn, StopCloseOne, StopReturns, userVars
<1>6. ASSUME NEW a \in Acceptors, AcceptorStep(a)
      PROVE  UNCHANGED <<started, tcpListener, listening>>
  BY <1>6 DEF AcceptorStep, LoadListener, DereferenceNil, Accept, AcceptConn, AcceptFails,
     AcceptClosed, Admit, Refuse, Discard, userVars
<1>7. ASSUME NEW c \in Clients, Connect(c) \/ SessionStep(c)
      PROVE  UNCHANGED <<started, tcpListener, listening>>
  BY <1>7 DEF Connect, SessionStep, HandshakeDone, HandshakeFails, ReadRequest, ReadFails,
     CallHandler, AnswerException, HandlerReturns, ProtocolError, Remove, CloseSocket,
     userVars
<1>8. CASE UNCHANGED vars
  BY <1>4, <1>8 DEF vars, userVars
<1>9. QED
  BY <1>1, <1>2, <1>3, <1>4, <1>5, <1>6, <1>7, <1>8 DEF Next, UserCall

\* A new server satisfies the invariant.
LEMMA InitIInv == Init => IInv
<1> SUFFICES ASSUME Init PROVE IInv
  OBVIOUS
<1> USE ConfAssumption DEF Init
<1>1. tcpClients \in Seq(Clients) /\ Len(tcpClients) = 0 /\ DOMAIN tcpClients = {}
  OBVIOUS
<1>2. TypeOK
  <2>1. /\ pc \in [Acceptors -> PcStates] /\ on \in [Acceptors -> Acceptors \cup {Nil}]
        /\ sock \in [Acceptors -> Clients \cup {None}] /\ starts \in 0..MaxStarts
    BY DEF PcStates, Nil
  <2>2. /\ conn \in [Clients -> ConnStates] /\ via \in [Clients -> Acceptors \cup {Nil}]
        /\ late \in [Clients -> Nat]
    BY DEF ConnStates, Nil
  <2>3. QED BY <1>1, <2>1, <2>2 DEF TypeOK
<1>3. AcceptorsHold
  BY DEF AcceptorsHold, Holding
<1>4. PoolInv
  BY <1>1 DEF PoolInv, PoolExact, IsInjective, Pool, Range, Serving, Served
<1>5. StopInv /\ OpenInv /\ LateInv /\ ListenInv
  BY <1>1 DEF StopInv, OpenInv, LateInv, LockFree, ListenInv
<1>6. QED BY <1>2, <1>3, <1>4, <1>5 DEF IInv

\* Every reachable state satisfies the inductive invariant.
THEOREM Invariance == Spec => []IInv
<1>1. IInv /\ [Next]_vars => IInv'
  BY TypeOKStep, AcceptorsHoldStep, PoolInvStep, StopInvStep, OpenInvStep, LateInvStep,
     ListenInvStep DEF IInv
<1>2. QED BY InitIInv, <1>1, PTL DEF Spec

\* Type correctness.
THEOREM TypeCorrect == Spec => []TypeOK
<1>1. IInv => TypeOK
  BY DEF IInv
<1>2. QED BY <1>1, Invariance, PTL

\* The pool is, without duplicates, the set of running sessions.
THEOREM PoolIsExact == Spec => []PoolExact
<1>1. IInv => PoolExact
  BY DEF IInv, PoolInv
<1>2. QED BY <1>1, Invariance, PTL

\* The pool has at most as many members as slots.
LEMMA PoolCardinality ==
  ASSUME TypeOK
  PROVE  Cardinality(Pool) \in Nat /\ Cardinality(Pool) <= Len(tcpClients)
<1>1. /\ Len(tcpClients) \in Nat
      /\ tcpClients \in [1..Len(tcpClients) -> Clients]
  BY LenProperties DEF TypeOK
<1>2. tcpClients \in Surjection(1..Len(tcpClients), Pool)
  BY <1>1 DEF Surjection, Pool, Range
<1>3. IsFiniteSet(1..Len(tcpClients)) /\ Cardinality(1..Len(tcpClients)) = Len(tcpClients)
  BY <1>1, FS_Interval
<1>4. IsFiniteSet(Pool) /\ Cardinality(Pool) <= Len(tcpClients)
  BY <1>2, <1>3, FS_Surjection
<1>5. QED BY <1>4, FS_CardinalityType

\* At most MaxClients sessions run, whatever is stopped, started or admitted.
THEOREM SessionsWithinLimit == Spec => []SessionLimit
<1>1. ASSUME IInv PROVE SessionLimit
  <2>1. Len(tcpClients) \in Nat /\ Len(tcpClients) <= MaxClients /\ Pool = Serving
    BY <1>1, LenProperties DEF IInv, TypeOK, PoolInv, PoolExact
  <2>2. Cardinality(Serving) \in Nat /\ Cardinality(Serving) <= Len(tcpClients)
    BY <1>1, <2>1, PoolCardinality DEF IInv
  <2>3. QED BY <2>1, <2>2, ConfAssumption DEF SessionLimit
<1>2. QED BY <1>1, Invariance, PTL

\* When Stop has returned no running session has an open socket.
THEOREM StopIsComplete == Spec => []StopClosesSessions
<1>1. ASSUME IInv PROVE StopClosesSessions
  <2>1. SUFFICES ASSUME LockFree, ~started, NEW c \in open, conn[c] \in Served
                 PROVE  FALSE
    BY DEF StopClosesSessions
  <2>2. c \in Pool
    BY <1>1, <2>1 DEF IInv, TypeOK, PoolInv, PoolExact, Serving
  <2>3. PICK i \in DOMAIN tcpClients : tcpClients[i] = c
    BY <2>2 DEF Pool, Range
  <2>4. QED BY <1>1, <2>1, <2>3 DEF IInv, StopInv
<1>2. QED BY <1>1, Invariance, PTL

\* Every open socket is in the hands of a goroutine that closes it.
THEOREM NoSocketLeaks == Spec => []NoOrphanSocket
<1>1. ASSUME IInv PROVE NoOrphanSocket
  <2>1. SUFFICES ASSUME NEW c \in open, conn[c] \notin Served \cup {"close"}
                 PROVE  \E a \in Acceptors : sock[a] = c /\ pc[a] \in {"admit", "reject"}
    BY DEF NoOrphanSocket
  <2>2. c \in Clients /\ conn[c] \in {"accepted", "rejected"}
    BY <1>1, <2>1 DEF IInv, TypeOK, OpenInv
  <2>3. PICK a \in Acceptors : sock[a] = c
    BY <1>1, <2>2 DEF IInv, OpenInv
  <2>4. pc[a] \in Holding
    BY <1>1, <2>2, <2>3, ConfAssumption DEF IInv, AcceptorsHold
  <2>5. QED BY <2>3, <2>4 DEF Holding
<1>2. QED BY <1>1, Invariance, PTL

\* No session calls its handler twice for a closed socket.
THEOREM LateCallsBounded == Spec => []AtMostOneLateCall
<1>1. IInv => AtMostOneLateCall
  BY DEF IInv, LateInv, AtMostOneLateCall
<1>2. QED BY <1>1, Invariance, PTL

\* Only its own ReadRequest takes a session from reading to validating.
LEMMA OnlyReadRequestReads ==
  ASSUME IInv, [Next]_vars, NEW d \in Clients, conn[d] = "read", conn'[d] = "request"
  PROVE  ReadRequest(d)
<1> USE DEF IInv, TypeOK, AcceptorsHold, Holding, Becomes
<1>1. ASSUME StartListening PROVE ReadRequest(d)
  BY <1>1 DEF StartListening
<1>2. ASSUME StartFails PROVE ReadRequest(d)
  BY <1>2 DEF StartFails
<1>3. ASSUME StopBegin PROVE ReadRequest(d)
  BY <1>3 DEF StopBegin
<1>4. ASSUME StopCloseOne PROVE ReadRequest(d)
  BY <1>4 DEF StopCloseOne
<1>5. ASSUME StopReturns PROVE ReadRequest(d)
  BY <1>5 DEF StopReturns
<1>6. ASSUME NEW a \in Acceptors, LoadListener(a) PROVE ReadRequest(d)
  BY <1>6 DEF LoadListener
<1>7. ASSUME NEW a \in Acceptors, DereferenceNil(a) PROVE ReadRequest(d)
  BY <1>7 DEF DereferenceNil
<1>8. ASSUME NEW a \in Acceptors, NEW c \in Clients, AcceptConn(a, c) PROVE ReadRequest(d)
  BY <1>8 DEF AcceptConn
<1>9. ASSUME NEW a \in Acceptors, AcceptFails(a) PROVE ReadRequest(d)
  BY <1>9 DEF AcceptFails
<1>10. ASSUME NEW a \in Acceptors, AcceptClosed(a) PROVE ReadRequest(d)
  BY <1>10 DEF AcceptClosed
<1>11. ASSUME NEW a \in Acceptors, Admit(a) PROVE ReadRequest(d)
  BY <1>11 DEF Admit
<1>12. ASSUME NEW a \in Acceptors, Refuse(a) PROVE ReadRequest(d)
  BY <1>12 DEF Refuse
<1>13. ASSUME NEW a \in Acceptors, Discard(a) PROVE ReadRequest(d)
  BY <1>13 DEF Discard
<1>14. ASSUME NEW c \in Clients, Connect(c) PROVE ReadRequest(d)
  BY <1>14 DEF Connect
<1>15. ASSUME NEW c \in Clients, HandshakeDone(c) PROVE ReadRequest(d)
  BY <1>15 DEF HandshakeDone
<1>16. ASSUME NEW c \in Clients, HandshakeFails(c) PROVE ReadRequest(d)
  BY <1>16 DEF HandshakeFails
<1>17. ASSUME NEW c \in Clients, ReadRequest(c) PROVE ReadRequest(d)
  BY <1>17 DEF ReadRequest
<1>18. ASSUME NEW c \in Clients, ReadFails(c) PROVE ReadRequest(d)
  BY <1>18 DEF ReadFails
<1>19. ASSUME NEW c \in Clients, CallHandler(c) PROVE ReadRequest(d)
  BY <1>19 DEF CallHandler
<1>20. ASSUME NEW c \in Clients, AnswerException(c) PROVE ReadRequest(d)
  BY <1>20 DEF AnswerException
<1>21. ASSUME NEW c \in Clients, HandlerReturns(c) PROVE ReadRequest(d)
  BY <1>21 DEF HandlerReturns
<1>22. ASSUME NEW c \in Clients, ProtocolError(c) PROVE ReadRequest(d)
  BY <1>22 DEF ProtocolError
<1>23. ASSUME NEW c \in Clients, Remove(c) PROVE ReadRequest(d)
  BY <1>23 DEF Remove
<1>24. ASSUME NEW c \in Clients, CloseSocket(c) PROVE ReadRequest(d)
  BY <1>24 DEF CloseSocket
<1>25. CASE UNCHANGED vars
  BY <1>25 DEF vars
<1>26. QED
  BY <1>1, <1>2, <1>3, <1>4, <1>5, <1>6, <1>7, <1>8, <1>9, <1>10, <1>11, <1>12, <1>13, <1>14, <1>15, <1>16, <1>17, <1>18, <1>19, <1>20, <1>21, <1>22, <1>23, <1>24, <1>25 DEF Next, UserCall, StopGoesOn, AcceptorStep, Accept, SessionStep

\* A stopped server reads no request, whatever runs are left over from before.
THEOREM StoppedServerReadsNothing == Spec => StoppedReadsNothing
<1> DEFINE NoneRead == LockFree /\ ~started =>
                         ~ \E c \in Clients : conn[c] = "read" /\ conn'[c] = "request"
<1>1. ASSUME IInv, [Next]_vars PROVE [NoneRead]_vars
  <2>1. SUFFICES ASSUME LockFree, ~started,
                        NEW c \in Clients, conn[c] = "read", conn'[c] = "request"
                 PROVE  FALSE
    OBVIOUS
  <2>2. ReadRequest(c)
    BY <1>1, <2>1, OnlyReadRequestReads
  <2>3. c \in open
    BY <2>2 DEF ReadRequest
  <2>4. c \in Pool
    BY <1>1, <2>1 DEF IInv, PoolInv, PoolExact, Serving, Served
  <2>5. PICK i \in DOMAIN tcpClients : tcpClients[i] = c
    BY <2>4 DEF Pool, Range
  <2>6. QED BY <1>1, <2>1, <2>3, <2>5 DEF IInv, StopInv
<1>2. QED BY <1>1, Invariance, PTL DEF Spec, StoppedReadsNothing

\* What the other connections have left to do stays the same.
LEMMA SameLeft ==
  ASSUME NEW c \in Clients, conn'[c] = conn[c] PROVE SessionLeft(c)' = SessionLeft(c)
BY DEF SessionLeft

\* Nobody can be read from once Stop is over.
LEMMA QuietIsClosed ==
  ASSUME IInv, Quiet, NEW c \in Clients, conn[c] \in Served PROVE c \notin open
<1>1. c \in Pool
  BY DEF IInv, PoolInv, PoolExact, Serving
<1>2. PICK i \in DOMAIN tcpClients : tcpClients[i] = c
  BY <1>1 DEF Pool, Range
<1>3. QED BY <1>2 DEF IInv, StopInv, Quiet

\* A step of an acceptor, or of a session, of a stopped server.
LEMMA AcceptorWindsDown ==
  ASSUME IInv, Quiet, NEW a \in Acceptors, AcceptorStep(a), ~panicked'
  PROVE  /\ AcceptorLeft(a)' < AcceptorLeft(a)
         /\ \A b \in Acceptors \ {a} : pc'[b] = pc[b]
         /\ \A c \in Clients : SessionLeft(c)' = SessionLeft(c)
<1> DEFINE Moves(from, to) == /\ pc[a] = from /\ pc'[a] = to
                              /\ \A b \in Acceptors \ {a} : pc'[b] = pc[b]
<1>1. pc \in [Acceptors -> PcStates] /\ conn \in [Clients -> ConnStates]
  BY DEF IInv, TypeOK
<1>2. listening = {} /\ ~MayAdmit
  BY DEF IInv, ListenInv, Quiet, MayAdmit
<1>3. /\ Moves("load", "accept") => AcceptorLeft(a)' < AcceptorLeft(a)
      /\ Moves("accept", "returned") => AcceptorLeft(a)' < AcceptorLeft(a)
      /\ Moves("admit", "reject") => AcceptorLeft(a)' < AcceptorLeft(a)
      /\ Moves("reject", "load") => AcceptorLeft(a)' < AcceptorLeft(a)
  BY DEF AcceptorLeft
<1>4. CASE LoadListener(a)
  <2>1. Moves("load", "accept") /\ UNCHANGED conn
    BY <1>1, <1>4 DEF LoadListener
  <2>2. QED BY <1>3, <2>1, SameLeft
<1>5. CASE AcceptClosed(a)
  <2>1. Moves("accept", "returned") /\ UNCHANGED conn
    BY <1>1, <1>5 DEF AcceptClosed
  <2>2. QED BY <1>3, <2>1, SameLeft
<1>6. CASE Refuse(a)
  <2>1. /\ Moves("admit", "reject")
        /\ conn' = [conn EXCEPT ![sock[a]] = "rejected"] /\ conn[sock[a]] = "accepted"
    BY <1>1, <1>6 DEF Refuse, IInv, AcceptorsHold
  <2>2. \A c \in Clients : SessionLeft(c)' = SessionLeft(c)
    BY <1>1, <2>1 DEF SessionLeft
  <2>3. QED BY <1>3, <2>1, <2>2
<1>7. CASE Discard(a)
  <2>1. /\ Moves("reject", "load")
        /\ conn' = [conn EXCEPT ![sock[a]] = "gone"] /\ conn[sock[a]] = "rejected"
    BY <1>1, <1>7 DEF Discard, IInv, AcceptorsHold
  <2>2. \A c \in Clients : SessionLeft(c)' = SessionLeft(c)
    BY <1>1, <2>1 DEF SessionLeft
  <2>3. QED BY <1>3, <2>1, <2>2
<1>8. ~ (DereferenceNil(a) \/ Accept(a) \/ AcceptFails(a) \/ Admit(a))
  BY <1>2 DEF DereferenceNil, Accept, AcceptConn, AcceptFails, Admit
<1>9. QED BY <1>4, <1>5, <1>6, <1>7, <1>8 DEF AcceptorStep

\* A session's step, while the server is stopped, leaves it less to do and touches no other.
LEMMA SessionWindsDown ==
  ASSUME IInv, Quiet, NEW c \in Clients, SessionStep(c)
  PROVE  /\ SessionLeft(c)' < SessionLeft(c)
         /\ \A d \in Clients \ {c} : conn'[d] = conn[d]
         /\ UNCHANGED pc
<1>1. conn \in [Clients -> ConnStates]
  BY DEF IInv, TypeOK
<1>2. conn[c] \in Served => c \notin open
  BY QuietIsClosed
<1>3. ~ (HandshakeDone(c) \/ ReadRequest(c))
  BY <1>2 DEF HandshakeDone, ReadRequest, Becomes, Served
<1>4. UNCHANGED pc
  BY DEF SessionStep, HandshakeDone, HandshakeFails, ReadRequest, ReadFails,
     CallHandler, AnswerException, HandlerReturns, ProtocolError, Remove, CloseSocket,
     acceptorVars
<1>5. \/ Becomes(c, "handshake", "leave") \/ Becomes(c, "read", "leave")
      \/ Becomes(c, "request", "handle") \/ Becomes(c, "request", "read")
      \/ Becomes(c, "handle", "read") \/ Becomes(c, "request", "leave")
      \/ Becomes(c, "handle", "leave") \/ Becomes(c, "leave", "close")
      \/ Becomes(c, "close", "gone")
  BY <1>3 DEF SessionStep, HandshakeFails, ReadFails, CallHandler, AnswerException,
     HandlerReturns, ProtocolError, Remove, CloseSocket
<1>6. \A d \in Clients \ {c} : conn'[d] = conn[d]
  BY <1>1, <1>5 DEF Becomes
<1>7. SessionLeft(c)' < SessionLeft(c)
  BY <1>1, <1>5 DEF Becomes, SessionLeft
<1>8. QED BY <1>4, <1>6, <1>7

\* A stopped server winds down: whatever step it takes, one of its goroutines has less
\* left to do and no other one has more (server.go:288-296, 389).
THEOREM StoppedServerWindsDown == Spec => StopWindsDown
<1> DEFINE Moves ==
      Quiet /\ ~started' /\ ~panicked' =>
        \/ UNCHANGED <<pc, conn>>
        \/ \E a \in Acceptors :
             /\ AcceptorLeft(a)' < AcceptorLeft(a)
             /\ \A b \in Acceptors \ {a} : pc'[b] = pc[b]
             /\ \A c \in Clients : SessionLeft(c)' = SessionLeft(c)
        \/ \E c \in Clients :
             /\ SessionLeft(c)' < SessionLeft(c)
             /\ \A d \in Clients \ {c} : conn'[d] = conn[d]
             /\ UNCHANGED pc
<1>1. ASSUME IInv, [Next]_vars PROVE [Moves]_vars
  <2>1. SUFFICES ASSUME Next, Quiet, ~started', ~panicked' PROVE Moves
    BY <1>1
  <2>2. ASSUME NEW a \in Acceptors, AcceptorStep(a) PROVE Moves
    BY <1>1, <2>1, <2>2, AcceptorWindsDown
  <2>3. ASSUME NEW c \in Clients, SessionStep(c) PROVE Moves
    BY <1>1, <2>1, <2>3, SessionWindsDown
  <2>4. ASSUME NEW c \in Clients PROVE ~ Connect(c)
    BY <1>1, <2>1 DEF Connect, IInv, ListenInv, Quiet
  <2>5. CASE UserCall
    BY <2>1, <2>5 DEF UserCall, StartListening, StartFails, StopBegin, Quiet, acceptorVars
  <2>6. ~ StopGoesOn
    BY <2>1 DEF StopGoesOn, StopCloseOne, StopReturns, Quiet
  <2>7. QED BY <2>1, <2>2, <2>3, <2>4, <2>5, <2>6 DEF Next
<1>2. QED BY <1>1, Invariance, PTL DEF Spec, StopWindsDown

\* And once nobody has anything left to do, the server is drained: its goroutines have
\* ended, the pool is empty and every socket is closed (server.go:258).
THEOREM NothingLeftIsDrained ==
  Spec => [](/\ Quiet
             /\ \A a \in Acceptors : AcceptorLeft(a) = 0
             /\ \A c \in Clients : SessionLeft(c) = 0
             => Drained)
<1>1. ASSUME IInv, Quiet, \A a \in Acceptors : AcceptorLeft(a) = 0,
             \A c \in Clients : SessionLeft(c) = 0
      PROVE  Drained
  <2>1. TypeOK /\ OpenInv /\ AcceptorsHold /\ PoolInv
    BY <1>1 DEF IInv
  <2>2. \A a \in Acceptors : pc[a] \in {"idle", "returned"}
    <3>1. ASSUME NEW a \in Acceptors PROVE pc[a] \in {"idle", "returned"}
      <4>1. pc[a] \in PcStates /\ AcceptorLeft(a) = 0
        BY <1>1, <2>1 DEF TypeOK
      <4>2. QED BY <4>1 DEF PcStates, AcceptorLeft
    <3>2. QED BY <3>1
  <2>3. \A c \in Clients : conn[c] \notin Served \cup {"close"}
    <3>1. ASSUME NEW c \in Clients, conn[c] \in Served \cup {"close"} PROVE FALSE
      <4>1. SessionLeft(c) = 0
        BY <1>1
      <4>2. SessionLeft(c) # 0
        BY <3>1 DEF Served, SessionLeft
      <4>3. QED BY <4>1, <4>2
    <3>2. QED BY <3>1
  <2>4. \A c \in Clients : conn[c] \notin {"accepted", "rejected"}
    <3>1. ASSUME NEW c \in Clients, conn[c] \in {"accepted", "rejected"} PROVE FALSE
      <4>1. PICK a \in Acceptors : sock[a] = c
        BY <2>1, <3>1 DEF OpenInv
      <4>2. pc[a] \in Holding
        BY <2>1, <4>1, ConfAssumption DEF AcceptorsHold
      <4>3. QED BY <2>2, <4>2 DEF Holding
    <3>2. QED BY <3>1
  <2>5. open = {}
    BY <2>1, <2>3, <2>4 DEF OpenInv, TypeOK
  <2>6. Pool = {}
    BY <2>1, <2>3 DEF PoolInv, PoolExact, Serving
  <2>7. tcpClients = << >>
    <3>1. tcpClients \in Seq(Clients) /\ DOMAIN tcpClients = 1..Len(tcpClients)
          /\ Len(tcpClients) \in Nat
      BY <2>1, LenProperties DEF TypeOK
    <3>2. ASSUME Len(tcpClients) > 0 PROVE FALSE
      <4>1. 1 \in DOMAIN tcpClients
        BY <3>1, <3>2
      <4>2. QED BY <2>6, <4>1 DEF Pool, Range
    <3>3. QED BY <3>1, <3>2, EmptySeq
  <2>8. QED BY <2>2, <2>5, <2>7 DEF Drained
<1>2. QED BY <1>1, Invariance, PTL

\* Every step of the code is a step of the service it promises, or none.
LEMMA StepOfService ==
  ASSUME IInv, [Next]_vars
  PROVE  [Service!SNext]_(Service!svars)
<1>1. ASSUME StartListening PROVE [Service!SNext]_(Service!svars)
  <2>1. /\ LockFree /\ ~started /\ started' = TRUE
        /\ UNCHANGED <<closing, tcpClients, open>>
    BY <1>1 DEF StartListening
  <2>2. Service!Open
    BY <2>1 DEF Service!Open, Pool
  <2>3. QED BY <2>2 DEF Service!SNext
<1>2. ASSUME StartFails PROVE [Service!SNext]_(Service!svars)
  <2>1. UNCHANGED <<started, closing, tcpClients>> /\ (open \cap Pool)' = open \cap Pool
    BY <1>2 DEF StartFails, userVars, acceptorVars, Pool
  <2>2. QED
    BY <2>1 DEF Service!svars, LockFree, Pool
<1>3. ASSUME StopBegin PROVE [Service!SNext]_(Service!svars)
  <2>1. started /\ ~LockFree' /\ UNCHANGED <<tcpClients, open>>
    BY <1>3 DEF StopBegin, LockFree
  <2>2. QED
    BY <2>1 DEF Service!svars, Pool
<1>4. ASSUME StopCloseOne PROVE [Service!SNext]_(Service!svars)
  <2>1. /\ ~LockFree /\ ~LockFree'
        /\ UNCHANGED <<started, tcpClients>>
        /\ open' = open \ {tcpClients[closing]}
    BY <1>4 DEF StopCloseOne, LockFree, userVars, IInv, TypeOK
  <2>2. tcpClients[closing] \in Clients
    BY <1>4, LenProperties, ElementOfSeq DEF StopCloseOne, LockFree, IInv, TypeOK
  <2>3. CASE tcpClients[closing] \in open \cap Pool
    <3>1. Service!Disconnect(tcpClients[closing])
      BY <2>1, <2>3 DEF Service!Disconnect, Pool
    <3>2. QED BY <2>2, <3>1 DEF Service!SNext
  <2>4. CASE tcpClients[closing] \notin open \cap Pool
    BY <2>1, <2>4 DEF Service!svars, Pool
  <2>5. QED BY <2>3, <2>4
<1>5. ASSUME StopReturns PROVE [Service!SNext]_(Service!svars)
  <2>1. /\ ~LockFree /\ ~started /\ LockFree' /\ closing > Len(tcpClients)
        /\ UNCHANGED <<started, tcpClients, open>>
    BY <1>5 DEF StopReturns, LockFree, userVars, IInv, StopInv
  <2>2. \A i \in DOMAIN tcpClients : i < closing
    BY <2>1, LenProperties DEF IInv, TypeOK
  <2>3. open \cap Pool = {}
    BY <2>1, <2>2 DEF IInv, StopInv, Pool, Range
  <2>4. Service!Shut
    BY <2>1, <2>3 DEF Service!Shut, Pool
  <2>5. QED BY <2>4 DEF Service!SNext
<1>6. ASSUME NEW a \in Acceptors, LoadListener(a) PROVE [Service!SNext]_(Service!svars)
  <2>1. UNCHANGED <<started, closing, tcpClients>> /\ (open \cap Pool)' = open \cap Pool
    BY <1>6 DEF LoadListener, userVars, acceptorVars, Pool
  <2>2. QED
    BY <2>1 DEF Service!svars, LockFree, Pool
<1>7. ASSUME NEW a \in Acceptors, DereferenceNil(a) PROVE [Service!SNext]_(Service!svars)
  <2>1. UNCHANGED <<started, closing, tcpClients>> /\ (open \cap Pool)' = open \cap Pool
    BY <1>7 DEF DereferenceNil, userVars, acceptorVars, Pool
  <2>2. QED
    BY <2>1 DEF Service!svars, LockFree, Pool
<1>8. ASSUME NEW a \in Acceptors, NEW c \in Clients, AcceptConn(a, c) PROVE [Service!SNext]_(Service!svars)
  <2>1. UNCHANGED <<started, closing, tcpClients>> /\ open' = open \cup {c} /\ c \notin Pool
    BY <1>8 DEF AcceptConn, userVars, IInv, PoolInv, PoolExact, Serving, Served
  <2>2. QED
    BY <2>1 DEF Service!svars, LockFree, Pool
<1>9. ASSUME NEW a \in Acceptors, AcceptFails(a) PROVE [Service!SNext]_(Service!svars)
  <2>1. UNCHANGED <<started, closing, tcpClients>> /\ (open \cap Pool)' = open \cap Pool
    BY <1>9 DEF AcceptFails, userVars, acceptorVars, Pool
  <2>2. QED
    BY <2>1 DEF Service!svars, LockFree, Pool
<1>10. ASSUME NEW a \in Acceptors, AcceptClosed(a) PROVE [Service!SNext]_(Service!svars)
  <2>1. UNCHANGED <<started, closing, tcpClients>> /\ (open \cap Pool)' = open \cap Pool
    BY <1>10 DEF AcceptClosed, userVars, acceptorVars, Pool
  <2>2. QED
    BY <2>1 DEF Service!svars, LockFree, Pool
<1>11. ASSUME NEW a \in Acceptors, Admit(a) PROVE [Service!SNext]_(Service!svars)
  <2>1. /\ sock[a] \in Clients /\ conn[sock[a]] = "accepted" /\ sock[a] \in open
        /\ started /\ Len(tcpClients) < MaxClients
        /\ tcpClients' = Append(tcpClients, sock[a])
        /\ UNCHANGED <<started, closing, open>>
    BY <1>11, ConfAssumption
       DEF Admit, MayAdmit, IInv, TypeOK, AcceptorsHold, Holding, OpenInv, userVars
  <2>2. sock[a] \notin Pool
    BY <2>1 DEF IInv, PoolInv, PoolExact, Serving, Served
  <2>3. Pool' = Pool \cup {sock[a]}
    BY <2>1, <2>2, AppendElements DEF IInv, TypeOK, PoolInv, PoolExact, Pool
  <2>4. Cardinality(Pool) < MaxClients
    <3>1. Cardinality(Pool) \in Nat /\ Cardinality(Pool) <= Len(tcpClients)
      BY PoolCardinality DEF IInv
    <3>2. Len(tcpClients) \in Nat
      BY LenProperties DEF IInv, TypeOK
    <3>3. QED BY <2>1, <3>1, <3>2, ConfAssumption
  <2>5. (open \cap Pool)' = (open \cap Pool) \cup {sock[a]}
    BY <2>1, <2>3
  <2>6. (started \/ ~LockFree) /\ (started \/ ~LockFree)' = (started \/ ~LockFree)
    BY <2>1 DEF LockFree
  <2>7. Service!Enter(sock[a])
    BY <2>2, <2>3, <2>4, <2>5, <2>6 DEF Service!Enter, Service!Cardinality, Cardinality
  <2>8. QED BY <2>1, <2>7 DEF Service!SNext
<1>12. ASSUME NEW a \in Acceptors, Refuse(a) PROVE [Service!SNext]_(Service!svars)
  <2>1. UNCHANGED <<started, closing, tcpClients>> /\ (open \cap Pool)' = open \cap Pool
    BY <1>12 DEF Refuse, userVars, acceptorVars, Pool
  <2>2. QED
    BY <2>1 DEF Service!svars, LockFree, Pool
<1>13. ASSUME NEW a \in Acceptors, Discard(a) PROVE [Service!SNext]_(Service!svars)
  <2>1. UNCHANGED <<started, closing, tcpClients>> /\ open' = open \ {sock[a]}
    BY <1>13 DEF Discard, userVars
  <2>2. sock[a] \notin Pool
    BY <1>13 DEF Discard, IInv, AcceptorsHold, PoolInv, PoolExact, Serving, Served
  <2>3. QED
    BY <2>1, <2>2 DEF Service!svars, LockFree, Pool
<1>14. ASSUME NEW c \in Clients, Connect(c) PROVE [Service!SNext]_(Service!svars)
  <2>1. UNCHANGED <<started, closing, tcpClients>> /\ (open \cap Pool)' = open \cap Pool
    BY <1>14 DEF Connect, userVars, acceptorVars, Pool
  <2>2. QED
    BY <2>1 DEF Service!svars, LockFree, Pool
<1>15. ASSUME NEW c \in Clients, HandshakeDone(c) PROVE [Service!SNext]_(Service!svars)
  <2>1. UNCHANGED <<started, closing, tcpClients>> /\ (open \cap Pool)' = open \cap Pool
    BY <1>15 DEF HandshakeDone, userVars, acceptorVars, Pool
  <2>2. QED
    BY <2>1 DEF Service!svars, LockFree, Pool
<1>16. ASSUME NEW c \in Clients, HandshakeFails(c) PROVE [Service!SNext]_(Service!svars)
  <2>1. UNCHANGED <<started, closing, tcpClients>> /\ (open \cap Pool)' = open \cap Pool
    BY <1>16 DEF HandshakeFails, userVars, acceptorVars, Pool
  <2>2. QED
    BY <2>1 DEF Service!svars, LockFree, Pool
<1>17. ASSUME NEW c \in Clients, ReadRequest(c) PROVE [Service!SNext]_(Service!svars)
  <2>1. UNCHANGED <<started, closing, tcpClients>> /\ (open \cap Pool)' = open \cap Pool
    BY <1>17 DEF ReadRequest, userVars, acceptorVars, Pool
  <2>2. QED
    BY <2>1 DEF Service!svars, LockFree, Pool
<1>18. ASSUME NEW c \in Clients, ReadFails(c) PROVE [Service!SNext]_(Service!svars)
  <2>1. UNCHANGED <<started, closing, tcpClients>> /\ (open \cap Pool)' = open \cap Pool
    BY <1>18 DEF ReadFails, userVars, acceptorVars, Pool
  <2>2. QED
    BY <2>1 DEF Service!svars, LockFree, Pool
<1>19. ASSUME NEW c \in Clients, CallHandler(c) PROVE [Service!SNext]_(Service!svars)
  <2>1. UNCHANGED <<started, closing, tcpClients>> /\ (open \cap Pool)' = open \cap Pool
    BY <1>19 DEF CallHandler, userVars, acceptorVars, Pool
  <2>2. QED
    BY <2>1 DEF Service!svars, LockFree, Pool
<1>20. ASSUME NEW c \in Clients, AnswerException(c) PROVE [Service!SNext]_(Service!svars)
  <2>1. UNCHANGED <<started, closing, tcpClients>> /\ (open \cap Pool)' = open \cap Pool
    BY <1>20 DEF AnswerException, userVars, acceptorVars, Pool
  <2>2. QED
    BY <2>1 DEF Service!svars, LockFree, Pool
<1>21. ASSUME NEW c \in Clients, HandlerReturns(c) PROVE [Service!SNext]_(Service!svars)
  <2>1. UNCHANGED <<started, closing, tcpClients>> /\ (open \cap Pool)' = open \cap Pool
    BY <1>21 DEF HandlerReturns, userVars, acceptorVars, Pool
  <2>2. QED
    BY <2>1 DEF Service!svars, LockFree, Pool
<1>22. ASSUME NEW c \in Clients, ProtocolError(c) PROVE [Service!SNext]_(Service!svars)
  <2>1. UNCHANGED <<started, closing, tcpClients>> /\ open' = open \ {c}
    BY <1>22 DEF ProtocolError, userVars
  <2>2. CASE c \in open \cap Pool
    <3>1. Service!Disconnect(c)
      BY <2>1, <2>2 DEF Service!Disconnect, LockFree, Pool
    <3>2. QED BY <3>1 DEF Service!SNext
  <2>3. CASE c \notin open \cap Pool
    BY <2>1, <2>3 DEF Service!svars, LockFree, Pool
  <2>4. QED BY <2>2, <2>3
<1>23. ASSUME NEW c \in Clients, Remove(c) PROVE [Service!SNext]_(Service!svars)
  <2>1. UNCHANGED <<started, closing, open>> /\ c \in Pool
    BY <1>23 DEF Remove, Becomes, userVars, IInv, PoolInv, PoolExact, Serving, Served
  <2>2. Pool' = Pool \ {c}
    BY <1>23, PoolAfterRemove DEF IInv, PoolInv
  <2>3. Service!Depart(c)
    BY <2>1, <2>2 DEF Service!Depart, LockFree
  <2>4. QED BY <2>3 DEF Service!SNext
<1>24. ASSUME NEW c \in Clients, CloseSocket(c) PROVE [Service!SNext]_(Service!svars)
  <2>1. UNCHANGED <<started, closing, tcpClients>> /\ open' = open \ {c} /\ c \notin Pool
    BY <1>24 DEF CloseSocket, Becomes, userVars, IInv, PoolInv, PoolExact, Serving, Served
  <2>2. QED
    BY <2>1 DEF Service!svars, LockFree, Pool
<1>25. CASE UNCHANGED vars
  BY <1>25 DEF vars, userVars, Service!svars, LockFree, Pool
<1>26. QED
  BY <1>1, <1>2, <1>3, <1>4, <1>5, <1>6, <1>7, <1>8, <1>9, <1>10, <1>11, <1>12, <1>13, <1>14, <1>15, <1>16, <1>17, <1>18, <1>19, <1>20, <1>21, <1>22, <1>23, <1>24, <1>25 DEF Next, UserCall, StopGoesOn, AcceptorStep, Accept, SessionStep

\* ModbusServer implements ServerService.
THEOREM ServiceKept == Spec => ServesAsPromised
<1>1. Init => Service!SInit
  <2>1. SUFFICES ASSUME Init PROVE Service!SInit
    OBVIOUS
  <2>2. Pool = {} /\ open = {} /\ ~started /\ LockFree
    BY <2>1 DEF Init, Pool, Range, LockFree
  <2>3. QED BY <2>2 DEF Service!SInit
<1>2. IInv /\ [Next]_vars => [Service!SNext]_(Service!svars)
  BY StepOfService
<1>3. QED
  BY <1>1, <1>2, Invariance, PTL DEF Spec, ServesAsPromised, Service!SSpec

=============================================================================
