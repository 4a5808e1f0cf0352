---------------------------- MODULE ModbusServer ----------------------------
(***************************************************************************)
(* The connection life cycle of ModbusServer (src/internal/modbus/         *)
(* server.go): the user's Start and Stop, the acceptor goroutine each      *)
(* successful Start leaves behind, one session goroutine per admitted      *)
(* connection, and the connections themselves.                             *)
(*                                                                         *)
(* ms.lock guards started and tcpClients.  The critical sections of Start, *)
(* of the admission and of the removal touch nothing an unlocked goroutine *)
(* reads before they end, so each is one step.  Stop closes the pooled     *)
(* sockets one by one while sessions go on, so it is a sequence of steps   *)
(* that holds the lock.  tcpListener is read by the acceptor without the   *)
(* lock (server.go:291), which is a step of its own.                       *)
(***************************************************************************)
EXTENDS Naturals, Sequences, FiniteSets, Functions

CONSTANTS Clients,     \* the connections clients may open, each once
          MaxClients,  \* ms.conf.MaxClients
          MaxStarts,   \* bound: how many calls of Start get a listener
          TLS,         \* TRUE for "tcp+tls" URLs, FALSE for "tcp"
          None         \* an acceptor that holds no socket

\* NewServer replaces MaxClients = 0 by 10 (server.go:188-190).
ASSUME ConfAssumption == /\ MaxClients \in Nat \ {0}
                         /\ MaxStarts \in Nat \ {0}
                         /\ TLS \in BOOLEAN
                         /\ None \notin Clients

\* The a-th listener is served by the a-th acceptor; 0 is a nil listener.
Acceptors == 1..MaxStarts
Nil == 0

VARIABLES
  closing,      \* 0: ms.lock is free; i > 0: Stop holds it and closes client i next
  started,      \* ms.started
  tcpListener,  \* ms.tcpListener
  starts,       \* how many listeners have been created
  listening,    \* the listeners the kernel still has open
  pc,           \* where each acceptor goroutine is
  on,           \* the listener each acceptor has loaded
  sock,         \* the socket each acceptor holds between Accept and its next loop
  tcpClients,   \* ms.tcpClients, the pool
  conn,         \* how far each connection has got
  via,          \* the listener each connection was made to
  open,         \* the accepted sockets the server has not closed
  late,         \* how often the handler was called for a closed socket
  panicked      \* the process died of a nil dereference

userVars == <<started, tcpListener, starts, listening>>
acceptorVars == <<pc, on, sock>>
vars == <<closing, userVars, acceptorVars, tcpClients, conn, via, open, late, panicked>>

PcStates == {"idle", "load", "accept", "admit", "reject", "returned"}

\* The stages of a connection whose session goroutine has not yet left the pool.
Served == {"handshake", "read", "request", "handle", "leave"}
ConnStates == Served \cup {"new", "backlog", "accepted", "rejected", "close", "gone"}

LockFree == closing = 0
Pool == Range(tcpClients)
Serving == {c \in Clients : conn[c] \in Served}

TypeOK == /\ closing \in Nat
          /\ started \in BOOLEAN
          /\ tcpListener \in Acceptors \cup {Nil}
          /\ starts \in 0..MaxStarts
          /\ listening \subseteq Acceptors
          /\ pc \in [Acceptors -> PcStates]
          /\ on \in [Acceptors -> Acceptors \cup {Nil}]
          /\ sock \in [Acceptors -> Clients \cup {None}]
          /\ tcpClients \in Seq(Clients)
          /\ conn \in [Clients -> ConnStates]
          /\ via \in [Clients -> Acceptors \cup {Nil}]
          /\ open \subseteq Clients
          /\ late \in [Clients -> Nat]
          /\ panicked \in BOOLEAN

Init == /\ closing = 0
        /\ started = FALSE
        /\ tcpListener = Nil
        /\ starts = 0
        /\ listening = {}
        /\ pc = [a \in Acceptors |-> "idle"]
        /\ on = [a \in Acceptors |-> Nil]
        /\ sock = [a \in Acceptors |-> None]
        /\ tcpClients = << >>
        /\ conn = [c \in Clients |-> "new"]
        /\ via = [c \in Clients |-> Nil]
        /\ open = {}
        /\ late = [c \in Clients |-> 0]
        /\ panicked = FALSE

-----------------------------------------------------------------------------
\* Nothing happens after a panic; this step brings none about.
Survives == ~panicked /\ panicked' = FALSE

\* Connection c moves from one stage to another.
Becomes(c, from, to) == /\ conn[c] = from
                        /\ conn' = [conn EXCEPT ![c] = to]

(***************************************************************************)
(* Mutants: slips in the code below, each of which makes one property fail *)
(* when it replaces the definition named before its underscore.            *)
(***************************************************************************)
\* The loop over the pool stops one client short.
StopReturns_Short ==
  /\ ~LockFree
  /\ closing >= Len(tcpClients)
  /\ closing' = 0
  /\ Survives
  /\ UNCHANGED <<userVars, acceptorVars, tcpClients, conn, via, open, late>>

\* The acceptor goes on after net.ErrClosed instead of returning.
AcceptClosed_Continues(a) ==
  /\ pc[a] = "accept"
  /\ on[a] \notin listening
  /\ pc' = [pc EXCEPT ![a] = "load"]
  /\ Survives
  /\ UNCHANGED <<closing, userVars, on, sock, tcpClients, conn, via, open, late>>

\* The acceptor returns on any error of Accept.
AcceptFails_Returns(a) ==
  /\ pc[a] = "accept"
  /\ on[a] \in listening
  /\ pc' = [pc EXCEPT ![a] = "returned"]
  /\ Survives
  /\ UNCHANGED <<closing, userVars, on, sock, tcpClients, conn, via, open, late>>

\* The limit lets one client too many in.
MayAdmit_OffByOne == started /\ Len(tcpClients) <= MaxClients

\* A connection accepted before Stop is admitted after it.
MayAdmit_IgnoresStop == Len(tcpClients) < MaxClients

\* A refused socket is dropped without being closed.
Discard_LeaksSocket(a) ==
  /\ pc[a] = "reject"
  /\ conn' = [conn EXCEPT ![sock[a]] = "gone"]
  /\ sock' = [sock EXCEPT ![a] = None]
  /\ pc' = [pc EXCEPT ![a] = "load"]
  /\ Survives
  /\ UNCHANGED <<closing, userVars, on, tcpClients, via, open, late>>

\* The error of SetDeadline is ignored: a closed socket's buffer is read on.
ReadRequest_IgnoresDeadline(c) ==
  /\ Becomes(c, "read", "request")
  /\ Survives
  /\ UNCHANGED <<closing, userVars, acceptorVars, tcpClients, via, open, late>>

\* The removal cuts the last socket off without moving it first.
RemoveAt_NoSwap(s, i) == SubSeq(s, 1, Len(s) - 1)

\* The session leaves the pool without the lock, also while Stop walks over it.
Remove_Unlocked(c) ==
  /\ Becomes(c, "leave", "close")
  /\ \E i \in DOMAIN tcpClients :
       /\ tcpClients[i] = c
       /\ tcpClients' = SubSeq([tcpClients EXCEPT ![i] = tcpClients[Len(tcpClients)]],
                               1, Len(tcpClients) - 1)
  /\ Survives
  /\ UNCHANGED <<closing, userVars, acceptorVars, via, open, late>>

-----------------------------------------------------------------------------
(* The user's calls.                                                       *)

\* Start gets a listener and leaves an acceptor goroutine behind.
StartListening ==
  /\ LockFree /\ ~started
  /\ starts < MaxStarts
  /\ starts' = starts + 1
  /\ tcpListener' = starts'
  /\ listening' = listening \cup {starts'}
  /\ pc' = [pc EXCEPT ![starts'] = "load"]
  /\ started' = TRUE
  /\ Survives
  /\ UNCHANGED <<closing, on, sock, tcpClients, conn, via, open, late>>

\* net.Listen fails: its nil listener is what ms.tcpListener now holds.
StartFails ==
  /\ LockFree /\ ~started
  /\ tcpListener' = Nil
  /\ Survives
  /\ UNCHANGED <<closing, started, starts, listening, acceptorVars, tcpClients, conn, via,
                 open, late>>

\* Stop takes the lock and closes the listener; the kernel resets its backlog.
StopBegin ==
  /\ LockFree /\ started
  /\ closing' = 1
  /\ started' = FALSE
  /\ listening' = listening \ {tcpListener}
  /\ conn' = [c \in Clients |-> IF conn[c] = "backlog" /\ via[c] = tcpListener
                                THEN "gone" ELSE conn[c]]
  /\ Survives
  /\ UNCHANGED <<tcpListener, starts, acceptorVars, tcpClients, via, open, late>>

StopCloseOne ==
  /\ ~LockFree
  /\ closing <= Len(tcpClients)
  /\ open' = open \ {tcpClients[closing]}
  /\ closing' = closing + 1
  /\ Survives
  /\ UNCHANGED <<userVars, acceptorVars, tcpClients, conn, via, late>>

StopReturns ==
  /\ ~LockFree
  /\ closing > Len(tcpClients)
  /\ closing' = 0
  /\ Survives
  /\ UNCHANGED <<userVars, acceptorVars, tcpClients, conn, via, open, late>>

\* A client dials the server: the kernel queues the connection.
Connect(c) ==
  /\ conn[c] = "new"
  /\ \E l \in listening : via' = [via EXCEPT ![c] = l]
  /\ conn' = [conn EXCEPT ![c] = "backlog"]
  /\ Survives
  /\ UNCHANGED <<closing, userVars, acceptorVars, tcpClients, open, late>>

-----------------------------------------------------------------------------
(* The acceptor goroutine (acceptTCPClients).                              *)

\* ms.tcpListener is read again on every turn of the loop, without ms.lock.
LoadListener(a) ==
  /\ pc[a] = "load"
  /\ tcpListener # Nil
  /\ on' = [on EXCEPT ![a] = tcpListener]
  /\ pc' = [pc EXCEPT ![a] = "accept"]
  /\ Survives
  /\ UNCHANGED <<closing, userVars, sock, tcpClients, conn, via, open, late>>

\* Accept on the nil listener of a failed Start.
DereferenceNil(a) ==
  /\ pc[a] = "load"
  /\ tcpListener = Nil
  /\ ~panicked
  /\ panicked' = TRUE
  /\ UNCHANGED <<closing, userVars, acceptorVars, tcpClients, conn, via, open, late>>

AcceptConn(a, c) ==
  /\ pc[a] = "accept"
  /\ on[a] \in listening
  /\ conn[c] = "backlog" /\ via[c] = on[a]
  /\ sock' = [sock EXCEPT ![a] = c]
  /\ pc' = [pc EXCEPT ![a] = "admit"]
  /\ conn' = [conn EXCEPT ![c] = "accepted"]
  /\ open' = open \cup {c}
  /\ Survives
  /\ UNCHANGED <<closing, userVars, on, tcpClients, via, late>>

\* Accept fails for a passing reason (server.go:298-299).
AcceptFails(a) ==
  /\ pc[a] = "accept"
  /\ on[a] \in listening
  /\ pc' = [pc EXCEPT ![a] = "load"]
  /\ Survives
  /\ UNCHANGED <<closing, userVars, on, sock, tcpClients, conn, via, open, late>>

\* Accept fails with net.ErrClosed: the goroutine ends.
AcceptClosed(a) ==
  /\ pc[a] = "accept"
  /\ on[a] \notin listening
  /\ pc' = [pc EXCEPT ![a] = "returned"]
  /\ Survives
  /\ UNCHANGED <<closing, userVars, on, sock, tcpClients, conn, via, open, late>>

MayAdmit == started /\ Len(tcpClients) < MaxClients

\* The socket joins the pool and gets a session goroutine.
Admit(a) ==
  /\ pc[a] = "admit"
  /\ LockFree
  /\ MayAdmit
  /\ tcpClients' = Append(tcpClients, sock[a])
  /\ conn' = [conn EXCEPT ![sock[a]] = IF TLS THEN "handshake" ELSE "read"]
  /\ sock' = [sock EXCEPT ![a] = None]
  /\ pc' = [pc EXCEPT ![a] = "load"]
  /\ Survives
  /\ UNCHANGED <<closing, userVars, on, via, open, late>>

Refuse(a) ==
  /\ pc[a] = "admit"
  /\ LockFree
  /\ ~MayAdmit
  /\ conn' = [conn EXCEPT ![sock[a]] = "rejected"]
  /\ pc' = [pc EXCEPT ![a] = "reject"]
  /\ Survives
  /\ UNCHANGED <<closing, userVars, on, sock, tcpClients, via, open, late>>

\* The refused socket is closed after the lock is released.
Discard(a) ==
  /\ pc[a] = "reject"
  /\ open' = open \ {sock[a]}
  /\ conn' = [conn EXCEPT ![sock[a]] = "gone"]
  /\ sock' = [sock EXCEPT ![a] = None]
  /\ pc' = [pc EXCEPT ![a] = "load"]
  /\ Survives
  /\ UNCHANGED <<closing, userVars, on, tcpClients, via, late>>

-----------------------------------------------------------------------------
(* The session goroutine of connection c (handleTCPClient).                *)

\* startTLS succeeds; the handshake needs an open socket.
HandshakeDone(c) ==
  /\ Becomes(c, "handshake", "read")
  /\ c \in open
  /\ Survives
  /\ UNCHANGED <<closing, userVars, acceptorVars, tcpClients, via, open, late>>

\* startTLS fails: bad certificate, 30 s deadline, closed socket.
HandshakeFails(c) ==
  /\ Becomes(c, "handshake", "leave")
  /\ Survives
  /\ UNCHANGED <<closing, userVars, acceptorVars, tcpClients, via, open, late>>

\* ReadRequest returns a request.  SetDeadline fails on a closed socket.
ReadRequest(c) ==
  /\ Becomes(c, "read", "request")
  /\ c \in open
  /\ Survives
  /\ UNCHANGED <<closing, userVars, acceptorVars, tcpClients, via, open, late>>

\* ReadRequest fails: idle timeout, end of file, bad frame, closed socket.
ReadFails(c) ==
  /\ Becomes(c, "read", "leave")
  /\ Survives
  /\ UNCHANGED <<closing, userVars, acceptorVars, tcpClients, via, open, late>>

\* The request passes validation and its handler is called, open socket or not.
CallHandler(c) ==
  /\ Becomes(c, "request", "handle")
  /\ late' = [late EXCEPT ![c] = IF c \in open THEN @ ELSE @ + 1]
  /\ Survives
  /\ UNCHANGED <<closing, userVars, acceptorVars, tcpClients, via, open>>

\* An exception code is answered without a call; a failed write is only logged.
AnswerException(c) ==
  /\ Becomes(c, "request", "read")
  /\ Survives
  /\ UNCHANGED <<closing, userVars, acceptorVars, tcpClients, via, open, late>>

\* The handler returns and the response, or its write error, is dealt with.
HandlerReturns(c) ==
  /\ Becomes(c, "handle", "read")
  /\ Survives
  /\ UNCHANGED <<closing, userVars, acceptorVars, tcpClients, via, open, late>>

\* Validation or the handler says ErrProtocolError: the transport is closed.
ProtocolError(c) ==
  /\ Becomes(c, "request", "leave") \/ Becomes(c, "handle", "leave")
  /\ open' = open \ {c}
  /\ Survives
  /\ UNCHANGED <<closing, userVars, acceptorVars, tcpClients, via, late>>

\* The last pooled socket takes the place of the one at index i.
RemoveAt(s, i) == SubSeq([s EXCEPT ![i] = s[Len(s)]], 1, Len(s) - 1)

\* The session's socket leaves the pool at its first index, if it is there.
Remove(c) ==
  /\ Becomes(c, "leave", "close")
  /\ LockFree
  /\ \/ /\ c \notin Pool
        /\ UNCHANGED tcpClients
     \/ \E i \in DOMAIN tcpClients :
          /\ tcpClients[i] = c
          /\ \A j \in 1..(i - 1) : tcpClients[j] # c
          /\ tcpClients' = RemoveAt(tcpClients, i)
  /\ Survives
  /\ UNCHANGED <<closing, userVars, acceptorVars, via, open, late>>

CloseSocket(c) ==
  /\ Becomes(c, "close", "gone")
  /\ open' = open \ {c}
  /\ Survives
  /\ UNCHANGED <<closing, userVars, acceptorVars, tcpClients, via, late>>

-----------------------------------------------------------------------------
UserCall == StartListening \/ StartFails \/ StopBegin
StopGoesOn == StopCloseOne \/ StopReturns

Accept(a) == \E c \in Clients : AcceptConn(a, c)
AcceptorStep(a) == \/ LoadListener(a) \/ DereferenceNil(a)
                   \/ Accept(a) \/ AcceptFails(a) \/ AcceptClosed(a)
                   \/ Admit(a) \/ Refuse(a) \/ Discard(a)

SessionStep(c) == \/ HandshakeDone(c) \/ HandshakeFails(c)
                  \/ ReadRequest(c) \/ ReadFails(c)
                  \/ CallHandler(c) \/ AnswerException(c) \/ HandlerReturns(c)
                  \/ ProtocolError(c)
                  \/ Remove(c) \/ CloseSocket(c)

Next == \/ UserCall \/ StopGoesOn
        \/ \E a \in Acceptors : AcceptorStep(a)
        \/ \E c \in Clients : Connect(c) \/ SessionStep(c)

Spec == Init /\ [][Next]_vars

\* The Go scheduler runs every ready goroutine, a session's deadlines end its
\* blocking reads and its handler is assumed to return; passing Accept errors
\* do not recur for ever.  Users and clients owe nothing.
Fairness == /\ WF_vars(StopGoesOn)
            /\ \A a \in Acceptors : WF_vars(AcceptorStep(a)) /\ SF_vars(Accept(a))
            /\ \A c \in Clients : WF_vars(SessionStep(c))

FairSpec == Spec /\ Fairness

-----------------------------------------------------------------------------
(* Safety.                                                                 *)

\* The pool holds the socket of every session that has not left, each exactly
\* once: what Stop walks over (server.go:274) and what the limit counts
\* (server.go:304) is the set of running sessions, whatever admissions and
\* swap-removals came before.
PoolExact == IsInjective(tcpClients) /\ Pool = Serving

\* No more than MaxClients session goroutines are at work, across restarts and
\* with several acceptors admitting (server.go:29, server.go:304).
SessionLimit == Cardinality(Serving) <= MaxClients

\* Once Stop has let go of the lock, every session still in its goroutine has a
\* closed socket, the ones that were being admitted as Stop began included
\* (server.go:258: "closes any active session").
StopClosesSessions ==
  LockFree /\ ~started => \A c \in open : conn[c] \notin Served

\* Every open socket has a goroutine that will close it: an acceptor holds it or
\* its session is running.  No socket leaks (server.go:320, server.go:373).
NoOrphanSocket ==
  \A c \in open : \/ conn[c] \in Served \cup {"close"}
                  \/ \E a \in Acceptors : sock[a] = c /\ pc[a] \in {"admit", "reject"}

\* A session may be caught with a request already read when its socket is
\* closed, and hands that one request to the handler, never a second one
\* (server.go:389 fails on the closed socket).
AtMostOneLateCall == \A c \in Clients : late[c] <= 1

(* The inductive invariant behind them, in its parts.                      *)

\* An acceptor between Accept and its next loop holds a socket of its own whose
\* connection stands where its goroutine does; acceptors not yet created idle.
Holding == {"admit", "reject"}
AcceptorsHold ==
  /\ \A a \in Acceptors :
       /\ pc[a] \in Holding <=> sock[a] # None
       /\ pc[a] = "admit" => conn[sock[a]] = "accepted"
       /\ pc[a] = "reject" => conn[sock[a]] = "rejected"
       /\ a > starts => pc[a] = "idle"
  /\ \A a, b \in Acceptors : sock[a] = sock[b] /\ sock[a] # None => a = b

\* The pool is exact and within the limit.
PoolInv == PoolExact /\ Len(tcpClients) <= MaxClients

\* While Stop works, what it has walked past is closed; afterwards everything is.
StopInv ==
  /\ ~LockFree => ~started
  /\ ~started => \A i \in DOMAIN tcpClients :
                   LockFree \/ i < closing => tcpClients[i] \notin open

\* Only connections somebody is still working on have an open socket, and what
\* an acceptor holds is open.
OpenInv ==
  /\ \A c \in open : conn[c] \in Served \cup {"accepted", "rejected", "close"}
  /\ \A c \in Clients : conn[c] \in {"accepted", "rejected"} =>
                          c \in open /\ \E a \in Acceptors : sock[a] = c

\* The one late call uses up the one request read before the socket was closed.
LateInv ==
  \A c \in Clients : /\ late[c] <= 1
                     /\ c \in open \/ conn[c] \in {"new", "backlog", "request"}
                          => late[c] = 0

\* A started server listens where ms.tcpListener says, a stopped one nowhere, though a
\* failed Start puts nil there.
ListenInv == listening = IF started THEN {tcpListener} ELSE {}

IInv == TypeOK /\ AcceptorsHold /\ PoolInv /\ StopInv /\ OpenInv /\ LateInv /\ ListenInv

(* Action properties.                                                      *)

\* A stopped server reads no request: between the end of Stop and the next
\* Start no session gets from the wire to validation.
StoppedReadsNothing ==
  [][LockFree /\ ~started =>
       ~ \E c \in Clients : conn[c] = "read" /\ conn'[c] = "request"]_vars

\* How many steps each goroutine may take once Stop is over.
Quiet == LockFree /\ ~started
AcceptorLeft(a) == [idle |-> 0, returned |-> 0, accept |-> 1, load |-> 2,
                    reject |-> 3, admit |-> 4][pc[a]]
SessionLeft(c) ==
  IF conn[c] \in {"handshake", "read", "request", "handle", "leave", "close"}
  THEN [close |-> 1, leave |-> 2, read |-> 3, handshake |-> 3, handle |-> 4,
        request |-> 5][conn[c]]
  ELSE 0

\* A stopped server winds down: whatever step it takes, one goroutine has less to do
\* and no other one has more, so that none goes round its loop for ever, an acceptor
\* that was serving an earlier listener included (server.go:288-296, 389).
StopWindsDown ==
  [][Quiet /\ ~started' /\ ~panicked' =>
       \/ UNCHANGED <<pc, conn>>
       \/ \E a \in Acceptors :
            /\ AcceptorLeft(a)' < AcceptorLeft(a)
            /\ \A b \in Acceptors \ {a} : pc'[b] = pc[b]
            /\ \A c \in Clients : SessionLeft(c)' = SessionLeft(c)
       \/ \E c \in Clients :
            /\ SessionLeft(c)' < SessionLeft(c)
            /\ \A d \in Clients \ {c} : conn'[d] = conn[d]
            /\ UNCHANGED pc]_vars

(* Liveness.                                                               *)

Drained == /\ tcpClients = << >>
           /\ open = {}
           /\ \A a \in Acceptors : pc[a] \in {"idle", "returned"}

\* After Stop all goroutines of the server end and all its sockets are closed,
\* unless it is started again or has died.
StopDrains == (~started /\ starts > 0) ~> (Drained \/ started \/ panicked)

\* Every queued connection is served, refused or reset: none waits for ever for
\* an acceptor, and none stays in an acceptor's hands.
ConnectionSettles ==
  \A c \in Clients : conn[c] \in {"backlog", "accepted", "rejected"}
                        ~> (conn[c] \in Served \cup {"gone"} \/ panicked)

-----------------------------------------------------------------------------
(* The promise of ServerService, kept by the code: the lock-protected pool  *)
(* is what is inside, and Stop runs until it lets go of the lock.           *)
Service == INSTANCE ServerService
             WITH Sessions <- Clients, Limit <- MaxClients,
                  running <- started \/ ~LockFree,
                  inside <- Pool,
                  live <- open \cap Pool

\* Every step of the code is a step the abstract service allows, or none.
ServesAsPromised == Service!SSpec

-----------------------------------------------------------------------------
(* What a comment of the code says and the code does not do.               *)

\* server.go:293-294: once its listener is closed, the acceptor is to "return here
\* as this goroutine isn't going to see any new client connection".
StoppedAcceptorReturns == ~panicked

=============================================================================
