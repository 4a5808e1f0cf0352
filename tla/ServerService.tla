---------------------------- MODULE ServerService ----------------------------
(***************************************************************************)
(* What a user of ModbusServer is promised (server.go:29, 228, 258): at    *)
(* most Limit sessions, sessions admitted only while the server runs, and  *)
(* a Stop that is over only when no session can exchange another byte.     *)
(***************************************************************************)
EXTENDS Naturals, FiniteSets

CONSTANTS Sessions, Limit

VARIABLES running,  \* between the return of Start and the return of Stop
          inside,   \* the sessions that count against Limit
          live      \* those whose connection is still open

svars == <<running, inside, live>>

SInit == running = FALSE /\ inside = {} /\ live = {}

Open == /\ ~running
        /\ running' = TRUE
        /\ UNCHANGED <<inside, live>>

Shut == /\ running
        /\ live = {}
        /\ running' = FALSE
        /\ UNCHANGED <<inside, live>>

Enter(c) == /\ running
            /\ c \notin inside
            /\ Cardinality(inside) < Limit
            /\ inside' = inside \cup {c}
            /\ live' = live \cup {c}
            /\ UNCHANGED running

\* A connection is closed, by Stop or by its own session.
Disconnect(c) == /\ c \in live
                 /\ live' = live \ {c}
                 /\ UNCHANGED <<running, inside>>

\* A session gives its place back.
Depart(c) == /\ c \in inside
             /\ inside' = inside \ {c}
             /\ live' = live \ {c}
             /\ UNCHANGED running

SNext == \/ Open \/ Shut
         \/ \E c \in Sessions : Enter(c) \/ Disconnect(c) \/ Depart(c)

SSpec == SInit /\ [][SNext]_svars

=============================================================================
