--------------------------- MODULE ExchangeService ---------------------------
(***************************************************************************)
(* What a transport without transaction ids promises to the client above   *)
(* it, one exchange at a time: an exchange fails, or returns the answer to *)
(* a request that was asked, each answer once at most.  It may be the      *)
(* answer to an earlier request, which came late.                          *)
(***************************************************************************)
EXTENDS Naturals

CONSTANTS Requests,  \* what can be asked
          NoRequest  \* no request, no answer: none of Requests

VARIABLES waiting,  \* the request whose exchange runs
          owed,     \* how many answers to each request may still come
          answer    \* the request whose answer the last exchange returned

served == <<waiting, owed, answer>>

\* Answers get lost on the way, or are thrown away, at any time.
NoMoreThan(f, g) == \A r \in Requests : f[r] <= g[r]

ServiceInit == /\ waiting = NoRequest /\ answer = NoRequest
               /\ owed = [r \in Requests |-> 0]

Ask(r) == /\ waiting = NoRequest
          /\ waiting' = r /\ answer' = NoRequest
          /\ NoMoreThan(owed', [owed EXCEPT ![r] = @ + 1])

Answered(r) == /\ waiting # NoRequest
               /\ owed[r] > 0
               /\ waiting' = NoRequest /\ answer' = r
               /\ NoMoreThan(owed', [owed EXCEPT ![r] = @ - 1])

Fails == /\ waiting # NoRequest
         /\ waiting' = NoRequest /\ answer' = NoRequest
         /\ NoMoreThan(owed', owed)

\* An exchange that fails before its request is on the way.
FailsUnasked == /\ waiting = NoRequest /\ waiting' = NoRequest
                /\ answer' = NoRequest
                /\ NoMoreThan(owed', owed)

Lost == NoMoreThan(owed', owed) /\ UNCHANGED <<waiting, answer>>

ServiceNext == \/ \E r \in Requests : Ask(r) \/ Answered(r)
               \/ Fails \/ FailsUnasked \/ Lost

ServiceSpec == ServiceInit /\ [][ServiceNext]_served

=============================================================================
