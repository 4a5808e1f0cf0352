------------------------------- MODULE Poller -------------------------------
(***************************************************************************)
(* How an energy system is set up over one client, and how a goroutine     *)
(* then polls its meters (src/internal/energysource/ModbusSystem.go,       *)
(* CarloGavazzi.go, Victron.go; the values: src/pkg/energysource/).        *)
(*                                                                         *)
(* Of a value only its origin is kept: whose register it was, and whether  *)
(* the poll that now runs, or ran last, asked for it.  An exchange is one  *)
(* step.  Over RTU it may return the answer to an earlier request that     *)
(* failed (ExchangeService), which the client takes if unit, function and  *)
(* size are those of its own (ModbusClient!Outcome).  Over TCP it returns  *)
(* no other answer (TcpTransport!OwnAnswer), but after one that failed     *)
(* amid a frame it may take any bytes for its own                          *)
(* (TcpTransport!ReadOutOfFrame).                                          *)
(***************************************************************************)
EXTENDS Naturals, Sequences

CONSTANTS Units,    \* unit ids of meters; 0 stands for no meter
          Nil,      \* an entry of pvConfigs that is nil: no unit
          Systems   \* what NewModbusSystem is called with, and the devices it meets

Makers == {"CarloGavazzi", "Victron"}
Kinds == {"EM24", "threePhase", "onePhase"}
AllUnits == Units \cup {0}

\* A device is an EM24, whose front selector may be locked, another three-phase meter,
\* or else; the grid's meter, if any, comes before those of the pvs.
Device == [kind : Kinds, locked : BOOLEAN]
Applications == {"H", "other"}
System == [maker : Makers,
           meters : Seq([role : {"grid", "pv"}, unit : Units \cup {0, Nil}]),
           device : [AllUnits -> Device],
           application : [AllUnits -> Applications]]

ASSUME PollerAssumption == /\ Units \subseteq 1..255
                           /\ Nil \notin 0..255
                           /\ Systems \subseteq System

VARIABLES
  link,         \* "tcp" or "rtu"
  system,       \* one of Systems
  application,  \* what application each EM24 is set to
  unitId,       \* the client's unit
  code,         \* what initialize found each meter to be
  pc,           \* setting up: "construct", "type", "application", "selector",
                \* "write"; polling: "wait", "poll", "read"; "failed", "panicked"
  slot,         \* the meter at hand
  block,        \* the read at hand
  flow,         \* the values of each meter
  outstanding   \* reads that failed and may yet be answered, or Scraps

vars == <<link, system, application, unitId, code, pc, slot, block, flow, outstanding>>
world == <<link, system>>

Lines == 0..2
Fields == {"voltage", "current", "power"} \X Lines

meters == system.meters
device == system.device
Slots == DOMAIN meters

\* The constructors make a list of as many nil entries as there are ids, and append to it.
PvConfigs(ids) == [i \in 1..Len(ids) |-> Nil] \o ids

-----------------------------------------------------------------------------
(* Which registers hold what: reads of some registers from the first, and  *)
(* at which place among them each value is.                                *)

Read(first, quantity, place) == [first |-> first, quantity |-> quantity, place |-> place]
On(quantities) == quantities \X Lines

VictronGrid ==
  << Read(2600, 3, [f \in On({"power"}) |-> f[2]]),
     Read(2616, 6, [f \in On({"voltage", "current"}) |->
                      2 * f[2] + [voltage |-> 0, current |-> 1][f[1]]]) >>
VictronPv ==
  << Read(1027, 11, [f \in Fields |->
                       4 * f[2] + [voltage |-> 0, current |-> 1, power |-> 2][f[1]]]) >>

\* Mutant: the voltages are read with as many registers as currents and powers.
ThreePhase_EqualReads ==
  << Read(0, 11, [f \in On({"voltage"}) |-> 2 * f[2]]),
     Read(12, 11, [f \in On({"current", "power"}) |->
                     2 * f[2] + [current |-> 0, power |-> 6][f[1]]]) >>

ThreePhase ==
  << Read(0, 5, [f \in On({"voltage"}) |-> 2 * f[2]]),
     Read(12, 11, [f \in On({"current", "power"}) |->
                     2 * f[2] + [current |-> 0, power |-> 6][f[1]]]) >>
OnePhase ==
  << Read(0, 5, [f \in {"voltage", "current", "power"} \X {0} |->
                   [voltage |-> 0, current |-> 2, power |-> 4][f[1]]]) >>

ReadsOf(s) == IF system.maker = "Victron"
              THEN IF meters[s].role = "grid" THEN VictronGrid ELSE VictronPv
              ELSE IF code[s] = "onePhase" THEN OnePhase ELSE ThreePhase

MakersReads ==
  LET layouts == IF system.maker = "Victron" THEN {VictronGrid, VictronPv}
                                             ELSE {ThreePhase, OnePhase}
  IN  UNION {{layout[b] : b \in DOMAIN layout} : layout \in layouts}

\* "new" if the poll that now runs, or ran last, has asked for it.
Ages == {"new", "old"}
AgeIf(new) == IF new THEN "new" ELSE "old"

\* A value of unit Nil is nobody's: bytes of anything, taken out of frame.
Zero == [unit |-> 0, register |-> 0, age |-> "old"]
Value == [unit : AllUnits \cup {Nil}, register : Nat, age : Ages]
Request == [unit : AllUnits \cup {Nil}, first : Nat, quantity : Nat, age : Ages]

\* The TCP stream is amid a frame.
Scraps == [unit |-> Nil, first |-> 0, quantity |-> 0, age |-> "old"]

TypeOK == /\ link \in {"tcp", "rtu"}
          /\ system \in Systems
          /\ application \in [AllUnits -> Applications]
          /\ unitId \in AllUnits \cup {1}
          /\ code \in [Slots -> Kinds \cup {"none"}]
          /\ pc \in {"construct", "type", "application", "selector", "write",
                     "wait", "poll", "read", "failed", "panicked"}
          /\ slot \in 1..(Len(meters) + 1)
          /\ block \in 0..2
          /\ flow \in [Slots -> [Fields -> Value]]
          /\ outstanding \subseteq Request

\* The client is open.
Init == /\ link \in {"tcp", "rtu"}
        /\ system \in Systems
        /\ application = system.application
        /\ unitId = 1
        /\ code = [s \in Slots |-> "none"]
        /\ pc = "construct" /\ slot = 1 /\ block = 0
        /\ flow = [s \in Slots |-> [f \in Fields |-> Zero]]
        /\ outstanding = {}

-----------------------------------------------------------------------------
(* NewModbusSystem.                                                        *)

NextMeter == pc' = "construct" /\ slot' = slot + 1

\* A meter of Carlo Gavazzi is asked what it is.
Construct ==
  /\ pc = "construct" /\ slot \in Slots /\ meters[slot].unit # Nil
  /\ \/ /\ system.maker = "Victron"
        /\ NextMeter
        /\ UNCHANGED unitId
     \/ /\ system.maker = "CarloGavazzi"
        /\ pc' = "type"
        /\ unitId' = meters[slot].unit
        /\ UNCHANGED slot
  /\ UNCHANGED <<world, application, code, block, flow, outstanding>>

\* newModbusPv reads the unit of a nil entry.
DereferenceNil ==
  /\ pc = "construct" /\ slot \in Slots /\ meters[slot].unit = Nil
  /\ pc' = "panicked"
  /\ UNCHANGED <<world, application, unitId, code, slot, block, flow, outstanding>>

ReadType ==
  /\ pc = "type"
  /\ code' = [code EXCEPT ![slot] = device[unitId].kind]
  /\ IF device[unitId].kind = "EM24" THEN pc' = "application" /\ UNCHANGED slot ELSE NextMeter
  /\ UNCHANGED <<world, application, unitId, block, flow, outstanding>>

ReadApplication ==
  /\ pc = "application"
  /\ IF application[unitId] # "H" THEN pc' = "selector" /\ UNCHANGED slot ELSE NextMeter
  /\ UNCHANGED <<world, application, unitId, code, block, flow, outstanding>>

ReadSelector ==
  /\ pc = "selector"
  /\ IF ~device[unitId].locked THEN pc' = "write" /\ UNCHANGED slot ELSE NextMeter
  /\ UNCHANGED <<world, application, unitId, code, block, flow, outstanding>>

SetToH == [application EXCEPT ![unitId] = "H"]

WriteApplication ==
  /\ pc = "write"
  /\ application' = SetToH
  /\ NextMeter
  /\ UNCHANGED <<world, unitId, code, block, flow, outstanding>>

Exchanging == pc \in {"type", "application", "selector", "write"}

\* Mutant: an error while an EM24 is set up is forgotten.
SetupFails_GoesOn ==
  /\ Exchanging
  /\ IF pc = "type" THEN pc' = "failed" /\ UNCHANGED slot ELSE NextMeter
  /\ UNCHANGED <<world, application, unitId, code, block, flow, outstanding>>

\* Any error ends the setup, though a write may have been done.  The client stays open.
SetupFails ==
  /\ Exchanging
  /\ pc' = "failed"
  /\ application' \in {application} \cup (IF pc = "write" THEN {SetToH} ELSE {})
  /\ UNCHANGED <<world, unitId, code, slot, block, flow, outstanding>>

Run ==
  /\ pc = "construct" /\ slot \notin Slots
  /\ pc' = "wait"
  /\ UNCHANGED <<world, application, unitId, code, slot, block, flow, outstanding>>

-----------------------------------------------------------------------------
(* readSystemValues.                                                       *)

\* The ticker's next tick, or the one that it has kept: what is there is old now.
Tick ==
  /\ pc = "wait"
  /\ pc' = "poll" /\ slot' = 1
  /\ flow' = [s \in Slots |-> [f \in Fields |-> [flow[s][f] EXCEPT !.age = "old"]]]
  /\ outstanding' = {[r EXCEPT !.age = "old"] : r \in outstanding}
  /\ UNCHANGED <<world, application, unitId, code, block>>

SkipMeter ==
  /\ pc = "poll" /\ slot \in Slots /\ meters[slot].unit = 0
  /\ slot' = slot + 1
  /\ UNCHANGED <<world, application, unitId, code, pc, block, flow, outstanding>>

\* Mutant: the unit stays the one that was polled before.
SetUnitId_Forgotten ==
  /\ pc = "poll" /\ slot \in Slots /\ meters[slot].unit # 0
  /\ pc' = "read" /\ block' = 1
  /\ UNCHANGED <<world, application, unitId, code, slot, flow, outstanding>>

SetUnitId ==
  /\ pc = "poll" /\ slot \in Slots /\ meters[slot].unit # 0
  /\ unitId' = meters[slot].unit
  /\ pc' = "read" /\ block' = 1
  /\ UNCHANGED <<world, application, code, slot, flow, outstanding>>

This == ReadsOf(slot)[block]
Own == [unit |-> unitId, first |-> This.first, quantity |-> This.quantity, age |-> "new"]

\* The read is done: the next one, or the next meter.
NextRead ==
  IF block < Len(ReadsOf(slot))
  THEN block' = block + 1 /\ UNCHANGED <<pc, slot>>
  ELSE pc' = "poll" /\ slot' = slot + 1 /\ UNCHANGED block

ValuesOf(r) ==
  [f \in DOMAIN This.place |->
     [unit |-> r.unit, register |-> r.first + This.place[f], age |-> r.age]]
Zeros == [f \in DOMAIN This.place |-> Zero]

\* The values of this read are set, those of others stay.
Store(values) ==
  flow' = [flow EXCEPT ![slot] =
             [f \in Fields |-> IF f \in DOMAIN This.place THEN values[f] ELSE flow[slot][f]]]

\* Late answers the client takes for those to its request, and scraps it takes so.
Late == {r \in outstanding : r.unit = unitId /\ r.quantity = This.quantity}
          \cup {[Own EXCEPT !.unit = Nil] : r \in outstanding \cap {Scraps}}

\* The own answer may be yet to come.  Over TCP nobody will take it, but the exchange may
\* have ended amid a frame.
Missed == IF link = "rtu" THEN {outstanding, outstanding \cup {Own}} ELSE {{}, {Scraps}}

\* An own answer over TCP ends with its frame.
ReadAnswered ==
  /\ pc = "read"
  /\ \E r \in {Own} \cup Late :
       /\ Store(ValuesOf(r))
       /\ outstanding' \in (IF r = Own THEN {outstanding \ {Scraps}} ELSE Missed)
  /\ NextRead
  /\ UNCHANGED <<world, application, unitId, code>>

\* Mutant: a read that fails leaves the values as they were.
ReadFails_KeepsValues ==
  /\ pc = "read"
  /\ outstanding' \in Missed
  /\ NextRead
  /\ UNCHANGED <<world, application, unitId, code, flow>>

\* Mutant: a read that fails ends the poller.
ReadFails_Returns ==
  /\ pc = "read"
  /\ pc' = "failed"
  /\ UNCHANGED <<world, application, unitId, code, slot, block, flow, outstanding>>

\* The error is dropped and the values become 0; an answer may or may not be to come.
ReadFails ==
  /\ pc = "read"
  /\ Store(Zeros)
  /\ outstanding' \in Missed
  /\ NextRead
  /\ UNCHANGED <<world, application, unitId, code>>

EndPoll ==
  /\ pc = "poll" /\ slot \notin Slots
  /\ pc' = "wait"
  /\ UNCHANGED <<world, application, unitId, code, slot, block, flow, outstanding>>

-----------------------------------------------------------------------------
Setup == \/ Construct \/ DereferenceNil \/ ReadType \/ ReadApplication
         \/ ReadSelector \/ WriteApplication \/ SetupFails \/ Run
Poll == Tick \/ SkipMeter \/ SetUnitId \/ ReadAnswered \/ ReadFails \/ EndPoll

Next == Setup \/ Poll

Spec == Init /\ [][Next]_vars

\* Exchanges end by their deadlines, and the ticker ticks.
FairSpec == Spec /\ WF_vars(Poll)

-----------------------------------------------------------------------------
(* Properties.                                                             *)

\* Where each value of a meter is read from.
RegisterOf(s, f, register) ==
  \E b \in DOMAIN ReadsOf(s) :
    LET read == ReadsOf(s)[b]
    IN  f \in DOMAIN read.place /\ register = read.first + read.place[f]

\* Whatever answer comes late, a value is 0 or was read from the register and the
\* unit it belongs to (CarloGavazzi.go:188-208, Victron.go:12-45): the client takes
\* answers for each other only if they are of one unit and one size, and no meter
\* is asked for two places in one size.  Only a TCP stream that a timeout has left
\* amid a frame gives anything else.
OwnValues ==
  \A s \in Slots, f \in Fields :
    flow[s][f] # Zero => /\ \/ flow[s][f].unit = meters[s].unit
                            \/ flow[s][f].unit = Nil /\ link = "tcp"
                         /\ RegisterOf(s, f, flow[s][f].register)

\* Over TCP the values of a meter that is not just being read are of one poll,
\* the one that runs if the meter's turn has come and else the last, or 0
\* (ModbusSystem.go:98-113, 147-150): a failed read leaves nothing old among them,
\* nor does one that took scraps for its answer.
OnePoll ==
  link = "tcp" =>
    \A s \in Slots : ~(pc = "read" /\ slot = s) =>
      \A f \in Fields : flow[s][f] = Zero \/ flow[s][f].age = AgeIf(s < slot)

Running == {"wait", "poll", "read"}

Configured(s) == LET unit == meters[s].unit
                 IN  device[unit].kind = "EM24" => application[unit] = "H" \/ device[unit].locked

\* A system that runs has set every EM24 to application H, but for those whose front
\* selector is locked (CarloGavazzi.go:152-174), whichever requests failed and
\* whichever meters share a unit.
EM24Configured ==
  system.maker = "CarloGavazzi" /\ pc \in Running => \A s \in Slots : Configured(s)

\* Every meter is polled again and again, whichever reads fail (ModbusSystem.go:96-117).
PolledAgain ==
  \A s \in 1..3 : (s \in Slots /\ meters[s].unit # 0 /\ pc = "wait")
                    ~> (s \in Slots /\ pc = "read" /\ slot = s)

(* The inductive invariant.                                                *)

\* getValueFromRegisterResultArray finds every place within the answer.
PlaceInv == \A s \in Slots : \A b \in DOMAIN ReadsOf(s) : \A f \in DOMAIN ReadsOf(s)[b].place :
              ReadsOf(s)[b].place[f] < ReadsOf(s)[b].quantity

\* The meters before the one at hand are set up; nothing is outstanding, as a request
\* that fails ends the setup, and nothing is stored.
SetupInv ==
  /\ Exchanging => slot \in Slots /\ unitId = meters[slot].unit
  /\ pc \in {"application", "selector", "write"} => device[unitId].kind = "EM24"
  /\ pc \notin Running \cup {"failed"} => \A s \in Slots : s < slot => meters[s].unit # Nil
  /\ pc \notin Running \cup {"failed"} /\ system.maker = "CarloGavazzi" =>
       \A s \in Slots : s < slot => Configured(s)
  /\ pc \notin Running => outstanding = {} /\ \A s \in Slots, f \in Fields : flow[s][f] = Zero
  /\ pc = "wait" => slot = Len(meters) + 1

\* What is read, and what may be answered late, is of the maker's layouts; over TCP
\* nothing is.
IsLate(r) == /\ r.unit # Nil
             /\ \E read \in MakersReads : r.first = read.first /\ r.quantity = read.quantity
ReadInv ==
  /\ pc \in Running => \A s \in Slots : meters[s].unit # Nil
  /\ pc = "read" => /\ slot \in Slots /\ block \in DOMAIN ReadsOf(slot)
                    /\ unitId = meters[slot].unit /\ unitId # 0
  /\ IF link = "tcp" THEN outstanding \subseteq {Scraps} ELSE \A r \in outstanding : IsLate(r)

\* Of a meter that is being read, the values of the reads that are done are new.
ReadBefore(f, n) == \E b \in DOMAIN ReadsOf(slot) : b < n /\ f \in DOMAIN ReadsOf(slot)[b].place

AmidInv ==
  link = "tcp" /\ pc = "read" =>
    \A f \in Fields :
      flow[slot][f] = Zero \/ flow[slot][f].age = AgeIf(ReadBefore(f, block))

\* A meter without a unit is skipped.
SkippedInv == \A s \in Slots : meters[s].unit = 0 => \A f \in Fields : flow[s][f] = Zero

PollerInv == /\ TypeOK /\ PlaceInv /\ SetupInv /\ ReadInv /\ SkippedInv
             /\ OwnValues /\ OnePoll /\ AmidInv /\ EM24Configured

=============================================================================
