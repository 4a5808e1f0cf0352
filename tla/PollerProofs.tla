---------------------------- MODULE PollerProofs ----------------------------
(***************************************************************************)
(* Theorems about Poller, for every set of units, of systems and of        *)
(* devices they meet.                                                      *)
(***************************************************************************)
EXTENDS Poller, TLAPS

-----------------------------------------------------------------------------
(* The layouts.                                                            *)

IsRead(read) == /\ read.first \in Nat /\ read.quantity \in Nat
                /\ DOMAIN read.place \subseteq Fields
                /\ \A f \in DOMAIN read.place :
                     read.place[f] \in Nat /\ read.place[f] < read.quantity

IsLayout(layout) == /\ Len(layout) \in 1..2
                    /\ DOMAIN layout = 1..Len(layout)
                    /\ \A b \in DOMAIN layout : IsRead(layout[b])

\* The four lists of reads are layouts.
LEMMA VictronGridIsLayout == IsLayout(VictronGrid) /\ VictronGrid[1].first = 2600
                               /\ VictronGrid[1].quantity = 3 /\ Len(VictronGrid) = 2
                               /\ VictronGrid[2].first = 2616 /\ VictronGrid[2].quantity = 6
<1>1. IsRead(VictronGrid[1])
  BY DEF VictronGrid, IsRead, Read, On, Fields, Lines
<1>2. IsRead(VictronGrid[2])
  BY DEF VictronGrid, IsRead, Read, On, Fields, Lines
<1>3. /\ Len(VictronGrid) = 2 /\ DOMAIN VictronGrid = 1..2
      /\ VictronGrid[1].first = 2600 /\ VictronGrid[1].quantity = 3
      /\ VictronGrid[2].first = 2616 /\ VictronGrid[2].quantity = 6
  BY DEF VictronGrid, Read
<1> QED
  BY <1>1, <1>2, <1>3 DEF IsLayout

\* That of a Victron's inverter.
LEMMA VictronPvIsLayout == IsLayout(VictronPv) /\ Len(VictronPv) = 1
                             /\ VictronPv[1].first = 1027 /\ VictronPv[1].quantity = 11
<1>1. IsRead(VictronPv[1])
  BY DEF VictronPv, IsRead, Read, Fields, Lines
<1>2. /\ Len(VictronPv) = 1 /\ DOMAIN VictronPv = 1..1
      /\ VictronPv[1].first = 1027 /\ VictronPv[1].quantity = 11
  BY DEF VictronPv, Read
<1> QED
  BY <1>1, <1>2 DEF IsLayout

\* That of a meter of three phases.
LEMMA ThreePhaseIsLayout == IsLayout(ThreePhase) /\ Len(ThreePhase) = 2
                              /\ ThreePhase[1].first = 0 /\ ThreePhase[1].quantity = 5
                              /\ ThreePhase[2].first = 12 /\ ThreePhase[2].quantity = 11
<1>1. IsRead(ThreePhase[1])
  BY DEF ThreePhase, IsRead, Read, On, Fields, Lines
<1>2. IsRead(ThreePhase[2])
  BY DEF ThreePhase, IsRead, Read, On, Fields, Lines
<1>3. /\ Len(ThreePhase) = 2 /\ DOMAIN ThreePhase = 1..2
      /\ ThreePhase[1].first = 0 /\ ThreePhase[1].quantity = 5
      /\ ThreePhase[2].first = 12 /\ ThreePhase[2].quantity = 11
  BY DEF ThreePhase, Read
<1> QED
  BY <1>1, <1>2, <1>3 DEF IsLayout

\* That of a meter of one phase.
LEMMA OnePhaseIsLayout == IsLayout(OnePhase) /\ Len(OnePhase) = 1
                            /\ OnePhase[1].first = 0 /\ OnePhase[1].quantity = 5
<1>1. IsRead(OnePhase[1])
  BY DEF OnePhase, IsRead, Read, Fields, Lines
<1>2. /\ Len(OnePhase) = 1 /\ DOMAIN OnePhase = 1..1
      /\ OnePhase[1].first = 0 /\ OnePhase[1].quantity = 5
  BY DEF OnePhase, Read
<1> QED
  BY <1>1, <1>2 DEF IsLayout

-----------------------------------------------------------------------------
(* What is read.                                                           *)

\* Whatever the maker and the meter, its reads are one of them.
LEMMA ReadsAreLayouts ==
  ASSUME TypeOK, NEW s \in Slots
  PROVE  /\ IsLayout(ReadsOf(s))
         /\ \A b \in DOMAIN ReadsOf(s) : ReadsOf(s)[b] \in MakersReads
<1>1. ReadsOf(s) \in (IF system.maker = "Victron" THEN {VictronGrid, VictronPv}
                                                  ELSE {ThreePhase, OnePhase})
  BY DEF ReadsOf
<1>2. IsLayout(ReadsOf(s))
  BY <1>1, VictronGridIsLayout, VictronPvIsLayout, ThreePhaseIsLayout, OnePhaseIsLayout
<1>3. ASSUME NEW b \in DOMAIN ReadsOf(s) PROVE ReadsOf(s)[b] \in MakersReads
  BY <1>1, <1>3 DEF MakersReads
<1> QED
  BY <1>2, <1>3

\* No maker asks for two places in one size.
LEMMA SizeTellsPlace ==
  ASSUME NEW r1 \in MakersReads, NEW r2 \in MakersReads, r1.quantity = r2.quantity
  PROVE  r1.first = r2.first
<1>1. CASE system.maker = "Victron"
  <2>1. MakersReads = {VictronGrid[1], VictronGrid[2], VictronPv[1]}
    <3>1. /\ DOMAIN VictronGrid = {1, 2} /\ DOMAIN VictronPv = {1}
      BY VictronGridIsLayout, VictronPvIsLayout DEF IsLayout
    <3> QED
      BY <1>1, <3>1 DEF MakersReads
  <2> QED
    BY <2>1, VictronGridIsLayout, VictronPvIsLayout
<1>2. CASE system.maker # "Victron"
  <2>1. MakersReads = {ThreePhase[1], ThreePhase[2], OnePhase[1]}
    <3>1. /\ DOMAIN ThreePhase = {1, 2} /\ DOMAIN OnePhase = {1}
      BY ThreePhaseIsLayout, OnePhaseIsLayout DEF IsLayout
    <3> QED
      BY <1>2, <3>1 DEF MakersReads
  <2> QED
    BY <2>1, ThreePhaseIsLayout, OnePhaseIsLayout
<1> QED
  BY <1>1, <1>2

\* Every place lies within the answer it is looked for in.
LEMMA PlacesFound == TypeOK => PlaceInv
  BY ReadsAreLayouts DEF PlaceInv, IsLayout, IsRead

\* The same after a step.
LEMMA PlacesFoundNext == TypeOK' => PlaceInv'
  BY PlacesFound, PTL

\* An entry of a sequence is of its set.
LEMMA EntryOf == ASSUME NEW R, NEW q \in Seq(R), NEW i \in DOMAIN q PROVE q[i] \in R
  OBVIOUS

\* Units and slots.
LEMMA Meters ==
  ASSUME TypeOK
  PROVE  /\ system.maker \in Makers
         /\ Len(meters) \in Nat /\ Slots = 1..Len(meters)
         /\ \A s \in Slots : meters[s].unit \in Units \cup {0, Nil}
         /\ device \in [AllUnits -> Device]
         /\ Units \subseteq 1..255 /\ Nil \notin AllUnits
         /\ Zero \in Value
<1>1. system \in System
  BY PollerAssumption DEF TypeOK
<1>2. system.maker \in Makers /\ device \in [AllUnits -> Device]
  BY <1>1 DEF System, device
<1>3. meters \in Seq([role : {"grid", "pv"}, unit : Units \cup {0, Nil}])
  BY <1>1 DEF System, meters
<1>4. Len(meters) \in Nat /\ Slots = 1..Len(meters)
  BY <1>3 DEF Slots
<1>5. ASSUME NEW s \in Slots PROVE meters[s].unit \in Units \cup {0, Nil}
  <2>1. meters[s] \in [role : {"grid", "pv"}, unit : Units \cup {0, Nil}]
    BY <1>3, <1>5, EntryOf DEF Slots
  <2> QED
    BY <2>1
<1>6. Units \subseteq 1..255 /\ Nil \notin 0..255
  BY PollerAssumption
<1>7. Nil \notin AllUnits
  <2>1. 1..255 \subseteq 0..255 /\ 0 \in 0..255
    OBVIOUS
  <2> QED
    BY <1>6, <2>1, Zenon DEF AllUnits
<1>8. Zero \in Value
  BY DEF AllUnits, Zero, Value, Ages
<1> QED
  BY <1>2, <1>4, <1>5, <1>6, <1>7, <1>8

-----------------------------------------------------------------------------
(* The setup.                                                              *)

\* Nothing has been made, read or stored at first.
LEMMA InitInv == Init => PollerInv
<1> SUFFICES ASSUME Init PROVE PollerInv
  OBVIOUS
<1>1. TypeOK
  <2>1. system \in System
    BY PollerAssumption DEF Init
  <2>2. application \in [AllUnits -> Applications] /\ Len(meters) \in Nat
    BY <2>1 DEF Init, System, meters
  <2>3. flow \in [Slots -> [Fields -> Value]]
    BY DEF Init, Zero, Value, AllUnits, Ages
  <2> QED
    BY <2>2, <2>3 DEF Init, TypeOK
<1>2. PlaceInv
  BY <1>1, PlacesFound
<1>3. /\ SetupInv /\ ReadInv /\ OwnValues /\ OnePoll /\ AmidInv /\ EM24Configured
      /\ SkippedInv
  <2>1. \A s \in Slots : ~(s < slot)
    BY <1>1, Meters DEF Init
  <2> QED
    BY <2>1 DEF Init, SetupInv, ReadInv, OwnValues, OnePoll, AmidInv, EM24Configured,
                SkippedInv, Running, Exchanging
<1> QED
  BY <1>1, <1>2, <1>3 DEF PollerInv

\* While nothing is stored, what the polls keep to holds.
LEMMA NothingStored ==
  ASSUME PollerInv, pc \notin Running, pc' # "read", UNCHANGED <<world, flow, outstanding>>
  PROVE  /\ OwnValues' /\ OnePoll' /\ AmidInv' /\ SkippedInv'
         /\ outstanding' = {} /\ Slots' = Slots
         /\ \A s \in Slots, f \in Fields : flow'[s][f] = Zero
<1>1. outstanding' = {} /\ \A s \in Slots, f \in Fields : flow'[s][f] = Zero
  BY DEF PollerInv, SetupInv
<1>2. Slots' = Slots
  BY DEF Slots, meters, world
<1> QED
  BY <1>1, <1>2, Zenon DEF OwnValues, OnePoll, AmidInv, SkippedInv

\* The meter at hand is set up: the next one's turn.
LEMMA MeterIsSetUp ==
  ASSUME PollerInv, pc \in {"construct", "type", "application", "selector", "write"},
         slot \in Slots, meters[slot].unit # Nil, NextMeter,
         system.maker = "CarloGavazzi" => \A s \in Slots : s = slot => Configured(s)',
         UNCHANGED <<world, block, flow, outstanding>>,
         code' \in [Slots -> Kinds \cup {"none"}],
         unitId' \in AllUnits \cup {1},
         application' \in [AllUnits -> Applications],
         \A u \in AllUnits : application[u] = "H" => application'[u] = "H"
  PROVE  PollerInv'
<1> USE DEF NextMeter
<1>0. TypeOK
  BY DEF PollerInv
<1>1. Slots' = Slots /\ meters' = meters /\ device' = device
  BY DEF Slots, meters, world, device
<1>2. slot' \in 1..(Len(meters) + 1) /\ slot' = slot + 1 /\ pc' = "construct"
      /\ Slots \subseteq Nat /\ slot \in Nat
  BY <1>0, Meters
<1>3. TypeOK'
  BY <1>0, <1>1, <1>2 DEF TypeOK, world
<1>4. /\ OwnValues' /\ OnePoll' /\ AmidInv' /\ SkippedInv'
      /\ outstanding' = {} /\ \A s \in Slots, f \in Fields : flow'[s][f] = Zero
  BY NothingStored DEF Running
<1>5. \A s \in Slots : s < slot' => meters[s].unit # Nil
  BY <1>2 DEF PollerInv, SetupInv, Running
<1>6. ASSUME system.maker = "CarloGavazzi", NEW s \in Slots, s < slot'
      PROVE  Configured(s)'
  <2>1. CASE s = slot
    BY <1>6, <2>1
  <2>2. CASE s < slot
    <3>1. Configured(s)
      BY <1>6, <2>2 DEF PollerInv, SetupInv, Running
    <3>2. meters[s].unit \in AllUnits
      <4>1. meters[s].unit # Nil
        BY <2>2, <1>6 DEF PollerInv, SetupInv, Running
      <4> QED
        BY <4>1, <1>0, Meters DEF AllUnits
    <3> QED
      BY <1>1, <3>1, <3>2 DEF Configured
  <2> QED
    BY <1>2, <1>6, <2>1, <2>2
<1>7. SetupInv'
  BY <1>1, <1>2, <1>4, <1>5, <1>6 DEF SetupInv, Exchanging, Running, world
<1>8. ReadInv' /\ EM24Configured'
  BY <1>2, <1>4 DEF ReadInv, EM24Configured, Running
<1> QED
  BY <1>3, <1>4, <1>7, <1>8, PlacesFoundNext DEF PollerInv

\* The exchange that sets up the meter at hand goes on, or fails, or panics.
LEMMA MeterAtHand ==
  ASSUME PollerInv, pc \in {"construct", "type", "application", "selector", "write"},
         slot \in Slots, UNCHANGED <<world, slot, block, flow, outstanding>>,
         code' \in [Slots -> Kinds \cup {"none"}],
         unitId' \in AllUnits \cup {1},
         application' \in [AllUnits -> Applications],
         \/ pc' \in {"failed", "panicked"} /\ UNCHANGED unitId
         \/ /\ pc' \in {"type", "application", "selector", "write"}
            /\ unitId' = meters[slot].unit
            /\ pc' # "type" => device[unitId'].kind = "EM24"
            /\ UNCHANGED application,
         pc' = "panicked" => UNCHANGED application
  PROVE  PollerInv'
<1>0. TypeOK
  BY DEF PollerInv
<1>1. Slots' = Slots /\ meters' = meters /\ device' = device
  BY DEF Slots, meters, world, device
<1>2. TypeOK'
  BY <1>0, <1>1 DEF TypeOK, world
<1>3. /\ OwnValues' /\ OnePoll' /\ AmidInv' /\ SkippedInv'
      /\ outstanding' = {} /\ \A s \in Slots, f \in Fields : flow'[s][f] = Zero
  BY NothingStored DEF Running
<1>4. UNCHANGED application => \A s \in Slots : Configured(s) => Configured(s)'
  BY <1>1 DEF Configured
<1>5. SetupInv'
  BY <1>1, <1>3, <1>4 DEF PollerInv, SetupInv, Exchanging, Running, world
<1>6. ReadInv' /\ EM24Configured'
  BY <1>3 DEF ReadInv, EM24Configured, Running
<1> QED
  BY <1>2, <1>3, <1>5, <1>6, PlacesFoundNext DEF PollerInv

\* The steps of the setup preserve the invariant.
LEMMA SetupStep ==
  ASSUME PollerInv, Setup
  PROVE  PollerInv'
<1>0. TypeOK /\ \A s \in Slots : meters[s].unit # Nil => meters[s].unit \in AllUnits
  BY Meters DEF PollerInv, AllUnits
<1>s. /\ slot \in Slots \/ slot = Len(meters) + 1
      /\ Len(meters) \in Nat /\ Slots = 1..Len(meters)
  BY <1>0, Meters DEF TypeOK
<1>t. /\ code \in [Slots -> Kinds \cup {"none"}]
      /\ application \in [AllUnits -> Applications]
      /\ unitId \in AllUnits \cup {1}
  BY <1>0 DEF TypeOK
<1>x. ASSUME Exchanging
      PROVE  slot \in Slots /\ unitId = meters[slot].unit
  BY <1>x DEF PollerInv, SetupInv
<1>n. ASSUME Exchanging, meters[slot].unit = Nil
      PROVE  FALSE
  <2>1. slot \in Slots /\ unitId = Nil
    BY <1>n, <1>x
  <2> QED
    <3>1. Nil \notin AllUnits
      BY <1>0, Meters
    <3>2. Nil \notin 0..255 /\ 1 \in 0..255
      BY PollerAssumption
    <3> QED
      BY <2>1, <1>t, <3>1, <3>2, Zenon
<1>1. CASE Construct
  <2>1. CASE system.maker = "Victron" /\ NextMeter /\ UNCHANGED unitId
    BY <1>1, <2>1, <1>t, MeterIsSetUp DEF Construct
  <2>2. CASE system.maker = "CarloGavazzi" /\ pc' = "type"
               /\ unitId' = meters[slot].unit /\ UNCHANGED slot
    BY <1>1, <2>2, <1>0, <1>t, MeterAtHand DEF Construct
  <2> QED
    BY <1>1, <2>1, <2>2 DEF Construct
<1>2. CASE DereferenceNil
  BY <1>2, <1>t, MeterAtHand DEF DereferenceNil
<1>3. CASE ReadType
  <2>0. slot \in Slots /\ unitId = meters[slot].unit /\ unitId \in AllUnits /\ unitId # Nil
    BY <1>3, <1>0, <1>x, <1>n DEF ReadType, Exchanging
  <2>1. device[unitId].kind \in Kinds
    BY <2>0, <1>0, Meters DEF Device
  <2>2. code' \in [Slots -> Kinds \cup {"none"}]
    BY <1>3, <2>1, <1>t DEF ReadType
  <2>3. CASE device[unitId].kind = "EM24"
    BY <1>3, <2>0, <2>2, <2>3, <1>t, MeterAtHand DEF ReadType
  <2>4. CASE device[unitId].kind # "EM24"
    <3>1. \A s \in Slots : s = slot => Configured(s)'
      BY <1>3, <2>0, <2>4 DEF ReadType, Configured, meters, device, world
    <3> QED
      BY <1>3, <2>0, <2>2, <2>4, <3>1, <1>t, MeterIsSetUp DEF ReadType
  <2> QED
    BY <2>3, <2>4
<1>4. CASE ReadApplication
  <2>0. /\ slot \in Slots /\ unitId = meters[slot].unit /\ unitId # Nil
        /\ device[unitId].kind = "EM24"
    BY <1>4, <1>x, <1>n DEF ReadApplication, Exchanging, PollerInv, SetupInv
  <2>1. CASE application[unitId] # "H"
    BY <1>4, <2>0, <2>1, <1>t, MeterAtHand DEF ReadApplication
  <2>2. CASE application[unitId] = "H"
    <3>1. \A s \in Slots : s = slot => Configured(s)'
      BY <1>4, <2>0, <2>2 DEF ReadApplication, Configured, meters, device, world
    <3> QED
      BY <1>4, <2>0, <2>2, <3>1, <1>t, MeterIsSetUp DEF ReadApplication
  <2> QED
    BY <2>1, <2>2
<1>5. CASE ReadSelector
  <2>0. /\ slot \in Slots /\ unitId = meters[slot].unit /\ unitId # Nil
        /\ device[unitId].kind = "EM24"
    BY <1>5, <1>x, <1>n DEF ReadSelector, Exchanging, PollerInv, SetupInv
  <2>1. CASE ~device[unitId].locked
    BY <1>5, <2>0, <2>1, <1>t, MeterAtHand DEF ReadSelector
  <2>2. CASE device[unitId].locked
    <3>1. \A s \in Slots : s = slot => Configured(s)'
      BY <1>5, <2>0, <2>2 DEF ReadSelector, Configured, meters, device, world
    <3> QED
      BY <1>5, <2>0, <2>2, <3>1, <1>t, MeterIsSetUp DEF ReadSelector
  <2> QED
    BY <2>1, <2>2
<1>6. CASE WriteApplication
  <2>0. /\ slot \in Slots /\ unitId = meters[slot].unit /\ unitId \in AllUnits /\ unitId # Nil
    BY <1>6, <1>0, <1>x, <1>n DEF WriteApplication, Exchanging
  <2>1. /\ application' \in [AllUnits -> Applications]
        /\ \A u \in AllUnits : application[u] = "H" => application'[u] = "H"
        /\ application'[unitId] = "H"
    BY <1>6, <2>0, <1>t DEF WriteApplication, SetToH, Applications
  <2>2. \A s \in Slots : s = slot => Configured(s)'
    BY <1>6, <2>0, <2>1 DEF WriteApplication, Configured, meters, device, world
  <2> QED
    BY <1>6, <2>0, <2>1, <2>2, <1>t, MeterIsSetUp DEF WriteApplication
<1>7. CASE SetupFails
  <2>1. application' \in [AllUnits -> Applications]
    BY <1>7, <1>t DEF SetupFails, SetToH, Applications
  <2> QED
    BY <1>7, <2>1, <1>t, <1>x, MeterAtHand DEF SetupFails, Exchanging
<1>8. CASE Run
  <2>1. pc' = "wait" /\ slot = Len(meters) + 1 /\ slot' = slot
    BY <1>8, <1>s DEF Run
  <2>2. Slots' = Slots /\ meters' = meters /\ device' = device
    BY <1>8 DEF Run, Slots, meters, world, device
  <2>3. /\ OwnValues' /\ OnePoll' /\ AmidInv' /\ SkippedInv'
        /\ outstanding' = {} /\ \A s \in Slots, f \in Fields : flow'[s][f] = Zero
    BY <1>8, NothingStored DEF Run, Running
  <2>4. \A s \in Slots : s < slot
    BY <1>s, <2>1
  <2>5. TypeOK'
    BY <1>8, <2>2, <1>0 DEF Run, TypeOK, world
  <2>6. SetupInv'
    BY <2>1, <2>2, <2>3 DEF SetupInv, Exchanging, Running
  <2>7. ReadInv'
    BY <1>8, <2>1, <2>2, <2>3, <2>4 DEF Run, PollerInv, SetupInv, ReadInv, Running
  <2>8. EM24Configured'
    <3>1. system.maker = "CarloGavazzi" => \A s \in Slots : Configured(s)
      BY <1>8, <2>4 DEF Run, PollerInv, SetupInv, Running
    <3> QED
      BY <1>8, <2>2, <3>1 DEF Run, EM24Configured, Configured, world
  <2> QED
    BY <2>3, <2>5, <2>6, <2>7, <2>8, PlacesFoundNext DEF PollerInv
<1> QED
  BY <1>1, <1>2, <1>3, <1>4, <1>5, <1>6, <1>7, <1>8 DEF Setup

-----------------------------------------------------------------------------
(* The polls.                                                              *)

\* What a running system keeps.
LEMMA RunningFacts ==
  ASSUME PollerInv, pc \in Running
  PROVE  /\ TypeOK
         /\ Len(meters) \in Nat /\ Slots = 1..Len(meters) /\ slot \in 1..(Len(meters) + 1)
         /\ slot \in Nat
         /\ \A s \in Slots : meters[s].unit \in AllUnits
         /\ flow \in [Slots -> [Fields -> Value]]
         /\ outstanding \subseteq Request
         /\ IF link = "tcp" THEN outstanding \subseteq {Scraps}
            ELSE \A r \in outstanding : IsLate(r)
<1>1. TypeOK /\ \A s \in Slots : meters[s].unit # Nil
  BY DEF PollerInv, ReadInv
<1>2. \A s \in Slots : meters[s].unit \in AllUnits
  BY <1>1, Meters DEF AllUnits
<1> QED
  BY <1>1, <1>2, Meters DEF TypeOK, PollerInv, ReadInv

\* A step of the poller that leaves the system as it was set up.
LEMMA SystemStays ==
  ASSUME UNCHANGED <<world, application, code>>
  PROVE  /\ Slots' = Slots /\ meters' = meters /\ device' = device
         /\ \A s \in Slots : ReadsOf(s)' = ReadsOf(s)
         /\ MakersReads' = MakersReads
         /\ \A s \in Slots : Configured(s)' <=> Configured(s)
         /\ \A s \in Slots, f \in Fields, n \in Nat : RegisterOf(s, f, n)' <=> RegisterOf(s, f, n)
<1>1. Slots' = Slots /\ meters' = meters /\ device' = device
  BY DEF Slots, meters, world, device
<1>2. \A s \in Slots : ReadsOf(s)' = ReadsOf(s)
  BY <1>1 DEF ReadsOf, world
<1>3. MakersReads' = MakersReads
  BY DEF MakersReads, world
<1>4. \A s \in Slots : Configured(s)' <=> Configured(s)
  BY <1>1 DEF Configured
<1>5. \A s \in Slots, f \in Fields, n \in Nat : RegisterOf(s, f, n)' <=> RegisterOf(s, f, n)
  BY <1>2 DEF RegisterOf
<1> QED
  BY <1>1, <1>2, <1>3, <1>4, <1>5

\* What no step of a poll disturbs.
LEMMA PollKeeps ==
  ASSUME PollerInv, pc \in Running, pc' \in Running, UNCHANGED <<world, application, code>>
  PROVE  EM24Configured' /\ \A s \in Slots : meters[s].unit # Nil
<1>1. EM24Configured'
  BY SystemStays DEF PollerInv, EM24Configured, world
<1> QED
  BY <1>1 DEF PollerInv, ReadInv

\* A value that becomes one of an earlier poll keeps its origin.
LEMMA OldValue ==
  ASSUME NEW v \in Value, NEW w, w = [v EXCEPT !.age = "old"]
  PROVE  /\ w \in Value /\ w.age = "old" /\ w.unit = v.unit /\ w.register = v.register
         /\ v = Zero => w = Zero
<1>1. w = [unit |-> v.unit, register |-> v.register, age |-> "old"]
  BY DEF Value
<1> QED
  BY <1>1 DEF Value, Zero, Ages

\* A tick, which makes every value one of an earlier poll, preserves the invariant.
LEMMA TickStep ==
  ASSUME PollerInv, Tick
  PROVE  PollerInv'
<1>1. /\ pc \in Running /\ pc' = "poll" /\ slot' = 1 /\ UNCHANGED <<world, application, code>>
      /\ pc = "wait" /\ UNCHANGED <<block, unitId>>
  BY DEF Tick, Running
<1>2. /\ Slots' = Slots /\ meters' = meters /\ MakersReads' = MakersReads
      /\ link' = link /\ system' = system
  BY <1>1, SystemStays DEF world
<1>3. ASSUME NEW s \in Slots, NEW f \in Fields
      PROVE  /\ flow[s][f] \in Value
             /\ flow'[s][f] = [flow[s][f] EXCEPT !.age = "old"]
             /\ flow'[s][f].age = "old"
             /\ flow'[s][f].unit = flow[s][f].unit
             /\ flow'[s][f].register = flow[s][f].register
             /\ flow[s][f] = Zero => flow'[s][f] = Zero
  <2>1. flow[s][f] \in Value
    BY <1>1, <1>3, RunningFacts
  <2>2. flow'[s][f] = [flow[s][f] EXCEPT !.age = "old"]
    BY <1>3 DEF Tick
  <2> QED
    BY <2>1, <2>2, OldValue
<1>4. flow' \in [Slots -> [Fields -> Value]]
  <2>1. \A s \in Slots, f \in Fields : [flow[s][f] EXCEPT !.age = "old"] \in Value
    BY <1>3, OldValue
  <2> QED
    BY <2>1 DEF Tick
<1>5. outstanding' \subseteq Request
  <2>1. ASSUME NEW q \in Request
        PROVE  [q EXCEPT !.age = "old"] \in Request
    <3>1. [q EXCEPT !.age = "old"]
            = [unit |-> q.unit, first |-> q.first, quantity |-> q.quantity, age |-> "old"]
      BY DEF Request
    <3> QED
      BY <3>1 DEF Request, Ages
  <2> QED
    BY <1>1, <2>1, RunningFacts DEF Tick
<1>6. TypeOK'
  BY <1>1, <1>2, <1>4, <1>5, RunningFacts DEF TypeOK
<1>7. OwnValues'
  <2>1. ASSUME NEW s \in Slots, NEW f \in Fields, flow'[s][f] # Zero
        PROVE  /\ \/ flow'[s][f].unit = meters[s].unit
                  \/ flow'[s][f].unit = Nil /\ link = "tcp"
               /\ RegisterOf(s, f, flow'[s][f].register)
    <3>1. flow[s][f] # Zero
      BY <1>3, <2>1
    <3>2. /\ flow[s][f].unit = meters[s].unit \/ (flow[s][f].unit = Nil /\ link = "tcp")
          /\ RegisterOf(s, f, flow[s][f].register)
      BY <3>1 DEF PollerInv, OwnValues
    <3>3. flow'[s][f].unit = flow[s][f].unit /\ flow'[s][f].register = flow[s][f].register
      BY <1>3
    <3> QED
      BY <3>2, <3>3
  <2>2. \A s \in Slots, f \in Fields : flow'[s][f].register \in Nat
    BY <1>4 DEF Value
  <2> QED
    BY <1>1, <1>2, <2>1, <2>2, SystemStays DEF OwnValues
<1>8. OnePoll' /\ AmidInv' /\ SkippedInv'
  <2>1. \A s \in Slots : ~(s < 1)
    BY <1>1, RunningFacts
  <2>2. OnePoll'
    BY <1>1, <1>2, <1>3, <2>1 DEF OnePoll, AgeIf
  <2>3. AmidInv'
    BY <1>1 DEF AmidInv
  <2>4. SkippedInv'
    BY <1>2, <1>3 DEF SkippedInv, PollerInv
  <2> QED
    BY <2>2, <2>3, <2>4
<1>9. SetupInv'
  BY <1>1 DEF SetupInv, Exchanging, Running
<1>10. ReadInv'
  <2>1. ASSUME NEW r \in outstanding'
        PROVE  IF link = "tcp" THEN r = Scraps ELSE IsLate(r)
    <3>1. PICK q \in outstanding : r = [q EXCEPT !.age = "old"]
      BY <2>1 DEF Tick
    <3>2. q \in Request
      BY <1>1, RunningFacts
    <3>3. r.first = q.first /\ r.quantity = q.quantity /\ r.unit = q.unit
      BY <3>1, <3>2 DEF Request
    <3>4. q = Scraps => r = Scraps
      BY <3>1 DEF Scraps
    <3> QED
      BY <3>3, <3>4 DEF PollerInv, ReadInv, IsLate
  <2>2. IF link = "tcp" THEN outstanding' \subseteq {Scraps}
        ELSE \A r \in outstanding' : IsLate(r)
    BY <2>1
  <2> QED
    BY <1>1, <1>2, <2>2 DEF PollerInv, ReadInv, IsLate, Running
<1> QED
  BY <1>1, <1>6, <1>7, <1>8, <1>9, <1>10, PollKeeps, PlacesFoundNext DEF PollerInv, Running

\* The poll goes on to another meter, or ends.
LEMMA BetweenReads ==
  ASSUME PollerInv, SkipMeter \/ SetUnitId \/ EndPoll
  PROVE  PollerInv'
<1>1. /\ pc = "poll" /\ pc' \in {"poll", "read", "wait"} /\ UNCHANGED <<world, application, code>>
      /\ pc \in Running /\ pc' \in Running /\ UNCHANGED <<flow, outstanding>>
  BY DEF SkipMeter, SetUnitId, EndPoll, Running
<1>2. /\ Slots' = Slots /\ meters' = meters /\ MakersReads' = MakersReads
      /\ link' = link /\ system' = system /\ outstanding' = outstanding /\ flow' = flow
  BY <1>1, SystemStays DEF world
<1>3. OwnValues'
  <2>1. \A s \in Slots, f \in Fields : flow[s][f].register \in Nat
    BY <1>1, RunningFacts DEF Value
  <2> QED
    BY <1>1, <1>2, <2>1, SystemStays DEF PollerInv, OwnValues
<1>4. SkippedInv'
  BY <1>2 DEF PollerInv, SkippedInv
<1>5. ASSUME NEW s \in Slots, NEW f \in Fields, link = "tcp"
      PROVE  flow[s][f] = Zero \/ flow[s][f].age = AgeIf(s < slot)
  BY <1>1, <1>5 DEF PollerInv, OnePoll
<1>6. /\ \/ UNCHANGED <<block, unitId>>
         \/ block' = 1 /\ unitId' \in AllUnits
      /\ slot' \in 1..(Len(meters) + 1)
  <2>0. /\ slot \in 1..(Len(meters) + 1)
        /\ slot \in Slots => slot + 1 \in 1..(Len(meters) + 1) /\ meters[slot].unit \in AllUnits
    BY <1>1, RunningFacts
  <2>1. CASE SkipMeter
    BY <2>0, <2>1 DEF SkipMeter
  <2>2. CASE SetUnitId
    BY <2>0, <2>2 DEF SetUnitId
  <2>3. CASE EndPoll
    BY <2>0, <2>3 DEF EndPoll
  <2> QED
    BY <2>1, <2>2, <2>3
<1>7. TypeOK'
  BY <1>1, <1>2, <1>6, RunningFacts DEF TypeOK
<1>8. OnePoll' /\ AmidInv'
  <2>1. CASE SkipMeter
    <3>1. slot \in Slots /\ slot' = slot + 1 /\ pc' = "poll" /\ \A f \in Fields : flow[slot][f] = Zero
      BY <2>1 DEF SkipMeter, PollerInv, SkippedInv
    <3>2. ASSUME NEW s \in Slots, s # slot
          PROVE  (s < slot + 1) <=> (s < slot)
      BY <1>1, <3>2, RunningFacts
    <3> QED
      BY <1>1, <1>2, <1>5, <3>1, <3>2 DEF OnePoll, AmidInv
  <2>2. CASE SetUnitId
    <3>1. pc' = "read" /\ slot' = slot /\ block' = 1 /\ slot \in Nat
      BY <1>1, <2>2, RunningFacts DEF SetUnitId
    <3>2. OnePoll'
      BY <1>1, <1>2, <1>5, <3>1 DEF OnePoll
    <3>3. AmidInv'
      <4>1. ASSUME NEW f \in Fields, link = "tcp", slot \in Slots
            PROVE  flow[slot][f] = Zero \/ flow[slot][f].age = "old"
        <5>1. ~(slot < slot)
          BY <3>1
        <5> QED
          BY <1>5, <5>1, <4>1 DEF AgeIf
      <4>2. slot \in Slots
        BY <2>2 DEF SetUnitId
      <4>3. \A f \in Fields : ~ReadBefore(f, 1)'
        <5>1. \A b \in DOMAIN ReadsOf(slot) : b \in Nat /\ ~(b < 1)
          BY <1>1, <4>2, RunningFacts, ReadsAreLayouts DEF IsLayout
        <5> QED
          BY <1>1, <3>1, <4>2, <5>1, SystemStays DEF ReadBefore
      <4> QED
        BY <1>2, <3>1, <4>1, <4>2, <4>3 DEF AmidInv, AgeIf
    <3> QED
      BY <3>2, <3>3
  <2>3. CASE EndPoll
    BY <1>2, <1>5, <2>3 DEF EndPoll, OnePoll, AmidInv
  <2> QED
    BY <2>1, <2>2, <2>3
<1>9. SetupInv'
  BY <1>1, <1>2, RunningFacts DEF SetupInv, Exchanging, Running, EndPoll, SkipMeter, SetUnitId
<1>10. ReadInv'
  <2>1. pc' = "read" => /\ slot' \in Slots /\ 1 \in DOMAIN ReadsOf(slot)' /\ block' = 1
                        /\ unitId' = meters[slot'].unit /\ unitId' # 0
    <3>1. ASSUME SetUnitId
          PROVE  1 \in DOMAIN ReadsOf(slot)
      BY <1>1, <3>1, RunningFacts, ReadsAreLayouts DEF SetUnitId, IsLayout
    <3> QED
      BY <1>1, <3>1, SystemStays DEF SkipMeter, SetUnitId, EndPoll
  <2> QED
    BY <1>1, <1>2, <2>1, RunningFacts DEF PollerInv, ReadInv, IsLate
<1> QED
  BY <1>1, <1>3, <1>4, <1>7, <1>8, <1>9, <1>10, PollKeeps, PlacesFoundNext DEF PollerInv

\* What is known of the read at hand.
LEMMA ReadFacts ==
  ASSUME PollerInv, pc = "read"
  PROVE  /\ slot \in Slots /\ block \in DOMAIN ReadsOf(slot) /\ block \in Nat
         /\ unitId = meters[slot].unit /\ unitId # 0 /\ unitId \in AllUnits
         /\ DOMAIN ReadsOf(slot) = 1..Len(ReadsOf(slot)) /\ Len(ReadsOf(slot)) \in 1..2
         /\ IsRead(This) /\ This \in MakersReads
         /\ Own \in Request
<1>1. /\ slot \in Slots /\ block \in DOMAIN ReadsOf(slot)
      /\ unitId = meters[slot].unit /\ unitId # 0
  BY DEF PollerInv, ReadInv
<1>2. TypeOK /\ unitId \in AllUnits
  BY <1>1, RunningFacts DEF Running
<1>3. IsLayout(ReadsOf(slot)) /\ This \in MakersReads
  BY <1>1, <1>2, ReadsAreLayouts DEF This
<1>4. IsRead(This)
  BY <1>1, <1>3 DEF IsLayout, This
<1> QED
  BY <1>1, <1>2, <1>3, <1>4 DEF IsLayout, IsRead, Own, Request, Ages

\* The values of the read at hand are set, each to 0 or to what its own register of
\* its own unit held, or over TCP to scraps, there just now.
LEMMA ReadStep ==
  ASSUME PollerInv, pc = "read", UNCHANGED <<world, application, unitId, code>>,
         NextRead, outstanding' \in Missed,
         NEW values \in [DOMAIN This.place -> Value], Store(values),
         \A f \in DOMAIN This.place :
           \/ values[f] = Zero
           \/ /\ values[f].unit = unitId \/ (values[f].unit = Nil /\ link = "tcp")
              /\ values[f].register = This.first + This.place[f]
              /\ link = "tcp" => values[f].age = "new"
  PROVE  PollerInv'
<1>1. /\ pc \in Running /\ TypeOK /\ Len(meters) \in Nat /\ Slots = 1..Len(meters)
      /\ slot \in Nat /\ flow \in [Slots -> [Fields -> Value]] /\ outstanding \subseteq Request
  BY RunningFacts DEF Running
<1>2. /\ slot \in Slots /\ block \in DOMAIN ReadsOf(slot) /\ block \in Nat
      /\ unitId = meters[slot].unit /\ unitId # 0 /\ unitId \in AllUnits
      /\ DOMAIN ReadsOf(slot) = 1..Len(ReadsOf(slot)) /\ Len(ReadsOf(slot)) \in 1..2
      /\ IsRead(This) /\ This \in MakersReads /\ Own \in Request
  BY ReadFacts
<1>3. /\ Slots' = Slots /\ meters' = meters /\ MakersReads' = MakersReads
      /\ link' = link /\ system' = system
  BY SystemStays DEF world
<1>4. /\ flow' \in [Slots -> [Fields -> Value]]
      /\ \A s \in Slots, f \in Fields :
           flow'[s][f] = IF s = slot /\ f \in DOMAIN This.place THEN values[f] ELSE flow[s][f]
  <2>1. [f \in Fields |-> IF f \in DOMAIN This.place THEN values[f] ELSE flow[slot][f]]
          \in [Fields -> Value]
    BY <1>1, <1>2
  <2> QED
    BY <1>1, <1>2, <2>1 DEF Store
<1>5. \/ /\ pc' = "read" /\ slot' = slot /\ block' = block + 1 /\ block' \in DOMAIN ReadsOf(slot)
      \/ /\ pc' = "poll" /\ slot' = slot + 1 /\ block' = block /\ block = Len(ReadsOf(slot))
  <2>1. ASSUME NEW n \in 1..2, block \in 1..n
        PROVE  block < n => block + 1 \in 1..n
    BY <2>1
  <2>2. ASSUME NEW n \in 1..2, block \in 1..n
        PROVE  ~(block < n) => block = n
    BY <2>2
  <2>3. block \in 1..Len(ReadsOf(slot)) /\ Len(ReadsOf(slot)) \in 1..2
    BY <1>2
  <2> QED
    BY <1>2, <2>1, <2>2, <2>3, Zenon DEF NextRead
<1>6. pc' \in Running /\ slot' \in 1..(Len(meters) + 1) /\ block' \in 0..2
  <2>1. block \in 0..2
    BY <1>1 DEF TypeOK
  <2>2. block' = block + 1 => block' \in 0..2
    <3>1. ASSUME NEW n \in 1..2, block + 1 \in 1..n PROVE block + 1 \in 0..2
      BY <3>1
    <3> QED
      BY <1>2, <1>5, <2>1, <3>1
  <2> QED
    BY <1>1, <1>2, <1>5, <2>1, <2>2 DEF Running
<1>7. outstanding' \subseteq Request
  <2>1. Scraps \in Request
    BY DEF Scraps, Request, Ages
  <2> QED
    BY <1>1, <1>2, <2>1 DEF Missed
<1>8. TypeOK'
  BY <1>1, <1>2, <1>3, <1>4, <1>5, <1>6, <1>7 DEF TypeOK
<1>9. OwnValues'
  <2>1. ASSUME NEW s \in Slots, NEW f \in Fields, flow'[s][f] # Zero
        PROVE  /\ \/ flow'[s][f].unit = meters[s].unit
                  \/ flow'[s][f].unit = Nil /\ link = "tcp"
               /\ RegisterOf(s, f, flow'[s][f].register)
    <3>1. CASE s = slot /\ f \in DOMAIN This.place
      BY <1>2, <1>4, <2>1, <3>1 DEF RegisterOf, This
    <3>2. CASE ~(s = slot /\ f \in DOMAIN This.place)
      BY <1>4, <2>1, <3>2 DEF PollerInv, OwnValues
    <3> QED
      BY <3>1, <3>2
  <2>2. \A s \in Slots, f \in Fields : flow'[s][f].register \in Nat
    BY <1>4 DEF Value
  <2> QED
    BY <1>3, <2>1, <2>2, SystemStays DEF OwnValues
<1>10. SkippedInv'
  BY <1>2, <1>3, <1>4 DEF PollerInv, SkippedInv
\* What has been read of the meter at hand is new.
<1>11. ASSUME link = "tcp", NEW f \in Fields
       PROVE  flow'[slot][f] = Zero \/ flow'[slot][f].age = AgeIf(ReadBefore(f, block + 1))
  <2>1. ReadBefore(f, block + 1) <=> ReadBefore(f, block) \/ f \in DOMAIN This.place
    <3>1. \A b \in DOMAIN ReadsOf(slot) : b \in Nat /\ (b < block + 1 <=> b < block \/ b = block)
      BY <1>2
    <3> QED
      BY <1>2, <3>1 DEF ReadBefore, This
  <2>2. CASE f \in DOMAIN This.place
    BY <1>2, <1>4, <1>11, <2>1, <2>2 DEF AgeIf
  <2>3. CASE f \notin DOMAIN This.place
    <3>1. flow[slot][f] = Zero \/ flow[slot][f].age = AgeIf(ReadBefore(f, block))
      BY <1>11 DEF PollerInv, AmidInv
    <3> QED
      BY <1>2, <1>4, <2>1, <2>3, <3>1 DEF AgeIf
  <2> QED
    BY <2>2, <2>3
<1>12. AmidInv'
  <2>1. CASE pc' = "read" /\ slot' = slot /\ block' = block + 1
    <3>1. \A f \in Fields : ReadBefore(f, block)' <=> ReadBefore(f, block + 1)
      BY <1>2, <2>1, SystemStays DEF ReadBefore
    <3> QED
      BY <1>3, <1>11, <2>1, <3>1 DEF AmidInv, AgeIf
  <2>2. CASE pc' = "poll"
    BY <2>2 DEF AmidInv
  <2> QED
    BY <1>5, <2>1, <2>2
<1>13. OnePoll'
  <2>1. ASSUME link = "tcp", NEW s \in Slots, NEW f \in Fields, s # slot
        PROVE  flow'[s][f] = Zero \/ flow'[s][f].age = AgeIf(s < slot)
    BY <1>4, <2>1 DEF PollerInv, OnePoll
  <2>2. CASE pc' = "read" /\ slot' = slot
    BY <1>3, <2>1, <2>2 DEF OnePoll
  <2>3. CASE pc' = "poll" /\ slot' = slot + 1 /\ block = Len(ReadsOf(slot))
    <3>1. ASSUME link = "tcp", NEW f \in Fields, flow'[slot][f] # Zero
          PROVE  flow'[slot][f].age = "new"
      <4>1. PICK b \in DOMAIN ReadsOf(slot) : f \in DOMAIN ReadsOf(slot)[b].place
        <5>1. CASE f \in DOMAIN This.place
          BY <1>2, <5>1 DEF This
        <5>2. CASE f \notin DOMAIN This.place
          <6>1. flow[slot][f] # Zero
            BY <1>2, <1>4, <3>1, <5>2
          <6>2. RegisterOf(slot, f, flow[slot][f].register)
            BY <1>2, <6>1 DEF PollerInv, OwnValues
          <6> QED
            BY <6>2 DEF RegisterOf
        <5> QED
          BY <5>1, <5>2
      <4>2. ReadBefore(f, block + 1)
        BY <1>2, <2>3, <4>1 DEF ReadBefore
      <4> QED
        BY <1>11, <3>1, <4>2 DEF AgeIf
    <3>2. \A s \in Slots : s < slot + 1 <=> s < slot \/ s = slot
      BY <1>1
    <3>3. ASSUME link = "tcp", NEW s \in Slots, NEW f \in Fields
          PROVE  flow'[s][f] = Zero \/ flow'[s][f].age = AgeIf(s < slot + 1)
      <4>1. CASE s = slot
        BY <3>1, <3>2, <3>3, <4>1 DEF AgeIf
      <4>2. CASE s # slot
        BY <2>1, <3>2, <3>3, <4>2 DEF AgeIf
      <4> QED
        BY <4>1, <4>2
    <3> QED
      BY <1>3, <2>3, <3>3 DEF OnePoll
  <2> QED
    BY <1>5, <2>2, <2>3
<1>14. SetupInv'
  BY <1>5 DEF SetupInv, Exchanging, Running
<1>15. ReadInv'
  <2>1. IsLate(Own)
    BY <1>1, <1>2, Meters DEF IsLate, Own
  <2>2. IF link = "tcp" THEN outstanding' \subseteq {Scraps}
        ELSE \A r \in outstanding' : IsLate(r)
    BY <1>1, <2>1 DEF PollerInv, ReadInv, Missed, TypeOK
  <2>3. pc' = "read" => block' \in DOMAIN ReadsOf(slot) /\ slot' = slot /\ ReadsOf(slot)' = ReadsOf(slot)
    BY <1>2, <1>5, SystemStays
  <2> QED
    BY <1>1, <1>2, <1>3, <2>2, <2>3 DEF PollerInv, ReadInv, IsLate
<1> QED
  BY <1>1, <1>6, <1>8, <1>9, <1>10, <1>12, <1>13, <1>14, <1>15, PollKeeps, PlacesFoundNext
  DEF PollerInv

\* So does a read that is answered, by its own answer or a late one.
LEMMA ReadAnsweredStep ==
  ASSUME PollerInv, ReadAnswered
  PROVE  PollerInv'
<1>1. pc = "read" /\ NextRead /\ UNCHANGED <<world, application, unitId, code>>
  BY DEF ReadAnswered
<1>2. PICK r \in {Own} \cup Late :
        /\ Store(ValuesOf(r))
        /\ outstanding' \in (IF r = Own THEN {outstanding \ {Scraps}} ELSE Missed)
  BY DEF ReadAnswered
<1>3. /\ unitId \in AllUnits /\ IsRead(This) /\ This \in MakersReads /\ Own \in Request
      /\ outstanding \subseteq Request /\ link \in {"tcp", "rtu"}
      /\ IF link = "tcp" THEN outstanding \subseteq {Scraps}
         ELSE \A q \in outstanding : IsLate(q)
  BY <1>1, ReadFacts, RunningFacts DEF Running, TypeOK
\* Scraps are no answer of any unit.
<1>s. Scraps.unit = Nil /\ Nil \notin AllUnits
  <2>1. TypeOK
    BY DEF PollerInv
  <2> QED
    BY <2>1, Meters DEF Scraps
<1>4. outstanding' \in Missed
  <2>1. CASE link = "tcp"
    BY <1>2, <1>3, <2>1 DEF Missed
  <2>2. CASE link = "rtu"
    <3>1. Scraps \notin outstanding
      BY <1>3, <1>s, <2>2 DEF IsLate
    <3> QED
      BY <1>2, <2>2, <3>1 DEF Missed
  <2> QED
    BY <1>3, <2>1, <2>2
\* An answer the client takes is of the place it asked for, or over TCP scraps.
<1>5. /\ r \in Request
      /\ r.unit = unitId \/ (r.unit = Nil /\ link = "tcp")
      /\ r.first = This.first
      /\ link = "tcp" => r.age = "new"
  <2>1. CASE r = Own
    BY <1>3, <2>1 DEF Own
  <2>2. CASE r = [Own EXCEPT !.unit = Nil] /\ Scraps \in outstanding
    <3>1. link = "tcp"
      BY <1>3, <1>s, <2>2 DEF IsLate
    <3> QED
      BY <1>3, <2>2, <3>1 DEF Own, Request
  <2>3. CASE r \in outstanding /\ r.unit = unitId /\ r.quantity = This.quantity
    <3>1. link # "tcp" /\ IsLate(r)
      BY <1>3, <1>s, <2>3
    <3>2. PICK read \in MakersReads : r.first = read.first /\ r.quantity = read.quantity
      BY <3>1 DEF IsLate
    <3>3. read.first = This.first
      BY <1>3, <2>3, <3>2, SizeTellsPlace
    <3> QED
      BY <1>3, <2>3, <3>1, <3>2, <3>3
  <2> QED
    BY <1>2, <2>1, <2>2, <2>3 DEF Late
<1>7. ASSUME NEW f \in DOMAIN This.place
      PROVE  /\ ValuesOf(r)[f] \in Value
             /\ \/ ValuesOf(r)[f].unit = unitId
                \/ ValuesOf(r)[f].unit = Nil /\ link = "tcp"
             /\ ValuesOf(r)[f].register = This.first + This.place[f]
             /\ link = "tcp" => ValuesOf(r)[f].age = "new"
  <2>1. ValuesOf(r)[f] = [unit |-> r.unit, register |-> r.first + This.place[f], age |-> r.age]
    BY <1>7 DEF ValuesOf
  <2>2. This.first \in Nat /\ This.place[f] \in Nat /\ r.age \in Ages
    BY <1>3, <1>5, <1>7 DEF IsRead, Request
  <2> QED
    BY <1>3, <1>5, <2>1, <2>2 DEF Value
<1>8. ValuesOf(r) \in [DOMAIN This.place -> Value]
  BY <1>7 DEF ValuesOf
<1> QED
  BY <1>1, <1>2, <1>4, <1>7, <1>8, ReadStep

\* And a read that fails, for which zeros are stored.
LEMMA ReadFailsStep ==
  ASSUME PollerInv, ReadFails
  PROVE  PollerInv'
<1>1. /\ Zeros \in [DOMAIN This.place -> Value]
      /\ \A f \in DOMAIN This.place : Zeros[f] = Zero
  BY Meters DEF Zeros, PollerInv
<1> QED
  BY <1>1, ReadStep DEF ReadFails

-----------------------------------------------------------------------------
(* The theorems.                                                           *)

\* Every reachable state of setup and polling satisfies the inductive invariant.
THEOREM PollerInvariance == Spec => []PollerInv
<1>1. PollerInv /\ [Next]_vars => PollerInv'
  <2> SUFFICES ASSUME PollerInv, [Next]_vars PROVE PollerInv'
    OBVIOUS
  <2>1. CASE Setup
    BY <2>1, SetupStep
  <2>2. CASE Poll
    BY <2>2, TickStep, BetweenReads, ReadAnsweredStep, ReadFailsStep DEF Poll
  <2>3. CASE UNCHANGED vars
    <3>1. /\ UNCHANGED <<link, system, application, unitId, code, pc, slot, block, flow, outstanding>>
          /\ UNCHANGED <<world, application, code>>
      BY <2>3 DEF vars, world
    <3>2. /\ Slots' = Slots /\ meters' = meters /\ device' = device
          /\ \A s \in Slots : ReadsOf(s)' = ReadsOf(s)
          /\ MakersReads' = MakersReads
          /\ \A s \in Slots : Configured(s)' <=> Configured(s)
      BY <3>1, SystemStays
    <3>3. TypeOK' /\ PlaceInv'
      BY <3>1, <3>2, PlacesFoundNext DEF PollerInv, TypeOK
    <3>4. SetupInv'
      BY <3>1, <3>2 DEF PollerInv, SetupInv, Exchanging
    <3>5. ReadInv'
      BY <3>1, <3>2 DEF PollerInv, ReadInv, IsLate
    <3>6. SkippedInv' /\ OnePoll' /\ EM24Configured'
      BY <3>1, <3>2 DEF PollerInv, SkippedInv, OnePoll, EM24Configured
    <3>7. OwnValues'
      BY <3>1, <3>2 DEF PollerInv, OwnValues, RegisterOf
    <3>8. AmidInv'
      <4>1. CASE pc = "read"
        <5>1. \A f \in Fields : ReadBefore(f, block)' <=> ReadBefore(f, block)
          BY <3>1, <3>2, <4>1 DEF PollerInv, ReadInv, ReadBefore
        <5> QED
          BY <3>1, <5>1 DEF PollerInv, AmidInv, AgeIf
      <4>2. CASE pc # "read"
        BY <3>1, <4>2 DEF AmidInv
      <4> QED
        BY <4>1, <4>2
    <3> QED
      BY <3>3, <3>4, <3>5, <3>6, <3>7, <3>8 DEF PollerInv
  <2> QED
    BY <2>1, <2>2, <2>3 DEF Next
<1> QED
  BY <1>1, InitInv, PTL DEF Spec

\* A value is 0 or of its own register and unit, whatever comes late
\* (CarloGavazzi.go:188-208, Victron.go:12-45).
THEOREM ValuesAreOwn == Spec => []OwnValues
<1>1. PollerInv => OwnValues
  BY DEF PollerInv
<1> QED
  BY <1>1, PollerInvariance, PTL

\* Over TCP a meter's values are of one poll (ModbusSystem.go:98-113).
THEOREM ValuesAreOfOnePoll == Spec => []OnePoll
<1>1. PollerInv => OnePoll
  BY DEF PollerInv
<1> QED
  BY <1>1, PollerInvariance, PTL

\* A system that runs has set up its EM24 (CarloGavazzi.go:152-174).
THEOREM EM24sAreConfigured == Spec => []EM24Configured
<1>1. PollerInv => EM24Configured
  BY DEF PollerInv
<1> QED
  BY <1>1, PollerInvariance, PTL

-----------------------------------------------------------------------------
(* That a poll goes on: the half of PolledAgain that rests on no fairness. *)

\* How many steps a poll may yet take: three for a meter, less the reads begun.
PollLeft == IF pc = "poll" THEN 3 * (Len(meters) + 1 - slot) + 1
            ELSE IF pc = "read" THEN 3 * (Len(meters) + 1 - slot) + 1 - block
            ELSE 0

\* From meter to meter, none left out but those without a unit, and a meter is left
\* only after the last of its reads.
InOrder == slot' = slot \/ /\ slot' = slot + 1
                           /\ \/ pc = "poll" /\ meters[slot].unit = 0
                              \/ pc = "read" /\ block = Len(ReadsOf(slot))

\* How the next read is come to.
LEMMA NextReadGoesOn ==
  ASSUME PollerInv, pc = "read", NextRead, UNCHANGED <<world, unitId, code>>
  PROVE  PollLeft \in Nat /\ PollLeft' < PollLeft /\ InOrder /\ pc' \in {"poll", "read"}
<1>1. /\ slot \in Slots /\ block \in Nat /\ 1 <= block /\ block <= Len(ReadsOf(slot))
      /\ Len(ReadsOf(slot)) \in 1..2
  BY ReadFacts
<1>2. Len(meters) \in Nat /\ Slots = 1..Len(meters)
  BY RunningFacts DEF Running
<1>3. meters' = meters
  BY DEF meters, world
<1>4. slot \in Nat /\ slot <= Len(meters)
  BY <1>1, <1>2
<1>5. Len(ReadsOf(slot)) \in Nat /\ Len(ReadsOf(slot)) <= 2 /\ block <= 2
  <2>1. ASSUME NEW n, n \in 1..2, block <= n PROVE n \in Nat /\ n <= 2 /\ block <= 2
    BY <1>1, <2>1
  <2>2. QED BY <1>1, <2>1
<1>6. CASE block < Len(ReadsOf(slot))
  <2>1. block' = block + 1 /\ pc' = "read" /\ slot' = slot
    BY <1>6 DEF NextRead
  <2>2. QED BY <1>1, <1>2, <1>3, <1>4, <1>5, <2>1 DEF PollLeft, InOrder
<1>7. CASE ~ (block < Len(ReadsOf(slot)))
  <2>1. pc' = "poll" /\ slot' = slot + 1 /\ block = Len(ReadsOf(slot))
    BY <1>1, <1>5, <1>7 DEF NextRead
  <2>2. QED BY <1>1, <1>2, <1>3, <1>4, <1>5, <2>1 DEF PollLeft, InOrder
<1> QED
  BY <1>6, <1>7

\* Nearer to its end, which does not come before the last meter has had its turn.
PollStep == pc \in {"poll", "read"} =>
              /\ PollLeft \in Nat /\ PollLeft' < PollLeft
              /\ InOrder
              /\ pc' = "wait" => slot = Len(meters) + 1
              /\ pc' \in {"poll", "read", "wait"}

\* Once a poll has begun every step brings its end nearer, whichever reads fail and
\* whatever is answered late, and no meter is left out (ModbusSystem.go:96-117).
THEOREM PollsGoOn == Spec => [][PollStep]_vars
<1> USE DEF PollStep
<1>1. ASSUME PollerInv, [Next]_vars PROVE [PollStep]_vars
  <2>1. SUFFICES ASSUME Next, pc \in {"poll", "read"} PROVE PollStep
    BY <1>1
  <2>2. /\ Len(meters) \in Nat /\ Slots = 1..Len(meters)
        /\ slot \in Nat /\ slot <= Len(meters) + 1
    BY <1>1, <2>1, RunningFacts DEF Running
  <2>3. ~ Setup
    BY <2>1 DEF Setup, Construct, DereferenceNil, ReadType, ReadApplication, ReadSelector,
       WriteApplication, SetupFails, Exchanging, Run
  <2>4. CASE Tick
    BY <2>1, <2>4 DEF Tick
  <2>5. CASE SkipMeter
    <3>1. /\ pc = "poll" /\ slot \in Slots /\ meters[slot].unit = 0
          /\ slot' = slot + 1 /\ pc' = "poll" /\ meters' = meters
      BY <2>5 DEF SkipMeter, meters, world
    <3>2. QED BY <2>2, <3>1 DEF PollLeft, InOrder
  <2>6. CASE SetUnitId
    <3>1. pc = "poll" /\ slot' = slot /\ pc' = "read" /\ block' = 1 /\ meters' = meters
      BY <2>6 DEF SetUnitId, meters, world
    <3>2. QED BY <2>2, <3>1 DEF PollLeft, InOrder
  <2>7. CASE ReadAnswered
    <3>1. pc = "read" /\ NextRead /\ UNCHANGED <<world, unitId, code>>
      BY <2>7 DEF ReadAnswered
    <3>2. QED BY <1>1, <3>1, NextReadGoesOn
  <2>8. CASE ReadFails
    <3>1. pc = "read" /\ NextRead /\ UNCHANGED <<world, unitId, code>>
      BY <2>8 DEF ReadFails
    <3>2. QED BY <1>1, <3>1, NextReadGoesOn
  <2>9. CASE EndPoll
    <3>1. pc = "poll" /\ slot \notin Slots /\ slot' = slot /\ pc' = "wait"
      BY <2>9 DEF EndPoll
    <3>2. slot = Len(meters) + 1
      BY <2>1, <2>2, <3>1, <1>1 DEF PollerInv, TypeOK
    <3>3. QED BY <2>2, <3>1, <3>2 DEF PollLeft, InOrder
  <2> QED
    BY <2>1, <2>3, <2>4, <2>5, <2>6, <2>7, <2>8, <2>9 DEF Next, Poll
<1> QED
  BY <1>1, PollerInvariance, PTL DEF Spec

=============================================================================
