------------------------------ MODULE MCPoller ------------------------------
(* Instances of Poller for TLC.                                             *)
EXTENDS Poller

Grid(unit) == [role |-> "grid", unit |-> unit]
Pvs(units) == [i \in DOMAIN units |-> [role |-> "pv", unit |-> units[i]]]

Is(kind, locked, app) == [kind |-> kind, locked |-> locked, app |-> app]
Any == {Is("threePhase", FALSE, "other"), Is("onePhase", FALSE, "other")}
         \cup {Is("EM24", l, a) : l \in BOOLEAN, a \in Applications}
Two == {Is("EM24", FALSE, "other"), Is("onePhase", FALSE, "other")}

\* No device has unit 0, which may read as anything.
Over(maker, l, first, second) ==
  {LET is == [u \in AllUnits |-> CASE u = 1 -> a [] u = 2 -> b [] OTHER -> Is("EM24", FALSE, "other")]
   IN  [maker |-> maker, meters |-> l,
        device |-> [u \in AllUnits |-> [kind |-> is[u].kind, locked |-> is[u].locked]],
        application |-> [u \in AllUnits |-> is[u].app]] : a \in first, b \in second}

One == {Is("onePhase", FALSE, "other")}

\* What the constructors pass on, and lists of pvs without nil entries.
AllSystems ==
  UNION {Over("Victron", l, One, One) :
           l \in {<< >>, <<Grid(1)>>, <<Grid(1)>> \o Pvs(PvConfigs(<<2>>)),
                  <<Grid(1)>> \o Pvs(<<2>>), <<Grid(0)>> \o Pvs(<<1, 1>>),
                  <<Grid(1)>> \o Pvs(<<1>>)}}
    \cup UNION {Over("CarloGavazzi", l, Any, One) :
                  l \in {<< >>, <<Grid(0)>>, <<Grid(1)>> \o Pvs(PvConfigs(<<2>>))}}
    \cup Over("CarloGavazzi", Pvs(<<1, 1>>), Two, One)
    \cup Over("CarloGavazzi", <<Grid(1)>> \o Pvs(<<2>>), Any, Two)
    \cup Over("CarloGavazzi", <<Grid(0)>> \o Pvs(<<2>>), One, Two)
=============================================================================
