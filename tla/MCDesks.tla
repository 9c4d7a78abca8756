------------------------------- MODULE MCDesks -------------------------------
(* The evidence desk the warehousing and export desks share, what the         *)
(* companies behind the desks run afterwards (a warehouse floor, a fleet), a  *)
(* mine's papers, and the stored files behind such rows.  The parts share no  *)
(* state: a behaviour is one of the chosen part.                              *)
EXTENDS EvidenceDesk, WarehouseFloor, FleetOperations, StoredFiles,
        MiningPapers, TLC

VARIABLE part

MCFacilities == {<<"w1", 1>>, <<"w1", 2>>, <<"w2", 1>>}
MCSiteOf == [f \in MCFacilities |-> f[1]]
MCNamesOf == [r \in Rows |-> StoredNames]

companyVars == <<floorVars, fleetVars, filesVars>>
desksVars == <<part, vars, companyVars, papersVars>>

DesksInit ==
  /\ part \in {"desk", "floor", "fleet", "files", "papers"}
  /\ Init /\ FloorInit /\ FleetInit /\ FilesInit /\ PapersInit
  /\ part # "files" => \A r \in Rows : named[r] = Empty

DesksNext ==
  /\ UNCHANGED part
  /\ \/ part = "desk" /\ Next /\ UNCHANGED <<companyVars, papersVars>>
     \/ part = "floor" /\ FloorNext /\ UNCHANGED <<vars, fleetVars, filesVars, papersVars>>
     \/ part = "fleet" /\ FleetNext /\ UNCHANGED <<vars, floorVars, filesVars, papersVars>>
     \/ part = "files" /\ FilesNext /\ UNCHANGED <<vars, floorVars, fleetVars, papersVars>>
     \/ part = "papers" /\ PapersNext /\ UNCHANGED <<vars, companyVars>>

DesksSpec == DesksInit /\ [][DesksNext]_desksVars

\* Every part's state is of its type.
DesksTypeOK ==
  /\ part = "desk" => DeskTypeOK
  /\ part = "floor" => FloorTypeOK
  /\ part = "fleet" => FleetTypeOK
  /\ part = "files" => FilesTypeOK
  /\ part = "papers" => PapersTypeOK

\* Papers: a PATCH of a request overlaps a review, a replacement or an answer, and
\* those three overlap each other.
PatchBesideOne ==
  Cardinality({r \in {1, 2, 3} : \/ r = 1 /\ judging # NoCopy
                                 \/ r = 2 /\ replacing # NoCopy
                                 \/ r = 3 /\ \E q \in Asks : answering[q] # Idle}) > 1
    => \A q \in Asks : patching[q] = Idle

\* Document types are interchangeable, and so are sections; no property of the
\* run is a liveness property.
DeskSymmetry == Permutations(Types) \cup Permutations(Domains)

\* A lot is in one place and in its own warehouse, and a fleet's deliveries,
\* orders and movements tell one story, whatever requests overlap
\* (WarehouseFloor.FloorInOneWarehouse, FleetOperations.FleetAgrees); and
\* every part's state is of its type.
OperationsHold == DesksTypeOK /\ FloorInOneWarehouse /\ FleetAgrees
=============================================================================
