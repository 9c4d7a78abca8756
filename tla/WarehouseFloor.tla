---------------------------- MODULE WarehouseFloor ----------------------------
(***************************************************************************)
(* What a warehouse operator keeps beside its application: storage zones   *)
(* in facilities, lots in zones, and requests to release lots.             *)
(*                                                                         *)
(* A write is validated against the other rows first; only then does it    *)
(* lock the warehouse's application, when there is one, and require it to  *)
(* be editable.  The rows a validation read are not locked.                *)
(***************************************************************************)
CONSTANTS
  Warehouses, Facilities,
  SiteOf,     \* [Facilities -> Warehouses]: a facility never changes hands
  Zones, Lots, Releases,
  NoRow

VARIABLES
  application,  \* [Warehouses -> "none", "editable" or "closed" to edits]
  zone,         \* [Zones -> row or NoRow]
  lot,          \* [Lots -> row or NoRow]
  release,      \* [Releases -> row or NoRow]
  writing       \* the lot write validated and not yet saved, or NoRow

floorVars == <<application, zone, lot, release, writing>>

-----------------------------------------------------------------------------
StorageZone == [warehouse : Warehouses, facility : Facilities]
LotStatus == {"stored", "quarantined", "dispatched"}
InventoryLot == [warehouse : Warehouses, facility : Facilities, zone : Zones, status : LotStatus]
ReleaseRequest == [lot : Lots, warehouse : Warehouses, status : {"pending", "authorised", "declined"}]

ASSUME FloorAssumption ==
  /\ SiteOf \in [Facilities -> Warehouses]
  /\ NoRow \notin StorageZone \cup InventoryLot \cup ReleaseRequest \cup [id : Lots, row : InventoryLot]

Writable(w) == application[w] # "closed"
Locked(l) == writing # NoRow /\ writing.id = l

-----------------------------------------------------------------------------
\* A warehouse applies, and its desk opens and closes its file to edits.
Proceed(w) ==
  /\ \E s \in {"editable", "closed"} : application' = [application EXCEPT ![w] = s]
  /\ UNCHANGED <<zone, lot, release, writing>>

ZoneValidated(row) == SiteOf[row.facility] = row.warehouse

\* A zone is added or moved to another facility, never to another warehouse.
\* The lots stored in it are not looked at.
SaveZone(z, row) ==
  /\ Writable(row.warehouse) /\ ZoneValidated(row)
  /\ zone[z] # NoRow => zone[z].warehouse = row.warehouse
  /\ zone' = [zone EXCEPT ![z] = row]
  /\ UNCHANGED <<application, lot, release, writing>>

LotValidated(row) ==
  /\ zone[row.zone] # NoRow
  /\ SiteOf[row.facility] = row.warehouse /\ zone[row.zone].warehouse = row.warehouse
  /\ zone[row.zone].facility = row.facility

\* A lot being amended is locked from here on, a new one is not yet there.
WriteLot(l, row) ==
  /\ writing = NoRow
  /\ LotValidated(row)
  /\ lot[l] # NoRow => lot[l].warehouse = row.warehouse
  /\ writing' = [id |-> l, row |-> row]
  /\ UNCHANGED <<application, zone, lot, release>>

SaveLot ==
  /\ writing # NoRow /\ Writable(writing.row.warehouse)
  /\ lot' = [lot EXCEPT ![writing.id] = writing.row]
  /\ writing' = NoRow
  /\ UNCHANGED <<application, zone, release>>

RefuseLot ==
  /\ writing # NoRow /\ ~Writable(writing.row.warehouse)
  /\ writing' = NoRow
  /\ UNCHANGED <<application, zone, lot, release>>

\* A release is requested, or an editable warehouse's request is amended.
\* Its decision columns are not among those sent.
SaveRelease(r, l) ==
  /\ lot[l] # NoRow /\ Writable(lot[l].warehouse)
  /\ release[r] # NoRow => release[r].warehouse = lot[l].warehouse
  /\ release' = [release EXCEPT ![r] =
       [lot |-> l, warehouse |-> lot[l].warehouse,
        status |-> IF release[r] = NoRow THEN "pending" ELSE release[r].status]]
  /\ UNCHANGED <<application, zone, lot, writing>>

\* Whatever the lot's status is, and whatever the application's.
DecideRelease(r, s) ==
  /\ release[r] # NoRow /\ release[r].status = "pending"
  /\ s = "authorised" => ~Locked(release[r].lot)
  /\ release' = [release EXCEPT ![r].status = s]
  /\ lot' = IF s = "authorised" THEN [lot EXCEPT ![release[r].lot].status = "dispatched"] ELSE lot
  /\ UNCHANGED <<application, zone, writing>>

-----------------------------------------------------------------------------
FloorInit ==
  /\ application = [w \in Warehouses |-> "none"]
  /\ zone = [z \in Zones |-> NoRow] /\ lot = [l \in Lots |-> NoRow]
  /\ release = [r \in Releases |-> NoRow] /\ writing = NoRow

FloorNext ==
  \/ \E w \in Warehouses : Proceed(w)
  \/ \E z \in Zones, row \in StorageZone : SaveZone(z, row)
  \/ \E l \in Lots, row \in InventoryLot : WriteLot(l, row)
  \/ SaveLot \/ RefuseLot
  \/ \E r \in Releases : (\E l \in Lots : SaveRelease(r, l))
                         \/ \E s \in {"authorised", "declined"} : DecideRelease(r, s)

FloorSpec == FloorInit /\ [][FloorNext]_floorVars

-----------------------------------------------------------------------------
FloorTypeOK ==
  /\ application \in [Warehouses -> {"none", "editable", "closed"}]
  /\ zone \in [Zones -> StorageZone \cup {NoRow}]
  /\ lot \in [Lots -> InventoryLot \cup {NoRow}]
  /\ release \in [Releases -> ReleaseRequest \cup {NoRow}]
  /\ writing \in [id : Lots, row : InventoryLot] \cup {NoRow}

\* Whatever zones are moved while a lot is being written, a lot's facility
\* and zone, and the lot a release names, are the same warehouse's.
FloorInOneWarehouse ==
  /\ \A l \in Lots : lot[l] # NoRow =>
       /\ SiteOf[lot[l].facility] = lot[l].warehouse
       /\ zone[lot[l].zone] # NoRow /\ zone[lot[l].zone].warehouse = lot[l].warehouse
  /\ \A r \in Releases : release[r] # NoRow => lot[release[r].lot].warehouse = release[r].warehouse

\* "Choose a zone in the selected facility.": a lot lies in a zone of its
\* own facility.
LotInItsZone == \A l \in Lots : lot[l] # NoRow => zone[lot[l].zone].facility = lot[l].facility
=============================================================================
