--------------------------- MODULE FleetOperations ---------------------------
(***************************************************************************)
(* The operations side of the logistics vertical: transport requests,      *)
(* the movements scheduled for them, the trucks (vehicle or driver) put on *)
(* a movement, and the deliveries movements end in.                        *)
(*                                                                         *)
(* Every write locks its own row and nothing else.  A PATCH may send any   *)
(* column, a status too, and is checked against nothing; what a handler    *)
(* promises is therefore stated of rows no PATCH has touched (`own`).      *)
(***************************************************************************)
EXTENDS Naturals, FiniteSets

CONSTANTS
  Orders,      \* transport requests
  Movements, Deliveries,
  Trucks,      \* vehicles and drivers
  MaxPatches,  \* bound: PATCHes and posted rows in a behaviour
  Absent       \* no row, no reference

VARIABLES
  order,       \* [Orders -> status or Absent]
  movement,    \* [Movements -> row or Absent]
  delivery,    \* [Deliveries -> row or Absent]
  fit,         \* trucks active and with current papers
  restricted,  \* an unresolved restriction covers the movement type
  assigning,   \* [Movements -> truck an assignment has checked, or Absent]
  patches

fleetVars == <<order, movement, delivery, fit, restricted, assigning, patches>>

-----------------------------------------------------------------------------
OrderStatus == {"new", "accepted", "assigned", "blocked", "cancelled"}
ACTIVE_MOVEMENT_STATUSES == {"assigned", "loading", "in_transit", "delayed"}
MOVEMENT_TRANSITIONS ==
  [scheduled |-> {"assigned", "cancelled"},
   assigned |-> {"loading", "in_transit", "cancelled"},
   loading |-> {"in_transit", "delayed", "cancelled"},
   in_transit |-> {"delayed", "arrived", "cancelled"},
   delayed |-> {"in_transit", "arrived", "cancelled"},
   arrived |-> {"delivered"}, delivered |-> {}, cancelled |-> {}]
Movement == [status : DOMAIN MOVEMENT_TRANSITIONS, order : Orders \cup {Absent},
             truck : Trucks \cup {Absent}, own : BOOLEAN]
DeliveryStatus == {"pending", "in_transit", "arrived", "completed", "variance_flagged", "cancelled"}
Delivery == [movement : Movements, status : DeliveryStatus, own : BOOLEAN]

ASSUME FleetAssumption ==
  /\ IsFiniteSet(Movements) /\ MaxPatches \in Nat
  /\ Absent \notin Orders \cup Movements \cup Trucks \cup OrderStatus
  /\ Absent \notin Movement \cup Delivery

Moving(o) == {m \in Movements : movement[m] # Absent /\ movement[m].order = o}
Receipts(m) == {d \in Deliveries : delivery[d] # Absent /\ delivery[d].movement = m}
Holding(t) == {m \in Movements : movement[m] # Absent /\ movement[m].truck = t
                                   /\ movement[m].status \in ACTIVE_MOVEMENT_STATUSES}
Open(m) == movement[m] # Absent /\ assigning[m] = Absent   \* the row is not locked

-----------------------------------------------------------------------------
FileOrder(o) ==
  /\ order[o] = Absent
  /\ order' = [order EXCEPT ![o] = "new"]
  /\ UNCHANGED <<movement, delivery, fit, restricted, assigning, patches>>

Scheduled(m, o) == movement' = [movement EXCEPT ![m] =
  [status |-> "scheduled", order |-> o, truck |-> Absent, own |-> TRUE]]

AcceptAfresh(o) ==
  /\ order[o] \in {"new", "blocked"} /\ ~restricted
  /\ order' = [order EXCEPT ![o] = "accepted"]
  /\ \E m \in Movements : movement[m] = Absent /\ Scheduled(m, o)
  /\ UNCHANGED <<delivery, fit, restricted, assigning, patches>>
\* A movement is scheduled only for a request that has none.
Accept(o) ==
  /\ order[o] \in {"new", "blocked"} /\ ~restricted
  /\ order' = [order EXCEPT ![o] = "accepted"]
  /\ IF Moving(o) # {} THEN UNCHANGED movement
     ELSE \E m \in Movements : movement[m] = Absent /\ Scheduled(m, o)
  /\ UNCHANGED <<delivery, fit, restricted, assigning, patches>>

Decline(o) ==
  /\ order[o] \in {"new", "blocked"}
  /\ order' = [order EXCEPT ![o] = "cancelled"]
  /\ UNCHANGED <<movement, delivery, fit, restricted, assigning, patches>>

\* The truck is compared with the other movements' rows, which are not
\* locked: another assignment may be between its check and its save.
AssignCheck(m, t) ==
  /\ Open(m) /\ t \in fit /\ ~restricted
  /\ Holding(t) \subseteq {m}
  /\ assigning' = [assigning EXCEPT ![m] = t]
  /\ UNCHANGED <<order, movement, delivery, fit, restricted, patches>>

AssignSave(m) ==
  /\ assigning[m] # Absent
  /\ movement' = [movement EXCEPT ![m].truck = assigning[m],
       ![m].status = IF @ = "scheduled" THEN "assigned" ELSE @]
  /\ assigning' = [assigning EXCEPT ![m] = Absent]
  /\ UNCHANGED <<order, delivery, fit, restricted, patches>>

\* get_or_create on the movement, then the status whatever it was.
DeliveryForMovement(m) ==
  \/ \E d \in Receipts(m) :
       Receipts(m) = {d} /\ delivery' = [delivery EXCEPT ![d].status = "arrived"]
  \/ \E d \in Deliveries :
       /\ Receipts(m) = {} /\ delivery[d] = Absent
       /\ delivery' = [delivery EXCEPT ![d] = [movement |-> m, status |-> "arrived", own |-> TRUE]]

SetStatus(m, s) ==
  /\ Open(m) /\ s \in MOVEMENT_TRANSITIONS[movement[m].status]
  /\ movement' = [movement EXCEPT ![m].status = s]
  /\ IF s \in {"arrived", "delivered"} THEN DeliveryForMovement(m) ELSE UNCHANGED delivery
  /\ UNCHANGED <<order, fit, restricted, assigning, patches>>

CompleteDelivery(d, s) ==
  /\ delivery[d] # Absent /\ s \in {"completed", "variance_flagged"}
  /\ delivery' = [delivery EXCEPT ![d].status = s]
  /\ UNCHANGED <<order, movement, fit, restricted, assigning, patches>>

-----------------------------------------------------------------------------
Patching == patches < MaxPatches /\ patches' = patches + 1

PatchOrder(o) ==
  /\ Patching /\ order[o] # Absent
  /\ \E s \in OrderStatus : order' = [order EXCEPT ![o] = s]
  /\ UNCHANGED <<movement, delivery, fit, restricted, assigning>>

\* A PATCH of a movement, or a movement posted by hand.
PatchMovement(m) ==
  /\ Patching /\ assigning[m] = Absent
  /\ \E row \in Movement : ~row.own /\ movement' = [movement EXCEPT ![m] = row]
  /\ UNCHANGED <<order, delivery, fit, restricted, assigning>>

PatchDelivery(d) ==
  /\ Patching
  /\ \E row \in Delivery :
       /\ ~row.own /\ movement[row.movement] # Absent
       /\ delivery' = [delivery EXCEPT ![d] = row]
  /\ UNCHANGED <<order, movement, fit, restricted, assigning>>

\* Papers lapse and are renewed, restrictions are imposed and resolved.
Surroundings ==
  /\ \/ restricted' = ~restricted /\ UNCHANGED fit
     \/ \E t \in Trucks : fit' = (fit \ {t}) \cup ({t} \ fit) /\ UNCHANGED restricted
  /\ UNCHANGED <<order, movement, delivery, assigning, patches>>

-----------------------------------------------------------------------------
FleetInit ==
  /\ order = [o \in Orders |-> Absent] /\ movement = [m \in Movements |-> Absent]
  /\ delivery = [d \in Deliveries |-> Absent] /\ assigning = [m \in Movements |-> Absent]
  /\ fit = Trucks /\ restricted = FALSE /\ patches = 0

FleetNext ==
  \/ \E o \in Orders : FileOrder(o) \/ Accept(o) \/ Decline(o) \/ PatchOrder(o)
  \/ \E m \in Movements :
       \/ AssignSave(m) \/ PatchMovement(m)
       \/ \E t \in Trucks : AssignCheck(m, t)
       \/ \E s \in DOMAIN MOVEMENT_TRANSITIONS : SetStatus(m, s)
  \/ \E d \in Deliveries : PatchDelivery(d) \/ \E s \in DeliveryStatus : CompleteDelivery(d, s)
  \/ Surroundings

FleetSpec == FleetInit /\ [][FleetNext]_fleetVars

-----------------------------------------------------------------------------
FleetTypeOK ==
  /\ order \in [Orders -> OrderStatus \cup {Absent}]
  /\ movement \in [Movements -> Movement \cup {Absent}]
  /\ delivery \in [Deliveries -> Delivery \cup {Absent}]
  /\ assigning \in [Movements -> Trucks \cup {Absent}]
  /\ fit \subseteq Trucks /\ restricted \in BOOLEAN /\ patches \in 0..MaxPatches

Own(m) == movement[m] # Absent /\ movement[m].own

\* However often a request is blocked and accepted again, accepting puts one
\* movement on the road for it.
OneMovementPerOrder == \A o \in Orders : Cardinality({m \in Moving(o) : Own(m)}) <= 1

\* A movement whose status handler took it to its destination has a delivery,
\* unless a PATCH moved a delivery to another movement.
ArrivedIsReceived ==
  \A m \in Movements :
    Own(m) /\ movement[m].status \in {"arrived", "delivered"} =>
      Receipts(m) # {} \/ \E d \in Deliveries : delivery[d] # Absent /\ ~delivery[d].own

FleetAgrees == OneMovementPerOrder /\ ArrivedIsReceived

\* What an assignment refuses with "Vehicle is already assigned to an active
\* movement.": no two movements on the road hold the same truck.
TruckOnOneRoad ==
  \A m, n \in Movements :
    /\ m # n /\ Own(m) /\ Own(n)
    /\ movement[m].status \in ACTIVE_MOVEMENT_STATUSES
    /\ movement[n].status \in ACTIVE_MOVEMENT_STATUSES
    /\ movement[m].truck # Absent
    => movement[m].truck # movement[n].truck
=============================================================================
