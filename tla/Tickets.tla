------------------------------ MODULE Tickets ------------------------------
(***************************************************************************)
(* The catalogue of one building (customer classes, ticket products,       *)
(* vehicles, guest invites) and the sale of packages against sale limits   *)
(* and class quotas.                                                       *)
(*                                                                         *)
(* Sales and quotas lock the row of the building first; products and       *)
(* classes are changed without it.  Catalogue rows are never deleted.      *)
(***************************************************************************)
EXTENDS Workers

CONSTANTS
  Classes, Products, Vehicles, Invites,  \* ids, which are the unique codes and plates
  ClassOf,      \* the class of a vehicle or product, NoClass for none
  RefersTo,     \* the vehicle of an invite, or NoClass
  Imports,      \* the vehicles of CSV files
  Limits,       \* sale limits and quotas that are set
  Offers,       \* <<product, vehicle, zone, from, until>> of sales
  LastDay,      \* bound of the days
  MaxSales,     \* bound of the packages
  NoClass, NoLimit

Rows == Classes \cup Products \cup Vehicles \cup Invites

ASSUME TicketsAssumption ==
  /\ NoClass \notin Rows /\ NoLimit \notin Nat /\ Limits \subseteq Nat
  /\ ClassOf \in [Products \cup Vehicles -> Classes \cup {NoClass}]
  /\ RefersTo \in [Invites -> Vehicles \cup {NoClass}]
  /\ \A c \in Imports : c \subseteq Vehicles
  /\ Offers \subseteq Products \X Vehicles \X {"A", "B"} \X (0 .. LastDay) \X (0 .. LastDay)
  /\ \A o \in Offers : o[4] < o[5]

VARIABLES
  today,
  catalogue,     \* committed rows of the catalogue
  offered,       \* active and sale_limit of each product
  quota,         \* max_active of each class, NoLimit without a row
  packages,      \* subscriptions
  buildingHolder,
  tkPc, tkReq    \* where each slot is, and what it serves and has read

tkTables == <<today, catalogue, offered, quota, packages>>
tkVars == <<tkTables, buildingHolder, tkPc, tkReq>>

NoSale == [op |-> "none", offer |-> <<>>, class |-> NoClass, read |-> NoLimit, write |-> NoLimit]

TkPlaces == {"idle", "waiting", "limits", "insert", "quota", "product"}

LeaveTickets(r) ==
  /\ buildingHolder' = IF buildingHolder = r THEN NoSlot ELSE buildingHolder
  /\ tkPc' = [tkPc EXCEPT ![r] = "idle"]
  /\ tkReq' = [tkReq EXCEPT ![r] = NoSale]

RefuseTicket(r) == LeaveTickets(r) /\ UNCHANGED tkTables

TicketLost(r) == tkPc[r] # "idle" /\ RefuseTicket(r)

BeginTicket(r, place, q) ==
  /\ tkPc[r] = "idle"
  /\ tkPc' = [tkPc EXCEPT ![r] = place]
  /\ tkReq' = [tkReq EXCEPT ![r] = q]
  /\ UNCHANGED <<tkTables, buildingHolder>>

GoOn(r, place, q) ==
  /\ tkPc' = [tkPc EXCEPT ![r] = place]
  /\ tkReq' = [tkReq EXCEPT ![r] = q]
  /\ UNCHANGED tkTables
-----------------------------------------------------------------------------
(* Catalogue.                                                              *)

References(rows) ==
  {ClassOf[x] : x \in rows \cap (Products \cup Vehicles)} \cup {RefersTo[i] : i \in rows \cap Invites}

\* The references are looked up, the rows inserted and committed, all of them or none.
InsertRows(rows) ==
  /\ References(rows) \ {NoClass} \subseteq catalogue
  /\ rows \cap catalogue = {}
  /\ catalogue' = catalogue \cup rows
  /\ UNCHANGED <<today, offered, quota, packages, buildingHolder, tkPc, tkReq>>

CreateCustomerClass == \E x \in Classes : InsertRows({x})
CreateTicketProduct == \E x \in Products : InsertRows({x})
CreateVehicle == \E x \in Vehicles : InsertRows({x})
CreateInvite == \E x \in Invites : InsertRows({x})

ImportVehicles == \E file \in Imports : InsertRows(file)

\* PATCH /pricing/ticket-products/{id}, without a lock on the building.
LoadProduct(r) ==
  \E p \in Products \cap catalogue :
    \/ \E on \in BOOLEAN :
         BeginTicket(r, "product", [op |-> "active", offer |-> <<p>>, class |-> NoClass,
                                    read |-> offered[p].active, write |-> on])
    \/ \E n \in Limits :
         BeginTicket(r, "product", [op |-> "limit", offer |-> <<p>>, class |-> NoClass,
                                    read |-> offered[p].limit, write |-> n])

\* The row of a product when the request q has written its column.
ProductAfter(q, row) ==
  IF q.op = "active" THEN [row EXCEPT !.active = Dirty(q.write, q.read, @)]
  ELSE [row EXCEPT !.limit = Dirty(q.write, q.read, @)]

UpdateProduct(r) ==
  LET q == tkReq[r]
  IN /\ tkPc[r] = "product"
     /\ offered' = [offered EXCEPT ![q.offer[1]] = ProductAfter(q, @)]
     /\ LeaveTickets(r)
     /\ UNCHANGED <<today, catalogue, quota, packages>>
-----------------------------------------------------------------------------
(* Quotas and sales.                                                       *)

\* Mutant: FOR UPDATE is missing.
ReadBuilding(r) == UNCHANGED buildingHolder
LockBuilding(r) == buildingHolder = NoSlot /\ buildingHolder' = r

BeginQuota(r) ==
  \E c \in Classes, n \in Limits :
    BeginTicket(r, "waiting", [op |-> "quota", offer |-> <<>>, class |-> c,
                               read |-> NoLimit, write |-> n])

BeginSale(r) ==
  \E o \in Offers :
    BeginTicket(r, "waiting", [op |-> "sale", offer |-> o, class |-> NoClass,
                               read |-> NoLimit, write |-> NoLimit])

\* The building is locked; a sale then reads its product and its vehicle.
EnterBuilding(r) ==
  LET q == tkReq[r]
  IN /\ tkPc[r] = "waiting"
     /\ LockBuilding(r)
     /\ IF q.op = "quota" THEN GoOn(r, "quota", q)
        ELSE GoOn(r, "limits", [q EXCEPT !.read = offered[q.offer[1]].limit])

SetQuota(r) ==
  LET q == tkReq[r]
  IN /\ tkPc[r] = "quota"
     /\ IF q.class \in catalogue
        THEN /\ quota' = [quota EXCEPT ![q.class] = q.write]
             /\ LeaveTickets(r)
             /\ UNCHANGED <<today, catalogue, offered, packages>>
        ELSE RefuseTicket(r)

Sold(product) == {s \in packages : s.product = product}

ActiveOfClass(class) == {s \in packages : ClassOf[s.vehicle] = class /\ s.until >= today}

Reached(n, limit) == limit # NoLimit /\ n >= limit

Overlapping(s, vehicle, zone, from, until) ==
  s.vehicle = vehicle /\ s.zone = zone /\ s.from <= until /\ s.until >= from

Sellable(product, vehicle) ==
  /\ {product, vehicle} \subseteq catalogue /\ offered[product].active
  /\ ClassOf[product] \in {NoClass, ClassOf[vehicle]}

\* The checks after the product and the vehicle are read; the limit is the one read then.
CheckLimits(r) ==
  LET q == tkReq[r]  product == q.offer[1]  vehicle == q.offer[2]  class == ClassOf[vehicle]
  IN /\ tkPc[r] = "limits"
     /\ IF \/ ~Sellable(product, vehicle)
           \/ Reached(Cardinality(Sold(product)), q.read)
           \/ class # NoClass /\ Reached(Cardinality(ActiveOfClass(class)), quota[class])
           \/ \E s \in packages : Overlapping(s, vehicle, q.offer[3], q.offer[4], q.offer[5])
        THEN RefuseTicket(r)
        ELSE GoOn(r, "insert", q) /\ UNCHANGED buildingHolder

CreateSubscription(r) ==
  LET o == tkReq[r].offer
  IN /\ tkPc[r] = "insert"
     /\ Cardinality(packages) < MaxSales
     /\ packages' = packages \cup {[id |-> Cardinality(packages), product |-> o[1],
          vehicle |-> o[2], zone |-> o[3], from |-> o[4], until |-> o[5]]}
     /\ LeaveTickets(r)
     /\ UNCHANGED <<today, catalogue, offered, quota>>

NextDay ==
  /\ today < LastDay
  /\ today' = today + 1
  /\ UNCHANGED <<catalogue, offered, quota, packages, buildingHolder, tkPc, tkReq>>
-----------------------------------------------------------------------------
TkInit ==
  /\ today = 0 /\ catalogue = {} /\ packages = {} /\ buildingHolder = NoSlot
  /\ offered = [p \in Products |-> [active |-> TRUE, limit |-> NoLimit]]
  /\ quota = [c \in Classes |-> NoLimit]
  /\ tkPc = [r \in Slots |-> "idle"]
  /\ tkReq = [r \in Slots |-> NoSale]

TkNext ==
  \/ \E r \in Slots :
       \/ LoadProduct(r) \/ UpdateProduct(r) \/ BeginQuota(r) \/ BeginSale(r)
       \/ EnterBuilding(r) \/ SetQuota(r) \/ CheckLimits(r) \/ CreateSubscription(r)
       \/ TicketLost(r)
  \/ CreateCustomerClass \/ CreateTicketProduct \/ CreateVehicle \/ CreateInvite
  \/ ImportVehicles \/ NextDay

TkSpec == TkInit /\ [][TkNext]_tkVars
-----------------------------------------------------------------------------
(* Properties.                                                             *)

\* When a package is sold, its product stays within the sale limit its sale has read and
\* its class within the quota in force, although several sales and a change of the quota
\* may be under way (FOR UPDATE on the building in create_subscription and set_quota).
SalesWithinLimits ==
  [][\A s \in packages' \ packages :
       LET class == ClassOf[s.vehicle]
       IN /\ \E r \in Slots :
               /\ tkPc[r] = "insert" /\ tkReq[r].offer[1] = s.product
               /\ tkReq[r].read # NoLimit => Cardinality(Sold(s.product)') <= tkReq[r].read
          /\ class # NoClass /\ quota[class] # NoLimit =>
               Cardinality(ActiveOfClass(class)') <= quota[class]]_tkVars

\* A vehicle never holds two packages of one zone for the same day.
NoOverlappingPackages ==
  \A s, t \in packages :
    s # t => ~Overlapping(s, t.vehicle, t.zone, t.from, t.until)
=============================================================================
