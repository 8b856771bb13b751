------------------------------ MODULE Pricing ------------------------------
(***************************************************************************)
(* Prices, passes and the fee of one registered vehicle: publication of    *)
(* price versions, sale of packages, the ticket check and the price        *)
(* snapshot of check-in, the fee an invoice charges (snapshot only) and    *)
(* the fee of check-out (snapshot and the package as it is by then).       *)
(*                                                                         *)
(* Time is counted in ticks, TicksPerMinute to a minute, so that a started *)
(* minute differs from a full one; a day has DayMinutes (1440 in the code) *)
(* and begins at the multiples of it.                                      *)
(***************************************************************************)
EXTENDS Integers, FiniteSets, FiniteSetsExt

CONSTANTS
  DayMinutes, MonthDays, TicksPerMinute,
  Horizon,       \* bound of the clock, in ticks
  MaxVersions,   \* bound of the price versions
  Tariffs,       \* what is published: a rate, or NoRate, for each kind of ticket
  Starts,        \* active_from of publications, before or after they are made
  Packages,      \* subscriptions that may be sold for the vehicle
  Zones,
  CarriesCode,   \* whether the vehicle is registered with a ticket code
  NoRate, NoCap, NoUntil, NoZone

Kinds == {"HOURLY", "DAILY", "MONTHLY", "NIGHT"}

Rate == [free : Nat, initial : Nat \ {0}, initialFee : Nat, block : Nat \ {0},
         blockFee : Nat, cap : Nat \cup {NoCap}, overnight : Nat, lost : Nat,
         overtime : Nat, day : Nat, month : Nat, discount : 0 .. 100]

Package == [kind : Kinds, zone : Zones, from : Nat, until : Nat, grace : Nat]

\* Two packages of a vehicle in one zone never overlap (create_subscription).
ASSUME PricingAssumption ==
  /\ DayMinutes \in Nat \ {0} /\ MonthDays \in Nat \ {0} /\ TicksPerMinute \in Nat \ {0}
  /\ Horizon \in Nat /\ MaxVersions \in Nat /\ Starts \subseteq Int /\ CarriesCode \in BOOLEAN
  /\ NoCap \notin Nat /\ NoUntil \notin Int /\ NoZone \notin Zones /\ NoRate \notin Rate
  /\ \A t \in Tariffs : DOMAIN t = Kinds
  /\ \A t \in Tariffs, k \in Kinds : t[k] # NoRate =>
       t[k] \in Rate /\ (t[k].cap # NoCap => t[k].cap >= t[k].initialFee)
  /\ Packages \subseteq Package /\ \A p \in Packages : p.from < p.until
  /\ \A p, q \in Packages : p.until = q.until => p = q

VARIABLES
  now,
  versions,  \* published price versions
  sold,      \* packages of the vehicle
  retired,   \* packages whose product is not active any more
  car        \* the session of the vehicle, its price snapshot

prVars == <<now, versions, sold, retired, car>>

NoCar == [status |-> "away", since |-> 0, kind |-> "HOURLY", rate |-> NoRate,
          until |-> NoUntil, plate |-> TRUE, code |-> CarriesCode]
-----------------------------------------------------------------------------
(* calculate_fee.                                                          *)

CeilDiv(a, b) == -((-a) \div b)
OrZero(n) == IF n < 0 THEN 0 ELSE n
Later(a, b) == IF a < b THEN b ELSE a

Minutes(ticks) == CeilDiv(ticks, TicksPerMinute)

Billable(ticks, rate, extra) == OrZero(Minutes(ticks) - rate.free - extra)

Capped(amount, rate) == IF rate.cap # NoCap /\ amount > rate.cap THEN rate.cap ELSE amount

\* `chunk` minutes of one day, at least one.
DayAmount(rate, chunk) ==
  Capped(rate.initialFee
           + CeilDiv(OrZero(chunk - rate.initial), rate.block) * rate.blockFee, rate)

\* Mutant: a day that has not begun costs its initial block.
DaysStarted(rate, m) ==
  (m \div DayMinutes) * DayAmount(rate, DayMinutes) + DayAmount(rate, m % DayMinutes)
\* The loop over days: full ones and what is left of the last.
ByTheDay(rate, m) ==
  (m \div DayMinutes) * DayAmount(rate, DayMinutes)
    + IF m % DayMinutes = 0 THEN 0 ELSE DayAmount(rate, m % DayMinutes)

IsPass(kind, until) == until # NoUntil /\ kind \in {"DAILY", "MONTHLY"}

\* The lines PARKING_DAY, DAY_PASS, MONTH_PASS and PASS_OVERAGE.
Eligible(c, out, extra) ==
  LET m == Billable(out - c.since, c.rate, extra)
  IN CASE IsPass(c.kind, c.until) ->
            ByTheDay(c.rate, Billable(out - Later(c.since, c.until), c.rate, extra))
       [] ~IsPass(c.kind, c.until) /\ c.kind = "DAILY" -> CeilDiv(m, DayMinutes) * c.rate.day
       [] ~IsPass(c.kind, c.until) /\ c.kind = "MONTHLY" ->
            CeilDiv(m, MonthDays * DayMinutes) * c.rate.month
       [] OTHER -> ByTheDay(c.rate, m)

DateOf(tick) == tick \div (TicksPerMinute * DayMinutes)

Nights(c, out) ==
  OrZero(DateOf(out) - DateOf(IF c.until = NoUntil THEN c.since ELSE Later(c.since, c.until)))

CalculateFee(c, out, extra, lost, overtime) ==
  LET eligible == Eligible(c, out, extra)
  IN eligible + Nights(c, out) * c.rate.overnight
       + (IF lost THEN c.rate.lost ELSE 0) + (IF overtime THEN c.rate.overtime ELSE 0)
       - (eligible * c.rate.discount) \div 100
-----------------------------------------------------------------------------
(* Tickets at the gate.                                                    *)

\* check_ticket_access: why a package lets the vehicle in, or not.  Check-in and
\* check-out pass no zone of their own, so WRONG_ZONE only occurs at POST /tickets/access.
TicketReason(p, plate, code) ==
  IF ~plate THEN "PLATE_MISMATCH"
  ELSE IF CarriesCode /\ ~code THEN "TICKET_CODE_MISMATCH"
  ELSE IF now < p.from THEN "NOT_YET_VALID"
  ELSE IF now <= p.until THEN "VALID"
  ELSE IF p.kind = "MONTHLY" /\ now <= p.until + p.grace * DayMinutes * TicksPerMinute
  THEN "GRACE_PERIOD" ELSE "EXPIRED"

Latest == CHOOSE p \in sold : \A q \in sold : q.until <= p.until

\* The registered vehicle is looked up by its code if one is shown, else by its plate.
Registered(plate, code) == code \/ plate

\* verify_ticket_entitlement_for_checkin; `typed` tells whether the request names the
\* vehicle type of the registration.  An expired pass enters as a visitor.
EntryDecision(plate, code, typed) ==
  IF ~Registered(plate, code) \/ sold = {} THEN "ALLOW"
  ELSE IF Latest \in retired THEN "REVIEW"
  ELSE IF ~typed THEN "DENY"
  ELSE IF TicketReason(Latest, plate, code) \in {"PLATE_MISMATCH", "TICKET_CODE_MISMATCH"}
  THEN "REVIEW" ELSE "ALLOW"

\* Packages of the ticket's kind that cover the check-in.
Matches(kind, zone, plate, code) ==
  {p \in sold \ retired :
     /\ Registered(plate, code) /\ p.kind = kind /\ zone \in {NoZone, p.zone}
     /\ p.from <= now /\ now <= p.until + p.grace * DayMinutes * TicksPerMinute}
-----------------------------------------------------------------------------
(* Administration.                                                         *)

Clock ==
  /\ now < Horizon
  /\ now' = now + 1
  /\ UNCHANGED <<versions, sold, retired, car>>

NextNumber == IF versions = {} THEN 1 ELSE Max({v.number : v \in versions}) + 1

CreateVersion ==
  \E t \in Tariffs, s \in Starts :
    /\ NextNumber <= MaxVersions
    /\ versions' = versions \cup {[number |-> NextNumber, from |-> s, rules |-> t]}
    /\ UNCHANGED <<now, sold, retired, car>>

SellPackage ==
  \E p \in Packages \ sold :
    /\ \A q \in sold : q.zone = p.zone => q.until < p.from \/ p.until < q.from
    /\ sold' = sold \cup {p}
    /\ UNCHANGED <<now, versions, retired, car>>

RetireProduct ==
  \E p \in sold \ retired :
    retired' = retired \cup {p} /\ UNCHANGED <<now, versions, sold, car>>
-----------------------------------------------------------------------------
(* Check-in and check-out.                                                 *)

Effective == {v \in versions : v.from <= now}

\* The latest start; of two with one start the later number.
InForce == CHOOSE v \in Effective : \A w \in Effective :
             w.from < v.from \/ (w.from = v.from /\ w.number <= v.number)

\* While no price list is in force the code takes vehicles in without a snapshot; here
\* they enter once there is one.
Enter ==
  \E kind \in Kinds, zone \in Zones \cup {NoZone}, plate, code, typed \in BOOLEAN :
    LET held == IF kind \in {"DAILY", "MONTHLY"} THEN Matches(kind, zone, plate, code) ELSE {}
    IN /\ car.status = "away" /\ Effective # {}
       /\ code => CarriesCode
       /\ EntryDecision(plate, code, typed) # "DENY"  \* a REVIEW may be overridden
       /\ InForce.rules[kind] # NoRate
       /\ Cardinality(held) <= 1
       /\ car' = [status |-> "parked", since |-> now, kind |-> kind, rate |-> InForce.rules[kind],
                  until |-> IF held = {} THEN NoUntil ELSE (CHOOSE p \in held : TRUE).until,
                  plate |-> plate, code |-> code]
       /\ UNCHANGED <<now, versions, sold, retired>>

\* calculate_parking_fee: the package as it is at the exit replaces that of the snapshot.
AtExit ==
  LET found == Registered(car.plate, car.code) /\ sold # {} /\ Latest \notin retired
      why == TicketReason(Latest, car.plate, car.code)
  IN IF car.kind \notin {"HOURLY", "MONTHLY"} \/ ~found THEN car
     ELSE IF why \in {"VALID", "GRACE_PERIOD"}
     THEN [car EXCEPT !.kind = "MONTHLY", !.until = Latest.until]
     ELSE IF why \in {"NOT_YET_VALID", "EXPIRED"}
     THEN [car EXCEPT !.kind = "HOURLY", !.until = NoUntil]
     ELSE car

CheckOutFee == CalculateFee(AtExit, now, 0, FALSE, FALSE)

\* Mutant: the price list of today.
TodaysFee ==
  LET list == InForce.rules[car.kind]
  IN CalculateFee([car EXCEPT !.rate = IF list = NoRate THEN @ ELSE list], now, 0, FALSE, FALSE)
\* What create_invoice charges for a check-out now.
InvoiceFee == CalculateFee(car, now, 0, FALSE, FALSE)

\* The cashier collects the fee of this moment: an older expected_fee is answered
\* FEE_CHANGED and shown again.
Collect ==
  /\ car.status = "parked"
  /\ car' = NoCar
  /\ UNCHANGED <<now, versions, sold, retired>>
-----------------------------------------------------------------------------
PrInit ==
  /\ now = 0 /\ versions = {} /\ sold = {} /\ retired = {}
  /\ car = NoCar

PrNext ==
  Clock \/ CreateVersion \/ SellPackage \/ RetireProduct \/ Enter \/ Collect

PrSpec == PrInit /\ [][PrNext]_prVars
-----------------------------------------------------------------------------
(* The reference: a price list read minute by minute.                      *)

\* Minutes that have begun by `ticks` and are not free.
Charged(ticks, rate, extra) ==
  {k \in rate.free + extra .. Horizon : k * TicksPerMinute < ticks}

\* A day's first minute opens the initial block, every later block has a first minute.
MinuteFee(rate, j) ==
  IF j = 0 THEN rate.initialFee
  ELSE IF j >= rate.initial /\ (j - rate.initial) % rate.block = 0 THEN rate.blockFee ELSE 0

FeeOfDay(rate, m, d) ==
  Capped(MapThenSumSet(LAMBDA j : MinuteFee(rate, j),
                       {j \in 0 .. DayMinutes - 1 : d * DayMinutes + j < m}), rate)

FeeOfDays(rate, m) ==
  MapThenSumSet(LAMBDA d : FeeOfDay(rate, m, d), {d \in 0 .. m : d * DayMinutes < m})

EligibleReference(c, out, extra) ==
  LET m == Cardinality(Charged(out - c.since, c.rate, extra))
      over == Cardinality(Charged(out - Later(c.since, c.until), c.rate, extra))
  IN IF IsPass(c.kind, c.until) THEN FeeOfDays(c.rate, over)
     ELSE IF c.kind = "DAILY" THEN c.rate.day * Cardinality({d \in 0 .. m : d * DayMinutes < m})
     ELSE IF c.kind = "MONTHLY"
     THEN c.rate.month * Cardinality({d \in 0 .. m : d * MonthDays * DayMinutes < m})
     ELSE FeeOfDays(c.rate, m)
-----------------------------------------------------------------------------
(* Properties.                                                             *)

\* At every tick of a stay the fee is the sum over the minutes begun, day by day, with
\* free minutes, blocks, daily cap and expiry of the pass (calculate_fee's loops).
FeeByTheMinute ==
  car.status = "parked" =>
    \A extra \in 0 .. 1 : Eligible(car, now, extra) = EligibleReference(car, now, extra)

\* The invoice of a parked vehicle never gets cheaper, neither by waiting nor by what is
\* published, sold or withdrawn meanwhile (the snapshot of check-in, BR-13).
FeeNeverFalls ==
  [][car.status = "parked" /\ car'.status = "parked" => InvoiceFee' >= InvoiceFee]_prVars

\* A session that came in on a pass pays for the time after its expiry only, at the
\* barrier as on the invoice (frontend/docs/ARCHITECTURE.md:14).
PassPaysOverageOnly ==
  car.status = "parked" /\ car.until # NoUntil /\ retired = {} =>
    CheckOutFee <= InvoiceFee

\* What is left of PassPaysOverageOnly: as long as the vehicle's latest package still admits
\* it at the exit, the barrier never asks for more than the invoice; one that was sold during
\* the stay only shortens the time to be paid.
HeldPassPaysOverage ==
  car.status = "parked" /\ car.until # NoUntil /\ AtExit.until # NoUntil =>
    CheckOutFee <= InvoiceFee
=============================================================================
