----------------------------- MODULE EdgeDelivery -----------------------------
(***************************************************************************)
(* What the edge device promises about the rows of its black box, without  *)
(* saying how: a row accepted by the device stays there until the cloud    *)
(* has stored it or it is older than the retention horizon.  Delivery is   *)
(* at least once, so the abstraction only remembers which rows the cloud   *)
(* has, not how many copies of each.                                       *)
(***************************************************************************)
EXTENDS Naturals

CONSTANT Row            \* every row the device can write; a row has a ts field

VARIABLES
  accepted,             \* rows ever written to the black box
  held,                 \* rows the device still keeps
  delivered,            \* rows the cloud has stored
  horizon               \* rows with ts < horizon are older than the retention

avars == <<accepted, held, delivered, horizon>>

AInit ==
  /\ accepted = {}
  /\ held = {}
  /\ delivered = {}
  /\ horizon = 0

\* The device writes a new row.
Accept ==
  /\ \E r \in accepted' \ accepted :
       /\ r \in Row
       /\ accepted' = accepted \cup {r}
       /\ held' = held \cup {r}
  /\ UNCHANGED <<delivered, horizon>>

\* The cloud stores rows; a late request may carry rows the device no
\* longer keeps.
Deliver ==
  /\ delivered \subseteq delivered'
  /\ delivered' \subseteq accepted
  /\ UNCHANGED <<accepted, held, horizon>>

\* The device may forget a row only when it is safe in the cloud or expired.
Forget ==
  /\ held' \subseteq held
  /\ \A r \in held \ held' : r \in delivered \/ r.ts < horizon
  /\ UNCHANGED <<accepted, delivered, horizon>>

\* Time passes.
Expire ==
  /\ horizon' \in Nat
  /\ horizon' > horizon
  /\ UNCHANGED <<accepted, held, delivered>>

ANext == Accept \/ Deliver \/ Forget \/ Expire

ASpec == AInit /\ [][ANext]_avars
===============================================================================
