------------------------------ MODULE EntSlots ------------------------------
(* The seats of the bookable slots: one counter per slot (table                *)
(* ShieldSyncEntSlots), moved by conditional updates, and the slot an invite   *)
(* names, written afterwards without a condition.  POST /ent/book in           *)
(* engine/ent-handler.mjs, bookSlot() and releaseSlot() in engine/entinfra.mjs.*)
EXTENDS EntNames, Naturals, FiniteSets

CONSTANTS Slots,
          Capacity   \* the reserved accounts there are, read at each booking

ASSUME SlotConstants ==
  /\ Capacity \in Nat \ {0} /\ None \notin Slots
  /\ IsFiniteSet(Invites) /\ IsFiniteSet(Requests)

VARIABLES
  stage,   \* stage[i]: may be booked, is booked, or is past booking
  named,   \* named[i]: slotKey
  booked,  \* booked[k]: the counter of slot k
  moved,   \* invites that were ever booked away from a slot they named
  book     \* book[r]: what the booking request r does next

slotVars == <<stage, named, booked, moved, book>>

Booking(st, i, k, old) == [step |-> st, inv |-> i, slot |-> k, old |-> old]
NoBooking == Booking("none", None, None, None)

SlotsTypeOK ==
  /\ stage \in [Invites -> {"open", "booked", "past"}]
  /\ named \in [Invites -> Slots \cup {None}]
  /\ booked \in [Slots -> 0..Capacity]
  /\ moved \in SUBSET Invites
  /\ book \in [Requests -> [step : {"none", "release", "take", "record"},
                            inv : Invites \cup {None}, slot : Slots \cup {None},
                            old : Slots \cup {None}]]

SlotsInit ==
  /\ stage = [i \in Invites |-> "open"]
  /\ named = [i \in Invites |-> None]
  /\ booked = [k \in Slots |-> 0]
  /\ moved = {}
  /\ book = [r \in Requests |-> NoBooking]

-----------------------------------------------------------------------------
Turn(r, b) == book' = [book EXCEPT ![r] = b]
Onward(r, st) == Turn(r, [book[r] EXCEPT !.step = st])

\* The invite is bookable; a booking for the slot it names is answered at once.
ReadsInvite(r, i, k) ==
  LET old == IF stage[i] = "booked" THEN named[i] ELSE None IN
  /\ book[r] = NoBooking
  /\ stage[i] \in {"open", "booked"}
  /\ old # k
  /\ Turn(r, Booking(IF old = None THEN "take" ELSE "release", i, k, old))
  /\ moved' = IF old = None THEN moved ELSE moved \cup {i}
  /\ UNCHANGED <<stage, named, booked>>

\* Mutant: the counter is not looked at.
GivesBack(r) ==
  /\ book[r].step = "release"
  /\ booked' = [booked EXCEPT ![book[r].old] = @ - 1]
  /\ Onward(r, "take")
  /\ UNCHANGED <<stage, named, moved>>

\* releaseSlot() of the slot the invite named then; that it fails is ignored.
ReleasesOld(r) ==
  LET k == book[r].old IN
  /\ book[r].step = "release"
  /\ \/ booked[k] > 0 /\ booked' = [booked EXCEPT ![k] = @ - 1]
     \/ UNCHANGED booked
  /\ Onward(r, "take")
  /\ UNCHANGED <<stage, named, moved>>

\* Mutant: a full slot has room for one more.
TakesAnySeat(r) ==
  LET k == book[r].slot IN
  /\ book[r].step = "take"
  /\ IF booked[k] < Capacity
       THEN booked' = [booked EXCEPT ![k] = @ + 1]
       ELSE UNCHANGED booked
  /\ Onward(r, "record")
  /\ UNCHANGED <<stage, named, moved>>

\* bookSlot(): a seat if there is one, else SLOT_FULL.
TakesSeat(r) ==
  LET k == book[r].slot IN
  /\ book[r].step = "take"
  /\ IF booked[k] < Capacity
       THEN booked' = [booked EXCEPT ![k] = @ + 1] /\ Onward(r, "record")
       ELSE UNCHANGED booked /\ Turn(r, NoBooking)
  /\ UNCHANGED <<stage, named, moved>>

\* setInviteStatus("booked") with the slot, without a condition.
RecordsSlot(r) ==
  /\ book[r].step = "record"
  /\ stage' = [stage EXCEPT ![book[r].inv] = "booked"]
  /\ named' = [named EXCEPT ![book[r].inv] = book[r].slot]
  /\ Turn(r, NoBooking)
  /\ UNCHANGED <<booked, moved>>

BookingDies(r) ==
  /\ book[r] # NoBooking
  /\ Turn(r, NoBooking)
  /\ UNCHANGED <<stage, named, booked, moved>>

\* The invite is started, revoked or refunded; nothing gives its seat back.
GoesPast(i) ==
  /\ stage[i] # "past"
  /\ stage' = [stage EXCEPT ![i] = "past"]
  /\ UNCHANGED <<named, booked, moved, book>>

SlotsNext ==
  \/ \E r \in Requests :
       \/ \E i \in Invites, k \in Slots : ReadsInvite(r, i, k)
       \/ ReleasesOld(r) \/ TakesSeat(r) \/ RecordsSlot(r) \/ BookingDies(r)
  \/ \E i \in Invites : GoesPast(i)

SlotsSpec == SlotsInit /\ [][SlotsNext]_slotVars

-----------------------------------------------------------------------------
Booked(k) == {i \in Invites : stage[i] = "booked" /\ named[i] = k}

\* As long as nobody changes to another slot, no slot has more bookings than there
\* are accounts, however many requests book at once, twice, or die half way.
FirstBookingsFit ==
  moved = {} => \A k \in Slots : Cardinality(Booked(k)) <= Capacity

=============================================================================
