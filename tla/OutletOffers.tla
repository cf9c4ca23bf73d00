---------------------------- MODULE OutletOffers ----------------------------
(***************************************************************************)
(* The stock of the outlet: offers of a limited number of seedlings, the   *)
(* holds carts have on them, and the conversion of a paid hold into a sale *)
(* (packages/storage/src/repositories/outletOffersRepo.ts and              *)
(* outletCheckoutReservationRepo.ts).                                      *)
(*                                                                         *)
(* A cart stands for its one outlet item and an item for one seedling. A   *)
(* cart is paid by card, behind a checkout attempt, or with sunflowers,    *)
(* directly. The phases of a cart are those of CartCheckout, which         *)
(* StripeCheckoutAttempt implements for carts paid by card.                *)
(*                                                                         *)
(* Clocks are read once per operation and used after the locks are taken:  *)
(* a call in `calls` carries the time it read, a cart in `converting` has  *)
(* its hold checked and not yet written.                                   *)
(***************************************************************************)
EXTENDS Naturals, FiniteSets

CONSTANTS
  Carts, DirectCarts,   \* all carts, and those paid with sunflowers
  Offers, NoOffer,
  Stock, EndsAt,        \* of every offer: seedlings at first, end of the offer
  Calls,                \* requests of customers served at the same time
  Hold, CheckoutHold,   \* life of a hold put in the cart, and of one being paid
  Quantities,           \* what an administrator may set as a quantity
  MaxTime, MaxEdits     \* bounds on the clock and on an administrator's edits

ASSUME OutletAssumption ==
  /\ IsFiniteSet(Carts) /\ DirectCarts \subseteq Carts
  /\ NoOffer \notin Offers
  /\ Stock \in [Offers -> Nat] /\ EndsAt \in [Offers -> Nat]
  /\ Hold \in Nat \ {0} /\ CheckoutHold \in Nat \ {0}
  /\ Quantities \subseteq Nat \ {0}
  /\ MaxTime \in Nat /\ MaxEdits \in Nat

VARIABLES
  now,
  offer,       \* rows of outlet_offers
  row,         \* the latest reservation of every cart item
  phase,       \* of every cart
  calls,       \* of every request: what it is about to do
  converting,  \* carts whose hold was found good and is about to be converted
  edit,        \* what the edit form of an offer saw committed
  edits,       \* edits so far
  peak,        \* history: the most seedlings an offer was ever given
  late,        \* history: carts converted after their hold stopped counting
  refused      \* history: paid carts whose sale was refused for want of a hold

stock == <<offer, edit, edits, peak>>
history == <<late, refused>>
vars == <<now, row, phase, calls, converting, stock, history>>

CardCarts == Carts \ DirectCarts

Statuses == {"published", "paused", "closed"}

NoRow == [status |-> "none", offer |-> NoOffer, until |-> 0]
Idle == [kind |-> "idle"]
NoEdit == Cardinality(Carts) + 1

RowStatuses == {"none", "held", "released", "converted"}
RowType == [status : RowStatuses, offer : Offers \cup {NoOffer}, until : Nat]

CallType(t) ==
  {Idle} \cup
    [kind : {"adding", "checkout", "refreshed"}, cart : Carts, offer : Offers, at : 0..t]

TypeOK ==
  /\ now \in 0..MaxTime
  /\ offer \in [Offers -> [status : Statuses, quantity : Nat]]
  /\ row \in [Carts -> RowType]
  /\ phase \in [Carts -> {"shopping", "checkout", "charged", "settled", "deleted"}]
  /\ calls \in [Calls -> CallType(now)]
  /\ converting \subseteq Carts
  /\ edit \in [Offers -> Nat] /\ edits \in 0..MaxEdits
  /\ peak \in [Offers -> Nat]
  /\ late \subseteq Carts /\ refused \subseteq Carts

Init ==
  /\ now = 0
  /\ offer = [o \in Offers |-> [status |-> "published", quantity |-> Stock[o]]]
  /\ row = [c \in Carts |-> NoRow]
  /\ phase = [c \in Carts |-> "shopping"]
  /\ calls = [k \in Calls |-> Idle]
  /\ converting = {}
  /\ edit = [o \in Offers |-> NoEdit] /\ edits = 0
  /\ peak = Stock
  /\ late = {} /\ refused = {}

----------------------------------------------------------------------------
\* Mutant of Captured: an attempt protects its hold until it is paid.
CapturedUnpaid(c) == c \in CardCarts /\ phase[c] = "checkout"

\* An active checkout attempt has the hold of the cart in its snapshot.
Captured(c) == c \in CardCarts /\ phase[c] \in {"checkout", "charged"}

\* A hold takes stock while it lasts, and for as long as an attempt captures it.
Counts(c, t) ==
  \/ row[c].status = "converted"
  \/ row[c].status = "held" /\ (row[c].until > t \/ Captured(c))

Counted(o, t) == {c \in Carts : row[c].offer = o /\ Counts(c, t)}

Open(o, t) == offer[o].status = "published" /\ EndsAt[o] > t

\* Mutant of Mutable: only deleted carts and finished ones are left alone.
MutableUnfenced(c) == phase[c] \notin {"settled", "deleted"}

\* Whatever changes a cart locks it and refuses once it is being paid.
Mutable(c) == phase[c] = "shopping"

Answer(k) == calls' = [calls EXCEPT ![k] = Idle]

\* Mutant of CanReserve: a hold stops counting when it ends, captured or not.
CanReserveUnprotected(c, o, t) ==
  /\ Open(o, t)
  /\ row[c].status # "converted"
  /\ Cardinality({x \in Counted(o, t) \ {c} : row[x].status = "converted" \/ row[x].until > t})
       < offer[o].quantity

\* What a reservation decides for cart c and offer o with the time t it has read.
CanReserve(c, o, t) ==
  /\ Open(o, t)
  /\ row[c].status # "converted"
  /\ Cardinality(Counted(o, t) \ {c}) < offer[o].quantity

Reserved(c, o, until) ==
  row' = [row EXCEPT ![c] = [status |-> "held", offer |-> o, until |-> until]]

----------------------------------------------------------------------------
\* Customers.

\* The clock is read before the locks of the cart, the offer and its holds.
StartAdding(k, c, o) ==
  /\ calls[k] = Idle
  /\ calls' = [calls EXCEPT ![k] = [kind |-> "adding", cart |-> c, offer |-> o, at |-> now]]
  /\ UNCHANGED <<now, row, phase, converting, history, stock>>

\* A hold on another offer is given up in the transaction that takes this one.
Add(k) ==
  /\ calls[k].kind = "adding"
  /\ LET c == calls[k].cart  o == calls[k].offer  t == calls[k].at
     IN IF Mutable(c) /\ CanReserve(c, o, t) THEN Reserved(c, o, t + Hold) ELSE UNCHANGED row
  /\ Answer(k)
  /\ UNCHANGED <<now, phase, converting, history, stock>>

Remove(c) ==
  /\ Mutable(c)
  /\ row[c].status # "none"
  /\ row' = [row EXCEPT ![c] = NoRow]
  /\ UNCHANGED <<now, phase, calls, converting, history, stock>>

\* The held row of a cart that is given up is released.
Released(c) ==
  row' = [row EXCEPT ![c].status = IF @ = "held" THEN "released" ELSE @]

DeleteCart(c) ==
  /\ Mutable(c)
  /\ phase' = [phase EXCEPT ![c] = "deleted"]
  /\ Released(c)
  /\ UNCHANGED <<now, calls, converting, history, stock>>

\* The checkout route finds the hold and the offer still good and reads the clock.
StartCheckout(k, c) ==
  /\ calls[k] = Idle
  /\ phase[c] = "shopping"
  /\ row[c].status = "held" /\ row[c].until > now /\ EndsAt[row[c].offer] > now
  /\ calls' = [calls EXCEPT ![k] =
                 [kind |-> "checkout", cart |-> c, offer |-> row[c].offer, at |-> now]]
  /\ UNCHANGED <<now, row, phase, converting, history, stock>>

\* For a card payment the hold is taken again, long enough for the payment.
Refresh(k) ==
  /\ calls[k].kind = "checkout" /\ calls[k].cart \in CardCarts
  /\ LET c == calls[k].cart  o == calls[k].offer  t == calls[k].at
     IN IF Mutable(c) /\ row[c].offer = o /\ CanReserve(c, o, t)
          THEN /\ Reserved(c, o, t + CheckoutHold)
               /\ calls' = [calls EXCEPT ![k].kind = "refreshed"]
          ELSE /\ UNCHANGED row
               /\ Answer(k)
  /\ UNCHANGED <<now, phase, converting, history, stock>>

\* The attempt is created if the hold, read again under the locks, lasts as
\* long as the payment may take.
Begin(k) ==
  /\ calls[k].kind = "refreshed"
  /\ LET c == calls[k].cart  o == calls[k].offer
     IN IF /\ phase[c] = "shopping"
           /\ row[c].status = "held" /\ row[c].offer = o
           /\ row[c].until > now /\ row[c].until >= calls[k].at + CheckoutHold
           /\ Open(o, now)
          THEN phase' = [phase EXCEPT ![c] = "checkout"]
          ELSE UNCHANGED phase
  /\ Answer(k)
  /\ UNCHANGED <<now, row, converting, history, stock>>

\* Sunflowers are debited for an unchanged cart, whatever became of its hold.
Debit(k) ==
  /\ calls[k].kind = "checkout" /\ calls[k].cart \in DirectCarts
  /\ LET c == calls[k].cart
     IN phase' = [phase EXCEPT ![c] =
                    IF @ = "shopping" /\ row[c].offer = calls[k].offer THEN "charged" ELSE @]
  /\ Answer(k)
  /\ UNCHANGED <<now, row, converting, history, stock>>

\* The attempt ends unpaid, or the customer pays at the provider.
Abandon(c) ==
  /\ c \in CardCarts /\ phase[c] = "checkout"
  /\ phase' = [phase EXCEPT ![c] = "shopping"]
  /\ Released(c)
  /\ UNCHANGED <<now, calls, converting, history, stock>>

Charge(c) ==
  /\ c \in CardCarts /\ phase[c] = "checkout"
  /\ phase' = [phase EXCEPT ![c] = "charged"]
  /\ UNCHANGED <<now, row, calls, converting, history, stock>>

----------------------------------------------------------------------------
\* Fulfilment of a paid item.

\* Mutant of Sellable: a hold that ended is refused, captured or not.
SellableInTime(c) == row[c].status = "held" /\ row[c].until > now

\* An expired hold can be sold only if it is captured.
Sellable(c) == row[c].status = "held" /\ (row[c].until > now \/ Captured(c))

\* The processor of the payment reads the row without a lock.  It may stop
\* before, and is tried a limited number of times: nothing says it comes here.
CheckHold(c) ==
  /\ phase[c] = "charged" /\ c \notin converting
  /\ Sellable(c)
  /\ converting' = converting \cup {c}
  /\ UNCHANGED <<now, row, phase, calls, history, stock>>

\* There is no hold, it was released, or it expired uncaptured.
RefuseSale(c) ==
  /\ phase[c] = "charged" /\ c \notin converting
  /\ row[c].status # "converted" /\ ~Sellable(c)
  /\ refused' = refused \cup {c}
  /\ UNCHANGED <<now, row, phase, calls, converting, late, stock>>

\* The row is written by its id, whatever its state is by now.
Convert(c) ==
  /\ c \in converting
  /\ row' = [row EXCEPT ![c].status = "converted"]
  /\ late' = IF Counts(c, now) THEN late ELSE late \cup {c}
  /\ converting' = converting \ {c}
  /\ UNCHANGED <<now, phase, calls, refused, stock>>

\* The transaction that converts and plants fails and is rolled back.
RollBack(c) ==
  /\ c \in converting
  /\ converting' = converting \ {c}
  /\ UNCHANGED <<now, row, phase, calls, history, stock>>

Settle(c) ==
  /\ phase[c] = "charged" /\ c \notin converting
  /\ row[c].status = "converted"
  /\ phase' = [phase EXCEPT ![c] = "settled"]
  /\ UNCHANGED <<now, row, calls, converting, history, stock>>

----------------------------------------------------------------------------
\* The lifecycle job and the administrator.

\* Mutant of ExpireReservation: an ended hold gets a status of its own.
ExpireReservationAs(c) ==
  /\ row[c].status = "held" /\ row[c].until <= now
  /\ ~Captured(c)
  /\ row' = [row EXCEPT ![c].status = "expired"]
  /\ UNCHANGED <<now, phase, calls, converting, history, stock>>

ExpireReservation(c) ==
  /\ row[c].status = "held" /\ row[c].until <= now
  /\ ~Captured(c)
  /\ Released(c)
  /\ UNCHANGED <<now, phase, calls, converting, history, stock>>

CloseEnded(o) ==
  /\ offer[o].status = "published" /\ EndsAt[o] <= now
  /\ offer' = [offer EXCEPT ![o].status = "closed"]
  /\ UNCHANGED <<now, row, phase, calls, converting, edit, edits, peak, history>>

SetStatus(o) ==
  /\ edits < MaxEdits
  /\ \E s \in Statuses \ {offer[o].status} : offer' = [offer EXCEPT ![o].status = s]
  /\ edits' = edits + 1
  /\ UNCHANGED <<now, row, phase, calls, converting, edit, peak, history>>

\* The edit form is validated against what is committed now, and saved later.
OpenEdit(o) ==
  /\ edits < MaxEdits /\ edit[o] = NoEdit
  /\ edit' = [edit EXCEPT ![o] = Cardinality(Counted(o, now))]
  /\ edits' = edits + 1
  /\ UNCHANGED <<now, offer, row, phase, calls, converting, peak, history>>

SaveEdit(o, q) ==
  /\ edit[o] # NoEdit
  /\ q >= edit[o]
  /\ offer' = [offer EXCEPT ![o].quantity = q]
  /\ peak' = [peak EXCEPT ![o] = IF @ < q THEN q ELSE @]
  /\ edit' = [edit EXCEPT ![o] = NoEdit]
  /\ UNCHANGED <<now, row, phase, calls, converting, edits, history>>

Tick ==
  /\ now < MaxTime
  /\ now' = now + 1
  /\ UNCHANGED <<row, phase, calls, converting, history, stock>>

Next ==
  \/ \E k \in Calls, c \in Carts : StartCheckout(k, c) \/ \E o \in Offers : StartAdding(k, c, o)
  \/ \E k \in Calls : Add(k) \/ Refresh(k) \/ Begin(k) \/ Debit(k)
  \/ \E c \in Carts :
       \/ Remove(c) \/ DeleteCart(c) \/ Abandon(c) \/ Charge(c)
       \/ CheckHold(c) \/ RefuseSale(c) \/ Convert(c) \/ RollBack(c) \/ Settle(c)
       \/ ExpireReservation(c)
  \/ \E o \in Offers :
       CloseEnded(o) \/ SetStatus(o) \/ OpenEdit(o) \/ \E q \in Quantities : SaveEdit(o, q)
  \/ Tick

Spec == Init /\ [][Next]_vars

----------------------------------------------------------------------------
\* No more seedlings of an offer are held and sold than it was ever given,
\* apart from the sales that were decided while their hold counted and written
\* when it did not any more: the availability count and the expiry job, which
\* use different clocks, and the attempts that stretch a hold agree on which
\* holds count.
StockCoversCommitments ==
  \A o \in Offers : Cardinality(Counted(o, now) \ late) <= peak[o]

\* A seedling paid by card is never sold from a hold that did not count any
\* more: expiry, release and removal leave alone what an attempt captures.
CardSalesAreCovered == late \cap CardCarts = {}

\* What the test "reserveOutletOffer creates a held reservation and blocks
\* overselling" names: no more seedlings of an offer are sold than it was ever
\* given.
BlocksOverselling ==
  \A o \in Offers :
    Cardinality({c \in Carts : row[c].offer = o /\ row[c].status = "converted"}) <= peak[o]

\* A cart paid by card is a CartCheckout of the offer its item is for: while a
\* payment is possible and until it is settled, no request, expiry or edit
\* changes what the hold is for.
Cart(c) ==
  INSTANCE CartCheckout WITH
    Payments <- {c},
    Contents <- Offers \cup {NoOffer},
    phase <- phase[c],
    content <- row[c].offer,
    charges <- IF phase[c] \in {"charged", "settled"} THEN {<<c, row[c].offer>>} ELSE {}

ImplementsCartCheckout ==
  /\ \A c \in CardCarts : Cart(c)!Init
  /\ [][\A c \in CardCarts : Cart(c)!Next \/ UNCHANGED Cart(c)!vars]_vars

\* Whenever the fulfilment gets to it, however long after the end of its hold,
\* what was paid by card can be sold: its hold is there and is honoured (the
\* conversion looks for the active attempt that captured it).
CardPaidIsNeverRefused == refused \cap CardCarts = {}
=============================================================================
