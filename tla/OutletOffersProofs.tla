------------------------- MODULE OutletOffersProofs -------------------------
(***************************************************************************)
(* Theorems about OutletOffers for any carts, offers, quantities, times    *)
(* and numbers of requests: what is held and sold stays within the stock   *)
(* up to the late conversions, no cart paid by card is converted late or   *)
(* refused, and carts paid by card implement CartCheckout.                 *)
(***************************************************************************)
EXTENDS OutletOffers, FiniteSetTheorems, TLAPS

Within(o) == Counted(o, now) \ late

(* A cart and its hold: a hold is on an offer; a captured hold is there;   *)
(* that of a settled cart is converted; only what is paid is converted.    *)
CartOK(c) ==
  /\ row[c].status # "none" => row[c].offer \in Offers
  /\ Captured(c) => row[c].status \in {"held", "converted"}
  /\ phase[c] = "settled" => row[c].status = "converted"
  /\ c \in converting => phase[c] = "charged" /\ row[c].status # "none"

(* All but the stock.                                                      *)
Safe ==
  /\ TypeOK
  /\ \A c \in Carts : CartOK(c)
  /\ late \cap CardCarts = {} /\ refused \cap CardCarts = {}
  /\ \A o \in Offers : offer[o].quantity <= peak[o]

Inv == Safe /\ StockCoversCommitments

(* What there is to say about a call under way, and about new calls.       *)
LEMMA CallRecords ==
  ASSUME TypeOK, NEW k \in Calls
  PROVE  /\ calls[k].kind # "idle" =>
              /\ calls[k].cart \in Carts /\ calls[k].offer \in Offers
              /\ calls[k].at \in Nat /\ calls[k].at <= now
              /\ calls[k].kind \in {"adding", "checkout", "refreshed"}
              /\ [calls[k] EXCEPT !.kind = "refreshed"] \in CallType(now)
         /\ Idle \in CallType(now) /\ Idle.kind = "idle"
         /\ \A c \in Carts, o \in Offers, kind \in {"adding", "checkout"} :
              [kind |-> kind, cart |-> c, offer |-> o, at |-> now] \in CallType(now)
  BY OutletAssumption DEF TypeOK, CallType, Idle

LEMMA LaterCalls ==
  ASSUME NEW t \in Nat
  PROVE  CallType(t) \subseteq CallType(t + 1)
  BY DEF CallType

(* The rows that are written.                                              *)
LEMMA RowRecords ==
  ASSUME TypeOK, NEW c \in Carts
  PROVE  /\ row[c].status \in RowStatuses /\ row[c].until \in Nat /\ NoRow \in RowType
         /\ \A s \in RowStatuses : [row[c] EXCEPT !.status = s] \in RowType
         /\ \A o \in Offers, u \in Nat :
              [status |-> "held", offer |-> o, until |-> u] \in RowType
  BY OutletAssumption DEF TypeOK, RowType, RowStatuses, NoRow

(* What a step leaves of the rows.                                         *)
LEMMA NewRow ==
  ASSUME TypeOK, NEW c \in Carts, NEW r \in RowType, row' = [row EXCEPT ![c] = r]
  PROVE  /\ row' \in [Carts -> RowType]
         /\ \A x \in Carts : row'[x] = IF x = c THEN r ELSE row[x]
  BY DEF TypeOK

LEMMA StatusWritten ==
  ASSUME TypeOK, NEW c \in Carts, NEW s \in RowStatuses,
         row' = [row EXCEPT ![c].status = s]
  PROVE  /\ row' \in [Carts -> RowType]
         /\ \A x \in Carts :
              /\ row'[x].offer = row[x].offer /\ row'[x].until = row[x].until
              /\ row'[x].status = IF x = c THEN s ELSE row[x].status
<1>1. row' = [row EXCEPT ![c] = [row[c] EXCEPT !.status = s]]
  OBVIOUS
<1>2. [row[c] EXCEPT !.status = s] \in RowType
  BY RowRecords
<1>3. /\ [row[c] EXCEPT !.status = s].offer = row[c].offer
      /\ [row[c] EXCEPT !.status = s].until = row[c].until
      /\ [row[c] EXCEPT !.status = s].status = s
  BY DEF TypeOK, RowType
<1>4. QED
  BY <1>1, <1>2, <1>3, NewRow

LEMMA RowReleased ==
  ASSUME TypeOK, NEW c \in Carts, Released(c)
  PROVE  /\ row' \in [Carts -> RowType]
         /\ \A x \in Carts :
              /\ row'[x].offer = row[x].offer /\ row'[x].until = row[x].until
              /\ row'[x].status =
                   IF x = c /\ row[c].status = "held" THEN "released" ELSE row[x].status
<1> DEFINE s == IF row[c].status = "held" THEN "released" ELSE row[c].status
<1>1. s \in RowStatuses
  BY RowRecords DEF RowStatuses
<1>2. row' = [row EXCEPT ![c].status = s]
  BY DEF Released
<1> HIDE DEF s
<1>3. /\ row' \in [Carts -> RowType]
      /\ \A x \in Carts :
           /\ row'[x].offer = row[x].offer /\ row'[x].until = row[x].until
           /\ row'[x].status = IF x = c THEN s ELSE row[x].status
  BY <1>1, <1>2, StatusWritten
<1>4. QED
  BY <1>3 DEF s
-----------------------------------------------------------------------------
(* Every step keeps the types, holds, calls and late conversions right.    *)
LEMMA SafeStep == Safe /\ [Next]_vars => Safe'
<1> SUFFICES ASSUME Safe, [Next]_vars PROVE Safe'
  OBVIOUS
<1> USE OutletAssumption DEF history
<1>0. TypeOK
  BY DEF Safe
<1>1. ASSUME NEW k \in Calls, NEW c \in Carts, NEW o \in Offers, StartAdding(k, c, o)
      PROVE  Safe'
  <2> DEFINE r == [kind |-> "adding", cart |-> c, offer |-> o, at |-> now]
  <2>1. r \in CallType(now) /\ r.cart = c
    BY <1>0, CallRecords
  <2> HIDE DEF r
  <2>2. calls' = [calls EXCEPT ![k] = r]
    BY <1>1 DEF StartAdding, r
  <2>3. TypeOK'
    BY <1>0, <1>1, <2>1, <2>2 DEF StartAdding, TypeOK, stock
  <2>4. \A x \in Calls : calls'[x] = IF x = k THEN r ELSE calls[x]
    BY <1>0, <2>2 DEF TypeOK
  <2>5. QED
    BY <1>1, <2>1, <2>3, <2>4 DEF Safe, StartAdding, stock, CartOK, Captured, Mutable
<1>2. ASSUME NEW k \in Calls, NEW c \in Carts, StartCheckout(k, c)
      PROVE  Safe'
  <2> DEFINE r == [kind |-> "checkout", cart |-> c, offer |-> row[c].offer, at |-> now]
  <2>1. row[c].offer \in Offers
    BY <1>2 DEF Safe, CartOK, StartCheckout
  <2>2. r \in CallType(now)
    BY <1>0, <2>1, CallRecords
  <2> HIDE DEF r
  <2>3. calls' = [calls EXCEPT ![k] = r]
    BY <1>2 DEF StartCheckout, r
  <2>4. TypeOK'
    BY <1>0, <1>2, <2>2, <2>3 DEF StartCheckout, TypeOK, stock
  <2>5. \A x \in Calls : calls'[x] = IF x = k THEN r ELSE calls[x]
    BY <1>0, <2>3 DEF TypeOK
  <2>6. QED
    BY <1>2, <2>2, <2>4, <2>5 DEF Safe, StartCheckout, stock, CartOK, Captured
<1>3. ASSUME NEW k \in Calls, Add(k) \/ Refresh(k)
      PROVE  Safe'
  <2> DEFINE c == calls[k].cart
             r(u) == [status |-> "held", offer |-> calls[k].offer, until |-> u]
             a == calls[k].kind
  <2>1. /\ c \in Carts /\ calls[k].offer \in Offers /\ calls[k].at \in Nat
        /\ Idle \in CallType(now) /\ [calls[k] EXCEPT !.kind = "refreshed"] \in CallType(now)
    BY <1>0, <1>3, CallRecords DEF Add, Refresh, TypeOK, CallType
  <2>2. \A u \in Nat : r(u) \in RowType /\ r(u).status = "held" /\ r(u).offer \in Offers
    BY <1>0, <2>1, RowRecords
  <2>3. phase[c] = "shopping" \/ UNCHANGED row
    BY <1>3, <2>1 DEF Add, Refresh, Mutable
  <2>4. UNCHANGED row \/ \E u \in Nat : row' = [row EXCEPT ![c] = r(u)]
    <3>1. calls[k].at + Hold \in Nat /\ calls[k].at + CheckoutHold \in Nat
      BY <2>1
    <3>2. QED
      BY <1>3, <3>1 DEF Add, Refresh, Reserved
  <2> HIDE DEF r
  <2>5. /\ row' \in [Carts -> RowType]
        /\ \A x \in Carts :
             row'[x] = row[x] \/ (x = c /\ row'[x].status = "held" /\ row'[x].offer \in Offers)
    <3>1. CASE UNCHANGED row
      BY <1>0, <3>1 DEF TypeOK
    <3>2. ASSUME NEW u \in Nat, row' = [row EXCEPT ![c] = r(u)]
          PROVE  /\ row' \in [Carts -> RowType]
                 /\ \A x \in Carts : row'[x] = IF x = c THEN r(u) ELSE row[x]
      <4>1. r(u) \in RowType /\ c \in Carts
        BY <2>1, <2>2, <3>2
      <4>2. QED
        BY <1>0, <3>2, <4>1, NewRow
    <3>3. QED
      BY <2>2, <2>4, <3>1, <3>2
  <2>6. \/ calls' = [calls EXCEPT ![k] = Idle]
        \/ calls' = [calls EXCEPT ![k] = [calls[k] EXCEPT !.kind = "refreshed"]]
    BY <1>3 DEF Add, Refresh, Answer
  <2>7. calls' \in [Calls -> CallType(now)]
    BY <1>0, <2>1, <2>6 DEF TypeOK
  <2>8. UNCHANGED <<now, phase, converting, history, stock>>
    BY <1>3 DEF Add, Refresh
  <2>9. TypeOK'
    BY <1>0, <2>5, <2>7, <2>8 DEF TypeOK, stock
  <2>10. \A x \in Carts : CartOK(x)'
    <3>1. SUFFICES ASSUME NEW x \in Carts PROVE CartOK(x)'
      OBVIOUS
    <3>2. CASE row'[x] = row[x]
      BY <2>8, <3>2 DEF Safe, CartOK, Captured
    <3>3. CASE x = c /\ row'[x] # row[x]
      BY <2>3, <2>5, <2>8, <3>3 DEF Safe, CartOK, Captured
    <3>4. QED
      BY <2>5, <3>2, <3>3
  <2>11. QED
    BY <2>7, <2>8, <2>9, <2>10 DEF Safe, stock
<1>5. ASSUME NEW k \in Calls, Begin(k) \/ Debit(k)
      PROVE  Safe'
  <2> DEFINE c == calls[k].cart
  <2>1. c \in Carts /\ Idle \in CallType(now)
    BY <1>0, <1>5, CallRecords DEF Begin, Debit
  <2>2. calls' = [calls EXCEPT ![k] = Idle] /\ UNCHANGED <<now, row, converting, history, stock>>
    BY <1>5 DEF Begin, Debit, Answer
  <2>3. calls' \in [Calls -> CallType(now)]
    BY <1>0, <2>1, <2>2 DEF TypeOK
  <2>4. \/ UNCHANGED phase
        \/ /\ phase' = [phase EXCEPT ![c] = "checkout"] /\ phase[c] = "shopping"
           /\ row[c].status = "held"
        \/ /\ phase' = [phase EXCEPT ![c] = "charged"] /\ phase[c] = "shopping"
           /\ c \in DirectCarts
    BY <1>0, <1>5 DEF Begin, Debit, TypeOK
  <2>5. TypeOK'
    BY <1>0, <2>2, <2>3, <2>4 DEF TypeOK, stock
  <2>6. \A x \in Carts : CartOK(x)'
    BY <1>0, <2>1, <2>2, <2>4 DEF Safe, CartOK, Captured, CardCarts, TypeOK
  <2>7. QED
    BY <2>2, <2>5, <2>6 DEF Safe, stock
<1>7. ASSUME NEW c \in Carts, Remove(c)
      PROVE  Safe'
  <2>1. /\ row' \in [Carts -> RowType]
        /\ \A x \in Carts : row'[x] = IF x = c THEN NoRow ELSE row[x]
    BY <1>0, <1>7, NewRow, RowRecords DEF Remove
  <2>2. TypeOK'
    BY <1>0, <1>7, <2>1 DEF Remove, TypeOK, stock
  <2>3. QED
    BY <1>7, <2>1, <2>2 DEF Safe, Remove, stock, CartOK, Captured, Mutable, NoRow
<1>8. ASSUME NEW c \in Carts, DeleteCart(c) \/ Abandon(c)
      PROVE  Safe'
  <2>1. /\ row' \in [Carts -> RowType]
        /\ \A x \in Carts :
             /\ row'[x].offer = row[x].offer
             /\ row'[x].status =
                  IF x = c /\ row[c].status = "held" THEN "released" ELSE row[x].status
    BY <1>0, <1>8, RowReleased DEF DeleteCart, Abandon
  <2>2. \E p \in {"shopping", "deleted"} : phase' = [phase EXCEPT ![c] = p]
    BY <1>8 DEF DeleteCart, Abandon
  <2>3. UNCHANGED <<now, calls, converting, history, stock>>
    BY <1>8 DEF DeleteCart, Abandon
  <2>4. phase[c] \in {"shopping", "checkout"}
    BY <1>8 DEF DeleteCart, Abandon, Mutable
  <2>5. TypeOK'
    BY <1>0, <2>1, <2>2, <2>3 DEF TypeOK, stock
  <2>6. \A x \in Carts :
          phase'[x] = phase[x] \/ (x = c /\ phase'[x] \in {"shopping", "deleted"})
    <3>1. PICK p \in {"shopping", "deleted"} : phase' = [phase EXCEPT ![c] = p]
      BY <2>2
    <3>2. \A x \in Carts : phase'[x] = IF x = c THEN p ELSE phase[x]
      BY <1>0, <3>1 DEF TypeOK
    <3>3. QED
      BY <3>1, <3>2
  <2>7. \A x \in Carts : CartOK(x)'
    <3>1. ASSUME NEW x \in Carts, x # c PROVE CartOK(x)'
      BY <2>1, <2>3, <2>6, <3>1 DEF Safe, CartOK, Captured
    <3>2. c \notin converting /\ phase'[c] \in {"shopping", "deleted"}
      BY <1>0, <2>2, <2>4 DEF Safe, CartOK, TypeOK
    <3>3. CartOK(c)'
      BY <2>1, <2>3, <3>2 DEF Safe, CartOK, Captured
    <3>4. QED
      BY <3>1, <3>3
  <2>8. QED
    BY <2>3, <2>5, <2>7 DEF Safe, stock
<1>10. ASSUME NEW c \in Carts, Charge(c)
      PROVE  Safe'
  BY <1>10 DEF Safe, Charge, TypeOK, stock, CartOK, Captured
<1>11. ASSUME NEW c \in Carts, CheckHold(c)
      PROVE  Safe'
  BY <1>11 DEF Safe, CheckHold, Sellable, TypeOK, stock, CartOK, Captured
<1>12. ASSUME NEW c \in Carts, Convert(c)
      PROVE  Safe'
  <2>1. phase[c] = "charged"
    BY <1>12 DEF Safe, CartOK, Convert
  <2>2. c \in CardCarts => Counts(c, now)
    BY <2>1 DEF Safe, CartOK, Counts, Captured
  <2>3. /\ row' \in [Carts -> RowType]
        /\ \A x \in Carts :
             /\ row'[x].offer = row[x].offer
             /\ row'[x].status = IF x = c THEN "converted" ELSE row[x].status
    <3>1. "converted" \in RowStatuses /\ row' = [row EXCEPT ![c].status = "converted"]
      BY <1>12 DEF Convert, RowStatuses
    <3>2. QED
      BY <1>0, <3>1, StatusWritten
  <2>4. TypeOK'
    BY <1>0, <1>12, <2>3 DEF Convert, TypeOK, stock
  <2>5. row[c].status # "none"
    BY <1>12 DEF Safe, CartOK, Convert
  <2>6. \A x \in Carts : CartOK(x)'
    BY <1>12, <2>3, <2>5 DEF Safe, Convert, CartOK, Captured
  <2>7. QED
    BY <1>12, <2>2, <2>4, <2>6 DEF Safe, Convert, stock
<1>13. ASSUME NEW c \in Carts, Settle(c) \/ RollBack(c)
      PROVE  Safe'
  BY <1>13 DEF Safe, Settle, RollBack, TypeOK, stock, CartOK, Captured
<1>4. ASSUME NEW c \in Carts, RefuseSale(c)
      PROVE  Safe'
  <2>1. c \notin CardCarts
    BY <1>4 DEF Safe, CartOK, RefuseSale, Sellable, Captured
  <2>2. QED
    BY <1>4, <2>1 DEF Safe, RefuseSale, TypeOK, stock, CartOK, Captured
<1>14. ASSUME NEW c \in Carts, ExpireReservation(c)
      PROVE  Safe'
  <2>1. /\ row' \in [Carts -> RowType]
        /\ \A x \in Carts :
             /\ row'[x].offer = row[x].offer
             /\ row'[x].status =
                  IF x = c /\ row[c].status = "held" THEN "released" ELSE row[x].status
    BY <1>0, <1>14, RowReleased DEF ExpireReservation
  <2>2. TypeOK'
    BY <1>0, <1>14, <2>1 DEF ExpireReservation, TypeOK, stock
  <2>3. \A x \in Carts : CartOK(x)'
    BY <1>14, <2>1 DEF Safe, ExpireReservation, CartOK, Captured
  <2>4. QED
    BY <1>14, <2>2, <2>3 DEF Safe, ExpireReservation, stock
<1>15. ASSUME NEW o \in Offers, CloseEnded(o) \/ SetStatus(o) \/ OpenEdit(o)
      PROVE  Safe'
  <2>1. Cardinality(Counted(o, now)) \in Nat
    BY FS_Subset, FS_CardinalityType DEF Counted
  <2>2. UNCHANGED <<now, row, phase, calls, converting, history, peak>>
    BY <1>15 DEF CloseEnded, SetStatus, OpenEdit
  <2>3. /\ offer' \in [Offers -> [status : Statuses, quantity : Nat]]
        /\ \A x \in Offers : offer'[x].quantity = offer[x].quantity
    <3>1. CASE UNCHANGED offer
      BY <1>0, <3>1 DEF TypeOK
    <3>2. ASSUME NEW s \in Statuses, offer' = [offer EXCEPT ![o].status = s]
          PROVE  /\ offer' \in [Offers -> [status : Statuses, quantity : Nat]]
                 /\ \A x \in Offers : offer'[x].quantity = offer[x].quantity
      BY <1>0, <3>2 DEF TypeOK
    <3>3. UNCHANGED offer \/ \E s \in Statuses : offer' = [offer EXCEPT ![o].status = s]
      BY <1>15 DEF CloseEnded, SetStatus, OpenEdit, Statuses
    <3>4. QED
      BY <3>1, <3>2, <3>3
  <2>4. edit' \in [Offers -> Nat] /\ edits' \in 0..MaxEdits
    <3>1. CASE UNCHANGED <<edit, edits>>
      BY <1>0, <3>1 DEF TypeOK
    <3>2. CASE UNCHANGED edit /\ edits < MaxEdits /\ edits' = edits + 1
      BY <1>0, <3>2 DEF TypeOK
    <3>3. ASSUME NEW n \in Nat, edit' = [edit EXCEPT ![o] = n],
                 edits < MaxEdits, edits' = edits + 1
          PROVE  edit' \in [Offers -> Nat] /\ edits' \in 0..MaxEdits
      BY <1>0, <3>3 DEF TypeOK
    <3>4. QED
      BY <1>15, <2>1, <3>1, <3>2, <3>3 DEF CloseEnded, SetStatus, OpenEdit
  <2>5. TypeOK'
    BY <1>0, <2>2, <2>3, <2>4 DEF TypeOK
  <2>6. QED
    BY <2>2, <2>3, <2>5 DEF Safe, CartOK, Captured
<1>16. ASSUME NEW o \in Offers, NEW q \in Quantities, SaveEdit(o, q)
      PROVE  Safe'
  <2>1. NoEdit \in Nat
    BY FS_CardinalityType DEF NoEdit
  <2>2. QED
    BY <1>16, <2>1 DEF Safe, SaveEdit, TypeOK, stock, CartOK, Captured
<1>17. ASSUME Tick
      PROVE  Safe'
  <2>1. now \in Nat /\ now + 1 \in 0..MaxTime
    BY <1>0, <1>17 DEF Tick, TypeOK
  <2>2. calls \in [Calls -> CallType(now + 1)]
    BY <1>0, <2>1, LaterCalls DEF TypeOK
  <2>3. TypeOK'
    BY <1>0, <1>17, <2>1, <2>2 DEF Tick, TypeOK, stock
  <2>4. QED
    BY <1>17, <2>3 DEF Safe, Tick, stock, CartOK, Captured
<1>18. CASE UNCHANGED vars
  BY <1>18 DEF Safe, vars, stock, TypeOK, CartOK, Captured
<1>19. QED
  BY <1>1, <1>2, <1>3, <1>4, <1>5, <1>7, <1>8, <1>10, <1>11, <1>12, <1>13, <1>14,
     <1>15, <1>16, <1>17, <1>18 DEF Next
-----------------------------------------------------------------------------
(* The stock is covered when what is counted does not grow and the most    *)
(* that was ever given does not shrink.                                    *)
LEMMA CoveredAgain ==
  ASSUME Inv, Safe', NEW o \in Offers, peak[o] <= peak'[o], Within(o)' \subseteq Within(o)
  PROVE  Cardinality(Within(o)') <= peak'[o]
<1>1. IsFiniteSet(Within(o)) /\ IsFiniteSet(Within(o)')
  BY OutletAssumption, FS_Subset DEF Within, Counted
<1>2. Cardinality(Within(o)') <= Cardinality(Within(o))
  BY <1>1, FS_Subset
<1>3. Cardinality(Within(o)) \in Nat /\ Cardinality(Within(o)') \in Nat
  BY <1>1, FS_CardinalityType
<1>4. peak[o] \in Nat /\ peak'[o] \in Nat
  BY DEF Inv, Safe, TypeOK
<1>5. QED
  BY <1>2, <1>3, <1>4 DEF Inv, StockCoversCommitments, Within

(* A reservation: whoever counts now counted at the earlier time it was    *)
(* decided with, so that the cart it is for is at most one too many.       *)
LEMMA CoveredReservation ==
  ASSUME Inv, Safe', NEW o \in Offers, NEW c \in Carts, NEW t \in Nat, t <= now,
         CanReserve(c, o, t), offer' = offer, peak' = peak,
         Within(o)' \subseteq Counted(o, now) \cup {c}
  PROVE  Cardinality(Within(o)') <= peak'[o]
<1> DEFINE Others == Counted(o, t) \ {c}
<1>1. IsFiniteSet(Others) /\ IsFiniteSet(Within(o)')
  BY OutletAssumption, FS_Subset DEF Within, Counted
<1>2. Counted(o, now) \subseteq Counted(o, t)
  <2>1. ASSUME NEW x \in Carts PROVE row[x].until \in Nat /\ now \in Nat
    BY RowRecords DEF Inv, Safe, TypeOK
  <2>2. QED
    BY <2>1 DEF Counted, Counts
<1>3. Within(o)' \subseteq Others \cup {c}
  BY <1>2
<1>4. c \notin Others
  OBVIOUS
<1>5. Cardinality(Others) < offer[o].quantity
  BY DEF CanReserve
<1> HIDE DEF Others
<1>6. IsFiniteSet(Others \cup {c}) /\ Cardinality(Others \cup {c}) = Cardinality(Others) + 1
  BY <1>1, <1>4, FS_AddElement
<1>7. Cardinality(Within(o)') <= Cardinality(Others \cup {c})
  BY <1>3, <1>6, FS_Subset
<1>8. Cardinality(Others) \in Nat /\ Cardinality(Within(o)') \in Nat
  BY <1>1, FS_CardinalityType
<1>9. offer[o].quantity \in Nat /\ peak[o] \in Nat /\ offer[o].quantity <= peak[o]
  BY DEF Inv, Safe, TypeOK
<1>10. QED
  BY <1>5, <1>6, <1>7, <1>8, <1>9

LEMMA StockStep == Inv /\ Safe' /\ [Next]_vars => StockCoversCommitments'
<1> SUFFICES ASSUME Inv, Safe', [Next]_vars, NEW o \in Offers
             PROVE  Cardinality(Within(o)') <= peak'[o]
  BY DEF StockCoversCommitments, Within
<1> USE DEF history
<1>0. TypeOK /\ Safe /\ now \in Nat /\ peak[o] \in Nat
  BY DEF Inv, Safe, TypeOK
<1> DEFINE Fewer == peak[o] <= peak'[o] /\ Within(o)' \subseteq Within(o)
<1>1. ASSUME UNCHANGED <<now, row, late, peak>>,
             \A c \in Carts : Captured(c)' => Captured(c) \/ row[c].until > now
                                              \/ row[c].status # "held"
      PROVE  Fewer
  BY <1>0, <1>1 DEF Within, Counted, Counts
<1>2. ASSUME NEW k \in Calls, NEW c \in Carts, StartCheckout(k, c) \/ \E x \in Offers : StartAdding(k, c, x)
      PROVE  Fewer
  BY <1>1, <1>2 DEF StartCheckout, StartAdding, stock, Captured
<1>3. ASSUME NEW k \in Calls, Begin(k) \/ Debit(k)
      PROVE  Fewer
  <2> DEFINE c == calls[k].cart
  <2>1. \/ UNCHANGED phase
        \/ phase' = [phase EXCEPT ![c] = "checkout"] /\ row[c].until > now
        \/ phase' = [phase EXCEPT ![c] = "charged"] /\ c \in DirectCarts
    BY <1>0, <1>3 DEF Begin, Debit, TypeOK
  <2>2. UNCHANGED <<now, row, late, peak>>
    BY <1>3 DEF Begin, Debit, stock
  <2>3. QED
    BY <1>0, <1>1, <2>1, <2>2 DEF Captured, CardCarts, TypeOK
<1>4. ASSUME NEW c \in Carts,
             Charge(c) \/ CheckHold(c) \/ RefuseSale(c) \/ RollBack(c) \/ Settle(c)
      PROVE  Fewer
  BY <1>0, <1>1, <1>4 DEF Charge, CheckHold, RefuseSale, RollBack, Settle, stock, Captured, TypeOK
<1>5. ASSUME NEW c \in Carts, Remove(c)
      PROVE  Fewer
  <2>1. \A x \in Carts : row'[x] = IF x = c THEN NoRow ELSE row[x]
    BY <1>0, <1>5, NewRow, RowRecords DEF Remove
  <2>2. QED
    BY <1>0, <1>5, <2>1 DEF Remove, NoRow, stock, Within, Counted, Counts, Captured
<1>6. ASSUME NEW c \in Carts, DeleteCart(c) \/ Abandon(c) \/ ExpireReservation(c)
      PROVE  Fewer
  <2>1. \A x \in Carts :
          /\ row'[x].offer = row[x].offer /\ row'[x].until = row[x].until
          /\ row'[x].status =
               IF x = c /\ row[c].status = "held" THEN "released" ELSE row[x].status
    BY <1>0, <1>6, RowReleased DEF DeleteCart, Abandon, ExpireReservation
  <2>2. /\ UNCHANGED <<now, late, peak>>
        /\ \A x \in Carts : phase'[x] = phase[x] \/ x = c
    BY <1>0, <1>6 DEF DeleteCart, Abandon, ExpireReservation, stock, TypeOK
  <2>3. QED
    BY <1>0, <2>1, <2>2 DEF Within, Counted, Counts, Captured
<1>7. ASSUME NEW c \in Carts, Convert(c)
      PROVE  Fewer
  <2>1. \A x \in Carts :
          /\ row'[x].offer = row[x].offer /\ row'[x].until = row[x].until
          /\ row'[x].status = IF x = c THEN "converted" ELSE row[x].status
    <3>1. "converted" \in RowStatuses /\ row' = [row EXCEPT ![c].status = "converted"]
      BY <1>7 DEF Convert, RowStatuses
    <3>2. QED
      BY <1>0, <3>1, StatusWritten
  <2>2. Counts(c, now) \/ c \in late'
    BY <1>7 DEF Convert
  <2>3. UNCHANGED <<now, phase, peak>> /\ late \subseteq late'
    BY <1>7 DEF Convert, stock
  <2>4. QED
    BY <1>0, <2>1, <2>2, <2>3 DEF Within, Counted, Counts, Captured
<1>8. ASSUME NEW k \in Calls, Add(k) \/ Refresh(k)
      PROVE  Cardinality(Within(o)') <= peak'[o]
  <2> DEFINE c == calls[k].cart
             r(u) == [status |-> "held", offer |-> calls[k].offer, until |-> u]
  <2>1. /\ c \in Carts /\ calls[k].offer \in Offers
        /\ calls[k].at \in Nat /\ calls[k].at <= now
    BY <1>0, <1>8, CallRecords DEF Add, Refresh
  <2>2. UNCHANGED <<now, phase, late, offer, peak>>
    BY <1>8 DEF Add, Refresh, stock
  <2>3. CASE UNCHANGED row
    BY <1>0, <1>1, <2>2, <2>3, CoveredAgain DEF Captured
  <2>4. ASSUME NEW u \in Nat, row' = [row EXCEPT ![c] = r(u)], CanReserve(c, calls[k].offer, calls[k].at)
        PROVE  Cardinality(Within(o)') <= peak'[o]
    <3>1. r(u) \in RowType /\ r(u).offer = calls[k].offer
      BY <1>0, <2>1, RowRecords
    <3> HIDE DEF r
    <3>2. \A x \in Carts : row'[x] = IF x = c THEN r(u) ELSE row[x]
      BY <1>0, <2>1, <2>4, <3>1, NewRow
    <3>3. Within(o)' \subseteq Counted(o, now) \cup {c}
      BY <2>2, <3>2 DEF Within, Counted, Counts, Captured
    <3>4. CASE o = calls[k].offer
      BY <2>1, <2>2, <2>4, <3>3, <3>4, CoveredReservation
    <3>5. CASE o # calls[k].offer
      <4>1. Within(o)' \subseteq Within(o)
        BY <2>2, <3>1, <3>2, <3>5 DEF Within, Counted, Counts, Captured
      <4>2. QED
        BY <1>0, <2>2, <4>1, CoveredAgain
    <3>6. QED
      BY <3>4, <3>5
  <2>5. \/ UNCHANGED row
        \/ \E u \in Nat : row' = [row EXCEPT ![c] = r(u)] /\ CanReserve(c, calls[k].offer, calls[k].at)
    <3>1. calls[k].at + Hold \in Nat /\ calls[k].at + CheckoutHold \in Nat
      BY <2>1, OutletAssumption
    <3>2. QED
      BY <1>8, <3>1 DEF Add, Refresh, Reserved
  <2>6. QED
    BY <2>3, <2>4, <2>5
<1>9. ASSUME NEW x \in Offers, CloseEnded(x) \/ SetStatus(x) \/ OpenEdit(x)
      PROVE  Fewer
  BY <1>0, <1>1, <1>9 DEF CloseEnded, SetStatus, OpenEdit, Captured
<1>10. ASSUME NEW x \in Offers, NEW q \in Quantities, SaveEdit(x, q)
       PROVE  Fewer
  <2>1. peak[o] <= peak'[o]
    BY <1>0, <1>10, OutletAssumption DEF SaveEdit, TypeOK
  <2>2. QED
    BY <1>10, <2>1 DEF SaveEdit, Within, Counted, Counts, Captured
<1>11. ASSUME Tick
       PROVE  Fewer
  <2>1. ASSUME NEW x \in Carts PROVE row[x].until \in Nat
    BY <1>0, RowRecords
  <2>2. QED
    BY <1>0, <1>11, <2>1 DEF Tick, stock, Within, Counted, Counts, Captured
<1>12. ASSUME UNCHANGED vars
       PROVE  Fewer
  BY <1>0, <1>12 DEF vars, stock, Within, Counted, Counts, Captured
<1>13. CASE Fewer
  BY <1>13, CoveredAgain
<1> HIDE DEF Fewer
<1>14. CASE \E k \in Calls, c \in Carts : StartCheckout(k, c) \/ \E x \in Offers : StartAdding(k, c, x)
  BY <1>2, <1>13, <1>14
<1>15. CASE \E k \in Calls : Add(k) \/ Refresh(k) \/ Begin(k) \/ Debit(k)
  BY <1>3, <1>8, <1>13, <1>15
<1>16. CASE \E c \in Carts :
              \/ Remove(c) \/ DeleteCart(c) \/ Abandon(c) \/ Charge(c)
              \/ CheckHold(c) \/ RefuseSale(c) \/ Convert(c) \/ RollBack(c) \/ Settle(c)
              \/ ExpireReservation(c)
  BY <1>4, <1>5, <1>6, <1>7, <1>13, <1>16
<1>17. CASE \E x \in Offers :
              CloseEnded(x) \/ SetStatus(x) \/ OpenEdit(x) \/ \E q \in Quantities : SaveEdit(x, q)
  BY <1>9, <1>10, <1>13, <1>17
<1>18. QED
  BY <1>11, <1>12, <1>13, <1>14, <1>15, <1>16, <1>17 DEF Next
-----------------------------------------------------------------------------
(* The types are kept, what is held and sold stays within the stock apart  *)
(* from late conversions, and no late conversion is of a card payment.     *)
LEMMA Initially == Init => Inv
<1> SUFFICES ASSUME Init PROVE Inv
  OBVIOUS
<1> USE OutletAssumption
<1>1. TypeOK
  <2>1. NoEdit \in Nat
    BY FS_CardinalityType DEF NoEdit
  <2>2. NoRow \in RowType
    BY DEF NoRow, RowType, RowStatuses
  <2>3. QED
    BY <2>1, <2>2 DEF Init, TypeOK, Statuses, CallType
<1>2. Safe
  BY <1>1 DEF Init, Safe, CartOK, Captured, NoRow, Idle
<1>3. ASSUME NEW o \in Offers PROVE Cardinality(Counted(o, now) \ late) <= peak[o]
  <2>1. Counted(o, now) \ late = {}
    BY DEF Init, Counted, Counts, NoRow
  <2>2. QED
    BY <2>1, FS_EmptySet DEF Init
<1>4. QED
  BY <1>2, <1>3 DEF Inv, StockCoversCommitments

LEMMA Invariance == Spec => []Inv
<1>1. Inv /\ [Next]_vars => Inv'
  BY SafeStep, StockStep DEF Inv
<1>2. QED
  BY Initially, <1>1, PTL DEF Spec

(* Every variable keeps its type.                                          *)
THEOREM TypeCorrect == Spec => []TypeOK
<1>1. Inv => TypeOK
  BY DEF Inv, Safe
<1>2. QED
  BY Invariance, <1>1, PTL

(* What is held and sold of an offer, late conversions apart, is within    *)
(* the most it was ever given.                                             *)
THEOREM CommitmentsCovered == Spec => []StockCoversCommitments
<1>1. Inv => StockCoversCommitments
  BY DEF Inv
<1>2. QED
  BY Invariance, <1>1, PTL

(* No hold of a cart paid by card is converted after it stopped counting.  *)
THEOREM CardSalesCovered == Spec => []CardSalesAreCovered
<1>1. Inv => CardSalesAreCovered
  BY DEF Inv, Safe, CardSalesAreCovered
<1>2. QED
  BY Invariance, <1>1, PTL

(* No sale is refused to a cart paid by card for want of a hold.           *)
THEOREM CardPaidNeverRefused == Spec => []CardPaidIsNeverRefused
<1>1. Inv => CardPaidIsNeverRefused
  BY DEF Inv, Safe, CardPaidIsNeverRefused
<1>2. QED
  BY Invariance, <1>1, PTL

(* What a step may do to a cart.                                           *)
CartStep(c) ==
  \/ phase'[c] = phase[c] /\ row'[c].offer = row[c].offer
  \/ phase[c] = "shopping" /\ phase'[c] = "shopping"
  \/ /\ row'[c].offer = row[c].offer
     /\ \/ phase[c] = "shopping" /\ phase'[c] \in {"deleted", "checkout"}
        \/ phase[c] = "checkout" /\ phase'[c] \in {"shopping", "charged"}
        \/ phase[c] = "charged" /\ phase'[c] = "settled"

LEMMA EveryCartStep ==
  ASSUME Inv, [Next]_vars, NEW x \in CardCarts
  PROVE  CartStep(x)
<1>0. TypeOK /\ Safe /\ x \in Carts /\ x \notin DirectCarts
  BY DEF Inv, Safe, CardCarts
<1>1. ASSUME UNCHANGED <<row, phase>>
      PROVE  CartStep(x)
  BY <1>1 DEF CartStep
<1>2. ASSUME NEW k \in Calls, Add(k) \/ Refresh(k)
      PROVE  CartStep(x)
  <2> DEFINE c == calls[k].cart
  <2>1. UNCHANGED row \/ (phase[c] = "shopping" /\ \E r \in RowType : row' = [row EXCEPT ![c] = r])
    <3>1. CASE UNCHANGED row
      BY <3>1
    <3>2. c \in Carts /\ calls[k].offer \in Offers /\ calls[k].at \in Nat
      BY <1>0, <1>2, CallRecords DEF Add, Refresh
    <3>3. ASSUME NEW u \in Nat, Reserved(c, calls[k].offer, u)
          PROVE  \E r \in RowType : row' = [row EXCEPT ![c] = r]
      <4>1. [status |-> "held", offer |-> calls[k].offer, until |-> u] \in RowType
        BY <3>2, <3>3 DEF RowType, RowStatuses
      <4>2. QED
        BY <3>3, <4>1 DEF Reserved
    <3>4. calls[k].at + Hold \in Nat /\ calls[k].at + CheckoutHold \in Nat
      BY <3>2, OutletAssumption
    <3>5. UNCHANGED row \/ \E u \in Nat : Reserved(c, calls[k].offer, u)
      BY <1>2, <3>4 DEF Add, Refresh
    <3>6. UNCHANGED row \/ phase[c] = "shopping"
      BY <1>0, <1>2 DEF Add, Refresh, Mutable
    <3>7. QED
      BY <3>1, <3>3, <3>5, <3>6
  <2>2. UNCHANGED phase
    BY <1>2 DEF Add, Refresh
  <2>3. QED
    BY <1>0, <2>1, <2>2 DEF CartStep, TypeOK
<1>3. ASSUME NEW k \in Calls, Begin(k) \/ Debit(k)
      PROVE  CartStep(x)
  BY <1>0, <1>3 DEF Begin, Debit, CartStep, TypeOK
<1>4. ASSUME NEW c \in Carts, Remove(c)
      PROVE  CartStep(x)
  BY <1>0, <1>4 DEF Remove, Mutable, CartStep, TypeOK
<1>5. ASSUME NEW c \in Carts, DeleteCart(c) \/ Abandon(c) \/ ExpireReservation(c)
      PROVE  CartStep(x)
  <2>1. row'[x].offer = row[x].offer
    BY <1>0, <1>5, RowReleased DEF DeleteCart, Abandon, ExpireReservation
  <2>2. QED
    BY <1>0, <1>5, <2>1 DEF DeleteCart, Mutable, Abandon, ExpireReservation, CartStep, TypeOK
<1>6. ASSUME NEW c \in Carts, Convert(c)
      PROVE  CartStep(x)
  <2>1. "converted" \in RowStatuses /\ row' = [row EXCEPT ![c].status = "converted"]
    BY <1>6 DEF Convert, RowStatuses
  <2>2. row'[x].offer = row[x].offer
    BY <1>0, <2>1, StatusWritten
  <2>3. QED
    BY <1>6, <2>2 DEF Convert, CartStep
<1>7. ASSUME NEW c \in Carts,
             Charge(c) \/ CheckHold(c) \/ RefuseSale(c) \/ RollBack(c) \/ Settle(c)
      PROVE  CartStep(x)
  BY <1>0, <1>7 DEF Charge, CheckHold, RefuseSale, RollBack, Settle, CartStep, TypeOK
<1>8. CASE \E k \in Calls, c \in Carts : StartCheckout(k, c) \/ \E o \in Offers : StartAdding(k, c, o)
  BY <1>1, <1>8 DEF StartCheckout, StartAdding
<1>9. CASE \E o \in Offers :
             CloseEnded(o) \/ SetStatus(o) \/ OpenEdit(o) \/ \E q \in Quantities : SaveEdit(o, q)
  BY <1>1, <1>9 DEF CloseEnded, SetStatus, OpenEdit, SaveEdit
<1>10. CASE Tick \/ UNCHANGED vars
  BY <1>1, <1>10 DEF Tick, vars
<1>11. QED
  BY <1>2, <1>3, <1>4, <1>5, <1>6, <1>7, <1>8, <1>9, <1>10 DEF Next

LEMMA CartStepIsCheckout ==
  ASSUME TypeOK', NEW c \in CardCarts, CartStep(c)
  PROVE  Cart(c)!Next \/ UNCHANGED Cart(c)!vars
<1> USE DEF Cart!vars
<1>0. row'[c].offer \in Offers \cup {NoOffer}
  BY DEF TypeOK, RowType, CardCarts
<1>1. CASE phase'[c] = phase[c] /\ row'[c].offer = row[c].offer
  BY <1>1
<1>2. CASE phase[c] = "shopping" /\ phase'[c] = "shopping"
  BY <1>0, <1>2 DEF Cart!Next, Cart!Edit
<1>3. CASE /\ row'[c].offer = row[c].offer
           /\ phase[c] = "shopping" /\ phase'[c] \in {"deleted", "checkout"}
  BY <1>3 DEF Cart!Next, Cart!Delete, Cart!Begin
<1>4. CASE /\ row'[c].offer = row[c].offer
           /\ phase[c] = "checkout" /\ phase'[c] \in {"shopping", "charged"}
  BY <1>4 DEF Cart!Next, Cart!Abandon, Cart!Charge
<1>5. CASE /\ row'[c].offer = row[c].offer
           /\ phase[c] = "charged" /\ phase'[c] = "settled"
  BY <1>5 DEF Cart!Next, Cart!Settle
<1>6. QED
  BY <1>1, <1>2, <1>3, <1>4, <1>5 DEF CartStep

(* Carts paid by card are CartCheckouts.                                   *)
THEOREM CartsImplementCheckout == Spec => ImplementsCartCheckout
<1>1. Init => \A c \in CardCarts : Cart(c)!Init
  BY DEF Init, Cart!Init, NoRow, CardCarts
<1>2. Inv /\ Inv' /\ [Next]_vars
        => \A c \in CardCarts : Cart(c)!Next \/ UNCHANGED Cart(c)!vars
  BY EveryCartStep, CartStepIsCheckout DEF Inv, Safe
<1>3. QED
  BY Invariance, <1>1, <1>2, PTL DEF Spec, ImplementsCartCheckout
=============================================================================
