SPECIFICATION Spec
CONSTANTS
  o1 = o1
  o2 = o2
  Carts = {c1, d1}
  DirectCarts = {d1}
  Offers = {o1, o2}
  NoOffer = NoOffer
  Stock <- FewSeedlings
  EndsAt <- Ends
  Calls = {k1}
  Hold = 1
  CheckoutHold = 2
  Quantities = {1}
  MaxTime = 2
  MaxEdits = 1
INVARIANTS TypeOK StockCoversCommitments CardSalesAreCovered CardPaidIsNeverRefused
PROPERTIES ImplementsCartCheckout
CHECK_DEADLOCK FALSE
