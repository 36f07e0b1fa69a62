SPECIFICATION FairSpec
CONSTANTS
    Transactions = {t1, t2}
    Products = {p}
    ProductOf <- SameProduct
    Anonymous = {t2}
    MaxMadeUp = 2
    MaxPolls = 2
INVARIANTS TypeOK NoLostPurchase NoOverlookedPurchase NoForgottenPayment
PROPERTIES ProductsAreRetrieved
