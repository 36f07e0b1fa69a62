-------------------------- MODULE PurchasingProofs --------------------------
(***************************************************************************)
(* The safety properties of Purchasing, for any transactions and products. *)
(* What Unity was told in this session ties the two sides together: a      *)
(* pending or finished purchase was delivered, and a finished one was      *)
(* logged, which is why clearing a duplicate loses nothing.                *)
(***************************************************************************)
EXTENDS Purchasing, TLAPS

Bookkeeping ==
    /\ pendingTransactions \cup finishedTransactions \subseteq delivered
    /\ finishedTransactions \subseteq logged

SalesInv ==
    TypeOK /\ Bookkeeping /\ NoLostPurchase /\ NoOverlookedPurchase /\ NoForgottenPayment

\* The identifier of a transaction is its own, made up or not.
LEMMA IdOfTransaction == \A t \in Transactions : TransactionOf(TransactionId(t)) = t
  BY DEF TransactionOf, TransactionId

\* updatedTransactions keeps the types, and moves no identifier that is known.
LEMMA UpdateTypes ==
  ASSUME TypeOK, NEW S \in SUBSET Transactions, NEW started \in SUBSET Transactions,
         UpdatedTransactions(S, started)
  PROVE  /\ store' \in [Transactions -> States]
         /\ refused' \subseteq Transactions /\ ignored' \subseteq Transactions
         /\ madeUp' \in [Transactions -> 0 .. MaxMadeUp]
         /\ pendingTransactions' \subseteq Ids /\ finishedTransactions' \subseteq Ids
         /\ delivered' \subseteq Ids
         /\ pendingTransactions' \cap finishedTransactions' = {}
  <1> DEFINE succeeded  == S \cap Paid \cap Known
             duplicates == {t \in succeeded : IsDuplicate(TransactionId(t))}
             sold       == {TransactionId(t) : t \in succeeded \ duplicates}
  <1>1. /\ sold \subseteq Ids
        /\ pendingTransactions' = pendingTransactions \cup sold
        /\ delivered' = delivered \cup sold
        /\ madeUp' = [t \in Transactions |->
                         IF t \in succeeded \cap Anonymous THEN madeUp[t] + 1 ELSE madeUp[t]]
        /\ ignored' = (ignored \ S) \cup ((S \cap Paid) \ Known)
        /\ refused' = refused \cup {t \in S : store[t] = "failed"}
        /\ UNCHANGED finishedTransactions
        /\ \E cleared \in SUBSET (duplicates \cup {t \in S : store[t] = "failed"}) :
              store' = [t \in Transactions |-> IF t \in cleared THEN "gone"
                                               ELSE IF t \in started THEN "purchasing"
                                               ELSE store[t]]
    BY DEF UpdatedTransactions
  <1>2. store' \in [Transactions -> States]
    BY <1>1 DEF TypeOK, States
  <1>3. \A t \in succeeded : TransactionId(t) \in Ids
    BY <1>1 DEF IsDuplicate, TypeOK
  <1>4. madeUp' \in [Transactions -> 0 .. MaxMadeUp]
    <2>1. ASSUME NEW t \in succeeded \cap Anonymous PROVE madeUp[t] + 1 \in 0 .. MaxMadeUp
      BY <1>3 DEF TransactionId, Ids
    <2> QED BY <1>1, <2>1 DEF TypeOK
  <1>5. sold \cap finishedTransactions = {}
    BY DEF IsDuplicate
  <1> QED BY <1>1, <1>2, <1>4, <1>5 DEF TypeOK, Paid

\* What updatedTransactions sends was delivered, and what it clears was either
\* finished before, so logged, or has failed, of which Unity is told.
LEMMA UpdateSales ==
  ASSUME SalesInv, NEW S \in SUBSET Transactions, NEW started \in SUBSET Transactions,
         UpdatedTransactions(S, started), UNCHANGED logged
  PROVE  /\ Bookkeeping' /\ NoLostPurchase'
         /\ \A t \in S : t \in Paid' => t \in ignored' \/ \E id \in delivered' : TransactionOf(id) = t
         /\ \A t \in Transactions \ S : t \in Paid' \ ignored' => t \in Paid \ ignored
         /\ delivered \subseteq delivered'
  <1> DEFINE succeeded  == S \cap Paid \cap Known
             duplicates == {t \in succeeded : IsDuplicate(TransactionId(t))}
             failed     == {t \in S : store[t] = "failed"}
             sold       == {TransactionId(t) : t \in succeeded \ duplicates}
  <1>1. /\ pendingTransactions' = pendingTransactions \cup sold
        /\ delivered' = delivered \cup sold
        /\ ignored' = (ignored \ S) \cup ((S \cap Paid) \ Known)
        /\ refused' = refused \cup failed
        /\ UNCHANGED finishedTransactions
    BY DEF UpdatedTransactions
  <1>2. PICK cleared \in SUBSET (duplicates \cup failed) :
              store' = [t \in Transactions |-> IF t \in cleared THEN "gone"
                                               ELSE IF t \in started THEN "purchasing"
                                               ELSE store[t]]
    BY DEF UpdatedTransactions
  <1>3. Paid' \subseteq Paid
    BY <1>2 DEF Paid
  <1>4. Bookkeeping'
    BY <1>1 DEF Bookkeeping, SalesInv
  <1>5. NoLostPurchase'
    <2> SUFFICES ASSUME NEW t \in Transactions, store'[t] = "gone"
                 PROVE  t \in refused' \/ \E id \in logged : TransactionOf(id) = t
      BY DEF NoLostPurchase
    <2>1. CASE t \in failed
      BY <2>1, <1>1
    <2>2. CASE t \in duplicates
      <3>1. TransactionId(t) \in logged
        BY <2>2 DEF IsDuplicate, SalesInv, Bookkeeping
      <3> QED BY <3>1, IdOfTransaction
    <2>3. CASE t \notin cleared
      BY <2>3, <1>1, <1>2 DEF SalesInv, NoLostPurchase
    <2> QED BY <1>2, <2>1, <2>2, <2>3
  <1>6. ASSUME NEW t \in S, t \in Paid'
        PROVE  t \in ignored' \/ \E id \in delivered' : TransactionOf(id) = t
    <2>1. CASE t \notin Known
      BY <2>1, <1>1, <1>3, <1>6
    <2>2. CASE t \in duplicates
      <3>1. TransactionId(t) \in delivered
        BY <2>2 DEF IsDuplicate, SalesInv, Bookkeeping
      <3> QED BY <3>1, <1>1, IdOfTransaction
    <2>3. CASE t \in succeeded \ duplicates
      <3>1. TransactionId(t) \in delivered'
        BY <2>3, <1>1
      <3> QED BY <3>1, IdOfTransaction
    <2> QED BY <2>1, <2>2, <2>3, <1>3, <1>6 DEF Known
  <1> QED BY <1>1, <1>3, <1>4, <1>5, <1>6

----------------------------------------------------------------------------
(* The invariant *)

LEMMA SalesInvInit == Init => SalesInv
<1> SUFFICES ASSUME Init PROVE SalesInv
  OBVIOUS
<1>1. 0 \in 0 .. MaxMadeUp /\ 0 \in 0 .. MaxPolls
  BY PurchasingBounds
<1>2. TypeOK
  BY <1>1 DEF Init, TypeOK, States
<1>3. Bookkeeping /\ NoLostPurchase
  BY DEF Init, Bookkeeping, NoLostPurchase
<1>4. NoOverlookedPurchase /\ NoForgottenPayment
  BY DEF Init, NoOverlookedPurchase, NoForgottenPayment
<1> QED BY <1>2, <1>3, <1>4 DEF SalesInv

LEMMA SalesInvNext == SalesInv /\ [Next]_vars => SalesInv'
<1> SUFFICES ASSUME SalesInv, [Next]_vars PROVE SalesInv'
  OBVIOUS
<1> USE DEF SalesInv
<1>1. ASSUME NEW t \in Transactions, PurchaseProduct(t) PROVE SalesInv'
  BY <1>1 DEF PurchaseProduct, managed, polling, sales, early, TypeOK, States, Bookkeeping,
     NoLostPurchase, NoOverlookedPurchase, NoForgottenPayment, Paid
<1>2. ASSUME NEW t \in Transactions, ShouldAddStorePayment(t) PROVE SalesInv'
  BY <1>2 DEF ShouldAddStorePayment, managed, polling, sales, TypeOK, States, Bookkeeping,
     NoLostPurchase, NoOverlookedPurchase, NoForgottenPayment, Paid
<1>3. ASSUME NEW t \in Transactions, StoreKitChanges(t) PROVE SalesInv'
  BY <1>3 DEF StoreKitChanges, Changes, managed, polling, sales, early, TypeOK, States,
     Bookkeeping, NoLostPurchase, NoOverlookedPurchase, NoForgottenPayment, Paid
<1>4. ASSUME NEW t \in Transactions, StoreKitReports(t) PROVE SalesInv'
  <2>1. CASE observing
    <3>1. UpdatedTransactions({t}, {}) /\ UNCHANGED logged
      BY <1>4, <2>1 DEF StoreKitReports
    <3>2. TypeOK'
      BY <3>1, <1>4, UpdateTypes DEF StoreKitReports, polling, early, TypeOK
    <3>3. /\ Bookkeeping' /\ NoLostPurchase'
          /\ \A u \in {t} : u \in Paid' => u \in ignored' \/ \E id \in delivered' : TransactionOf(id) = u
          /\ \A u \in Transactions \ {t} : u \in Paid' \ ignored' => u \in Paid \ ignored
          /\ delivered \subseteq delivered'
      BY <3>1, UpdateSales
    <3>4. NoOverlookedPurchase'
      BY <3>3, <1>4, <2>1 DEF StoreKitReports, NoOverlookedPurchase, Paid
    <3>5. NoForgottenPayment'
      BY <1>4 DEF StoreKitReports, early, NoForgottenPayment
    <3> QED BY <3>2, <3>3, <3>4, <3>5
  <2>2. CASE ~observing
    BY <1>4, <2>2 DEF StoreKitReports, polling, sales, early, TypeOK, Bookkeeping,
       NoLostPurchase, NoOverlookedPurchase, NoForgottenPayment
  <2> QED BY <2>1, <2>2
<1>5. ASSUME NEW id \in Ids, LogPurchase(id) PROVE SalesInv'
  BY <1>5 DEF LogPurchase, storeKit, polling, sales, early, TypeOK, Bookkeeping,
     NoLostPurchase, NoOverlookedPurchase, NoForgottenPayment, Paid
<1>6. ASSUME NEW id \in Ids, FinishTransaction(id) PROVE SalesInv'
  <2>1. TransactionOf(id) \in Transactions
    BY DEF Ids, TransactionOf
  <2>2. TypeOK'
    BY <1>6, <2>1 DEF FinishTransaction, managed, polling, early, TypeOK, States
  <2>3. Bookkeeping' /\ NoForgottenPayment'
    BY <1>6 DEF FinishTransaction, managed, early, Bookkeeping, NoForgottenPayment
  <2>4. NoLostPurchase'
    BY <1>6, <2>1 DEF FinishTransaction, managed, NoLostPurchase, TypeOK
  <2>5. NoOverlookedPurchase'
    BY <1>6, <2>1 DEF FinishTransaction, NoOverlookedPurchase, Paid, TypeOK
  <2> QED BY <2>2, <2>3, <2>4, <2>5
<1>7. ASSUME AddTransactionObserver PROVE SalesInv'
  <2>1. PICK started \in SUBSET Transactions :
           UpdatedTransactions(ExistingTransactions, started)
    BY <1>7 DEF AddTransactionObserver, TypeOK
  <2>2. ExistingTransactions \in SUBSET Transactions /\ Paid \subseteq ExistingTransactions
    BY DEF ExistingTransactions, Queue, Paid
  <2>3. TypeOK'
    BY <1>7, <2>1, <2>2, UpdateTypes
    DEF AddTransactionObserver, SetDelegate, polling, TypeOK
  <2>4. /\ Bookkeeping' /\ NoLostPurchase'
        /\ \A t \in ExistingTransactions :
              t \in Paid' => t \in ignored' \/ \E id \in delivered' : TransactionOf(id) = t
        /\ \A t \in Transactions \ ExistingTransactions :
              t \in Paid' \ ignored' => t \in Paid \ ignored
    BY <1>7, <2>1, <2>2, UpdateSales DEF AddTransactionObserver
  <2>5. NoOverlookedPurchase'
    BY <2>2, <2>4 DEF NoOverlookedPurchase, Paid
  <2>6. NoForgottenPayment'
    BY <1>7 DEF AddTransactionObserver, SetDelegate, NoForgottenPayment
  <2> QED BY <2>3, <2>4, <2>5, <2>6
<1>8. ASSUME InterceptPromotionalPurchases \/ ContinuePromotionalPurchases PROVE SalesInv'
  <2>1. UNCHANGED <<unreported, managed, polling, sales, observing, delegate, attempted>>
    BY <1>8 DEF InterceptPromotionalPurchases, ContinuePromotionalPurchases, storeKit
  <2>2. /\ store' \in [Transactions -> States]
        /\ \A t \in Transactions : store'[t] = store[t] \/ store'[t] = "purchasing"
    BY <1>8 DEF InterceptPromotionalPurchases, ContinuePromotionalPurchases, storeKit,
       TypeOK, States
  <2>3. /\ queuedPayments' \in {{}, queuedPayments}
        /\ interceptPromotionalPurchases' \in BOOLEAN
        /\ UNCHANGED readyToReceiveTransactionUpdates
    BY <1>8 DEF InterceptPromotionalPurchases, ContinuePromotionalPurchases, TypeOK
  <2>4. TypeOK'
    BY <2>1, <2>2, <2>3 DEF managed, polling, sales, TypeOK
  <2>5. Bookkeeping' /\ NoLostPurchase'
    BY <2>1, <2>2 DEF managed, sales, Bookkeeping, NoLostPurchase
  <2>6. NoOverlookedPurchase'
    BY <2>1, <2>2 DEF sales, NoOverlookedPurchase, Paid
  <2>7. NoForgottenPayment'
    BY <2>1, <2>3 DEF NoForgottenPayment
  <2> QED BY <2>4, <2>5, <2>6, <2>7
<1>9. ASSUME \/ \E ids \in SUBSET Products : RequestProducts(ids) \/ DidReceiveResponse(ids)
             \/ ProductPoll \/ DidFailWithError
      PROVE SalesInv'
  <2>1. UNCHANGED <<storeKit, managed, sales, observing, early>>
    BY <1>9 DEF RequestProducts, DidReceiveResponse, ProductPoll, DidFailWithError
  <2>2. /\ productIds' \subseteq Products /\ validProducts' \subseteq Products
        /\ request' \subseteq SUBSET Products /\ retrieved' \in BOOLEAN
    BY <1>9 DEF RequestProducts, DidReceiveResponse, ProductPoll, DidFailWithError, TypeOK
  <2>3. scheduled' \in 0 .. MaxPolls
    BY <1>9, PurchasingBounds
    DEF RequestProducts, DidReceiveResponse, ProductPoll, DidFailWithError, TypeOK
  <2> QED BY <2>1, <2>2, <2>3 DEF storeKit, managed, sales, early, TypeOK, Bookkeeping,
             NoLostPurchase, NoOverlookedPurchase, NoForgottenPayment, Paid
<1>10. ASSUME Relaunch PROVE SalesInv'
  <2>1. 0 \in 0 .. MaxPolls
    BY PurchasingBounds
  <2>2. TypeOK'
    BY <1>10, <2>1 DEF Relaunch, managed, Queue, TypeOK
  <2>3. Bookkeeping' /\ NoLostPurchase'
    BY <1>10 DEF Relaunch, managed, Bookkeeping, NoLostPurchase
  <2>4. NoOverlookedPurchase' /\ NoForgottenPayment'
    BY <1>10 DEF Relaunch, NoOverlookedPurchase, NoForgottenPayment
  <2> QED BY <2>2, <2>3, <2>4
<1>11. CASE UNCHANGED vars
  BY <1>11 DEF vars, storeKit, managed, polling, sales, early, TypeOK, Bookkeeping,
     NoLostPurchase, NoOverlookedPurchase, NoForgottenPayment, Paid
<1> QED BY <1>1, <1>2, <1>3, <1>4, <1>5, <1>6, <1>7, <1>8, <1>9, <1>10, <1>11 DEF Next

\* The invariant holds throughout: what Unity was told, what managed code has
\* logged and what StoreKit has queued stay consistent.
THEOREM SalesInvCorrect == Spec => []SalesInv
  BY SalesInvInit, SalesInvNext, PTL DEF Spec

\* Every variable keeps its type, and no purchase is pending and finished.
THEOREM PurchasingTypeCorrect == Spec => []TypeOK
<1>1. SalesInv => TypeOK
  BY DEF SalesInv
<1> QED BY <1>1, SalesInvCorrect, PTL

\* No purchase leaves StoreKit's queue unless it was logged or has failed.
THEOREM NoLostPurchaseCorrect == Spec => []NoLostPurchase
<1>1. SalesInv => NoLostPurchase
  BY DEF SalesInv
<1> QED BY <1>1, SalesInvCorrect, PTL

\* Unity knows of every purchase that was reported with its product known.
THEOREM NoOverlookedPurchaseCorrect == Spec => []NoOverlookedPurchase
<1>1. SalesInv => NoOverlookedPurchase
  BY DEF SalesInv
<1> QED BY <1>1, SalesInvCorrect, PTL

\* No promotional payment is held back without an interceptor that knows of it.
THEOREM NoForgottenPaymentCorrect == Spec => []NoForgottenPayment
<1>1. SalesInv => NoForgottenPayment
  BY DEF SalesInv
<1> QED BY <1>1, SalesInvCorrect, PTL

=============================================================================
