----------------------------- MODULE Purchasing -----------------------------
(***************************************************************************)
(* In-app purchases: UnityPurchasing, the observer of StoreKit's payment   *)
(* queue, and UnityEarlyTransactionObserver, which stands in for it from   *)
(* the launch of the app until managed code has added the real one.        *)
(*                                                                         *)
(* StoreKit and the managed side are external.  StoreKit keeps a           *)
(* transaction across crashes until finishTransaction, which may fail; it  *)
(* reports a change once, to the observers there are; and it may leave out *)
(* the identifier of a transaction.  Managed code logs a purchase before   *)
(* it finishes it, and otherwise calls in any order.  All calls run on the *)
(* main thread, one at a time.                                             *)
(***************************************************************************)
EXTENDS Integers, FiniteSets

CONSTANTS
    Transactions,   \* purchases a user may make or restore
    Products,
    ProductOf,      \* the product of a transaction
    Anonymous,      \* the transactions StoreKit gives no identifier
    MaxMadeUp,      \* bound on the identifiers made up for a transaction
    MaxPolls        \* bound on the polls for products that are scheduled at once

ASSUME ProductAssumption == ProductOf \in [Transactions -> Products]
ASSUME AnonymousAssumption == Anonymous \subseteq Transactions
ASSUME PurchasingBounds == MaxMadeUp \in Nat /\ MaxPolls \in Nat

VARIABLES
    \* StoreKit, and what managed code has saved: these survive a crash.
    store,          \* the state of a transaction, "gone" when it is finished
    unreported,     \* transactions with a change StoreKit has yet to report
    logged,         \* the purchases managed code has logged
    refused,        \* the transactions of which Unity was told that they failed
    madeUp,         \* how many identifiers were made up for a transaction
    \* UnityPurchasing
    productIds, validProducts,
    scheduled,      \* dispatched blocks of initiateProductPoll
    request,        \* the products of the SKProductsRequest in flight, if any
    pendingTransactions, finishedTransactions,
    observing,      \* has addTransactionObserver been called?
    interceptPromotionalPurchases,
    \* UnityEarlyTransactionObserver
    readyToReceiveTransactionUpdates,
    delegate,       \* is the delegate set?
    queuedPayments, \* m_QueuedPayments
    \* Messages to Unity since the launch
    delivered,      \* OnPurchaseSucceeded
    ignored,        \* purchases of unknown products, about which it was told nothing
    retrieved,      \* OnProductsRetrieved since the last request
    attempted       \* onPromotionalPurchaseAttempted

storeKit == <<store, unreported>>
managed  == <<logged, refused>>
polling  == <<productIds, validProducts, scheduled, request, retrieved>>
sales    == <<pendingTransactions, finishedTransactions, delivered, ignored, madeUp>>
early    == <<interceptPromotionalPurchases, readyToReceiveTransactionUpdates,
              delegate, queuedPayments, attempted>>
vars     == <<storeKit, managed, polling, sales, observing, early>>

Ids == Transactions \X (0 .. MaxMadeUp)
TransactionOf(id) == id[1]

Queue == {t \in Transactions : store[t] \notin {"none", "gone"}}
Paid  == {t \in Transactions : store[t] \in {"purchased", "restored"}}
Known == {t \in Transactions : ProductOf[t] \in validProducts}

----------------------------------------------------------------------------
(* Transactions *)

\* Mutant: finished transactions are not remembered.
NeverDuplicate(id) == FALSE
\* Mutant: a second report of a purchase that is pending counts as a duplicate.
FinishPending(id) == id \in finishedTransactions \cup pendingTransactions
\* The purchase was finished, but StoreKit did not clear it from its queue.
IsDuplicate(id) == id \in finishedTransactions

\* The identifier of a transaction, or a made-up one.
TransactionId(t) == <<t, IF t \in Anonymous THEN madeUp[t] + 1 ELSE 0>>

\* updatedTransactions: handleTransaction for each of them.  A failed
\* transaction and a duplicate are finished on the spot, if StoreKit agrees.
\* "started" are the payments that the same call adds to the queue.
UpdatedTransactions(transactions, started) ==
    LET succeeded  == transactions \cap Paid \cap Known
        duplicates == {t \in succeeded : IsDuplicate(TransactionId(t))}
        failed     == {t \in transactions : store[t] = "failed"}
        sold       == {TransactionId(t) : t \in succeeded \ duplicates}
    IN  /\ sold \subseteq Ids
        /\ pendingTransactions' = pendingTransactions \cup sold
        /\ delivered' = delivered \cup sold
        /\ madeUp' = [t \in Transactions |->
                         IF t \in succeeded \cap Anonymous THEN madeUp[t] + 1 ELSE madeUp[t]]
        /\ ignored' = (ignored \ transactions) \cup ((transactions \cap Paid) \ Known)
        /\ refused' = refused \cup failed
        /\ UNCHANGED finishedTransactions
        /\ \E cleared \in SUBSET (duplicates \cup failed) :
              store' = [t \in Transactions |-> IF t \in cleared THEN "gone"
                                               ELSE IF t \in started THEN "purchasing"
                                               ELSE store[t]]

\* Managed code has logged the purchase.  The transaction leaves
\* pendingTransactions even if StoreKit does not finish it.
FinishTransaction(id) ==
    /\ id \in logged
    /\ id \in pendingTransactions
    /\ pendingTransactions' = pendingTransactions \ {id}
    /\ finishedTransactions' = finishedTransactions \cup {id}
    /\ \/ store' = [store EXCEPT ![TransactionOf(id)] = "gone"]
       \/ UNCHANGED store
    /\ UNCHANGED <<unreported, managed, polling, delivered, ignored, madeUp, observing, early>>

\* purchaseProduct of a product that was retrieved; of any other it fails.
PurchaseProduct(t) ==
    /\ store[t] = "none" /\ t \in Known \ queuedPayments
    /\ store' = [store EXCEPT ![t] = "purchasing"]
    /\ UNCHANGED <<unreported, managed, polling, sales, observing, early>>

----------------------------------------------------------------------------
(* Promotional purchases *)

\* Mutant: the delegate is set without a word of the payments queued so far.
SetDelegateQuietly ==
    /\ delegate' = TRUE
    /\ UNCHANGED <<queuedPayments, attempted>>
\* setDelegate, which sends the queued payments to the interceptor.
SetDelegate ==
    /\ delegate' = TRUE
    /\ attempted' = attempted \cup queuedPayments
    /\ UNCHANGED queuedPayments

\* shouldAddStorePayment: the user buys a product in the App Store.
ShouldAddStorePayment(t) ==
    /\ store[t] = "none"
    /\ \/ /\ readyToReceiveTransactionUpdates /\ ~delegate
          /\ store' = [store EXCEPT ![t] = "purchasing"]
          /\ UNCHANGED <<queuedPayments, attempted>>
       \/ /\ ~readyToReceiveTransactionUpdates \/ delegate
          /\ queuedPayments' = queuedPayments \cup {t}
          /\ attempted' = IF delegate THEN attempted \cup {t} ELSE attempted
          /\ UNCHANGED store
    /\ UNCHANGED <<unreported, managed, polling, sales, observing, delegate,
                   interceptPromotionalPurchases, readyToReceiveTransactionUpdates>>

InterceptPromotionalPurchases ==
    /\ interceptPromotionalPurchases' = TRUE
    /\ UNCHANGED <<storeKit, managed, polling, sales, observing, delegate, queuedPayments,
                   attempted, readyToReceiveTransactionUpdates>>

\* initiateQueuedPayments: addPayment for each of them.
ContinuePromotionalPurchases ==
    /\ store' = [t \in Transactions |-> IF t \in queuedPayments THEN "purchasing" ELSE store[t]]
    /\ queuedPayments' = {}
    /\ UNCHANGED <<unreported, managed, polling, sales, observing, delegate, attempted,
                   interceptPromotionalPurchases, readyToReceiveTransactionUpdates>>

\* Mutant: whatever is in StoreKit's queue already is left to StoreKit.
NoTransactions == {}
\* The early observer was told of the transactions that are in the queue
\* already, so the real one has to process them itself.
ExistingTransactions == Queue

AddTransactionObserver ==
    /\ observing' = TRUE
    /\ readyToReceiveTransactionUpdates' = TRUE
    /\ \/ /\ interceptPromotionalPurchases
          /\ UpdatedTransactions(ExistingTransactions, {})
          /\ SetDelegate
       \/ /\ ~interceptPromotionalPurchases
          /\ UpdatedTransactions(ExistingTransactions, queuedPayments)
          /\ queuedPayments' = {} /\ UNCHANGED <<delegate, attempted>>
    /\ UNCHANGED <<unreported, logged, polling, interceptPromotionalPurchases>>

----------------------------------------------------------------------------
(* Products *)

\* requestProducts, with a poll at once.
RequestProducts(ids) ==
    /\ scheduled < MaxPolls
    /\ productIds' = ids
    /\ scheduled' = scheduled + 1
    /\ retrieved' = FALSE
    /\ UNCHANGED <<storeKit, managed, validProducts, request, sales, observing, early>>

\* The block of initiateProductPoll, which replaces a request in flight.
ProductPoll ==
    /\ scheduled > 0
    /\ scheduled' = scheduled - 1
    /\ request' = {productIds}
    /\ UNCHANGED <<storeKit, managed, productIds, validProducts, retrieved, sales, observing, early>>

\* didReceiveResponse and requestDidFinish.  StoreKit leaves out invalid ids.
DidReceiveResponse(products) ==
    /\ \E ids \in request : products \subseteq ids
    /\ request' = {} /\ retrieved' = TRUE
    /\ validProducts' = validProducts \cup products
    /\ UNCHANGED <<storeKit, managed, productIds, scheduled, sales, observing, early>>

\* Mutant: a failed request is not repeated.
GiveUp ==
    /\ request # {} /\ request' = {}
    /\ UNCHANGED <<storeKit, managed, productIds, validProducts, scheduled, retrieved,
                   sales, observing, early>>
DidFailWithError ==
    /\ request # {} /\ request' = {}
    /\ scheduled < MaxPolls /\ scheduled' = scheduled + 1
    /\ UNCHANGED <<storeKit, managed, productIds, validProducts, retrieved,
                   sales, observing, early>>

----------------------------------------------------------------------------
(* StoreKit, managed code and the process *)

\* A transaction changes, which StoreKit will report.
Changes(t, from, to) ==
    /\ store[t] \in from /\ t \notin queuedPayments
    /\ store' = [store EXCEPT ![t] = to]
    /\ unreported' = unreported \cup {t}
    /\ UNCHANGED <<managed, polling, sales, observing, early>>
StoreKitChanges(t) ==
    \/ Changes(t, {"purchasing"}, "deferred")
    \/ Changes(t, {"purchasing", "deferred"}, "purchased")
    \/ Changes(t, {"purchasing", "deferred"}, "failed")
    \/ Changes(t, {"none"}, "restored")

\* Only the early observer is there to hear of it, or both are.
StoreKitReports(t) ==
    /\ t \in unreported
    /\ unreported' = unreported \ {t}
    /\ \/ observing /\ UpdatedTransactions({t}, {})
       \/ ~observing /\ UNCHANGED <<store, refused, sales>>
    /\ UNCHANGED <<logged, polling, observing, early>>

LogPurchase(id) ==
    /\ id \in delivered
    /\ logged' = logged \cup {id}
    /\ UNCHANGED <<storeKit, refused, polling, sales, observing, early>>

\* The app is killed and launched again.
Relaunch ==
    /\ unreported' = Queue
    /\ productIds' = {} /\ validProducts' = {}
    /\ scheduled' = 0 /\ request' = {} /\ retrieved' = FALSE
    /\ pendingTransactions' = {} /\ finishedTransactions' = {}
    /\ delivered' = {} /\ ignored' = {} /\ observing' = FALSE
    /\ interceptPromotionalPurchases' = FALSE /\ readyToReceiveTransactionUpdates' = FALSE
    /\ delegate' = FALSE /\ queuedPayments' = {} /\ attempted' = {}
    /\ UNCHANGED <<store, managed, madeUp>>

Init ==
    /\ store = [t \in Transactions |-> "none"] /\ unreported = {}
    /\ logged = {} /\ refused = {} /\ madeUp = [t \in Transactions |-> 0]
    /\ productIds = {} /\ validProducts = {}
    /\ scheduled = 0 /\ request = {} /\ retrieved = FALSE
    /\ pendingTransactions = {} /\ finishedTransactions = {}
    /\ delivered = {} /\ ignored = {} /\ observing = FALSE
    /\ interceptPromotionalPurchases = FALSE /\ readyToReceiveTransactionUpdates = FALSE
    /\ delegate = FALSE /\ queuedPayments = {} /\ attempted = {}

Next ==
    \/ \E t \in Transactions : \/ PurchaseProduct(t) \/ ShouldAddStorePayment(t)
                               \/ StoreKitChanges(t) \/ StoreKitReports(t)
    \/ \E id \in Ids : LogPurchase(id) \/ FinishTransaction(id)
    \/ AddTransactionObserver \/ InterceptPromotionalPurchases \/ ContinuePromotionalPurchases
    \/ \E ids \in SUBSET Products : RequestProducts(ids) \/ DidReceiveResponse(ids)
    \/ ProductPoll \/ DidFailWithError
    \/ Relaunch

Spec == Init /\ [][Next]_vars

----------------------------------------------------------------------------
(* Properties *)

States == {"none", "purchasing", "deferred", "purchased", "restored", "failed", "gone"}

\* Types; and a purchase is never pending and finished at once.
TypeOK ==
    /\ store \in [Transactions -> States] /\ unreported \subseteq Transactions
    /\ logged \subseteq Ids /\ refused \subseteq Transactions
    /\ madeUp \in [Transactions -> 0 .. MaxMadeUp]
    /\ productIds \subseteq Products /\ validProducts \subseteq Products
    /\ scheduled \in 0 .. MaxPolls /\ request \subseteq SUBSET Products /\ retrieved \in BOOLEAN
    /\ pendingTransactions \subseteq Ids /\ finishedTransactions \subseteq Ids
    /\ pendingTransactions \cap finishedTransactions = {}
    /\ delivered \subseteq Ids /\ ignored \subseteq Transactions
    /\ observing \in BOOLEAN /\ interceptPromotionalPurchases \in BOOLEAN
    /\ readyToReceiveTransactionUpdates \in BOOLEAN /\ delegate \in BOOLEAN
    /\ queuedPayments \subseteq Transactions /\ attempted \subseteq Transactions

\* No purchase is lost: what has left StoreKit's queue was logged by managed
\* code, or Unity was told that it failed, whatever crashes, duplicate reports
\* and failed calls of finishTransaction there were.
NoLostPurchase ==
    \A t \in Transactions :
       store[t] = "gone" => t \in refused \/ \E id \in logged : TransactionOf(id) = t

\* Once managed code has added the observer, Unity knows of every purchase in
\* the queue, except those that StoreKit has yet to report and those whose
\* product was not known when they were last looked at.
NoOverlookedPurchase ==
    observing =>
       \A t \in Paid \ (unreported \cup ignored) : \E id \in delivered : TransactionOf(id) = t

\* Once Unity is ready, a promotional payment is held back only for an
\* interceptor that was told of it and can continue it.
NoForgottenPayment ==
    readyToReceiveTransactionUpdates /\ queuedPayments # {} =>
       delegate /\ queuedPayments \subseteq attempted

\* Fairness: the main queue runs a block when its time has come, StoreKit
\* answers a request, and requests do not fail forever.
Answer == DidFailWithError \/ \E products \in SUBSET Products : DidReceiveResponse(products)
FairSpec ==
    /\ Spec
    /\ WF_vars(ProductPoll) /\ WF_vars(Answer)
    /\ SF_vars(\E products \in SUBSET Products : DidReceiveResponse(products))

\* A request for products is answered in the end, unless the app is killed.
ProductsAreRetrieved == productIds # {} ~> retrieved \/ productIds = {}

=============================================================================
