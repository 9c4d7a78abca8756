------------------------------ MODULE Marketplace ------------------------------
(***************************************************************************)
(* One seller's listing, the orders placed on it, their payments as a      *)
(* provider's webhook reports them, and disputes.                          *)
(*                                                                         *)
(* Handlers of a listing lock it, and so does the fulfilment of an order;  *)
(* placing an order reads the listing first and saves later, and the       *)
(* webhook and a dispute write an order they read without its lock.  The   *)
(* provider repeats an event until it is answered.                         *)
(***************************************************************************)
EXTENDS Naturals, FiniteSets

CONSTANTS
  Evidence,       \* evidence types this category of product needs
  Orders, Events,
  MaxRevisions,   \* bound: changes of the listing's content
  NoOrder

VARIABLES
  seller,     \* the seller profile's status
  listing,    \* [status, revision: the content's, evidence]
  published,  \* history: the revisions a reviewer put on sale
  cart,       \* [Orders -> the revision an order being placed has read, or NoOrder]
  order,      \* [Orders -> row or NoOrder]
  delivery,   \* [Events -> an event being processed, or NoOrder]
  event       \* [Events -> the event on record, or NoOrder]

goods == <<seller, listing, published>>
orders == <<cart, order, delivery, event>>
marketVars == <<goods, orders>>

-----------------------------------------------------------------------------
SellerStatus == {"draft", "pending_review", "verified", "restricted", "suspended", "rejected"}
ListingStatus == {"draft", "pending_review", "active", "changes_required", "restricted", "suspended"}
EvidenceStatus == {"pending", "verified", "rejected", "expired"}
Listing == [status : ListingStatus, revision : 0..MaxRevisions,
            evidence : [Evidence -> EvidenceStatus \cup {"missing"}]]

PaymentStatus == {"paid", "failed", "refunded"}
\* `fulfilled` is history: it was shipped.
Order == [revision : 0..MaxRevisions, fulfilled : BOOLEAN,
          status : {"pending_payment", "paid", "shipped", "disputed"},
          payment : PaymentStatus \cup {"pending"}]
PaymentOutcome == [order : Orders, status : PaymentStatus]
\* `found` is the order as the webhook read it; `applied` counts.
Delivery == [outcome : PaymentOutcome, found : Order]
Event == [outcome : PaymentOutcome, applied : Nat]

ASSUME MarketAssumption ==
  MaxRevisions \in Nat /\ NoOrder \notin Nat \cup Order \cup Delivery \cup Event

-----------------------------------------------------------------------------
SubmitSeller ==
  /\ seller \in {"draft", "rejected", "restricted"} /\ seller' = "pending_review"
  /\ UNCHANGED <<listing, published, orders>>
\* Whatever the status, and the listings stay as they are.
DecideSeller(verdict) ==
  /\ verdict \in {"verified", "restricted", "suspended", "rejected"} /\ seller' = verdict
  /\ UNCHANGED <<listing, published, orders>>

EditListing ==
  /\ listing.status \in {"draft", "changes_required", "restricted"}
  /\ listing.revision < MaxRevisions
  /\ listing' = [listing EXCEPT !.revision = @ + 1, !.status = "draft"]
  /\ UNCHANGED <<seller, published, orders>>

\* New evidence takes a listing back to draft, off sale too.
UploadProductEvidence(e) ==
  /\ listing.revision < MaxRevisions
  /\ listing' = [listing EXCEPT !.revision = @ + 1, !.evidence[e] = "pending", !.status = "draft"]
  /\ UNCHANGED <<seller, published, orders>>

\* The reviewer's verdict on a document leaves the listing where it is.
ReviewEvidence(e, verdict) ==
  /\ listing.evidence[e] # "missing"
  /\ verdict \in {"verified", "rejected"} /\ verdict = "verified" => listing.evidence[e] # "expired"
  /\ listing' = [listing EXCEPT !.evidence[e] = verdict]
  /\ UNCHANGED <<seller, published, orders>>

EvidenceExpires(e) ==
  /\ listing.evidence[e] \notin {"missing", "expired"}
  /\ listing' = [listing EXCEPT !.evidence[e] = "expired"]
  /\ UNCHANGED <<seller, published, orders>>

\* From any status, one on sale included.
SubmitListing ==
  /\ seller \in {"verified", "restricted"}
  /\ \A e \in Evidence : listing.evidence[e] \in {"pending", "verified"}
  /\ listing' = [listing EXCEPT !.status = "pending_review"]
  /\ UNCHANGED <<seller, published, orders>>

\* Also from any status: a draft may be put on sale.
ReviewListing(verdict) ==
  /\ verdict \in {"active", "changes_required", "restricted", "suspended"}
  /\ listing' = [listing EXCEPT !.status = verdict]
  /\ published' = IF verdict = "active" THEN published \cup {listing.revision} ELSE published
  /\ UNCHANGED <<seller, orders>>

-----------------------------------------------------------------------------
OrderValidated(o) ==
  /\ order[o] = NoOrder /\ cart[o] = NoOrder /\ listing.status = "active"
  /\ cart' = [cart EXCEPT ![o] = listing.revision]
  /\ UNCHANGED <<goods, order, delivery, event>>

\* The price is that of the listing as it was read.
PlaceOrder(o) ==
  /\ cart[o] # NoOrder
  /\ order' = [order EXCEPT ![o] = [revision |-> cart[o], fulfilled |-> FALSE,
                                    status |-> "pending_payment", payment |-> "pending"]]
  /\ cart' = [cart EXCEPT ![o] = NoOrder]
  /\ UNCHANGED <<goods, delivery, event>>

Fulfill(o) ==
  /\ order[o] # NoOrder /\ order[o].payment = "paid"
  /\ order' = [order EXCEPT ![o].status = "shipped", ![o].fulfilled = TRUE]
  /\ UNCHANGED <<goods, cart, delivery, event>>

\* Raising one writes the order's status; resolving one does not.
Dispute(o) ==
  /\ order[o] # NoOrder /\ order' = [order EXCEPT ![o].status = "disputed"]
  /\ UNCHANGED <<goods, cart, delivery, event>>

-----------------------------------------------------------------------------
Unrecorded(e) == event[e] = NoOrder /\ delivery[e] = NoOrder

\* get_or_create holds a new event's key until the transaction ends.
Receive(e, outcome) ==
  /\ Unrecorded(e) /\ order[outcome.order] # NoOrder
  /\ delivery' = [delivery EXCEPT ![e] = [outcome |-> outcome, found |-> order[outcome.order]]]
  /\ UNCHANGED <<goods, cart, order, event>>

\* No such order: the answer is 404 and the event's row goes with it.
KeepUnmatched(e, outcome) ==
  /\ Unrecorded(e) /\ order[outcome.order] = NoOrder
  /\ event' = [event EXCEPT ![e] = [outcome |-> outcome, applied |-> 0]]
  /\ UNCHANGED <<goods, cart, order, delivery>>
ReceiveUnmatched(e, outcome) ==
  /\ Unrecorded(e) /\ order[outcome.order] = NoOrder
  /\ UNCHANGED marketVars

\* Both columns are written from what was read, the status of an order that
\* has moved on since included.
ApplyPayment(e) ==
  /\ delivery[e] # NoOrder
  /\ LET o == delivery[e].outcome.order
         s == delivery[e].outcome.status IN
     order' = [order EXCEPT ![o].payment = s,
                            ![o].status = IF s = "paid" THEN "paid" ELSE delivery[e].found.status]
  /\ event' = [event EXCEPT ![e] = [outcome |-> delivery[e].outcome, applied |-> 1]]
  /\ delivery' = [delivery EXCEPT ![e] = NoOrder]
  /\ UNCHANGED <<goods, cart>>

ReceiveFails(e) ==
  /\ delivery[e] # NoOrder /\ delivery' = [delivery EXCEPT ![e] = NoOrder]
  /\ UNCHANGED <<goods, cart, order, event>>

\* A repeat of an event on record changes nothing.
ReceiveAgain(e) == event[e] # NoOrder /\ UNCHANGED marketVars

-----------------------------------------------------------------------------
MarketInit ==
  /\ seller = "draft" /\ published = {}
  /\ listing = [status |-> "draft", revision |-> 0, evidence |-> [e \in Evidence |-> "missing"]]
  /\ cart = [o \in Orders |-> NoOrder] /\ order = [o \in Orders |-> NoOrder]
  /\ delivery = [e \in Events |-> NoOrder] /\ event = [e \in Events |-> NoOrder]

ListingStep ==
  \/ SubmitSeller \/ EditListing \/ SubmitListing
  \/ \E verdict \in SellerStatus : DecideSeller(verdict)
  \/ \E verdict \in ListingStatus : ReviewListing(verdict)
  \/ \E e \in Evidence : UploadProductEvidence(e) \/ EvidenceExpires(e)
                         \/ \E verdict \in EvidenceStatus : ReviewEvidence(e, verdict)

OrderStep ==
  \/ \E o \in Orders : OrderValidated(o) \/ PlaceOrder(o) \/ Fulfill(o) \/ Dispute(o)
  \/ \E e \in Events :
       \/ \E outcome \in PaymentOutcome : Receive(e, outcome) \/ ReceiveUnmatched(e, outcome)
       \/ ApplyPayment(e) \/ ReceiveFails(e) \/ ReceiveAgain(e)

MarketNext == ListingStep \/ OrderStep
MarketSpec == MarketInit /\ [][MarketNext]_marketVars

-----------------------------------------------------------------------------
MarketTypeOK ==
  /\ seller \in SellerStatus /\ listing \in Listing /\ published \subseteq 0..MaxRevisions
  /\ cart \in [Orders -> (0..MaxRevisions) \cup {NoOrder}]
  /\ order \in [Orders -> Order \cup {NoOrder}]
  /\ delivery \in [Events -> Delivery \cup {NoOrder}]
  /\ event \in [Events -> Event \cup {NoOrder}]

\* What is on sale is what a reviewer put there, and every order was placed on
\* such a revision, also when the listing changed while it was placed.
SoldAsReviewed ==
  /\ listing.status = "active" => listing.revision \in published
  /\ \A o \in Orders : order[o] # NoOrder => order[o].revision \in published

\* However often events are repeated, lost half-way or sent ahead of their
\* order: one on record was applied, once, and nothing is shipped that no
\* recorded event ever paid for.
PaymentsOnce ==
  /\ \A e \in Events : event[e] # NoOrder => event[e].applied = 1
  /\ \A o \in Orders : order[o] # NoOrder /\ order[o].fulfilled =>
       \E e \in Events : event[e] # NoOrder /\ event[e].outcome = [order |-> o, status |-> "paid"]

\* What is sold was reviewed, and what is shipped was paid.
MarketHolds == MarketTypeOK /\ SoldAsReviewed /\ PaymentsOnce
=============================================================================
