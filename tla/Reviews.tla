------------------------------- MODULE Reviews ------------------------------
(***************************************************************************)
(* Product reviews (catalog reviews).  A review is checked and inserted in *)
(* two steps with nothing in the tables that would refuse a second one; an *)
(* edit and a reply write the whole review they have read.                 *)
(* Abstracted: comments, times.                                            *)
(***************************************************************************)
EXTENDS Database, FiniteSetsExt

CONSTANTS
    Reviewed,       \* products of the catalog
    Reviewers,      \* users
    Ratings,        \* ratings a request may carry
    MaxReviews      \* bound: reviews ever inserted

ASSUME ReviewsAssumption == Ratings \subseteq Int /\ MaxReviews \in Nat

VARIABLES
    reviews,        \* rows
    reviewsMade,    \* ids generated for rows
    erased,         \* history: ids of deleted reviews
    inCatalog,      \* products the look-up finds
    reviewJob       \* what each request writes next

reviewsVars == <<backend, reviews, reviewsMade, erased, inCatalog, reviewJob>>

Review == [id: Nat, product: Reviewed, user: Reviewers, rating: 1 .. 5, reply: BOOLEAN]
NoReviewJob == [pc |-> "idle", review |-> {}]
ReviewJob == [pc: {"idle", "list", "insert", "update", "delete"}, review: SUBSET Review]

ReviewsInit ==
    /\ backend \in Backends
    /\ reviews = {} /\ reviewsMade = 0 /\ erased = {} /\ inCatalog = Reviewed
    /\ reviewJob = [r \in Requests |-> NoReviewJob]

ReviewTables == <<backend, reviews, reviewsMade, erased, inCatalog>>

-----------------------------------------------------------------------------
(* The repositories.                                                       *)

PgReviewByID(i) == {v \in reviews : v.id = i}
MgReviewByID(i) == {v \in reviews : v.id = i}
ReviewByID(i) == On(PgReviewByID(i), MgReviewByID(i))

PgReviewsByProduct(p) == {v \in reviews : v.product = p}
MgReviewsByProduct(p) == {v \in reviews : v.product = p}
ReviewsByProduct(p) == On(PgReviewsByProduct(p), MgReviewsByProduct(p))

PgCreateReview(v) == reviews' = reviews \cup {v}
MgCreateReview(v) == reviews' = reviews \cup {v}

\* Faulty variant: written where it is not there any more.
MgUpsertReview(v) == reviews' = {w \in reviews : w.id # v.id} \cup {v}
PgUpdateReview(v) == reviews' = {IF w.id = v.id THEN v ELSE w : w \in reviews}
MgUpdateReview(v) == reviews' = {IF w.id = v.id THEN v ELSE w : w \in reviews}

PgDeleteReview(i) == reviews' = {w \in reviews : w.id # i}
MgDeleteReview(i) == reviews' = {w \in reviews : w.id # i}

-----------------------------------------------------------------------------
(* The service.                                                            *)

ValidateReview(rating) == rating \in 1 .. 5

ReviewGoto(r, pc, review) ==
    /\ reviewJob[r].pc = "idle"
    /\ reviewJob' = [reviewJob EXCEPT ![r] = [pc |-> pc, review |-> {review}]]
    /\ UNCHANGED ReviewTables
ReviewDone(r) == reviewJob' = [reviewJob EXCEPT ![r] = NoReviewJob]

\* The product is found, perhaps in the cache (inCatalog may be behind).
AddReview(r, p, u, rating) ==
    /\ ValidateReview(rating) /\ p \in inCatalog
    /\ ReviewGoto(r, "list", [id |-> 0, product |-> p, user |-> u, rating |-> rating, reply |-> FALSE])

\* Refused when the user has a review of the product; a list that fails refuses nothing.
CheckReviewed(r) ==
    /\ reviewJob[r].pc = "list"
    /\ \E new \in reviewJob[r].review :
        \/ /\ \E v \in ReviewsByProduct(new.product) : v.user = new.user
           /\ ReviewDone(r)
        \/ /\ \A v \in ReviewsByProduct(new.product) : v.user # new.user
           /\ reviewJob' = [reviewJob EXCEPT ![r].pc = "insert"]
        \/ reviewJob' = [reviewJob EXCEPT ![r].pc = "insert"]
    /\ UNCHANGED ReviewTables

InsertReview(r) ==
    /\ reviewJob[r].pc = "insert" /\ reviewsMade < MaxReviews
    /\ reviewsMade' = reviewsMade + 1
    /\ \E new \in reviewJob[r].review :
        On(PgCreateReview([new EXCEPT !.id = reviewsMade + 1]),
           MgCreateReview([new EXCEPT !.id = reviewsMade + 1]))
    /\ ReviewDone(r) /\ UNCHANGED <<backend, erased, inCatalog>>

\* The author's new rating; the shop's reply.
UpdateReview(r, i, u, rating) ==
    \E v \in ReviewByID(i) :
        v.user = u /\ ValidateReview(rating) /\ ReviewGoto(r, "update", [v EXCEPT !.rating = rating])
SubmitReply(r, i) == \E v \in ReviewByID(i) : ReviewGoto(r, "update", [v EXCEPT !.reply = TRUE])

\* The review is written as it was read and edited; when it has been deleted nothing is.
SaveReview(r) ==
    /\ reviewJob[r].pc = "update"
    /\ \E v \in reviewJob[r].review : On(PgUpdateReview(v), MgUpdateReview(v))
    /\ ReviewDone(r) /\ UNCHANGED <<backend, reviewsMade, erased, inCatalog>>

\* The author or an administrator.
DeleteReview(r, i, u, isAdmin) ==
    \E v \in ReviewByID(i) : (isAdmin \/ v.user = u) /\ ReviewGoto(r, "delete", v)
EraseReview(r) ==
    /\ reviewJob[r].pc = "delete"
    /\ \E v \in reviewJob[r].review :
        /\ On(PgDeleteReview(v.id), MgDeleteReview(v.id))
        /\ erased' = erased \cup {v.id}
    /\ ReviewDone(r) /\ UNCHANGED <<backend, reviewsMade, inCatalog>>

GetReviewsByProductID(p) == IF p \in inCatalog THEN ReviewsByProduct(p) ELSE {}
\* The sum and the number of the ratings.
GetAverageRating(p) ==
    [sum |-> MapThenSumSet(LAMBDA v : v.rating, GetReviewsByProductID(p)),
     count |-> Cardinality(GetReviewsByProductID(p))]

FailReview(r) == reviewJob[r].pc # "idle" /\ ReviewDone(r) /\ UNCHANGED ReviewTables

\* The product is deleted; its reviews stay.
ProductGone(p) ==
    /\ p \in inCatalog /\ inCatalog' = inCatalog \ {p}
    /\ UNCHANGED <<backend, reviews, reviewsMade, erased, reviewJob>>

-----------------------------------------------------------------------------
(* The handlers.                                                           *)

HandleSubmitReview(r) ==
    \E p \in Reviewed, u \in Reviewers, rating \in Ratings : AddReview(r, p, u, rating)
HandleUpdateReview(r) ==
    \E i \in 1 .. reviewsMade, u \in Reviewers, rating \in Ratings : UpdateReview(r, i, u, rating)
HandleSubmitReply(r) == \E i \in 1 .. reviewsMade : SubmitReply(r, i)
HandleDeleteReview(r) ==
    \E i \in 1 .. reviewsMade, u \in Reviewers, isAdmin \in BOOLEAN : DeleteReview(r, i, u, isAdmin)
HandleGetReviews(p) == GetReviewsByProductID(p)
HandleGetRatingSummary(p) == GetAverageRating(p)

ReviewsNext ==
    \/ \E r \in Requests :
        \/ HandleSubmitReview(r) \/ HandleUpdateReview(r) \/ HandleSubmitReply(r)
        \/ HandleDeleteReview(r)
        \/ CheckReviewed(r) \/ InsertReview(r) \/ SaveReview(r) \/ EraseReview(r) \/ FailReview(r)
    \/ \E p \in Reviewed : ProductGone(p)

ReviewsSpec == ReviewsInit /\ [][ReviewsNext]_reviewsVars

-----------------------------------------------------------------------------
(* Properties.                                                             *)

ReviewsTypeOK ==
    /\ reviews \subseteq Review /\ reviewsMade \in Nat /\ erased \subseteq Nat
    /\ inCatalog \subseteq Reviewed /\ reviewJob \in [Requests -> ReviewJob]

\* A deleted review never comes back, whatever edit or reply had read it before (both write
\* the whole review later); and the average of a product is that of its reviews, from 1 to 5.
DeletedReviewsStayDeleted ==
    /\ \A v \in reviews : v.id \notin erased
    /\ \A p \in Reviewed :
        LET a == HandleGetRatingSummary(p) IN
        /\ a.count = Cardinality(HandleGetReviews(p))
        /\ a.sum \in a.count .. 5 * a.count
=============================================================================
