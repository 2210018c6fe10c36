---------------------------- MODULE MCStorefront ----------------------------
(***************************************************************************)
(* The storefront: shipping, carts and the three parts of the catalog on   *)
(* one database.  They share no other state, so each moves while the       *)
(* others rest: the run visits the sum of their states.                    *)
(***************************************************************************)
EXTENDS Shipping, Cart, Categories, Products, Reviews, TLC

MCOwner == [o \in ShipOrders |-> "customer"]
MCProviders == ("f" :> [type |-> "flatrate", rate |-> 1, threshold |-> 0, perKg |-> 0])
            @@ ("w" :> [type |-> "weightbased", rate |-> 0, threshold |-> 0, perKg |-> 1])
            @@ ("v" :> [type |-> "freeabove", rate |-> 1, threshold |-> 2, perKg |-> 0])
MCPackages == {[weight |-> 1, value |-> 1]}
MCPrice == [v \in CartVariants |-> 5]
MCDiscount == [v \in CartVariants |-> [type |-> "percentage", value |-> 10]]
MCDiscounts == {[type |-> "percentage", value |-> 50], [type |-> "percentage", value |-> 101],
                [type |-> "fixed", value |-> 2]}

\* The variants of a cart, the SKUs and the reviewers are the same two values, the categories
\* and the slugs the same three: no component compares one with the other, and the group the
\* states are reduced by stays small.
Symmetric == Permutations(Requests) \cup Permutations(Skus) \cup Permutations(Cats)

Init == ShippingInit /\ CartInit /\ CategoriesInit /\ ProductsInit /\ ReviewsInit

\* Where a component's initial state has a choice, one of them is enough for the others' moves.
CartRests == CartInit /\ \A v \in CartVariants : stock[v] = 1

ShippingMoves ==
    /\ CartRests /\ CategoriesInit /\ ProductsInit /\ ReviewsInit /\ ShippingNext
    /\ UNCHANGED <<cartVars, categoriesVars, productsVars, reviewsVars>>
CartMoves ==
    /\ ShippingInit /\ CategoriesInit /\ ProductsInit /\ ReviewsInit /\ CartNext
    /\ UNCHANGED <<shippingVars, categoriesVars, productsVars, reviewsVars>>
CategoriesMove ==
    /\ ShippingInit /\ CartRests /\ ProductsInit /\ ReviewsInit /\ CategoriesNext
    /\ UNCHANGED <<shippingVars, cartVars, productsVars, reviewsVars>>
ProductsMove ==
    /\ ShippingInit /\ CartRests /\ CategoriesInit /\ ReviewsInit /\ ProductsNext
    /\ UNCHANGED <<shippingVars, cartVars, categoriesVars, reviewsVars>>
ReviewsMove ==
    /\ ShippingInit /\ CartRests /\ CategoriesInit /\ ProductsInit /\ ReviewsNext
    /\ UNCHANGED <<shippingVars, cartVars, categoriesVars, productsVars>>
Next == ShippingMoves \/ CartMoves \/ CategoriesMove \/ ProductsMove \/ ReviewsMove

vars == <<shippingVars, cartVars, categoriesVars, productsVars, reviewsVars>>
Spec == Init /\ [][Next]_vars

TypeOK == ShippingTypeOK /\ CartTypeOK /\ CategoriesTypeOK /\ ProductsTypeOK /\ ReviewsTypeOK

-----------------------------------------------------------------------------
(* Bounds.                                                                 *)

\* Long histories, free shipments, MongoDB and an event cut off with one shipment at most; a
\* failed read with two that are new, and none after an event was cut off.
ShippingBound ==
    /\ backend = "mongo" \/ cut # {} => shipmentsMade <= 1
    /\ unchecked # {} => /\ shipmentsMade <= 2 /\ cut = {}
                         /\ \A s \in shipments : s.cost = 1 /\ Len(s.history) <= 1
                         /\ \A r \in Requests : Len(shipJob[r].row.history) <= 1
    /\ shipmentsMade > 1 => \A s \in shipments : s.cost = 1 /\ Len(s.history) <= 2
    /\ shipmentsMade > 2 => \A s \in shipments : Len(s.history) <= 1
    /\ \A r \in Requests : shipJob[r].row.cost = 0 => shipmentsMade = 0 \/ shipJob[r].pc # "insert"

\* On MongoDB, after a day, with a stock lowered or a variant gone: one request.
InCart == {r \in Requests : cartJob[r].pc # "idle"}
CartBound ==
    /\ backend = "mongo" => Cardinality(InCart) <= 1
    /\ Cardinality(InCart) = 2 => day = 0 /\ listed = CartVariants /\ stock = peak
    /\ \E v \in CartVariants : peak[v] = 1 /\ v \in listed
    /\ day > 0 => listed = CartVariants /\ stock = peak
    /\ \E r \in Requests : cartJob[r].guest = NoCustomer

\* After a race only Postgres has something left to keep; a third category without products; with
\* either, every slug in its place; one deletion.  A request whose slug is taken is alone.
MadeCats == {c \in Cats : tree[c].life # "unborn"}
CategoriesBound ==
    /\ raced => backend = "postgres"
    /\ (\E p \in CatProducts : inCat[p].life # "unborn") => \A c \in LiveCats : tree[c].slug = c
    /\ Cardinality(MadeCats) > 2 =>
        /\ \A p \in CatProducts : inCat[p].life = "unborn"
        /\ \A c \in LiveCats : tree[c].slug = c
        /\ \A r \in Requests :
            LET q == catJob[r] IN q.op = "update" /\ q.cat \in LiveCats => q.slug = q.cat
    /\ Cardinality({c \in Cats : tree[c].life = "deleted"}) <= 1
    /\ (\E r \in Requests : catJob[r].op \in {"add", "update"} /\ SlugTaken(catJob[r].cat, catJob[r].slug))
           => Cardinality({r \in Requests : catJob[r].pc # "idle"}) = 1

\* Images with one variant out of stock; stock, a second version, ids clients have chosen and
\* MongoDB with one request, discounts with none.
InProduct == {r \in Requests : productJob[r].pc # "idle"}
Chosen(vs) == 0 \in Ids(vs) \/ ~DistinctIds(vs)
ProductsBound ==
    /\ madeImages > 0 => madeVariants = 1 /\ ~Chosen(variants) /\ \A v \in variants : v.stock = 0
    /\ product.discount # NoDiscount => InProduct = {} /\ madeImages = 0
    /\ backend = "mongo" \/ product.version > 0 \/ (\E v \in variants : v.stock # 0)
           \/ Chosen(variants) \/ (\E r \in Requests : Chosen(productJob[r].variants)) =>
        Cardinality(InProduct) <= 1

\* On MongoDB one review.
ReviewsBound == backend = "mongo" => reviewsMade <= 1

Bound == ShippingBound /\ CartBound /\ CategoriesBound /\ ProductsBound /\ ReviewsBound
=============================================================================
