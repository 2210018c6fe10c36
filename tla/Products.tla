------------------------------ MODULE Products ------------------------------
(***************************************************************************)
(* One product of the catalog: its row with a version, its variants, its   *)
(* images and its discount (catalog core, variants, images, discounts,     *)
(* bulk).  A command reads the product, edits the list it read and writes  *)
(* the list whole, in later steps.  Postgres deletes the rows of the list  *)
(* and inserts the new ones in a transaction: rows committed by another    *)
(* one between its delete and its commit stay.  MongoDB sets the list.     *)
(* A client may choose the ids of the variants it sends: nothing but the   *)
(* primary key of Postgres keeps an id from standing twice in a product.   *)
(* Abstracted: names, prices but for discounts and filters, the order of   *)
(* the lists, the category (Categories), the stored files, the cache.      *)
(***************************************************************************)
EXTENDS Database

CONSTANTS
    Skus,
    StockLevels,      \* stocks the inventory may announce
    Discounts,        \* discounts a request may ask for: type and value
    NoDiscount,
    MaxVariants,      \* bound: variant ids ever generated
    MaxImages         \* bound: image ids ever generated

ASSUME ProductsAssumption ==
    /\ NoDiscount \notin Discounts /\ StockLevels \subseteq Nat /\ 0 \in StockLevels
    /\ \A d \in Discounts : d.value \in Int
    /\ MaxVariants \in Nat /\ MaxImages \in Nat

VARIABLES
    product,          \* its row
    variants, images, \* the rows of its lists
    madeVariants, madeImages,  \* ids generated so far
    productJob,       \* what each request writes next
    touched           \* history: requests during which another one has written

productsVars == <<backend, product, variants, images, madeVariants, madeImages, productJob, touched>>

\* id 0: one a client made up, or the empty one
Variant == [id: 0 .. MaxVariants, sku: Skus, stock: StockLevels]
Image == [id: 1 .. MaxImages, primary: BOOLEAN]
ProductRecord == [life: {"unborn", "live", "deleted"}, version: Nat,
                  discount: Discounts \cup {NoDiscount}]
Ids(rows) == {x.id : x \in rows}
SkusOf(rows) == {v.sku : v \in rows}

\* `lists`: what the request writes; `left`: ids committed since it deleted the old rows
ProductJob == [pc: {"idle", "put", "insert", "update", "conflict"},
               lists: SUBSET {"variants", "images"}, whole: BOOLEAN,
               variants: SUBSET Variant, images: SUBSET Image,
               leftV: SUBSET (0 .. MaxVariants), leftI: SUBSET (1 .. MaxImages)]
NoProductJob == [pc |-> "idle", lists |-> {}, whole |-> FALSE, variants |-> {}, images |-> {},
                 leftV |-> {}, leftI |-> {}]

ProductsInit ==
    /\ backend \in Backends
    /\ product = [life |-> "unborn", version |-> 0, discount |-> NoDiscount]
    /\ variants = {} /\ images = {} /\ madeVariants = 0 /\ madeImages = 0
    /\ productJob = [r \in Requests |-> NoProductJob] /\ touched = {}

Live == product.life = "live"
ProductData == <<product, variants, images>>

\* Prices and stocks aside, a list of variants is valid when no SKU appears twice.
ValidateVariants(vs) == Cardinality(SkusOf(vs)) = Cardinality(vs)
ValidateProduct(vs) == vs # {} /\ ValidateVariants(vs)
DistinctIds(rows) == \A x, y \in rows : x.id = y.id => x = y

-----------------------------------------------------------------------------
(* Requests.                                                               *)

Others(r) == {o \in Requests \ {r} : o \in touched \/ productJob[o].pc # "idle"}
EndProduct(r) == [productJob EXCEPT ![r] = NoProductJob]

\* A request that has written ends; nothing was written and it ends; it begins.
ProductWritten(r, jobs) == productJob' = [jobs EXCEPT ![r] = NoProductJob] /\ touched' = Others(r)
ProductRefused(r) ==
    /\ productJob' = EndProduct(r) /\ touched' = touched \ {r}
    /\ UNCHANGED ProductData
EnterProduct(r, job) ==
    /\ productJob[r].pc = "idle" /\ Live
    /\ productJob' = [productJob EXCEPT ![r] = job]
    /\ UNCHANGED <<backend, ProductData, touched>>

PutVariants(r, vs) ==
    /\ EnterProduct(r, [NoProductJob EXCEPT !.pc = "put", !.lists = {"variants"}, !.variants = vs])
    /\ UNCHANGED madeImages
PutImages(r, is) ==
    /\ EnterProduct(r, [NoProductJob EXCEPT !.pc = "put", !.lists = {"images"}, !.images = is])
    /\ UNCHANGED madeVariants

\* The lists of q become what q writes, plus the rows its delete has not seen.
NewVariants(q) ==
    IF "variants" \in q.lists THEN q.variants \cup {v \in variants : v.id \in q.leftV} ELSE variants
NewImages(q) ==
    IF "images" \in q.lists THEN q.images \cup {i \in images : i.id \in q.leftI} ELSE images
\* Primary keys and the unique index on the SKU.
Clashes(q) ==
    \/ ~DistinctIds(q.variants)
    \/ \E v \in q.variants, w \in variants : w.id \in q.leftV /\ (v.id = w.id \/ v.sku = w.sku)
    \/ \E i \in q.images : i.id \in q.leftI \cap Ids(images)

\* What the other transactions, between their delete and their commit, will leave.
LeftBy(q) ==
    [o \in Requests |->
        IF productJob[o].pc = "insert"
        THEN [productJob[o] EXCEPT !.leftV = @ \cup Ids(q.variants), !.leftI = @ \cup Ids(q.images)]
        ELSE productJob[o]]

-----------------------------------------------------------------------------
(* The repositories.                                                       *)

\* The row lock of an update of the product, and those of its variants.
RowLocked == \E o \in Requests : productJob[o].pc = "insert" /\ productJob[o].whole
VariantsLocked ==
    \E o \in Requests : productJob[o].pc = "insert" /\ "variants" \in productJob[o].lists

\* The rows of the list are deleted; the new ones follow in the same transaction.
PgPutList(r) == productJob' = [productJob EXCEPT ![r].pc = "insert"] /\ UNCHANGED <<ProductData, touched>>
MgPutList(r) ==
    LET q == productJob[r] IN
    IF Live THEN /\ variants' = NewVariants(q) /\ images' = NewImages(q)
                 /\ UNCHANGED product /\ ProductWritten(r, productJob)
    ELSE ProductRefused(r)
PutList(r) ==
    /\ productJob[r].pc = "put" /\ On(PgPutList(r), MgPutList(r))
    /\ UNCHANGED <<backend, madeVariants, madeImages>>

\* WHERE id AND version, waiting for the lock of the row; no row: was it the id or the version?
PgUpdateProduct(r, version) ==
    /\ ~RowLocked
    /\ IF ~Live THEN ProductRefused(r)
       ELSE /\ productJob' = [productJob EXCEPT ![r].pc =
                                IF product.version = version THEN "insert" ELSE "conflict"]
            /\ UNCHANGED <<ProductData, touched>>
MgUpdateProduct(r, version) ==
    LET q == productJob[r] IN
    IF ~Live THEN ProductRefused(r)
    ELSE IF product.version = version
         THEN /\ product' = [product EXCEPT !.version = version + 1, !.discount = NoDiscount]
              /\ variants' = q.variants /\ images' = q.images /\ ProductWritten(r, productJob)
         ELSE productJob' = [productJob EXCEPT ![r].pc = "conflict"] /\ UNCHANGED <<ProductData, touched>>

\* A payload has no version, no images, no discount and no stock: all are the zero value.
PayloadVersion == 0
UpdateProductRow(r) ==
    /\ productJob[r].pc = "update"
    /\ On(PgUpdateProduct(r, PayloadVersion), MgUpdateProduct(r, PayloadVersion))
    /\ UNCHANGED <<backend, madeVariants, madeImages>>

\* Postgres: the new rows are in, or one violates a key and nothing has happened.
CommitLists(r) ==
    LET q == productJob[r] IN
    /\ q.pc = "insert"
    /\ IF ~Live \/ Clashes(q) THEN ProductRefused(r)
       ELSE /\ variants' = NewVariants(q) /\ images' = NewImages(q)
            /\ product' = IF q.whole THEN [product EXCEPT !.version = @ + 1, !.discount = NoDiscount]
                          ELSE product
            /\ ProductWritten(r, LeftBy(q))
    /\ UNCHANGED <<backend, madeVariants, madeImages>>

\* The answer "modified by another process" is given.
ReportConflict(r) ==
    /\ productJob[r].pc = "conflict" /\ ProductRefused(r)
    /\ UNCHANGED <<backend, madeVariants, madeImages>>

\* A write in one statement; requests that have read before it are touched.
Wrote1 ==
    /\ touched' = {o \in Requests : o \in touched \/ productJob[o].pc # "idle"}
    /\ UNCHANGED <<backend, productJob>>

PgCreateProduct(vs) ==
    /\ DistinctIds(vs)
    /\ product' = [product EXCEPT !.life = "live"] /\ variants' = vs /\ UNCHANGED images
MgCreateProduct(vs) ==
    /\ product' = [product EXCEPT !.life = "live"] /\ variants' = vs /\ UNCHANGED images

\* the rows of the lists go with the product (ON DELETE CASCADE; one document)
PgDeleteProduct == product' = [product EXCEPT !.life = "deleted"] /\ variants' = {} /\ images' = {}
MgDeleteProduct == product' = [product EXCEPT !.life = "deleted"] /\ variants' = {} /\ images' = {}

PgUpdateDiscount(d) == ~RowLocked /\ product' = [product EXCEPT !.discount = d]
MgUpdateDiscount(d) == product' = [product EXCEPT !.discount = d]

\* An update that waited for a transaction which then replaced the row finds none, and is as if
\* it had not been.
PgUpdateVariantStock(id, n) ==
    /\ ~VariantsLocked
    /\ variants' = {IF v.id = id THEN [v EXCEPT !.stock = n] ELSE v : v \in variants}
\* only one element of the list is set, whatever the number of those with the id
MgUpdateVariantStock(id, n) ==
    \E x \in variants :
        x.id = id /\ variants' = {IF v = x THEN [v EXCEPT !.stock = n] ELSE v : v \in variants}

\* A bulk create or update on Postgres opens a transaction in the transaction: refused.
PgBulkCreate(vs) == UNCHANGED ProductData
MgBulkCreate(vs) == MgCreateProduct(vs)
PgBulkUpdate(vs) == UNCHANGED ProductData
\* replaced by what the payload says, whatever the version was
MgBulkUpdate(vs) ==
    /\ product' = [product EXCEPT !.version = PayloadVersion, !.discount = NoDiscount]
    /\ variants' = vs /\ images' = {}
PgBulkDelete == ~RowLocked /\ PgDeleteProduct
MgBulkDelete == MgDeleteProduct

-----------------------------------------------------------------------------
(* The commands.                                                           *)

\* A payload of one or two variants with ids from a set.
Payload(ids) == {{v, w} : v, w \in [id: ids, sku: Skus, stock: {0}]}

\* An id is generated for each variant of a new product that has none.
Generated(vs) == Ids(vs) \ {0}
CreatePayloads ==
    {vs \in Payload({0} \cup (madeVariants + 1 .. MaxVariants)) :
        /\ Generated(vs) = madeVariants + 1 .. madeVariants + Cardinality(Generated(vs))
        /\ \A v, w \in vs : v.id = w.id /\ v.id # 0 => v = w}

\* The new product has a version of 0; `vs`: its variants.
AddProduct(vs) ==
    /\ product.life = "unborn" /\ ValidateProduct(vs)
    /\ madeVariants' = madeVariants + Cardinality(Generated(vs)) /\ UNCHANGED madeImages /\ Wrote1

\* The ids of an update are stored as they come: any the product has had, or none.
UpdatePayloads == Payload(0 .. madeVariants)

UpdateProduct(r) ==
    \E vs \in UpdatePayloads :
        /\ ValidateProduct(vs)
        /\ EnterProduct(r, [NoProductJob EXCEPT !.pc = "update", !.lists = {"variants", "images"},
                                                !.whole = TRUE, !.variants = vs])
        /\ UNCHANGED <<madeVariants, madeImages>>

AddVariant(r) ==
    \E sku \in Skus, n \in StockLevels :
        LET new == variants \cup {[id |-> madeVariants + 1, sku |-> sku, stock |-> n]} IN
        /\ madeVariants < MaxVariants /\ ValidateVariants(new)
        /\ madeVariants' = madeVariants + 1 /\ PutVariants(r, new)
\* The first variant with the id asked for.  The payload has no stock: it becomes 0 until the
\* inventory announces it again.
UpdateVariant(r) ==
    \E v \in variants, sku \in Skus :
        LET new == (variants \ {v}) \cup {[id |-> v.id, sku |-> sku, stock |-> 0]} IN
        /\ ValidateVariants(new) /\ PutVariants(r, new) /\ UNCHANGED madeVariants
\* Faulty variant: the last variant may go.
DeleteAnyVariant(r) ==
    \E v \in variants : PutVariants(r, variants \ {v}) /\ UNCHANGED madeVariants
DeleteVariant(r) ==
    \E v \in variants :
        /\ Cardinality(variants) > 1
        /\ PutVariants(r, variants \ {v}) /\ UNCHANGED madeVariants

\* One or two uploads; the first image a product gets is its primary one.
RegisterUploadedImages(r) ==
    \E n \in {madeImages + 1, madeImages + 2}, flags \in [madeImages + 1 .. madeImages + 2 -> BOOLEAN] :
        LET new == {[id |-> i, primary |-> flags[i] \/ (images = {} /\ i = madeImages + 1)] :
                        i \in madeImages + 1 .. n}
        IN  /\ n <= MaxImages
            /\ madeImages' = n /\ PutImages(r, images \cup new)
\* Another image becomes primary when the primary one goes: the first of those that remain.
DeleteImage(r) ==
    \E i \in images :
        LET rest == images \ {i} IN
        /\ IF i.primary /\ rest # {}
           THEN \E first \in rest :
                    PutImages(r, (rest \ {first}) \cup {[first EXCEPT !.primary = TRUE]})
           ELSE PutImages(r, rest)
        /\ UNCHANGED madeImages
SetPrimaryImage(r) ==
    \E i \in images :
        /\ PutImages(r, {[x EXCEPT !.primary = (x.id = i.id)] : x \in images})
        /\ UNCHANGED madeImages

ApplyDiscount(d) ==
    /\ d.type \in {"percentage", "fixed"} /\ d.value >= 0 /\ (d.type = "percentage" => d.value <= 100)
    /\ Live /\ On(PgUpdateDiscount(d), MgUpdateDiscount(d))
RemoveDiscount == Live /\ On(PgUpdateDiscount(NoDiscount), MgUpdateDiscount(NoDiscount))

\* The inventory has announced the stock of a variant.
SubscribeStockEvents ==
    \E id \in Ids(variants), n \in StockLevels :
        /\ On(PgUpdateVariantStock(id, n), MgUpdateVariantStock(id, n)) /\ Wrote1
        /\ UNCHANGED <<product, images, madeVariants, madeImages>>

-----------------------------------------------------------------------------
(* The handlers.                                                           *)

CreateRow(vs) == On(PgCreateProduct(vs), MgCreateProduct(vs))
BulkCreateRows(vs) == On(PgBulkCreate(vs), MgBulkCreate(vs))
HandleCreate == \E vs \in CreatePayloads : AddProduct(vs) /\ CreateRow(vs)
HandleBulkCreate == \E vs \in CreatePayloads : AddProduct(vs) /\ BulkCreateRows(vs)
HandleUpdate(r) == UpdateProduct(r)
HandleBulkUpdate ==
    \E vs \in UpdatePayloads :
        /\ ValidateProduct(vs) /\ Live /\ On(PgBulkUpdate(vs), MgBulkUpdate(vs))
        /\ UNCHANGED <<madeVariants, madeImages>> /\ Wrote1
HandleDelete ==
    /\ Live /\ On(~RowLocked /\ PgDeleteProduct, MgDeleteProduct)
    /\ UNCHANGED <<madeVariants, madeImages>> /\ Wrote1
HandleBulkDelete ==
    /\ Live /\ On(PgBulkDelete, MgBulkDelete)
    /\ UNCHANGED <<madeVariants, madeImages>> /\ Wrote1
HandleAddVariant(r) == AddVariant(r)
HandleUpdateVariant(r) == UpdateVariant(r)
HandleDeleteVariant(r) == DeleteVariant(r)
HandleRegisterImages(r) == RegisterUploadedImages(r)
HandleDeleteImage(r) == DeleteImage(r)
HandleSetPrimary(r) == SetPrimaryImage(r)
HandleApplyDiscount ==
    \E d \in Discounts :
        ApplyDiscount(d) /\ Wrote1 /\ UNCHANGED <<variants, images, madeVariants, madeImages>>
HandleRemoveDiscount ==
    RemoveDiscount /\ Wrote1 /\ UNCHANGED <<variants, images, madeVariants, madeImages>>

\* A statement fails or the process stops: the transaction is rolled back.
FailProduct(r) ==
    /\ productJob[r].pc # "idle" /\ ProductRefused(r)
    /\ UNCHANGED <<backend, madeVariants, madeImages>>

ProductsNext ==
    \/ \E r \in Requests :
        \/ HandleUpdate(r) \/ HandleAddVariant(r) \/ HandleUpdateVariant(r) \/ HandleDeleteVariant(r)
        \/ HandleRegisterImages(r) \/ HandleDeleteImage(r) \/ HandleSetPrimary(r)
        \/ PutList(r) \/ UpdateProductRow(r) \/ CommitLists(r) \/ ReportConflict(r) \/ FailProduct(r)
    \/ HandleCreate \/ HandleBulkCreate \/ HandleBulkUpdate \/ HandleDelete \/ HandleBulkDelete
    \/ HandleApplyDiscount \/ HandleRemoveDiscount \/ SubscribeStockEvents

ProductsSpec == ProductsInit /\ [][ProductsNext]_productsVars

-----------------------------------------------------------------------------
(* Queries: which products a filter selects, and what is shown of them.    *)
(* No minimum is 0, no maximum is above every price.                       *)

matchVariant(v, f) == f.min <= v.price /\ v.price <= f.max /\ f.attrs \subseteq v.attrs
FilterProducts(vs, f) == \E v \in vs : matchVariant(v, f)

StockMatches(vs, inStock) ==
    CASE inStock = "any" -> TRUE
      [] inStock = "yes" -> \E v \in vs : v.stock > 0
      [] inStock = "no" -> \A v \in vs : v.stock = 0
\* one joined row meets price and stock; attributes are not looked at
PgSelects(vs, f) ==
    \E v \in vs :
        /\ f.min <= v.price /\ v.price <= f.max
        /\ f.inStock = "yes" => v.stock > 0
        /\ f.inStock = "no" => StockMatches(vs, "no")
\* each condition is met by some element of the list
MgSelects(vs, f) ==
    /\ \E v \in vs : f.min <= v.price
    /\ \E v \in vs : v.price <= f.max
    /\ StockMatches(vs, f.inStock)
    /\ \A a \in f.attrs : \E v \in vs : a \in v.attrs

\* The page size is 20 unless given, and at most 100; pages are numbered from 1.
PageSize(limit) == IF limit <= 0 THEN 20 ELSE IF limit > 100 THEN 100 ELSE limit
\* Faulty variant: the offset counts pages of the size asked for.
UncappedOffset(page, limit) == IF page > 1 THEN (page - 1) * limit ELSE 0
PageOffset(page, limit) == IF page > 1 THEN (page - 1) * PageSize(limit) ELSE 0

\* In hundredths of the price's unit: nothing is rounded.
mapProductToResponse(price, d) ==
    CASE d.type = "none" -> price * 100
      [] d.type = "percentage" -> price * (100 - d.value)
      [] d.type = "fixed" -> IF price < d.value THEN 0 ELSE (price - d.value) * 100

-----------------------------------------------------------------------------
(* Properties.                                                             *)

SomeVariants == [price: 1 .. 2, stock: 0 .. 1, attrs: SUBSET {"red", "xl"}]
SomeLists == {{v, w} : v, w \in SomeVariants}
SomeFilters == [min: 0 .. 2, max: 1 .. 3, inStock: {"any", "yes", "no"}, attrs: SUBSET {"red", "xl"}]

\* The three ways a list of products is filtered: without attributes Postgres selects what
\* the in-memory filter does, and MongoDB misses nothing that either of them selects.
FiltersAgree ==
    \A vs \in SomeLists, f \in SomeFilters :
        /\ f.inStock = "any" /\ f.attrs = {} => (PgSelects(vs, f) <=> FilterProducts(vs, f))
        /\ f.inStock = "any" /\ FilterProducts(vs, f) => MgSelects(vs, f)
        /\ f.attrs = {} /\ PgSelects(vs, f) => MgSelects(vs, f)

\* Pages follow one another without a gap or an overlap; a discount that was accepted never
\* raises a price or makes it negative.
ShownRight ==
    /\ \A limit \in {-1, 0, 20, 100, 101}, page \in 1 .. 3 :
        PageOffset(page + 1, limit) = PageOffset(page, limit) + PageSize(limit)
    /\ product.discount # NoDiscount =>
        \A price \in 0 .. 5 : mapProductToResponse(price, product.discount) \in 0 .. price * 100

ProductsTypeOK ==
    /\ product \in ProductRecord /\ variants \subseteq Variant /\ images \subseteq Image
    /\ madeVariants \in 0 .. MaxVariants /\ madeImages \in 0 .. MaxImages
    /\ productJob \in [Requests -> ProductJob] /\ touched \subseteq Requests
    /\ FiltersAgree /\ ShownRight

\* Whatever edits of one product race (each writes a list it has read) and whatever variant ids
\* clients send, a live product has a variant, no SKU appears twice in it and on Postgres no
\* variant id (on MongoDB one may); no image id appears twice, and when it has images one of
\* them is the primary one: deleting the primary image promotes another in the same write.
ProductWellFormed ==
    Live =>
        /\ variants # {}
        /\ \A v, w \in variants : v.sku = w.sku => v = w
        /\ backend = "postgres" => DistinctIds(variants)
        /\ DistinctIds(images)
        /\ images # {} => \E i \in images : i.primary

\* The answer "document was modified by another process" is given only to a request during
\* which another one has written the product.
ConflictOnlyIfModified ==
    \A r \in Requests : productJob[r].pc = "conflict" => r \in touched
=============================================================================
