----------------------------- MODULE Categories -----------------------------
(***************************************************************************)
(* The category tree and the category of each product (catalog core).      *)
(* Every check of a command is a read of its own before the write: slugs,  *)
(* the parent, the walk up from it, the products and children of what is   *)
(* deleted.  Only Postgres has foreign keys.                               *)
(* Abstracted: a product is the category it names (Products has the rest); *)
(* names; the cached reads (Cache).                                        *)
(***************************************************************************)
EXTENDS Database

CONSTANTS
    Cats,         \* category ids, each generated once
    NoCat,        \* no parent; the NULL a foreign key leaves in a product
    Slugs,
    NoSlug,
    CatProducts   \* product ids, each generated once

ASSUME CategoriesAssumption == NoCat \notin Cats /\ NoSlug \notin Slugs /\ IsFiniteSet(Cats)

VARIABLES
    tree,         \* tree[c]: the row of a category
    inCat,        \* inCat[p]: the row of a product
    catJob,       \* what each request has checked and does next
    dirty,        \* history: requests during which another one has written
    raced         \* history: a dirty request has written

categoriesVars == <<backend, tree, inCat, catJob, dirty, raced>>

Lives == {"unborn", "live", "deleted"}
CatRow == [life: Lives, slug: Slugs \cup {NoSlug}, parent: Cats \cup {NoCat}]
ProductRow == [life: Lives, cat: Cats \cup {NoCat}]
CatJob == [pc: {"idle", "parent", "walk", "write", "children", "erase", "store"},
           op: {"add", "update"}, cat: Cats \cup {NoCat}, slug: Slugs \cup {NoSlug},
           parent: Cats \cup {NoCat}, at: Cats \cup {NoCat}, visited: SUBSET Cats,
           product: SUBSET CatProducts]

NoRow(life) == [life |-> life, slug |-> NoSlug, parent |-> NoCat]
NoCatJob == [pc |-> "idle", op |-> "add", cat |-> NoCat, slug |-> NoSlug, parent |-> NoCat,
             at |-> NoCat, visited |-> {}, product |-> {}]

CategoriesInit ==
    /\ backend \in Backends
    /\ tree = [c \in Cats |-> NoRow("unborn")]
    /\ inCat = [p \in CatProducts |-> [life |-> "unborn", cat |-> NoCat]]
    /\ catJob = [r \in Requests |-> NoCatJob]
    /\ dirty = {} /\ raced = FALSE

LiveCats == {c \in Cats : tree[c].life = "live"}
LiveProducts == {p \in CatProducts : inCat[p].life = "live"}

-----------------------------------------------------------------------------
(* The repositories.                                                       *)

PgCategoryByID(c) == {x \in LiveCats : x = c}
MgCategoryByID(c) == {x \in LiveCats : x = c}
CategoryByID(c) == On(PgCategoryByID(c), MgCategoryByID(c))

PgListCategories == LiveCats
MgListCategories == LiveCats
ListCategories == On(PgListCategories, MgListCategories)

Children(c) == {x \in ListCategories : tree[x].parent = c}

\* Both have a unique index on the slug.
SlugFree(c, slug) == \A x \in LiveCats : tree[x].slug = slug => x = c
\* A reference a foreign key lets in.
Refers(c) == c = NoCat \/ c \in LiveCats

PutCategory(c, slug, parent) ==
    tree' = [tree EXCEPT ![c] = [life |-> "live", slug |-> slug, parent |-> parent]]
PgPutCategory(c, slug, parent) ==
    IF SlugFree(c, slug) /\ Refers(parent) THEN PutCategory(c, slug, parent) ELSE UNCHANGED tree
MgPutCategory(c, slug, parent) ==
    IF SlugFree(c, slug) THEN PutCategory(c, slug, parent) ELSE UNCHANGED tree
CreateCategory(slug, parent) ==
    \E c \in Cats :
        /\ tree[c].life = "unborn"
        /\ On(PgPutCategory(c, slug, parent), MgPutCategory(c, slug, parent))
StoreCategory(c, slug, parent) ==
    IF c \in LiveCats THEN On(PgPutCategory(c, slug, parent), MgPutCategory(c, slug, parent))
    ELSE UNCHANGED tree

\* ON DELETE SET NULL, in the children and in the products
PgDeleteCategory(c) ==
    /\ tree' = [x \in Cats |-> IF x = c THEN NoRow("deleted")
                               ELSE [tree[x] EXCEPT !.parent = IF @ = c THEN NoCat ELSE @]]
    /\ inCat' = [p \in CatProducts |-> [inCat[p] EXCEPT !.cat = IF @ = c THEN NoCat ELSE @]]
MgDeleteCategory(c) == tree' = [tree EXCEPT ![c] = NoRow("deleted")] /\ UNCHANGED inCat
RemoveCategory(c) == On(PgDeleteCategory(c), MgDeleteCategory(c))

PutProduct(p, c) == inCat' = [inCat EXCEPT ![p] = [life |-> "live", cat |-> c]]
PgPutProduct(p, c) == IF Refers(c) THEN PutProduct(p, c) ELSE UNCHANGED inCat
MgPutProduct(p, c) == PutProduct(p, c)

\* The products a filter selects.  On Postgres one without a category cannot be read: the
\* whole list fails.
PgListProducts(which) ==
    IF \E p \in LiveProducts : inCat[p].cat = NoCat /\ NoCat \in which
    THEN [ok |-> FALSE, products |-> {}]
    ELSE [ok |-> TRUE, products |-> {p \in LiveProducts : inCat[p].cat \in which}]
MgListProducts(which) ==
    [ok |-> TRUE, products |-> {p \in LiveProducts : inCat[p].cat \in which}]
ListProducts(which) == On(PgListProducts(which), MgListProducts(which))

-----------------------------------------------------------------------------
(* The commands.                                                           *)

CatTables == <<backend, tree, inCat>>
Reading == UNCHANGED <<CatTables, dirty, raced>>

Enter(r, job) == catJob[r].pc = "idle" /\ catJob' = [catJob EXCEPT ![r] = job]
CatGoto(r, pc) ==
    catJob' = [catJob EXCEPT ![r] = IF pc = "idle" THEN NoCatJob ELSE [@ EXCEPT !.pc = pc]]

\* A request writes: the others have checked what may no longer hold.
Wrote(r) ==
    /\ dirty' = {o \in Requests \ {r} : o \in dirty \/ catJob[o].pc # "idle"}
    /\ raced' = (raced \/ r \in dirty)
    /\ CatGoto(r, "idle")
\* A request ends and writes nothing.
Refused(r) == CatGoto(r, "idle") /\ dirty' = dirty \ {r} /\ UNCHANGED raced

SlugTaken(c, slug) == \E x \in ListCategories : tree[x].slug = slug /\ x # c

AfterSlug(parent) == IF parent = NoCat THEN "write" ELSE "parent"

\* `listed`: the categories could be read; a read that fails lets every slug pass.
AddCategory(r, slug, parent, listed) ==
    /\ listed => ~SlugTaken(NoCat, slug)
    /\ Enter(r, [NoCatJob EXCEPT !.pc = AfterSlug(parent), !.op = "add", !.slug = slug,
                                 !.parent = parent])

UpdateCategory(r, c, slug, parent, listed) ==
    /\ (listed => ~SlugTaken(c, slug)) /\ parent # c
    /\ Enter(r, [NoCatJob EXCEPT !.pc = AfterSlug(parent), !.op = "update", !.cat = c,
                                 !.slug = slug, !.parent = parent])

\* The parent exists; an update then walks up from it.
CheckParent(r) ==
    LET q == catJob[r] IN
    /\ q.pc = "parent"
    /\ IF CategoryByID(q.parent) = {} THEN Refused(r) /\ UNCHANGED CatTables
       ELSE /\ catJob' = [catJob EXCEPT ![r] =
                  IF q.op = "add" THEN [q EXCEPT !.pc = "write"]
                  ELSE [q EXCEPT !.pc = "walk", !.at = q.parent, !.visited = {q.cat}]]
            /\ Reading

\* Faulty variant: the walk looks no further than the parent.
CycleAtParent(r) ==
    LET q == catJob[r] IN
    /\ q.pc = "walk"
    /\ IF q.at \in q.visited THEN Refused(r) /\ UNCHANGED CatTables
       ELSE CatGoto(r, "write") /\ Reading
\* One step of the walk: refused where it has been, over at the top or at a missing category.
detectCategoryCycle(r) ==
    LET q == catJob[r] IN
    /\ q.pc = "walk"
    /\ IF q.at \in q.visited THEN Refused(r) /\ UNCHANGED CatTables
       ELSE /\ IF CategoryByID(q.at) = {} \/ tree[q.at].parent = NoCat THEN CatGoto(r, "write")
               ELSE catJob' = [catJob EXCEPT ![r].at = tree[q.at].parent,
                                             ![r].visited = @ \cup {q.at}]
            /\ Reading

WriteCategory(r) ==
    LET q == catJob[r] IN
    /\ q.pc = "write"
    /\ IF q.op = "add" THEN CreateCategory(q.slug, q.parent)
       ELSE StoreCategory(q.cat, q.slug, q.parent)
    /\ UNCHANGED <<backend, inCat>>
    /\ IF UNCHANGED tree THEN Refused(r) ELSE Wrote(r)

DeleteCategory(r, c) ==
    /\ ListProducts({c}).products = {}
    /\ Enter(r, [NoCatJob EXCEPT !.pc = "children", !.cat = c])
CheckChildren(r) ==
    LET q == catJob[r] IN
    /\ q.pc = "children"
    /\ IF Children(q.cat) # {} THEN Refused(r) /\ UNCHANGED CatTables
       ELSE CatGoto(r, "erase") /\ Reading
EraseCategory(r) ==
    /\ catJob[r].pc = "erase"
    /\ RemoveCategory(catJob[r].cat) /\ Wrote(r) /\ UNCHANGED backend

\* AddProduct and UpdateProduct: the category exists, then the product is written.
FileProduct(r, p, c) ==
    /\ CategoryByID(c) # {}
    /\ Enter(r, [NoCatJob EXCEPT !.pc = "store", !.op = "add", !.cat = c, !.product = {p}])
RefileProduct(r, p, c) ==
    /\ CategoryByID(c) # {}
    /\ Enter(r, [NoCatJob EXCEPT !.pc = "store", !.op = "update", !.cat = c, !.product = {p}])
\* An insert of a generated id, or an update of a product that may have gone.
StoreProduct(r) ==
    LET q == catJob[r] IN
    /\ q.pc = "store"
    /\ \E p \in q.product :
        IF inCat[p].life = IF q.op = "add" THEN "unborn" ELSE "live"
        THEN On(PgPutProduct(p, q.cat), MgPutProduct(p, q.cat)) ELSE UNCHANGED inCat
    /\ UNCHANGED <<backend, tree>>
    /\ IF UNCHANGED inCat THEN Refused(r) ELSE Wrote(r)
DeleteProduct(p) ==
    /\ p \in LiveProducts /\ inCat' = [inCat EXCEPT ![p] = [life |-> "deleted", cat |-> NoCat]]
    /\ UNCHANGED <<backend, tree, catJob, dirty, raced>>

\* A statement fails or the process stops.
FailCatalog(r) == catJob[r].pc # "idle" /\ Refused(r) /\ UNCHANGED CatTables

-----------------------------------------------------------------------------
(* Queries.                                                                *)

\* A category and everything under it, whatever loops the rows hold.
getCategoryDescendants(c) ==
    LET Below(S) == S \cup {x \in ListCategories : tree[x].parent \in S}
        down[n \in 0 .. Cardinality(Cats)] == IF n = 0 THEN {c} ELSE Below(down[n - 1])
    IN  down[Cardinality(Cats)]

\* The list of one category, or of all when none is given.
GetProducts(c) ==
    ListProducts(IF c = NoCat THEN Cats \cup {NoCat} ELSE getCategoryDescendants(c))

-----------------------------------------------------------------------------
(* The handlers.                                                           *)

HandleCreateCategory(r) ==
    \E s \in Slugs, p \in LiveCats \cup {NoCat}, listed \in BOOLEAN :
        /\ \E c \in Cats : tree[c].life = "unborn"
        /\ AddCategory(r, s, p, listed) /\ Reading
HandleUpdateCategory(r) ==
    \E c \in LiveCats, s \in Slugs, p \in LiveCats \cup {NoCat}, listed \in BOOLEAN :
        UpdateCategory(r, c, s, p, listed) /\ Reading
HandleDeleteCategory(r) == \E c \in LiveCats : DeleteCategory(r, c) /\ Reading
HandleCreateProduct(r) ==
    \E p \in CatProducts, c \in Cats : inCat[p].life = "unborn" /\ FileProduct(r, p, c) /\ Reading
HandleUpdateProduct(r) ==
    \E p \in LiveProducts, c \in Cats : RefileProduct(r, p, c) /\ Reading
HandleDeleteProduct == \E p \in CatProducts : DeleteProduct(p)
HandleListProducts(c) == GetProducts(c)

CategoriesNext ==
    \/ \E r \in Requests :
        \/ HandleCreateCategory(r) \/ HandleUpdateCategory(r) \/ HandleDeleteCategory(r)
        \/ HandleCreateProduct(r) \/ HandleUpdateProduct(r)
        \/ CheckParent(r) \/ detectCategoryCycle(r) \/ WriteCategory(r)
        \/ CheckChildren(r) \/ EraseCategory(r) \/ StoreProduct(r) \/ FailCatalog(r)
    \/ HandleDeleteProduct

CategoriesSpec == CategoriesInit /\ [][CategoriesNext]_categoriesVars

-----------------------------------------------------------------------------
(* Properties.                                                             *)

Parent(c) == IF c \in LiveCats THEN tree[c].parent ELSE NoCat
\* the categories above c, and c
Above(c) ==
    LET up[n \in 0 .. Cardinality(Cats)] == IF n = 0 THEN {c} ELSE up[n - 1] \cup {Parent(x) : x \in up[n - 1]}
    IN  up[Cardinality(Cats)] \ {NoCat}

\* no set of categories, such as the ones on a loop, that all have their parent in it
Acyclic == \A S \in SUBSET LiveCats : S # {} => \E c \in S : Parent(c) \notin S
NoneDangling ==
    /\ \A c \in LiveCats : Refers(tree[c].parent)
    /\ \A p \in LiveProducts : Refers(inCat[p].cat)
EveryProductFiled == \A p \in LiveProducts : inCat[p].cat \in LiveCats

\* The list of a category is that of the products filed at it or below it, also when the rows
\* form a loop.
CategoryAnswersOK ==
    \A c \in LiveCats :
        LET answer == HandleListProducts(c) IN
        /\ answer.ok
        /\ answer.products = {p \in LiveProducts : inCat[p].cat # NoCat /\ c \in Above(inCat[p].cat)}

CategoriesTypeOK ==
    /\ tree \in [Cats -> CatRow] /\ inCat \in [CatProducts -> ProductRow]
    /\ catJob \in [Requests -> CatJob] /\ dirty \subseteq Requests /\ raced \in BOOLEAN
    /\ CategoryAnswersOK

\* As long as no request has written after another one wrote under its checks, the categories
\* are a forest, no parent is missing, and every product is in a category that exists: the
\* checks of the commands are enough for requests one after the other.  Racing ones can close
\* a loop or delete a category that has just been filled; the foreign keys of Postgres still
\* leave no reference to a missing row, and slugs stay unique.
TreeSoundUnlessRaced ==
    /\ ~raced => Acyclic /\ NoneDangling /\ EveryProductFiled
    /\ backend = "postgres" => NoneDangling
    /\ \A c, d \in LiveCats : tree[c].slug = tree[d].slug => c = d
=============================================================================
