SPECIFICATION Spec
CONSTANTS
    Requests = {r1, r2}
    ShipOrders = {o1}
    Owner <- MCOwner
    TrackingNumbers = {t1}
    NoTracking = noTracking
    ShipProviders <- MCProviders
    OtherCarrier = "other"
    Packages <- MCPackages
    MaxShipments = 3
    MaxHistory = 3
    Customers = {c1, g1}
    NoCustomer = noCustomer
    CartVariants = {x1, x2}
    Quantities = {2}
    Stocks = {1, 3}
    Price <- MCPrice
    Discount <- MCDiscount
    MaxUnits = 3
    MaxLines = 1
    CartTTL = 0
    MaxDay = 1
    Cats = {k1, k2, k3}
    NoCat = noCat
    Slugs = {k1, k2, k3}
    NoSlug = noSlug
    CatProducts = {p1}
    Skus = {x1, x2}
    StockLevels = {0, 1}
    Discounts <- MCDiscounts
    NoDiscount = noDiscount
    MaxVariants = 2
    MaxImages = 2
    Reviewed = {i1}
    Reviewers = {x1, x2}
    Ratings = {0, 1, 5}
    MaxReviews = 2
SYMMETRY Symmetric
CONSTRAINT Bound
INVARIANTS
    TypeOK
    AnnouncedUnlessCut
    ShipmentsBounded
    LinesWithinLimits
    TreeSoundUnlessRaced
    ProductWellFormed
    DeletedReviewsStayDeleted
CHECK_DEADLOCK FALSE
