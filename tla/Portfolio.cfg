SPECIFICATION MCSpec
CONSTANTS
    p1 = p1
    p2 = p2
    k1 = k1
    k2 = k2
    c1 = c1
    c2 = c2
    c3 = c3
    c4 = c4
    c5 = c5
    c6 = c6
    c7 = c7
    c8 = c8
    c9 = c9
    Calls = {c1, c2, c3, c4, c5, c6, c7, c8, c9}
    Products = {p1, p2}
    Keys = {k1, k2}
    Op <- MCOp
    Navs = {3}
    NavScale = 2
    RateScale = 100
    SubscriptionRate = 10
    RedemptionRate = 5
    PORTFOLIO_MAX_DEPOSIT_AMOUNT = 60
    PORTFOLIO_MIN_ORDER_AMOUNT = 5
    NoKey = NoKey
    NoNav = NoNav
    Nobody = Nobody
INVARIANTS NoOverdraft LedgerExplainsCash BooksBalance TablesAgree AnsweredFromItsRow OncePerKey UndisturbedPanelAddsUp SomeoneCanGoOn
PROPERTY BookedAtomically
CHECK_DEADLOCK FALSE
