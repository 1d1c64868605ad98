SPECIFICATION Spec
CONSTANTS
    Subjects = {"shelf"}
    Off = Off
    NavScale = 100
    RateScale = 1000
    Navs = {125, 100, 385, 77}
    SubscriptionRates = {0, 8, 15}
    RedemptionRates = {0, 5}
    Amounts = {10000, 10017, 10333}
    Lots = {1, 777}
    MIN_ORDER_AMOUNT = 10000
    MaxOrders = 4
    Scale = 10000
    NoVol = NoVol
    Rounds = 22
    Drafts <- MCDrafts
    Budgets = {0, 1}
    MaxAttempts = 2
    A = A
    B = B
    Codes = {A, B}
    NoValue = NoValue
    Raws <- MCRaws
    Asks <- MCAsks
    Today = 303
    MinEligible = 2
    MaxCalls = 2
    T1 = T1
    T2 = T2
    Threads = {T1, T2}
    ToolRounds <- MCToolRounds
    Order <- MCOrder
    Configurations <- MCConfigurations
    Threshold = 2
    NoSource = NoSource
    Hosts <- MCHosts
    MaxRounds = 2
    MaxPages = 3
    MaxTotal = 4
    MaxRequests = 5
    ShelfCodes = {A, B}
    Columns <- MCColumns
    Figures <- MCFigures
    Requests <- MCRequests
    Admins = {T1}
    MaxEdits = 3
    NoProduct = NoProduct
    Null = Null
    FreshFrom = 5
    Turns = {T1, T2}
    Messages <- MCMessages
    Guesses <- MCGuesses
    Forms <- MCForms
    Options <- MCOptions
    Unset = Unset
    Domains = {"stock", "product"}
    Registered <- MCRegistered
    ChoiceFields = {"risk_preference"}
    Wishes = {{"stock_target", "product_reference"}, {"risk_preference"}}
    Readings = {{2679}}
    Asides = {{}, {9999}}
    Texts = {{}, {2680}}
    Submissions <- MCSubmissions
    Bare = Bare
    Junk = Junk
    NoDialog = NoDialog
    Abandoned = Abandoned
    MaxSteps = 2
    ClarifyRounds = 2
    Names = {"ann", "Ann"}
    Folded <- MCFolded
    Conversations = {A}
    Nobody = Nobody
    MaxAccounts = 2
    AuthAttempts = 2
    AuthWindow = 1
    TokenTtl = 1
    MaxClock = 1
PROPERTIES UnsentColumnsStay
CHECK_DEADLOCK FALSE
