SPECIFICATION Spec
CONSTANTS
    u1 = u1
    u2 = u2
    u3 = u3
    blog = blog
    shop = shop
    mail = mail
    example = example
    test = test
    Unset = Unset
    Unusable = Unusable
    Refused = Refused
    Unknown = Unknown
    None = None
    Absent = None
    Provider = {}
    Profile = {home}
    Model = {opus}
    OffProviders = {}
    DeploymentProfile = home
    DeploymentModel = opus
    MaxContentChars = 15
    RetentionHours = 1
    MaxPages = 2
    DefaultPages = 1
    MinContentChars = 2
    MinMeaningfulLine = 3
    ReservedTokens = 5
    CharsPerToken = 4
    Url = {u1, u2, u3}
    Domain = {example, shop, test}
    Host = {blog, shop, mail}
    HostOf <- HostOfAll
    Within <- WithinAll
    Persons <- SomePersons
    Blocked <- SomeBlocked
    Queries <- SomeQueries
    Pages <- SomePages
    Documents <- SomeDocuments
    Windows = {None, 5, 6, 7}
    Models <- SomeModels
    OtherAsks <- SomeAsks
    Refusals <- SomeRefusals
    Replies <- SomeReplies
INVARIANTS
    ResultsAsShown
    CitationsMatchResults
    CutAtTheEdge
    BodyAccepted
    IntentsKeptOrNoted
    RetriedOnceWithoutTheNamed
    ReplyNotLost
CHECK_DEADLOCK FALSE
