SPECIFICATION Spec
CONSTANTS
    r1 = r1
    r2 = r2
    local = local
    cloud = cloud
    other = other
    llama = llama
    opus = opus
    gpt = gpt
    home = home
    work = work
    Request = {r1, r2}
    Provider = {local, cloud, other}
    Local = {local}
    Profile = {home, work}
    Model = {llama, opus, gpt}
    Serves <- ServesAll
    Before <- SortsBefore
    Unset = Unset
    Unusable = Unusable
    Refused = Refused
    Unknown = Unknown
    Nobody = Nobody
    None = None
    OffProviders = {}
    DeploymentProfile = home
    DeploymentModel = opus
    MaxContentChars = 1
    RetentionHours = 1
    MaxPages = 1
    DefaultPages = 1
    TokenLife = 1
    TTL = 1
    MaxTime = 1
    MaxEdits = 1
    Bodies <- SomeBodies
    Lists <- SomeLists
    Unreliable = {cloud}
    Faults = {"outage", "refusing", "rejected", "keyring"}
SYMMETRY RequestSymmetry
INVARIANTS
    DisabledNeverAsked
    ProfileNeverGuessed
    CutForTheModelAsked
    OwnCredential
CHECK_DEADLOCK FALSE
