----------------------------- MODULE Preferences -----------------------------
(***************************************************************************)
(* What one person has chosen, inside what the deployment allows           *)
(* (src/app/services/preferences.py), and how a request's own choices meet *)
(* it (src/app/services/search/base.py, src/app/services/pipelines.py).    *)
(*                                                                         *)
(* settings-api answers with one value per key: a usable value, Unset      *)
(* (nobody has chosen, or an older settings-api without the key), Unusable *)
(* (a value of the wrong shape) or Refused (settings-api could not be      *)
(* asked and the key's value must not be guessed).  Only the two keys the  *)
(* code catches a refusal of are ever Refused.                             *)
(***************************************************************************)
EXTENDS Integers

CONSTANTS
    Provider, Profile, Model,
    Unset, Unusable, Refused,
    Unknown,             \* Python's None where the answer must not be guessed
    OffProviders,        \* disabled_providers, the operator's list
    DeploymentProfile,   \* keyring_default_profile
    DeploymentModel,     \* default_model
    MaxContentChars,     \* max_content_chars
    RetentionHours,      \* job_retention_seconds, counted in hours
    MaxPages,            \* MAX_PAGES_PER_QUERY
    DefaultPages         \* DEFAULT_PAGES_PER_QUERY

ASSUME PreferencesAssumption ==
    /\ Refused \notin {Unset, Unusable}
    /\ {Unset, Unusable, Refused, Unknown} \cap (Profile \cup Model \cup Provider) = {}
    /\ {Unset, Unusable, Refused, Unknown} \cap Nat = {}
    /\ \A list \in SUBSET Provider : list \notin {Unset, Unusable, Refused, Unknown}
    /\ OffProviders \subseteq Provider
    /\ DeploymentProfile \in Profile
    /\ DeploymentModel \in Model
    /\ MaxContentChars \in Nat \ {0}
    /\ RetentionHours \in Nat
    /\ MaxPages \in Nat \ {0}
    /\ DefaultPages \in 1 .. MaxPages

-------------------------------------------------------------------------------
\* SafeSearch, by how much it filters.
Off == 0
Moderate == 1
Strict == 2
SafeSearch == {Off, Moderate, Strict}

Least(m, n) == IF m <= n THEN m ELSE n
Most(m, n) == IF m >= n THEN m ELSE n

\* What settings-api may hold for a person, or answer in an outage.
Resolved ==
    [default_model : Model \cup {Unset, Unusable},
     max_content_chars : Nat \cup {Unset, Unusable},
     disabled_providers : {Unset, Unusable, Refused} \cup SUBSET Provider,
     job_retention_hours : Nat \cup {Unset, Unusable},
     default_profile : Profile \cup {Unset, Unusable, Refused},
     safe_search : SafeSearch \cup {Unset, Unusable},
     read_top_pages : Nat \cup {Unset, Unusable}]

\* What a request runs under.
Preference ==
    [default_model : Model,
     max_content_chars : 1 .. MaxContentChars,
     disabled_providers : {Unknown} \cup SUBSET Provider,
     job_retention_hours : Nat,
     default_profile : Profile \cup {Unknown},
     safe_search : SafeSearch \cup {Unset},
     read_top_pages : 0 .. MaxPages]

\* _whole_number and _text: a usable value, or what stands in for it.
Usable(value, values, otherwise) == IF value \in values THEN value ELSE otherwise

-------------------------------------------------------------------------------
\* deployment_preferences: what everybody gets when nobody's choices are known.
Deployment ==
    [default_model |-> DeploymentModel,
     max_content_chars |-> MaxContentChars,
     disabled_providers |-> OffProviders,
     job_retention_hours |-> RetentionHours,
     default_profile |-> DeploymentProfile,
     safe_search |-> Unset,
     read_top_pages |-> 0]

\* for_token when settings-api could not be asked.
DuringOutage ==
    [Deployment EXCEPT !.disabled_providers = Unknown,
                       !.default_profile = Unknown,
                       !.safe_search = Moderate]

\* Mutant: a refused list is read as an empty one.
DisabledProviders_Guessed(resolved) ==
    OffProviders \cup (IF resolved.disabled_providers \in {Unset, Unusable, Refused} THEN {}
                      ELSE resolved.disabled_providers)

\* _disabled_providers: the person's list and the operator's, or unknown.
DisabledProviders(resolved) ==
    IF resolved.disabled_providers = Refused THEN Unknown
    ELSE OffProviders \cup (IF resolved.disabled_providers \in {Unset, Unusable} THEN {}
                           ELSE resolved.disabled_providers)

\* _default_profile: this person's, the configuration's, or unknown.
DefaultProfile(resolved) ==
    IF resolved.default_profile = Refused THEN Unknown
    ELSE Usable(resolved.default_profile, Profile, DeploymentProfile)

\* _apply: one person's resolved namespace as what a request runs under.
Applied(resolved) ==
    [default_model |-> Usable(resolved.default_model, Model, DeploymentModel),
     max_content_chars |->
        Least(MaxContentChars, Usable(resolved.max_content_chars, Nat \ {0}, MaxContentChars)),
     disabled_providers |-> DisabledProviders(resolved),
     job_retention_hours |-> Usable(resolved.job_retention_hours, Nat, RetentionHours),
     default_profile |-> DefaultProfile(resolved),
     safe_search |-> Usable(resolved.safe_search, SafeSearch, Moderate),
     read_top_pages |-> Least(Usable(resolved.read_top_pages, Nat, 0), MaxPages)]

-------------------------------------------------------------------------------
\* SafeSearch.for_request: a request may ask for more filtering than the person
\* chose, never less.
ForRequest(requested, chosen) ==
    LET asked == IF requested = FALSE THEN Off ELSE Moderate
    IN  IF chosen = Unset THEN asked
        ELSE IF requested = Unset THEN chosen
        ELSE Most(asked, chosen)

\* _pages_to_read: how many result pages each query's summary is written from.
PagesToRead(fetchPages, maxPages, summarize, chosen) ==
    IF fetchPages = FALSE \/ (fetchPages = Unset /\ ~ (summarize /\ chosen > 0)) THEN 0
    ELSE IF maxPages # Unset THEN maxPages
    ELSE IF chosen > 0 THEN chosen
    ELSE DefaultPages
===============================================================================
