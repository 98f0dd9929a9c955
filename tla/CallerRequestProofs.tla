-------------------------- MODULE CallerRequestProofs --------------------------
(***************************************************************************)
(* Who a summarised request acts for, which providers it may contact and   *)
(* with which credential: for any number of requests, profiles, providers  *)
(* and models, any changes of settings and keys while they run, and any    *)
(* outage.                                                                 *)
(***************************************************************************)
EXTENDS CallerRequest, TLAPS

-------------------------------------------------------------------------------
(* What one person may choose. *)

\* Whatever settings-api holds, what a request runs under has its type: no more text than
\* the deployment allows, no page beyond the most (preferences.py, _apply).
LEMMA AppliedType ==
    ASSUME NEW resolved \in Resolved
    PROVE  Applied(resolved) \in Preference
<1> USE PreferencesAssumption
<1>1. Usable(resolved.default_model, Model, DeploymentModel) \in Model
    BY DEF Usable
<1>2. /\ Usable(resolved.max_content_chars, Nat \ {0}, MaxContentChars) \in Nat \ {0}
      /\ Usable(resolved.read_top_pages, Nat, 0) \in Nat
      /\ Usable(resolved.job_retention_hours, Nat, RetentionHours) \in Nat
    BY DEF Usable
<1>3. \A n \in Nat \ {0} : Least(MaxContentChars, n) \in 1 .. MaxContentChars
    BY DEF Least
<1>4. \A n \in Nat : Least(n, MaxPages) \in 0 .. MaxPages
    BY DEF Least
<1>5. DisabledProviders(resolved) \in {Unknown} \cup SUBSET Provider
    BY DEF DisabledProviders, Resolved
<1>6. DefaultProfile(resolved) \in Profile \cup {Unknown}
    BY DEF DefaultProfile, Usable
<1>7. Usable(resolved.safe_search, SafeSearch, Moderate) \in SafeSearch \cup {Unset}
    BY DEF Usable, SafeSearch, Moderate
<1>8. QED
    BY <1>1, <1>2, <1>3, <1>4, <1>5, <1>6, <1>7 DEF Applied, Preference

\* A person narrows what the deployment allows and never widens it: the operator's disabled
\* providers stay disabled and the text is no longer, and a list settings-api refuses is
\* taken for unknown and never for empty (preferences.py, _apply and _disabled_providers);
\* and a request's own wish never filters less than the person chose (base.py,
\* SafeSearch.for_request).
THEOREM ChoicesOnlyNarrow ==
    /\ \A resolved \in Resolved :
          /\ Applied(resolved).max_content_chars <= MaxContentChars
          /\ IF resolved.disabled_providers = Refused
             THEN Applied(resolved).disabled_providers = Unknown
             ELSE OffProviders \subseteq Applied(resolved).disabled_providers
    /\ \A requested \in BOOLEAN \cup {Unset}, chosen \in SafeSearch :
          ForRequest(requested, chosen) >= chosen
<1> USE PreferencesAssumption
<1>1. ASSUME NEW resolved \in Resolved
      PROVE  /\ Applied(resolved).max_content_chars <= MaxContentChars
             /\ IF resolved.disabled_providers = Refused
                THEN Applied(resolved).disabled_providers = Unknown
                ELSE OffProviders \subseteq Applied(resolved).disabled_providers
    <2>1. Applied(resolved) \in Preference
        BY AppliedType
    <2>2. Applied(resolved).disabled_providers = DisabledProviders(resolved)
        BY DEF Applied
    <2>3. QED
        BY <2>1, <2>2 DEF Preference, DisabledProviders
<1>2. ASSUME NEW requested \in BOOLEAN \cup {Unset}, NEW chosen \in SafeSearch
      PROVE  ForRequest(requested, chosen) >= chosen
    BY DEF ForRequest, SafeSearch, Most, Off, Moderate, Strict
<1>3. QED
    BY <1>1, <1>2

LEMMA DeploymentType ==
    /\ Deployment \in Preference
    /\ DuringOutage \in Preference
    /\ DuringOutage.default_profile = Unknown
    /\ DuringOutage.disabled_providers = Unknown
    /\ Deployment.disabled_providers = OffProviders
<1> USE PreferencesAssumption
<1>1. Deployment \in Preference /\ Deployment.disabled_providers = OffProviders
    BY DEF Deployment, Preference
<1>2. Moderate \in SafeSearch
    BY DEF Moderate, SafeSearch
<1>3. DuringOutage \in Preference
    BY <1>1, <1>2 DEF DuringOutage, Preference
<1>4. DuringOutage.default_profile = Unknown /\ DuringOutage.disabled_providers = Unknown
    BY DEF DuringOutage, Deployment
<1>5. QED
    BY <1>1, <1>3, <1>4

-------------------------------------------------------------------------------
(* The inductive invariant. *)

Live == {"submitting", "job_credential", "running", "completing", "credential"}

\* The providers not to be asked for a request.
Banned(r) == preferences[r].disabled_providers

\* They are a list the person had while the settings were read, and the operator's.
Known(r) ==
    \E list \in IF caller[r] = Nobody THEN {{}} ELSE meant[r].disabled :
        Banned(r) = OffProviders \cup list

\* Nothing is done for a request before its settings are read, and a chat ends it.
Beginning(r) ==
    /\ at[r] \in {"idle", "reading", "rereading"} => carried[r] = None /\ asked[r] = {}
    /\ at[r] \in {"idle", "reading"} => caller[r] = Nobody
    /\ at[r] = "rereading" => caller[r] \in Profile /\ made[r].profile = Unset
    /\ at[r] \in {"submitting", "job_credential"} => carried[r] = None
    /\ at[r] \notin Ended => sent[r] = None

\* A profile a request acts for was named by it, or was the person's.
Acting(r) ==
    caller[r] \in Profile =>
        IF made[r].profile # Unset THEN caller[r] = made[r].profile
        ELSE caller[r] \in meant[r].profiles

\* Providers are contacted only when the list is known, and none of the list.
Listed(r) ==
    /\ at[r] \in Live => Banned(r) = Unknown \/ Known(r)
    /\ at[r] \in Live \ {"running"} => Banned(r) # Unknown
    /\ asked[r] # {} \/ sent[r] # None => Known(r) /\ asked[r] \cap Banned(r) = {}
    /\ sent[r] # None => Serves[sent[r].model] \notin Banned(r)

\* The model a text was cut for is the one that was named, if one was, and allowed.
Chosen(r) ==
    /\ at[r] = "job_credential" => model[r] \in Model
    /\ at[r] \in {"completing", "credential"} =>
           /\ model[r] \in Model
           /\ Serves[model[r]] \notin Banned(r)
           /\ made[r].model # Unset => model[r] = made[r].model
    /\ sent[r] # None =>
           /\ sent[r].model = model[r]
           /\ made[r].model # Unset => model[r] = made[r].model

\* A credential is of the Caller's profile.
Credentialed(r) ==
    /\ carried[r] \notin {None, NoAuth} => carried[r].profile = caller[r] /\ caller[r] \in Profile
    /\ sent[r] # None /\ sent[r].auth # NoAuth =>
           sent[r].auth.profile = caller[r] /\ caller[r] \in Profile
    /\ sent[r] # None /\ carried[r] = None =>
           sent[r].auth = IF Serves[sent[r].model] \in Local THEN NoAuth
                          ELSE [provider |-> Serves[sent[r].model], profile |-> caller[r]]

Sound(r) == Beginning(r) /\ Acting(r) /\ Listed(r) /\ Chosen(r) /\ Credentialed(r)

\* A stored catalogue holds no model of a provider its key disables.
Cached ==
    \A key \in Caller \X SUBSET Provider :
        cached[key] # None => \A m \in cached[key].models : Serves[m] \notin key[2]

IInv == TypeOK /\ Cached /\ \A r \in Request : Sound(r)

-------------------------------------------------------------------------------
(* What the helpers return. *)

\* A request none of whose own state changes stays sound.
LEMMA OthersSound ==
    ASSUME NEW q \in Request, Sound(q),
           at'[q] = at[q], made'[q] = made[q], caller'[q] = caller[q],
           preferences'[q] = preferences[q], carried'[q] = carried[q], model'[q] = model[q],
           sent'[q] = sent[q], asked'[q] = asked[q], meant'[q] = meant[q]
    PROVE  Sound(q)'
<1>1. Beginning(q)' /\ Acting(q)'
    BY DEF Sound, Beginning, Acting
<1>2. Listed(q)'
    BY DEF Sound, Listed, Known, Banned
<1>3. Chosen(q)'
    BY DEF Sound, Chosen, Banned
<1>4. Credentialed(q)'
    BY DEF Sound, Credentialed
<1>5. QED
    BY <1>1, <1>2, <1>3, <1>4 DEF Sound

LEMMA Went ==
    ASSUME TypeOK, NEW r \in Request, NEW stage \in Stage, Go(r, stage)
    PROVE  /\ at' \in [Request -> Stage]
           /\ at'[r] = stage
           /\ \A q \in Request \ {r} : at'[q] = at[q]
BY DEF TypeOK, Go

\* The least of the models is one of them.
LEMMA FirstIsOne ==
    ASSUME NEW models \in SUBSET Model, models # {}
    PROVE  First(models) \in models
BY CallerRequestAssumption DEF First

\* A model is chosen only from the catalogue, and a named one is the one chosen.
LEMMA ResolveChooses ==
    ASSUME TypeOK, NEW r \in Request, NEW named \in Model \cup {Unset},
           NEW models \in SUBSET Model
    PROVE  LET m == Resolve(r, named, models)
           IN  /\ m \in Model \cup {"unavailable", "not_found"}
               /\ m \in Model => m \in models /\ (named # Unset => m = named)
               /\ m \notin Model => m \in Stage
BY FirstIsOne, CallerRequestAssumption DEF Resolve, Stage, Ended

\* A credential that is granted is of the Caller's profile and of the provider.
LEMMA GrantedCredential ==
    ASSUME TypeOK, NEW r \in Request, NEW p \in Provider, NEW broken,
           Keyring(r, p, broken) = "granted"
    PROVE  /\ CredentialFor(r, p) \in Credential \cup {NoAuth}
           /\ CredentialFor(r, p) = IF p \in Local THEN NoAuth
                                    ELSE [provider |-> p, profile |-> caller[r]]
           /\ CredentialFor(r, p) # NoAuth =>
                  CredentialFor(r, p).profile = caller[r] /\ caller[r] \in Profile
<1>1. CASE p \in Local
    BY <1>1 DEF CredentialFor
<1>2. CASE p \notin Local
    <2>1. caller[r] \in Profile
        BY <1>2 DEF Keyring, TypeOK, Caller
    <2>2. QED
        BY <1>2, <2>1 DEF CredentialFor, Credential, Cloud
<1>3. QED
    BY <1>1, <1>2

LEMMA KeyringAnswers ==
    ASSUME NEW r \in Request, NEW p, NEW broken
    PROVE  Keyring(r, p, broken) \in {"granted"} \cup Stage
BY DEF Keyring, Stage, Ended

\* A catalogue, stored or probed, holds no model of a banned provider, and none of them is
\* contacted for it.
LEMMA CatalogueAllowed ==
    ASSUME TypeOK, Cached, NEW r \in Request, Banned(r) \in SUBSET Provider,
           NEW models \in SUBSET Model, Catalogue(r, models)
    PROVE  /\ \A m \in models : Serves[m] \notin Banned(r)
           /\ cached' \in [Caller \X SUBSET Provider ->
                             [models : SUBSET Model, time : 0 .. MaxTime] \cup {None}]
           /\ Cached'
           /\ asked' \in [Request -> SUBSET Provider]
           /\ \A q \in Request \ {r} : asked'[q] = asked[q]
           /\ asked'[r] \cap Banned(r) = asked[r] \cap Banned(r)
<1> DEFINE k == CacheKey(r)
<1>1. k \in Caller \X SUBSET Provider /\ k[2] = Banned(r)
    BY DEF TypeOK, CacheKey, Banned
<1>2. CASE Fresh(k)
    <2>1. models = cached[k].models /\ cached' = cached /\ asked' = asked /\ cached[k] # None
        BY <1>2 DEF Catalogue, Fresh
    <2>2. QED
        BY <1>1, <2>1 DEF Cached, TypeOK
<1>3. CASE ~ Fresh(k)
    <2>1. PICK broken \in KeyringBroken, silent \in SUBSET Unreliable :
             /\ models = {m \in Model : Serves[m] \in Contacted(r, broken) \ silent}
             /\ cached' = [cached EXCEPT ![k] = [models |-> models, time |-> now]]
             /\ asked' = [asked EXCEPT ![r] = @ \cup Contacted(r, broken)]
        BY <1>3 DEF Catalogue
    <2>2. Contacted(r, broken) \subseteq Provider \ Banned(r)
        BY DEF Contacted, Probed, Banned
    <2>3. \A m \in models : Serves[m] \notin Banned(r)
        BY <2>1, <2>2
    <2>4. [models |-> models, time |-> now] \in [models : SUBSET Model, time : 0 .. MaxTime]
        BY DEF TypeOK
    <2>5. cached' \in [Caller \X SUBSET Provider ->
                         [models : SUBSET Model, time : 0 .. MaxTime] \cup {None}]
        BY <1>1, <2>1, <2>4 DEF TypeOK
    <2>6. Cached'
        <3> SUFFICES ASSUME NEW key \in Caller \X SUBSET Provider, cached'[key] # None,
                            NEW m \in cached'[key].models
                     PROVE  Serves[m] \notin key[2]
            BY DEF Cached
        <3> HIDE DEF k
        <3>1. CASE key = k
            <4>1. cached'[k] = [models |-> models, time |-> now]
                BY <1>1, <2>1 DEF TypeOK
            <4>2. m \in models
                BY <3>1, <4>1
            <4>3. QED
                BY <1>1, <2>3, <3>1, <4>2
        <3>2. CASE key # k
            <4>1. cached'[key] = cached[key]
                BY <2>1, <3>2 DEF TypeOK
            <4>2. QED
                BY <4>1 DEF Cached
        <3>3. QED
            BY <3>1, <3>2
    <2>7. QED
        BY <2>1, <2>2, <2>3, <2>5, <2>6 DEF TypeOK
<1>4. QED
    BY <1>2, <1>3

-------------------------------------------------------------------------------
(* The invariant holds at first and every step keeps it. *)

LEMMA InitIInv == Init => IInv
<1> SUFFICES ASSUME Init PROVE IInv
    OBVIOUS
<1> USE PreferencesAssumption, CallerRequestAssumption
<1>1. TypeOK
    <2>1. preferences \in [Request -> Preference]
        BY DeploymentType DEF Init
    <2>2. theirs \in [disabled : SUBSET Provider, profile : Profile \cup {Unset},
                     model : [Profile -> Model \cup {Unset}]]
        BY DEF Init
    <2>3. made \in [Request -> Made]
        BY DEF Init, Made
    <2>4. /\ at \in [Request -> Stage]
          /\ caller \in [Request -> Caller]
          /\ connected \in [Profile -> SUBSET Cloud]
          /\ meant \in [Request -> [disabled : SUBSET SUBSET Provider, profiles : SUBSET Profile]]
        BY DEF Init, Stage, Caller
    <2>5. QED
        BY <2>1, <2>2, <2>3, <2>4 DEF Init, TypeOK
<1>2. Cached
    BY DEF Init, Cached
<1>3. ASSUME NEW r \in Request PROVE Sound(r)
    BY DEF Init, Sound, Beginning, Acting, Listed, Live, Chosen, Credentialed, Ended
<1>4. QED
    BY <1>1, <1>2, <1>3 DEF IInv

\* A request comes in.
LEMMA ComeIInv ==
    ASSUME IInv, NEW r \in Request, NEW body \in Bodies, Come(r, body) PROVE IInv'
<1> USE PreferencesAssumption, CallerRequestAssumption
<1>1. TypeOK /\ Cached /\ \A q \in Request : Sound(q)
    BY DEF IInv
<1>2. PICK who \in {Nobody}, stage \in {"reading", "running", "submitting", "unauthorized",
                                         "unavailable"} :
         /\ Go(r, stage)
         /\ caller' = [caller EXCEPT ![r] = who]
         /\ preferences' = preferences \/ preferences' = [preferences EXCEPT ![r] = Deployment]
         /\ stage \in Live => preferences' = [preferences EXCEPT ![r] = Deployment]
    <2>1. at[r] = "idle" /\ caller = [caller EXCEPT ![r] = Nobody]
        BY <1>1 DEF Come, Sound, Beginning, TypeOK
    <2>2. QED
        BY <2>1 DEF Come, Route, Live
<1>3. at[r] = "idle" /\ stage \in Stage
    BY DEF Come, Stage, Ended
<1>4. /\ at' \in [Request -> Stage]
      /\ at'[r] = stage
      /\ \A q \in Request \ {r} : at'[q] = at[q]
    BY <1>1, <1>2, <1>3, Went
<1>5. /\ caller' \in [Request -> Caller] /\ caller'[r] = Nobody
      /\ preferences' \in [Request -> Preference]
      /\ stage \in Live => preferences'[r] = Deployment
      /\ \A q \in Request \ {r} : caller'[q] = caller[q] /\ preferences'[q] = preferences[q]
    BY <1>1, <1>2, DeploymentType DEF TypeOK, Caller
<1>6. /\ made' \in [Request -> Made]
      /\ \A q \in Request \ {r} : made'[q] = made[q]
    BY <1>1 DEF Come, TypeOK, Made
<1>7. UNCHANGED <<world, cached, carried, model, sent, asked, meant>>
    BY DEF Come
<1>8. TypeOK'
    BY <1>1, <1>4, <1>5, <1>6, <1>7 DEF TypeOK, world
<1>9. Cached'
    BY <1>1, <1>7 DEF Cached
<1>10. Sound(r)'
    <2>1. carried[r] = None /\ asked[r] = {} /\ sent[r] = None
        BY <1>1, <1>3 DEF Sound, Beginning, Ended
    <2>2. Known(r)' \/ stage \notin Live
        BY <1>5, DeploymentType DEF Known, Banned
    <2>3. Banned(r)' # Unknown \/ stage \notin Live
        BY <1>5, DeploymentType DEF Banned
    <2>4. QED
        BY <1>2, <1>4, <1>5, <1>7, <2>1, <2>2, <2>3
        DEF Sound, Beginning, Acting, Listed, Live, Chosen, Credentialed, Ended
<1>11. \A q \in Request : Sound(q)'
    BY <1>1, <1>4, <1>5, <1>6, <1>7, <1>10, OthersSound
<1>12. QED
    BY <1>8, <1>9, <1>11 DEF IInv

\* What settings-api answers, applied: unknown when it refuses, what the person holds when
\* it does not.
LEMMA AnswerApplied ==
    ASSUME TypeOK, NEW profile \in Profile \cup {Unset}, NEW refusing \in BOOLEAN
    PROVE  LET preference == Applied(Answer(profile, refusing))
           IN  /\ preference \in Preference
               /\ preference.disabled_providers =
                      IF refusing THEN Unknown ELSE OffProviders \cup theirs.disabled
               /\ preference.default_profile =
                      IF refusing THEN Unknown
                      ELSE Usable(theirs.profile, Profile, DeploymentProfile)
               /\ preference.default_profile = DefaultProfile(Answer(profile, refusing))
<1> USE PreferencesAssumption
<1>1. Answer(profile, refusing) \in Resolved
    BY DEF Answer, Resolved, TypeOK
<1>2. /\ Answer(profile, refusing).disabled_providers = IF refusing THEN Refused ELSE theirs.disabled
      /\ Answer(profile, refusing).default_profile = IF refusing THEN Refused ELSE theirs.profile
    BY DEF Answer
<1>3. theirs.disabled \notin {Unset, Unusable, Refused} /\ theirs.profile # Refused
    <2>1. theirs.disabled \in SUBSET Provider /\ theirs.profile \in Profile \cup {Unset}
        BY DEF TypeOK
    <2>2. QED
        BY <2>1
<1> DEFINE answer == Answer(profile, refusing)
<1> HIDE DEF answer
<1>4. /\ Applied(answer).disabled_providers = DisabledProviders(answer)
      /\ Applied(answer).default_profile = DefaultProfile(answer)
    BY DEF Applied
<1>5. /\ DisabledProviders(answer) = IF refusing THEN Unknown ELSE OffProviders \cup theirs.disabled
      /\ DefaultProfile(answer) = IF refusing THEN Unknown
                                  ELSE Usable(theirs.profile, Profile, DeploymentProfile)
    BY <1>2, <1>3 DEF answer, DisabledProviders, DefaultProfile
<1>6. QED
    BY <1>1, <1>4, <1>5, AppliedType DEF answer

\* for_token returns: the request is made for the profile it named, or else for one the
\* person had, and under a list the person had, or an unknown one.
LEMMA ServedIInv ==
    ASSUME IInv, NEW r \in Request, NEW preference \in Preference, Served(r, preference),
           at[r] \in {"reading", "rereading"},
           UNCHANGED <<world, cached, made, carried, model, sent, asked>>,
           meant' \in [Request -> [disabled : SUBSET SUBSET Provider, profiles : SUBSET Profile]],
           \A q \in Request \ {r} : meant'[q] = meant[q],
           \/ preference.disabled_providers = Unknown
           \/ \E list \in meant'[r].disabled :
                 preference.disabled_providers = OffProviders \cup list,
           \/ preference.default_profile = Unknown
           \/ preference.default_profile \in meant'[r].profiles
    PROVE  IInv'
<1> USE PreferencesAssumption, CallerRequestAssumption
<1> DEFINE who == CallerProfile(r, preference)
           stage == IF ~ made[r].background \/ who = Nobody THEN "running"
                    ELSE IF preference.disabled_providers = Unknown THEN "unavailable"
                    ELSE "submitting"
<1>1. TypeOK /\ Cached /\ \A q \in Request : Sound(q)
    BY DEF IInv
<1>2. /\ who \in Profile \cup {Unknown} /\ who # Nobody
      /\ made[r].profile # Unset => who = made[r].profile
      /\ made[r].profile = Unset => who = preference.default_profile
    BY <1>1 DEF CallerProfile, TypeOK, Made, Preference
<1>3. /\ Go(r, stage)
      /\ caller' = [caller EXCEPT ![r] = who]
      /\ preferences' = [preferences EXCEPT ![r] = preference]
    BY DEF Served, Route
<1>4. stage \in Stage /\ stage \in {"running", "unavailable", "submitting"}
      /\ (stage = "submitting" => preference.disabled_providers # Unknown)
    BY DEF Stage, Ended
<1> HIDE DEF who, stage
<1>5. /\ at' \in [Request -> Stage]
      /\ at'[r] = stage
      /\ \A q \in Request \ {r} : at'[q] = at[q]
    BY <1>1, <1>3, <1>4, Went
<1>6. /\ caller' \in [Request -> Caller] /\ caller'[r] = who
      /\ preferences' \in [Request -> Preference] /\ preferences'[r] = preference
      /\ \A q \in Request \ {r} : caller'[q] = caller[q] /\ preferences'[q] = preferences[q]
    BY <1>1, <1>2, <1>3 DEF TypeOK, Caller
<1>7. TypeOK'
    BY <1>1, <1>5, <1>6 DEF TypeOK, world
<1>8. Cached'
    BY <1>1 DEF Cached
<1>9. Sound(r)'
    <2>1. carried[r] = None /\ asked[r] = {} /\ sent[r] = None
        BY <1>1 DEF Sound, Beginning, Ended
    <2>2. Banned(r)' = Unknown \/ Known(r)'
        BY <1>2, <1>6 DEF Known, Banned
    <2>3. stage = "submitting" => Banned(r)' # Unknown
        BY <1>4, <1>6 DEF Banned
    <2>4. Acting(r)'
        BY <1>1, <1>2, <1>6 DEF Acting, TypeOK, Made
    <2>5. QED
        BY <1>4, <1>5, <2>1, <2>2, <2>3, <2>4
        DEF Sound, Beginning, Listed, Live, Chosen, Credentialed, Ended
<1>10. \A q \in Request : Sound(q)'
    BY <1>1, <1>5, <1>6, <1>9, OthersSound
<1>11. QED
    BY <1>7, <1>8, <1>10 DEF IInv

\* What the person holds is noted.
LEMMA NotedType ==
    ASSUME TypeOK, NEW r \in Request, Noted(r)
    PROVE  /\ meant' \in [Request -> [disabled : SUBSET SUBSET Provider, profiles : SUBSET Profile]]
           /\ \A q \in Request \ {r} : meant'[q] = meant[q]
           /\ theirs.disabled \in meant'[r].disabled
           /\ Usable(theirs.profile, Profile, DeploymentProfile) \in meant'[r].profiles
BY PreferencesAssumption DEF TypeOK, Noted, Usable

\* The settings cannot be read.
LEMMA ReadFailsIInv ==
    ASSUME IInv, NEW r \in Request, at[r] \in {"reading", "rereading"}, ReadFails(r),
           UNCHANGED <<world, cached, made, carried, model, sent, asked, meant>>
    PROVE  IInv'
<1>1. TypeOK /\ Cached /\ \A q \in Request : Sound(q)
    BY DEF IInv
<1>2. CASE Served(r, DuringOutage)
    <2>1. /\ meant' \in [Request -> [disabled : SUBSET SUBSET Provider, profiles : SUBSET Profile]]
          /\ \A q \in Request \ {r} : meant'[q] = meant[q]
        BY <1>1 DEF TypeOK
    <2>2. UNCHANGED <<world, cached, made, carried, model, sent, asked>>
        OBVIOUS
    <2>3. QED
        BY <1>2, <2>1, <2>2, ServedIInv, DeploymentType
<1>3. CASE Go(r, "unavailable") /\ UNCHANGED <<caller, preferences>>
    <2>1. /\ at' \in [Request -> Stage]
          /\ at'[r] = "unavailable"
          /\ \A q \in Request \ {r} : at'[q] = at[q]
        BY <1>1, <1>3, Went DEF Stage, Ended
    <2>2. TypeOK' /\ Cached'
        BY <1>1, <1>3, <2>1 DEF TypeOK, Cached, world
    <2>3. Sound(r)'
        BY <1>1, <1>3, <2>1
        DEF Sound, Beginning, Acting, Listed, Known, Banned, Live, Chosen, Credentialed, Ended
    <2>4. \A q \in Request : Sound(q)'
        BY <1>1, <1>3, <2>1, <2>3, OthersSound
    <2>5. QED
        BY <2>2, <2>4 DEF IInv
<1>4. QED
    BY <1>2, <1>3 DEF ReadFails

LEMMA ReadIInv ==
    ASSUME IInv, NEW r \in Request, Read(r) PROVE IInv'
<1> USE PreferencesAssumption, CallerRequestAssumption
<1>1. TypeOK /\ Cached /\ \A q \in Request : Sound(q)
    BY DEF IInv
<1>2. at[r] = "reading" /\ UNCHANGED <<world, cached, made, carried, model, sent, asked>>
    BY DEF Read
<1>3. ASSUME NEW refusing \in BOOLEAN,
             IF refusing THEN UNCHANGED meant ELSE Noted(r),
             LET answer == Answer(made[r].profile, refusing)
             IN  IF ReadAgain(r, answer)
                 THEN /\ caller' = [caller EXCEPT ![r] = DefaultProfile(answer)]
                      /\ Go(r, "rereading")
                      /\ UNCHANGED preferences
                 ELSE Served(r, Applied(answer))
      PROVE  IInv'
    <2> DEFINE answer == Answer(made[r].profile, refusing)
    <2>1. /\ Applied(answer) \in Preference
          /\ Applied(answer).disabled_providers =
                 IF refusing THEN Unknown ELSE OffProviders \cup theirs.disabled
          /\ Applied(answer).default_profile =
                 IF refusing THEN Unknown ELSE Usable(theirs.profile, Profile, DeploymentProfile)
          /\ Applied(answer).default_profile = DefaultProfile(answer)
        <3>1. made[r].profile \in Profile \cup {Unset}
            BY <1>1 DEF TypeOK, Made
        <3>2. QED
            BY <1>1, <3>1, AnswerApplied
    <2>2. /\ meant' \in [Request -> [disabled : SUBSET SUBSET Provider, profiles : SUBSET Profile]]
          /\ \A q \in Request \ {r} : meant'[q] = meant[q]
          /\ ~ refusing => /\ theirs.disabled \in meant'[r].disabled
                           /\ Usable(theirs.profile, Profile, DeploymentProfile)
                                  \in meant'[r].profiles
        <3>1. CASE refusing
            BY <1>1, <1>3, <3>1 DEF TypeOK
        <3>2. CASE ~ refusing
            BY <1>1, <1>3, <3>2, NotedType
        <3>3. QED
            BY <3>1, <3>2
    <2>3. CASE ReadAgain(r, answer)
        <3>1. /\ made[r].profile = Unset
              /\ DefaultProfile(answer) \in Profile
              /\ DefaultProfile(answer) \in meant'[r].profiles
            BY <2>1, <2>2, <2>3 DEF ReadAgain, Preference
        <3>2. /\ caller' = [caller EXCEPT ![r] = DefaultProfile(answer)]
              /\ Go(r, "rereading")
              /\ UNCHANGED preferences
            BY <1>3, <2>3
        <3> HIDE DEF answer
        <3>3. /\ at' \in [Request -> Stage]
              /\ at'[r] = "rereading"
              /\ \A q \in Request \ {r} : at'[q] = at[q]
            BY <1>1, <3>2, Went DEF Stage
        <3>4. TypeOK'
            BY <1>1, <1>2, <2>2, <3>1, <3>2, <3>3 DEF TypeOK, Caller, world
        <3>5. Cached'
            BY <1>1, <1>2 DEF Cached
        <3>6. Sound(r)'
            BY <1>1, <1>2, <3>1, <3>2, <3>3
            DEF TypeOK, Sound, Beginning, Acting, Listed, Live, Chosen, Credentialed, Ended
        <3>7. \A q \in Request \ {r} : Sound(q)'
            <4>1. \A q \in Request \ {r} : caller'[q] = caller[q]
                BY <1>1, <3>2 DEF TypeOK
            <4>2. QED
                BY <1>1, <1>2, <2>2, <3>2, <3>3, <4>1, OthersSound
        <3>8. QED
            BY <3>4, <3>5, <3>6, <3>7 DEF IInv
    <2>4. CASE ~ ReadAgain(r, answer)
        <3>1. Served(r, Applied(answer))
            BY <1>3, <2>4
        <3> HIDE DEF answer
        <3>2. QED
            BY <1>2, <2>1, <2>2, <3>1, ServedIInv
    <2>5. QED
        BY <2>3, <2>4
<1>4. CASE ReadFails(r) /\ UNCHANGED meant
    BY <1>2, <1>4, ReadFailsIInv
<1>5. QED
    BY <1>3, <1>4 DEF Read

LEMMA RereadIInv ==
    ASSUME IInv, NEW r \in Request, Reread(r) PROVE IInv'
<1>1. TypeOK /\ Cached /\ \A q \in Request : Sound(q)
    BY DEF IInv
<1>2. at[r] = "rereading" /\ UNCHANGED <<world, cached, made, carried, model, sent, asked>>
    BY DEF Reread
<1>3. ASSUME NEW refusing \in BOOLEAN,
             IF refusing THEN UNCHANGED meant ELSE Noted(r),
             Served(r, Applied(Answer(caller[r], refusing)))
      PROVE  IInv'
    <2> DEFINE preference == Applied(Answer(caller[r], refusing))
    <2>1. /\ preference \in Preference
          /\ preference.disabled_providers =
                 IF refusing THEN Unknown ELSE OffProviders \cup theirs.disabled
          /\ preference.default_profile =
                 IF refusing THEN Unknown ELSE Usable(theirs.profile, Profile, DeploymentProfile)
        <3>1. caller[r] \in Profile
            BY <1>1, <1>2 DEF Sound, Beginning
        <3>2. QED
            BY <1>1, <3>1, AnswerApplied
    <2>2. /\ meant' \in [Request -> [disabled : SUBSET SUBSET Provider, profiles : SUBSET Profile]]
          /\ \A q \in Request \ {r} : meant'[q] = meant[q]
          /\ ~ refusing => /\ theirs.disabled \in meant'[r].disabled
                           /\ Usable(theirs.profile, Profile, DeploymentProfile)
                                  \in meant'[r].profiles
        <3>1. CASE refusing
            BY <1>1, <1>3, <3>1 DEF TypeOK
        <3>2. CASE ~ refusing
            BY <1>1, <1>3, <3>2, NotedType
        <3>3. QED
            BY <3>1, <3>2
    <2>3. Served(r, preference)
        BY <1>3
    <2> HIDE DEF preference
    <2>4. QED
        BY <1>2, <2>1, <2>2, <2>3, ServedIInv
<1>4. CASE ReadFails(r) /\ UNCHANGED meant
    BY <1>2, <1>4, ReadFailsIInv
<1>5. QED
    BY <1>3, <1>4 DEF Reread

\* A step of one request that leaves who it acts for alone keeps the invariant, if it keeps
\* the types, the stored catalogues and what is sound of that request.
LEMMA StepIInv ==
    ASSUME IInv, NEW r \in Request,
           UNCHANGED <<world, made, caller, preferences, meant>>,
           at' \in [Request -> Stage],
           \A q \in Request \ {r} :
               /\ at'[q] = at[q] /\ carried'[q] = carried[q] /\ model'[q] = model[q]
               /\ sent'[q] = sent[q] /\ asked'[q] = asked[q],
           carried' \in [Request -> Credential \cup {NoAuth, None}],
           model' \in [Request -> Model \cup {None}],
           sent' \in [Request -> [model : Model, auth : Credential \cup {NoAuth}] \cup {None}],
           cached' \in [Caller \X SUBSET Provider ->
                           [models : SUBSET Model, time : 0 .. MaxTime] \cup {None}],
           asked' \in [Request -> SUBSET Provider],
           Cached', Sound(r)'
    PROVE  IInv'
<1>1. TypeOK'
    BY DEF IInv, TypeOK, world
<1>2. \A q \in Request : Sound(q)'
    BY OthersSound DEF IInv
<1>3. QED
    BY <1>1, <1>2 DEF IInv

\* A chat ends the request and is what was sent.
LEMMA ChatSent ==
    ASSUME TypeOK, NEW r \in Request, NEW m \in Model, NEW auth \in Credential \cup {NoAuth},
           Chat(r, m, auth)
    PROVE  /\ at' \in [Request -> Stage] /\ at'[r] \in {"answered", "unavailable"}
           /\ \A q \in Request \ {r} : at'[q] = at[q] /\ sent'[q] = sent[q]
           /\ sent' \in [Request -> [model : Model, auth : Credential \cup {NoAuth}] \cup {None}]
           /\ sent'[r] = [model |-> m, auth |-> auth]
<1>1. PICK stage \in {"answered", "unavailable"} : Go(r, stage)
    BY DEF Chat
<1>2. stage \in Stage
    BY DEF Stage, Ended
<1>3. QED
    BY <1>1, <1>2, Went DEF Chat, TypeOK

\* The model of a job is looked up, for its credential.
LEMMA SubmitIInv ==
    ASSUME IInv, NEW r \in Request, Submit(r) PROVE IInv'
<1> USE PreferencesAssumption, CallerRequestAssumption
<1>1. TypeOK /\ Cached /\ Sound(r)
    BY DEF IInv
<1>2. /\ at[r] = "submitting" /\ carried[r] = None /\ sent[r] = None
      /\ UNCHANGED <<world, made, caller, preferences, sent, meant>>
    BY <1>1 DEF Submit, Sound, Beginning, Ended
<1>3. Banned(r) \in SUBSET Provider /\ Known(r)
    BY <1>1, <1>2 DEF Sound, Listed, Live, Banned, TypeOK, Preference
<1>4. PICK models \in SUBSET Model :
         /\ Catalogue(r, models)
         /\ LET m == Resolve(r, made[r].model, models)
            IN  IF m \notin Model
                THEN Go(r, m) /\ UNCHANGED <<carried, model>>
                ELSE IF Serves[m] \in Local
                THEN /\ carried' = [carried EXCEPT ![r] = NoAuth]
                     /\ Go(r, "running")
                     /\ UNCHANGED model
                ELSE /\ model' = [model EXCEPT ![r] = m]
                     /\ Go(r, "job_credential")
                     /\ UNCHANGED carried
    BY DEF Submit
<1> DEFINE m == Resolve(r, made[r].model, models)
<1>5. /\ cached' \in [Caller \X SUBSET Provider ->
                        [models : SUBSET Model, time : 0 .. MaxTime] \cup {None}]
      /\ Cached'
      /\ asked' \in [Request -> SUBSET Provider]
      /\ \A q \in Request \ {r} : asked'[q] = asked[q]
      /\ asked'[r] \cap Banned(r) = {}
    <2>1. asked[r] \cap Banned(r) = {}
        BY <1>1 DEF Sound, Listed
    <2>2. QED
        BY <1>1, <1>3, <1>4, <2>1, CatalogueAllowed
<1>6. m \in Model \/ m \in {"unavailable", "not_found"}
    BY <1>1, <1>4, ResolveChooses DEF TypeOK, Made
<1> HIDE DEF m
<1>7. \/ m \in Stage /\ m \in Ended /\ Go(r, m) /\ UNCHANGED <<carried, model>>
      \/ carried' = [carried EXCEPT ![r] = NoAuth] /\ Go(r, "running") /\ UNCHANGED model
      \/ /\ m \in Model /\ model' = [model EXCEPT ![r] = m]
         /\ Go(r, "job_credential") /\ UNCHANGED carried
    BY <1>4, <1>6 DEF m, Stage, Ended
<1>8. PICK stage \in Stage : Go(r, stage)
    BY <1>7 DEF Stage
<1>9. /\ at' \in [Request -> Stage] /\ at'[r] = stage
      /\ \A q \in Request \ {r} : at'[q] = at[q]
    BY <1>1, <1>8, Went
<1>10. /\ carried' \in [Request -> Credential \cup {NoAuth, None}]
       /\ model' \in [Request -> Model \cup {None}]
       /\ \A q \in Request \ {r} : carried'[q] = carried[q] /\ model'[q] = model[q]
    BY <1>1, <1>7 DEF TypeOK
<1>11. \/ at'[r] \in Ended /\ carried'[r] = None
       \/ at'[r] = "running" /\ carried'[r] \in {None, NoAuth}
       \/ at'[r] = "job_credential" /\ carried'[r] = None /\ model'[r] \in Model
    BY <1>1, <1>2, <1>7, Went DEF TypeOK, Stage, Ended
<1>12. Banned(r)' = Banned(r) /\ Known(r)' /\ Banned(r) # Unknown
    BY <1>2, <1>3 DEF Banned, Known
<1>13. Sound(r)'
    <2>1. Beginning(r)'
        BY <1>2, <1>11 DEF Beginning, Ended
    <2>2. Acting(r)'
        BY <1>1, <1>2 DEF Sound, Acting
    <2>3. Listed(r)'
        BY <1>2, <1>5, <1>12 DEF Listed
    <2>4. Chosen(r)' /\ Credentialed(r)'
        BY <1>2, <1>11 DEF Chosen, Credentialed, Ended
    <2>5. QED
        BY <2>1, <2>2, <2>3, <2>4 DEF Sound
<1>14. QED
    BY <1>1, <1>2, <1>5, <1>9, <1>10, <1>13, StepIInv DEF TypeOK

\* The job's credential is resolved.
LEMMA ResolveJobAuthIInv ==
    ASSUME IInv, NEW r \in Request, ResolveJobAuth(r) PROVE IInv'
<1> USE PreferencesAssumption, CallerRequestAssumption
<1>1. TypeOK /\ Cached /\ Sound(r)
    BY DEF IInv
<1>2. /\ at[r] = "job_credential" /\ carried[r] = None /\ sent[r] = None
      /\ model[r] \in Model /\ Known(r) /\ Banned(r) # Unknown
      /\ UNCHANGED <<world, cached, made, caller, preferences, sent, asked, meant>>
      /\ model' = [model EXCEPT ![r] = None]
    BY <1>1 DEF ResolveJobAuth, Sound, Beginning, Chosen, Listed, Live, Ended
<1>3. PICK broken \in KeyringBroken :
         LET answer == Keyring(r, Serves[model[r]], broken)
         IN  IF answer = "granted"
             THEN /\ carried' = [carried EXCEPT ![r] = CredentialFor(r, Serves[model[r]])]
                  /\ Go(r, "running")
             ELSE Go(r, answer) /\ UNCHANGED carried
    BY DEF ResolveJobAuth
<1> DEFINE answer == Keyring(r, Serves[model[r]], broken)
<1>4. answer \in {"granted", "not_found", "unavailable", "unauthorized"}
    BY DEF Keyring
<1>5. answer = "granted" =>
         /\ CredentialFor(r, Serves[model[r]]) \in Credential \cup {NoAuth}
         /\ CredentialFor(r, Serves[model[r]]) # NoAuth =>
               /\ CredentialFor(r, Serves[model[r]]).profile = caller[r]
               /\ caller[r] \in Profile
    BY <1>1, <1>2, GrantedCredential
<1> HIDE DEF answer
<1>6. PICK stage \in Stage :
         /\ Go(r, stage)
         /\ stage = "running" \/ stage \in Ended
         /\ \/ carried' = carried
            \/ answer = "granted"
               /\ carried' = [carried EXCEPT ![r] = CredentialFor(r, Serves[model[r]])]
    BY <1>3, <1>4 DEF answer, Stage, Ended
<1>7. /\ at' \in [Request -> Stage] /\ at'[r] = stage
      /\ \A q \in Request \ {r} : at'[q] = at[q]
    BY <1>1, <1>6, Went
<1>8. /\ carried' \in [Request -> Credential \cup {NoAuth, None}]
      /\ model' \in [Request -> Model \cup {None}]
      /\ \A q \in Request \ {r} : carried'[q] = carried[q] /\ model'[q] = model[q]
      /\ carried'[r] \notin {None, NoAuth} =>
             carried'[r].profile = caller[r] /\ caller[r] \in Profile
    BY <1>1, <1>2, <1>5, <1>6 DEF TypeOK
<1>9. Cached'
    BY <1>1, <1>2 DEF Cached
<1>10. Sound(r)'
    <2>1. Beginning(r)'
        BY <1>2, <1>6, <1>7 DEF Beginning, Ended
    <2>2. Acting(r)'
        BY <1>1, <1>2 DEF Sound, Acting
    <2>3. Listed(r)'
        BY <1>1, <1>2, <1>6, <1>7 DEF Sound, Listed, Banned, Known, Live, Ended
    <2>4. Chosen(r)' /\ Credentialed(r)'
        BY <1>2, <1>6, <1>7, <1>8 DEF Chosen, Credentialed, Ended
    <2>5. QED
        BY <2>1, <2>2, <2>3, <2>4 DEF Sound
<1>11. QED
    BY <1>1, <1>2, <1>7, <1>8, <1>9, <1>10, StepIInv DEF TypeOK

\* The text is cut for a model that the catalogue has.
LEMMA SummarizeIInv ==
    ASSUME IInv, NEW r \in Request, Summarize(r) PROVE IInv'
<1> USE PreferencesAssumption, CallerRequestAssumption
<1>1. TypeOK /\ Cached /\ Sound(r)
    BY DEF IInv
<1>2. /\ at[r] = "running" /\ sent[r] = None
      /\ UNCHANGED <<world, made, caller, preferences, carried, sent, meant>>
    BY <1>1 DEF Summarize, Sound, Beginning, Ended
<1>3. CASE Banned(r) = Unknown
    <2>1. Go(r, "unavailable") /\ UNCHANGED <<cached, asked, model>>
        BY <1>3 DEF Summarize, Banned
    <2>2. /\ at' \in [Request -> Stage] /\ at'[r] = "unavailable"
          /\ \A q \in Request \ {r} : at'[q] = at[q]
        BY <1>1, <2>1, Went DEF Stage, Ended
    <2>3. Cached'
        BY <1>1, <2>1 DEF Cached
    <2>4. Sound(r)'
        BY <1>1, <1>2, <2>1, <2>2
        DEF Sound, Beginning, Acting, Listed, Known, Banned, Live, Chosen, Credentialed, Ended
    <2>5. QED
        BY <1>1, <1>2, <2>1, <2>2, <2>3, <2>4, StepIInv DEF TypeOK
<1>4. CASE Banned(r) # Unknown
    <2>1. PICK models \in SUBSET Model :
             /\ Catalogue(r, models)
             /\ LET m == Resolve(r, made[r].model, models)
                IN  IF m \notin Model
                    THEN Go(r, m) /\ UNCHANGED model
                    ELSE \/ Go(r, "empty") /\ UNCHANGED model
                         \/ Go(r, "completing") /\ model' = [model EXCEPT ![r] = m]
        BY <1>4 DEF Summarize, Banned
    <2> DEFINE m == Resolve(r, made[r].model, models)
    <2>2. Banned(r) \in SUBSET Provider /\ Known(r)
        BY <1>1, <1>2, <1>4 DEF Sound, Listed, Live, Banned, TypeOK, Preference
    <2>3. /\ \A x \in models : Serves[x] \notin Banned(r)
          /\ cached' \in [Caller \X SUBSET Provider ->
                            [models : SUBSET Model, time : 0 .. MaxTime] \cup {None}]
          /\ Cached'
          /\ asked' \in [Request -> SUBSET Provider]
          /\ \A q \in Request \ {r} : asked'[q] = asked[q]
          /\ asked'[r] \cap Banned(r) = {}
        <3>1. asked[r] \cap Banned(r) = {}
            BY <1>1 DEF Sound, Listed
        <3>2. QED
            BY <1>1, <2>1, <2>2, <3>1, CatalogueAllowed
    <2>4. /\ m \in Model \/ m \in {"unavailable", "not_found"}
          /\ m \in Model => m \in models /\ (made[r].model # Unset => m = made[r].model)
        BY <1>1, <2>1, ResolveChooses DEF TypeOK, Made
    <2>5. m \in Model => Serves[m] \notin Banned(r)
        BY <2>3, <2>4
    <2> HIDE DEF m
    <2>6. PICK stage \in Stage :
             /\ Go(r, stage)
             /\ \/ stage \in Ended /\ model' = model
                \/ stage = "completing" /\ m \in Model /\ model' = [model EXCEPT ![r] = m]
        BY <2>1, <2>4 DEF m, Stage, Ended
    <2>7. /\ at' \in [Request -> Stage] /\ at'[r] = stage
          /\ \A q \in Request \ {r} : at'[q] = at[q]
        BY <1>1, <2>6, Went
    <2>8. /\ model' \in [Request -> Model \cup {None}]
          /\ \A q \in Request \ {r} : model'[q] = model[q]
          /\ stage = "completing" => m \in Model /\ model'[r] = m
        BY <1>1, <2>6 DEF TypeOK, Ended
    <2>9. Banned(r)' = Banned(r) /\ Known(r)'
        BY <1>2, <2>2 DEF Banned, Known
    <2>10. Sound(r)'
        <3>1. Beginning(r)' /\ Acting(r)' /\ Credentialed(r)'
            BY <1>1, <1>2, <2>6, <2>7 DEF Sound, Beginning, Acting, Credentialed, Ended
        <3>2. Listed(r)'
            BY <1>2, <1>4, <2>3, <2>9 DEF Listed
        <3>3. Chosen(r)'
            BY <1>2, <2>4, <2>5, <2>6, <2>7, <2>8, <2>9 DEF Chosen, Ended
        <3>4. QED
            BY <3>1, <3>2, <3>3 DEF Sound
    <2>11. QED
        BY <1>1, <1>2, <2>3, <2>7, <2>8, <2>10, StepIInv DEF TypeOK
<1>5. QED
    BY <1>3, <1>4

\* A chat that is sent to an allowed model, with a credential of the Caller's, is sound.
LEMMA ChatSound ==
    ASSUME TypeOK, NEW r \in Request, Sound(r),
           at[r] \in {"completing", "credential"},
           UNCHANGED <<made, caller, preferences, carried, model, meant>>,
           asked'[r] \cap Banned(r) = {},
           NEW auth \in Credential \cup {NoAuth},
           auth # NoAuth => auth.profile = caller[r] /\ caller[r] \in Profile,
           carried[r] = None =>
               auth = IF Serves[model[r]] \in Local THEN NoAuth
                      ELSE [provider |-> Serves[model[r]], profile |-> caller[r]],
           Chat(r, model[r], auth)
    PROVE  Sound(r)'
<1>1. /\ model[r] \in Model /\ Serves[model[r]] \notin Banned(r)
      /\ made[r].model # Unset => model[r] = made[r].model
      /\ Known(r)
    BY DEF Sound, Chosen, Listed, Live
<1>2. at'[r] \in {"answered", "unavailable"} /\ sent'[r] = [model |-> model[r], auth |-> auth]
    BY <1>1, ChatSent
<1>3. Banned(r)' = Banned(r) /\ Known(r)'
    BY <1>1 DEF Banned, Known
<1>4. Beginning(r)' /\ Acting(r)'
    BY <1>2 DEF Sound, Beginning, Acting, Ended
<1>5. Listed(r)'
    BY <1>1, <1>2, <1>3 DEF Listed, Live
<1>6. Chosen(r)'
    BY <1>1, <1>2 DEF Chosen
<1>7. Credentialed(r)'
    BY <1>2 DEF Sound, Credentialed
<1>8. QED
    BY <1>4, <1>5, <1>6, <1>7 DEF Sound

\* The model is looked up once more, by name.
LEMMA CompleteIInv ==
    ASSUME IInv, NEW r \in Request, Complete(r) PROVE IInv'
<1> USE PreferencesAssumption, CallerRequestAssumption
<1>1. TypeOK /\ Cached /\ Sound(r)
    BY DEF IInv
<1>2. /\ at[r] = "completing" /\ sent[r] = None /\ model[r] \in Model
      /\ UNCHANGED <<world, made, caller, preferences, carried, model, meant>>
    BY <1>1 DEF Complete, Sound, Beginning, Chosen, Ended
<1>3. Banned(r) \in SUBSET Provider /\ Known(r) /\ Banned(r) # Unknown
    BY <1>1, <1>2 DEF Sound, Listed, Live, Banned, TypeOK, Preference
<1>4. PICK models \in SUBSET Model :
         /\ Catalogue(r, models)
         /\ LET m == Resolve(r, model[r], models)
            IN  IF m \notin Model
                THEN Go(r, m) /\ UNCHANGED sent
                ELSE IF carried[r] # None \/ Serves[m] \in Local
                THEN Chat(r, m, IF carried[r] # None THEN carried[r] ELSE NoAuth)
                ELSE Go(r, "credential") /\ UNCHANGED sent
    BY DEF Complete, ModelToComplete
<1> DEFINE m == Resolve(r, model[r], models)
           auth == IF carried[r] # None THEN carried[r] ELSE NoAuth
<1>5. /\ cached' \in [Caller \X SUBSET Provider ->
                        [models : SUBSET Model, time : 0 .. MaxTime] \cup {None}]
      /\ Cached'
      /\ asked' \in [Request -> SUBSET Provider]
      /\ \A q \in Request \ {r} : asked'[q] = asked[q]
      /\ asked'[r] \cap Banned(r) = {}
    <2>1. asked[r] \cap Banned(r) = {}
        BY <1>1 DEF Sound, Listed
    <2>2. QED
        BY <1>1, <1>3, <1>4, <2>1, CatalogueAllowed
<1>6. m = model[r] \/ m \in {"unavailable", "not_found"}
    BY <1>1, <1>2, <1>4, ResolveChooses
<1> HIDE DEF m
<1>7. Banned(r)' = Banned(r) /\ Known(r)'
    BY <1>2, <1>3 DEF Banned, Known
<1>8. CASE m = model[r] /\ (carried[r] # None \/ Serves[m] \in Local)
    <2>1. Chat(r, model[r], auth)
        BY <1>2, <1>4, <1>8 DEF m
    <2>2. /\ auth \in Credential \cup {NoAuth}
          /\ auth # NoAuth => auth.profile = caller[r] /\ caller[r] \in Profile
          /\ carried[r] = None => auth = NoAuth /\ Serves[model[r]] \in Local
        BY <1>1, <1>8 DEF TypeOK, Sound, Credentialed
    <2> HIDE DEF auth
    <2>3. Sound(r)'
        BY <1>1, <1>2, <1>5, <2>1, <2>2, ChatSound
    <2>4. /\ at' \in [Request -> Stage]
          /\ \A q \in Request \ {r} : at'[q] = at[q] /\ sent'[q] = sent[q]
          /\ sent' \in [Request -> [model : Model, auth : Credential \cup {NoAuth}] \cup {None}]
        BY <1>1, <1>2, <2>1, <2>2, ChatSent
    <2>5. QED
        BY <1>1, <1>2, <1>5, <2>3, <2>4, StepIInv DEF TypeOK
<1>9. CASE ~ (m = model[r] /\ (carried[r] # None \/ Serves[m] \in Local))
    <2>1. PICK stage \in Stage :
             /\ Go(r, stage) /\ UNCHANGED sent
             /\ stage = "credential" \/ stage \in Ended
        BY <1>2, <1>4, <1>6, <1>9 DEF m, Stage, Ended
    <2>2. /\ at' \in [Request -> Stage] /\ at'[r] = stage
          /\ \A q \in Request \ {r} : at'[q] = at[q]
        BY <1>1, <2>1, Went
    <2>3. Sound(r)'
        <3>1. Beginning(r)' /\ Acting(r)' /\ Credentialed(r)'
            BY <1>1, <1>2, <2>1, <2>2 DEF Sound, Beginning, Acting, Credentialed, Ended
        <3>2. Listed(r)'
            BY <1>2, <1>3, <1>5, <1>7, <2>1 DEF Listed
        <3>3. Chosen(r)'
            BY <1>1, <1>2, <1>7, <2>1, <2>2 DEF Sound, Chosen, Ended
        <3>4. QED
            BY <3>1, <3>2, <3>3 DEF Sound
    <2>4. QED
        BY <1>1, <1>2, <1>5, <2>1, <2>2, <2>3, StepIInv DEF TypeOK
<1>10. QED
    BY <1>8, <1>9

\* complete asks keyring itself.
LEMMA CompleteWithCredentialIInv ==
    ASSUME IInv, NEW r \in Request, CompleteWithCredential(r) PROVE IInv'
<1> USE PreferencesAssumption, CallerRequestAssumption
<1>1. TypeOK /\ Cached /\ Sound(r)
    BY DEF IInv
<1>2. /\ at[r] = "credential" /\ sent[r] = None /\ model[r] \in Model
      /\ Known(r) /\ Banned(r) # Unknown /\ asked[r] \cap Banned(r) = {}
      /\ UNCHANGED <<world, cached, made, caller, preferences, carried, model, asked, meant>>
    BY <1>1 DEF CompleteWithCredential, Sound, Beginning, Chosen, Listed, Live, Ended
<1>3. PICK broken \in KeyringBroken :
         LET answer == Keyring(r, Serves[model[r]], broken)
         IN  IF answer = "granted"
             THEN Chat(r, model[r], CredentialFor(r, Serves[model[r]]))
             ELSE Go(r, answer) /\ UNCHANGED sent
    BY DEF CompleteWithCredential
<1> DEFINE answer == Keyring(r, Serves[model[r]], broken)
           auth == CredentialFor(r, Serves[model[r]])
<1>4. Cached'
    BY <1>1, <1>2 DEF Cached
<1>5. CASE answer = "granted"
    <2>1. Chat(r, model[r], auth)
        BY <1>3, <1>5
    <2>2. /\ auth \in Credential \cup {NoAuth}
          /\ auth = IF Serves[model[r]] \in Local THEN NoAuth
                    ELSE [provider |-> Serves[model[r]], profile |-> caller[r]]
          /\ auth # NoAuth => auth.profile = caller[r] /\ caller[r] \in Profile
        BY <1>1, <1>2, <1>5, GrantedCredential
    <2> HIDE DEF auth
    <2>3. Sound(r)'
        BY <1>1, <1>2, <2>1, <2>2, ChatSound
    <2>4. /\ at' \in [Request -> Stage]
          /\ \A q \in Request \ {r} : at'[q] = at[q] /\ sent'[q] = sent[q]
          /\ sent' \in [Request -> [model : Model, auth : Credential \cup {NoAuth}] \cup {None}]
        BY <1>1, <1>2, <2>1, <2>2, ChatSent
    <2>5. QED
        BY <1>1, <1>2, <1>4, <2>3, <2>4, StepIInv DEF TypeOK
<1>6. CASE answer # "granted"
    <2>1. answer \in {"not_found", "unavailable", "unauthorized"}
        BY <1>6 DEF Keyring
    <2>2. Go(r, answer) /\ UNCHANGED sent
        BY <1>3, <1>6
    <2> HIDE DEF answer
    <2>3. /\ at' \in [Request -> Stage] /\ at'[r] = answer
          /\ \A q \in Request \ {r} : at'[q] = at[q]
        BY <1>1, <2>1, <2>2, Went DEF Stage, Ended
    <2>4. Sound(r)'
        BY <1>1, <1>2, <2>1, <2>2, <2>3
        DEF Sound, Beginning, Acting, Listed, Known, Banned, Live, Chosen, Credentialed, Ended
    <2>5. QED
        BY <1>1, <1>2, <1>4, <2>2, <2>3, <2>4, StepIInv DEF TypeOK
<1>7. QED
    BY <1>5, <1>6

\* What the person changes, and the clock, are read by later steps only.
LEMMA WorldIInv ==
    ASSUME IInv, Edit \/ PassTime PROVE IInv'
<1> USE CallerRequestAssumption
<1>1. TypeOK /\ Cached /\ \A q \in Request : Sound(q)
    BY DEF IInv
<1>2. UNCHANGED <<cached, at, made, caller, preferences, carried, model, sent, asked, meant>>
    BY DEF Edit, PassTime
<1>3. CASE Edit
    <2>1. edits' \in 0 .. MaxEdits /\ now' = now
        BY <1>1, <1>3 DEF Edit, TypeOK
    <2>2. theirs' \in [disabled : SUBSET Provider, profile : Profile \cup {Unset},
                      model : [Profile -> Model \cup {Unset}]]
        <3>1. \/ theirs' = theirs
              \/ \E list \in Lists : theirs' = [theirs EXCEPT !.disabled = list]
              \/ \E p \in Profile : theirs' = [theirs EXCEPT !.profile = p]
              \/ \E p \in Profile, m \in Model : theirs' = [theirs EXCEPT !.model[p] = m]
            BY <1>3 DEF Edit
        <3>2. QED
            BY <1>1, <3>1 DEF TypeOK
    <2>3. connected' \in [Profile -> SUBSET Cloud]
        <3>1. \/ connected' = connected
              \/ \E p \in Profile, c \in Cloud :
                    connected' = [connected EXCEPT ![p] = connected[p] \ {c}]
            BY <1>3 DEF Edit
        <3>2. QED
            BY <1>1, <3>1 DEF TypeOK
    <2>4. QED
        BY <1>1, <1>2, <2>1, <2>2, <2>3 DEF TypeOK
<1>4. CASE PassTime
    BY <1>1, <1>4 DEF PassTime, TypeOK
<1>5. TypeOK'
    BY <1>3, <1>4 DEF TypeOK
<1>6. Cached'
    BY <1>1, <1>2 DEF Cached
<1>7. \A q \in Request : Sound(q)'
    BY <1>1, <1>2, OthersSound
<1>8. QED
    BY <1>5, <1>6, <1>7 DEF IInv

LEMMA NextIInv == IInv /\ [Next]_vars => IInv'
<1> SUFFICES ASSUME IInv, [Next]_vars PROVE IInv'
    OBVIOUS
<1>1. ASSUME NEW r \in Request, NEW body \in Bodies, Come(r, body) PROVE IInv'
    BY <1>1, ComeIInv
<1>2. ASSUME NEW r \in Request, Step(r) PROVE IInv'
    BY <1>2, ReadIInv, RereadIInv, SubmitIInv, ResolveJobAuthIInv, SummarizeIInv, CompleteIInv,
       CompleteWithCredentialIInv DEF Step
<1>3. CASE Edit \/ PassTime
    BY <1>3, WorldIInv
<1>4. CASE UNCHANGED vars
    <2>1. UNCHANGED <<world, cached, at, made, caller, preferences, carried, model, sent, asked,
                      meant>>
        BY <1>4 DEF vars, world
    <2>2. TypeOK' /\ Cached'
        BY <2>1 DEF IInv, TypeOK, Cached, world
    <2>3. \A q \in Request : Sound(q)'
        BY <2>1, OthersSound DEF IInv
    <2>4. QED
        BY <2>2, <2>3 DEF IInv
<1>5. QED
    BY <1>1, <1>2, <1>3, <1>4 DEF Next

LEMMA AlwaysIInv == Spec => []IInv
<1>1. QED
    BY InitIInv, NextIInv, PTL DEF Spec

-------------------------------------------------------------------------------
\* Every state of a request, its caller's settings and the stored catalogues has its type.
THEOREM TypeCorrect == Spec => []TypeOK
<1>1. IInv => TypeOK
    BY DEF IInv
<1>2. QED
    BY AlwaysIInv, <1>1, PTL

\* A provider this person or the operator has turned off is never contacted for a request,
\* and none is when the list could not be read (preferences.py, _disabled_providers;
\* registry.py, _probe_all and _cache_for).
THEOREM DisabledIsNeverAsked == Spec => []DisabledNeverAsked
<1>1. IInv => DisabledNeverAsked
    <2> SUFFICES ASSUME IInv, NEW r \in Request,
                        NEW contacted,
                        contacted = asked[r] \cup (IF sent[r] = None THEN {}
                                                   ELSE {Serves[sent[r].model]}),
                        contacted # {}
                 PROVE  \E list \in IF caller[r] = Nobody THEN {{}} ELSE meant[r].disabled :
                            contacted \cap (list \cup OffProviders) = {}
        BY DEF DisabledNeverAsked
    <2>1. Listed(r)
        BY DEF IInv, Sound
    <2>2. Known(r) /\ contacted \cap Banned(r) = {}
        BY <2>1 DEF Listed
    <2>3. QED
        BY <2>2 DEF Known
<1>2. QED
    BY AlwaysIInv, <1>1, PTL

\* A credential is only ever drawn from a profile the request named or the person had as
\* default while the settings were read (preferences.py, _default_profile; deps.py,
\* get_caller).
THEOREM ProfileIsNeverGuessed == Spec => []ProfileNeverGuessed
<1>1. IInv => ProfileNeverGuessed
    BY DEF IInv, Sound, Acting, Credentialed, ProfileNeverGuessed
<1>2. QED
    BY AlwaysIInv, <1>1, PTL

\* What is sent was cut for the model it is sent to, and a named model is the one that
\* answers (summarizer.py, summarize; registry.py, complete).
THEOREM AlwaysCutForTheModelAsked == Spec => []CutForTheModelAsked
<1>1. IInv => CutForTheModelAsked
    BY DEF IInv, Sound, Chosen, CutForTheModelAsked
<1>2. QED
    BY AlwaysIInv, <1>1, PTL

\* A request answered at once carries the credential of the provider it goes to
\* (registry.py, complete).
THEOREM AlwaysOwnCredential == Spec => []OwnCredential
<1>1. IInv => OwnCredential
    BY DEF IInv, Sound, Credentialed, OwnCredential
<1>2. QED
    BY AlwaysIInv, <1>1, PTL
===============================================================================
