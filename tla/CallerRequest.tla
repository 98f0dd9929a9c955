---------------------------- MODULE CallerRequest ----------------------------
(***************************************************************************)
(* A request that is summarised, from the token it brings to the model     *)
(* that answers it: who it is made for and what that person has chosen     *)
(* (src/app/api/deps.py, src/app/services/preferences.py), which model is  *)
(* chosen and with which credential (src/app/services/llm/registry.py,     *)
(* src/app/services/keyring), at once or in a job that outlives the        *)
(* request (src/app/api/routes, src/app/services/llm/summarizer.py).       *)
(*                                                                         *)
(* All requests are of one account, or of nobody.  An await of another     *)
(* service is one step, which reads that service as it then is; the steps  *)
(* of requests, of the clock and of the person interleave between them.    *)
(* The lock of a catalogue's cache is in ModelCatalog; here a call either  *)
(* finds a fresh catalogue or probes.                                      *)
(***************************************************************************)
EXTENDS Preferences, FiniteSets

CONSTANTS
    Request,
    Local,           \* the providers that need no credential
    Serves,          \* the provider of each model
    Before,          \* Before[m]: the models whose ids sort before m's
    Nobody,          \* the caller of a request without a token
    None,
    TokenLife,       \* how long a user token is good for
    TTL,             \* model_cache_ttl_seconds
    MaxTime,         \* last value of the clock (bound)
    MaxEdits,        \* changes the person makes to settings or keyring (bound)
    Bodies,          \* what requests may name (bound)
    Lists,           \* the lists of disabled providers the person may choose (bound)
    Unreliable,      \* the providers that may fail to answer (bound)
    Faults           \* the ways settings-api and keyring may fail (bound)

ASSUME CallerRequestAssumption ==
    /\ Local \subseteq Provider
    /\ Serves \in [Model -> Provider]
    /\ Before \in [Model -> SUBSET Model]
    /\ \A S \in SUBSET Model \ {{}} : \E m \in S : S \cap Before[m] = {}
    /\ Nobody \notin Profile \cup {Unknown}
    /\ None \notin Profile \cup Provider \cup Model
    /\ {"unavailable", "not_found"} \cap Model = {}
    /\ TokenLife \in Nat \ {0} /\ TTL \in Nat /\ MaxTime \in Nat /\ MaxEdits \in Nat
    /\ Bodies \subseteq [profile : Profile \cup {Unset}, model : Model \cup {Unset},
                         background : BOOLEAN]
    /\ Lists \subseteq SUBSET Provider
    /\ Unreliable \subseteq Provider
    /\ Faults \subseteq {"outage", "refusing", "rejected", "keyring"}

VARIABLES
    now,
    edits,        \* changes made so far
    theirs,       \* what settings-api holds for the person
    connected,    \* per profile, the providers keyring holds a credential for
    cached,       \* per caller and disabled list, the catalogue and its time
    at,           \* where each request stands
    made,         \* how each request was made
    caller,       \* the Caller each request acts for: its profile
    preferences,
    carried,      \* auth: the credential a job carries
    model,        \* the model the text was cut for
    sent,         \* history: what was sent to a model
    asked,        \* history: on whose behalf a provider was contacted
    meant         \* history: what the person held while the settings were read

vars == <<now, edits, theirs, connected, cached, at, made, caller, preferences,
          carried, model, sent, asked, meant>>

world == <<now, edits, theirs, connected>>

Cloud == Provider \ Local

Caller == Profile \cup {Unknown, Nobody}

\* ResolvedAuth: what it is for is not in it, but decides who accepts it.
Credential == [provider : Cloud, profile : Profile]
NoAuth == [provider |-> None, profile |-> None]

Ended == {"answered", "empty", "unauthorized", "unavailable", "not_found"}

Stage == {"idle", "reading", "rereading", "submitting", "job_credential", "running",
          "completing", "credential"} \cup Ended

\* What the code can tell of a request from its body and headers.
Made == [profile : Profile \cup {Unset}, model : Model \cup {Unset}, background : BOOLEAN,
         expires : Nat]

\* The state has its shape; the credential carried is a job's, and only a request
\* that is cutting or has cut its text has a model.
TypeOK ==
    /\ now \in 0 .. MaxTime
    /\ edits \in 0 .. MaxEdits
    /\ theirs \in [disabled : SUBSET Provider, profile : Profile \cup {Unset},
                   model : [Profile -> Model \cup {Unset}]]
    /\ connected \in [Profile -> SUBSET Cloud]
    /\ cached \in [Caller \X SUBSET Provider -> [models : SUBSET Model, time : 0 .. MaxTime] \cup {None}]
    /\ at \in [Request -> Stage]
    /\ made \in [Request -> Made]
    /\ caller \in [Request -> Caller]
    /\ preferences \in [Request -> Preference]
    /\ carried \in [Request -> Credential \cup {NoAuth, None}]
    /\ model \in [Request -> Model \cup {None}]
    /\ sent \in [Request -> [model : Model, auth : Credential \cup {NoAuth}] \cup {None}]
    /\ asked \in [Request -> SUBSET Provider]
    /\ meant \in [Request -> [disabled : SUBSET SUBSET Provider, profiles : SUBSET Profile]]

Init ==
    /\ now = 0
    /\ edits = 0
    /\ theirs \in [disabled : Lists, profile : Profile \cup {Unset},
                   model : {[p \in Profile |-> Unset]}]
    /\ connected = [p \in Profile |-> Cloud]
    /\ cached = [key \in Caller \X SUBSET Provider |-> None]
    /\ at = [r \in Request |-> "idle"]
    /\ made = [r \in Request |->
                 [profile |-> Unset, model |-> Unset, background |-> FALSE, expires |-> 0]]
    /\ caller = [r \in Request |-> Nobody]
    /\ preferences = [r \in Request |-> Deployment]
    /\ carried = [r \in Request |-> None]
    /\ model = [r \in Request |-> None]
    /\ sent = [r \in Request |-> None]
    /\ asked = [r \in Request |-> {}]
    /\ meant = [r \in Request |-> [disabled |-> {}, profiles |-> {}]]

Go(r, stage) == at' = [at EXCEPT ![r] = stage]

-------------------------------------------------------------------------------
\* The route once the caller and the preferences are known.  A job's credential is
\* resolved first (resolve_job_auth), which needs the list of disabled providers.
Route(r, who, preference, background) ==
    /\ caller' = [caller EXCEPT ![r] = who]
    /\ preferences' = [preferences EXCEPT ![r] = preference]
    /\ Go(r, IF ~ background \/ who = Nobody THEN "running"
             ELSE IF preference.disabled_providers = Unknown THEN "unavailable"
             ELSE "submitting")

\* get_caller as far as the settings.  A token that is not accepted, or that keyring's
\* keys cannot be had for, ends the request; without one it is made for nobody, under
\* the configuration.
Come(r, body) ==
    /\ at[r] = "idle"
    /\ made' = [made EXCEPT ![r] = [profile |-> body.profile, model |-> body.model,
                                    background |-> body.background, expires |-> now + TokenLife]]
    /\ \/ Go(r, "reading") /\ UNCHANGED <<caller, preferences>>
       \/ Go(r, "unauthorized") /\ UNCHANGED <<caller, preferences>>
       \/ "keyring" \in Faults /\ Go(r, "unavailable") /\ UNCHANGED <<caller, preferences>>
       \/ Route(r, Nobody, Deployment, body.background)
    /\ UNCHANGED <<world, cached, carried, model, sent, asked, meant>>

\* What settings-api answers for a profile, or for none: only a resolve that names a
\* profile brings the values chosen in it.
Answer(profile, refusing) ==
    [default_model |-> IF profile = Unset THEN Unset ELSE theirs.model[profile],
     max_content_chars |-> Unset,
     disabled_providers |-> IF refusing THEN Refused ELSE theirs.disabled,
     job_retention_hours |-> Unset,
     default_profile |-> IF refusing THEN Refused ELSE theirs.profile,
     safe_search |-> Unset,
     read_top_pages |-> Unset]

\* What the person holds while their settings are read.
Noted(r) ==
    meant' = [meant EXCEPT ![r] =
                [disabled |-> @.disabled \cup {theirs.disabled},
                 profiles |-> @.profiles \cup {Usable(theirs.profile, Profile, DeploymentProfile)}]]

\* Mutant: the configuration's profile stands in for the person's.
CallerProfile_Deployment(r, preference) ==
    IF made[r].profile # Unset THEN made[r].profile ELSE DeploymentProfile

\* The profile of the Caller get_caller makes.
CallerProfile(r, preference) ==
    IF made[r].profile # Unset THEN made[r].profile ELSE preference.default_profile

\* for_token returns.
Served(r, preference) ==
    Route(r, CallerProfile(r, preference), preference, made[r].background)

\* settings-api cannot be asked, or refuses this service.
ReadFails(r) ==
    \/ "outage" \in Faults /\ Served(r, DuringOutage)
    \/ "rejected" \in Faults /\ Go(r, "unavailable") /\ UNCHANGED <<caller, preferences>>

\* for_token reads again when no profile was named and the person's is known.
ReadAgain(r, answer) == made[r].profile = Unset /\ DefaultProfile(answer) # Unknown

\* The first resolve of for_token.
Read(r) ==
    /\ at[r] = "reading"
    /\ \/ \E refusing \in BOOLEAN :
             LET answer == Answer(made[r].profile, refusing)
             IN  /\ refusing => "refusing" \in Faults
                 /\ IF ReadAgain(r, answer)
                    THEN /\ caller' = [caller EXCEPT ![r] = DefaultProfile(answer)]
                         /\ Go(r, "rereading")
                         /\ UNCHANGED preferences
                    ELSE Served(r, Applied(answer))
                 /\ IF refusing THEN UNCHANGED meant ELSE Noted(r)
       \/ ReadFails(r) /\ UNCHANGED meant
    /\ UNCHANGED <<world, cached, made, carried, model, sent, asked>>

\* The second one, for the profile the first one gave (kept in caller[r]).
Reread(r) ==
    /\ at[r] = "rereading"
    /\ \/ \E refusing \in BOOLEAN :
             /\ refusing => "refusing" \in Faults
             /\ Served(r, Applied(Answer(caller[r], refusing)))
             /\ IF refusing THEN UNCHANGED meant ELSE Noted(r)
       \/ ReadFails(r) /\ UNCHANGED meant
    /\ UNCHANGED <<world, cached, made, carried, model, sent, asked>>

-------------------------------------------------------------------------------
\* credential_for, and how keyring answers it: what an operation that needs the
\* credential ends with when there is none, or "granted".  keyring's API keys do not
\* expire; the user token it is asked with does.
Keyring(r, provider, broken) ==
    IF provider \in Local THEN "granted"
    ELSE IF caller[r] = Nobody THEN "not_found"
    ELSE IF caller[r] = Unknown \/ broken THEN "unavailable"
    ELSE IF now >= made[r].expires THEN "unauthorized"
    ELSE IF provider \notin connected[caller[r]] THEN "not_found"
    ELSE "granted"

\* Mutant: the credential of the default model's provider, whatever answers.
CredentialFor_Default(r, provider) ==
    IF provider \in Local THEN NoAuth
    ELSE [provider |-> Serves[preferences[r].default_model], profile |-> caller[r]]

\* The credential granted.
CredentialFor(r, provider) ==
    IF provider \in Local THEN NoAuth ELSE [provider |-> provider, profile |-> caller[r]]

\* keyring may be out of reach or time out.
KeyringBroken == {FALSE} \cup (IF "keyring" \in Faults THEN {TRUE} ELSE {})

\* _probe_all leaves the disabled providers out.
Probed(r) == Provider \ preferences[r].disabled_providers

\* The providers a probe contacts: those it holds what they need for.
Contacted(r, broken) ==
    {p \in Probed(r) : Keyring(r, p, broken) = "granted"}

\* _cache_for.
CacheKey(r) == <<caller[r], preferences[r].disabled_providers>>

Fresh(key) == cached[key] # None /\ TTL > 0 /\ now - cached[key].time < TTL

\* catalog: what is stored and fresh, or a probe of every provider at once, in
\* which those that cannot be used or do not answer add no models.
Catalogue(r, models) ==
    LET key == CacheKey(r)
    IN  IF Fresh(key)
        THEN /\ models = cached[key].models
             /\ UNCHANGED <<cached, asked>>
        ELSE \E broken \in KeyringBroken, silent \in SUBSET Unreliable :
                 /\ models = {m \in Model : Serves[m] \in Contacted(r, broken) \ silent}
                 /\ cached' = [cached EXCEPT ![key] = [models |-> models, time |-> now]]
                 /\ asked' = [asked EXCEPT ![r] = @ \cup Contacted(r, broken)]

\* _require_profile_for_provider.
NeedsProfile(r, m) == Serves[m] \in Cloud /\ caller[r] = Unknown

First(models) == CHOOSE m \in models : models \cap Before[m] = {}

\* registry.resolve: the named model or the default; only the default falls back,
\* to the first model there is.
Resolve(r, named, models) ==
    LET requested == IF named # Unset THEN named ELSE preferences[r].default_model
    IN  IF models = {} \/ NeedsProfile(r, requested) THEN "unavailable"
        ELSE IF requested \in models THEN requested
        ELSE IF named # Unset THEN "not_found"
        ELSE First(models)

\* resolve_job_auth, as far as the model.
Submit(r) ==
    /\ at[r] = "submitting"
    /\ \E models \in SUBSET Model :
          /\ Catalogue(r, models)
          /\ LET m == Resolve(r, made[r].model, models)
             IN  IF m \notin Model
                 THEN Go(r, m) /\ UNCHANGED <<carried, model>>
                 ELSE IF Serves[m] \in Local
                 THEN /\ carried' = [carried EXCEPT ![r] = NoAuth]
                      /\ Go(r, "running")
                      /\ UNCHANGED model
                 ELSE /\ model' = [model EXCEPT ![r] = m]
                      /\ Go(r, "job_credential")
                      /\ UNCHANGED carried
    /\ UNCHANGED <<world, made, caller, preferences, sent, meant>>

\* resolve_job_auth's credential; the job is queued with it.
ResolveJobAuth(r) ==
    /\ at[r] = "job_credential"
    /\ \E broken \in KeyringBroken :
          LET answer == Keyring(r, Serves[model[r]], broken)
          IN  IF answer = "granted"
              THEN /\ carried' = [carried EXCEPT ![r] = CredentialFor(r, Serves[model[r]])]
                   /\ Go(r, "running")
              ELSE Go(r, answer) /\ UNCHANGED carried
    /\ model' = [model EXCEPT ![r] = None]
    /\ UNCHANGED <<world, cached, made, caller, preferences, sent, asked, meant>>

-------------------------------------------------------------------------------
\* Summarizer.summarize as far as the text that is cut for a model, in the request
\* or, whenever its turn comes, in the job.  Without text no model is called.
Summarize(r) ==
    /\ at[r] = "running"
    /\ IF preferences[r].disabled_providers = Unknown
       THEN Go(r, "unavailable") /\ UNCHANGED <<cached, asked, model>>
       ELSE \E models \in SUBSET Model :
               /\ Catalogue(r, models)
               /\ LET m == Resolve(r, made[r].model, models)
                  IN  IF m \notin Model
                      THEN Go(r, m) /\ UNCHANGED model
                      ELSE \/ Go(r, "empty") /\ UNCHANGED model
                           \/ Go(r, "completing") /\ model' = [model EXCEPT ![r] = m]
    /\ UNCHANGED <<world, made, caller, preferences, carried, sent, meant>>

\* provider.chat: a provider refuses a credential that is not its own.
Chat(r, m, auth) ==
    /\ sent' = [sent EXCEPT ![r] = [model |-> m, auth |-> auth]]
    /\ \/ Go(r, IF Serves[m] \in Local \/ auth.provider = Serves[m]
                THEN "answered" ELSE "unavailable")
       \/ Serves[m] \in Unreliable /\ Go(r, "unavailable")

\* Mutant: complete is asked for the request's model once more.
ModelToComplete_Requested(r) == made[r].model

\* The model_id Summarizer.summarize hands to complete.
ModelToComplete(r) == model[r]

\* registry.complete: the model is resolved again, by name, and the chat is sent
\* with the credential the job carries or with one resolved now.
Complete(r) ==
    /\ at[r] = "completing"
    /\ \E models \in SUBSET Model :
          /\ Catalogue(r, models)
          /\ LET m == Resolve(r, ModelToComplete(r), models)
             IN  IF m \notin Model
                 THEN Go(r, m) /\ UNCHANGED sent
                 ELSE IF carried[r] # None \/ Serves[m] \in Local
                 THEN Chat(r, m, IF carried[r] # None THEN carried[r] ELSE NoAuth)
                 ELSE Go(r, "credential") /\ UNCHANGED sent
    /\ UNCHANGED <<world, made, caller, preferences, carried, model, meant>>

\* complete's own credential, and the chat.
CompleteWithCredential(r) ==
    /\ at[r] = "credential"
    /\ \E broken \in KeyringBroken :
          LET answer == Keyring(r, Serves[model[r]], broken)
          IN  IF answer = "granted"
              THEN Chat(r, model[r], CredentialFor(r, Serves[model[r]]))
              ELSE Go(r, answer) /\ UNCHANGED sent
    /\ UNCHANGED <<world, cached, made, caller, preferences, carried, model, asked, meant>>

-------------------------------------------------------------------------------
\* The person changes a setting or a credential.
Edit ==
    /\ edits < MaxEdits
    /\ edits' = edits + 1
    /\ \/ /\ \/ \E list \in Lists : theirs' = [theirs EXCEPT !.disabled = list]
             \/ \E p \in Profile : theirs' = [theirs EXCEPT !.profile = p]
             \/ \E p \in Profile, m \in Model : theirs' = [theirs EXCEPT !.model[p] = m]
          /\ UNCHANGED connected
       \/ /\ \E p \in Profile, c \in Cloud : connected' = [connected EXCEPT ![p] = @ \ {c}]
          /\ UNCHANGED theirs
    /\ UNCHANGED <<now, cached, at, made, caller, preferences, carried, model, sent, asked, meant>>

PassTime ==
    /\ now < MaxTime
    /\ now' = now + 1
    /\ UNCHANGED <<edits, theirs, connected, cached, at, made, caller, preferences,
                   carried, model, sent, asked, meant>>

Step(r) ==
    \/ Read(r) \/ Reread(r) \/ Submit(r) \/ ResolveJobAuth(r)
    \/ Summarize(r) \/ Complete(r) \/ CompleteWithCredential(r)

Next ==
    \/ \E r \in Request :
          \/ \E body \in Bodies : Come(r, body)
          \/ Step(r)
    \/ Edit
    \/ PassTime

Spec == Init /\ [][Next]_vars

-------------------------------------------------------------------------------
\* A provider this person or the operator has turned off is neither probed nor sent
\* anything on their behalf, not for a catalogue another request has stored either;
\* and when the list could not be read no provider is contacted at all
\* (preferences.py: "Guessing the empty provider list would send a query to a
\* provider this person refused").
DisabledNeverAsked ==
    \A r \in Request :
        LET contacted == asked[r] \cup (IF sent[r] = None THEN {} ELSE {Serves[sent[r].model]})
            lists == IF caller[r] = Nobody THEN {{}} ELSE meant[r].disabled
        IN  contacted # {} => \E list \in lists : contacted \cap (list \cup OffProviders) = {}

\* A credential is drawn only from a profile the request named or the person had as
\* default while their settings were read, in an outage from none (preferences.py:
\* "Guessing personal would quietly act on the wrong account"), and it is the one of
\* the Caller.
ProfileNeverGuessed ==
    \A r \in Request : sent[r] # None /\ sent[r].auth # NoAuth =>
        /\ sent[r].auth.profile = caller[r]
        /\ IF made[r].profile # Unset THEN caller[r] = made[r].profile
           ELSE caller[r] \in meant[r].profiles

\* What is sent to a model was cut for that model, and a request that names a model
\* is answered by no other, although the catalogue may have changed between the two
\* times it is looked up (Summarizer.summarize, registry.complete).
CutForTheModelAsked ==
    \A r \in Request : sent[r] # None =>
        /\ sent[r].model = model[r]
        /\ made[r].model # Unset => sent[r].model = made[r].model

\* A request answered at once carries the credential of the provider it goes to and
\* no other (registry.complete).
OwnCredential ==
    \A r \in Request : sent[r] # None /\ carried[r] = None =>
        sent[r].auth = IF Serves[sent[r].model] \in Local THEN NoAuth
                       ELSE [provider |-> Serves[sent[r].model], profile |-> caller[r]]

\* docs/keyring.md on a background job, whose credential is resolved when it is
\* submitted: "An OAuth-backed credential nearing expiry is the one case that can
\* still fail mid-job."
AcceptedJobSucceeds ==
    \A r \in Request : carried[r] # None /\ at[r] \in Ended => at[r] \in {"answered", "empty"}
===============================================================================
