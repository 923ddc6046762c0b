----------------------------- MODULE Deployment -----------------------------
(***************************************************************************)
(* deploy/deploy_to_azure.ps1: one run of the script after the other, each *)
(* with its own switches, by one operator.                                 *)
(*                                                                         *)
(* A run makes what is missing and updates what is there, step by step.    *)
(* It may end between any two steps: a command of the Azure CLI fails, a   *)
(* check throws, somebody presses Ctrl-C.  What it did until then stays,   *)
(* and the next run starts from it.  A command takes effect as a whole or  *)
(* not at all, also `containerapp create`, which makes the app, its        *)
(* identity and that identity's AcrPull.                                   *)
(*                                                                         *)
(* A lookup (Invoke-AzQuiet) that fails reads like one that finds nothing, *)
(* so a run may take what exists for missing and make it again.  For the   *)
(* registration that is a second one of the same name; for the app and the *)
(* registry the settings of a new one over those of the old.  Making again *)
(* anything else (lines 184, 233, 255, 271, 319, 332, 372) fails, or       *)
(* leaves what this module looks at as it is.  -WriteLocalEnv is left out. *)
(***************************************************************************)
EXTENDS Naturals, FiniteSets

CONSTANT MaxRuns  \* bound on the runs

ASSUME RunsAssumption == MaxRuns \in Nat

VARIABLES
    at,           \* the step of the script, or "off"
    runs,         \* runs so far; a run tags its image and its secret with its number
    switches,     \* -SkipFoundry, -SkipBuild, -RotateSecret
    appExists,    \* $appExists
    client,       \* $appId: the registration, by the run that made it
    clientSecret, \* $clientSecret
    image,        \* $image
    warned,       \* what this run failed to make and only warned of
    misread,      \* lookups that failed on what exists, by run
    made,         \* resources that exist in Azure
    registrations, \* Entra: the registrations of that display name
    parts,        \* Entra: what each registration has
    secrets,      \* Entra: the client secrets each registration accepts
    images,       \* the registry's images
    admin,        \* the registry's admin user is enabled
    app,          \* the container app, or NoApp
    roles,        \* the roles its identity has
    outcome       \* how the last run ended

locals == <<switches, appExists, client, clientSecret, image, warned>>
entra == <<registrations, parts, secrets>>
azure == <<made, images, admin, app, roles>>
cloud == <<entra, azure>>
vars == <<at, runs, switches, appExists, client, clientSecret, image, warned, misread, made,
          registrations, parts, secrets, images, admin, app, roles, outcome>>

Part == {"identifier", "scope", "permissions", "principal", "consent", "redirect"}
Resource == {"group", "foundry", "project", "model", "registry", "storage", "environment"}
Role == {"AcrPull", "tables", "openai"}
Run == 0..MaxRuns
None == MaxRuns + 1
NoApp == [exists |-> FALSE]
App == [exists : {TRUE}, image : Run, client : Run, secret : Run, key : Run,
        pull : {"password", "system"}]

Step == {"group", "registration", "identifier", "scope", "permissions", "principal", "consent", "secret",
         "foundry", "project", "model", "registry", "build", "storage", "environment", "app", "pull",
         "identity", "roll", "tables", "openai", "admin", "redirect", "health"}

TypeOK ==
    /\ at \in Step \cup {"off"}
    /\ runs \in Run
    /\ switches \in [skipFoundry : BOOLEAN, skipBuild : BOOLEAN, rotate : BOOLEAN]
    /\ appExists \in BOOLEAN
    /\ {client, clientSecret, image} \subseteq Run \cup {None}
    /\ warned \subseteq Role \cup {"project"}
    /\ misread \subseteq Run \X {"registration", "app", "registry"}
    /\ made \subseteq Resource
    /\ registrations \subseteq Run /\ parts \subseteq Run \X Part /\ secrets \subseteq Run \X Run
    /\ images \subseteq Run
    /\ admin \in BOOLEAN
    /\ app \in {NoApp} \cup App
    /\ roles \subseteq Role
    /\ outcome \in {"none", "stopped", "deployed"}

\* Nothing is there yet.
Fresh ==
    /\ made = {} /\ images = {} /\ admin = FALSE
    /\ registrations = {} /\ parts = {} /\ secrets = {}
    /\ app = NoApp /\ roles = {}

(***************************************************************************)
(* "Apps created by an earlier script version pull with the registry admin *)
(* password" (line 367), and have no state table yet.                      *)
(***************************************************************************)
Earlier ==
    /\ made = Resource \ {"storage"} /\ images = {0} /\ admin = TRUE
    /\ registrations = {0} /\ parts = {0} \X Part /\ secrets = {<<0, 0>>}
    /\ app = [exists |-> TRUE, image |-> 0, client |-> 0, secret |-> 0, key |-> 0,
              pull |-> "password"]
    /\ roles = {"openai"}

Init ==
    /\ at = "off" /\ runs = 0
    /\ switches = [skipFoundry |-> FALSE, skipBuild |-> FALSE, rotate |-> FALSE]
    /\ appExists = FALSE /\ client = None /\ clientSecret = None /\ image = None
    /\ warned = {} /\ misread = {}
    /\ Fresh \/ Earlier
    /\ outcome = "none"

-----------------------------------------------------------------------------
Start ==
    /\ at = "off"
    /\ runs < MaxRuns
    /\ runs' = runs + 1
    /\ \E f, b, r \in BOOLEAN : switches' = [skipFoundry |-> f, skipBuild |-> b, rotate |-> r]
    /\ at' = "group"
    /\ appExists' = FALSE /\ client' = None /\ clientSecret' = None /\ image' = None
    /\ warned' = {}
    /\ outcome' = "none"
    /\ UNCHANGED <<misread, cloud>>

\* Wrong parameters, a wrong profile or skills folder: nothing has been touched.
RejectInput ==
    /\ at = "off"
    /\ outcome' = "stopped"
    /\ UNCHANGED <<at, runs, locals, misread, cloud>>

\* The run ends here: a command failed, a check threw, the operator gave up.
Stop ==
    /\ at # "off"
    /\ at' = "off"
    /\ outcome' = "stopped"
    /\ UNCHANGED <<runs, locals, misread, cloud>>

(***************************************************************************)
(* Invoke-AzQuiet, an existence check: whatever exists is found, unless    *)
(* the command fails.                                                      *)
(***************************************************************************)
Lookup(what, exists, found) ==
    /\ found => exists
    /\ misread' = IF exists /\ ~ found THEN misread \cup {<<runs, what>>} ELSE misread

\* A step that creates a resource or finds it there, and goes on to the next.
Ensure(step, thing, next) ==
    /\ at = step
    /\ made' = made \cup {thing}
    /\ at' = next
    /\ UNCHANGED <<runs, locals, misread, entra, images, admin, app, roles, outcome>>

ResourceGroup == Ensure("group", "group", "registration")

-----------------------------------------------------------------------------
\* Mutant of FindRegistration: a registration that exists is taken to be complete.
FindCompleteRegistration ==
    /\ at = "registration"
    /\ client' \in registrations
    /\ at' = "secret"
    /\ UNCHANGED <<runs, switches, appExists, clientSecret, image, warned, misread, cloud, outcome>>

\* The first app of that display name, whichever that is; its identifier URI is not looked at.
FindRegistration ==
    /\ at = "registration"
    /\ client' \in registrations
    /\ at' = "scope"
    /\ UNCHANGED <<runs, switches, appExists, clientSecret, image, warned, misread, cloud, outcome>>

CreateRegistration ==
    /\ at = "registration"
    /\ Lookup("registration", registrations # {}, FALSE)
    /\ registrations' = registrations \cup {runs}
    /\ client' = runs
    /\ at' = "identifier"
    /\ UNCHANGED <<runs, switches, appExists, clientSecret, image, warned, parts, secrets, azure,
                   outcome>>

\* A part of the registration is written, or found there.
Register(step, part, next) ==
    /\ at = step
    /\ parts' = parts \cup {<<client, part>>}
    /\ at' = next
    /\ UNCHANGED <<runs, locals, misread, registrations, secrets, azure, outcome>>

SetIdentifier == Register("identifier", "identifier", "scope")
ExposeScope == Register("scope", "scope", "permissions")
SetPermissions == Register("permissions", "permissions", "principal")
EnsurePrincipal == Register("principal", "principal", "consent")
AdminConsent == Register("consent", "consent", "secret")

\* $appExists, the last the run knows of it until it creates or updates the app.
LookForApp(found) ==
    /\ at = "secret"
    /\ Lookup("app", app.exists, found)
    /\ appExists' = found
    /\ at' = "foundry"
    /\ UNCHANGED <<runs, switches, client, image, warned, registrations, parts, azure, outcome>>

\* Mutant of IssueSecret: the new secret is not read back.
IssueSecretUnread ==
    \E found \in BOOLEAN :
        /\ LookForApp(found)
        /\ switches.rotate \/ ~ found
        /\ secrets' = secrets \cup {<<client, runs>>}
        /\ UNCHANGED clientSecret

\* Mutant of IssueSecret: without --append, a reset removes the secrets there were.
IssueOnlySecret ==
    \E found \in BOOLEAN :
        /\ LookForApp(found)
        /\ switches.rotate \/ ~ found
        /\ clientSecret' = runs
        /\ secrets' = {s \in secrets : s[1] # client} \cup {<<client, runs>>}

\* `credential reset --append`: for an app that is not found, or with -RotateSecret.
IssueSecret ==
    \E found \in BOOLEAN :
        /\ LookForApp(found)
        /\ switches.rotate \/ ~ found
        /\ clientSecret' = runs
        /\ secrets' = secrets \cup {<<client, runs>>}

KeepSecret ==
    /\ LookForApp(TRUE)
    /\ ~ switches.rotate
    /\ UNCHANGED <<clientSecret, secrets>>

-----------------------------------------------------------------------------
SkipFoundry ==
    /\ at = "foundry"
    /\ switches.skipFoundry
    /\ at' = "registry"
    /\ UNCHANGED <<runs, locals, misread, cloud, outcome>>

EnsureFoundry == ~ switches.skipFoundry /\ Ensure("foundry", "foundry", "project")
EnsureProject == Ensure("project", "project", "model")

\* "Foundry project not created (the model deployment works without it)".
MissProject ==
    /\ at = "project"
    /\ warned' = warned \cup {"project"}
    /\ at' = "model"
    /\ UNCHANGED <<runs, switches, appExists, client, clientSecret, image, misread, cloud, outcome>>

EnsureModel == Ensure("model", "model", "registry")

FindRegistry ==
    /\ at = "registry"
    /\ "registry" \in made
    /\ at' = "build"
    /\ UNCHANGED <<runs, locals, misread, cloud, outcome>>

\* `acr create` makes a registry without an admin user, also of one that was there.
CreateRegistry ==
    /\ at = "registry"
    /\ Lookup("registry", "registry" \in made, FALSE)
    /\ made' = made \cup {"registry"} /\ admin' = FALSE
    /\ at' = "build"
    /\ UNCHANGED <<runs, locals, entra, images, app, roles, outcome>>

\* `acr build`, polled until it succeeded.
Build ==
    /\ at = "build"
    /\ ~ switches.skipBuild
    /\ images' = images \cup {runs}
    /\ image' = runs
    /\ at' = "storage"
    /\ UNCHANGED <<runs, switches, appExists, client, clientSecret, warned, misread, entra, made,
                   admin, app, roles, outcome>>

\* -SkipBuild keeps the app's image; without an app, or one not found, the run throws (Stop).
KeepImage ==
    /\ at = "build"
    /\ switches.skipBuild /\ appExists
    /\ image' = app.image
    /\ at' = "storage"
    /\ UNCHANGED <<runs, switches, appExists, client, clientSecret, warned, misread, cloud, outcome>>

EnsureStorage == Ensure("storage", "storage", "environment")
EnsureEnvironment == Ensure("environment", "environment", "app")

-----------------------------------------------------------------------------
\* The app, new or over one that was not found, pulls with its identity; the CLI gives it AcrPull.
CreateApp ==
    /\ at = "app"
    /\ ~ appExists
    /\ app' = [exists |-> TRUE, image |-> image, client |-> client, secret |-> clientSecret,
               key |-> runs, pull |-> "system"]
    /\ roles' = roles \cup {"AcrPull"}
    /\ at' = "tables"
    /\ UNCHANGED <<runs, locals, misread, entra, made, images, admin, outcome>>

\* An app that exists gets the new secret, if there is one.
UpdateApp ==
    /\ at = "app"
    /\ appExists
    /\ app' = IF clientSecret = None THEN app ELSE [app EXCEPT !.secret = clientSecret]
    /\ at' = "pull"
    /\ UNCHANGED <<runs, locals, misread, entra, made, images, admin, roles, outcome>>

\* Mutant of GrantRole: a role that could not be assigned is not mentioned.
GrantRoleSilently(step, role, next, failing) ==
    /\ at = step
    /\ \/ roles' = roles \cup {role} /\ at' = next
       \/ UNCHANGED roles /\ at' = failing
    /\ UNCHANGED <<runs, locals, misread, entra, made, images, admin, app, outcome>>

\* Grant-Role: assigned, or after five attempts only a warning.
GrantRole(step, role, next, failing) ==
    /\ at = step
    /\ \/ roles' = roles \cup {role} /\ at' = next /\ UNCHANGED warned
       \/ warned' = warned \cup {role} /\ at' = failing /\ UNCHANGED roles
    /\ UNCHANGED <<runs, switches, appExists, client, clientSecret, image, misread, entra, made,
                   images, admin, app, outcome>>

\* AcrPull could not be assigned: the app goes on pulling the way it does.
GrantPull == GrantRole("pull", "AcrPull", "identity", "roll")

PullWithIdentity ==
    /\ at = "identity"
    /\ app' = [app EXCEPT !.pull = "system"]
    /\ at' = "roll"
    /\ UNCHANGED <<runs, locals, misread, entra, made, images, admin, roles, outcome>>

\* Mutant of Roll: every revision starts with a new signing key.
RollWithNewKey ==
    /\ at = "roll"
    /\ app' = [app EXCEPT !.image = image, !.client = client, !.key = runs]
    /\ at' = "tables"
    /\ UNCHANGED <<runs, locals, misread, entra, made, images, admin, roles, outcome>>

\* The image and the settings, among them PBIMCP_CLIENT_ID; the app's secrets stay.
Roll ==
    /\ at = "roll"
    /\ app' = [app EXCEPT !.image = image, !.client = client]
    /\ at' = "tables"
    /\ UNCHANGED <<runs, locals, misread, entra, made, images, admin, roles, outcome>>

-----------------------------------------------------------------------------
\* The Foundry account is looked up before any role is granted; without one the run throws.
GrantTables == "foundry" \in made /\ GrantRole("tables", "tables", "openai", "openai")
GrantOpenAI == GrantRole("openai", "openai", "admin", "admin")

\* Mutant of CloseAdmin: the registry's admin user is closed whoever still needs it.
CloseAdminAnyway ==
    /\ at = "admin"
    /\ admin' = FALSE
    /\ at' = "redirect"
    /\ UNCHANGED <<runs, locals, misread, entra, made, images, app, roles, outcome>>

\* The admin user is closed once the app is seen to pull with its identity.
CloseAdmin ==
    /\ at = "admin"
    /\ \/ appExists /\ ~ switches.skipBuild /\ app.pull = "system" /\ admin' = FALSE
       \/ UNCHANGED admin
    /\ at' = "redirect"
    /\ UNCHANGED <<runs, locals, misread, entra, made, images, app, roles, outcome>>

SetRedirects == Register("redirect", "redirect", "health")

CanPull ==
    /\ app.image \in images
    /\ IF app.pull = "system" THEN "AcrPull" \in roles ELSE admin

(***************************************************************************)
(* /healthz answers once the app runs: it looks at the skills and at the   *)
(* catalog (Gateway.health), and no store is opened before its first use.  *)
(***************************************************************************)
Healthy ==
    /\ at = "health"
    /\ CanPull
    /\ at' = "off"
    /\ outcome' = "deployed"
    /\ UNCHANGED <<runs, locals, misread, cloud>>

-----------------------------------------------------------------------------
Next ==
    \/ Start \/ RejectInput \/ Stop
    \/ ResourceGroup
    \/ FindRegistration \/ CreateRegistration \/ SetIdentifier \/ ExposeScope
    \/ SetPermissions \/ EnsurePrincipal \/ AdminConsent \/ IssueSecret \/ KeepSecret
    \/ SkipFoundry \/ EnsureFoundry \/ EnsureProject \/ MissProject \/ EnsureModel
    \/ FindRegistry \/ CreateRegistry \/ Build \/ KeepImage \/ EnsureStorage \/ EnsureEnvironment
    \/ CreateApp \/ UpdateApp \/ GrantPull \/ PullWithIdentity \/ Roll
    \/ GrantTables \/ GrantOpenAI \/ CloseAdmin \/ SetRedirects \/ Healthy

Spec == Init /\ [][Next]_vars

-----------------------------------------------------------------------------
Misread(what) == \E run \in Run : <<run, what>> \in misread

(***************************************************************************)
(* The app can pull its image after every step of every run, whatever      *)
(* failed: its identity has AcrPull before it is told to use it, the       *)
(* admin user is open for as long as it pulls with a password, and it is   *)
(* only rolled to an image that was built (lines 302-311, 367-379,         *)
(* 392-397).  The password path breaks only when a run took the registry   *)
(* for missing and made it again (line 285).                               *)
(***************************************************************************)
AppCanPull ==
    app.exists =>
        /\ app.image \in images
        /\ app.pull = "system" => "AcrPull" \in roles
        /\ app.pull = "password" => admin \/ Misread("registry")

(***************************************************************************)
(* Users can sign in between and during runs: the secret the app holds is  *)
(* one its registration accepts, also when a run with -RotateSecret ends   *)
(* before it hands over the new one (lines 247-248, 366), and when a run   *)
(* takes the app for missing (line 245).  With a second registration, made *)
(* by a run that took the first for missing (line 173), it is so after a   *)
(* successful run with -RotateSecret.                                      *)
(***************************************************************************)
SecretStaysValid ==
    app.exists /\ (Misread("registration") => outcome = "deployed" /\ switches.rotate) =>
        <<app.client, app.secret>> \in secrets

(***************************************************************************)
(* "so a redeploy does not sign every user out" (line 14): no step of any  *)
(* run replaces the signing key of an app that exists, which the stored    *)
(* OAuth state is encrypted with, unless that very run took the app for    *)
(* missing because its lookup failed (lines 139-144, 245, 354-363).        *)
(***************************************************************************)
SigningKeyIsKept ==
    [][app.exists =>
          /\ app'.exists
          /\ app'.key # app.key => <<runs, "app">> \in misread /\ app'.key = runs]_vars

(***************************************************************************)
(* A run that reports success leaves in place what lines 6-17 list, or has *)
(* warned of it: the registration the app signs users in with, but for the *)
(* identifier URI (see DeployedHasIdentifier); every resource, but for the *)
(* model and project with -SkipFoundry; the three roles.  A project or a   *)
(* role may be missing after a warning (lines 153, 269).  And the app runs *)
(* what this run built or kept, with the secret it issued.                 *)
(***************************************************************************)
DeployedIsComplete ==
    outcome = "deployed" =>
        /\ client \in registrations /\ {client} \X (Part \ {"identifier"}) \subseteq parts
        /\ Resource \ {"model", "project"} \subseteq made
        /\ switches.skipFoundry \/ ("model" \in made /\ "project" \in made \cup warned)
        /\ Role \subseteq roles \cup warned
        /\ app.exists /\ app.client = client /\ app.image = image
        /\ ~ switches.skipBuild => app.image = runs
        /\ switches.rotate => app.secret = runs

(***************************************************************************)
(* "Creates or updates, idempotently: ... exposed API scope                *)
(* access_as_user" (lines 6-8): a successful run leaves a registration     *)
(* with the identifier URI api://<appId> that scope lives under.           *)
(***************************************************************************)
DeployedHasIdentifier == outcome = "deployed" => <<client, "identifier">> \in parts

=============================================================================
