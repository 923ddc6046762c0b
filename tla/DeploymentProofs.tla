-------------------------- MODULE DeploymentProofs --------------------------
(***************************************************************************)
(* For every number of runs: the deployed app can always pull its image,   *)
(* sign users in, and keeps its signing key, unless a lookup that failed   *)
(* made a run take what exists for missing.                                *)
(*                                                                         *)
(* Each rests on what a run knows at the step it has reached, which is     *)
(* true when the run learns it and stays true while only this run acts.    *)
(***************************************************************************)
EXTENDS Deployment, TLAPS

\* The steps before $appId is set.
BeforeClient == {"group", "registration"}

\* The steps at which $appExists and $clientSecret are looked at.
BeforeApp == {"foundry", "project", "model", "registry", "build", "storage", "environment", "app"}

\* The steps at which $image is used.
AfterBuild == {"storage", "environment", "app", "pull", "identity", "roll"}

\* The steps after the app got the run's secret, and after it got its client id.
AfterRoll == {"tables", "openai", "admin", "redirect", "health"}
Rolling == {"pull", "identity", "roll"}
AfterApp == Rolling \cup AfterRoll

\* What the run knows of the registration and of its secret.
KnownClient ==
    /\ at \in BeforeClient => clientSecret = None
    /\ at \notin BeforeClient \cup {"off"} => client \in registrations
    /\ clientSecret # None => <<client, clientSecret>> \in secrets
    /\ at \in BeforeApp /\ switches.rotate => clientSecret # None
    /\ at \in AfterApp /\ switches.rotate => clientSecret # None /\ app.secret = clientSecret
    /\ outcome = "deployed" => at = "off"

\* What it knows of the app: found is there, and what was missed is there only if misread.
KnownApp ==
    /\ at \in BeforeApp =>
          /\ appExists => app.exists
          /\ ~ appExists => clientSecret # None /\ (app.exists => <<runs, "app">> \in misread)
    /\ at \in AfterBuild => image \in images
    /\ at \in AfterApp => app.exists
    /\ at = "identity" => "AcrPull" \in roles
    /\ at \in AfterRoll => app.client = client
    /\ app.exists /\ app.pull = "password" => "registry" \in made

\* One registration, unless it was misread; the app's is one of them.
OneRegistration ==
    /\ Misread("registration") \/ \A r, s \in registrations : r = s
    /\ app.exists => app.client \in registrations

DeployInv ==
    TypeOK /\ AppCanPull /\ SecretStaysValid /\ KnownClient /\ KnownApp /\ OneRegistration

-----------------------------------------------------------------------------
(***************************************************************************)
(* There is either no app or a complete one: `containerapp create` takes   *)
(* all of its settings (deploy_to_azure.ps1:358).                          *)
(***************************************************************************)
LEMMA AppIsComplete == ASSUME TypeOK PROVE app.exists \in BOOLEAN /\ (app.exists => app \in App)
<1>1. CASE app = NoApp
  <2>1. app.exists = FALSE
    BY <1>1 DEF NoApp
  <2> QED BY <2>1
<1>2. CASE app \in App
  <2>1. app.exists = TRUE
    BY <1>2 DEF App
  <2> QED BY <1>2, <2>1
<1> QED BY <1>1, <1>2 DEF TypeOK

(***************************************************************************)
(* Nothing is known before the first run, and the app of an earlier        *)
(* version of the script pulls and signs in (deploy_to_azure.ps1:367).     *)
(***************************************************************************)
LEMMA InitDeploys == Init => DeployInv
<1> SUFFICES ASSUME Init PROVE DeployInv
  OBVIOUS
<1> USE RunsAssumption DEF Init, Run, None
<1>1. TypeOK
  <2>1. 0 \in Run
    OBVIOUS
  <2>2. switches \in [skipFoundry : BOOLEAN, skipBuild : BOOLEAN, rotate : BOOLEAN]
    OBVIOUS
  <2>3. CASE Fresh
    BY <2>1, <2>2, <2>3 DEF TypeOK, Fresh
  <2>4. CASE Earlier
    <3>1. app \in App
      BY <2>1, <2>4 DEF Earlier, App
    <3>2. made \subseteq Resource /\ roles \subseteq Role
      BY <2>4 DEF Earlier, Role
    <3>3. /\ registrations \subseteq Run /\ images \subseteq Run /\ admin \in BOOLEAN
          /\ parts \subseteq Run \X Part /\ secrets \subseteq Run \X Run
      BY <2>1, <2>4 DEF Earlier
    <3> QED BY <2>1, <2>2, <3>1, <3>2, <3>3 DEF TypeOK
  <2> QED BY <2>3, <2>4
<1>2. AppCanPull /\ SecretStaysValid /\ OneRegistration
  BY DEF AppCanPull, SecretStaysValid, OneRegistration, Fresh, Earlier, NoApp
<1>3. KnownClient /\ KnownApp
  BY DEF Fresh, Earlier, NoApp, Resource, KnownClient, KnownApp, BeforeClient, BeforeApp, AfterBuild, AfterApp, AfterRoll, Rolling
<1> QED BY <1>1, <1>2, <1>3 DEF DeployInv

\* A step on the way on which nothing more is known than before.
Onward(step, next) ==
    /\ step \in Step /\ next \in Step \cup {"off"}
    /\ next \in BeforeClient => step \in BeforeClient
    /\ step \in BeforeClient => next \in BeforeClient \cup {"off"}
    /\ next \in BeforeApp => step \in BeforeApp
    /\ next \in AfterBuild => step \in AfterBuild
    /\ next \in AfterApp => step \in AfterApp
    /\ next \in AfterRoll => step \in AfterRoll
    /\ next # "identity"

\* What a lookup misread stays misread.
LEMMA MisreadGrows ==
    ASSUME misread \subseteq misread', NEW what, Misread(what)
    PROVE  Misread(what)'
BY DEF Misread

(***************************************************************************)
(* A step that only makes resources or parts of the registration, or warns *)
(* that it did not, keeps the invariant.                                   *)
(***************************************************************************)
LEMMA EnsureDeploys ==
    ASSUME DeployInv,
           NEW next, Onward(at, next), at' = next,
           made \subseteq made', made' \subseteq Resource, parts' \subseteq Run \X Part,
           warned' \subseteq Role \cup {"project"},
           UNCHANGED <<runs, switches, appExists, client, clientSecret, image, misread, registrations,
                       secrets, images, admin, app, roles>>,
           outcome' = outcome \/ (outcome' \in {"none", "stopped"} /\ next = "off")
    PROVE  DeployInv'
<1> USE RunsAssumption DEF DeployInv, Onward
<1>1. TypeOK'
  BY DEF TypeOK
<1>2. AppCanPull' /\ SecretStaysValid' /\ OneRegistration'
  BY DEF AppCanPull, SecretStaysValid, OneRegistration, Misread
<1>3. "off" \notin Step
  BY DEF Step
<1>4. KnownClient'
  BY <1>3 DEF KnownClient
<1>5. KnownApp'
  BY DEF KnownApp
<1> QED BY <1>1, <1>2, <1>4, <1>5

(***************************************************************************)
(* A role that is assigned, or not, takes none away (Grant-Role): the app  *)
(* is only told to use its identity when the role is there (line 373).     *)
(***************************************************************************)
LEMMA RolesDeploy ==
    ASSUME DeployInv,
           NEW step, NEW role \in Role, NEW next, NEW failing,
           GrantRole(step, role, next, failing),
           \/ step = "pull" /\ role = "AcrPull" /\ next = "identity" /\ failing = "roll"
           \/ step \in {"tables", "openai"} /\ next \in {"openai", "admin"} /\ failing = next
    PROVE  DeployInv'
<1> USE RunsAssumption DEF DeployInv, GrantRole, entra
<1>1. TypeOK'
  <2>1. roles' \subseteq Role /\ warned' \subseteq Role \cup {"project"}
    BY DEF TypeOK
  <2>2. at' \in Step
    BY DEF Step
  <2> QED BY <2>1, <2>2 DEF TypeOK
<1>2. AppCanPull' /\ SecretStaysValid' /\ OneRegistration'
  BY DEF AppCanPull, SecretStaysValid, OneRegistration, Misread
<1>3. KnownClient'
  BY DEF KnownClient, BeforeClient, BeforeApp, AfterApp, AfterRoll, Rolling
<1>4. KnownApp'
  BY DEF KnownApp, BeforeApp, AfterBuild, AfterApp, AfterRoll, Rolling
<1> QED BY <1>1, <1>2, <1>3, <1>4

\* The lookup of the app: what it reads, and what the run holds afterwards (line 245-250).
LEMMA LookDeploys ==
    ASSUME DeployInv,
           NEW found \in BOOLEAN, LookForApp(found),
           \/ (switches.rotate \/ ~ found) /\ clientSecret' = runs
              /\ secrets' = secrets \cup {<<client, runs>>}
           \/ found /\ ~ switches.rotate /\ UNCHANGED <<clientSecret, secrets>>
    PROVE  DeployInv'
<1> USE RunsAssumption DEF DeployInv, LookForApp, azure
<1>1. client \in registrations /\ client \in Run /\ runs \in Run /\ runs # None
  BY DEF KnownClient, BeforeClient, TypeOK, Run, None
<1>2. misread \subseteq misread' /\ (app.exists /\ ~ found => <<runs, "app">> \in misread')
  BY DEF Lookup
<1>3. TypeOK'
  <2>1. misread' \subseteq Run \X {"registration", "app", "registry"}
    BY <1>1 DEF Lookup, TypeOK
  <2>2. secrets' \subseteq Run \X Run /\ clientSecret' \in Run \cup {None}
    BY <1>1 DEF TypeOK
  <2> QED BY <2>1, <2>2 DEF TypeOK, Step
<1>4. AppCanPull' /\ OneRegistration'
  BY <1>2 DEF AppCanPull, OneRegistration, Misread
<1>5. SecretStaysValid'
  BY <1>2, MisreadGrows DEF SecretStaysValid, KnownClient
<1>6. KnownClient'
  BY <1>1 DEF KnownClient, BeforeClient, BeforeApp, AfterApp, AfterRoll, Rolling
<1>7. KnownApp'
  BY <1>1, <1>2 DEF KnownApp, Lookup, BeforeApp, AfterBuild, AfterApp, AfterRoll, Rolling
<1> QED BY <1>3, <1>4, <1>5, <1>6, <1>7

(***************************************************************************)
(* Every step of a run keeps the invariant: an app is only created where   *)
(* none was, or where the run's lookup missed it (line 354).               *)
(***************************************************************************)
LEMMA NextDeploys == DeployInv /\ [Next]_vars => DeployInv'
<1> SUFFICES ASSUME DeployInv, [Next]_vars PROVE DeployInv'
  OBVIOUS
<1> USE RunsAssumption
<1>0. /\ at \in Step \cup {"off"} /\ runs \in Run /\ runs # None
      /\ made \subseteq Resource /\ parts \subseteq Run \X Part
      /\ warned \subseteq Role \cup {"project"}
      /\ at \notin BeforeClient \cup {"off"} => client \in Run
  BY DEF DeployInv, TypeOK, KnownClient, Run, None
<1>1. CASE Start
  <2> USE <1>1 DEF DeployInv, Start, cloud, entra, azure, Run, None
  <2>1. TypeOK'
    <3>1. runs' \in 0..MaxRuns
      BY DEF TypeOK
    <3>2. switches' \in [skipFoundry : BOOLEAN, skipBuild : BOOLEAN, rotate : BOOLEAN]
      OBVIOUS
    <3>3. at' \in Step \cup {"off"}
      BY DEF Step
    <3> QED BY <3>1, <3>2, <3>3 DEF TypeOK
  <2>2. AppCanPull' /\ SecretStaysValid' /\ OneRegistration'
    BY DEF AppCanPull, SecretStaysValid, OneRegistration, Misread
  <2>3. KnownClient' /\ KnownApp'
    BY DEF KnownClient, KnownApp, BeforeClient, BeforeApp, AfterBuild, AfterApp, AfterRoll, Rolling
  <2> QED BY <2>1, <2>2, <2>3
<1>2. CASE RejectInput
  <2> USE <1>2 DEF RejectInput, DeployInv, locals, cloud, entra, azure
  <2>1. TypeOK'
    BY DEF TypeOK
  <2>2. AppCanPull' /\ SecretStaysValid' /\ OneRegistration'
    BY DEF AppCanPull, SecretStaysValid, OneRegistration, Misread
  <2>3. KnownClient' /\ KnownApp'
    BY DEF KnownClient, KnownApp
  <2> QED BY <2>1, <2>2, <2>3
<1>3. CASE Stop
  <2>1. Onward(at, "off")
    BY <1>0, <1>3 DEF Stop, Onward, BeforeClient, BeforeApp, AfterBuild, AfterApp, AfterRoll, Rolling
  <2> QED BY <1>0, <1>3, <2>1, EnsureDeploys DEF Stop, locals, cloud, entra, azure
<1>4. CASE Healthy
  <2> USE <1>4 DEF Healthy, DeployInv, locals, cloud, entra, azure
  <2>1. TypeOK'
    BY DEF TypeOK
  <2>2. AppCanPull' /\ OneRegistration'
    BY DEF AppCanPull, OneRegistration, Misread
  <2>3. SecretStaysValid'
    BY DEF SecretStaysValid, Misread, KnownClient, KnownApp, AfterApp, AfterRoll
  <2>4. KnownClient' /\ KnownApp'
    BY DEF KnownClient, KnownApp, BeforeClient, BeforeApp, AfterBuild, AfterApp, AfterRoll, Rolling
  <2> QED BY <2>1, <2>2, <2>3, <2>4
<1>5. CASE FindRegistration
  <2> USE <1>5 DEF FindRegistration, DeployInv, cloud, entra, azure
  <2>1. TypeOK'
    BY DEF TypeOK, Step
  <2>2. AppCanPull' /\ SecretStaysValid' /\ OneRegistration'
    BY DEF AppCanPull, SecretStaysValid, OneRegistration, Misread
  <2>3. KnownClient'
    BY DEF KnownClient, BeforeClient, BeforeApp, AfterApp, AfterRoll, Rolling
  <2>4. KnownApp'
    BY DEF KnownApp, BeforeApp, AfterBuild, AfterApp, AfterRoll, Rolling
  <2> QED BY <2>1, <2>2, <2>3, <2>4
<1>6. CASE CreateRegistration
  <2> USE <1>6 DEF CreateRegistration, DeployInv, azure
  <2>1. misread \subseteq misread' /\ misread' \subseteq Run \X {"registration", "app", "registry"}
        /\ (registrations # {} => <<runs, "registration">> \in misread')
    BY <1>0 DEF Lookup, TypeOK
  <2>2. TypeOK'
    BY <1>0, <2>1 DEF TypeOK, Step
  <2>3. AppCanPull' /\ SecretStaysValid'
    BY <2>1, MisreadGrows DEF AppCanPull, SecretStaysValid, KnownClient
  <2>4. OneRegistration'
    BY <1>0, <2>1 DEF OneRegistration, Misread
  <2>5. KnownClient'
    BY DEF KnownClient, BeforeClient, BeforeApp, AfterApp, AfterRoll, Rolling
  <2>6. KnownApp'
    BY DEF KnownApp, BeforeApp, AfterBuild, AfterApp, AfterRoll, Rolling
  <2> QED BY <2>2, <2>3, <2>4, <2>5, <2>6
<1>7. CASE SetIdentifier \/ ExposeScope \/ SetPermissions \/ EnsurePrincipal \/ AdminConsent
           \/ SetRedirects
  <2>1. ASSUME NEW step, NEW part \in Part, NEW next, Register(step, part, next),
               step \notin BeforeClient \cup {"off"}, Onward(step, next)
        PROVE  DeployInv'
    <3>1. parts' \subseteq Run \X Part
      BY <1>0, <2>1 DEF Register
    <3> QED BY <1>0, <2>1, <3>1, EnsureDeploys DEF Register, locals, azure
  <2> USE <2>1 DEF Onward, Step, Part, BeforeClient, BeforeApp, AfterBuild, AfterApp, AfterRoll,
                   Rolling
  <2>2. CASE SetIdentifier
    BY <2>2 DEF SetIdentifier
  <2>3. CASE ExposeScope
    BY <2>3 DEF ExposeScope
  <2>4. CASE SetPermissions
    BY <2>4 DEF SetPermissions
  <2>5. CASE EnsurePrincipal
    BY <2>5 DEF EnsurePrincipal
  <2>6. CASE AdminConsent
    BY <2>6 DEF AdminConsent
  <2>7. CASE SetRedirects
    BY <2>7 DEF SetRedirects
  <2> QED BY <1>7, <2>2, <2>3, <2>4, <2>5, <2>6, <2>7
<1>8. CASE \/ ResourceGroup \/ EnsureFoundry \/ EnsureProject \/ EnsureModel \/ EnsureStorage
           \/ EnsureEnvironment
  <2>1. ASSUME NEW step, NEW thing \in Resource, NEW next, Ensure(step, thing, next),
               Onward(step, next)
        PROVE  DeployInv'
    BY <1>0, <2>1, EnsureDeploys DEF Ensure, locals, entra
  <2> USE <2>1 DEF Onward, Step, Resource, BeforeClient, BeforeApp, AfterBuild, AfterApp, AfterRoll,
                   Rolling
  <2>2. CASE ResourceGroup
    BY <2>2 DEF ResourceGroup
  <2>3. CASE EnsureFoundry
    BY <2>3 DEF EnsureFoundry
  <2>4. CASE EnsureProject
    BY <2>4 DEF EnsureProject
  <2>5. CASE EnsureModel
    BY <2>5 DEF EnsureModel
  <2>6. CASE EnsureStorage
    BY <2>6 DEF EnsureStorage
  <2>7. CASE EnsureEnvironment
    BY <2>7 DEF EnsureEnvironment
  <2> QED BY <1>8, <2>2, <2>3, <2>4, <2>5, <2>6, <2>7
<1>9. CASE SkipFoundry \/ MissProject \/ FindRegistry
  <2>1. \/ at = "foundry" /\ at' = "registry"
        \/ at = "project" /\ at' = "model"
        \/ at = "registry" /\ at' = "build"
    BY <1>9 DEF SkipFoundry, MissProject, FindRegistry
  <2>2. Onward(at, at')
    BY <2>1 DEF Onward, Step, BeforeClient, BeforeApp, AfterBuild, AfterApp, AfterRoll, Rolling
  <2>3. warned' \subseteq Role \cup {"project"} /\ outcome' = outcome
        /\ UNCHANGED <<runs, switches, appExists, client, clientSecret, image, misread, cloud>>
    BY <1>0, <1>9 DEF SkipFoundry, MissProject, FindRegistry, locals
  <2> QED BY <1>0, <2>2, <2>3, EnsureDeploys DEF cloud, entra, azure
<1>10. CASE CreateRegistry
  <2> USE <1>10 DEF CreateRegistry, DeployInv, locals, entra
  <2>1. misread \subseteq misread' /\ misread' \subseteq Run \X {"registration", "app", "registry"}
        /\ ("registry" \in made => <<runs, "registry">> \in misread')
    BY <1>0 DEF Lookup, TypeOK
  <2>2. TypeOK'
    BY <1>0, <2>1 DEF TypeOK, Step, Resource
  <2>3. AppCanPull'
    BY <1>0, <2>1 DEF AppCanPull, KnownApp, Misread
  <2>4. SecretStaysValid' /\ OneRegistration'
    BY <2>1, MisreadGrows DEF SecretStaysValid, OneRegistration
  <2>5. KnownClient'
    BY DEF KnownClient, BeforeClient, BeforeApp, AfterApp, AfterRoll, Rolling
  <2>6. KnownApp'
    BY <2>1 DEF KnownApp, BeforeApp, AfterBuild, AfterApp, AfterRoll, Rolling
  <2> QED BY <2>2, <2>3, <2>4, <2>5, <2>6
<1>11. CASE IssueSecret
  BY <1>11, LookDeploys DEF IssueSecret
<1>12. CASE KeepSecret
  BY <1>12, LookDeploys DEF KeepSecret
<1>13. CASE Build
  <2> USE <1>13 DEF DeployInv, Build, entra
  <2>1. TypeOK'
    BY DEF TypeOK, Step
  <2>2. AppCanPull' /\ SecretStaysValid' /\ OneRegistration'
    BY DEF AppCanPull, SecretStaysValid, OneRegistration, Misread
  <2>3. KnownClient' /\ KnownApp'
    BY DEF KnownClient, KnownApp, BeforeClient, BeforeApp, AfterApp, AfterRoll, Rolling
  <2> QED BY <2>1, <2>2, <2>3
<1>14. CASE KeepImage
  <2> USE <1>14 DEF DeployInv, KeepImage, cloud, entra, azure
  <2>1. app.exists /\ image' \in images
    BY DEF KnownApp, BeforeApp, AppCanPull
  <2>2. TypeOK'
    BY <2>1 DEF TypeOK, Step
  <2>3. AppCanPull' /\ SecretStaysValid' /\ OneRegistration'
    BY DEF AppCanPull, SecretStaysValid, OneRegistration, Misread
  <2>4. KnownClient' /\ KnownApp'
    BY <2>1 DEF KnownClient, KnownApp, BeforeClient, BeforeApp, AfterApp, AfterRoll, Rolling
  <2> QED BY <2>2, <2>3, <2>4
<1>15. CASE CreateApp
  <2> USE <1>15 DEF DeployInv, CreateApp, locals, entra
  <2>1. /\ image \in images /\ client \in registrations /\ clientSecret # None
        /\ <<client, clientSecret>> \in secrets
    BY DEF KnownClient, KnownApp, BeforeClient, BeforeApp, AfterBuild
  <2>2. image \in Run /\ client \in Run /\ clientSecret \in Run
    BY <2>1 DEF TypeOK
  <2>3. app' \in App
    BY <1>0, <2>2 DEF App
  <2>4. TypeOK'
    BY <2>3 DEF TypeOK, Step, Role
  <2>5. AppCanPull' /\ SecretStaysValid' /\ OneRegistration'
    BY <2>1 DEF AppCanPull, SecretStaysValid, OneRegistration, Misread
  <2>6. KnownClient' /\ KnownApp'
    BY <2>1 DEF KnownClient, KnownApp, BeforeClient, BeforeApp, AfterBuild, AfterApp, AfterRoll,
                Rolling
  <2> QED BY <2>4, <2>5, <2>6
<1>16. CASE UpdateApp
  <2> USE <1>16 DEF DeployInv, UpdateApp, locals, entra
  <2>1. /\ app.exists /\ image \in images /\ client \in registrations
        /\ clientSecret # None => <<client, clientSecret>> \in secrets
    BY DEF KnownClient, KnownApp, BeforeClient, BeforeApp, AfterBuild
  <2>2. app \in App
    BY <2>1, AppIsComplete
  <2>3. /\ app' \in App /\ app'.image = app.image /\ app'.pull = app.pull
        /\ app'.client = app.client
        /\ app'.secret = IF clientSecret = None THEN app.secret ELSE clientSecret
    BY <2>2 DEF TypeOK, App
  <2>4. app'.exists
    BY <2>3 DEF App
  <2>5. TypeOK'
    BY <2>3 DEF TypeOK, Step
  <2>6. AppCanPull' /\ OneRegistration'
    BY <2>1, <2>3 DEF AppCanPull, OneRegistration, Misread
  <2>7. SecretStaysValid'
    BY <2>1, <2>3 DEF SecretStaysValid, OneRegistration, KnownClient, Misread
  <2>8. KnownClient' /\ KnownApp'
    BY <2>1, <2>3, <2>4
    DEF KnownClient, KnownApp, BeforeClient, BeforeApp, AfterBuild, AfterApp, AfterRoll, Rolling
  <2> QED BY <2>5, <2>6, <2>7, <2>8
<1>17. CASE GrantPull
  BY <1>17, RolesDeploy DEF GrantPull, Role
<1>18. CASE PullWithIdentity \/ Roll
  <2> USE DEF DeployInv, locals, entra
  <2>1. /\ app.exists /\ image \in images /\ client \in registrations
        /\ PullWithIdentity => "AcrPull" \in roles
    BY <1>18 DEF PullWithIdentity, Roll, KnownClient, KnownApp, BeforeClient, AfterBuild, AfterApp,
                 Rolling
  <2>2. app \in App
    BY <2>1, AppIsComplete
  <2>3. CASE PullWithIdentity
    <3> USE <2>3 DEF PullWithIdentity
    <3>1. /\ app' \in App /\ app'.image = app.image /\ app'.pull = "system"
          /\ app'.client = app.client /\ app'.secret = app.secret /\ app'.exists
      BY <2>1, <2>2 DEF App
    <3>2. TypeOK'
      BY <3>1 DEF TypeOK, Step
    <3>3. AppCanPull' /\ SecretStaysValid' /\ OneRegistration'
      BY <2>1, <3>1 DEF AppCanPull, SecretStaysValid, OneRegistration, Misread
    <3>4. KnownClient' /\ KnownApp'
      BY <2>1, <3>1
      DEF KnownClient, KnownApp, BeforeClient, BeforeApp, AfterBuild, AfterApp, AfterRoll, Rolling
    <3> QED BY <3>2, <3>3, <3>4
  <2>4. CASE Roll
    <3> USE <2>4 DEF Roll
    <3>1. /\ app' \in App /\ app'.image = image /\ app'.pull = app.pull
          /\ app'.client = client /\ app'.secret = app.secret /\ app'.exists
      BY <2>1, <2>2 DEF App, TypeOK
    <3>2. TypeOK'
      BY <3>1 DEF TypeOK, Step
    <3>3. AppCanPull' /\ OneRegistration'
      BY <2>1, <3>1 DEF AppCanPull, OneRegistration, Misread
    <3>4. SecretStaysValid'
      BY <2>1, <3>1 DEF SecretStaysValid, OneRegistration, KnownClient, Misread
    <3>5. KnownClient' /\ KnownApp'
      BY <2>1, <3>1
      DEF KnownClient, KnownApp, BeforeClient, BeforeApp, AfterBuild, AfterApp, AfterRoll, Rolling
    <3> QED BY <3>2, <3>3, <3>4, <3>5
  <2> QED BY <1>18, <2>3, <2>4
<1>19. CASE GrantTables
  BY <1>19, RolesDeploy DEF GrantTables, Role
<1>20. CASE GrantOpenAI
  BY <1>20, RolesDeploy DEF GrantOpenAI, Role
<1>21. CASE CloseAdmin
  <2> USE <1>21 DEF DeployInv, CloseAdmin, locals, entra
  <2>1. TypeOK'
    BY DEF TypeOK, Step
  <2>2. AppCanPull' /\ SecretStaysValid' /\ OneRegistration'
    BY DEF AppCanPull, SecretStaysValid, OneRegistration, Misread
  <2>3. KnownClient' /\ KnownApp'
    BY DEF KnownClient, KnownApp, BeforeClient, BeforeApp, AfterBuild, AfterApp, AfterRoll, Rolling
  <2> QED BY <2>1, <2>2, <2>3
<1>22. CASE UNCHANGED vars
  <2> USE <1>22 DEF vars, DeployInv
  <2>1. TypeOK'
    BY DEF TypeOK
  <2>2. AppCanPull' /\ SecretStaysValid' /\ OneRegistration'
    BY DEF AppCanPull, SecretStaysValid, OneRegistration, Misread
  <2>3. KnownClient' /\ KnownApp'
    BY DEF KnownClient, KnownApp
  <2> QED BY <2>1, <2>2, <2>3
<1> QED
  BY <1>1, <1>2, <1>3, <1>4, <1>5, <1>6, <1>7, <1>8, <1>9, <1>10, <1>11, <1>12, <1>13, <1>14, <1>15,
     <1>16, <1>17, <1>18, <1>19, <1>20, <1>21, <1>22 DEF Next

-----------------------------------------------------------------------------
THEOREM InvariantHolds == Spec => []DeployInv
<1> QED BY InitDeploys, NextDeploys, PTL DEF Spec

\* Every state of the cloud, the disk and the script has its type.
THEOREM TypesHold == Spec => []TypeOK
<1>1. DeployInv => TypeOK
  BY DEF DeployInv
<1> QED BY InvariantHolds, <1>1, PTL

(***************************************************************************)
(* However many runs, with whatever switches, ended wherever they did: the *)
(* app can pull its image after every step, unless it pulls with a         *)
(* password and a run took the registry for missing.                       *)
(***************************************************************************)
THEOREM AppCanAlwaysPull == Spec => []AppCanPull
<1>1. DeployInv => AppCanPull
  BY DEF DeployInv
<1> QED BY InvariantHolds, <1>1, PTL

(***************************************************************************)
(* The secret the app holds is one its registration accepts, always with   *)
(* one registration, and with several after a successful rotation.         *)
(***************************************************************************)
THEOREM UsersCanSignIn == Spec => []SecretStaysValid
<1>1. DeployInv => SecretStaysValid
  BY DEF DeployInv
<1> QED BY InvariantHolds, <1>1, PTL

(***************************************************************************)
(* A step that replaces the signing key is one of a run whose lookup of    *)
(* the app failed.                                                         *)
(***************************************************************************)
THEOREM KeyIsKept == Spec => SigningKeyIsKept
<1> DEFINE Kept == app.exists =>
             /\ app'.exists
             /\ app'.key # app.key => <<runs, "app">> \in misread /\ app'.key = runs
<1>1. DeployInv /\ [Next]_vars => [Kept]_vars
  <2> SUFFICES ASSUME DeployInv, [Next]_vars, app.exists
               PROVE  /\ app'.exists
                      /\ app'.key # app.key => <<runs, "app">> \in misread /\ app'.key = runs
    BY DEF vars
  <2>1. app \in App
    BY AppIsComplete DEF DeployInv
  <2>2. CASE CreateApp
    BY <2>2 DEF DeployInv, KnownApp, BeforeApp, CreateApp
  <2>3. CASE app' = app
    BY <2>3
  <2>4. CASE UpdateApp \/ PullWithIdentity \/ Roll
    BY <2>1, <2>4 DEF UpdateApp, PullWithIdentity, Roll, App
  <2>5. app' = app \/ CreateApp \/ UpdateApp \/ PullWithIdentity \/ Roll
    BY DEF Next, vars, cloud, entra, azure, locals, Start, RejectInput, Stop, Healthy, Ensure,
       Register, ResourceGroup, FindRegistration, CreateRegistration, SetIdentifier, ExposeScope,
       SetPermissions, EnsurePrincipal, AdminConsent, LookForApp, IssueSecret, KeepSecret, SkipFoundry,
       EnsureFoundry, EnsureProject, MissProject, EnsureModel, FindRegistry, CreateRegistry, Build,
       KeepImage, EnsureStorage, EnsureEnvironment, GrantPull, GrantRole, GrantTables, GrantOpenAI,
       CloseAdmin, SetRedirects
  <2> QED BY <2>2, <2>3, <2>4, <2>5
<1> QED BY InvariantHolds, <1>1, PTL DEF Spec, SigningKeyIsKept

-----------------------------------------------------------------------------
\* The steps up to the one that makes a thing; from the next on the run has seen it.
UpToGroup == {"off", "group"}
UpToRegistration == UpToGroup \cup {"registration"}
UpToScope == UpToRegistration \cup {"identifier", "scope"}
UpToPermissions == UpToScope \cup {"permissions"}
UpToPrincipal == UpToPermissions \cup {"principal"}
UpToConsent == UpToPrincipal \cup {"consent"}
UpToProject == UpToConsent \cup {"secret", "foundry", "project"}
UpToModel == UpToProject \cup {"model"}
UpToRegistry == UpToModel \cup {"registry"}
UpToStorage == UpToRegistry \cup {"build", "storage"}
UpToEnvironment == UpToStorage \cup {"environment"}
UpToApp == UpToEnvironment \cup {"app"}
UpToPull == UpToApp \cup {"pull"}
UpToRoll == UpToPull \cup {"identity", "roll"}
UpToTables == UpToRoll \cup {"tables"}
UpToOpenAI == UpToTables \cup {"openai"}
UpToRedirect == UpToOpenAI \cup {"admin", "redirect"}

MadeInv ==
    /\ at \notin UpToGroup => "group" \in made
    /\ at \notin UpToScope => <<client, "scope">> \in parts
    /\ at \notin UpToPermissions => <<client, "permissions">> \in parts
    /\ at \notin UpToPrincipal => <<client, "principal">> \in parts
    /\ at \notin UpToConsent => <<client, "consent">> \in parts
    /\ at \notin UpToProject => switches.skipFoundry \/ "project" \in made \cup warned
    /\ at \notin UpToModel => switches.skipFoundry \/ "model" \in made
    /\ at \notin UpToRegistry => "registry" \in made
    /\ at \notin UpToStorage => "storage" \in made
    /\ at \notin UpToEnvironment => "environment" \in made
    /\ at \notin UpToPull => "AcrPull" \in roles \cup warned
    /\ at \notin UpToTables => "foundry" \in made /\ "tables" \in roles \cup warned
    /\ at \notin UpToOpenAI => "openai" \in roles \cup warned
    /\ at \notin UpToRedirect => <<client, "redirect">> \in parts

\* What the run has done with the image and the secret it holds.
HeldInv ==
    /\ at # "off" => outcome = "none"
    /\ at \in BeforeApp /\ switches.rotate => clientSecret = runs
    /\ at \notin UpToRegistry \cup {"build"} /\ ~ switches.skipBuild => image = runs
    /\ at \notin UpToApp => app.exists
    /\ at \notin UpToApp /\ switches.rotate => app.secret = runs
    /\ at \notin UpToRoll => app.image = image

CompleteInv == MadeInv /\ HeldInv /\ DeployedIsComplete

\* Before the first run, no step has been reached and no success reported.
LEMMA CompleteInit == Init => CompleteInv
BY DEF Init, CompleteInv, MadeInv, HeldInv, DeployedIsComplete, BeforeApp, UpToGroup, UpToRegistration,
   UpToScope, UpToPermissions, UpToPrincipal, UpToConsent, UpToProject, UpToModel, UpToRegistry,
   UpToStorage, UpToEnvironment, UpToApp, UpToPull, UpToRoll, UpToTables, UpToOpenAI, UpToRedirect

\* Nothing that was made is unmade, and each step makes its own, or warns, before the next.
LEMMA MadeNext == MadeInv /\ [Next]_vars => MadeInv'
<1> SUFFICES ASSUME MadeInv, [Next]_vars PROVE MadeInv'
  OBVIOUS
<1> USE DEF MadeInv, cloud, entra, azure, locals, UpToGroup, UpToRegistration, UpToScope,
        UpToPermissions, UpToPrincipal, UpToConsent, UpToProject, UpToModel, UpToRegistry, UpToStorage,
        UpToEnvironment, UpToApp, UpToPull, UpToRoll, UpToTables, UpToOpenAI, UpToRedirect
<1>1. CASE Start \/ RejectInput \/ Stop \/ Healthy
  BY <1>1 DEF Start, RejectInput, Stop, Healthy
<1>2. CASE ResourceGroup \/ FindRegistration \/ CreateRegistration
  BY <1>2 DEF ResourceGroup, FindRegistration, CreateRegistration, Ensure
<1>3. CASE SetIdentifier \/ ExposeScope \/ SetPermissions \/ EnsurePrincipal \/ AdminConsent
  BY <1>3 DEF SetIdentifier, ExposeScope, SetPermissions, EnsurePrincipal, AdminConsent, Register
<1>4. CASE IssueSecret \/ KeepSecret
  BY <1>4 DEF IssueSecret, KeepSecret, LookForApp
<1>5. CASE SkipFoundry \/ EnsureFoundry \/ EnsureProject \/ MissProject \/ EnsureModel
  BY <1>5 DEF SkipFoundry, EnsureFoundry, EnsureProject, MissProject, EnsureModel, Ensure
<1>6. CASE FindRegistry \/ CreateRegistry
  BY <1>6 DEF FindRegistry, CreateRegistry
<1>7. CASE Build \/ KeepImage \/ EnsureStorage \/ EnsureEnvironment
  BY <1>7 DEF Build, KeepImage, EnsureStorage, EnsureEnvironment, Ensure
<1>8. CASE CreateApp \/ UpdateApp \/ PullWithIdentity \/ Roll
  BY <1>8 DEF CreateApp, UpdateApp, PullWithIdentity, Roll
<1>9. CASE GrantPull \/ GrantTables \/ GrantOpenAI
  BY <1>9 DEF GrantPull, GrantTables, GrantOpenAI, GrantRole
<1>10. CASE CloseAdmin \/ SetRedirects
  BY <1>10 DEF CloseAdmin, SetRedirects, Register
<1>11. CASE UNCHANGED vars
  BY <1>11 DEF vars
<1> QED
  BY <1>1, <1>2, <1>3, <1>4, <1>5, <1>6, <1>7, <1>8, <1>9, <1>10, <1>11 DEF Next

\* The run hands its secret and its image to the app, made anew or found.
LEMMA HeldNext == DeployInv /\ HeldInv /\ [Next]_vars => HeldInv'
<1> SUFFICES ASSUME DeployInv, HeldInv, [Next]_vars PROVE HeldInv'
  OBVIOUS
<1>1. runs # None
  BY RunsAssumption DEF DeployInv, TypeOK, Run, None
<1>2. app.exists => app \in App
  BY AppIsComplete DEF DeployInv
<1> USE DEF HeldInv, cloud, entra, azure, locals, BeforeApp, UpToGroup, UpToRegistration, UpToScope,
        UpToPermissions, UpToPrincipal, UpToConsent, UpToProject, UpToModel, UpToRegistry,
        UpToStorage, UpToEnvironment, UpToApp, UpToPull, UpToRoll
<1>3. CASE Start \/ RejectInput \/ Stop \/ Healthy
  BY <1>3 DEF Start, RejectInput, Stop, Healthy
<1>4. CASE ResourceGroup \/ FindRegistration \/ CreateRegistration
  BY <1>4 DEF ResourceGroup, FindRegistration, CreateRegistration, Ensure
<1>5. CASE SetIdentifier \/ ExposeScope \/ SetPermissions \/ EnsurePrincipal \/ AdminConsent
  BY <1>5 DEF SetIdentifier, ExposeScope, SetPermissions, EnsurePrincipal, AdminConsent, Register
<1>6. CASE IssueSecret \/ KeepSecret
  BY <1>6 DEF IssueSecret, KeepSecret, LookForApp
<1>7. CASE SkipFoundry \/ EnsureFoundry \/ EnsureProject \/ MissProject \/ EnsureModel
  BY <1>7 DEF SkipFoundry, EnsureFoundry, EnsureProject, MissProject, EnsureModel, Ensure
<1>8. CASE FindRegistry \/ CreateRegistry \/ Build \/ KeepImage \/ EnsureStorage
           \/ EnsureEnvironment
  BY <1>8 DEF FindRegistry, CreateRegistry, Build, KeepImage, EnsureStorage, EnsureEnvironment, Ensure
<1>9. CASE CreateApp
  BY <1>9 DEF CreateApp
<1>10. CASE UpdateApp
  <2>1. app.exists /\ app \in App
    BY <1>2, <1>10 DEF UpdateApp, DeployInv, KnownApp
  <2> QED BY <1>1, <1>10, <2>1 DEF UpdateApp, App
<1>11. CASE GrantPull \/ GrantTables \/ GrantOpenAI
  BY <1>11 DEF GrantPull, GrantTables, GrantOpenAI, GrantRole
<1>12. CASE PullWithIdentity \/ Roll
  <2>1. app.exists /\ app \in App
    BY <1>2, <1>12 DEF PullWithIdentity, Roll
  <2> QED BY <1>12, <2>1 DEF PullWithIdentity, Roll, App
<1>13. CASE CloseAdmin \/ SetRedirects
  BY <1>13 DEF CloseAdmin, SetRedirects, Register
<1>14. CASE UNCHANGED vars
  BY <1>14 DEF vars
<1> QED
  BY <1>3, <1>4, <1>5, <1>6, <1>7, <1>8, <1>9, <1>10, <1>11, <1>12, <1>13, <1>14 DEF Next

(***************************************************************************)
(* A run that reports success has made or warned of everything that lines  *)
(* 6-17 list, whatever earlier runs left half-done and whatever lookup     *)
(* failed, but for the identifier URI.                                     *)
(***************************************************************************)
THEOREM DeployedRunsAreComplete == Spec => []DeployedIsComplete
<1>1. DeployInv /\ CompleteInv /\ [Next]_vars => CompleteInv'
  <2> SUFFICES ASSUME DeployInv, CompleteInv, [Next]_vars PROVE CompleteInv'
    OBVIOUS
  <2>1. MadeInv' /\ HeldInv'
    BY MadeNext, HeldNext DEF CompleteInv
  <2>2. CASE Healthy
    <3>1. client \in registrations /\ app.client = client
      BY <2>2 DEF Healthy, DeployInv, KnownClient, KnownApp, BeforeClient, AfterRoll
    <3>2. /\ {client} \X (Part \ {"identifier"}) \subseteq parts
          /\ Resource \ {"model", "project"} \subseteq made
          /\ switches.skipFoundry \/ ("model" \in made /\ "project" \in made \cup warned)
          /\ Role \subseteq roles \cup warned
      BY <2>2 DEF Healthy, CompleteInv, MadeInv, Part, Resource, Role, UpToGroup, UpToRegistration,
         UpToScope, UpToPermissions, UpToPrincipal, UpToConsent, UpToProject, UpToModel, UpToRegistry,
         UpToStorage, UpToEnvironment, UpToApp, UpToPull, UpToRoll, UpToTables, UpToOpenAI,
         UpToRedirect
    <3>3. /\ app.exists /\ app.image = image
          /\ ~ switches.skipBuild => app.image = runs
          /\ switches.rotate => app.secret = runs
      BY <2>2 DEF Healthy, CompleteInv, HeldInv, UpToGroup, UpToRegistration,
         UpToScope, UpToPermissions, UpToPrincipal, UpToConsent, UpToProject, UpToModel, UpToRegistry,
         UpToStorage, UpToEnvironment, UpToApp, UpToPull, UpToRoll
    <3>4. DeployedIsComplete'
      BY <2>2, <3>1, <3>2, <3>3 DEF Healthy, DeployedIsComplete, cloud, entra, azure, locals
    <3> QED BY <2>1, <3>4 DEF CompleteInv
  <2>3. CASE outcome' # "deployed"
    BY <2>1, <2>3 DEF CompleteInv, DeployedIsComplete
  <2>4. CASE UNCHANGED vars
    <3>1. DeployedIsComplete'
      BY <2>4 DEF vars, CompleteInv, DeployedIsComplete
    <3> QED BY <2>1, <3>1 DEF CompleteInv
  <2>5. Healthy \/ outcome' # "deployed" \/ UNCHANGED vars
    BY DEF CompleteInv, HeldInv, Next, Start, RejectInput, Stop, Ensure, Register, ResourceGroup,
       FindRegistration, CreateRegistration, SetIdentifier, ExposeScope, SetPermissions,
       EnsurePrincipal, AdminConsent, LookForApp, IssueSecret, KeepSecret, SkipFoundry, EnsureFoundry,
       EnsureProject, MissProject, EnsureModel, FindRegistry, CreateRegistry, Build, KeepImage,
       EnsureStorage, EnsureEnvironment, CreateApp, UpdateApp, GrantPull, PullWithIdentity, Roll,
       GrantRole, GrantTables, GrantOpenAI, CloseAdmin, SetRedirects
  <2> QED BY <2>1, <2>2, <2>3, <2>4, <2>5 DEF CompleteInv
<1>2. CompleteInv => DeployedIsComplete
  BY DEF CompleteInv
<1> QED BY InvariantHolds, CompleteInit, <1>1, <1>2, PTL DEF Spec

-----------------------------------------------------------------------------
\* No run ends between creating the registration and setting its identifier URI.
IdentifierStepRuns == [][at = "identifier" => ~ Stop]_vars

\* A registration has its identifier URI or the run that made it is about to set it.
IdentifierInv ==
    /\ outcome = "deployed" => at = "off"
    /\ \A r \in registrations :
          <<r, "identifier">> \in parts \/ (at = "identifier" /\ r = client)

LEMMA IdentifierNext ==
    IdentifierInv /\ [Next]_vars /\ [at = "identifier" => ~ Stop]_vars => IdentifierInv'
  <1> SUFFICES ASSUME IdentifierInv, [Next]_vars, [at = "identifier" => ~ Stop]_vars
               PROVE  IdentifierInv'
    OBVIOUS
  <1> USE DEF IdentifierInv, entra, azure
  <1>1. ASSUME NEW step, NEW thing, NEW next, Ensure(step, thing, next), step \notin {"off", "identifier"}
        PROVE  IdentifierInv'
    BY <1>1 DEF Ensure
  <1>2. ASSUME NEW step, NEW part, NEW next, Register(step, part, next), step # "off",
               step = "identifier" => part = "identifier"
        PROVE  IdentifierInv'
    BY <1>2 DEF Register
  <1>3. CASE CreateRegistration
    BY <1>3 DEF CreateRegistration
  <1>4. CASE Start \/ RejectInput \/ Healthy
    BY <1>4 DEF Start, RejectInput, Healthy, cloud
  <1>5. CASE Stop
    BY <1>5 DEF Stop, cloud, vars
  <1>6. CASE FindRegistration \/ SkipFoundry \/ MissProject \/ FindRegistry \/ CreateRegistry
    BY <1>6 DEF FindRegistration, SkipFoundry, MissProject, FindRegistry, CreateRegistry, cloud
  <1>7. CASE IssueSecret \/ KeepSecret \/ Build \/ KeepImage
    BY <1>7 DEF LookForApp, IssueSecret, KeepSecret, Build, KeepImage, cloud
  <1>8. CASE CreateApp \/ UpdateApp \/ PullWithIdentity \/ Roll \/ CloseAdmin
    BY <1>8 DEF CreateApp, UpdateApp, PullWithIdentity, Roll, CloseAdmin
  <1>9. CASE GrantPull \/ GrantTables \/ GrantOpenAI
    BY <1>9 DEF GrantPull, GrantTables, GrantOpenAI, GrantRole
  <1>10. CASE SetIdentifier \/ ExposeScope \/ SetPermissions \/ EnsurePrincipal \/ AdminConsent
              \/ SetRedirects
    BY <1>2, <1>10 DEF SetIdentifier, ExposeScope, SetPermissions, EnsurePrincipal, AdminConsent,
                       SetRedirects
  <1>11. CASE ResourceGroup \/ EnsureFoundry \/ EnsureProject \/ EnsureModel \/ EnsureStorage
              \/ EnsureEnvironment
    BY <1>1, <1>11 DEF ResourceGroup, EnsureFoundry, EnsureProject, EnsureModel, EnsureStorage,
                       EnsureEnvironment
  <1>12. CASE UNCHANGED vars
    BY <1>12 DEF vars
  <1> QED
    BY <1>3, <1>4, <1>5, <1>6, <1>7, <1>8, <1>9, <1>10, <1>11, <1>12 DEF Next

(***************************************************************************)
(* What "idempotently" (line 6) is worth: the step between lines 175 and   *)
(* 178 is the only one whose interruption leaves a later successful run    *)
(* without its identifier URI, whatever else ends early and however often. *)
(***************************************************************************)
THEOREM IdentifierIsSetUnlessInterrupted ==
    Spec /\ IdentifierStepRuns => []DeployedHasIdentifier
  <1>1. Init => IdentifierInv
    BY DEF Init, Fresh, Earlier, IdentifierInv, Part
  <1>2. IdentifierInv /\ DeployedIsComplete => DeployedHasIdentifier
    BY DEF IdentifierInv, DeployedIsComplete, DeployedHasIdentifier
  <1> QED
    BY <1>1, <1>2, IdentifierNext, DeployedRunsAreComplete, PTL DEF Spec, IdentifierStepRuns

=============================================================================
