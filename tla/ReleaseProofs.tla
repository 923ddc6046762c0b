---------------------------- MODULE ReleaseProofs ----------------------------
(***************************************************************************)
(* Proofs about Release, for every set of folders, recipes, models,        *)
(* clients and keys.                                                       *)
(***************************************************************************)
EXTENDS Release, TLAPS

\* What an approved folder promises the rows of the catalog; more recipes only help.
RowsFound(f) == \A ref \in Listed(f.models) : Found(ref, f.recipes)

(***************************************************************************)
(* The inductive invariant: the verdict of the check is about the folder   *)
(* as it is, and travels with it into the image, the revision and the      *)
(* running server, which is what a start makes of the revision.            *)
(***************************************************************************)
Sound(i) == i.built /\ i.vetted => RowsFound(i.skills)

ReleaseInv ==
    /\ folder \in Folder
    /\ approved => Accepted(folder)
    /\ Sound(image) /\ Sound(revision.image)
    /\ revision # NoRevision => revision.image.built
    /\ deploying = "built" => image.built
    /\ deploying = "config" => revision # NoRevision
    /\ Up /\ server.vetted => \A ref \in server.listed : ref.lower /\ ref.name \in server.names

\* An image made without example recipes holds the folder it was made of.
ImageInv == image.built /\ image.vetted => Accepted(image.skills)

\* The server is what a start makes of the revision; a reported deploy has one, and it is up.
RolloutInv ==
    /\ revision # NoRevision => server = Started(revision.image, revision.env)
    /\ deploying = "rolled" \/ reported => revision # NoRevision
    /\ reported => Up

-----------------------------------------------------------------------------
\* Laying a folder over the example recipes hides none of its own.
LEMMA LayeredFinds ==
    ASSUME NEW f \in Folder, NEW mode, Accepted(f)
    PROVE  RowsFound(Layered(f, mode))
  <1>1. /\ Layered(f, mode).models = f.models
        /\ f.recipes \subseteq Layered(f, mode).recipes
    BY DEF Layered, Folder
  <1>2. \A ref \in Listed(f.models) : Found(ref, f.recipes)
    BY DEF Accepted
  <1>3. ASSUME NEW ref, Found(ref, f.recipes)
        PROVE  Found(ref, Layered(f, mode).recipes)
    BY <1>1, <1>3 DEF Found, NamesOf
  <1> QED
    BY <1>1, <1>2, <1>3 DEF RowsFound

\* Without examples, nothing is laid under it.
LEMMA LayeredAlone ==
    ASSUME NEW f \in Folder, NEW mode, Example = {}
    PROVE  Layered(f, mode) = f
  BY DEF Layered, Folder

\* What is served of a sound image was found by the check.
LEMMA StartedServes ==
    ASSUME NEW i, NEW env, Sound(i), i.built, Started(i, env).at = "up", Started(i, env).vetted
    PROVE  \A ref \in Started(i, env).listed :
              ref.lower /\ ref.name \in Started(i, env).names
  <1>1. Started(i, env) = Loaded(i, env)
    BY DEF Started, Refusing
  <1>2. /\ Loaded(i, env).vetted = i.vetted /\ Loaded(i, env).listed = Listed(i.skills.models)
        /\ Loaded(i, env).names = NamesOf(i.skills.recipes)
    BY DEF Loaded
  <1>3. RowsFound(i.skills)
    BY <1>1, <1>2 DEF Sound
  <1> QED
    BY <1>1, <1>2, <1>3 DEF RowsFound, Found

LEMMA ReleaseInvInit == Init => ReleaseInv
  BY FolderAssumption DEF Init, ReleaseInv, Sound, NoImage, NoRevision, Up, Down

\* What the steps of the check and of the folder keep of the invariant.
LEMMA RevisionKept ==
    ASSUME ReleaseInv, UNCHANGED <<image, rollout, server>>
    PROVE  /\ Sound(image)' /\ Sound(revision.image)'
           /\ revision' # NoRevision => revision'.image.built
           /\ (Up /\ server.vetted =>
                  \A ref \in server.listed : ref.lower /\ ref.name \in server.names)'
  BY DEF ReleaseInv, rollout, Sound, RowsFound, Up

\* A start from a sound image, with the folder and the script as they were or further.
LEMMA NewRevisionKept ==
    ASSUME ReleaseInv, NEW i, NEW env, Sound(i), i.built,
           revision' = [image |-> i, env |-> env], server' = Started(i, env), UNCHANGED image
    PROVE  /\ Sound(image)' /\ Sound(revision.image)'
           /\ revision' # NoRevision /\ revision'.image.built
           /\ (Up /\ server.vetted =>
                  \A ref \in server.listed : ref.lower /\ ref.name \in server.names)'
  <1>1. revision'.image = i
    OBVIOUS
  <1>2. Sound(image)' /\ Sound(revision.image)'
    BY <1>1 DEF ReleaseInv, Sound, RowsFound
  <1>3. revision' # NoRevision
    <2>1. NoRevision.image = NoImage /\ ~ NoImage.built
      BY DEF NoRevision, NoImage
    <2> QED
      BY <1>1, <2>1
  <1> QED
    BY <1>1, <1>2, <1>3, StartedServes DEF Up

\* Every step keeps the invariant.
LEMMA ReleaseInvNext == ReleaseInv /\ [Next]_vars => ReleaseInv'
  <1> SUFFICES ASSUME ReleaseInv, [Next]_vars
               PROVE  ReleaseInv'
    OBVIOUS
  <1> USE DEF skills
  <1>1. ASSUME NEW f \in Folders, Edit(f)
        PROVE  ReleaseInv'
    BY <1>1, RevisionKept, FolderAssumption DEF Edit, ReleaseInv, rollout
  <1>2. CASE Check
    BY <1>2, RevisionKept DEF Check, ReleaseInv, rollout
  <1>3. ASSUME NEW mode \in {"source", "engine", "config"}, NEW canCheck \in BOOLEAN,
               BeginDeploy(mode, canCheck)
        PROVE  ReleaseInv'
    <2>1. approved' => Accepted(folder)
      BY <1>3 DEF BeginDeploy, ReleaseInv
    <2> QED
      BY <1>3, <2>1, RevisionKept DEF BeginDeploy, ReleaseInv, rollout
  <1>4. CASE EndDeploy
    BY <1>4, RevisionKept DEF EndDeploy, ReleaseInv, rollout
  <1>5. CASE Build
    <2>1. /\ image' = Built(Layered(folder, deploying), approved)
          /\ deploying' = "built"
          /\ UNCHANGED <<folder, approved, revision, server>>
      BY <1>5 DEF Build, rollout
    <2>2. /\ image'.built /\ image'.skills = Layered(folder, deploying)
          /\ image'.vetted = approved
      BY <2>1 DEF Built
    <2>3. approved => RowsFound(Layered(folder, deploying))
      BY LayeredFinds DEF ReleaseInv
    <2>4. Sound(image)'
      BY <2>2, <2>3 DEF Sound, RowsFound
    <2> QED
      BY <2>1, <2>2, <2>4 DEF ReleaseInv, Sound, RowsFound, Up
  <1>6. ASSUME NEW key, Roll(key)
        PROVE  ReleaseInv'
    <2> DEFINE i == IF deploying = "built" THEN image ELSE revision.image
               env == [account |-> TRUE, key |-> key]
    <2>1. /\ revision' = [image |-> i, env |-> env] /\ server' = Started(i, env)
          /\ deploying' = "rolled" /\ UNCHANGED <<folder, approved, image>>
      BY <1>6 DEF Roll, NewRevision
    <2>2. Sound(i) /\ i.built
      BY <1>6 DEF Roll, ReleaseInv
    <2> HIDE DEF i, env
    <2> QED
      BY <2>1, <2>2, NewRevisionKept DEF ReleaseInv
  <1>7. CASE Answer
    BY <1>7 DEF Answer, ReleaseInv, Sound, RowsFound, Up
  <1>8. ASSUME NEW env, Configure(env)
        PROVE  ReleaseInv'
    <2>1. /\ revision' = [image |-> revision.image, env |-> env]
          /\ server' = Started(revision.image, env)
          /\ Sound(revision.image) /\ revision.image.built
          /\ UNCHANGED <<folder, approved, deploying, image>>
      BY <1>8 DEF Configure, NewRevision, ReleaseInv
    <2> QED
      BY <2>1, NewRevisionKept DEF ReleaseInv
  <1>9. CASE Restart
    <2>1. /\ revision.image.built /\ Sound(revision.image)
          /\ server' = Started(revision.image, revision.env)
          /\ UNCHANGED <<folder, approved, deploying, image, revision>>
      BY <1>9 DEF Restart, rollout, ReleaseInv
    <2>2. (Up /\ server.vetted =>
             \A ref \in server.listed : ref.lower /\ ref.name \in server.names)'
      BY <2>1, StartedServes DEF Up
    <2> QED
      BY <2>1, <2>2 DEF ReleaseInv, Sound, RowsFound
  <1>10. ASSUME NEW c \in Client, SignIn(c)
         PROVE  ReleaseInv'
    BY <1>10, RevisionKept DEF SignIn, ReleaseInv, rollout
  <1>11. CASE Remember
    BY <1>11, RevisionKept DEF Remember, ReleaseInv, rollout
  <1>12. CASE UNCHANGED vars
    BY <1>12, RevisionKept DEF vars, ReleaseInv, rollout
  <1> QED
    BY <1>1, <1>2, <1>3, <1>4, <1>5, <1>6, <1>7, <1>8, <1>9, <1>10, <1>11, <1>12 DEF Next

(***************************************************************************)
(* Whatever example recipes the image brings, every recipe a catalog row   *)
(* names is served under that name once the folder was checked.            *)
(***************************************************************************)
THEOREM RowsAreServed == Spec => []RowsNameServedRecipes
  <1>1. ReleaseInv => RowsNameServedRecipes
    BY DEF ReleaseInv, RowsNameServedRecipes, Fetched
  <1> QED
    BY <1>1, ReleaseInvInit, ReleaseInvNext, PTL DEF Spec

-----------------------------------------------------------------------------
(***************************************************************************)
(* An image of a checked folder loads, if it brings no recipes of its own: *)
(* the assumption is what -EngineImage breaks.                             *)
(***************************************************************************)
THEOREM CheckedFoldersStart ==
    ASSUME Example = {}
    PROVE  Spec => []CheckedFolderStarts
  <1>1. Init => ImageInv
    BY DEF Init, ImageInv, NoImage
  <1>2. ReleaseInv /\ ImageInv /\ [Next]_vars => ImageInv'
    <2> SUFFICES ASSUME ReleaseInv, ImageInv, [Next]_vars
                 PROVE  ImageInv'
      OBVIOUS
    <2>1. CASE Build
      <3>1. /\ image'.skills = Layered(folder, deploying) /\ image'.vetted = approved
            /\ Layered(folder, deploying) = folder
        BY <2>1, LayeredAlone DEF Build, Built, ReleaseInv
      <3> QED
        BY <3>1 DEF ReleaseInv, ImageInv
    <2>2. CASE UNCHANGED image
      BY <2>2 DEF ImageInv
    <2> QED
      BY <2>1, <2>2
      DEF Next, vars, Edit, Check, BeginDeploy, EndDeploy, Roll, Answer, Configure, Restart,
          SignIn, Remember
  <1>3. ImageInv => CheckedFolderStarts
    BY DEF ImageInv, CheckedFolderStarts, Accepted, Loads
  <1> QED
    BY <1>1, <1>2, <1>3, ReleaseInvInit, ReleaseInvNext, PTL DEF Spec

(***************************************************************************)
(* A deploy that was reported stands: the script says so of a server that  *)
(* is up, and every restart brings that one back until the next rollout.   *)
(***************************************************************************)
THEOREM DeploysStand == Spec => DeployStands
  <1> USE DEF rollout
  <1>1. Init => RolloutInv
    BY DEF Init, RolloutInv
  <1>2. ASSUME RolloutInv, ReleaseInv, [Next]_vars
        PROVE  RolloutInv'
    <2>1. ASSUME NEW i, NEW env, i.built, NewRevision(i, env)
          PROVE  RolloutInv'
      <3>1. /\ revision' = [image |-> i, env |-> env] /\ server' = Started(i, env)
            /\ ~ reported'
        BY <2>1 DEF NewRevision
      <3>2. revision'.image = i /\ revision'.env = env
        BY <3>1
      <3>3. revision' # NoRevision
        BY <2>1, <3>2 DEF NoRevision, NoImage
      <3> QED
        BY <3>1, <3>2, <3>3 DEF RolloutInv
    <2>2. ASSUME NEW key, Roll(key)
          PROVE  RolloutInv'
      <3>1. (IF deploying = "built" THEN image ELSE revision.image).built
        BY <1>2, <2>2 DEF Roll, ReleaseInv
      <3> QED
        BY <2>1, <2>2, <3>1 DEF Roll
    <2>3. ASSUME NEW env, Configure(env)
          PROVE  RolloutInv'
      BY <1>2, <2>1, <2>3 DEF Configure, ReleaseInv
    <2>4. CASE Restart
      <3>1. server' = server
        BY <1>2, <2>4 DEF Restart, RolloutInv
      <3> QED
        BY <1>2, <2>4, <3>1 DEF Restart, RolloutInv, Up
    <2>5. CASE Answer
      BY <1>2, <2>5 DEF Answer, RolloutInv, Up
    <2>6. ASSUME UNCHANGED <<revision, reported, server>>, deploying' # "rolled" \/ UNCHANGED deploying
          PROVE  RolloutInv'
      BY <1>2, <2>6 DEF RolloutInv, Up
    <2>7. CASE Build
      BY <2>6, <2>7 DEF Build
    <2>8. ASSUME NEW mode \in {"source", "engine", "config"}, NEW canCheck, BeginDeploy(mode, canCheck)
          PROVE  RolloutInv'
      BY <2>6, <2>8 DEF BeginDeploy
    <2>9. CASE EndDeploy
      BY <2>6, <2>9 DEF EndDeploy
    <2> QED
      BY <1>2, <2>2, <2>3, <2>4, <2>5, <2>6, <2>7, <2>8, <2>9
      DEF Next, vars, Edit, Check, SignIn, Remember
  <1>3. ASSUME RolloutInv, RolloutInv', [Next]_vars
        PROVE  [reported' => Up' /\ (reported => server' = server)]_vars
    <2>1. reported' => Up'
      BY <1>3 DEF RolloutInv, Up
    <2>2. ASSUME reported, reported'
          PROVE  server' = server
      <3>1. CASE Restart
        BY <1>3, <2>2, <3>1 DEF Restart, RolloutInv
      <3> QED
        BY <1>3, <2>2, <3>1
        DEF Next, vars, Edit, Check, BeginDeploy, EndDeploy, Build, Roll, NewRevision, Answer,
            Configure, SignIn, Remember
    <2> QED
      BY <2>1, <2>2
  <1> QED
    BY <1>1, <1>2, <1>3, ReleaseInvInit, ReleaseInvNext, PTL DEF Spec, DeployStands

(***************************************************************************)
(* Neither a restart nor a deploy loses a sign-in or a note that is in the *)
(* storage account.                                                        *)
(***************************************************************************)
THEOREM StateIsKept == Spec => StateSurvives
  <1> DEFINE Account == Up /\ server.env.account /\ Up' /\ server'.env.account
             TableInv == table = [c \in Client |-> table[c]]
             Survives ==
                Account =>
                   /\ Remembered => Remembered'
                   /\ server'.env.key = server.env.key =>
                         \A c \in Client : SignedIn(c) => SignedIn(c)'
  <1>1. ASSUME Next
        PROVE  /\ \/ \E c \in Client : SignIn(c)
                  \/ UNCHANGED table
               /\ "table" \in notes => "table" \in notes'
    BY <1>1
    DEF Next, stores, OnEmptyDisk, Edit, Check, BeginDeploy, EndDeploy, Build, Roll, NewRevision,
        Answer, Configure, Restart, SignIn, Remember
  <1>2. ASSUME Next, Account, Remembered
        PROVE  Remembered'
    <2>1. "table" \in notes
      BY <1>2 DEF Remembered, NotesIn
    <2> QED
      BY <1>1, <1>2, <2>1 DEF Remembered, NotesIn, Up
  <1>3. ASSUME Next, Account, server'.env.key = server.env.key, NEW c \in Client, SignedIn(c),
               TableInv
        PROVE  SignedIn(c)'
    <2>1. server.env.key # NoKey /\ table[c] = server.env.key
      BY <1>3 DEF SignedIn, StateIn, Readable
    <2>2. CASE \E d \in Client : SignIn(d)
      <3>1. PICK d \in Client : table' = [table EXCEPT ![d] = server.env.key]
        BY <1>3, <2>2 DEF SignIn, StateIn
      <3> QED
        BY <1>3, <2>1, <3>1 DEF SignedIn, StateIn, Readable, Up
    <2>3. CASE UNCHANGED table
      BY <1>3, <2>1, <2>3 DEF SignedIn, StateIn, Readable, Up
    <2> QED
      BY <1>1, <1>3, <2>2, <2>3
  <1>4. Init => TableInv
    BY DEF Init
  <1>5. TableInv /\ [Next]_vars => TableInv'
    <2> SUFFICES ASSUME TableInv, [Next]_vars
                 PROVE  TableInv'
      OBVIOUS
    <2>1. CASE \E d \in Client : SignIn(d)
      BY <2>1 DEF SignIn
    <2>2. CASE UNCHANGED table
      BY <2>2
    <2> QED
      BY <1>1, <2>1, <2>2 DEF vars
  <1>6. TableInv /\ [Next]_vars => [Survives]_vars
    BY <1>2, <1>3
  <1> QED
    BY <1>4, <1>5, <1>6, PTL DEF Spec, StateSurvives

-----------------------------------------------------------------------------
\* A running server serves names, lists spellings, and keeps its settings.
Running == [at : {"up"}, names : SUBSET Name, listed : SUBSET Spelling,
            vetted : BOOLEAN, env : Environment]

\* What the build makes of a folder is one, and what the server loads of one has its type.
LEMMA LayeredType ==
    ASSUME NEW f \in Folder, NEW mode
    PROVE  Layered(f, mode) \in Folder
  <1>1. Example \subseteq Spelling
    BY FolderAssumption
  <1>2. [f EXCEPT !.recipes = @ \cup Example] \in Folder
    BY <1>1 DEF Folder
  <1> QED
    BY <1>2 DEF Layered

LEMMA StartedType ==
    ASSUME NEW i \in Image, NEW env \in Environment
    PROVE  Started(i, env) \in {Refusing} \cup Running
  <1>1. i.skills \in Folder /\ i.vetted \in BOOLEAN
    BY DEF Image
  <1>2. i.skills.recipes \subseteq Spelling /\ i.skills.models \in Seq(CatalogEntry)
    BY <1>1 DEF Folder
  <1>3. NamesOf(i.skills.recipes) \subseteq Name
    BY <1>2 DEF NamesOf, Spelling
  <1>4. Listed(i.skills.models) \subseteq Spelling
    <2>1. \A k \in DOMAIN i.skills.models : i.skills.models[k].recipes \subseteq Spelling
      <3>1. \A k \in DOMAIN i.skills.models : i.skills.models[k] \in CatalogEntry
        BY <1>2
      <3>2. \A e \in CatalogEntry : e.recipes \subseteq Spelling
        BY DEF CatalogEntry
      <3> QED
        BY <3>1, <3>2
    <2> QED
      BY <2>1 DEF Listed, Curated
  <1> QED
    BY <1>1, <1>3, <1>4 DEF Started, Loaded, Running

\* What is no NoRevision, or no NoImage, is one with its parts.
LEMMA RevisionType ==
    ASSUME TypeOK
    PROVE  /\ revision # NoRevision => revision.image \in Image /\ revision.env \in Environment
           /\ image.built => image \in Image
  <1>1. ~ NoImage.built
    BY DEF NoImage
  <1> QED
    BY <1>1 DEF TypeOK

(***************************************************************************)
(* Whatever is edited, checked, built, rolled out and started: the server  *)
(* serves file stems, however the files are spelled, and the table keys.   *)
(***************************************************************************)
THEOREM TypesHold == Spec => []TypeOK
  <1>1. Init => TypeOK
    BY FolderAssumption DEF Init, TypeOK
  <1>2. TypeOK /\ ReleaseInv /\ [Next]_vars => TypeOK'
    <2> SUFFICES ASSUME TypeOK, ReleaseInv, [Next]_vars
                 PROVE  TypeOK'
      OBVIOUS
    <2> USE DEF skills, rollout, stores
    <2>1. ASSUME NEW f \in Folders, Edit(f)
          PROVE  TypeOK'
      BY <2>1, FolderAssumption DEF Edit, TypeOK
    <2>2. CASE Check
      <3>1. approved' \in BOOLEAN
        BY <2>2 DEF Check, Accepted
      <3> QED
        BY <2>2, <3>1 DEF Check, TypeOK
    <2>3. ASSUME NEW mode \in {"source", "engine", "config"}, NEW canCheck \in BOOLEAN,
                 BeginDeploy(mode, canCheck)
          PROVE  TypeOK'
      BY <2>3 DEF BeginDeploy, TypeOK
    <2>4. CASE EndDeploy
      BY <2>4 DEF EndDeploy, TypeOK
    <2>5. CASE Build
      <3>1. image' \in Image
        BY <2>5, LayeredType DEF Build, Built, Image, TypeOK
      <3> QED
        BY <2>5, <3>1 DEF Build, TypeOK
    <2>6. ASSUME NEW i \in Image, NEW env \in Environment, NewRevision(i, env)
          PROVE  /\ revision' \in [image : Image, env : Environment] /\ reported' \in BOOLEAN
                 /\ server' \in {Refusing} \cup Running
                 /\ disk' \subseteq Client /\ notes' \subseteq Place /\ UNCHANGED table
      BY <2>6, StartedType DEF NewRevision, OnEmptyDisk, TypeOK
    <2>7. ASSUME NEW key \in Key \cup {NoKey}, Roll(key)
          PROVE  TypeOK'
      <3> DEFINE i == IF deploying = "built" THEN image ELSE revision.image
                 env == [account |-> TRUE, key |-> key]
      <3>1. NewRevision(i, env) /\ deploying' = "rolled" /\ UNCHANGED <<folder, approved, image>>
        BY <2>7 DEF Roll
      <3>2. i \in Image
        BY <2>7, RevisionType DEF Roll, ReleaseInv
      <3>3. env \in Environment
        BY DEF Environment
      <3> HIDE DEF i, env
      <3> QED
        BY <2>6, <3>1, <3>2, <3>3 DEF TypeOK, Running
    <2>8. CASE Answer
      BY <2>8 DEF Answer, TypeOK
    <2>9. ASSUME NEW env \in Environment, Configure(env)
          PROVE  TypeOK'
      <3>1. revision.image \in Image
        BY <2>9, RevisionType DEF Configure
      <3> QED
        BY <2>6, <2>9, <3>1 DEF Configure, TypeOK, Running
    <2>10. CASE Restart
      <3>1. server' \in {Refusing} \cup Running
        BY <2>10, RevisionType, StartedType DEF Restart
      <3> QED
        BY <2>10, <3>1 DEF Restart, OnEmptyDisk, TypeOK, Running
    <2>11. Up => server \in Running /\ server.env.key \in Key \cup {NoKey}
      <3>1. Up => server \in Running
        BY DEF TypeOK, Up, Running, Down, Refusing
      <3> QED
        BY <3>1 DEF Running, Environment
    <2>12. ASSUME NEW c \in Client, SignIn(c)
           PROVE  TypeOK'
      <3>1. table' \in [Client -> Key \cup {NoKey}] /\ disk' \subseteq Client
        BY <2>11, <2>12 DEF SignIn, TypeOK
      <3> QED
        BY <2>12, <3>1 DEF SignIn, TypeOK
    <2>13. CASE Remember
      BY <2>13 DEF Remember, TypeOK, NotesIn, Place
    <2>14. CASE UNCHANGED vars
      BY <2>14 DEF vars, TypeOK
    <2> QED
      BY <2>1, <2>2, <2>3, <2>4, <2>5, <2>7, <2>8, <2>9, <2>10, <2>12, <2>13, <2>14 DEF Next
  <1> QED
    BY <1>1, <1>2, ReleaseInvInit, ReleaseInvNext, PTL DEF Spec
=============================================================================
