------------------------------ MODULE Release ------------------------------
(***************************************************************************)
(* From a skills folder and settings to a server that answers: the check   *)
(* (__main__.py, validate.py), the deploy script's own use of it, the      *)
(* image (deploy/build_context.ps1, Dockerfile), the rollout and the       *)
(* script's wait for the new revision, the start of a server               *)
(* (build_server, Gateway.from_settings), and what survives the next start *)
(* (state_store.py, build_memories).                                       *)
(*                                                                         *)
(* The folder may be edited at any time, also between the script's check   *)
(* and its build; a run of the script may end after any of its steps; a    *)
(* replica restarts whenever it likes, on an empty disk.  With             *)
(* -EngineImage the folder is laid over the skills of the published image, *)
(* which holds the repository's example skills.                            *)
(*                                                                         *)
(* Taken from the script: a build is pushed under a tag of its own (its    *)
(* minute, if none is given), so a revision keeps its image; and /healthz  *)
(* is answered by the new revision or by none (deploy_to_azure.ps1:403).   *)
(* A run that takes the app for missing and creates it again is a matter   *)
(* of Deployment, not of this module.                                      *)
(***************************************************************************)
EXTENDS Skills

CONSTANTS
    Folders,  \* folders the operator may have
    Example,  \* recipe files in the engine image
    Client,   \* OAuth clients, by the key of their record
    Key,      \* values of jwt_signing_key
    NoKey

ASSUME FolderAssumption == Folders \subseteq Folder /\ Example \subseteq Spelling
ASSUME KeyAssumption == NoKey \notin Key

VARIABLES
    folder,    \* the skills folder
    approved,  \* the check accepted it, and it has not been edited since
    deploying, \* "off", or how far the script is: which build it will do, "built", "rolled"
    image,     \* the image of the last build, or NoImage
    revision,  \* the container app's revision: its image and settings, or NoRevision
    reported,  \* the script said "deployed" of this revision
    server,    \* what the running server loaded
    table,     \* client -> the key its record in the state table is encrypted with
    disk,      \* clients with a record on the server's own disk
    notes      \* where memories are: in the table, on the disk

skills == <<folder, approved>>
rollout == <<revision, reported>>
stores == <<table, disk, notes>>
vars == <<folder, approved, deploying, image, revision, reported, server, table, disk, notes>>

\* An image carries no verdict: `vetted` is this model's record of the folder it was made of.
NoImage == [built |-> FALSE]
Built(f, vetted) == [built |-> TRUE, skills |-> f, vetted |-> vetted]
Image == [built : {TRUE}, skills : Folder, vetted : BOOLEAN]
Environment == [account : BOOLEAN, key : Key \cup {NoKey}]
NoRevision == [image |-> NoImage]
Down == [at |-> "down"]
Refusing == [at |-> "refusing"]
Place == {"table", "disk"}

TypeOK ==
    /\ folder \in Folder
    /\ approved \in BOOLEAN /\ reported \in BOOLEAN
    /\ deploying \in {"off", "source", "engine", "config", "built", "rolled"}
    /\ image \in Image \cup {NoImage}
    /\ revision \in [image : Image, env : Environment] \cup {NoRevision}
    /\ server \in {Down, Refusing}
          \cup [at : {"up"}, names : SUBSET Name, listed : SUBSET Spelling,
                vetted : BOOLEAN, env : Environment]
    /\ table \in [Client -> Key \cup {NoKey}]
    /\ disk \subseteq Client
    /\ notes \subseteq Place

Init ==
    /\ folder \in Folders
    /\ approved = FALSE
    /\ deploying = "off" /\ image = NoImage
    /\ revision = NoRevision /\ reported = FALSE
    /\ server = Down
    /\ table = [c \in Client |-> NoKey] /\ disk = {} /\ notes = {}

-----------------------------------------------------------------------------
Edit(f) ==
    /\ f # folder
    /\ folder' = f /\ approved' = FALSE
    /\ UNCHANGED <<deploying, image, rollout, server, stores>>

\* `python -m powerbi_mcp --check-skills`.
Check ==
    /\ approved' = Accepted(folder)
    /\ UNCHANGED <<folder, deploying, image, rollout, server, stores>>

(***************************************************************************)
(* The script begins.  It looks for the required files, and runs the check *)
(* in a checkout with a virtual environment, but not with -EngineImage.    *)
(* -SkipBuild ("config") needs a container app and takes over its image.   *)
(***************************************************************************)
BeginDeploy(mode, canCheck) ==
    /\ deploying = "off"
    /\ folder.complete
    /\ mode = "config" => revision # NoRevision
    /\ mode # "engine" /\ canCheck => Accepted(folder)
    /\ deploying' = mode
    /\ approved' = (approved \/ (mode # "engine" /\ canCheck))
    /\ UNCHANGED <<folder, image, rollout, server, stores>>

\* The script fails, or is stopped: what it did stays.
EndDeploy ==
    /\ deploying # "off"
    /\ deploying' = "off"
    /\ UNCHANGED <<skills, image, rollout, server, stores>>

\* COPY puts the staged files next to, or over, what the image has.
Layered(f, mode) ==
    IF mode = "engine" THEN [f EXCEPT !.recipes = @ \cup Example] ELSE f

\* The folder as it is now is staged and built; without a required file the staging throws.
Build ==
    /\ deploying \in {"source", "engine"}
    /\ folder.complete
    /\ image' = Built(Layered(folder, deploying), approved)
    /\ deploying' = "built"
    /\ UNCHANGED <<skills, rollout, server, stores>>

-----------------------------------------------------------------------------
\* A storage account needs a signing key: build_client_storage raises without.
StorageBuilds(env) == env.account => env.key # NoKey

Loads(f) == SkillsLoad(f) /\ CatalogLoads(f)

\* Mutant of Loaded: recipes are served under the names their files are spelled with.
LoadedAsSpelled(i, env) ==
    [at |-> "up", names |-> i.skills.recipes, listed |-> Listed(i.skills.models),
     vetted |-> i.vetted, env |-> env]

\* What the server keeps of the folder: its recipes, and what its catalog rows list.
Loaded(i, env) ==
    [at |-> "up", names |-> NamesOf(i.skills.recipes), listed |-> Listed(i.skills.models),
     vetted |-> i.vetted, env |-> env]

Started(i, env) ==
    IF Loads(i.skills) /\ StorageBuilds(env) THEN Loaded(i, env) ELSE Refusing

\* A start: what was on the replica's disk is gone.
OnEmptyDisk == disk' = {} /\ notes' = notes \ {"disk"} /\ UNCHANGED table

NewRevision(i, env) ==
    /\ revision' = [image |-> i, env |-> env]
    /\ reported' = FALSE
    /\ server' = Started(i, env)
    /\ OnEmptyDisk

(***************************************************************************)
(* `containerapp create` with a fresh signing key, or `update`, which keeps*)
(* the key: with the run's image, or the one -SkipBuild read off the app,  *)
(* and always with a storage account.                                      *)
(***************************************************************************)
Roll(key) ==
    /\ deploying \in {"built", "config"}
    /\ IF revision = NoRevision THEN key \in Key ELSE key = revision.env.key
    /\ NewRevision(IF deploying = "built" THEN image ELSE revision.image,
                   [account |-> TRUE, key |-> key])
    /\ deploying' = "rolled"
    /\ UNCHANGED <<skills, image>>

Up == server.at = "up"

\* Mutant of Answer: the script does not wait for an answer.
AnswerUnasked ==
    /\ deploying = "rolled"
    /\ deploying' = "off" /\ reported' = TRUE
    /\ UNCHANGED <<skills, image, revision, server, stores>>

\* /healthz says ok, and the script that the server is deployed.
Answer ==
    /\ deploying = "rolled"
    /\ Up
    /\ deploying' = "off" /\ reported' = TRUE
    /\ UNCHANGED <<skills, image, revision, server, stores>>

\* An administrator gives the container app other settings: a revision without the script.
Configure(env) ==
    /\ revision # NoRevision
    /\ NewRevision(revision.image, env)
    /\ UNCHANGED <<skills, deploying, image>>

\* Mutant of Restart: the revision names powerbi-mcp:latest, which every build moves.
RestartLatest ==
    /\ revision # NoRevision
    /\ server' = IF image.built THEN Started(image, revision.env) ELSE server
    /\ OnEmptyDisk
    /\ UNCHANGED <<skills, deploying, image, rollout>>

\* A replica restarts, from the revision's image and settings.
Restart ==
    /\ revision # NoRevision
    /\ server' = Started(revision.image, revision.env)
    /\ OnEmptyDisk
    /\ UNCHANGED <<skills, deploying, image, rollout>>

-----------------------------------------------------------------------------
\* Mutant of StateIn: the state table is only used for the memories.
StateInDisk(env) == "disk"

\* Mutant of NotesIn: memories are written under memory_dir whatever is configured.
NotesInDisk(env) == "disk"

\* build_client_storage and build_memories: one storage account for both, or the disk for both.
StateIn(env) == IF env.account THEN "table" ELSE "disk"
NotesIn(env) == IF env.account THEN "table" ELSE "disk"

\* A user signs in: the proxy stores the client's record, over the one it may have.
SignIn(c) ==
    /\ Up
    /\ IF StateIn(server.env) = "table"
       THEN table' = [table EXCEPT ![c] = server.env.key] /\ UNCHANGED disk
       ELSE disk' = disk \cup {c} /\ UNCHANGED table
    /\ UNCHANGED <<skills, deploying, image, rollout, server, notes>>

Remember ==
    /\ Up
    /\ notes' = notes \cup {NotesIn(server.env)}
    /\ UNCHANGED <<skills, deploying, image, rollout, server, table, disk>>

\* A record under another key does not decrypt and reads as missing.
Readable(c, env) == env.key # NoKey /\ table[c] = env.key

SignedIn(c) ==
    Up /\ IF StateIn(server.env) = "table" THEN Readable(c, server.env) ELSE c \in disk

Remembered == Up /\ NotesIn(server.env) \in notes

-----------------------------------------------------------------------------
Next ==
    \/ \E f \in Folders : Edit(f)
    \/ Check
    \/ \E mode \in {"source", "engine", "config"}, canCheck \in BOOLEAN :
          BeginDeploy(mode, canCheck)
    \/ Build \/ Answer \/ EndDeploy
    \/ \E key \in Key \cup {NoKey} : Roll(key)
    \/ \E env \in Environment : Configure(env)
    \/ Restart
    \/ \E c \in Client : SignIn(c)
    \/ Remember

Spec == Init /\ [][Next]_vars

-----------------------------------------------------------------------------
(***************************************************************************)
(* A folder the check accepted is one the server starts from: "Errors are  *)
(* things the server would refuse" (validate.py:5).  An image built from   *)
(* such a folder loads, whatever was edited, checked and built before.     *)
(***************************************************************************)
CheckedFolderStarts == image.built /\ image.vetted => Loads(image.skills)

(***************************************************************************)
(* Every recipe that a row of list_semantic_models names can be fetched,   *)
(* by get_recipe and as a resource, under that very name, once the folder  *)
(* was checked (validate.py:80-84, gateway.py:182, server.py:237).         *)
(***************************************************************************)
RowsNameServedRecipes ==
    Up /\ server.vetted => \A ref \in server.listed : ref.lower /\ Fetched(ref, server.names)

(***************************************************************************)
(* When the script says "deployed", a server is up, although the folder    *)
(* may have been edited after its check (deploy_to_azure.ps1:114, 294) or  *)
(* never checked; and every restart brings the same server back, whatever  *)
(* is edited, checked and built meanwhile, also by runs that then fail,    *)
(* until something is rolled out (deploy_to_azure.ps1:289-297, 403-415).   *)
(***************************************************************************)
DeployStands == [][reported' => Up' /\ (reported => server' = server)]_vars

(***************************************************************************)
(* With a storage account, a restart or a deploy loses nothing: who was    *)
(* signed in still is, if the key is the same, and what was remembered is  *)
(* there under any key (state_store.py:3-7, 34-54; memory.py:131-151).     *)
(* docs/administration.md:26 and :91-92 say so too, :39-40 the opposite.   *)
(***************************************************************************)
StateSurvives ==
    [][Up /\ server.env.account /\ Up' /\ server'.env.account =>
          /\ Remembered => Remembered'
          /\ server'.env.key = server.env.key =>
                \A c \in Client : SignedIn(c) => SignedIn(c)']_vars

=============================================================================
