------------------------------- MODULE Skills -------------------------------
(***************************************************************************)
(* The skills folder: what skills.py and catalog.py load of it, and what   *)
(* validate.py says of it before it is built into an image.                *)
(*                                                                         *)
(* A recipe is named by its file's stem in lower case; the file may be     *)
(* spelled otherwise, and so may a recipe that a catalog entry lists.  Of  *)
(* the four required files only matters whether one is missing, and        *)
(* whether one of the three texts is blank; of the catalog, whether every  *)
(* item is a valid entry, and the entries' ids and recipes.  Warnings are  *)
(* left out: they change no verdict.                                       *)
(***************************************************************************)
EXTENDS Naturals, Sequences

CONSTANTS
    Name,       \* file stems, in lower case
    ValidName,  \* those RECIPE_NAME matches
    ModelId     \* model ids, in lower case

ASSUME NameAssumption == ValidName \subseteq Name

\* A spelling of a recipe's name, as a file or in the catalog.
Spelling == [name : Name, lower : BOOLEAN]

CatalogEntry == [id : ModelId, recipes : SUBSET Spelling]

Folder == [complete : BOOLEAN,           \* the REQUIRED_FILES are there
           blank : BOOLEAN,              \* one of the three texts has no text
           recipes : SUBSET Spelling,    \* recipes/*.md
           valid : BOOLEAN,              \* catalog.yaml has a list of valid entries
           models : Seq(CatalogEntry)]

NamesOf(spellings) == {s.name : s \in spellings}

\* `load_recipes`: a name that is no recipe name, or that exists twice, raises.
RecipesLoad(files) ==
    /\ NamesOf(files) \subseteq ValidName
    /\ \A f, g \in files : f.name = g.name => f = g

SkillsLoad(folder) == folder.complete /\ RecipesLoad(folder.recipes)
CatalogLoads(folder) == folder.complete /\ folder.valid

\* `_by_id`: of several entries of one model the last one counts.
Curated(models) ==
    {models[k] : k \in {k \in DOMAIN models :
        \A l \in DOMAIN models : k < l => models[l].id # models[k].id}}

Listed(models) == UNION {e.recipes : e \in Curated(models)}

\* Mutant of Found: the check looks recipes up the way get_recipe does, in lower case.
FoundAnyCase(ref, files) == ref.name \in NamesOf(files)

\* `recipe not in skills.recipes`: the recipes' names are in lower case, the entry is as written.
Found(ref, files) == ref.lower /\ ref.name \in NamesOf(files)

\* Mutant of Accepted: the recipes that entries list are not looked up.
AcceptedDangling(folder) == SkillsLoad(folder) /\ CatalogLoads(folder) /\ ~ folder.blank

(***************************************************************************)
(* `check_skills` reports no error: both loaders load the folder, its      *)
(* texts say something, and every recipe an entry lists has a file.        *)
(***************************************************************************)
Accepted(folder) ==
    /\ SkillsLoad(folder)
    /\ CatalogLoads(folder)
    /\ ~ folder.blank
    /\ \A ref \in Listed(folder.models) : Found(ref, folder.recipes)

\* `Gateway.recipe` and skill://recipes/{name} strip and lower-case what they are asked for.
Fetched(ref, names) == ref.name \in names
=============================================================================
