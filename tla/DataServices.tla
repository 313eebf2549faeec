---------------------------- MODULE DataServices ----------------------------
(***************************************************************************)
(* Data that several requests, writers or processes change at the same     *)
(* time: knowledge items, the catalog of a space, the vector stores, the   *)
(* index of a workspace, the registry of models, the plugins of a runtime, *)
(* and the event stream of a run.  They share no state; one moves at a     *)
(* time.                                                                   *)
(***************************************************************************)
EXTENDS Naturals, Sequences, FiniteSets

CONSTANTS
    Items, Spaces, Handlers, PageSize, MaxUses,                 \* Knowledge
    Members, ServerNames, GuideSteps, MaxRequests,              \* SpaceCatalog
    Ids, MaxWrites, BatchSize,                                  \* VectorStores
    Writers, ModelNames,                                        \* ModelRegistry
    Plugins, Lists,                                             \* Plugins
    Files, Texts, Edits, Size, Overlap, MaxEdits, MaxBuilds,    \* WorkspaceIndex
    MaxEvents, MaxLen, ReadCount, MaxLinkRetries                \* RunStream

VARIABLES
    rows, work, received, shown,                                        \* Knowledge
    requests, tx, flows, servers, repo, guide, overlapped,              \* SpaceCatalog
    content, writes, ops, latest, doubtful, copy, quiet,                \* VectorStores
    path, temporary, files, writer, overlap, returned,                  \* ModelRegistry
    trusted, listed, blocked, progress, applied, services, owners, tree, listing,   \* Plugins
    texts, build, index, vectors, memory, search, left,                 \* WorkspaceIndex
    stage, log, lastId, link, cursor, wire, got, failures, skipped, unanswered  \* RunStream

Known == INSTANCE Knowledge WITH MaxRequests <- MaxUses
Catalog == INSTANCE SpaceCatalog
Vectors == INSTANCE VectorStores
Registry == INSTANCE ModelRegistry WITH Names <- ModelNames
Host == INSTANCE Plugins
Index == INSTANCE WorkspaceIndex
Stream == INSTANCE RunStream WITH MaxRetries <- MaxLinkRetries

(* The numbers the migration goes by; a page has at least one record.       *)
IdsAreNumbers == Ids \in SUBSET Nat /\ IsFiniteSet(Ids)

ASSUME VectorsAssumption == IdsAreNumbers /\ BatchSize \in Nat \ {0}

(* Listings as load_plugin_tree collects them: what is built in or a user's *)
(* own comes from no workspace.  Free stands for no plugin.                *)
ListingsAreLists ==
    /\ \A l \in Lists : /\ l.own \in Seq(Plugins) /\ l.workspace \in Seq(Plugins)
                        /\ \A i \in DOMAIN l.own : l.own[i].source # "workspace"
    /\ \A p \in Plugins : p.name # Host!Free /\ p.lenient \in BOOLEAN /\ p.sound \in BOOLEAN

ASSUME PluginsAssumption == ListingsAreLists

(* What _chunk_text tests of its sizes; texts are sequences of characters.  *)
SizesAreSound == Size \in Nat \ {0} /\ Overlap \in 0..(Size - 1)
Letters == Index!Characters
TextsAreTexts == Texts \cup Edits \subseteq Seq(Letters)

ASSUME IndexAssumption == SizesAreSound /\ TextsAreTexts

(* What a stream keeps, a read returns and a client tries are numbers.      *)
StreamIsFinite ==
    /\ MaxEvents \in Nat /\ MaxLen \in Nat
    /\ ReadCount \in Nat \ {0} /\ MaxLinkRetries \in Nat

ASSUME StreamAssumption == StreamIsFinite

DataParts == {"knowledge", "catalog", "vectors", "registry", "plugins", "index", "stream"}

itemVars == <<rows, work, received, shown>>
catalogVars == <<requests, tx, flows, servers, repo, guide, overlapped>>
vectorVars == <<content, writes, ops, latest, doubtful, copy, quiet>>
registryVars == <<path, temporary, files, writer, overlap, returned>>
hostVars == <<trusted, listed, blocked, progress, applied, services, owners, tree, listing>>
indexVars == <<texts, build, index, vectors, memory, search, left>>
streamVars == <<stage, log, lastId, link, cursor, wire, got, failures, skipped, unanswered>>

dataVars ==
    <<itemVars, catalogVars, vectorVars, registryVars, hostVars, indexVars, streamVars>>

DataInit ==
    /\ Known!Init /\ Catalog!Init /\ Vectors!Init /\ Registry!Init
    /\ Host!Init /\ Index!Init /\ Stream!Init

DataStep(part) ==
    /\ IF part = "knowledge" THEN Known!Next ELSE UNCHANGED itemVars
    /\ IF part = "catalog" THEN Catalog!Next ELSE UNCHANGED catalogVars
    /\ IF part = "vectors" THEN Vectors!Next ELSE UNCHANGED vectorVars
    /\ IF part = "registry" THEN Registry!Next ELSE UNCHANGED registryVars
    /\ IF part = "plugins" THEN Host!Next ELSE UNCHANGED hostVars
    /\ IF part = "index" THEN Index!Next ELSE UNCHANGED indexVars
    /\ IF part = "stream" THEN Stream!Next ELSE UNCHANGED streamVars

DataNext == \E part \in DataParts : DataStep(part)

DataSpec == DataInit /\ [][DataNext]_dataVars

-----------------------------------------------------------------------------
(* Versions, names, usage counts and registered models are neither lost nor *)
(* given twice by requests and writers that overlap, except where a history *)
(* variable says so (SpaceCatalog, Knowledge, ModelRegistry).              *)
CatalogKeepsOrder ==
    Catalog!CatalogKeepsOrder /\ Known!UsageIsCounted /\ Registry!RegistryKeepsModels

(* The two vector stores agree, and a workspace's index and what searches   *)
(* find in it agree with its files (VectorStores, WorkspaceIndex).         *)
StoresAgree == Vectors!StoresAgree /\ Index!IndexIsFaithful

(* Every plugin of a runtime came after what it injects (Plugins).          *)
ComposedByNeed == Host!ComposedByNeed

(* A reader of a run's events misses and repeats none, whenever its         *)
(* connection breaks, but those that were trimmed before (RunStream).      *)
NothingSkipped == Stream!NothingSkipped
=============================================================================
