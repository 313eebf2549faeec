--------------------------- MODULE ModelRegistry ---------------------------
(***************************************************************************)
(* The registry of trained models, one JSON file: register reads it, adds  *)
(* an entry with the next version of its name and replaces the file by way *)
(* of a temporary file whose name is the same for all writers.  Writers    *)
(* are processes, which may overlap and die.                               *)
(***************************************************************************)
EXTENDS Naturals, SequencesExt, FiniteSetsExt

CONSTANTS
    Writers,    \* processes that train and register
    Names       \* names of models

VARIABLES
    path,       \* the file the registry's name leads to, 0 when there is none
    temporary,  \* the same of the temporary name
    files,      \* the files made so far: the entries written, Torn while being written
    writer,     \* per writer: step, what it registers, the entries it writes, its open file
    overlap,    \* history: two writers were at work at once
    returned    \* history: the models registered, as the callers were told

vars == <<path, temporary, files, writer, overlap, returned>>

Torn == <<[name |-> "torn", version |-> 0]>>
Entries(f) == IF f = 0 THEN <<>> ELSE files[f]
Away == [step |-> "away", entries |-> <<>>, open |-> 0]
Gone == [Away EXCEPT !.step = "gone"]

Init ==
    /\ path = 0 /\ temporary = 0 /\ files = <<>>
    /\ writer = [w \in Writers |-> Away]
    /\ overlap = FALSE /\ returned = {}

Busy == {w \in Writers : writer[w].step \notin {"away", "gone"}}
Versions(entries, name) == {e.version : e \in {e \in ToSet(entries) : e.name = name}}
Model(entries, name) == [name |-> name, version |-> 1 + Max({0} \cup Versions(entries, name))]

-----------------------------------------------------------------------------
(* _load: a file that is no JSON raises.                                   *)
Loads(w, name) ==
    /\ writer[w].step = "away"
    /\ LET entries == Entries(path)
       IN  writer' = [writer EXCEPT ![w] =
                        IF entries = Torn THEN Gone
                        ELSE [step |-> "loaded", open |-> 0,
                              entries |-> Append(entries, Model(entries, name))]]
    /\ overlap' = (overlap \/ Busy # {})
    /\ UNCHANGED <<path, temporary, files, returned>>

(* write_text opens the temporary file, emptying the one that is there.     *)
Opens(w) ==
    /\ writer[w].step = "loaded"
    /\ LET f == IF temporary # 0 THEN temporary ELSE Len(files) + 1
       IN  /\ files' = IF temporary # 0 THEN [files EXCEPT ![f] = Torn] ELSE Append(files, Torn)
           /\ temporary' = f
           /\ writer' = [writer EXCEPT ![w].step = "opened", ![w].open = f]
    /\ UNCHANGED <<path, overlap, returned>>

WritesOut(w) ==
    /\ writer[w].step = "opened"
    /\ files' = [files EXCEPT ![writer[w].open] = writer[w].entries]
    /\ writer' = [writer EXCEPT ![w].step = "written"]
    /\ UNCHANGED <<path, temporary, overlap, returned>>

\* Mutant: the registry is written in place.
OpensPath(w) ==
    /\ writer[w].step = "loaded"
    /\ LET f == IF path # 0 THEN path ELSE Len(files) + 1
       IN  /\ files' = IF path # 0 THEN [files EXCEPT ![f] = Torn] ELSE Append(files, Torn)
           /\ path' = f /\ temporary' = f
           /\ writer' = [writer EXCEPT ![w].step = "opened", ![w].open = f]
    /\ UNCHANGED <<overlap, returned>>

(* os.replace raises when another writer has taken the temporary file away. *)
Replaces(w) ==
    /\ writer[w].step = "written"
    /\ writer' = [writer EXCEPT ![w] = Gone]
    /\ IF temporary = 0 THEN UNCHANGED <<path, temporary, returned>>
       ELSE /\ path' = temporary /\ temporary' = 0
            /\ returned' = returned \cup {Last(writer[w].entries)}
    /\ UNCHANGED <<files, overlap>>

Dies(w) ==
    /\ w \in Busy
    /\ writer' = [writer EXCEPT ![w] = Gone]
    /\ UNCHANGED <<path, temporary, files, overlap, returned>>

Next ==
    \E w \in Writers :
      \/ \E name \in Names : Loads(w, name)
      \/ Opens(w) \/ WritesOut(w) \/ Replaces(w) \/ Dies(w)

Spec == Init /\ [][Next]_vars

-----------------------------------------------------------------------------
TypeOK ==
    /\ path \in 0..Len(files) /\ temporary \in 0..Len(files)
    /\ \A w \in Writers :
          writer[w].step \in {"away", "loaded", "opened", "written", "gone"}

(* As long as writers do not overlap, dying where they like, the registry   *)
(* can always be read, has every model a caller was told of, and one       *)
(* version of a name once, without gaps.                                   *)
RegistryKeepsModels ==
    ~overlap =>
      LET entries == Entries(path)
      IN  /\ entries # Torn
          /\ returned \subseteq ToSet(entries)
          /\ IsInjective(entries)
          /\ \A name \in Names :
                LET versions == Versions(entries, name)
                IN  versions = 1..Cardinality(versions)
=============================================================================
