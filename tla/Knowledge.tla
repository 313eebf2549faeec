----------------------------- MODULE Knowledge -----------------------------
(***************************************************************************)
(* The knowledge items of the API: hybrid search, which counts what it     *)
(* lists, update and deletion, each in a transaction of its own that holds *)
(* the locks of the rows it has written until it commits.                  *)
(***************************************************************************)
EXTENDS Naturals, FiniteSets

CONSTANTS
    Items,          \* ids of knowledge items
    Spaces,         \* spaces
    Handlers,       \* requests that run at the same time
    PageSize,       \* page_size of a search
    MaxRequests     \* bound on the requests

VARIABLES
    rows,       \* knowledge_items
    work,       \* per handler: its request
    received,   \* requests so far
    shown       \* history: per item, the committed searches that listed it

vars == <<rows, work, received, shown>>

Idle == [step |-> "idle", space |-> "none", items |-> {}, seen |-> {}, change |-> "none"]

(* Nothing in the code adds items; Chroma holds them by their space.        *)
Rows == [Items -> [space : Spaces, status : {"active", "deprecated"}, poor : BOOLEAN,
                   usage : {0}, deleted : {FALSE}]]

Init ==
    /\ rows \in Rows
    /\ work = [h \in Handlers |-> Idle]
    /\ received = 0
    /\ shown = [i \in Items |-> 0]

Of(space) == {i \in Items : rows[i].space = space}
Active(space) == {i \in Of(space) : rows[i].status = "active"}

Asks(h, request) ==
    /\ work[h].step = "idle" /\ received < MaxRequests
    /\ received' = received + 1
    /\ work' = [work EXCEPT ![h] = request]

-----------------------------------------------------------------------------
(* What is recalled: semantically, by what Chroma has of the space; by a    *)
(* keyword, of the active items; and the active items used before.  The     *)
(* rows are then fetched by their ids alone.                               *)
Recalled(space, semantic, keyword) ==
    semantic \cup keyword \cup {i \in Active(space) : rows[i].usage > 0}

(* The page of the hits that was asked for, the best or later ones.        *)
Pages(hits) == {page \in SUBSET hits : Cardinality(page) <= PageSize}

(* An answer without items writes nothing.                                 *)
Search(h, space, semantic, keyword, poor) ==
    LET hits == {i \in Recalled(space, semantic, keyword) : rows[i].poor => poor}
    IN  \E page \in Pages(hits) :
          /\ Asks(h, IF page = {} THEN Idle
                     ELSE [Idle EXCEPT !.step = "counts", !.space = space, !.items = page])
          /\ UNCHANGED <<rows, shown>>

(* update and delete: the row is loaded, and one of another space is not    *)
(* found.  A deletion sets deleted_at, which no query of the items reads.  *)
Change(h, space, i, what) ==
    /\ Asks(h, IF i \in Of(space)
               THEN [step |-> "changes", space |-> space, items |-> {i}, seen |-> {rows[i]},
                     change |-> what]
               ELSE Idle)
    /\ UNCHANGED <<rows, shown>>

(* The UPDATE statement, which waits for the rows others have locked.       *)
Locks(h) ==
    /\ work[h].step \in {"counts", "changes"}
    /\ \A g \in Handlers : work[g].step = "locked" => work[g].items \cap work[h].items = {}
    /\ work' = [work EXCEPT ![h].step = "locked"]
    /\ UNCHANGED <<rows, received, shown>>

Changed(row, what) ==
    CASE what = "poor" -> [row EXCEPT !.poor = TRUE]
      [] what = "good" -> [row EXCEPT !.poor = FALSE]
      [] what = "delete" -> [row EXCEPT !.deleted = TRUE]
      [] OTHER -> row

\* Mutant: the item that was loaded is written back as a whole.
CommitsRow(h) ==
    /\ work[h].step = "locked"
    /\ rows' = [i \in Items |->
                  IF i \notin work[h].items THEN rows[i]
                  ELSE IF work[h].change = "none" THEN [rows[i] EXCEPT !.usage = @ + 1]
                  ELSE Changed(CHOOSE row \in work[h].seen : TRUE, work[h].change)]
    /\ shown' = [i \in Items |-> IF work[h].change = "none" /\ i \in work[h].items
                                  THEN shown[i] + 1 ELSE shown[i]]
    /\ work' = [work EXCEPT ![h] = Idle]
    /\ UNCHANGED received

(* usage_count + 1 of every item listed, or the fields of the change; the   *)
(* database adds, so nobody's count is written back from an older read.    *)
Commits(h) ==
    /\ work[h].step = "locked"
    /\ rows' = [i \in Items |->
                  IF i \notin work[h].items THEN rows[i]
                  ELSE IF work[h].change = "none" THEN [rows[i] EXCEPT !.usage = @ + 1]
                  ELSE Changed(rows[i], work[h].change)]
    /\ shown' = [i \in Items |-> IF work[h].change = "none" /\ i \in work[h].items
                                  THEN shown[i] + 1 ELSE shown[i]]
    /\ work' = [work EXCEPT ![h] = Idle]
    /\ UNCHANGED received

(* The session rolls back, and the client gets an error and no items.       *)
Breaks(h) ==
    /\ work[h].step # "idle"
    /\ work' = [work EXCEPT ![h] = Idle]
    /\ UNCHANGED <<rows, received, shown>>

Next ==
    \E h \in Handlers :
      \/ \E space \in Spaces :
           \/ \E semantic \in SUBSET Of(space), keyword \in SUBSET Active(space), poor \in BOOLEAN :
                Search(h, space, semantic, keyword, poor)
           \/ \E i \in Items, what \in {"poor", "good", "delete"} : Change(h, space, i, what)
      \/ Locks(h) \/ Commits(h) \/ Breaks(h)

Spec == Init /\ [][Next]_vars

-----------------------------------------------------------------------------
TypeOK ==
    /\ \A i \in Items : rows[i].space \in Spaces /\ rows[i].usage \in 0..MaxRequests
    /\ \A h \in Handlers : work[h].step \in {"idle", "counts", "changes", "locked"}
    /\ received \in 0..MaxRequests

(* An item's usage_count is the number of searches that listed it, whatever *)
(* else is done to the item meanwhile; what a search lists is of the space *)
(* it was asked for; and no two transactions hold one row.                 *)
UsageIsCounted ==
    /\ \A i \in Items : rows[i].usage = shown[i]
    /\ \A h \in Handlers : \A i \in work[h].items : rows[i].space = work[h].space
    /\ \A g, h \in Handlers :
          g # h /\ work[g].step = "locked" /\ work[h].step = "locked" => work[g].items \cap work[h].items = {}
=============================================================================
