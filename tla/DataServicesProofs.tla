------------------------- MODULE DataServicesProofs -------------------------
(***************************************************************************)
(* Theorems about the parts of DataServices, for every value of their      *)
(* constants: what requests of several members, writers and processes do   *)
(* to the same rows, records and files; how the plugins of a runtime are   *)
(* composed; and at the end what all of them together keep.                *)
(***************************************************************************)
EXTENDS DataServices, Integers, FiniteSetTheorems, SequenceTheorems, TLAPS

-----------------------------------------------------------------------------
(* Knowledge items: what a handler has read of its rows stays true of them, *)
(* for no request ever moves an item to another space.                     *)
ItemRows == [space : Spaces, status : {"active", "deprecated"}, poor : BOOLEAN, usage : Nat,
             deleted : BOOLEAN]
Works == [step : {"idle", "counts", "changes", "locked"}, space : Spaces \cup {"none"},
          items : SUBSET Items, seen : SUBSET ItemRows, change : {"none", "poor", "good", "delete"}]

ItemTypes ==
    /\ rows \in [Items -> ItemRows]
    /\ shown \in [Items -> Nat]
    /\ work \in [Handlers -> Works]

ItemsKeep == ItemTypes /\ Known!UsageIsCounted

LEMMA ItemsInit == Known!Init => ItemsKeep
<1> SUFFICES ASSUME Known!Init PROVE ItemsKeep
  OBVIOUS
<1>1. \A h \in Handlers : work[h].items = {} /\ work[h].step = "idle"
  BY DEF Known!Init, Known!Idle
<1>2. \A i \in Items : rows[i].usage = 0 /\ shown[i] = 0 BY DEF Known!Init, Known!Rows
<1>3. Known!Idle \in Works BY DEF Known!Idle, Works
<1>4. rows \in [Items -> ItemRows]
  <2>1. ASSUME NEW i \in Items PROVE rows[i] \in ItemRows
    <3> DEFINE row == rows[i]
    <3>1. row \in [space : Spaces, status : {"active", "deprecated"}, poor : BOOLEAN,
                   usage : {0}, deleted : {FALSE}]
      BY <2>1 DEF Known!Init, Known!Rows
    <3> HIDE DEF row
    <3>2. /\ row = [space |-> row.space, status |-> row.status, poor |-> row.poor,
                    usage |-> row.usage, deleted |-> row.deleted]
          /\ row.space \in Spaces /\ row.status \in {"active", "deprecated"} /\ row.usage = 0
      BY <3>1
    <3>3. row.poor \in BOOLEAN /\ row.deleted \in BOOLEAN BY <3>1, Zenon
    <3>4. row \in ItemRows BY <3>2, <3>3 DEF ItemRows
    <3>5. QED BY <3>4 DEF row
  <2>2. rows = [i \in Items |-> rows[i]] BY DEF Known!Init, Known!Rows
  <2>3. QED BY <2>1, <2>2
<1>5. ItemTypes BY <1>3, <1>4 DEF Known!Init, ItemTypes
<1>6. QED BY <1>1, <1>2, <1>5 DEF ItemsKeep, Known!UsageIsCounted

LEMMA ItemsStep == ItemsKeep /\ [Known!Next]_Known!vars => ItemsKeep'
<1> SUFFICES ASSUME ItemsKeep, [Known!Next]_Known!vars PROVE ItemsKeep'
  OBVIOUS
<1> USE DEF ItemsKeep
(* A request that is read, or ends, and writes nothing.                    *)
<1>0. ItemTypes OBVIOUS
<1>1. ASSUME NEW h \in Handlers, NEW request \in Works, work' = [work EXCEPT ![h] = request],
             \A i \in request.items : rows[i].space = request.space,
             request.step # "locked", UNCHANGED <<rows, shown>>
      PROVE  ItemsKeep'
  <2>1. work'[h] = request /\ \A g \in Handlers \ {h} : work'[g] = work[g]
    BY <1>1 DEF ItemTypes
  <2>2. ItemTypes' BY <1>1, <2>1 DEF ItemTypes
  <2>3. \A g \in Handlers : \A i \in work'[g].items : rows[i].space = work'[g].space
    BY <1>1, <2>1 DEF Known!UsageIsCounted
  <2>4. ASSUME NEW f \in Handlers, NEW g \in Handlers, f # g, work'[f].step = "locked", work'[g].step = "locked"
        PROVE  work'[f].items \cap work'[g].items = {}
    <3>1. f # h /\ g # h BY <1>1, <2>1, <2>4
    <3>2. work'[f] = work[f] /\ work'[g] = work[g] BY <2>1, <3>1
    <3>3. QED BY <2>4, <3>2 DEF Known!UsageIsCounted
  <2>5. QED BY <1>1, <2>2, <2>3, <2>4 DEF Known!UsageIsCounted
<1>2. ASSUME NEW h \in Handlers, work' = [work EXCEPT ![h] = Known!Idle], UNCHANGED <<rows, shown>>
      PROVE  ItemsKeep'
  <2>1. Known!Idle \in Works BY DEF Known!Idle, Works
  <2>2. Known!Idle.items = {} /\ Known!Idle.step = "idle" BY DEF Known!Idle
  <2>3. QED BY <1>1, <1>2, <2>1, <2>2
<1>3. ASSUME NEW h \in Handlers, NEW space \in Spaces, NEW semantic \in SUBSET Known!Of(space),
             NEW keyword \in SUBSET Known!Active(space), NEW poor \in BOOLEAN,
             Known!Search(h, space, semantic, keyword, poor)
      PROVE  ItemsKeep'
  <2> DEFINE hits == {i \in Known!Recalled(space, semantic, keyword) : rows[i].poor => poor}
  <2>1. PICK page \in Known!Pages(hits) :
            /\ Known!Asks(h, IF page = {} THEN Known!Idle
                             ELSE [Known!Idle EXCEPT !.step = "counts", !.space = space, !.items = page])
            /\ UNCHANGED <<rows, shown>>
    BY <1>3 DEF Known!Search
  <2> DEFINE request == [Known!Idle EXCEPT !.step = "counts", !.space = space, !.items = page]
  <2>2. page \subseteq Known!Of(space)
    BY <2>1 DEF Known!Pages, Known!Recalled, Known!Active
  <2>3. /\ request.items = page /\ request.space = space /\ request.step = "counts"
        /\ page \subseteq Items => request \in Works
    BY <1>3 DEF Known!Idle, Works
  <2>4. CASE page = {} BY <1>2, <1>3, <2>1, <2>4 DEF Known!Asks
  <2>5. CASE page # {}
    <3>1. work' = [work EXCEPT ![h] = request] BY <2>1, <2>5 DEF Known!Asks
    <3> HIDE DEF request
    <3>2. QED BY <1>1, <1>3, <2>1, <2>2, <2>3, <3>1 DEF Known!Of
  <2>6. QED BY <2>4, <2>5
<1>4. ASSUME NEW h \in Handlers, NEW space \in Spaces, NEW i \in Items,
             NEW what \in {"poor", "good", "delete"},
             Known!Change(h, space, i, what)
      PROVE  ItemsKeep'
  <2>1. CASE i \notin Known!Of(space) BY <1>2, <1>4, <2>1 DEF Known!Change, Known!Asks
  <2>2. CASE i \in Known!Of(space)
    <3> DEFINE request == [step |-> "changes", space |-> space, items |-> {i}, seen |-> {rows[i]},
                           change |-> what]
    <3>1. work' = [work EXCEPT ![h] = request] /\ UNCHANGED <<rows, shown>>
      BY <1>4, <2>2 DEF Known!Change, Known!Asks
    <3>2. request \in Works /\ request.items = {i} /\ request.space = space /\ request.step = "changes"
      BY <1>0, <1>4 DEF Works, ItemTypes
    <3> HIDE DEF request
    <3>3. QED BY <1>1, <2>2, <3>1, <3>2 DEF Known!Of
  <2>3. QED BY <2>1, <2>2
<1>5. ASSUME NEW h \in Handlers, Known!Locks(h) PROVE ItemsKeep'
  <2> DEFINE locked == [work[h] EXCEPT !.step = "locked"]
  <2>1. work' = [work EXCEPT ![h] = locked] /\ UNCHANGED <<rows, shown>> BY <1>5 DEF Known!Locks
  <2>2. /\ locked \in Works /\ locked.items = work[h].items /\ locked.space = work[h].space
        /\ locked.step = "locked"
    BY <1>0, <1>5 DEF ItemTypes, Works
  <2> HIDE DEF locked
  <2>3. work'[h] = locked /\ \A g \in Handlers \ {h} : work'[g] = work[g]
    BY <1>0, <2>1 DEF ItemTypes
  <2>4. ItemTypes' BY <1>0, <2>1, <2>2 DEF ItemTypes
  <2>5. \A g \in Handlers : \A i \in work'[g].items : rows[i].space = work'[g].space
    BY <2>2, <2>3 DEF Known!UsageIsCounted
  <2>6. ASSUME NEW f \in Handlers, NEW g \in Handlers, f # g, work'[f].step = "locked", work'[g].step = "locked"
        PROVE  work'[f].items \cap work'[g].items = {}
    <3>1. CASE f # h /\ g # h BY <2>3, <2>6, <3>1 DEF Known!UsageIsCounted
    <3>2. CASE f = h \/ g = h BY <1>5, <2>2, <2>3, <2>6, <3>2 DEF Known!Locks
    <3>3. QED BY <3>1, <3>2
  <2>7. QED BY <2>1, <2>4, <2>5, <2>6 DEF Known!UsageIsCounted
<1>6. ASSUME NEW h \in Handlers, Known!Commits(h) PROVE ItemsKeep'
  <2>1. ASSUME NEW i \in Items
        PROVE  /\ rows'[i] \in ItemRows
               /\ rows'[i].space = rows[i].space /\ shown'[i] \in Nat
               /\ rows'[i].usage = shown'[i]
    <3>1. /\ rows[i] \in ItemRows
          /\ rows[i].usage = shown[i] /\ shown[i] \in Nat
      BY DEF ItemTypes, Known!UsageIsCounted
    <3>2. rows'[i] = IF i \notin work[h].items THEN rows[i]
                     ELSE IF work[h].change = "none" THEN [rows[i] EXCEPT !.usage = @ + 1]
                     ELSE Known!Changed(rows[i], work[h].change)
      BY <1>6 DEF Known!Commits
    <3>3. shown'[i] = IF work[h].change = "none" /\ i \in work[h].items
                      THEN shown[i] + 1 ELSE shown[i]
      BY <1>6 DEF Known!Commits
    <3>4. CASE i \notin work[h].items BY <3>1, <3>2, <3>3, <3>4
    <3>5. CASE i \in work[h].items /\ work[h].change = "none" BY <3>1, <3>2, <3>3, <3>5 DEF ItemRows
    <3>6. CASE i \in work[h].items /\ work[h].change # "none"
      BY <3>1, <3>2, <3>3, <3>6 DEF Known!Changed, ItemRows
    <3>7. QED BY <3>4, <3>5, <3>6
  <2>2. /\ rows' = [i \in Items |-> rows'[i]] /\ shown' = [i \in Items |-> shown'[i]]
        /\ work' = [work EXCEPT ![h] = Known!Idle]
    BY <1>6 DEF Known!Commits
  <2>3. /\ work'[h].items = {} /\ work'[h].step = "idle"
        /\ \A g \in Handlers \ {h} : work'[g] = work[g]
    BY <2>2 DEF ItemTypes, Known!Idle
  <2>4. ItemTypes'
    <3>1. Known!Idle \in Works BY DEF Known!Idle, Works
    <3>2. work' \in [Handlers -> Works] BY <1>0, <2>2, <3>1 DEF ItemTypes
    <3>3. QED BY <2>1, <2>2, <3>2 DEF ItemTypes
  <2>5. \A g \in Handlers : \A i \in work'[g].items : rows'[i].space = work'[g].space
    BY <1>0, <2>1, <2>3 DEF Known!UsageIsCounted, ItemTypes, Works
  <2>6. ASSUME NEW f \in Handlers, NEW g \in Handlers, f # g, work'[f].step = "locked", work'[g].step = "locked"
        PROVE  work'[f].items \cap work'[g].items = {}
    <3>1. work'[f] = work[f] /\ work'[g] = work[g] BY <2>3, <2>6
    <3>2. QED BY <2>6, <3>1 DEF Known!UsageIsCounted
  <2>7. QED BY <2>1, <2>4, <2>5, <2>6 DEF Known!UsageIsCounted
<1>7. ASSUME NEW h \in Handlers, Known!Breaks(h) PROVE ItemsKeep'
  BY <1>2, <1>7 DEF Known!Breaks
<1>8. CASE UNCHANGED Known!vars
  BY <1>8 DEF Known!vars, ItemTypes, Known!UsageIsCounted
<1>9. QED BY <1>3, <1>4, <1>5, <1>6, <1>7, <1>8 DEF Known!Next

(* However many searches, updates and deletions run at the same time, and   *)
(* whichever of them fail, the usage_count of an item is the number of     *)
(* searches that listed it, and no request touches another space's items.  *)
THEOREM KnowledgeUsageIsCounted == Known!Spec => []Known!UsageIsCounted
<1>1. ItemsKeep => Known!UsageIsCounted BY DEF ItemsKeep
<1>2. QED BY <1>1, ItemsInit, ItemsStep, PTL DEF Known!Spec

-----------------------------------------------------------------------------
(* The catalog of a space: what a request has read still holds when it      *)
(* commits, or a unique key or the history of overlaps says that it may    *)
(* not.                                                                    *)
FlowRows == [version : Nat, on : BOOLEAN, status : {"draft", "published", "archived"}]
ServerRows == [name : ServerNames, live : BOOLEAN]

CatalogTypes ==
    /\ flows \in Seq(FlowRows)
    /\ servers \in Seq(ServerRows)
    /\ tx = [m \in Members |-> tx[m]]

(* What a member's request has read.                                       *)
RequestKnows(m) ==
    /\ tx[m].op = "version" => tx[m].version \in 1..(Len(flows) + 1) /\ tx[m].on \in BOOLEAN
    /\ tx[m].op = "publish" =>
          /\ tx[m].row \in DOMAIN flows
          /\ "flows" \notin overlapped => tx[m].hides = Catalog!Published \ {tx[m].row}
    /\ tx[m].op = "server" => tx[m].name \in ServerNames
    /\ tx[m].op = "rename" => tx[m].row \in DOMAIN servers /\ tx[m].name \in ServerNames
    /\ tx[m].op = "delete" => tx[m].row \in DOMAIN servers

PublishedOnce ==
    "flows" \notin overlapped =>
        /\ \A i, j \in Catalog!Published : i = j
        /\ (\E i \in DOMAIN flows : flows[i].status # "draft") => Catalog!Published # {}

CatalogKeeps ==
    /\ CatalogTypes
    /\ \A m \in Members : RequestKnows(m)
    /\ PublishedOnce
    /\ Catalog!KeysAreSound
    /\ Catalog!IndexingEnds

LEMMA CatalogInit == Catalog!Init => CatalogKeeps
<1> SUFFICES ASSUME Catalog!Init PROVE CatalogKeeps
  OBVIOUS
<1> USE DEF Catalog!Init
<1>1. CatalogTypes BY DEF CatalogTypes
<1>2. \A m \in Members : RequestKnows(m) BY DEF Catalog!Nothing, RequestKnows
<1>3. PublishedOnce BY DEF PublishedOnce, Catalog!Published
<1>4. Catalog!KeysAreSound BY DEF Catalog!KeysAreSound, Catalog!Versions
<1>5. Catalog!IndexingEnds BY DEF Catalog!IndexingEnds
<1>6. QED BY <1>1, <1>2, <1>3, <1>4, <1>5 DEF CatalogKeeps

LEMMA CatalogStep == CatalogKeeps /\ [Catalog!Next]_Catalog!vars => CatalogKeeps'
<1> SUFFICES ASSUME CatalogKeeps, [Catalog!Next]_Catalog!vars PROVE CatalogKeeps'
  OBVIOUS
<1> USE DEF CatalogKeeps
<1>0. CatalogTypes OBVIOUS
(* A request begins, knowing what it has read.                             *)
<1>1. ASSUME NEW m \in Members, NEW record, Catalog!Begins(m, record),
             record.op = "index" \/ UNCHANGED repo,
             record.op = "version" => record.version \in 1..(Len(flows) + 1) /\ record.on \in BOOLEAN,
             record.op = "publish" => /\ record.row \in DOMAIN flows
                                      /\ record.hides = Catalog!Published \ {record.row},
             record.op \in {"server", "rename"} => record.name \in ServerNames,
             record.op \in {"rename", "delete"} => record.row \in DOMAIN servers
      PROVE  CatalogKeeps'
  <2>1. /\ tx' = [tx EXCEPT ![m] = record] /\ UNCHANGED <<flows, servers, overlapped>>
        /\ tx[m].op # "index"
    BY <1>1 DEF Catalog!Begins, Catalog!Nothing
  <2>2. tx'[m] = record /\ \A n \in Members \ {m} : tx'[n] = tx[n] BY <1>0, <2>1 DEF CatalogTypes
  <2>3. CatalogTypes' BY <1>0, <2>1 DEF CatalogTypes
  <2>4. ASSUME NEW n \in Members PROVE RequestKnows(n)'
    <3>1. CASE n = m BY <1>1, <2>1, <2>2, <3>1 DEF RequestKnows, Catalog!Published
    <3>2. CASE n # m
      <4>1. RequestKnows(n) BY <2>4
      <4>2. QED BY <2>1, <2>2, <2>4, <3>2, <4>1 DEF RequestKnows, Catalog!Published
    <3>3. QED BY <3>1, <3>2
  <2>5. PublishedOnce' BY <2>1 DEF PublishedOnce, Catalog!Published
  <2>6. Catalog!KeysAreSound' BY <2>1 DEF Catalog!KeysAreSound, Catalog!Versions
  <2>7. Catalog!IndexingEnds' BY <1>1, <2>1, <2>2 DEF Catalog!IndexingEnds
  <2>8. QED BY <2>3, <2>4, <2>5, <2>6, <2>7
(* A request ends that has written neither flows, nor servers.             *)
<1>2. ASSUME NEW m \in Members, Catalog!Ends(m), UNCHANGED <<flows, servers>>,
             overlapped \subseteq overlapped',
             repo' = "indexing" => /\ repo = "indexing"
                                   /\ tx[m].op = "index" => "repo" \in overlapped'
      PROVE  CatalogKeeps'
  <2>1. tx'[m] = Catalog!Nothing /\ \A n \in Members \ {m} : tx'[n] = tx[n]
    BY <1>0, <1>2 DEF CatalogTypes, Catalog!Ends
  <2>2. CatalogTypes' BY <1>0, <1>2 DEF CatalogTypes, Catalog!Ends
  <2>3. ASSUME NEW n \in Members PROVE RequestKnows(n)'
    <3>1. CASE n = m BY <2>1, <3>1 DEF RequestKnows, Catalog!Nothing
    <3>2. CASE n # m
      <4>1. RequestKnows(n) BY <2>3
      <4>2. QED BY <1>2, <2>1, <2>3, <3>2, <4>1 DEF RequestKnows, Catalog!Published
    <3>3. QED BY <3>1, <3>2
  <2>4. PublishedOnce' BY <1>2 DEF PublishedOnce, Catalog!Published
  <2>5. Catalog!KeysAreSound' BY <1>2 DEF Catalog!KeysAreSound, Catalog!Versions
  <2>6. Catalog!IndexingEnds' BY <1>2, <2>1 DEF Catalog!IndexingEnds
  <2>7. QED BY <2>2, <2>3, <2>4, <2>5, <2>6
<1>3. ASSUME NEW m \in Members, NEW on \in BOOLEAN, Catalog!CreateFlow(m, on) PROVE CatalogKeeps'
  <2> DEFINE record == [Catalog!Nothing EXCEPT !.op = "version", !.version = 1, !.on = on]
  <2>1. record.op = "version" /\ record.version = 1 /\ record.on \in BOOLEAN BY DEF Catalog!Nothing
  <2>2. Catalog!Begins(m, record) /\ UNCHANGED repo BY <1>3 DEF Catalog!CreateFlow
  <2>3. Len(flows) \in Nat BY <1>0 DEF CatalogTypes
  <2> HIDE DEF record
  <2>4. QED BY <1>1, <2>1, <2>2, <2>3
<1>4. ASSUME NEW m \in Members, NEW on \in BOOLEAN, Catalog!UpdateFlow(m, on) PROVE CatalogKeeps'
  <2> DEFINE record == [Catalog!Nothing EXCEPT !.op = "version", !.on = on,
                                               !.version = Catalog!Max(Catalog!Versions) + 1]
  <2>1. record.op = "version" /\ record.version = Catalog!Max(Catalog!Versions) + 1 /\ record.on \in BOOLEAN
    BY DEF Catalog!Nothing
  <2>2. Catalog!Begins(m, record) /\ UNCHANGED repo /\ flows # <<>> BY <1>4 DEF Catalog!UpdateFlow
  <2>3. Len(flows) \in Nat \ {0} BY <1>0, <2>2 DEF CatalogTypes
  <2>4. Catalog!Versions = 1..Len(flows) BY DEF Catalog!KeysAreSound
  <2>5. Catalog!Max(Catalog!Versions) = Len(flows) BY <2>3, <2>4 DEF Catalog!Max
  <2> HIDE DEF record
  <2>6. QED BY <1>1, <2>1, <2>2, <2>3, <2>5
<1>5. ASSUME NEW m \in Members, NEW i \in DOMAIN flows, Catalog!PublishFlow(m, i) PROVE CatalogKeeps'
  <2> DEFINE record == [Catalog!Nothing EXCEPT !.op = "publish", !.row = i,
                                               !.hides = Catalog!Published \ {i}]
  <2>1. record.op = "publish" /\ record.row = i /\ record.hides = Catalog!Published \ {i}
    BY DEF Catalog!Nothing
  <2>2. Catalog!Begins(m, record) /\ UNCHANGED repo BY <1>5 DEF Catalog!PublishFlow
  <2> HIDE DEF record
  <2>3. QED BY <1>1, <1>5, <2>1, <2>2
<1>6. ASSUME NEW m \in Members, NEW name \in ServerNames, Catalog!CreateServer(m, name) PROVE CatalogKeeps'
  <2> DEFINE record == [Catalog!Nothing EXCEPT !.op = "server", !.name = name]
  <2>1. record.op = "server" /\ record.name = name BY DEF Catalog!Nothing
  <2>2. Catalog!Begins(m, record) /\ UNCHANGED repo BY <1>6 DEF Catalog!CreateServer
  <2> HIDE DEF record
  <2>3. QED BY <1>1, <2>1, <2>2
<1>7. ASSUME NEW m \in Members, NEW i \in DOMAIN servers, NEW name \in ServerNames,
             Catalog!RenameServer(m, i, name)
      PROVE  CatalogKeeps'
  <2> DEFINE record == [Catalog!Nothing EXCEPT !.op = "rename", !.row = i, !.name = name]
  <2>1. record.op = "rename" /\ record.row = i /\ record.name = name BY DEF Catalog!Nothing
  <2>2. Catalog!Begins(m, record) /\ UNCHANGED repo BY <1>7 DEF Catalog!RenameServer
  <2> HIDE DEF record
  <2>3. QED BY <1>1, <1>7, <2>1, <2>2
<1>8. ASSUME NEW m \in Members, NEW i \in DOMAIN servers, Catalog!DeleteServer(m, i) PROVE CatalogKeeps'
  <2> DEFINE record == [Catalog!Nothing EXCEPT !.op = "delete", !.row = i]
  <2>1. record.op = "delete" /\ record.row = i BY DEF Catalog!Nothing
  <2>2. Catalog!Begins(m, record) /\ UNCHANGED repo BY <1>8 DEF Catalog!DeleteServer
  <2> HIDE DEF record
  <2>3. QED BY <1>1, <1>8, <2>1, <2>2
<1>9. ASSUME NEW m \in Members, Catalog!StartIndex(m) PROVE CatalogKeeps'
  <2> DEFINE record == [Catalog!Nothing EXCEPT !.op = "index"]
  <2>1. record.op = "index" BY DEF Catalog!Nothing
  <2>2. Catalog!Begins(m, record) BY <1>9 DEF Catalog!StartIndex
  <2> HIDE DEF record
  <2>3. QED BY <1>1, <2>1, <2>2
<1>10. ASSUME NEW m \in Members, NEW op \in {"complete", "skip", "replay"}, NEW step,
              Catalog!ReadGuide(m, op, step)
       PROVE  CatalogKeeps'
  <2> DEFINE done == IF op = "complete" THEN guide.done \cup {step}
                     ELSE IF op = "replay" THEN {} ELSE guide.done
  <2> DEFINE record == [Catalog!Nothing EXCEPT !.op = op, !.known = guide.done, !.done = done]
  <2>1. record.op = op BY DEF Catalog!Nothing
  <2>2. Catalog!Begins(m, record) /\ UNCHANGED repo BY <1>10 DEF Catalog!ReadGuide
  <2> HIDE DEF record
  <2>3. QED BY <1>1, <1>10, <2>1, <2>2
(* A request ends that has written one of the tables; the others know of    *)
(* its rows no more than before.                                           *)
<1>e. ASSUME NEW m \in Members, Catalog!Ends(m)
      PROVE  /\ tx'[m] = Catalog!Nothing /\ \A n \in Members \ {m} : tx'[n] = tx[n]
             /\ tx' = [n \in Members |-> tx'[n]]
  BY <1>0, <1>e DEF CatalogTypes, Catalog!Ends
(* uk_workflow_version: a number that is taken is refused, one that is not  *)
(* is the next.                                                            *)
<1>11. ASSUME NEW m \in Members, Catalog!CommitVersion(m) PROVE CatalogKeeps'
  <2> DEFINE row == [version |-> tx[m].version, on |-> tx[m].on, status |-> "draft"]
  <2>1. tx[m].op = "version" /\ Catalog!Ends(m) /\ UNCHANGED <<servers, repo, overlapped>>
    BY <1>11 DEF Catalog!CommitVersion
  <2>2. CASE tx[m].version \in Catalog!Versions
    BY <1>2, <1>11, <2>1, <2>2 DEF Catalog!CommitVersion
  <2>3. CASE tx[m].version \notin Catalog!Versions
    <3>1. flows' = Append(flows, row) BY <1>11, <2>3 DEF Catalog!CommitVersion
    <3>2. tx[m].version = Len(flows) + 1 /\ Len(flows) \in Nat /\ tx[m].on \in BOOLEAN
      BY <1>0, <2>1, <2>3 DEF CatalogTypes, RequestKnows, Catalog!KeysAreSound
    <3>3. row \in FlowRows /\ row.version = Len(flows) + 1 /\ row.status = "draft"
      BY <3>2 DEF FlowRows
    <3> HIDE DEF row
    <3>4. /\ flows' \in Seq(FlowRows) /\ Len(flows') = Len(flows) + 1
          /\ DOMAIN flows = 1..Len(flows) /\ DOMAIN flows' = 1..(Len(flows) + 1)
          /\ flows'[Len(flows) + 1] = row /\ \A i \in DOMAIN flows : flows'[i] = flows[i]
      BY <1>0, <3>1, <3>3 DEF CatalogTypes
    <3>5. CatalogTypes' BY <1>0, <1>e, <2>1, <3>4 DEF CatalogTypes
    <3>6. Catalog!Published' = Catalog!Published
      BY <3>2, <3>3, <3>4 DEF Catalog!Published
    <3>7. ASSUME NEW n \in Members PROVE RequestKnows(n)'
      <4>1. CASE n = m BY <1>e, <2>1, <4>1 DEF RequestKnows, Catalog!Nothing
      <4>2. CASE n # m
        <5>1. RequestKnows(n) /\ tx'[n] = tx[n] BY <1>e, <2>1, <3>7, <4>2
        <5>2. QED BY <2>1, <3>2, <3>4, <3>6, <5>1 DEF RequestKnows
      <4>3. QED BY <4>1, <4>2
    <3>8. PublishedOnce' BY <2>1, <3>2, <3>3, <3>4, <3>6 DEF PublishedOnce
    <3>9. Catalog!Versions' = Catalog!Versions \cup {Len(flows) + 1}
      BY <3>2, <3>3, <3>4 DEF Catalog!Versions
    <3>10. Catalog!KeysAreSound' BY <2>1, <3>2, <3>4, <3>9 DEF Catalog!KeysAreSound
    <3>11. Catalog!IndexingEnds' BY <1>e, <2>1 DEF Catalog!IndexingEnds
    <3>12. QED BY <3>5, <3>7, <3>8, <3>10, <3>11
  <2>4. QED BY <2>2, <2>3
(* What was published when the request read is archived; if nobody else     *)
(* published meanwhile, that is all that is.                               *)
<1>12. ASSUME NEW m \in Members, Catalog!CommitPublish(m) PROVE CatalogKeeps'
  <2>1. /\ tx[m].op = "publish" /\ Catalog!Ends(m) /\ UNCHANGED <<servers, repo>>
        /\ overlapped \subseteq overlapped'
        /\ "flows" \notin overlapped' => "flows" \notin overlapped
        /\ "flows" \notin overlapped' => \A n \in Members \ {m} : tx[n].op # "publish"
        /\ "repo" \in overlapped' => "repo" \in overlapped
    BY <1>12 DEF Catalog!CommitPublish, Catalog!Overlaps, Catalog!Others
  <2>2. flows' = [i \in DOMAIN flows |->
                    IF i = tx[m].row THEN [flows[i] EXCEPT !.status = "published"]
                    ELSE IF i \in tx[m].hides THEN [flows[i] EXCEPT !.status = "archived"]
                    ELSE flows[i]]
    BY <1>12 DEF Catalog!CommitPublish
  <2>3. tx[m].row \in DOMAIN flows /\ DOMAIN flows = 1..Len(flows) /\ Len(flows) \in Nat
    BY <1>0, <2>1 DEF CatalogTypes, RequestKnows
  <2>4. ASSUME NEW i \in DOMAIN flows
        PROVE  /\ flows'[i] \in FlowRows /\ flows'[i].version = flows[i].version
               /\ flows'[i].status = IF i = tx[m].row THEN "published"
                                     ELSE IF i \in tx[m].hides THEN "archived" ELSE flows[i].status
    <3>1. flows[i] \in FlowRows BY <1>0 DEF CatalogTypes
    <3>2. QED BY <2>2, <3>1 DEF FlowRows
  <2>5. DOMAIN flows' = DOMAIN flows /\ Len(flows') = Len(flows) /\ flows' \in Seq(FlowRows)
    <3>1. flows' = [i \in 1..Len(flows) |-> flows'[i]] BY <2>2, <2>3
    <3>2. flows' \in [1..Len(flows) -> FlowRows] BY <2>3, <2>4, <3>1
    <3>3. flows' \in Seq(FlowRows) BY <2>3, <3>2
    <3>4. DOMAIN flows' = 1..Len(flows) BY <3>2
    <3>5. QED BY <2>3, <3>3, <3>4
  <2>6. "flows" \notin overlapped' => Catalog!Published' = {tx[m].row}
    BY <2>1, <2>3, <2>4, <2>5 DEF RequestKnows, Catalog!Published
  <2>7. CatalogTypes' BY <1>0, <1>e, <2>1, <2>5 DEF CatalogTypes
  <2>8. ASSUME NEW n \in Members PROVE RequestKnows(n)'
    <3>1. CASE n = m BY <1>e, <2>1, <3>1 DEF RequestKnows, Catalog!Nothing
    <3>2. CASE n # m
      <4>1. RequestKnows(n) /\ tx'[n] = tx[n] BY <1>e, <2>1, <2>8, <3>2
      <4>2. QED BY <2>1, <2>5, <2>8, <3>2, <4>1 DEF RequestKnows
    <3>3. QED BY <3>1, <3>2
  <2>9. PublishedOnce' BY <2>6 DEF PublishedOnce
  <2>10. Catalog!Versions' = Catalog!Versions BY <2>4, <2>5 DEF Catalog!Versions
  <2>11. Catalog!KeysAreSound' BY <2>1, <2>5, <2>10 DEF Catalog!KeysAreSound
  <2>12. Catalog!IndexingEnds' BY <1>e, <2>1 DEF Catalog!IndexingEnds
  <2>13. QED BY <2>7, <2>8, <2>9, <2>11, <2>12
(* The table of servers: every name once, and no row goes.                 *)
<1>13. ASSUME NEW m \in Members, Catalog!Ends(m), tx[m].op # "index",
              UNCHANGED <<flows, repo, overlapped>>,
              servers' \in Seq(ServerRows), Len(servers) <= Len(servers'),
              \A i, j \in DOMAIN servers' : servers'[i].name = servers'[j].name => i = j
       PROVE  CatalogKeeps'
  <2>1. CatalogTypes' BY <1>0, <1>e, <1>13 DEF CatalogTypes
  <2>2. DOMAIN servers \subseteq DOMAIN servers' BY <1>0, <1>13 DEF CatalogTypes
  <2>3. ASSUME NEW n \in Members PROVE RequestKnows(n)'
    <3>1. CASE n = m BY <1>e, <1>13, <3>1 DEF RequestKnows, Catalog!Nothing
    <3>2. CASE n # m
      <4>1. RequestKnows(n) /\ tx'[n] = tx[n] BY <1>e, <1>13, <2>3, <3>2
      <4>2. QED BY <1>13, <2>2, <4>1 DEF RequestKnows, Catalog!Published
    <3>3. QED BY <3>1, <3>2
  <2>4. PublishedOnce' BY <1>13 DEF PublishedOnce, Catalog!Published
  <2>5. Catalog!KeysAreSound' BY <1>13 DEF Catalog!KeysAreSound, Catalog!Versions
  <2>6. Catalog!IndexingEnds' BY <1>e, <1>13 DEF Catalog!IndexingEnds
  <2>7. QED BY <2>1, <2>3, <2>4, <2>5, <2>6
<1>14. ASSUME NEW m \in Members, Catalog!CommitServer(m) PROVE CatalogKeeps'
  <2> DEFINE row == [name |-> tx[m].name, live |-> TRUE]
  <2>1. /\ tx[m].op = "server" /\ Catalog!Ends(m) /\ UNCHANGED <<flows, repo, overlapped>>
        /\ tx[m].name \in ServerNames
    BY <1>14 DEF Catalog!CommitServer, RequestKnows
  <2>2. CASE Catalog!Named(tx[m].name) # {} BY <1>2, <1>14, <2>1, <2>2 DEF Catalog!CommitServer
  <2>3. CASE Catalog!Named(tx[m].name) = {}
    <3>1. servers' = Append(servers, row) BY <1>14, <2>3 DEF Catalog!CommitServer
    <3>2. row \in ServerRows /\ row.name = tx[m].name BY <2>1 DEF ServerRows
    <3> HIDE DEF row
    <3>3. /\ servers' \in Seq(ServerRows) /\ Len(servers) \in Nat /\ Len(servers') = Len(servers) + 1
          /\ DOMAIN servers = 1..Len(servers) /\ DOMAIN servers' = 1..(Len(servers) + 1)
          /\ servers'[Len(servers) + 1] = row /\ \A i \in DOMAIN servers : servers'[i] = servers[i]
      BY <1>0, <3>1, <3>2 DEF CatalogTypes
    <3>4. \A i \in DOMAIN servers : servers[i].name # tx[m].name BY <2>3 DEF Catalog!Named
    <3>5. \A i, j \in DOMAIN servers' : servers'[i].name = servers'[j].name => i = j
      BY <3>2, <3>3, <3>4 DEF Catalog!KeysAreSound
    <3>6. QED BY <1>13, <2>1, <3>3, <3>5
  <2>4. QED BY <2>2, <2>3
(* One row of a server is written: its name, or that it is gone.           *)
<1>15. ASSUME NEW m \in Members, Catalog!Ends(m), tx[m].op \in {"rename", "delete"},
              UNCHANGED <<flows, repo, overlapped>>,
              NEW row \in ServerRows, servers' = [servers EXCEPT ![tx[m].row] = row],
              \A i \in DOMAIN servers \ {tx[m].row} : servers[i].name # row.name
       PROVE  CatalogKeeps'
  <2>1. tx[m].row \in DOMAIN servers /\ DOMAIN servers = 1..Len(servers) /\ Len(servers) \in Nat
    BY <1>0, <1>15 DEF RequestKnows, CatalogTypes
  <2>2. /\ servers' \in Seq(ServerRows) /\ Len(servers') = Len(servers) /\ DOMAIN servers' = DOMAIN servers
        /\ servers'[tx[m].row] = row
        /\ \A i \in DOMAIN servers \ {tx[m].row} : servers'[i] = servers[i]
    BY <1>0, <1>15, <2>1 DEF CatalogTypes
  <2>3. \A i, j \in DOMAIN servers' : servers'[i].name = servers'[j].name => i = j
    BY <1>15, <2>2 DEF Catalog!KeysAreSound
  <2>4. QED BY <1>13, <1>15, <2>1, <2>2, <2>3
<1>16. ASSUME NEW m \in Members, Catalog!CommitRename(m) PROVE CatalogKeeps'
  <2> DEFINE row == [servers[tx[m].row] EXCEPT !.name = tx[m].name]
  <2>1. /\ tx[m].op = "rename" /\ Catalog!Ends(m) /\ UNCHANGED <<flows, repo, overlapped>>
        /\ tx[m].name \in ServerNames /\ tx[m].row \in DOMAIN servers
    BY <1>16 DEF Catalog!CommitRename, RequestKnows
  <2>2. CASE Catalog!Named(tx[m].name) \ {tx[m].row} # {}
    BY <1>2, <1>16, <2>1, <2>2 DEF Catalog!CommitRename
  <2>3. CASE Catalog!Named(tx[m].name) \ {tx[m].row} = {}
    <3>1. servers' = [servers EXCEPT ![tx[m].row] = row] BY <1>16, <2>3 DEF Catalog!CommitRename
    <3>2. servers[tx[m].row] \in ServerRows BY <1>0, <2>1 DEF CatalogTypes
    <3>3. row \in ServerRows /\ row.name = tx[m].name BY <2>1, <3>2 DEF ServerRows
    <3> HIDE DEF row
    <3>4. \A i \in DOMAIN servers \ {tx[m].row} : servers[i].name # row.name
      BY <2>3, <3>3 DEF Catalog!Named
    <3>5. QED BY <1>15, <2>1, <3>1, <3>3, <3>4
  <2>4. QED BY <2>2, <2>3
<1>17. ASSUME NEW m \in Members, Catalog!CommitDelete(m) PROVE CatalogKeeps'
  <2> DEFINE row == [servers[tx[m].row] EXCEPT !.live = FALSE]
  <2>1. /\ tx[m].op = "delete" /\ Catalog!Ends(m) /\ UNCHANGED <<flows, repo, overlapped>>
        /\ tx[m].row \in DOMAIN servers
        /\ servers' = [servers EXCEPT ![tx[m].row] = row]
    BY <1>17 DEF Catalog!CommitDelete, RequestKnows
  <2>2. servers[tx[m].row] \in ServerRows BY <1>0, <2>1 DEF CatalogTypes
  <2>3. row \in ServerRows /\ row.name = servers[tx[m].row].name BY <2>2 DEF ServerRows
  <2> HIDE DEF row
  <2>4. \A i \in DOMAIN servers \ {tx[m].row} : servers[i].name # row.name
    BY <2>1, <2>3 DEF Catalog!KeysAreSound
  <2>5. QED BY <1>15, <2>1, <2>3, <2>4
<1>18. ASSUME NEW m \in Members, NEW found \in BOOLEAN, Catalog!EndIndex(m, found) PROVE CatalogKeeps'
  BY <1>2, <1>18 DEF Catalog!EndIndex, Catalog!Overlaps
<1>19. ASSUME NEW m \in Members, Catalog!CommitGuide(m) PROVE CatalogKeeps'
  BY <1>2, <1>19 DEF Catalog!CommitGuide, Catalog!Overlaps
<1>20. ASSUME NEW m \in Members, Catalog!Breaks(m) PROVE CatalogKeeps'
  BY <1>2, <1>20 DEF Catalog!Breaks
<1>21. CASE UNCHANGED Catalog!vars
  BY <1>21 DEF Catalog!vars, CatalogTypes, RequestKnows, PublishedOnce, Catalog!Published,
               Catalog!KeysAreSound, Catalog!Versions, Catalog!IndexingEnds
<1>22. QED
  BY <1>3, <1>4, <1>5, <1>6, <1>7, <1>8, <1>9, <1>10, <1>11, <1>12, <1>14, <1>16, <1>17, <1>18, <1>19,
     <1>20, <1>21
  DEF Catalog!Next

(* However the requests of any number of members overlap, fail or die       *)
(* between their reads and their commits: versions are numbered without    *)
(* gap or repetition, names of servers are unique, one version is published *)
(* once any was unless two publications overlapped, and a repository is    *)
(* left indexing only by a request that died or overlapped another.        *)
THEOREM CatalogStaysInOrder == Catalog!Spec => []Catalog!CatalogKeepsOrder
<1>0. ASSUME NEW S PROVE Catalog!Cardinality(S) = Cardinality(S)
  BY DEF Catalog!Cardinality, Cardinality
<1>1. ASSUME CatalogKeeps PROVE Catalog!CatalogKeepsOrder
  <2>1. ASSUME "flows" \notin overlapped PROVE Cardinality(Catalog!Published) <= 1
    <3>1. \A i, j \in Catalog!Published : i = j BY <1>1, <2>1 DEF CatalogKeeps, PublishedOnce
    <3>2. CASE Catalog!Published = {}
      <4>1. Cardinality(Catalog!Published) = 0 BY <3>2, FS_EmptySet
      <4>2. QED BY <4>1
    <3>3. CASE Catalog!Published # {}
      <4>1. PICK i \in Catalog!Published : TRUE BY <3>3
      <4>2. Catalog!Published = {i} BY <3>1, <4>1
      <4>3. Cardinality({i}) = 1 BY FS_Singleton
      <4>4. QED BY <4>2, <4>3
    <3>4. QED BY <3>2, <3>3
  <2>2. Catalog!OneVersionPublished BY <1>0, <1>1, <2>1 DEF CatalogKeeps, PublishedOnce, Catalog!OneVersionPublished
  <2>3. QED BY <1>1, <2>2 DEF CatalogKeeps, Catalog!CatalogKeepsOrder
<1>2. QED BY <1>1, CatalogInit, CatalogStep, PTL DEF Catalog!Spec

-----------------------------------------------------------------------------
(* The model registry.  As long as writers do not overlap, at most one is    *)
(* at work; what the registry's name leads to is sound and nobody writes    *)
(* to it, for the temporary file is another.                               *)
ModelRows == [name : ModelNames \cup {"torn"}, version : Nat]
WriterRows == [step : {"away", "loaded", "opened", "written", "gone"},
               entries : Seq(ModelRows), open : Nat]

Listed(entries) == {entries[k] : k \in DOMAIN entries}
VersionsOf(entries, name) == {e.version : e \in {e \in Listed(entries) : e.name = name}}

RegistryTypes ==
    /\ files \in Seq(Seq(ModelRows))
    /\ path \in 0..Len(files) /\ temporary \in 0..Len(files)
    /\ writer \in [Writers -> WriterRows]

Sound(entries) ==
    /\ entries \in Seq(ModelRows)
    /\ \A k \in DOMAIN entries : entries[k].version # 0
    /\ \A k, l \in DOMAIN entries : entries[k] = entries[l] => k = l
    /\ \A name \in ModelNames : \E n \in Nat : VersionsOf(entries, name) = 1..n

WriterKnows(w) ==
    /\ Sound(writer[w].entries) /\ writer[w].entries # <<>>
    /\ Listed(Registry!Entries(path)) \subseteq Listed(writer[w].entries)
    /\ writer[w].step \in {"opened", "written"} => writer[w].open = temporary /\ temporary # 0
    /\ writer[w].step = "written" => files[temporary] = writer[w].entries

RegistryKeeps ==
    ~ overlap =>
        /\ RegistryTypes
        /\ path = 0 \/ path # temporary
        /\ Sound(Registry!Entries(path)) /\ returned \subseteq Listed(Registry!Entries(path))
        /\ \A v, w \in Registry!Busy : v = w
        /\ \A w \in Registry!Busy : WriterKnows(w)

LEMMA TypesOfRegistry ==
    ASSUME RegistryTypes
    PROVE  Registry!Entries(path) \in Seq(ModelRows)
<1>1. CASE path = 0 BY <1>1 DEF Registry!Entries
<1>2. CASE path # 0
  <2>1. path \in 1..Len(files) /\ files \in Seq(Seq(ModelRows)) BY <1>2 DEF RegistryTypes
  <2>2. QED BY <1>2, <2>1 DEF Registry!Entries
<1>3. QED BY <1>1, <1>2

LEMMA SameOfRegistry ==
    \A entries : /\ Registry!ToSet(entries) = Listed(entries)
                 /\ \A name : Registry!Versions(entries, name) = VersionsOf(entries, name)
BY DEF Registry!ToSet, Registry!Versions, Listed, VersionsOf

LEMMA GoneIsRow == Registry!Gone \in WriterRows /\ Registry!Gone.step = "gone"
<1>1. Registry!Away \in WriterRows
  <2>1. <<>> \in Seq(ModelRows) OBVIOUS
  <2>2. QED BY <2>1 DEF Registry!Away, WriterRows
<1>2. Registry!Gone = [Registry!Away EXCEPT !.step = "gone"] BY DEF Registry!Gone
<1>3. QED BY <1>1, <1>2 DEF WriterRows

LEMMA SoundIsNotTorn == ASSUME NEW entries, Sound(entries) PROVE entries # Registry!Torn
<1>1. SUFFICES ASSUME entries = Registry!Torn PROVE FALSE OBVIOUS
<1>2. 1 \in DOMAIN entries /\ entries[1].version = 0 BY <1>1 DEF Registry!Torn
<1>3. QED BY <1>2 DEF Sound

(* The next version of a name keeps the entries sound.                     *)
LEMMA SoundGrows ==
    ASSUME NEW entries, Sound(entries), NEW name \in ModelNames
    PROVE  LET more == Append(entries, Registry!Model(entries, name)) IN
           /\ Sound(more) /\ more # <<>>
           /\ Listed(entries) \subseteq Listed(more)
<1> DEFINE had(m) == VersionsOf(entries, m)
<1>1. PICK n \in Nat : had(name) = 1..n BY DEF Sound
<1>2. Registry!Max({0} \cup (1..n)) = n
  <2>1. {0} \cup (1..n) = 0..n BY <1>1
  <2>2. Registry!Max(0..n) = CHOOSE x \in 0..n : \A y \in 0..n : x >= y BY DEF Registry!Max
  <2>3. n \in 0..n /\ \A y \in 0..n : n >= y BY <1>1
  <2>4. \A x \in 0..n : (\A y \in 0..n : x >= y) => x = n BY <2>3
  <2>5. QED BY <2>1, <2>2, <2>3, <2>4
<1> DEFINE new == Registry!Model(entries, name)
<1>3. new = [name |-> name, version |-> 1 + n] BY <1>1, <1>2, SameOfRegistry DEF Registry!Model
<1>4. new \in ModelRows /\ new.name = name /\ new.version = 1 + n /\ 1 + n # 0 BY <1>3 DEF ModelRows
<1> DEFINE len == Len(entries)
<1> DEFINE more == Append(entries, new)
<1>5. entries \in Seq(ModelRows) /\ len \in Nat /\ DOMAIN entries = 1..len BY DEF Sound
<1> HIDE DEF new, len
<1>6. /\ more \in Seq(ModelRows) /\ DOMAIN more = 1..(len + 1) /\ more[len + 1] = new /\ more # <<>>
      /\ \A k \in 1..len : more[k] = entries[k]
  BY <1>4, <1>5 DEF len
<1> HIDE DEF more
<1>7. \A k \in DOMAIN more : k \in 1..len \/ k = len + 1 BY <1>5, <1>6
<1>8. Listed(entries) = {entries[k] : k \in 1..len} BY <1>5 DEF Listed
<1>9. Listed(more) = Listed(entries) \cup {new}
  <2>1. ASSUME NEW k \in 1..len PROVE entries[k] \in Listed(more)
    <3>1. k \in DOMAIN more BY <1>5, <1>6
    <3>2. QED BY <1>6, <3>1 DEF Listed
  <2>2. new \in Listed(more)
    <3>1. len + 1 \in DOMAIN more BY <1>5, <1>6
    <3>2. QED BY <1>6, <3>1 DEF Listed
  <2>3. ASSUME NEW k \in DOMAIN more PROVE more[k] \in Listed(entries) \cup {new}
    BY <1>6, <1>7, <1>8
  <2>4. QED BY <1>8, <2>1, <2>2, <2>3 DEF Listed
<1>10. new \notin Listed(entries)
  <2>1. SUFFICES ASSUME new \in Listed(entries) PROVE FALSE OBVIOUS
  <2>2. new.version \in had(name) BY <1>4, <2>1 DEF VersionsOf
  <2>3. QED BY <1>1, <1>4, <2>2
<1>11. \A k \in DOMAIN more : more[k].version # 0
  <2>1. \A k \in 1..len : entries[k].version # 0 BY <1>5 DEF Sound
  <2>2. QED BY <1>4, <1>6, <1>7, <2>1
<1>12. ASSUME NEW k \in DOMAIN more, NEW l \in DOMAIN more, more[k] = more[l] PROVE k = l
  <2>1. CASE k \in 1..len /\ l \in 1..len BY <1>5, <1>6, <1>12, <2>1 DEF Sound
  <2>2. CASE k = len + 1 /\ l \in 1..len BY <1>6, <1>8, <1>10, <1>12, <2>2
  <2>3. CASE l = len + 1 /\ k \in 1..len BY <1>6, <1>8, <1>10, <1>12, <2>3
  <2>4. QED BY <1>7, <2>1, <2>2, <2>3
<1>13. ASSUME NEW m \in ModelNames PROVE \E i \in Nat : VersionsOf(more, m) = 1..i
  <2>1. CASE m = name
    <3>1. VersionsOf(more, m) = had(name) \cup {1 + n} BY <1>4, <1>9, <2>1 DEF VersionsOf
    <3>2. 1..(n + 1) = (1..n) \cup {1 + n} BY <1>1
    <3>3. n + 1 \in Nat BY <1>1
    <3>4. QED BY <1>1, <3>1, <3>2, <3>3
  <2>2. CASE m # name
    <3>1. VersionsOf(more, m) = had(m) BY <1>4, <1>9, <2>2 DEF VersionsOf
    <3>2. QED BY <3>1 DEF Sound
  <2>3. QED BY <2>1, <2>2
<1>14. Sound(more) BY <1>6, <1>11, <1>12, <1>13 DEF Sound
<1>15. QED BY <1>6, <1>9, <1>14 DEF more, new

LEMMA RegistryInit == ASSUME Registry!Init PROVE RegistryKeeps
<1> USE DEF Registry!Init
<1>1. Registry!Away \in WriterRows BY DEF Registry!Away, WriterRows
<1>2. RegistryTypes BY <1>1 DEF RegistryTypes
<1>3. Registry!Entries(path) = <<>> BY DEF Registry!Entries
<1>4. Sound(<<>>)
  <2>1. \A name \in ModelNames : VersionsOf(<<>>, name) = 1..0 BY DEF VersionsOf, Listed
  <2>2. 0 \in Nat /\ <<>> \in Seq(ModelRows) /\ DOMAIN <<>> = {} OBVIOUS
  <2>3. \A name \in ModelNames : \E n \in Nat : VersionsOf(<<>>, name) = 1..n BY <2>1, <2>2
  <2>4. QED BY <2>2, <2>3 DEF Sound
<1>5. Registry!Busy = {} BY DEF Registry!Busy, Registry!Away
<1>6. QED BY <1>2, <1>3, <1>4, <1>5 DEF RegistryKeeps

LEMMA RegistryStep == ASSUME RegistryKeeps, [Registry!Next]_Registry!vars PROVE RegistryKeeps'
<1> DEFINE entries == Registry!Entries(path)
<1>n. CASE overlap
  <2>1. overlap'
    <3>1. CASE UNCHANGED Registry!vars BY <1>n, <3>1 DEF Registry!vars
    <3>2. CASE Registry!Next
      <4>1. PICK w \in Writers : \/ \E name \in ModelNames : Registry!Loads(w, name)
                                 \/ Registry!Opens(w) \/ Registry!WritesOut(w)
                                 \/ Registry!Replaces(w) \/ Registry!Dies(w)
        BY <3>2 DEF Registry!Next
      <4>2. QED BY <1>n, <4>1 DEF Registry!Loads, Registry!Opens, Registry!WritesOut, Registry!Replaces, Registry!Dies
    <3>3. QED BY <3>1, <3>2
  <2>2. QED BY <2>1 DEF RegistryKeeps
<1>c. CASE ~ overlap
  <2>0. /\ RegistryTypes /\ (path = 0 \/ path # temporary)
        /\ Sound(entries) /\ returned \subseteq Listed(entries)
        /\ \A v, w \in Registry!Busy : v = w
        /\ \A w \in Registry!Busy : WriterKnows(w)
    BY <1>c DEF RegistryKeeps
  <2>t. /\ files \in Seq(Seq(ModelRows)) /\ Len(files) \in Nat /\ DOMAIN files = 1..Len(files)
        /\ path \in 0..Len(files) /\ temporary \in 0..Len(files)
        /\ \A w \in Writers : writer[w] \in WriterRows
    BY <2>0 DEF RegistryTypes
  <2> HIDE DEF entries
(* The writer at work gets on, and what the registry's name leads to stays.  *)
  <2>a. ASSUME NEW w \in Registry!Busy, NEW row \in WriterRows, writer' = [writer EXCEPT ![w] = row],
               UNCHANGED <<path, overlap, returned>>, files' \in Seq(Seq(ModelRows)),
               Len(files') >= Len(files), temporary' \in 0..Len(files'), path # 0 => path # temporary',
               path # 0 => files'[path] = files[path],
               row.step \notin {"away", "gone"} => WriterKnows(w)'
        PROVE  RegistryKeeps'
    <3>1. w \in Writers /\ writer'[w] = row /\ writer' \in [Writers -> WriterRows]
          /\ \A v \in Writers \ {w} : writer'[v] = writer[v]
      BY <2>0, <2>a DEF Registry!Busy, RegistryTypes
    <3>2. RegistryTypes' BY <2>t, <2>a, <3>1 DEF RegistryTypes
    <3>3. Registry!Entries(path)' = entries BY <2>a DEF Registry!Entries, entries
    <3>4. \A v \in Registry!Busy' : v = w
      <4>1. ASSUME NEW v \in Registry!Busy', v # w PROVE FALSE
        <5>1. v \in Registry!Busy BY <3>1, <4>1 DEF Registry!Busy
        <5>2. QED BY <2>0, <4>1, <5>1
      <4>2. QED BY <4>1
    <3>5. \A v \in Registry!Busy' : WriterKnows(v)'
      <4>1. ASSUME NEW v \in Registry!Busy' PROVE WriterKnows(v)'
        <5>1. row.step \notin {"away", "gone"} BY <3>1, <3>4, <4>1 DEF Registry!Busy
        <5>2. QED BY <2>a, <3>4, <4>1, <5>1
      <4>2. QED BY <4>1
    <3>7. Sound(Registry!Entries(path))' /\ returned' \subseteq Listed(Registry!Entries(path))'
      BY <2>0, <2>a, <3>3
    <3>8. QED BY <2>a, <3>2, <3>4, <3>5, <3>7 DEF RegistryKeeps
  <2>1. ASSUME NEW w \in Writers, NEW name \in ModelNames, Registry!Loads(w, name) PROVE RegistryKeeps'
    <3> DEFINE more == Append(entries, Registry!Model(entries, name))
    <3> DEFINE row == [step |-> "loaded", entries |-> more, open |-> 0]
    <3>1. CASE Registry!Busy # {} BY <2>1, <3>1 DEF Registry!Loads, RegistryKeeps
    <3>2. CASE Registry!Busy = {}
      <4>1. entries # Registry!Torn BY <2>0, SoundIsNotTorn
      <4>2. writer' = [writer EXCEPT ![w] = [step |-> "loaded", open |-> 0, entries |-> more]]
            /\ UNCHANGED <<path, temporary, files, returned>>
        BY <2>1, <4>1 DEF Registry!Loads, entries
      <4>3. Sound(more) /\ more # <<>> /\ Listed(entries) \subseteq Listed(more)
        BY <2>0, SoundGrows
      <4>4. more \in Seq(ModelRows) BY <4>3 DEF Sound
      <4> HIDE DEF more
      <4>5. row \in WriterRows /\ row.step = "loaded" /\ row.entries = more BY <4>4 DEF WriterRows
      <4>6. writer' = [writer EXCEPT ![w] = row] BY <4>2
      <4> HIDE DEF row
      <4>7. writer'[w] = row /\ writer' \in [Writers -> WriterRows]
            /\ \A v \in Writers \ {w} : writer'[v] = writer[v]
        BY <2>0, <4>5, <4>6 DEF RegistryTypes
      <4>8. RegistryTypes' BY <2>t, <4>2, <4>7 DEF RegistryTypes
      <4>9. \A v \in Registry!Busy' : v = w BY <3>2, <4>7 DEF Registry!Busy
      <4>10. Registry!Entries(path)' = entries BY <4>2 DEF Registry!Entries, entries
      <4>11. WriterKnows(w)'
        <5>1. Sound(writer'[w].entries) /\ writer'[w].entries # <<>>
              /\ Listed(entries) \subseteq Listed(writer'[w].entries)
              /\ writer'[w].step = "loaded"
          BY <4>3, <4>5, <4>7
        <5>2. QED BY <4>10, <5>1 DEF WriterKnows
      <4>12. Sound(Registry!Entries(path))' /\ returned' \subseteq Listed(Registry!Entries(path))'
        BY <2>0, <4>2, <4>10
      <4>13. \A v \in Registry!Busy' : WriterKnows(v)' BY <4>9, <4>11
      <4>14. QED BY <2>0, <4>2, <4>8, <4>9, <4>12, <4>13 DEF RegistryKeeps
    <3>3. QED BY <3>1, <3>2
  <2>2. ASSUME NEW w \in Writers, Registry!Opens(w) PROVE RegistryKeeps'
    <3> DEFINE f == IF temporary # 0 THEN temporary ELSE Len(files) + 1
    <3> DEFINE row == [writer[w] EXCEPT !.step = "opened", !.open = f]
    <3>1. /\ writer[w].step = "loaded"
          /\ files' = IF temporary # 0 THEN [files EXCEPT ![f] = Registry!Torn] ELSE Append(files, Registry!Torn)
          /\ temporary' = f /\ writer' = [writer EXCEPT ![w].step = "opened", ![w].open = f]
          /\ UNCHANGED <<path, overlap, returned>>
      BY <2>2 DEF Registry!Opens
    <3>2. w \in Registry!Busy /\ WriterKnows(w) BY <2>0, <3>1 DEF Registry!Busy
    <3>3. f \in Nat \ {0} /\ (path # 0 => path # f) BY <2>0, <2>t
    <3>4. Registry!Torn \in Seq(ModelRows)
      <4>1. [name |-> "torn", version |-> 0] \in ModelRows BY DEF ModelRows
      <4>2. QED BY <4>1 DEF Registry!Torn
    <3>5. /\ files' \in Seq(Seq(ModelRows)) /\ Len(files') >= Len(files) /\ f \in 0..Len(files')
          /\ path # 0 => files'[path] = files[path]
      <4>1. CASE temporary # 0
        <5>1. files' = [files EXCEPT ![f] = Registry!Torn] /\ f = temporary /\ f \in 1..Len(files)
          BY <2>t, <3>1, <4>1
        <5> HIDE DEF f
        <5>2. files' \in Seq(Seq(ModelRows)) /\ Len(files') = Len(files) BY <2>t, <3>4, <5>1
        <5>3. path # 0 => files'[path] = files[path] BY <2>t, <3>3, <5>1
        <5>4. QED BY <2>t, <5>1, <5>2, <5>3
      <4>2. CASE temporary = 0
        <5>1. files' = Append(files, Registry!Torn) /\ f = Len(files) + 1 BY <3>1, <4>2
        <5> HIDE DEF f
        <5>2. files' \in Seq(Seq(ModelRows)) /\ Len(files') = Len(files) + 1 BY <2>t, <3>4, <5>1
        <5>3. path # 0 => files'[path] = files[path] BY <2>t, <5>1
        <5>4. QED BY <2>t, <5>1, <5>2, <5>3
      <4>3. QED BY <4>1, <4>2
    <3> HIDE DEF f
    <3>6. row \in WriterRows /\ row.step = "opened" /\ row.open = f /\ row.entries = writer[w].entries
      BY <2>t, <3>3 DEF WriterRows
    <3>7. writer' = [writer EXCEPT ![w] = row] BY <3>1
    <3> HIDE DEF row
    <3>8. WriterKnows(w)'
      <4>1. writer'[w] = row BY <2>0, <3>7 DEF RegistryTypes
      <4>2. writer'[w].entries = writer[w].entries /\ writer'[w].step = "opened" /\ writer'[w].open = temporary'
        BY <3>1, <3>6, <4>1
      <4>3. Registry!Entries(path)' = Registry!Entries(path) BY <3>1, <3>5 DEF Registry!Entries
      <4>4. temporary' # 0 BY <3>1, <3>3
      <4>5. QED BY <3>2, <4>2, <4>3, <4>4 DEF WriterKnows
    <3>9. QED BY <2>a, <3>1, <3>2, <3>3, <3>5, <3>6, <3>7, <3>8
  <2>3. ASSUME NEW w \in Writers, Registry!WritesOut(w) PROVE RegistryKeeps'
    <3> DEFINE row == [writer[w] EXCEPT !.step = "written"]
    <3>1. /\ writer[w].step = "opened"
          /\ files' = [files EXCEPT ![writer[w].open] = writer[w].entries]
          /\ writer' = [writer EXCEPT ![w].step = "written"]
          /\ UNCHANGED <<path, temporary, overlap, returned>>
      BY <2>3 DEF Registry!WritesOut
    <3>2. w \in Registry!Busy /\ WriterKnows(w) BY <2>0, <3>1 DEF Registry!Busy
    <3>3. writer[w].open = temporary /\ temporary # 0 /\ writer[w].entries \in Seq(ModelRows)
      BY <3>1, <3>2 DEF WriterKnows, Sound
    <3>4. /\ files' \in Seq(Seq(ModelRows)) /\ Len(files') = Len(files)
          /\ files'[temporary] = writer[w].entries
          /\ path # 0 => files'[path] = files[path]
      <4>1. temporary \in 1..Len(files) BY <2>t, <3>3
      <4>2. files' = [files EXCEPT ![temporary] = writer[w].entries] BY <3>1, <3>3
      <4>3. QED BY <2>0, <2>t, <3>3, <4>1, <4>2
    <3>5. row \in WriterRows /\ row.step = "written" /\ row.open = temporary /\ row.entries = writer[w].entries
      BY <2>t, <3>3 DEF WriterRows
    <3>6. writer' = [writer EXCEPT ![w] = row] BY <3>1
    <3> HIDE DEF row
    <3>7. WriterKnows(w)'
      <4>1. writer'[w] = row BY <2>0, <3>6 DEF RegistryTypes
      <4>2. writer'[w].entries = writer[w].entries /\ writer'[w].step = "written" /\ writer'[w].open = temporary'
        BY <3>1, <3>5, <4>1
      <4>3. Registry!Entries(path)' = Registry!Entries(path) BY <3>1, <3>4 DEF Registry!Entries
      <4>4. files'[temporary'] = writer[w].entries /\ temporary' # 0 BY <3>1, <3>3, <3>4
      <4>5. QED BY <3>2, <4>2, <4>3, <4>4 DEF WriterKnows
    <3>8. temporary' \in 0..Len(files') /\ Len(files') >= Len(files) /\ (path # 0 => path # temporary')
      BY <2>0, <2>t, <3>1, <3>4
    <3>9. QED BY <2>a, <3>1, <3>2, <3>4, <3>5, <3>6, <3>7, <3>8
(* The temporary file becomes the registry: it holds all that was there and  *)
(* the new model.                                                          *)
  <2>4. ASSUME NEW w \in Writers, Registry!Replaces(w) PROVE RegistryKeeps'
    <3>1. writer[w].step = "written" /\ writer' = [writer EXCEPT ![w] = Registry!Gone]
          /\ UNCHANGED <<files, overlap>>
      BY <2>4 DEF Registry!Replaces
    <3>2. w \in Registry!Busy /\ WriterKnows(w) BY <2>0, <3>1 DEF Registry!Busy
    <3>3. /\ temporary # 0 /\ files[temporary] = writer[w].entries /\ Sound(writer[w].entries)
          /\ writer[w].entries # <<>>
          /\ Listed(entries) \subseteq Listed(writer[w].entries)
      BY <3>1, <3>2 DEF WriterKnows, entries
    <3>4. /\ path' = temporary /\ temporary' = 0
          /\ returned' = returned \cup {Registry!Last(writer[w].entries)}
      BY <2>4, <3>3 DEF Registry!Replaces
    <3>5. Registry!Gone \in WriterRows /\ Registry!Gone.step = "gone" BY GoneIsRow
    <3>6. writer'[w] = Registry!Gone /\ writer' \in [Writers -> WriterRows]
          /\ \A v \in Writers \ {w} : writer'[v] = writer[v]
      BY <2>0, <3>1, <3>5 DEF RegistryTypes
    <3>7. RegistryTypes' BY <2>t, <3>1, <3>4, <3>6 DEF RegistryTypes
    <3>8. Registry!Busy' = {}
      <4>1. ASSUME NEW v \in Registry!Busy' PROVE FALSE
        <5>1. v # w /\ v \in Registry!Busy BY <3>5, <3>6, <4>1 DEF Registry!Busy
        <5>2. QED BY <2>0, <3>2, <5>1
      <4>2. QED BY <4>1
    <3>9. Registry!Entries(path)' = writer[w].entries BY <3>1, <3>3, <3>4 DEF Registry!Entries
    <3>10. Registry!Last(writer[w].entries) \in Listed(writer[w].entries)
      <4> DEFINE made == writer[w].entries
      <4>1. made \in Seq(ModelRows) /\ made # <<>> BY <3>3 DEF Sound
      <4> HIDE DEF made
      <4>2. Len(made) \in DOMAIN made BY <4>1
      <4>3. Registry!Last(made) \in Listed(made) BY <4>2 DEF Registry!Last, Listed
      <4>4. QED BY <4>3 DEF made
    <3>11. Sound(Registry!Entries(path))' BY <3>3, <3>9
    <3>12. returned' \subseteq Listed(Registry!Entries(path))'
      BY <2>0, <3>3, <3>4, <3>9, <3>10 DEF Listed
    <3>13. path' # temporary' BY <3>3, <3>4
    <3>14. QED BY <3>7, <3>8, <3>11, <3>12, <3>13 DEF RegistryKeeps
  <2>5. ASSUME NEW w \in Writers, Registry!Dies(w) PROVE RegistryKeeps'
    <3>1. w \in Registry!Busy /\ writer' = [writer EXCEPT ![w] = Registry!Gone]
          /\ UNCHANGED <<path, temporary, files, overlap, returned>>
      BY <2>5 DEF Registry!Dies
    <3>2. Registry!Gone \in WriterRows /\ Registry!Gone.step = "gone" BY GoneIsRow
    <3>3. files' \in Seq(Seq(ModelRows)) /\ Len(files') >= Len(files) /\ temporary' \in 0..Len(files')
          /\ (path # 0 => path # temporary') /\ files'[path] = files[path]
      BY <2>0, <2>t, <3>1
    <3>4. QED BY <2>a, <3>1, <3>2, <3>3
  <2>6. CASE UNCHANGED Registry!vars
    <3>1. UNCHANGED <<path, temporary, files, writer, overlap, returned>> BY <2>6 DEF Registry!vars
    <3>2. Registry!Entries(path)' = Registry!Entries(path) /\ Registry!Busy' = Registry!Busy
      BY <3>1 DEF Registry!Entries, Registry!Busy
    <3>3. RegistryTypes' BY <2>0, <3>1 DEF RegistryTypes
    <3>4. Sound(Registry!Entries(path))' /\ returned' \subseteq Listed(Registry!Entries(path))'
      BY <2>0, <3>1, <3>2 DEF entries
    <3>5. ASSUME NEW w \in Registry!Busy PROVE WriterKnows(w)'
      <4>1. WriterKnows(w) BY <2>0
      <4>2. QED BY <3>1, <3>2, <4>1 DEF WriterKnows
    <3>6. QED BY <2>0, <3>1, <3>2, <3>3, <3>4, <3>5 DEF RegistryKeeps
  <2>7. QED BY <2>1, <2>2, <2>3, <2>4, <2>5, <2>6 DEF Registry!Next
<1>1. QED BY <1>n, <1>c

(* As long as writers do not overlap, dying where they like, the registry   *)
(* can always be read, has every model a caller was told of, and one       *)
(* version of a name once, without gaps (RegistryKeepsModels, a part of     *)
(* CatalogKeepsOrder): for any writers and any names.                      *)
THEOREM RegistryStaysSound == Registry!Spec => []Registry!RegistryKeepsModels
<1>1. Registry!Init => RegistryKeeps BY RegistryInit
<1>2. RegistryKeeps /\ [Registry!Next]_Registry!vars => RegistryKeeps' BY RegistryStep
<1>3. ASSUME RegistryKeeps PROVE Registry!RegistryKeepsModels
  <2> DEFINE entries == Registry!Entries(path)
  <2>1. SUFFICES ASSUME ~ overlap
                 PROVE  /\ entries # Registry!Torn
                        /\ returned \subseteq Listed(entries)
                        /\ Registry!IsInjective(entries)
                        /\ \A name \in ModelNames :
                              LET versions == VersionsOf(entries, name)
                              IN  versions = 1..Registry!Cardinality(versions)
    BY SameOfRegistry DEF Registry!RegistryKeepsModels
  <2>2. Sound(entries) /\ returned \subseteq Listed(entries) BY <1>3, <2>1 DEF RegistryKeeps
  <2> HIDE DEF entries
  <2>s. Registry!ToSet(entries) = Listed(entries)
        /\ \A name : Registry!Versions(entries, name) = VersionsOf(entries, name)
    BY SameOfRegistry
  <2>3. entries # Registry!Torn BY <2>2, SoundIsNotTorn
  <2>4. Registry!IsInjective(entries) BY <2>2 DEF Sound, Registry!IsInjective
  <2>5. ASSUME NEW name \in ModelNames
        PROVE  LET versions == VersionsOf(entries, name)
               IN  versions = 1..Registry!Cardinality(versions)
    <3>1. PICK n \in Nat : VersionsOf(entries, name) = 1..n BY <2>2 DEF Sound
    <3>2. Cardinality(1..n) = n
      <4>1. 1 \in Int /\ n \in Int BY <3>1
      <4>2. Cardinality(1..n) = IF 1 > n THEN 0 ELSE n - 1 + 1 BY <4>1, FS_Interval
      <4>3. QED BY <3>1, <4>2
    <3>3. Registry!Cardinality(1..n) = Cardinality(1..n) BY DEF Registry!Cardinality, Cardinality
    <3>4. QED BY <3>1, <3>2, <3>3
  <2>6. QED BY <2>2, <2>3, <2>4, <2>5
<1>4. QED BY <1>1, <1>2, <1>3, PTL DEF Registry!Spec
-----------------------------------------------------------------------------
(* How many numbers of a set come before one of them: the positions of a    *)
(* finite set are 0, 1, ... without gap or repetition.                     *)
Rank(S, i) == Cardinality({j \in S : j < i})

LEMMA RankBound ==
    ASSUME NEW S \in SUBSET Nat, IsFiniteSet(S), NEW i \in S
    PROVE  Rank(S, i) \in Nat /\ Rank(S, i) < Cardinality(S)
<1> DEFINE before == {j \in S : j < i}
<1>1. before \in SUBSET S /\ before # S OBVIOUS
<1>2. IsFiniteSet(before) /\ Cardinality(before) <= Cardinality(S)
      /\ (Cardinality(S) = Cardinality(before) => S = before)
  BY <1>1, FS_Subset
<1>3. Cardinality(before) \in Nat /\ Cardinality(S) \in Nat BY <1>2, FS_CardinalityType
<1> HIDE DEF before
<1>4. Cardinality(before) < Cardinality(S) BY <1>1, <1>2, <1>3
<1>5. QED BY <1>3, <1>4 DEF Rank, before

LEMMA RankIncreases ==
    ASSUME NEW S \in SUBSET Nat, IsFiniteSet(S), NEW i \in S, NEW j \in S, i < j
    PROVE  Rank(S, i) < Rank(S, j)
<1> DEFINE lower == {k \in S : k < i}
<1> DEFINE upper == {k \in S : k < j}
<1>1. upper \in SUBSET S OBVIOUS
<1>2. lower \in SUBSET upper
  <2>1. \A k \in S : k < i => k < j
    <3>1. i \in Nat /\ j \in Nat /\ \A k \in S : k \in Nat OBVIOUS
    <3>2. QED BY <3>1
  <2>2. QED BY <2>1
<1>3. i \in upper /\ i \notin lower OBVIOUS
<1>4. IsFiniteSet(upper) BY <1>1, FS_Subset
<1>5. IsFiniteSet(lower) /\ Cardinality(lower) <= Cardinality(upper)
      /\ (Cardinality(upper) = Cardinality(lower) => upper = lower)
  BY <1>2, <1>4, FS_Subset
<1>6. Cardinality(lower) \in Nat /\ Cardinality(upper) \in Nat BY <1>4, <1>5, FS_CardinalityType
<1> HIDE DEF lower, upper
<1>7. Cardinality(lower) < Cardinality(upper) BY <1>3, <1>5, <1>6
<1>8. QED BY <1>7 DEF Rank, lower, upper

LEMMA RankIsOne ==
    ASSUME NEW S \in SUBSET Nat, IsFiniteSet(S)
    PROVE  \A i, j \in S : Rank(S, i) = Rank(S, j) => i = j
<1>1. SUFFICES ASSUME NEW i \in S, NEW j \in S, i < j PROVE Rank(S, i) # Rank(S, j)
  OBVIOUS
<1>2. Rank(S, i) < Rank(S, j) /\ Rank(S, i) \in Nat /\ Rank(S, j) \in Nat
  BY <1>1, RankIncreases, RankBound
<1>3. QED BY <1>2

(* No position is left out: fewer positions than members would give two of  *)
(* them the same.                                                          *)
LEMMA RankIsOnto ==
    ASSUME NEW S \in SUBSET Nat, IsFiniteSet(S), NEW r \in Nat, r < Cardinality(S)
    PROVE  \E i \in S : Rank(S, i) = r
<1>1. SUFFICES ASSUME \A i \in S : Rank(S, i) # r PROVE FALSE
  OBVIOUS
<1> DEFINE n == Cardinality(S)
<1> DEFINE others == (0..(n - 1)) \ {r}
<1> DEFINE f == [i \in S |-> Rank(S, i)]
<1>2. n \in Nat BY FS_CardinalityType
<1>3. IsFiniteSet(0..(n - 1)) /\ Cardinality(0..(n - 1)) = n
  <2>1. 0 \in Int /\ n - 1 \in Int BY <1>2
  <2>2. IsFiniteSet(0..(n - 1)) /\ Cardinality(0..(n - 1)) = IF 0 > n - 1 THEN 0 ELSE (n - 1) - 0 + 1
    BY <2>1, FS_Interval
  <2>3. QED BY <1>2, <2>2
<1>4. IsFiniteSet(others) /\ Cardinality(others) = n - 1
  <2>1. r \in 0..(n - 1) BY <1>2
  <2>2. QED BY <1>3, <2>1, FS_RemoveElement
<1>5. \A i \in S : Rank(S, i) \in others
  <2>1. \A i \in S : Rank(S, i) \in Nat /\ Rank(S, i) < n BY RankBound
  <2>2. QED BY <1>1, <1>2, <2>1
<1>6. f \in [S -> others] BY <1>5
<1>7. Cardinality(others) < n BY <1>2, <1>4
<1> HIDE DEF others
<1>8. PICK i \in S, j \in S : i # j /\ f[i] = f[j]
  <2> HIDE DEF f
  <2>1. \E x, y \in S : x # y /\ f[x] = f[y] BY <1>4, <1>6, <1>7, FS_PigeonHole
  <2>2. QED BY <2>1
<1>9. QED BY <1>8, RankIsOne

(* A page of the members from a position on.                               *)
PageOf(S, from, size) == {i \in S : Rank(S, i) \in from..(from + size - 1)}

LEMMA PageIsFull ==
    ASSUME NEW S \in SUBSET Nat, IsFiniteSet(S), NEW from \in Nat, from <= Cardinality(S),
           NEW size \in Nat \ {0}
    PROVE  /\ IsFiniteSet(PageOf(S, from, size))
           /\ from + Cardinality(PageOf(S, from, size)) <= Cardinality(S)
           /\ \A i \in S : Rank(S, i) < from + Cardinality(PageOf(S, from, size))
                              <=> Rank(S, i) < from + size
           /\ PageOf(S, from, size) = {} => from = Cardinality(S)
<1> DEFINE n == Cardinality(S)
<1> DEFINE page == PageOf(S, from, size)
<1> DEFINE end == IF from + size <= n THEN from + size ELSE n
<1> DEFINE f == [i \in page |-> Rank(S, i)]
<1>1. n \in Nat BY FS_CardinalityType
<1>2. \A i \in S : Rank(S, i) \in Nat /\ Rank(S, i) < n BY RankBound
<1>3. page \in SUBSET S /\ IsFiniteSet(page) BY FS_Subset DEF PageOf
<1>4. \A i \in page : Rank(S, i) \in from..(end - 1) BY <1>1, <1>2, <1>3 DEF PageOf
<1>5. f \in [page -> from..(end - 1)] BY <1>4
<1>6. \A i, j \in page : f[i] = f[j] => i = j BY <1>3, RankIsOne
<1>7. \A r \in from..(end - 1) : \E i \in page : f[i] = r
  <2>1. ASSUME NEW r \in from..(end - 1) PROVE \E i \in page : f[i] = r
    <3>1. r \in Nat /\ r < n /\ r \in from..(from + size - 1) BY <1>1, <2>1
    <3>2. PICK i \in S : Rank(S, i) = r BY <3>1, RankIsOnto
    <3>3. i \in page BY <3>1, <3>2 DEF PageOf
    <3>4. QED BY <3>2, <3>3
  <2>2. QED BY <2>1
<1>8. ExistsBijection(page, from..(end - 1))
  <2> HIDE DEF f, page, end
  <2>1. f \in Injection(page, from..(end - 1)) BY <1>5, <1>6 DEF Injection, IsInjective
  <2>2. f \in Surjection(page, from..(end - 1)) BY <1>5, <1>7 DEF Surjection
  <2>3. QED BY <2>1, <2>2 DEF ExistsBijection, Bijection
<1>9. Cardinality(from..(end - 1)) = Cardinality(page) BY <1>3, <1>8, FS_Bijection
<1>10. Cardinality(page) = end - from
  <2>1. from \in Int /\ end - 1 \in Int /\ from <= end BY <1>1
  <2>2. Cardinality(from..(end - 1)) = IF from > end - 1 THEN 0 ELSE (end - 1) - from + 1
    BY <2>1, FS_Interval
  <2>3. QED BY <1>1, <1>9, <2>1, <2>2
<1>11. page = {} => end = from
  <2>1. page = {} => Cardinality(page) = 0 BY FS_EmptySet
  <2>2. QED BY <1>1, <1>10, <2>1
<1> HIDE DEF page
<1>12. QED BY <1>1, <1>2, <1>3, <1>10, <1>11 DEF page
-----------------------------------------------------------------------------
(* The vector stores.  Who writes alone leaves both stores with what it     *)
(* wrote, and the migration writes nothing older over it.                  *)
OpRows == [no : Nat, id : Ids, value : Nat, todo : SUBSET Vectors!Stores,
           failed : SUBSET Vectors!Stores, alone : BOOLEAN]
Records == [id : Ids, value : Nat]
CopyStates == {"none", "reading", "writing", "retrying", "done", "undoing", "undone"}
CopyRows == [state : CopyStates, offset : Nat, batch : Seq(Records), scanned : Nat,
             migrated : SUBSET Ids, failed : SUBSET Ids]

VectorTypes ==
    /\ content \in [Vectors!Stores -> [Ids -> Nat]]
    /\ latest \in [Ids -> Nat]
    /\ writes \in Nat
    /\ ops \subseteq OpRows
    /\ copy \in CopyRows
    /\ copy.state = "none" => copy = Vectors!NoCopy
    /\ copy.state \in {"writing", "retrying"} => copy.batch # <<>>

AloneIsAhead ==
    \A op \in ops : op.alone =>
        /\ op.value = latest[op.id] /\ op.id \notin Vectors!Read(copy.batch)
        /\ \A other \in ops : other.id = op.id => other = op
        /\ \A s \in Vectors!Stores \ (op.todo \cup op.failed) : content[s][op.id] = op.value

BatchIsFresh ==
    copy.state # "undoing" =>
        \A k \in DOMAIN copy.batch :
            LET record == copy.batch[k] IN
            record.id \notin doubtful /\ (\A op \in ops : op.id # record.id)
                => record.value = latest[record.id]

(* A migration nobody disturbs: what it has seen are the records before its *)
(* offset, each of them migrated, failed, or in the batch at hand.         *)
Counting == copy.state \in {"reading", "writing", "retrying", "done"} /\ quiet

CopyAccounts ==
    LET here == Vectors!Held("chroma")
        batch == copy.batch IN
    Counting =>
        /\ ops = {}
        /\ copy.scanned = copy.offset /\ copy.offset <= Cardinality(here)
        /\ copy.migrated \cup copy.failed \cup Vectors!Read(batch)
             = {i \in here : Rank(here, i) < copy.offset}
        /\ copy.migrated \cap copy.failed = {}
        /\ (copy.migrated \cup copy.failed) \cap Vectors!Read(batch) = {}
        /\ \A k, l \in DOMAIN batch : batch[k].id = batch[l].id => k = l
        /\ \A k \in DOMAIN batch : batch[k].value = content["chroma"][batch[k].id]
        /\ \A i \in copy.migrated : content["milvus"][i] = content["chroma"][i]
        /\ copy.state \in {"reading", "done"} => batch = <<>>
        /\ copy.state = "done" => copy.offset = Cardinality(here)

BothAgree ==
    \A i \in Ids \ doubtful : (\A op \in ops : op.id # i) =>
        content["milvus"][i] = latest[i] /\ content["chroma"][i] = latest[i]

VectorsKeep ==
    /\ VectorTypes
    /\ AloneIsAhead
    /\ BatchIsFresh
    /\ CopyAccounts
    /\ BothAgree

LEMMA SameCardinality == \A S : Vectors!Cardinality(S) = Cardinality(S)
BY DEF Vectors!Cardinality, Cardinality

LEMMA HeldIsFinite ==
    ASSUME IdsAreNumbers, NEW s
    PROVE  Vectors!Held(s) \in SUBSET Nat /\ IsFiniteSet(Vectors!Held(s)) /\ Vectors!Held(s) \in SUBSET Ids
<1>1. Vectors!Held(s) \in SUBSET Ids BY DEF Vectors!Held
<1>2. QED BY <1>1, FS_Subset DEF IdsAreNumbers

LEMMA PageIsPage == Vectors!Page = PageOf(Vectors!Held("chroma"), copy.offset, BatchSize)
BY SameCardinality DEF Vectors!Page, PageOf, Vectors!Position, Rank

LEMMA OrderedIsList ==
    ASSUME NEW S \in SUBSET Nat, IsFiniteSet(S)
    PROVE  /\ DOMAIN Vectors!Ordered(S) = 1..Cardinality(S)
           /\ \A k \in 1..Cardinality(S) :
                 Vectors!Ordered(S)[k] \in S /\ Rank(S, Vectors!Ordered(S)[k]) = k - 1
<1> DEFINE order == Vectors!Ordered(S)
<1>1. Cardinality(S) \in Nat BY FS_CardinalityType
<1>2. DOMAIN order = 1..Cardinality(S) BY SameCardinality DEF Vectors!Ordered
<1>3. ASSUME NEW k \in 1..Cardinality(S) PROVE order[k] \in S /\ Rank(S, order[k]) = k - 1
  <2>1. k - 1 \in Nat /\ k - 1 < Cardinality(S) BY <1>1, <1>3
  <2>2. PICK i \in S : Rank(S, i) = k - 1 BY <2>1, RankIsOnto
  <2>3. \E j \in S : Vectors!Cardinality({m \in S : m < j}) = k - 1
    BY <2>2, SameCardinality DEF Rank
  <2>4. order[k] = CHOOSE j \in S : Vectors!Cardinality({m \in S : m < j}) = k - 1
    BY <1>3, SameCardinality DEF Vectors!Ordered
  <2> HIDE DEF order
  <2>5. order[k] \in S /\ Vectors!Cardinality({m \in S : m < order[k]}) = k - 1 BY <2>3, <2>4
  <2>6. QED BY <2>5, SameCardinality DEF Rank
<1>4. QED BY <1>2, <1>3

(* Every record of a set of ids is in its list, once.                      *)
LEMMA RecordsAreListed ==
    ASSUME IdsAreNumbers, VectorTypes, NEW S \in SUBSET Ids
    PROVE  LET batch == Vectors!Records(S) IN
           /\ batch \in Seq(Records) /\ (S # {} => batch # <<>>)
           /\ Vectors!Read(batch) = S
           /\ \A k, l \in DOMAIN batch : batch[k].id = batch[l].id => k = l
           /\ \A k \in DOMAIN batch : batch[k].value = content["chroma"][batch[k].id]
<1> DEFINE order == Vectors!Ordered(S)
<1> DEFINE n == Cardinality(S)
<1> DEFINE batch == Vectors!Records(S)
<1>1. S \in SUBSET Nat /\ IsFiniteSet(S) BY FS_Subset DEF IdsAreNumbers
<1>2. n \in Nat BY <1>1, FS_CardinalityType
<1>3. /\ DOMAIN order = 1..n
      /\ \A k \in 1..n : order[k] \in S /\ Rank(S, order[k]) = k - 1
  BY <1>1, OrderedIsList
<1>4. batch = [k \in 1..n |-> [id |-> order[k], value |-> content["chroma"][order[k]]]]
  BY <1>3 DEF Vectors!Records
<1> HIDE DEF order, n
<1>5. \A k \in 1..n : batch[k].id = order[k] /\ batch[k].value = content["chroma"][order[k]] /\ batch[k] \in Records
  BY <1>3, <1>4 DEF VectorTypes, Vectors!Stores, Records
<1>6. DOMAIN batch = 1..n BY <1>4
<1>7. batch \in Seq(Records) /\ Len(batch) = n
  <2>1. batch = [k \in 1..n |-> batch[k]] BY <1>4
  <2> HIDE DEF batch
  <2>2. batch \in [1..n -> Records] BY <1>5, <2>1
  <2>3. QED BY <1>2, <2>2
<1> HIDE DEF batch
<1>8. S # {} => batch # <<>>
  <2>1. S # {} => n # 0 BY <1>1, FS_EmptySet DEF n
  <2>2. QED BY <1>7, <2>1
<1>9. ASSUME NEW k \in 1..n, NEW l \in 1..n, batch[k].id = batch[l].id PROVE k = l
  <2>1. order[k] = order[l] BY <1>5, <1>9
  <2>2. k - 1 = l - 1 BY <1>3, <1>9, <2>1
  <2>3. QED BY <1>2, <1>9, <2>2
<1>10. Vectors!Read(batch) = S
  <2>1. Vectors!Read(batch) = {order[k] : k \in 1..n} BY <1>5, <1>6 DEF Vectors!Read
  <2>2. ASSUME NEW i \in S PROVE \E k \in 1..n : order[k] = i
    <3>1. Rank(S, i) \in Nat /\ Rank(S, i) < n BY <1>1, RankBound DEF n
    <3>2. Rank(S, i) + 1 \in 1..n BY <1>2, <3>1
    <3>3. order[Rank(S, i) + 1] \in S /\ Rank(S, order[Rank(S, i) + 1]) = Rank(S, i)
      BY <1>2, <1>3, <3>1, <3>2
    <3>4. order[Rank(S, i) + 1] = i
      <4>1. \A j \in S : Rank(S, j) = Rank(S, i) => j = i BY <1>1, RankIsOne
      <4>2. QED BY <3>3, <4>1
    <3>5. QED BY <3>2, <3>4
  <2>3. QED BY <1>3, <2>1, <2>2
<1>11. QED BY <1>5, <1>6, <1>7, <1>8, <1>9, <1>10 DEF batch

LEMMA VectorsInit == ASSUME IdsAreNumbers, Vectors!Init PROVE VectorsKeep
<1> USE DEF Vectors!Init, Vectors!Stores
<1>1. PICK old \in SUBSET Ids :
          /\ content = [s \in Vectors!Stores |->
                          [i \in Ids |-> IF s = "chroma" /\ i \in old THEN 1 ELSE 0]]
          /\ latest = content["chroma"] /\ doubtful = old
  OBVIOUS
<1>2. content["milvus"] = [i \in Ids |-> 0] /\ latest = [i \in Ids |-> IF i \in old THEN 1 ELSE 0]
      /\ content["chroma"] = [i \in Ids |-> IF i \in old THEN 1 ELSE 0]
  BY <1>1
<1>3. content \in [Vectors!Stores -> [Ids -> Nat]] /\ latest \in [Ids -> Nat] BY <1>1, <1>2
<1>4. Vectors!NoCopy \in CopyRows BY DEF Vectors!NoCopy, CopyRows, CopyStates
<1>5. copy.state = "none" /\ copy.batch = <<>> BY DEF Vectors!NoCopy
<1>6. VectorTypes BY <1>3, <1>4, <1>5 DEF VectorTypes
<1>7. AloneIsAhead /\ BatchIsFresh /\ CopyAccounts
  BY <1>5 DEF AloneIsAhead, BatchIsFresh, CopyAccounts, Counting
<1>8. BothAgree BY <1>1, <1>2 DEF BothAgree
<1>9. QED BY <1>6, <1>7, <1>8 DEF VectorsKeep

LEMMA VectorsStep ==
    ASSUME IdsAreNumbers, BatchSize \in Nat \ {0}, VectorsKeep, [Vectors!Next]_Vectors!vars
    PROVE  VectorsKeep'
<1> USE DEF VectorsKeep
<1>0. VectorTypes /\ copy \in CopyRows /\ copy.batch \in Seq(Records)
  BY DEF VectorTypes, CopyRows
<1>s. Vectors!Stores = {"milvus", "chroma"} BY DEF Vectors!Stores
(* A write starts: alone if no other write of the record is under way and   *)
(* the migration has not read it.                                          *)
<1>1. ASSUME NEW kind, NEW i \in Ids, Vectors!Starts(kind, i) PROVE VectorsKeep'
  <2> DEFINE lone == (\A op \in ops : op.id # i) /\ i \notin Vectors!Read(copy.batch)
  <2> DEFINE value == IF kind = Vectors!Upsert THEN writes + 2 ELSE 0
  <2> DEFINE new == [no |-> writes, id |-> i, value |-> latest'[i], todo |-> Vectors!Stores,
                     failed |-> {}, alone |-> lone]
  <2>1. /\ writes' = writes + 1 /\ latest' = [latest EXCEPT ![i] = value]
        /\ ops' = Vectors!Disturbed({i}) \cup {new}
        /\ quiet' = FALSE /\ UNCHANGED <<content, doubtful, copy>>
    BY <1>1 DEF Vectors!Starts
  <2>u. content' = content /\ doubtful' = doubtful /\ copy' = copy BY <2>1
  <2>2. value \in Nat /\ latest' \in [Ids -> Nat] /\ latest'[i] = value
        /\ \A j \in Ids \ {i} : latest'[j] = latest[j]
    BY <1>0, <2>1 DEF VectorTypes
  <2> HIDE DEF value
  <2>3. lone \in BOOLEAN OBVIOUS
  <2> HIDE DEF lone
  <2>4. /\ new \in OpRows /\ new.id = i /\ new.value = latest'[i] /\ new.todo = Vectors!Stores
        /\ new.alone = lone
    BY <1>0, <2>2, <2>3 DEF OpRows, VectorTypes
  <2> HIDE DEF new
  <2>5. ASSUME NEW op \in Vectors!Disturbed({i})
        PROVE  op \in OpRows /\ ((op.id = i /\ op.alone = FALSE) \/ (op.id # i /\ op \in ops))
    <3>1. PICK o \in ops : op = IF o.id \in {i} THEN [o EXCEPT !.alone = FALSE] ELSE o
      BY <2>5 DEF Vectors!Disturbed
    <3>2. o \in OpRows BY <1>0 DEF VectorTypes
    <3>3. QED BY <3>1, <3>2 DEF OpRows
  <2>6. ASSUME NEW o \in ops PROVE \E op \in ops' : op.id = o.id
    <3>1. (IF o.id \in {i} THEN [o EXCEPT !.alone = FALSE] ELSE o) \in ops'
      BY <2>1 DEF Vectors!Disturbed
    <3>2. o \in OpRows BY <1>0 DEF VectorTypes
    <3>3. QED BY <3>1, <3>2 DEF OpRows
  <2>7. \E op \in ops' : op.id = i BY <2>1, <2>4
  <2>8. VectorTypes'
    <3>1. ops' \subseteq OpRows BY <2>1, <2>4, <2>5
    <3>2. writes' \in Nat BY <1>0, <2>1 DEF VectorTypes
    <3>3. QED BY <1>0, <2>u, <2>2, <3>1, <3>2 DEF VectorTypes
  <2>9. AloneIsAhead'
    <3>1. SUFFICES ASSUME NEW op \in ops', op.alone
                   PROVE  /\ op.value = latest'[op.id] /\ op.id \notin Vectors!Read(copy.batch)
                          /\ \A other \in ops' : other.id = op.id => other = op
                          /\ \A s \in Vectors!Stores \ (op.todo \cup op.failed) : content[s][op.id] = op.value
      BY <2>u DEF AloneIsAhead, Vectors!Read
    <3>2. CASE op = new
      <4>1. lone BY <2>4, <3>1, <3>2
      <4>2. \A other \in ops' : other.id = i => other = new
        <5>1. ASSUME NEW other \in Vectors!Disturbed({i}) PROVE other.id # i
          <6>1. PICK o \in ops : other = IF o.id \in {i} THEN [o EXCEPT !.alone = FALSE] ELSE o
            BY <5>1 DEF Vectors!Disturbed
          <6>2. QED BY <4>1, <6>1 DEF lone
        <5>2. QED BY <2>1, <5>1
      <4>3. QED BY <2>4, <3>2, <4>1, <4>2 DEF lone
    <3>3. CASE op # new
      <4>1. op \in ops /\ op.id # i /\ op \in OpRows BY <2>1, <2>5, <3>1, <3>3
      <4>2. op.id \in Ids BY <4>1 DEF OpRows
      <4>3. \A other \in ops' : other.id = op.id => other = op
        BY <2>1, <2>4, <2>5, <3>1, <4>1 DEF AloneIsAhead
      <4>4. QED BY <2>2, <3>1, <4>1, <4>2, <4>3 DEF AloneIsAhead
    <3>4. QED BY <3>2, <3>3
  <2>10. ASSUME NEW j, \A op \in ops' : op.id # j PROVE j # i /\ \A op \in ops : op.id # j
    BY <2>6, <2>7, <2>10
  <2>11. BatchIsFresh'
    <3>1. \A k \in DOMAIN copy.batch : copy.batch[k].id \in Ids
      <4>1. \A k \in DOMAIN copy.batch : copy.batch[k] \in Records BY <1>0
      <4>2. QED BY <4>1 DEF Records
    <3>2. QED BY <2>u, <2>2, <2>10, <3>1 DEF BatchIsFresh
  <2>12. BothAgree' BY <2>1, <2>2, <2>10 DEF BothAgree
  <2>13. CopyAccounts' BY <2>1 DEF CopyAccounts, Counting
  <2>14. QED BY <2>8, <2>9, <2>11, <2>12, <2>13
<1>2. ASSUME NEW op \in ops, NEW s \in Vectors!Stores, NEW arrived \in BOOLEAN, NEW fails \in BOOLEAN,
             Vectors!Reaches(op, s, arrived, fails)
      PROVE  VectorsKeep'
  <2> DEFINE new == [op EXCEPT !.todo = @ \ {s}, !.failed = IF fails THEN @ \cup {s} ELSE @]
  <2>1. /\ s \in op.todo /\ (arrived \/ fails)
        /\ content' = IF arrived THEN [content EXCEPT ![s][op.id] = op.value] ELSE content
        /\ ops' = (ops \ {op}) \cup {new} /\ UNCHANGED <<writes, latest, doubtful, copy, quiet>>
    BY <1>2 DEF Vectors!Reaches
  <2>2. op \in OpRows /\ op.id \in Ids /\ op.value \in Nat BY <1>0 DEF VectorTypes, OpRows
  <2>3. /\ new \in OpRows /\ new.id = op.id /\ new.value = op.value /\ new.alone = op.alone
        /\ new.todo = op.todo \ {s} /\ new.failed = IF fails THEN op.failed \cup {s} ELSE op.failed
    BY <1>2, <2>2 DEF OpRows
  <2> HIDE DEF new
  <2>4. /\ content' \in [Vectors!Stores -> [Ids -> Nat]]
        /\ \A t \in Vectors!Stores, i \in Ids : t # s \/ i # op.id => content'[t][i] = content[t][i]
        /\ arrived => content'[s][op.id] = op.value
    BY <1>0, <2>1, <2>2 DEF VectorTypes
  <2>5. VectorTypes' BY <1>0, <2>1, <2>3, <2>4 DEF VectorTypes
  <2>6. ASSUME NEW j, \A o \in ops' : o.id # j PROVE j # op.id /\ \A o \in ops : o.id # j
    BY <2>1, <2>3, <2>6
  <2>7. AloneIsAhead'
    <3>1. SUFFICES ASSUME NEW o \in ops', o.alone
                   PROVE  /\ o.value = latest[o.id] /\ o.id \notin Vectors!Read(copy.batch)
                          /\ \A other \in ops' : other.id = o.id => other = o
                          /\ \A t \in Vectors!Stores \ (o.todo \cup o.failed) : content'[t][o.id] = o.value
      BY <2>1 DEF AloneIsAhead, Vectors!Read
    <3>2. CASE o = new
      <4>1. /\ op.alone /\ op.value = latest[op.id] /\ op.id \notin Vectors!Read(copy.batch)
            /\ \A other \in ops : other.id = op.id => other = op
            /\ \A t \in Vectors!Stores \ (op.todo \cup op.failed) : content[t][op.id] = op.value
        BY <2>3, <3>1, <3>2 DEF AloneIsAhead
      <4>2. \A other \in ops' : other.id = new.id => other = new BY <2>1, <2>3, <4>1
      <4>3. ASSUME NEW t \in Vectors!Stores \ (new.todo \cup new.failed) PROVE content'[t][op.id] = op.value
        <5>1. CASE t = s BY <2>1, <2>3, <2>4, <4>3, <5>1
        <5>2. CASE t # s BY <2>2, <2>3, <2>4, <4>1, <4>3, <5>2
        <5>3. QED BY <5>1, <5>2
      <4>4. QED BY <2>3, <3>2, <4>1, <4>2, <4>3
    <3>3. CASE o # new
      <4>1. o \in ops /\ o # op /\ o \in OpRows BY <1>0, <2>1, <3>1, <3>3 DEF VectorTypes
      <4>2. /\ o.value = latest[o.id] /\ o.id \notin Vectors!Read(copy.batch)
            /\ \A other \in ops : other.id = o.id => other = o
            /\ \A t \in Vectors!Stores \ (o.todo \cup o.failed) : content[t][o.id] = o.value
        BY <3>1, <4>1 DEF AloneIsAhead
      <4>3. o.id # op.id /\ o.id \in Ids BY <4>1, <4>2 DEF OpRows
      <4>4. QED BY <2>1, <2>3, <2>4, <4>2, <4>3
    <3>4. QED BY <3>2, <3>3
  <2>8. BatchIsFresh' BY <2>1, <2>6 DEF BatchIsFresh
  <2>9. BothAgree' BY <1>s, <2>1, <2>4, <2>6 DEF BothAgree
  <2>10. CopyAccounts' BY <2>1 DEF CopyAccounts, Counting
  <2>11. QED BY <2>5, <2>7, <2>8, <2>9, <2>10
(* Both calls are over: both stores have the value, or the record is        *)
(* doubtful.                                                               *)
<1>3. ASSUME NEW op \in ops, Vectors!Returns(op) PROVE VectorsKeep'
  <2>1. /\ op.todo = {} /\ ops' = ops \ {op}
        /\ doubtful' = IF op.failed # {} \/ ~ op.alone THEN doubtful \cup {op.id} ELSE doubtful \ {op.id}
        /\ UNCHANGED <<content, writes, latest, copy, quiet>>
    BY <1>3 DEF Vectors!Returns, Vectors!Degraded
  <2>2. op \in OpRows /\ op.id \in Ids BY <1>0 DEF VectorTypes, OpRows
  <2>3. VectorTypes' BY <1>0, <2>1 DEF VectorTypes
  <2>4. AloneIsAhead' BY <2>1 DEF AloneIsAhead, Vectors!Read
  <2>5. op.id \notin doubtful' =>
            /\ op.id \notin Vectors!Read(copy.batch)
            /\ content["milvus"][op.id] = latest[op.id] /\ content["chroma"][op.id] = latest[op.id]
    <3>1. op.id \notin doubtful' => op.failed = {} /\ op.alone BY <2>1
    <3>2. QED BY <1>s, <2>1, <3>1 DEF AloneIsAhead
  <2>6. ASSUME NEW j, j # op.id, j \notin doubtful', \A o \in ops' : o.id # j
        PROVE  j \notin doubtful /\ \A o \in ops : o.id # j
    BY <2>1, <2>6
  <2>7. BatchIsFresh'
    <3>1. \A k \in DOMAIN copy.batch : copy.batch[k].id \in Vectors!Read(copy.batch) BY DEF Vectors!Read
    <3>2. ASSUME NEW k \in DOMAIN copy.batch, copy.state # "undoing", copy.batch[k].id \notin doubtful',
                 \A o \in ops' : o.id # copy.batch[k].id
          PROVE  copy.batch[k].value = latest[copy.batch[k].id]
      BY <2>5, <2>6, <3>1, <3>2 DEF BatchIsFresh
    <3>3. QED BY <2>1, <3>2 DEF BatchIsFresh
  <2>8. BothAgree'
    <3>1. ASSUME NEW j \in Ids, j \notin doubtful', \A o \in ops' : o.id # j
          PROVE  content["milvus"][j] = latest[j] /\ content["chroma"][j] = latest[j]
      <4>1. CASE j = op.id BY <2>5, <3>1, <4>1
      <4>2. CASE j # op.id BY <2>6, <3>1, <4>2 DEF BothAgree
      <4>3. QED BY <4>1, <4>2
    <3>2. QED BY <2>1, <3>1 DEF BothAgree
  <2>9. CopyAccounts' BY <2>1 DEF CopyAccounts, Counting
  <2>10. QED BY <2>3, <2>4, <2>7, <2>8, <2>9
(* What the migration writes are values of its batch, and only to Milvus.   *)
<1>4. ASSUME /\ content' \in [Vectors!Stores -> [Ids -> Nat]]
             /\ content'["chroma"] = content["chroma"]
             /\ \A i \in Ids :
                   \/ content'["milvus"][i] = content["milvus"][i]
                   \/ \E k \in DOMAIN copy.batch :
                         copy.batch[k].id = i /\ copy.batch[k].value = content'["milvus"][i],
             /\ copy' \in CopyRows /\ copy.state # "undoing" /\ copy'.state # "none"
             /\ copy'.state \in {"writing", "retrying"} => copy'.batch # <<>>
             /\ \A k \in DOMAIN copy'.batch :
                   \E l \in DOMAIN copy.batch : copy'.batch[k] = copy.batch[l],
             UNCHANGED <<writes, ops, latest, doubtful>>
      PROVE  VectorTypes' /\ AloneIsAhead' /\ BatchIsFresh' /\ BothAgree'
  <2>1. VectorTypes' BY <1>0, <1>4 DEF VectorTypes
  <2>2. Vectors!Read(copy'.batch) \subseteq Vectors!Read(copy.batch) BY <1>4 DEF Vectors!Read
  <2>3. ASSUME NEW i \in Ids, i \notin Vectors!Read(copy.batch), NEW s \in Vectors!Stores
        PROVE  content'[s][i] = content[s][i]
    BY <1>s, <1>4, <2>3 DEF Vectors!Read
  <2>4. AloneIsAhead'
    <3>1. ASSUME NEW op \in ops, op.alone
          PROVE  /\ op.value = latest[op.id] /\ op.id \notin Vectors!Read(copy'.batch)
                 /\ \A other \in ops : other.id = op.id => other = op
                 /\ \A s \in Vectors!Stores \ (op.todo \cup op.failed) : content'[s][op.id] = op.value
      <4>1. op \in OpRows /\ op.id \in Ids BY <1>0 DEF VectorTypes, OpRows
      <4>2. /\ op.value = latest[op.id] /\ op.id \notin Vectors!Read(copy.batch)
            /\ \A other \in ops : other.id = op.id => other = op
            /\ \A s \in Vectors!Stores \ (op.todo \cup op.failed) : content[s][op.id] = op.value
        BY <3>1 DEF AloneIsAhead
      <4>3. QED BY <2>2, <2>3, <4>1, <4>2
    <3>2. Vectors!Read(copy.batch)' = Vectors!Read(copy'.batch) BY DEF Vectors!Read
    <3>3. QED BY <1>4, <3>1, <3>2 DEF AloneIsAhead
  <2>f. ASSUME NEW k \in DOMAIN copy.batch, copy.batch[k].id \notin doubtful,
               \A op \in ops : op.id # copy.batch[k].id
        PROVE  copy.batch[k].value = latest[copy.batch[k].id]
    BY <1>4, <2>f DEF BatchIsFresh
  <2>5. BatchIsFresh'
    <3>1. ASSUME NEW k \in DOMAIN copy'.batch, copy'.batch[k].id \notin doubtful,
                 \A op \in ops : op.id # copy'.batch[k].id
          PROVE  copy'.batch[k].value = latest[copy'.batch[k].id]
      <4>1. PICK l \in DOMAIN copy.batch : copy'.batch[k] = copy.batch[l] BY <1>4
      <4>2. QED BY <2>f, <3>1, <4>1
    <3>2. QED BY <1>4, <3>1 DEF BatchIsFresh
  <2>6. BothAgree'
    <3>1. ASSUME NEW i \in Ids, i \notin doubtful, \A op \in ops : op.id # i
          PROVE  content'["milvus"][i] = latest[i] /\ content'["chroma"][i] = latest[i]
      <4>1. content["milvus"][i] = latest[i] /\ content["chroma"][i] = latest[i]
        BY <3>1 DEF BothAgree
      <4>2. CASE content'["milvus"][i] = content["milvus"][i] BY <1>4, <4>1, <4>2
      <4>3. CASE content'["milvus"][i] # content["milvus"][i]
        <5>1. PICK k \in DOMAIN copy.batch :
                  copy.batch[k].id = i /\ copy.batch[k].value = content'["milvus"][i]
          BY <1>4, <4>3
        <5>2. copy.batch[k].value = latest[i] BY <2>f, <3>1, <5>1
        <5>3. QED BY <1>4, <4>1, <5>1, <5>2
      <4>4. QED BY <4>2, <4>3
    <3>2. QED BY <1>4, <3>1 DEF BothAgree
  <2>7. QED BY <2>1, <2>4, <2>5, <2>6
<1>5. ASSUME content' = Vectors!Copied(copy.batch)
      PROVE  /\ content' \in [Vectors!Stores -> [Ids -> Nat]]
             /\ content'["chroma"] = content["chroma"]
             /\ \A i \in Ids :
                   \/ /\ content'["milvus"][i] = content["milvus"][i]
                      /\ i \notin Vectors!Read(copy.batch)
                   \/ \E k \in DOMAIN copy.batch :
                         copy.batch[k].id = i /\ copy.batch[k].value = content'["milvus"][i]
  <2> DEFINE batch == copy.batch
  <2> DEFINE value(i) == IF i \in Vectors!Read(batch) THEN batch[Vectors!Written(batch)[i]].value
                                                      ELSE content["milvus"][i]
  <2> DEFINE new == [i \in Ids |-> value(i)]
  <2>1. content' = [content EXCEPT !["milvus"] = new] BY <1>5 DEF Vectors!Copied
  <2>2. ASSUME NEW i \in Ids, i \in Vectors!Read(batch)
        PROVE  \E k \in DOMAIN batch : batch[k].id = i /\ batch[k].value = value(i)
    <3>1. Vectors!Written(batch)[i] = CHOOSE k \in DOMAIN batch : batch[k].id = i
      BY <2>2 DEF Vectors!Written
    <3>2. \E k \in DOMAIN batch : batch[k].id = i BY <2>2 DEF Vectors!Read
    <3>3. Vectors!Written(batch)[i] \in DOMAIN batch /\ batch[Vectors!Written(batch)[i]].id = i
      BY <3>1, <3>2
    <3>4. QED BY <2>2, <3>3
  <2>3. \A i \in Ids : value(i) \in Nat
    <3>1. \A k \in DOMAIN batch : batch[k] \in Records BY <1>0
    <3>2. \A k \in DOMAIN batch : batch[k].value \in Nat BY <3>1 DEF Records
    <3>3. \A i \in Ids : content["milvus"][i] \in Nat BY <1>0, <1>s DEF VectorTypes
    <3>4. ASSUME NEW i \in Ids PROVE value(i) \in Nat
      <4>1. CASE i \in Vectors!Read(batch) BY <2>2, <3>2, <4>1
      <4>2. CASE i \notin Vectors!Read(batch) BY <3>3, <4>2
      <4>3. QED BY <4>1, <4>2
    <3>5. QED BY <3>4
  <2>4. \A i \in Ids : i \notin Vectors!Read(batch) => value(i) = content["milvus"][i] OBVIOUS
  <2> HIDE DEF value
  <2>5. new \in [Ids -> Nat] /\ \A i \in Ids : new[i] = value(i) BY <2>3
  <2> HIDE DEF new
  <2>6. /\ content' \in [Vectors!Stores -> [Ids -> Nat]]
        /\ content'["chroma"] = content["chroma"] /\ content'["milvus"] = new
    BY <1>0, <1>s, <2>1, <2>5 DEF VectorTypes
  <2>7. QED BY <2>2, <2>4, <2>5, <2>6
(* The migration begins: nothing is read, nothing is before the first.      *)
<1>6. ASSUME Vectors!CopyStarts PROVE VectorsKeep'
  <2> DEFINE here == Vectors!Held("chroma")
  <2>1. /\ copy = Vectors!NoCopy /\ copy' = [copy EXCEPT !.state = "reading"]
        /\ quiet' = (ops = {}) /\ UNCHANGED <<content, writes, ops, latest, doubtful>>
    BY <1>0, <1>6 DEF Vectors!CopyStarts, VectorTypes
  <2>2. /\ copy' \in CopyRows /\ copy'.state = "reading" /\ copy'.batch = <<>> /\ copy.batch = <<>>
        /\ copy'.offset = 0 /\ copy'.scanned = 0 /\ copy'.migrated = {} /\ copy'.failed = {}
    BY <1>0, <2>1 DEF CopyRows, CopyStates, Vectors!NoCopy
  <2>3. copy.state # "undoing" BY <2>1 DEF Vectors!NoCopy
  <2>4. content' \in [Vectors!Stores -> [Ids -> Nat]] BY <1>0, <2>1 DEF VectorTypes
  <2>5. VectorTypes' /\ AloneIsAhead' /\ BatchIsFresh' /\ BothAgree'
    <3>1. content' = content /\ UNCHANGED <<writes, ops, latest, doubtful>> BY <2>1
    <3>2. \A k \in DOMAIN copy'.batch : FALSE BY <2>2
    <3>3. QED BY <1>4, <2>2, <2>3, <2>4, <3>1, <3>2
  <2>6. CopyAccounts'
    <3>1. here \in SUBSET Nat /\ IsFiniteSet(here) BY HeldIsFinite
    <3>2. Cardinality(here) \in Nat BY <3>1, FS_CardinalityType
    <3>3. \A i \in here : Rank(here, i) \in Nat BY <3>1, RankBound
    <3>4. {i \in here : Rank(here, i) < 0} = {}
      <4> HIDE DEF here
      <4>1. QED BY <3>3
    <3>5. Vectors!Held("chroma")' = here BY <2>1 DEF Vectors!Held
    <3>6. Vectors!Read(copy.batch)' = {} BY <2>2 DEF Vectors!Read
    <3>7. Counting' => ops' = {} BY <2>1 DEF Counting
    <3> HIDE DEF here
    <3>8. QED BY <2>2, <3>2, <3>4, <3>5, <3>6, <3>7 DEF CopyAccounts
  <2>7. QED BY <2>5, <2>6
(* A page is read: its records as they are now.                             *)
<1>7. ASSUME Vectors!CopyReads PROVE VectorsKeep'
  <2> DEFINE here == Vectors!Held("chroma")
  <2> DEFINE page == Vectors!Page
  <2> DEFINE size == Cardinality(page)
  <2>1. /\ copy.state = "reading"
        /\ copy' = IF page = {} THEN [copy EXCEPT !.state = "done"]
                   ELSE [copy EXCEPT !.state = "writing", !.batch = Vectors!Records(page),
                                     !.offset = @ + size, !.scanned = @ + size]
        /\ ops' = Vectors!Disturbed(page) /\ UNCHANGED <<content, writes, latest, doubtful, quiet>>
    BY <1>7, SameCardinality DEF Vectors!CopyReads
  <2>u. content' = content /\ UNCHANGED <<writes, latest, doubtful, quiet>> BY <2>1
  <2>2. here \in SUBSET Nat /\ IsFiniteSet(here) /\ here \in SUBSET Ids BY HeldIsFinite
  <2>3. page \in SUBSET here /\ page = PageOf(here, copy.offset, BatchSize)
    BY PageIsPage DEF PageOf
  <2>4. size \in Nat
    <3>1. IsFiniteSet(page) BY <2>2, <2>3, FS_Subset
    <3>2. QED BY <3>1, FS_CardinalityType
  <2>5. LET batch == Vectors!Records(page) IN
        /\ batch \in Seq(Records) /\ (page # {} => batch # <<>>)
        /\ Vectors!Read(batch) = page
        /\ \A k, l \in DOMAIN batch : batch[k].id = batch[l].id => k = l
        /\ \A k \in DOMAIN batch : batch[k].value = content["chroma"][batch[k].id]
    BY <1>0, <2>2, <2>3, RecordsAreListed
  <2>6. ASSUME NEW op \in ops'
        PROVE  op \in OpRows /\ (op.alone => op.id \notin page /\ op \in ops)
    <3>1. PICK o \in ops : op = IF o.id \in page THEN [o EXCEPT !.alone = FALSE] ELSE o
      BY <2>1, <2>6 DEF Vectors!Disturbed
    <3>2. o \in OpRows BY <1>0 DEF VectorTypes
    <3> HIDE DEF page
    <3>3. QED BY <3>1, <3>2 DEF OpRows
  <2>7. ASSUME NEW o \in ops PROVE \E op \in ops' : op.id = o.id
    <3>1. (IF o.id \in page THEN [o EXCEPT !.alone = FALSE] ELSE o) \in ops'
      BY <2>1 DEF Vectors!Disturbed
    <3>2. o \in OpRows BY <1>0 DEF VectorTypes
    <3> HIDE DEF page
    <3>3. QED BY <3>1, <3>2 DEF OpRows
  <2>8. ASSUME NEW op \in ops', op.alone, NEW other \in ops', other.id = op.id PROVE other = op
    <3>1. PICK o \in ops : other = IF o.id \in page THEN [o EXCEPT !.alone = FALSE] ELSE o
      BY <2>1, <2>8 DEF Vectors!Disturbed
    <3>2. o \in OpRows BY <1>0 DEF VectorTypes
    <3> HIDE DEF page
    <3>3. other.id = o.id BY <3>1, <3>2 DEF OpRows
    <3>4. op \in ops /\ op.id \notin page BY <2>6, <2>8
    <3>5. other = o BY <2>8, <3>1, <3>3, <3>4
    <3>6. QED BY <2>8, <3>3, <3>4, <3>5 DEF AloneIsAhead
  <2> HIDE DEF page, size
  <2>9. /\ copy' \in CopyRows /\ copy'.migrated = copy.migrated /\ copy'.failed = copy.failed
        /\ page = {} => /\ copy'.state = "done" /\ copy'.batch = copy.batch
                        /\ copy'.offset = copy.offset /\ copy'.scanned = copy.scanned
        /\ page # {} => /\ copy'.state = "writing" /\ copy'.batch = Vectors!Records(page)
                        /\ copy'.offset = copy.offset + size /\ copy'.scanned = copy.scanned + size
    <3>1. copy.offset \in Nat /\ copy.scanned \in Nat BY <1>0 DEF CopyRows
    <3>2. CASE page = {} BY <1>0, <2>1, <3>2 DEF CopyRows, CopyStates
    <3>3. CASE page # {}
      <4>1. copy' = [copy EXCEPT !.state = "writing", !.batch = Vectors!Records(page),
                                 !.offset = @ + size, !.scanned = @ + size]
        BY <2>1, <3>3
      <4> DEFINE batch == Vectors!Records(page)
      <4>2. batch \in Seq(Records) /\ copy.offset + size \in Nat /\ copy.scanned + size \in Nat
        BY <2>4, <2>5, <3>1
      <4>3. copy' = [copy EXCEPT !.state = "writing", !.batch = batch,
                                 !.offset = copy.offset + size, !.scanned = copy.scanned + size]
        BY <4>1, Zenon
      <4> HIDE DEF batch
      <4>4. /\ copy'.state = "writing" /\ copy'.batch = batch /\ copy'.offset = copy.offset + size
            /\ copy'.scanned = copy.scanned + size /\ copy'.migrated = copy.migrated
            /\ copy'.failed = copy.failed
        BY <1>0, <4>3 DEF CopyRows
      <4>5. copy' \in CopyRows BY <1>0, <4>2, <4>3 DEF CopyRows, CopyStates
      <4>6. QED BY <3>3, <4>4, <4>5 DEF batch
    <3>4. QED BY <3>2, <3>3
  <2>10. VectorTypes'
    <3>1. ops' \subseteq OpRows BY <2>6
    <3>2. copy'.state # "none" /\ (copy'.state \in {"writing", "retrying"} => copy'.batch # <<>>)
      BY <2>5, <2>9
    <3>3. QED BY <1>0, <2>u, <2>9, <3>1, <3>2 DEF VectorTypes
  <2>11. AloneIsAhead'
    <3>1. ASSUME NEW op \in ops', op.alone
          PROVE  /\ op.value = latest[op.id] /\ op.id \notin Vectors!Read(copy'.batch)
                 /\ \A s \in Vectors!Stores \ (op.todo \cup op.failed) : content[s][op.id] = op.value
      <4>1. op \in ops /\ op.id \notin page BY <2>6, <3>1
      <4>2. op.id \notin Vectors!Read(copy'.batch)
        <5>1. CASE page = {} BY <2>9, <3>1, <4>1, <5>1 DEF AloneIsAhead
        <5>2. CASE page # {} BY <2>5, <2>9, <4>1, <5>2
        <5>3. QED BY <5>1, <5>2
      <4>3. QED BY <3>1, <4>1, <4>2 DEF AloneIsAhead
    <3>2. Vectors!Read(copy.batch)' = Vectors!Read(copy'.batch) BY DEF Vectors!Read
    <3>3. QED BY <2>u, <2>8, <3>1, <3>2 DEF AloneIsAhead
  <2>12. ASSUME NEW j, \A op \in ops' : op.id # j PROVE \A op \in ops : op.id # j
    BY <2>7, <2>12
  <2>13. BothAgree' BY <2>u, <2>12 DEF BothAgree
  <2>14. BatchIsFresh'
    <3>1. ASSUME NEW k \in DOMAIN copy'.batch, copy'.batch[k].id \notin doubtful,
                 \A op \in ops' : op.id # copy'.batch[k].id
          PROVE  copy'.batch[k].value = latest[copy'.batch[k].id]
      <4>1. \A op \in ops : op.id # copy'.batch[k].id BY <2>12, <3>1
      <4>2. CASE page = {} BY <2>1, <2>9, <3>1, <4>1, <4>2 DEF BatchIsFresh
      <4>3. CASE page # {}
        <5>1. copy'.batch[k].value = content["chroma"][copy'.batch[k].id] BY <2>5, <2>9, <3>1, <4>3
        <5>2. copy'.batch[k].id \in Ids
          <6>1. copy'.batch[k] \in Records BY <2>5, <2>9, <3>1, <4>3
          <6>2. QED BY <6>1 DEF Records
        <5>3. QED BY <3>1, <4>1, <5>1, <5>2 DEF BothAgree
      <4>4. QED BY <4>2, <4>3
    <3>2. QED BY <2>u, <3>1 DEF BatchIsFresh
  <2>15. CopyAccounts'
    <3>h. Vectors!Held("chroma")' = here BY <2>u DEF Vectors!Held
    <3> HIDE DEF here
    <3>1. SUFFICES ASSUME Counting' PROVE CopyAccounts' BY DEF CopyAccounts
    <3>2. Counting BY <2>1, <2>u, <3>1 DEF Counting
    <3>3. /\ ops = {} /\ copy.scanned = copy.offset /\ copy.offset <= Cardinality(here)
          /\ copy.migrated \cup copy.failed \cup Vectors!Read(copy.batch)
               = {i \in here : Rank(here, i) < copy.offset}
          /\ copy.migrated \cap copy.failed = {} /\ copy.batch = <<>>
          /\ \A i \in copy.migrated : content["milvus"][i] = content["chroma"][i]
      BY <2>1, <3>2 DEF CopyAccounts, here
    <3>4. Vectors!Read(copy.batch) = {} BY <3>3 DEF Vectors!Read
    <3>5. copy.migrated \cup copy.failed = {i \in here : Rank(here, i) < copy.offset}
      BY <3>3, <3>4
    <3>6. copy.offset \in Nat /\ Cardinality(here) \in Nat
      BY <1>0, <2>2, FS_CardinalityType DEF CopyRows
    <3>7. /\ copy.offset + size <= Cardinality(here)
          /\ \A i \in here : Rank(here, i) < copy.offset + size
                               <=> Rank(here, i) < copy.offset + BatchSize
          /\ page = {} => copy.offset = Cardinality(here)
      <4>1. LET p == PageOf(here, copy.offset, BatchSize) IN
            /\ copy.offset + Cardinality(p) <= Cardinality(here)
            /\ \A i \in here : Rank(here, i) < copy.offset + Cardinality(p)
                                 <=> Rank(here, i) < copy.offset + BatchSize
            /\ p = {} => copy.offset = Cardinality(here)
        BY <2>2, <3>3, <3>6, PageIsFull
      <4>2. QED BY <2>3, <4>1 DEF size
    <3>8. ops' = {} BY <2>1, <3>3 DEF Vectors!Disturbed
    <3>9. CASE page = {}
      <4>1. Vectors!Read(copy.batch)' = {} BY <2>9, <3>4, <3>9 DEF Vectors!Read
      <4>2. QED BY <2>u, <2>9, <3>h, <3>3, <3>4, <3>5, <3>7, <3>8, <3>9, <4>1 DEF CopyAccounts
    <3>10. CASE page # {}
      <4>1. Vectors!Read(copy.batch)' = page BY <2>5, <2>9, <3>10 DEF Vectors!Read
      <4>2. \A i \in here : Rank(here, i) \in Nat BY <2>2, RankBound
      <4>3. \A i \in here : i \in page <=> Rank(here, i) \in copy.offset..(copy.offset + BatchSize - 1)
        BY <2>3 DEF PageOf
      <4>4. \A i \in here : Rank(here, i) < copy.offset + size
                              <=> Rank(here, i) < copy.offset \/ i \in page
        <5>1. ASSUME NEW i \in here
              PROVE  Rank(here, i) < copy.offset + size <=> Rank(here, i) < copy.offset \/ i \in page
          <6> DEFINE r == Rank(here, i)
          <6>1. r \in Nat /\ (i \in page <=> r \in copy.offset..(copy.offset + BatchSize - 1))
                /\ (r < copy.offset + size <=> r < copy.offset + BatchSize)
            BY <3>7, <4>2, <4>3
          <6> HIDE DEF r
          <6>2. r < copy.offset + size <=> r < copy.offset \/ i \in page BY <3>6, <6>1
          <6>3. QED BY <6>2 DEF r
        <5>2. QED BY <5>1
      <4>5. copy.migrated \cup copy.failed \cup page = {i \in here : Rank(here, i) < copy.offset + size}
        BY <2>3, <3>5, <4>4
      <4>6. (copy.migrated \cup copy.failed) \cap page = {}
        <5>1. ASSUME NEW i \in page PROVE ~ (Rank(here, i) < copy.offset)
          <6> DEFINE r == Rank(here, i)
          <6>1. r \in copy.offset..(copy.offset + BatchSize - 1) BY <2>3, <4>3
          <6> HIDE DEF r
          <6>2. ~ (r < copy.offset) BY <3>6, <6>1
          <6>3. QED BY <6>2 DEF r
        <5>2. QED BY <3>5, <5>1
      <4>7. /\ copy'.scanned = copy'.offset /\ copy'.offset <= Cardinality(here)
            /\ copy'.migrated \cup copy'.failed \cup page = {i \in here : Rank(here, i) < copy'.offset}
            /\ copy'.migrated \cap copy'.failed = {} /\ (copy'.migrated \cup copy'.failed) \cap page = {}
            /\ \A i \in copy'.migrated : content["milvus"][i] = content["chroma"][i]
        BY <2>9, <3>3, <3>7, <3>10, <4>5, <4>6
      <4>8. /\ \A k, l \in DOMAIN copy'.batch : copy'.batch[k].id = copy'.batch[l].id => k = l
            /\ \A k \in DOMAIN copy'.batch : copy'.batch[k].value = content["chroma"][copy'.batch[k].id]
            /\ copy'.state = "writing"
        BY <2>5, <2>9, <3>10
      <4>9. QED BY <2>u, <3>h, <3>8, <4>1, <4>7, <4>8 DEF CopyAccounts
    <3>11. QED BY <3>9, <3>10
  <2>16. QED BY <2>10, <2>11, <2>13, <2>14, <2>15
(* The batch is written as a whole.                                         *)
<1>8. ASSUME Vectors!CopyWrites PROVE VectorsKeep'
  <2> DEFINE here == Vectors!Held("chroma")
  <2> DEFINE taken == Vectors!Read(copy.batch)
  <2>1. /\ copy.state = "writing" /\ content' = Vectors!Copied(copy.batch)
        /\ copy' = [copy EXCEPT !.state = "reading", !.batch = <<>>, !.migrated = @ \cup taken]
        /\ UNCHANGED <<writes, ops, latest, doubtful, quiet>>
    BY <1>8 DEF Vectors!CopyWrites
  <2>2. taken \subseteq Ids
    <3>1. \A k \in DOMAIN copy.batch : copy.batch[k] \in Records BY <1>0
    <3>2. QED BY <3>1 DEF Vectors!Read, Records
  <2> HIDE DEF taken
  <2>3. /\ copy'.state = "reading" /\ copy'.batch = <<>> /\ copy'.migrated = copy.migrated \cup taken
        /\ copy'.failed = copy.failed /\ copy'.offset = copy.offset /\ copy'.scanned = copy.scanned
        /\ copy' \in CopyRows
    <3> DEFINE migrated == copy.migrated \cup taken
    <3>1. migrated \in SUBSET Ids /\ <<>> \in Seq(Records) BY <1>0, <2>2 DEF CopyRows
    <3>2. copy' = [copy EXCEPT !.state = "reading", !.batch = <<>>, !.migrated = migrated]
      BY <2>1, Zenon
    <3> HIDE DEF migrated
    <3>3. /\ copy'.state = "reading" /\ copy'.batch = <<>> /\ copy'.migrated = migrated
          /\ copy'.failed = copy.failed /\ copy'.offset = copy.offset /\ copy'.scanned = copy.scanned
      BY <1>0, <3>2 DEF CopyRows
    <3>4. copy' \in CopyRows BY <1>0, <3>1, <3>2 DEF CopyRows, CopyStates
    <3>5. QED BY <3>3, <3>4 DEF migrated
  <2>4. VectorTypes' /\ AloneIsAhead' /\ BatchIsFresh' /\ BothAgree'
    <3>1. \A k \in DOMAIN copy'.batch : FALSE BY <2>3
    <3>2. QED BY <1>4, <1>5, <2>1, <2>3, <3>1
  <2>5. CopyAccounts'
    <3>h. Vectors!Held("chroma")' = here BY <1>5, <2>1 DEF Vectors!Held
    <3> HIDE DEF here
    <3>1. SUFFICES ASSUME Counting' PROVE CopyAccounts' BY DEF CopyAccounts
    <3>2. Counting BY <2>1, <3>1 DEF Counting
    <3>3. /\ ops = {} /\ copy.scanned = copy.offset /\ copy.offset <= Cardinality(here)
          /\ copy.migrated \cup copy.failed \cup taken = {i \in here : Rank(here, i) < copy.offset}
          /\ copy.migrated \cap copy.failed = {} /\ (copy.migrated \cup copy.failed) \cap taken = {}
          /\ \A k \in DOMAIN copy.batch : copy.batch[k].value = content["chroma"][copy.batch[k].id]
          /\ \A i \in copy.migrated : content["milvus"][i] = content["chroma"][i]
      BY <3>2 DEF CopyAccounts, here, taken
    <3>4. \A i \in copy.migrated \cup taken : content'["milvus"][i] = content["chroma"][i]
      <4>1. ASSUME NEW i \in copy.migrated \cup taken PROVE content'["milvus"][i] = content["chroma"][i]
        <5>1. i \in Ids /\ (i \in copy.migrated => content["milvus"][i] = content["chroma"][i])
          BY <1>0, <2>2, <3>3 DEF CopyRows
        <5>2. \/ content'["milvus"][i] = content["milvus"][i] /\ i \notin taken
              \/ \E k \in DOMAIN copy.batch :
                    copy.batch[k].id = i /\ copy.batch[k].value = content'["milvus"][i]
          BY <1>5, <2>1, <5>1 DEF taken
        <5>3. QED BY <3>3, <4>1, <5>1, <5>2
      <4>2. QED BY <4>1
    <3>5. content'["chroma"] = content["chroma"] BY <1>5, <2>1
    <3>6. Vectors!Read(copy.batch)' = {} BY <2>3 DEF Vectors!Read
    <3>7. /\ copy'.migrated \cup copy'.failed = {i \in here : Rank(here, i) < copy'.offset}
          /\ copy'.migrated \cap copy'.failed = {}
      BY <2>3, <3>3
    <3>8. QED BY <2>1, <2>3, <3>h, <3>3, <3>4, <3>5, <3>6, <3>7 DEF CopyAccounts
  <2>6. QED BY <2>4, <2>5
(* Its write failed, having been applied or not: the records are retried.    *)
<1>9. ASSUME NEW arrived \in BOOLEAN, Vectors!CopyFails(arrived) PROVE VectorsKeep'
  <2> DEFINE here == Vectors!Held("chroma")
  <2>1. /\ copy.state = "writing" /\ content' = IF arrived THEN Vectors!Copied(copy.batch) ELSE content
        /\ copy' = [copy EXCEPT !.state = "retrying"]
        /\ UNCHANGED <<writes, ops, latest, doubtful, quiet>>
    BY <1>9 DEF Vectors!CopyFails
  <2>2. /\ copy'.state = "retrying" /\ copy'.batch = copy.batch /\ copy'.migrated = copy.migrated
        /\ copy'.failed = copy.failed /\ copy'.offset = copy.offset /\ copy'.scanned = copy.scanned
        /\ copy' \in CopyRows
    BY <1>0, <2>1 DEF CopyRows, CopyStates
  <2>3. /\ content' \in [Vectors!Stores -> [Ids -> Nat]] /\ content'["chroma"] = content["chroma"]
        /\ \A i \in Ids :
              \/ content'["milvus"][i] = content["milvus"][i]
              \/ \E k \in DOMAIN copy.batch :
                    copy.batch[k].id = i /\ copy.batch[k].value = content'["milvus"][i]
    <3>1. CASE arrived BY <1>5, <2>1, <3>1
    <3>2. CASE ~ arrived BY <1>0, <2>1, <3>2 DEF VectorTypes
    <3>3. QED BY <3>1, <3>2
  <2>4. VectorTypes' /\ AloneIsAhead' /\ BatchIsFresh' /\ BothAgree'
    <3>1. copy'.batch # <<>> BY <1>0, <2>1, <2>2 DEF VectorTypes
    <3>2. \A k \in DOMAIN copy'.batch : \E l \in DOMAIN copy.batch : copy'.batch[k] = copy.batch[l]
      BY <2>2
    <3>3. QED BY <1>4, <2>1, <2>2, <2>3, <3>1, <3>2
  <2>5. CopyAccounts'
    <3>h. Vectors!Held("chroma")' = here BY <2>3 DEF Vectors!Held
    <3> HIDE DEF here
    <3>1. SUFFICES ASSUME Counting' PROVE CopyAccounts' BY DEF CopyAccounts
    <3>2. Counting BY <2>1, <3>1 DEF Counting
    <3>3. /\ ops = {} /\ copy.scanned = copy.offset /\ copy.offset <= Cardinality(here)
          /\ copy.migrated \cup copy.failed \cup Vectors!Read(copy.batch)
               = {i \in here : Rank(here, i) < copy.offset}
          /\ copy.migrated \cap copy.failed = {}
          /\ (copy.migrated \cup copy.failed) \cap Vectors!Read(copy.batch) = {}
          /\ \A k, l \in DOMAIN copy.batch : copy.batch[k].id = copy.batch[l].id => k = l
          /\ \A k \in DOMAIN copy.batch : copy.batch[k].value = content["chroma"][copy.batch[k].id]
          /\ \A i \in copy.migrated : content["milvus"][i] = content["chroma"][i]
      BY <3>2 DEF CopyAccounts, here
    <3>4. \A i \in copy.migrated : content'["milvus"][i] = content["chroma"][i]
      <4>1. ASSUME NEW i \in copy.migrated PROVE content'["milvus"][i] = content["chroma"][i]
        <5>1. i \in Ids /\ content["milvus"][i] = content["chroma"][i] BY <1>0, <3>3 DEF CopyRows
        <5>2. QED BY <2>3, <3>3, <5>1
      <4>2. QED BY <4>1
    <3>5. Vectors!Read(copy.batch)' = Vectors!Read(copy.batch) BY <2>2 DEF Vectors!Read
    <3>6. QED BY <2>1, <2>2, <2>3, <3>h, <3>3, <3>4, <3>5 DEF CopyAccounts
  <2>6. QED BY <2>4, <2>5
(* The first record left of the batch is written by itself, or given up.    *)
<1>10. ASSUME NEW succeeds \in BOOLEAN, NEW arrived \in BOOLEAN, Vectors!Retry(succeeds, arrived)
       PROVE  VectorsKeep'
  <2> DEFINE here == Vectors!Held("chroma")
  <2> DEFINE batch == copy.batch
  <2> DEFINE record == Head(batch)
  <2> DEFINE rest == Tail(batch)
  <2> DEFINE next == IF Len(batch) = 1 THEN "reading" ELSE "retrying"
  <2> DEFINE migrated == IF succeeds THEN copy.migrated \cup {record.id} ELSE copy.migrated
  <2> DEFINE failed == IF succeeds THEN copy.failed ELSE copy.failed \cup {record.id}
  <2>1. /\ copy.state = "retrying" /\ (succeeds => arrived)
        /\ content' = IF arrived THEN [content EXCEPT !["milvus"][record.id] = record.value] ELSE content
        /\ copy' = IF succeeds THEN [Vectors!Remaining EXCEPT !.migrated = @ \cup {record.id}]
                               ELSE [Vectors!Remaining EXCEPT !.failed = @ \cup {record.id}]
        /\ UNCHANGED <<writes, ops, latest, doubtful, quiet>>
    BY <1>10 DEF Vectors!Retry
  <2>2. batch \in Seq(Records) /\ batch # <<>> BY <1>0, <2>1 DEF VectorTypes
  <2>3. /\ 1 \in DOMAIN batch /\ record = batch[1] /\ record \in Records
        /\ rest \in Seq(Records) /\ Len(rest) = Len(batch) - 1 /\ Len(batch) \in Nat \ {0}
        /\ \A k \in DOMAIN rest : k + 1 \in DOMAIN batch /\ rest[k] = batch[k + 1]
        /\ \A k \in DOMAIN batch : k = 1 \/ (k - 1 \in DOMAIN rest /\ batch[k] = rest[k - 1])
    <3> HIDE DEF batch
    <3>1. QED BY <2>2
  <2>4. record.id \in Ids /\ record.value \in Nat BY <2>3 DEF Records
  <2>5. /\ copy'.state = next /\ copy'.batch = rest /\ copy'.migrated = migrated
        /\ copy'.failed = failed /\ copy'.offset = copy.offset /\ copy'.scanned = copy.scanned
        /\ copy' \in CopyRows
    <3> DEFINE kept == Vectors!Remaining
    <3>1. kept = [copy EXCEPT !.batch = rest, !.state = next] BY DEF Vectors!Remaining
    <3> HIDE DEF batch, record
    <3>2. next \in CopyStates BY DEF CopyStates
    <3> HIDE DEF rest, next, kept
    <3>3. /\ kept.state = next /\ kept.batch = rest /\ kept.migrated = copy.migrated
          /\ kept.failed = copy.failed /\ kept.offset = copy.offset /\ kept.scanned = copy.scanned
          /\ kept \in CopyRows
      BY <1>0, <2>3, <3>1, <3>2 DEF CopyRows
    <3>4. CASE succeeds
      <4>1. copy' = [kept EXCEPT !.migrated = @ \cup {record.id}] BY <2>1, <3>4 DEF kept
      <4>2. QED BY <2>4, <3>3, <3>4, <4>1 DEF CopyRows
    <3>5. CASE ~ succeeds
      <4>1. copy' = [kept EXCEPT !.failed = @ \cup {record.id}] BY <2>1, <3>5 DEF kept
      <4>2. QED BY <2>4, <3>3, <3>5, <4>1 DEF CopyRows
    <3>6. QED BY <3>4, <3>5
  <2> HIDE DEF record, rest
  <2>6. /\ content' \in [Vectors!Stores -> [Ids -> Nat]] /\ content'["chroma"] = content["chroma"]
        /\ \A i \in Ids : i # record.id => content'["milvus"][i] = content["milvus"][i]
        /\ content'["milvus"][record.id]
             = IF arrived THEN record.value ELSE content["milvus"][record.id]
    <3>1. CASE arrived
      <4>1. content' = [content EXCEPT !["milvus"][record.id] = record.value] BY <2>1, <3>1
      <4>2. QED BY <1>0, <1>s, <2>4, <3>1, <4>1 DEF VectorTypes
    <3>2. CASE ~ arrived BY <1>0, <2>1, <3>2 DEF VectorTypes
    <3>3. QED BY <3>1, <3>2
  <2>7. VectorTypes' /\ AloneIsAhead' /\ BatchIsFresh' /\ BothAgree'
    <3>1. \A i \in Ids :
              \/ content'["milvus"][i] = content["milvus"][i]
              \/ \E k \in DOMAIN copy.batch :
                    copy.batch[k].id = i /\ copy.batch[k].value = content'["milvus"][i]
      BY <2>3, <2>6
    <3>2. copy'.state # "none" /\ (copy'.state \in {"writing", "retrying"} => copy'.batch # <<>>)
      <4>1. copy'.state # "none" /\ (copy'.state \in {"writing", "retrying"} => Len(batch) # 1)
        <5> HIDE DEF batch
        <5>1. QED BY <2>5
      <4>2. Len(batch) # 1 => rest # <<>>
        <5> HIDE DEF batch
        <5>1. QED BY <2>3
      <4>3. QED BY <2>5, <4>1, <4>2
    <3>3. \A k \in DOMAIN copy'.batch : \E l \in DOMAIN copy.batch : copy'.batch[k] = copy.batch[l]
      BY <2>3, <2>5
    <3>4. copy.state # "undoing" BY <2>1
    <3>5. copy' \in CopyRows BY <2>5
    <3>6. QED BY <1>4, <2>1, <2>6, <3>1, <3>2, <3>3, <3>4, <3>5
  <2>8. CopyAccounts'
    <3>h. Vectors!Held("chroma")' = here BY <2>6 DEF Vectors!Held
    <3> HIDE DEF here
    <3>1. SUFFICES ASSUME Counting' PROVE CopyAccounts' BY DEF CopyAccounts
    <3>2. Counting BY <2>1, <3>1 DEF Counting
    <3>3. /\ ops = {} /\ copy.scanned = copy.offset /\ copy.offset <= Cardinality(here)
          /\ copy.migrated \cup copy.failed \cup Vectors!Read(batch)
               = {i \in here : Rank(here, i) < copy.offset}
          /\ copy.migrated \cap copy.failed = {}
          /\ (copy.migrated \cup copy.failed) \cap Vectors!Read(batch) = {}
          /\ \A k, l \in DOMAIN batch : batch[k].id = batch[l].id => k = l
          /\ \A k \in DOMAIN batch : batch[k].value = content["chroma"][batch[k].id]
          /\ \A i \in copy.migrated : content["milvus"][i] = content["chroma"][i]
      BY <3>2 DEF CopyAccounts, here
    <3>4. Vectors!Read(batch) = Vectors!Read(rest) \cup {record.id} /\ record.id \notin Vectors!Read(rest)
      <4> HIDE DEF batch
      <4>1. \A k \in DOMAIN rest : rest[k].id # record.id
        <5>1. ASSUME NEW k \in DOMAIN rest PROVE rest[k].id # record.id
          <6>1. k \in Nat \ {0} BY <2>3
          <6>2. k + 1 # 1 BY <6>1
          <6>3. k + 1 \in DOMAIN batch /\ rest[k] = batch[k + 1] BY <2>3
          <6>4. batch[k + 1].id # batch[1].id BY <2>3, <3>3, <6>2, <6>3
          <6>5. QED BY <2>3, <6>3, <6>4
        <5>2. QED BY <5>1
      <4>2. Vectors!Read(batch) \subseteq Vectors!Read(rest) \cup {record.id} BY <2>3 DEF Vectors!Read
      <4>3. Vectors!Read(rest) \cup {record.id} \subseteq Vectors!Read(batch) BY <2>3 DEF Vectors!Read
      <4>4. QED BY <4>1, <4>2, <4>3 DEF Vectors!Read
    <3>5. /\ migrated \cup failed \cup Vectors!Read(rest) = {i \in here : Rank(here, i) < copy.offset}
          /\ migrated \cap failed = {} /\ (migrated \cup failed) \cap Vectors!Read(rest) = {}
      <4> HIDE DEF batch
      <4>1. record.id \notin copy.migrated \cup copy.failed BY <3>3, <3>4
      <4>2. QED BY <3>3, <3>4, <4>1
    <3>6. \A i \in migrated : content'["milvus"][i] = content["chroma"][i]
      <4>1. ASSUME NEW i \in migrated PROVE content'["milvus"][i] = content["chroma"][i]
        <5>1. CASE i = record.id
          <6>1. i \notin copy.migrated BY <3>3, <3>4, <5>1
          <6>2. succeeds /\ arrived BY <2>1, <4>1, <6>1
          <6>3. QED BY <2>3, <2>6, <3>3, <5>1, <6>2
        <5>2. CASE i # record.id
          <6>1. i \in copy.migrated /\ i \in Ids BY <1>0, <4>1, <5>2 DEF CopyRows
          <6>2. QED BY <2>6, <3>3, <5>2, <6>1
        <5>3. QED BY <5>1, <5>2
      <4>2. QED BY <4>1
    <3>7. /\ \A k, l \in DOMAIN rest : rest[k].id = rest[l].id => k = l
          /\ \A k \in DOMAIN rest : rest[k].value = content["chroma"][rest[k].id]
      <4>1. ASSUME NEW k \in DOMAIN rest, NEW l \in DOMAIN rest, rest[k].id = rest[l].id PROVE k = l
        <5>1. k + 1 = l + 1 BY <2>3, <3>3, <4>1
        <5>2. k \in Nat /\ l \in Nat BY <2>3
        <5>3. QED BY <5>1, <5>2
      <4>2. QED BY <2>3, <3>3, <4>1
    <3>8. next = "reading" => rest = <<>>
      <4> HIDE DEF batch
      <4>1. QED BY <2>3
    <3>9. next # "done" OBVIOUS
    <3>10. Vectors!Read(copy.batch)' = Vectors!Read(rest) BY <2>5 DEF Vectors!Read
    <3> HIDE DEF batch, migrated, failed, next
    <3>11. QED BY <2>1, <2>5, <2>6, <3>h, <3>3, <3>5, <3>6, <3>7, <3>8, <3>9, <3>10 DEF CopyAccounts
  <2>9. QED BY <2>7, <2>8
(* The rollback looks up what it is to delete: nobody's write of these is   *)
(* alone any more.                                                         *)
<1>11. ASSUME Vectors!RollbackReads PROVE VectorsKeep'
  <2> DEFINE found == copy.migrated \cap Vectors!Held("milvus")
  <2> DEFINE batch == Vectors!Records(found)
  <2>1. /\ copy' = [copy EXCEPT !.state = "undoing", !.batch = batch]
        /\ ops' = Vectors!Disturbed(found) /\ UNCHANGED <<content, writes, latest, doubtful, quiet>>
    BY <1>11 DEF Vectors!RollbackReads
  <2>u. content' = content /\ UNCHANGED <<writes, latest, doubtful>> BY <2>1
  <2>2. found \in SUBSET Ids BY HeldIsFinite
  <2> HIDE DEF found
  <2>3. batch \in Seq(Records) /\ Vectors!Read(batch) = found BY <1>0, <2>2, RecordsAreListed
  <2> HIDE DEF batch
  <2>4. copy'.state = "undoing" /\ copy'.batch = batch /\ copy' \in CopyRows
    BY <1>0, <2>1, <2>3 DEF CopyRows, CopyStates
  <2>5. ASSUME NEW op \in ops'
        PROVE  op \in OpRows /\ (op.alone => op.id \notin found /\ op \in ops)
    <3>1. PICK o \in ops : op = IF o.id \in found THEN [o EXCEPT !.alone = FALSE] ELSE o
      BY <2>1, <2>5 DEF Vectors!Disturbed
    <3>2. o \in OpRows BY <1>0 DEF VectorTypes
    <3>3. QED BY <3>1, <3>2 DEF OpRows
  <2>6. ASSUME NEW op \in ops', op.alone, NEW other \in ops', other.id = op.id PROVE other = op
    <3>1. PICK o \in ops : other = IF o.id \in found THEN [o EXCEPT !.alone = FALSE] ELSE o
      BY <2>1, <2>6 DEF Vectors!Disturbed
    <3>2. o \in OpRows BY <1>0 DEF VectorTypes
    <3>3. other.id = o.id BY <3>1, <3>2 DEF OpRows
    <3>4. op \in ops /\ op.id \notin found BY <2>5, <2>6
    <3>5. other = o BY <2>6, <3>1, <3>3, <3>4
    <3>6. QED BY <2>6, <3>3, <3>4, <3>5 DEF AloneIsAhead
  <2>7. ASSUME NEW o \in ops PROVE \E op \in ops' : op.id = o.id
    <3>1. (IF o.id \in found THEN [o EXCEPT !.alone = FALSE] ELSE o) \in ops'
      BY <2>1 DEF Vectors!Disturbed
    <3>2. o \in OpRows BY <1>0 DEF VectorTypes
    <3>3. QED BY <3>1, <3>2 DEF OpRows
  <2>8. VectorTypes'
    <3>1. ops' \subseteq OpRows BY <2>5
    <3>2. QED BY <1>0, <2>u, <2>4, <3>1 DEF VectorTypes
  <2>9. AloneIsAhead'
    <3>1. ASSUME NEW op \in ops', op.alone
          PROVE  /\ op.value = latest[op.id] /\ op.id \notin Vectors!Read(copy'.batch)
                 /\ \A s \in Vectors!Stores \ (op.todo \cup op.failed) : content[s][op.id] = op.value
      <4>1. op \in ops /\ op.id \notin found BY <2>5, <3>1
      <4>2. op.id \notin Vectors!Read(copy'.batch) BY <2>3, <2>4, <4>1
      <4>3. QED BY <3>1, <4>1, <4>2 DEF AloneIsAhead
    <3>2. Vectors!Read(copy.batch)' = Vectors!Read(copy'.batch) BY DEF Vectors!Read
    <3>3. QED BY <2>u, <2>6, <3>1, <3>2 DEF AloneIsAhead
  <2>10. BothAgree' BY <2>u, <2>7 DEF BothAgree
  <2>11. BatchIsFresh' /\ CopyAccounts' BY <2>4 DEF BatchIsFresh, CopyAccounts, Counting
  <2>12. QED BY <2>8, <2>9, <2>10, <2>11
(* They are deleted from Milvus, and what the stores hold of them differs.   *)
<1>12. ASSUME Vectors!RollbackDeletes PROVE VectorsKeep'
  <2> DEFINE taken == Vectors!Read(copy.batch)
  <2> DEFINE new == [i \in Ids |-> IF i \in taken THEN 0 ELSE content["milvus"][i]]
  <2>1. /\ content' = [content EXCEPT !["milvus"] = new]
        /\ doubtful' = doubtful \cup taken /\ copy' = [copy EXCEPT !.state = "undone", !.batch = <<>>]
        /\ UNCHANGED <<writes, ops, latest, quiet>>
    BY <1>12 DEF Vectors!RollbackDeletes
  <2>2. new \in [Ids -> Nat] /\ \A i \in Ids \ taken : new[i] = content["milvus"][i]
    BY <1>0, <1>s DEF VectorTypes
  <2> HIDE DEF new
  <2>3. /\ content' \in [Vectors!Stores -> [Ids -> Nat]] /\ content'["chroma"] = content["chroma"]
        /\ \A i \in Ids \ taken : content'["milvus"][i] = content["milvus"][i]
    BY <1>0, <1>s, <2>1, <2>2 DEF VectorTypes
  <2>4. copy'.state = "undone" /\ copy'.batch = <<>> /\ copy' \in CopyRows
    <3>1. <<>> \in Seq(Records) OBVIOUS
    <3>2. QED BY <1>0, <2>1, <3>1 DEF CopyRows, CopyStates
  <2>5. VectorTypes' BY <1>0, <2>1, <2>3, <2>4 DEF VectorTypes
  <2>6. AloneIsAhead'
    <3>1. ASSUME NEW op \in ops, op.alone
          PROVE  /\ op.value = latest[op.id] /\ op.id \notin Vectors!Read(copy'.batch)
                 /\ \A other \in ops : other.id = op.id => other = op
                 /\ \A s \in Vectors!Stores \ (op.todo \cup op.failed) : content'[s][op.id] = op.value
      <4>1. op \in OpRows /\ op.id \in Ids BY <1>0 DEF VectorTypes, OpRows
      <4>2. /\ op.value = latest[op.id] /\ op.id \notin taken
            /\ \A other \in ops : other.id = op.id => other = op
            /\ \A s \in Vectors!Stores \ (op.todo \cup op.failed) : content[s][op.id] = op.value
        BY <3>1 DEF AloneIsAhead
      <4>3. Vectors!Read(copy'.batch) = {} BY <2>4 DEF Vectors!Read
      <4>4. \A s \in Vectors!Stores : content'[s][op.id] = content[s][op.id]
        BY <1>s, <2>3, <4>1, <4>2
      <4>5. QED BY <4>2, <4>3, <4>4
    <3>2. Vectors!Read(copy.batch)' = Vectors!Read(copy'.batch) BY DEF Vectors!Read
    <3>3. QED BY <2>1, <3>1, <3>2 DEF AloneIsAhead
  <2>7. BatchIsFresh' /\ CopyAccounts' BY <2>4 DEF BatchIsFresh, CopyAccounts, Counting
  <2>8. BothAgree' BY <2>1, <2>3 DEF BothAgree
  <2>9. QED BY <2>5, <2>6, <2>7, <2>8
<1>13. ASSUME UNCHANGED Vectors!vars PROVE VectorsKeep'
  <2>1. UNCHANGED <<content, writes, ops, latest, doubtful, copy, quiet>> BY <1>13 DEF Vectors!vars
  <2>2. Vectors!Read(copy.batch)' = Vectors!Read(copy.batch) BY <2>1 DEF Vectors!Read
  <2>3. Vectors!Held("chroma")' = Vectors!Held("chroma") BY <2>1 DEF Vectors!Held
  <2>4. VectorTypes' BY <2>1 DEF VectorTypes
  <2>5. AloneIsAhead' /\ BatchIsFresh' /\ BothAgree'
    BY <2>1 DEF AloneIsAhead, BatchIsFresh, BothAgree, Vectors!Read
  <2>6. CopyAccounts' BY <2>1, <2>2, <2>3 DEF CopyAccounts, Counting
  <2>7. QED BY <2>4, <2>5, <2>6
<1> HIDE DEF VectorsKeep
<1>14. CASE \E kind \in {Vectors!Upsert, Vectors!Delete}, i \in Ids : Vectors!Starts(kind, i)
  BY <1>1, <1>14
<1>15. CASE \E op \in ops :
               \/ Vectors!Returns(op)
               \/ \E s \in Vectors!Stores, arrived, fails \in BOOLEAN : Vectors!Reaches(op, s, arrived, fails)
  <2>1. PICK op \in ops :
            \/ Vectors!Returns(op)
            \/ \E s \in Vectors!Stores, arrived, fails \in BOOLEAN : Vectors!Reaches(op, s, arrived, fails)
    BY <1>15
  <2>2. CASE Vectors!Returns(op) BY <1>3, <2>2
  <2>3. ASSUME NEW s \in Vectors!Stores, NEW arrived \in BOOLEAN, NEW fails \in BOOLEAN,
               Vectors!Reaches(op, s, arrived, fails)
        PROVE  VectorsKeep'
    BY <1>2, <2>3
  <2>4. QED BY <2>1, <2>2, <2>3
<1>16. QED
  BY <1>6, <1>7, <1>8, <1>9, <1>10, <1>11, <1>12, <1>13, <1>14, <1>15 DEF Vectors!Next

(* The two vector stores agree (StoresAgree): a read of a record that was   *)
(* written undegraded and undisturbed gets the last write from either      *)
(* store, and a migration nobody disturbed accounts for every record it    *)
(* was to copy, each once: whatever writes, failures, retries and rollback  *)
(* come in between.  The source's ids page like numbers, and a page has at  *)
(* least one record.                                                       *)
THEOREM StoresStayInAgreement ==
    ASSUME IdsAreNumbers, BatchSize \in Nat \ {0}
    PROVE  Vectors!Spec => []Vectors!StoresAgree
<1>1. Vectors!Init => VectorsKeep BY VectorsInit
<1>2. VectorsKeep /\ [Vectors!Next]_Vectors!vars => VectorsKeep' BY VectorsStep
<1>3. ASSUME VectorsKeep PROVE Vectors!StoresAgree
  <2> USE <1>3 DEF VectorsKeep
  <2>1. Vectors!ReadsAgree
    <3>1. \A i \in Ids : Vectors!Answers(i) = {content["milvus"][i], content["chroma"][i]}
      BY DEF Vectors!Answers, Vectors!Stores
    <3>2. QED BY <3>1 DEF BothAgree, Vectors!ReadsAgree
  <2>2. Vectors!MigrationAccounts
    <3> DEFINE here == Vectors!Held("chroma")
    <3>1. SUFFICES ASSUME copy.state = "done", quiet
                   PROVE  /\ copy.migrated \cup copy.failed = here
                          /\ copy.migrated \cap copy.failed = {}
                          /\ copy.migrated \cap (Vectors!Missing \cup Vectors!Mismatched) = {}
                          /\ copy.scanned = Cardinality(here)
      BY SameCardinality DEF Vectors!MigrationAccounts
    <3>2. here \in SUBSET Nat /\ IsFiniteSet(here) BY HeldIsFinite
    <3> HIDE DEF here
    <3>3. /\ copy.scanned = copy.offset /\ copy.batch = <<>> /\ copy.offset = Cardinality(here)
          /\ copy.migrated \cup copy.failed \cup Vectors!Read(copy.batch)
               = {i \in here : Rank(here, i) < copy.offset}
          /\ copy.migrated \cap copy.failed = {}
          /\ \A i \in copy.migrated : content["milvus"][i] = content["chroma"][i]
      BY <3>1 DEF CopyAccounts, Counting, here
    <3>4. Vectors!Read(copy.batch) = {} BY <3>3 DEF Vectors!Read
    <3>5. {i \in here : Rank(here, i) < Cardinality(here)} = here BY <3>2, RankBound
    <3>6. copy.migrated \cup copy.failed = here BY <3>3, <3>4, <3>5
    <3>7. \A i \in copy.migrated : i \notin Vectors!Missing /\ i \notin Vectors!Mismatched
      BY <3>3, <3>6 DEF Vectors!Missing, Vectors!Mismatched, Vectors!Held, here
    <3>8. QED BY <3>3, <3>6, <3>7
  <2>3. QED BY <2>1, <2>2 DEF Vectors!StoresAgree
<1>4. QED BY <1>1, <1>2, <1>3, PTL DEF Vectors!Spec

-----------------------------------------------------------------------------
(* Plugins: everything listed is either applied, blocked or still to be     *)
(* looked at, and what was applied fits together.                          *)
Elements(s) == {s[i] : i \in DOMAIN s}
OneToOne(s) == \A i, j \in DOMAIN s : s[i] = s[j] => i = j

LEMMA HeadAndTail ==
    ASSUME NEW S, NEW s \in Seq(S), s # <<>>
    PROVE  /\ Head(s) \in S /\ Tail(s) \in Seq(S)
           /\ Elements(s) = {Head(s)} \cup Elements(Tail(s))
           /\ OneToOne(s) => OneToOne(Tail(s)) /\ Head(s) \notin Elements(Tail(s))
<1>1. /\ Head(s) = s[1] /\ Tail(s) \in Seq(S)
      /\ Len(s) \in Nat \ {0} /\ Len(Tail(s)) = Len(s) - 1
      /\ DOMAIN s = 1..Len(s) /\ DOMAIN Tail(s) = 1..(Len(s) - 1)
  OBVIOUS
<1>2. \A i \in 1..(Len(s) - 1) : Tail(s)[i] = s[i + 1] OBVIOUS
<1>3. s[1] \in S BY <1>1
<1>4. ASSUME NEW i \in DOMAIN s, i # 1
      PROVE  i - 1 \in DOMAIN Tail(s) /\ Tail(s)[i - 1] = s[i]
  <2>1. i - 1 \in 1..(Len(s) - 1) BY <1>1, <1>4
  <2>2. Tail(s)[i - 1] = s[(i - 1) + 1] BY <1>2, <2>1
  <2>3. (i - 1) + 1 = i BY <1>1, <1>4
  <2>4. QED BY <1>1, <2>1, <2>2, <2>3
<1>5. ASSUME NEW i \in DOMAIN Tail(s)
      PROVE  i + 1 \in DOMAIN s /\ Tail(s)[i] = s[i + 1] /\ i + 1 # 1
  BY <1>1, <1>2, <1>5
<1>6. Elements(s) = {Head(s)} \cup Elements(Tail(s))
  <2>1. 1 \in DOMAIN s BY <1>1
  <2>2. ASSUME NEW i \in DOMAIN s PROVE s[i] \in {Head(s)} \cup Elements(Tail(s))
    <3>1. CASE i = 1 BY <1>1, <3>1
    <3>2. CASE i # 1 BY <1>4, <3>2 DEF Elements
    <3>3. QED BY <3>1, <3>2
  <2>3. ASSUME NEW i \in DOMAIN Tail(s) PROVE Tail(s)[i] \in Elements(s)
    BY <1>5 DEF Elements
  <2>4. Head(s) \in Elements(s) BY <1>1, <2>1 DEF Elements
  <2>5. QED BY <2>2, <2>3, <2>4 DEF Elements
<1>7. ASSUME OneToOne(s) PROVE OneToOne(Tail(s)) /\ Head(s) \notin Elements(Tail(s))
  <2>1. 1 \in DOMAIN s BY <1>1
  <2>2. \A i, j \in DOMAIN s : s[i] = s[j] => i = j BY <1>7 DEF OneToOne
  <2>3. ASSUME NEW i \in DOMAIN Tail(s), NEW j \in DOMAIN Tail(s), Tail(s)[i] = Tail(s)[j]
        PROVE  i = j
    <3>1. i + 1 = j + 1 BY <1>5, <2>2, <2>3
    <3>2. i \in Nat /\ j \in Nat BY <1>1
    <3>3. QED BY <3>1, <3>2
  <2>4. ASSUME NEW i \in DOMAIN Tail(s) PROVE Tail(s)[i] # Head(s) BY <1>1, <1>5, <2>1, <2>2
  <2>5. QED BY <2>3, <2>4 DEF OneToOne, Elements
<1>8. QED BY <1>1, <1>3, <1>6, <1>7

LEMMA AppendedElements ==
    ASSUME NEW S, NEW s \in Seq(S), NEW x \in S
    PROVE  /\ Append(s, x) \in Seq(S)
           /\ Elements(Append(s, x)) = Elements(s) \cup {x}
           /\ OneToOne(s) /\ x \notin Elements(s) => OneToOne(Append(s, x))
<1>1. /\ Append(s, x) \in Seq(S) /\ Len(s) \in Nat
      /\ DOMAIN s = 1..Len(s) /\ DOMAIN Append(s, x) = 1..(Len(s) + 1)
      /\ Append(s, x)[Len(s) + 1] = x
  OBVIOUS
<1>2. \A i \in 1..Len(s) : Append(s, x)[i] = s[i] OBVIOUS
<1>3. \A i \in 1..(Len(s) + 1) : i \in 1..Len(s) \/ i = Len(s) + 1 BY <1>1
<1>4. 1..Len(s) \subseteq 1..(Len(s) + 1) /\ Len(s) + 1 \in 1..(Len(s) + 1) BY <1>1
<1>5. Elements(Append(s, x)) = Elements(s) \cup {x}
  BY <1>1, <1>2, <1>3, <1>4 DEF Elements
<1>6. ASSUME OneToOne(s), x \notin Elements(s) PROVE OneToOne(Append(s, x))
  BY <1>1, <1>2, <1>3, <1>6 DEF OneToOne, Elements
<1>7. QED BY <1>1, <1>5, <1>6

LEMMA NoElements == Elements(<<>>) = {} /\ OneToOne(<<>>)
BY DEF Elements, OneToOne

(* A sequence names as many values as it has places just if none comes      *)
(* twice.                                                                  *)
LEMMA CountsItsPlaces ==
    ASSUME NEW n \in Nat, NEW f, DOMAIN f = 1..n, f = [i \in 1..n |-> f[i]]
    PROVE  Cardinality({f[i] : i \in 1..n}) = n <=> OneToOne(f)
<1> DEFINE T == {f[i] : i \in 1..n}
<1>1. IsFiniteSet(1..n) /\ Cardinality(1..n) = n
  <2>1. 1 \in Int /\ n \in Int OBVIOUS
  <2>2. IsFiniteSet(1..n) /\ Cardinality(1..n) = IF 1 > n THEN 0 ELSE n - 1 + 1
    BY <2>1, FS_Interval
  <2>3. QED BY <2>2
<1>2. f \in Surjection(1..n, T) BY DEF Surjection
<1>3. Cardinality(T) = Cardinality(1..n) <=> f \in Injection(1..n, T)
  BY <1>1, <1>2, FS_Surjection
<1>4. f \in Injection(1..n, T) <=> OneToOne(f)
  BY <1>2 DEF Injection, IsInjective, Surjection, OneToOne
<1>5. QED BY <1>1, <1>3, <1>4

HostTypes ==
    /\ listing \in Lists /\ trusted \in BOOLEAN /\ progress \in BOOLEAN
    /\ listed \in Seq(Plugins) /\ blocked \in Seq(Plugins) /\ applied \in Seq(Plugins)
    /\ DOMAIN owners = Host!CommandNames
    /\ tree \in {"listing", "loading", "loaded", "failed"}

(* Why a load fails, from what was listed alone.                           *)
Defect ==
    \/ ~ Host!Distinct \/ ~ Host!Orderable
    \/ \E p \in Host!Asked : ~ p.sound
    \/ \E p, q \in Host!Asked :
          p # q /\ p.lenient /\ ~ q.lenient /\ Host!Names(p) \cap Host!Names(q) # {}

NamesApart ==
    \A i, j \in DOMAIN Host!Collected : Host!Collected[i].name = Host!Collected[j].name => i = j

(* Every plugin listed is in one of three places.                          *)
Placed ==
    /\ Elements(listed) \cup Elements(blocked) \cup Elements(applied) = Host!Asked
    /\ Elements(listed) \cap Elements(blocked) = {}
    /\ Elements(listed) \cap Elements(applied) = {}
    /\ Elements(blocked) \cap Elements(applied) = {}
    /\ OneToOne(listed) /\ OneToOne(blocked)

(* The services and owners are those of the plugins applied, which fit.     *)
Fitting ==
    /\ services = UNION {p.provides : p \in Elements(applied)}
    /\ \A c \in Host!CommandNames :
          owners[c] = Host!Free <=> \A p \in Elements(applied) : c \notin Host!Names(p)
    /\ \A p, q \in Elements(applied) : p # q =>
          /\ p.provides \cap q.provides = {}
          /\ Host!Names(p) \cap Host!Names(q) # {} => p.lenient \/ q.lenient

(* In a pass that applied nothing, what is blocked still misses something.  *)
StillMissing == ~ progress => \A p \in Elements(blocked) : ~ (p.inject \subseteq services)

AppliedInTurn ==
    \A i \in 1..Len(applied) :
        /\ applied[i].inject \subseteq UNION {applied[j].provides : j \in 1..(i - 1)}
        /\ applied[i].source = "workspace" => trusted

HostKeeps ==
    /\ HostTypes /\ AppliedInTurn
    /\ tree = "listing" => applied = <<>> /\ blocked = <<>> /\ services = {}
                           /\ progress = FALSE
                           /\ \A c \in Host!CommandNames : owners[c] = Host!Free
    /\ tree \in {"loading", "loaded"} => NamesApart /\ Placed /\ Fitting
    /\ tree = "loading" => StillMissing
    /\ tree = "loaded" => listed = <<>> /\ blocked = <<>>
    /\ tree = "failed" => Defect

LEMMA HostInit == ListingsAreLists /\ Host!Init => HostKeeps
<1> SUFFICES ASSUME ListingsAreLists, Host!Init PROVE HostKeeps
  OBVIOUS
<1>1. \A c \in Host!CommandNames : owners[c] = Host!Free BY DEF Host!Init
<1>2. HostTypes
  <2>1. <<>> \in Seq(Plugins) OBVIOUS
  <2>2. listed = <<>> /\ blocked = <<>> /\ applied = <<>> /\ tree = "listing" BY DEF Host!Init
  <2>3. listing \in Lists /\ trusted \in BOOLEAN /\ progress \in BOOLEAN BY DEF Host!Init
  <2>4. DOMAIN owners = Host!CommandNames BY DEF Host!Init
  <2>5. QED BY <2>1, <2>2, <2>3, <2>4 DEF HostTypes
<1>3. applied = <<>> /\ Len(applied) = 0 BY DEF Host!Init
<1>4. AppliedInTurn BY <1>3 DEF AppliedInTurn
<1>5. QED BY <1>1, <1>2, <1>4 DEF HostKeeps, Host!Init

(* What is collected, and that it is a list of plugins.                    *)
LEMMA CollectedPlugins ==
    ASSUME ListingsAreLists, HostTypes
    PROVE  /\ Host!Collected \in Seq(Plugins)
           /\ Host!Asked = Elements(Host!Collected)
           /\ Elements(Host!Collected) \subseteq Plugins
           /\ \A p \in Host!Asked : p.source = "workspace" => trusted
<1> DEFINE own == listing.own
<1> DEFINE theirs == listing.workspace
<1> DEFINE both == own \o theirs
<1>1. own \in Seq(Plugins) /\ theirs \in Seq(Plugins)
      /\ \A i \in DOMAIN own : own[i].source # "workspace"
  BY DEF HostTypes, ListingsAreLists
<1>2. Host!Collected = IF trusted THEN both ELSE own BY DEF Host!Collected
<1> HIDE DEF own, theirs
<1>3. both \in Seq(Plugins) BY <1>1
<1> HIDE DEF both
<1>4. Host!Collected \in Seq(Plugins) BY <1>1, <1>2, <1>3
<1>5. DOMAIN Host!Collected = 1..Len(Host!Collected)
      /\ \A i \in DOMAIN Host!Collected : Host!Collected[i] \in Plugins
  BY <1>4
<1>6. Host!Asked = Elements(Host!Collected) BY <1>5 DEF Host!Asked, Elements
<1>7. Elements(Host!Collected) \subseteq Plugins BY <1>5 DEF Elements
<1>8. ASSUME NEW p \in Host!Asked, ~ trusted PROVE p.source # "workspace"
  <2>1. Host!Collected = own BY <1>2, <1>8
  <2>2. p \in Elements(own) BY <1>6, <1>8, <2>1
  <2>3. QED BY <1>1, <2>2 DEF Elements
<1>9. QED BY <1>4, <1>6, <1>7, <1>8

(* Names that differ make the plugins differ, and the listing is as long as  *)
(* the set of its plugins; a listing that is distinct has such names.      *)
LEMMA NamesTell ==
    ASSUME ListingsAreLists, HostTypes
    PROVE  /\ Cardinality({Host!Collected[i].name : i \in 1..Len(Host!Collected)})
                  = Len(Host!Collected) <=> NamesApart
           /\ NamesApart => OneToOne(Host!Collected)
           /\ OneToOne(Host!Collected) <=> Cardinality(Host!Asked) = Len(Host!Collected)
           /\ Host!Distinct => NamesApart
<1> DEFINE list == Host!Collected
<1> DEFINE n == Len(list)
<1> DEFINE names == [i \in 1..n |-> list[i].name]
<1>1. /\ n \in Nat /\ DOMAIN list = 1..n /\ list = [i \in 1..n |-> list[i]]
      /\ Host!Asked = Elements(list) /\ NamesApart = NamesApart
  <2>1. list \in Seq(Plugins) /\ Host!Asked = Elements(list) BY CollectedPlugins
  <2> HIDE DEF list
  <2>2. QED BY <2>1
<1>2. NamesApart <=> OneToOne(names)
  BY <1>1 DEF NamesApart, OneToOne
<1>3. NamesApart <=> \A i, j \in DOMAIN list : list[i].name = list[j].name => i = j
  BY DEF NamesApart
<1>4. Host!Asked = {list[i] : i \in 1..n} BY DEF Host!Asked
<1>d. Host!Distinct => /\ Cardinality(Host!Asked) = n
                       /\ \A p, q \in Host!Asked : p # q => p.name # q.name
  <2>1. ASSUME NEW S PROVE Host!Cardinality(S) = Cardinality(S)
    BY DEF Host!Cardinality, Cardinality
  <2>2. QED BY <2>1 DEF Host!Distinct
<1> HIDE DEF list
<1>5. {list[i].name : i \in 1..n} = {names[i] : i \in 1..n} OBVIOUS
<1>6. Cardinality({names[i] : i \in 1..n}) = n <=> OneToOne(names)
  <2>1. DOMAIN names = 1..n /\ names = [i \in 1..n |-> names[i]] OBVIOUS
  <2> HIDE DEF names, n
  <2>2. QED BY <1>1, <2>1, CountsItsPlaces
<1>7. Cardinality({list[i] : i \in 1..n}) = n <=> OneToOne(list)
  <2> HIDE DEF n
  <2>1. QED BY <1>1, CountsItsPlaces
<1>8. NamesApart => OneToOne(list) BY <1>3 DEF OneToOne
<1>9. ASSUME Host!Distinct PROVE NamesApart
  <2>1. OneToOne(list) BY <1>4, <1>7, <1>9, <1>d
  <2>2. ASSUME NEW i \in DOMAIN list, NEW j \in DOMAIN list, list[i].name = list[j].name
        PROVE  i = j
    <3>1. list[i] \in Host!Asked /\ list[j] \in Host!Asked BY <1>1, <1>4
    <3>2. list[i] = list[j] BY <1>9, <1>d, <2>2, <3>1
    <3>3. QED BY <2>1, <2>2, <3>2 DEF OneToOne
  <2>3. QED BY <1>3, <2>2
<1>10. Cardinality({list[i].name : i \in 1..n}) = n <=> NamesApart
  BY <1>2, <1>5, <1>6
<1>11. OneToOne(list) <=> Cardinality(Host!Asked) = n BY <1>4, <1>7
<1>12. QED BY <1>8, <1>9, <1>10, <1>11 DEF list

(* What was listed stays as it is.                                         *)
LEMMA AskedStays ==
    ASSUME UNCHANGED <<trusted, listing>>
    PROVE  /\ Host!Collected' = Host!Collected /\ Host!Asked' = Host!Asked
           /\ (Host!Distinct' <=> Host!Distinct) /\ (Host!Orderable' <=> Host!Orderable)
           /\ (Defect' <=> Defect) /\ (NamesApart' <=> NamesApart)
<1>1. trusted' = trusted /\ listing' = listing OBVIOUS
<1>2. Host!Collected' = Host!Collected BY <1>1 DEF Host!Collected
<1>3. Host!Asked' = Host!Asked BY <1>2 DEF Host!Asked
<1>4. \A p : Host!Names(p)' = Host!Names(p) BY <1>1 DEF Host!Names
<1>5. Host!Distinct' <=> Host!Distinct BY <1>1, <1>2, <1>3 DEF Host!Distinct, Host!Names
<1>6. Host!Orderable' <=> Host!Orderable BY <1>3 DEF Host!Orderable
<1>7. Defect' <=> Defect BY <1>1, <1>3, <1>5, <1>6 DEF Defect, Host!Names
<1>8. NamesApart' <=> NamesApart BY <1>2 DEF NamesApart
<1>9. QED BY <1>2, <1>3, <1>5, <1>6, <1>7, <1>8

LEMMA CollectsKeeps ==
    ASSUME ListingsAreLists, HostKeeps, Host!Collects
    PROVE  HostKeeps'
<1>0. /\ HostTypes /\ AppliedInTurn /\ tree = "listing"
      /\ applied = <<>> /\ blocked = <<>> /\ services = {} /\ progress = FALSE
      /\ \A c \in Host!CommandNames : owners[c] = Host!Free
      /\ UNCHANGED <<trusted, blocked, progress, applied, services, owners, listing>>
  BY DEF HostKeeps, Host!Collects
<1>1. /\ listed' = Host!Collected
      /\ tree' = IF /\ \A i \in 1..Len(Host!Collected) : Host!Collected[i].sound
                    /\ Host!Cardinality({Host!Collected[i].name : i \in 1..Len(Host!Collected)})
                          = Len(Host!Collected)
                 THEN "loading" ELSE "failed"
  BY DEF Host!Collects
<1>2. \A S : Host!Cardinality(S) = Cardinality(S) BY DEF Host!Cardinality, Cardinality
<1>3. /\ Host!Collected \in Seq(Plugins) /\ Host!Asked = Elements(Host!Collected)
      /\ Elements(Host!Collected) \subseteq Plugins
  BY <1>0, CollectedPlugins
<1>4. /\ NamesApart <=> Cardinality({Host!Collected[i].name : i \in 1..Len(Host!Collected)})
                            = Len(Host!Collected)
      /\ NamesApart => OneToOne(Host!Collected)
      /\ Host!Distinct => NamesApart
  BY <1>0, NamesTell
<1>5. /\ Host!Asked' = Host!Asked /\ (Defect' <=> Defect) /\ (NamesApart' <=> NamesApart)
  BY <1>0, AskedStays
<1>6. HostTypes' BY <1>0, <1>1, <1>3 DEF HostTypes
<1>7. AppliedInTurn' BY <1>0 DEF AppliedInTurn
<1>8. CASE tree' = "failed"
  <2>1. Defect
    <3>1. CASE ~ NamesApart BY <1>4, <3>1 DEF Defect
    <3>2. CASE NamesApart
      <4>1. PICK i \in 1..Len(Host!Collected) : ~ Host!Collected[i].sound
        BY <1>1, <1>2, <1>4, <1>8, <3>2
      <4>2. Host!Collected[i] \in Host!Asked BY DEF Host!Asked
      <4>3. QED BY <4>1, <4>2 DEF Defect
    <3>3. QED BY <3>1, <3>2
  <2>2. Defect' BY <1>5, <2>1
  <2>3. QED BY <1>6, <1>7, <1>8, <2>2 DEF HostKeeps
<1>9. CASE tree' = "loading"
  <2>1. NamesApart' BY <1>1, <1>2, <1>4, <1>5, <1>9
  <2>2. OneToOne(listed)' BY <1>1, <1>4, <1>5, <2>1 DEF OneToOne
  <2>3. /\ Elements(listed)' = Host!Asked' /\ Elements(blocked)' = {} /\ Elements(applied)' = {}
        /\ OneToOne(blocked)'
    BY <1>0, <1>1, <1>3, <1>5, NoElements DEF Elements, OneToOne
  <2>4. Placed' BY <2>2, <2>3 DEF Placed
  <2>5. Fitting'
    <3>1. services' = {} /\ Host!CommandNames' = Host!CommandNames
          /\ \A c \in Host!CommandNames : owners'[c] = Host!Free
      BY <1>0 DEF Host!CommandNames
    <3>2. Host!Free' = Host!Free BY DEF Host!Free
    <3>3. QED BY <2>3, <3>1, <3>2 DEF Fitting
  <2>6. StillMissing' BY <2>3 DEF StillMissing
  <2>7. QED BY <1>6, <1>7, <1>9, <2>1, <2>4, <2>5, <2>6 DEF HostKeeps
<1>10. QED BY <1>1, <1>8, <1>9

(* The state while plugins are applied.                                    *)
LEMMA BlocksKeeps ==
    ASSUME ListingsAreLists, HostKeeps, Host!Blocks
    PROVE  HostKeeps'
<1> DEFINE p == Head(listed)
<1>0. /\ HostTypes /\ AppliedInTurn /\ tree = "loading" /\ listed # <<>>
      /\ NamesApart /\ Placed /\ Fitting /\ StillMissing
      /\ UNCHANGED <<trusted, progress, applied, services, owners, tree, listing>>
  BY DEF HostKeeps, Host!Blocks
<1>1. blocked' = Append(blocked, p) /\ listed' = Tail(listed) /\ Host!Missing(p) # {}
  BY DEF Host!Blocks
<1>2. listed \in Seq(Plugins) /\ blocked \in Seq(Plugins) BY <1>0 DEF HostTypes
<1>3. /\ p \in Plugins /\ Tail(listed) \in Seq(Plugins)
      /\ Elements(listed) = {p} \cup Elements(Tail(listed))
      /\ OneToOne(Tail(listed)) /\ p \notin Elements(Tail(listed))
  BY <1>0, <1>2, HeadAndTail DEF Placed
<1> HIDE DEF p
<1>4. p \notin Elements(blocked) BY <1>0, <1>3 DEF Placed
<1>5. /\ Append(blocked, p) \in Seq(Plugins)
      /\ Elements(Append(blocked, p)) = Elements(blocked) \cup {p}
      /\ OneToOne(Append(blocked, p))
  BY <1>0, <1>2, <1>3, <1>4, AppendedElements DEF Placed
<1>6. /\ Host!Asked' = Host!Asked /\ (NamesApart' <=> NamesApart) BY <1>0, AskedStays
<1>7. HostTypes' BY <1>0, <1>1, <1>3, <1>5 DEF HostTypes
<1>8. AppliedInTurn' BY <1>0 DEF AppliedInTurn
<1>9. /\ Elements(listed)' = Elements(Tail(listed)) /\ Elements(blocked)' = Elements(blocked) \cup {p}
      /\ Elements(applied)' = Elements(applied)
      /\ OneToOne(listed)' /\ OneToOne(blocked)'
  BY <1>0, <1>1, <1>3, <1>5 DEF Elements, OneToOne
<1>10. Placed' BY <1>0, <1>3, <1>6, <1>9 DEF Placed
<1>11. Fitting' BY <1>0, <1>9 DEF Fitting, Host!CommandNames, Host!Free, Host!Names
<1>12. StillMissing'
  <2>1. ~ (p.inject \subseteq services) BY <1>1 DEF Host!Missing
  <2>2. QED BY <1>0, <1>9, <2>1 DEF StillMissing
<1>13. QED BY <1>0, <1>6, <1>7, <1>8, <1>10, <1>11, <1>12 DEF HostKeeps

(* A plugin that cannot be applied is a defect of the listing: another has   *)
(* its service or its name.                                                *)
LEMMA RefusedIsDefect ==
    ASSUME ListingsAreLists, HostKeeps, tree = "loading",
           NEW p \in Host!Asked, p \notin Elements(applied), ~ Host!Applicable(p)
    PROVE  Defect
<1>1. HostTypes /\ Placed /\ Fitting BY DEF HostKeeps
<1>2. Elements(applied) \subseteq Host!Asked BY <1>1 DEF Placed
<1>3. Host!Asked \subseteq Plugins BY <1>1, CollectedPlugins
<1>4. CASE p.provides \cap services # {}
  <2>1. PICK s : s \in p.provides /\ s \in services BY <1>4
  <2>2. PICK q \in Elements(applied) : s \in q.provides BY <1>1, <2>1 DEF Fitting
  <2>3. q \in Host!Asked /\ p # q /\ p.provides \cap q.provides # {} BY <1>2, <2>1, <2>2
  <2>4. ~ Host!Distinct BY <2>3 DEF Host!Distinct
  <2>5. QED BY <2>4 DEF Defect
<1>5. CASE p.provides \cap services = {}
  <2>1. ~ p.lenient /\ \E c \in Host!Names(p) : owners[c] # Host!Free
    BY <1>5 DEF Host!Applicable
  <2>2. PICK c \in Host!Names(p) : owners[c] # Host!Free BY <2>1
  <2>3. p \in Plugins BY <1>3
  <2>4. c \in Host!CommandNames BY <2>2, <2>3 DEF Host!CommandNames, Host!Names
  <2>5. PICK q \in Elements(applied) : c \in Host!Names(q) BY <1>1, <2>2, <2>4 DEF Fitting
  <2>6. q \in Host!Asked /\ q # p /\ Host!Names(p) \cap Host!Names(q) # {}
        /\ Host!Names(q) \cap Host!Names(p) # {}
    BY <1>2, <2>2, <2>5
  <2>7. CASE q.lenient BY <2>1, <2>6, <2>7 DEF Defect
  <2>8. CASE ~ q.lenient
    <3>1. ~ Host!Distinct BY <2>1, <2>6, <2>8 DEF Host!Distinct
    <3>2. QED BY <3>1 DEF Defect
  <2>9. QED BY <2>7, <2>8
<1>6. QED BY <1>4, <1>5

LEMMA AppliesKeeps ==
    ASSUME ListingsAreLists, HostKeeps, Host!Applies
    PROVE  HostKeeps'
<1> DEFINE p == Head(listed)
<1>0. /\ HostTypes /\ AppliedInTurn /\ tree = "loading" /\ listed # <<>>
      /\ NamesApart /\ Placed /\ Fitting /\ StillMissing
      /\ UNCHANGED <<trusted, blocked, listing>>
  BY DEF HostKeeps, Host!Applies
<1>1. /\ listed' = Tail(listed) /\ Host!Missing(p) = {}
      /\ IF Host!Applicable(p)
         THEN /\ services' = services \cup p.provides
              /\ owners' = [c \in Host!CommandNames |->
                     IF c \in Host!Names(p) /\ owners[c] = Host!Free THEN p.name ELSE owners[c]]
              /\ applied' = Append(applied, p) /\ progress' = TRUE /\ UNCHANGED tree
         ELSE tree' = "failed" /\ UNCHANGED <<services, owners, applied, progress>>
  BY DEF Host!Applies
<1>2. listed \in Seq(Plugins) /\ applied \in Seq(Plugins) BY <1>0 DEF HostTypes
<1>3. /\ p \in Plugins /\ Tail(listed) \in Seq(Plugins)
      /\ Elements(listed) = {p} \cup Elements(Tail(listed))
      /\ OneToOne(Tail(listed)) /\ p \notin Elements(Tail(listed))
  BY <1>0, <1>2, HeadAndTail DEF Placed
<1> HIDE DEF p
<1>4. p \notin Elements(applied) /\ p \in Host!Asked /\ p \notin Elements(blocked)
  BY <1>0, <1>3 DEF Placed
<1>6. Host!Asked' = Host!Asked /\ (NamesApart' <=> NamesApart) /\ (Defect' <=> Defect)
  BY <1>0, AskedStays
<1>7. CASE ~ Host!Applicable(p)
  <2>1. /\ tree' = "failed" /\ services' = services /\ owners' = owners /\ applied' = applied
        /\ progress' = progress
    BY <1>1, <1>7
  <2>2. Defect' BY <1>0, <1>4, <1>6, <1>7, RefusedIsDefect
  <2>3. HostTypes' BY <1>0, <1>1, <1>3, <2>1 DEF HostTypes, Host!CommandNames
  <2>4. AppliedInTurn' BY <1>0, <2>1 DEF AppliedInTurn
  <2>5. QED BY <2>1, <2>2, <2>3, <2>4 DEF HostKeeps
<1>8. CASE Host!Applicable(p)
  <2>1. /\ services' = services \cup p.provides /\ applied' = Append(applied, p)
        /\ progress' = TRUE /\ tree' = tree
        /\ owners' = [c \in Host!CommandNames |->
               IF c \in Host!Names(p) /\ owners[c] = Host!Free THEN p.name ELSE owners[c]]
    BY <1>1, <1>8
  <2>2. /\ Append(applied, p) \in Seq(Plugins)
        /\ Elements(Append(applied, p)) = Elements(applied) \cup {p}
    BY <1>2, <1>3, AppendedElements
  <2>3. HostTypes' BY <1>0, <1>1, <1>3, <2>1, <2>2 DEF HostTypes, Host!CommandNames
  <2>4. AppliedInTurn'
    <3>1. /\ Len(applied) \in Nat /\ Len(Append(applied, p)) = Len(applied) + 1
          /\ DOMAIN applied = 1..Len(applied)
          /\ Append(applied, p)[Len(applied) + 1] = p
          /\ \A i \in 1..Len(applied) : Append(applied, p)[i] = applied[i]
      BY <1>2
    <3> DEFINE n == Len(applied)
    <3> DEFINE new == Append(applied, p)
    <3> HIDE DEF n, new
    <3>2. ASSUME NEW i \in 1..n
          PROVE  /\ new[i].inject \subseteq UNION {new[j].provides : j \in 1..(i - 1)}
                 /\ new[i].source = "workspace" => trusted
      <4>1. new[i] = applied[i] BY <3>1 DEF n, new
      <4>2. \A j \in 1..(i - 1) : new[j] = applied[j] BY <3>1 DEF n, new
      <4>3. {new[j].provides : j \in 1..(i - 1)} = {applied[j].provides : j \in 1..(i - 1)}
        BY <4>2
      <4>4. /\ applied[i].inject \subseteq UNION {applied[j].provides : j \in 1..(i - 1)}
            /\ applied[i].source = "workspace" => trusted
        BY <1>0 DEF AppliedInTurn, n
      <4>5. QED BY <4>1, <4>3, <4>4
    <3>3. p.inject \subseteq UNION {new[j].provides : j \in 1..n}
      <4>1. p.inject \subseteq services BY <1>1 DEF Host!Missing
      <4>2. services = UNION {q.provides : q \in Elements(applied)} BY <1>0 DEF Fitting
      <4>3. ASSUME NEW s \in p.inject PROVE \E j \in 1..n : s \in new[j].provides
        <5>1. PICK q \in Elements(applied) : s \in q.provides BY <4>1, <4>2
        <5>2. PICK j \in 1..n : q = applied[j] BY <3>1, <5>1 DEF Elements, n
        <5>3. new[j] = q BY <3>1, <5>2 DEF n, new
        <5>4. QED BY <5>1, <5>3
      <4>4. QED BY <4>3
    <3>4. p.source = "workspace" => trusted BY <1>0, <1>4, CollectedPlugins
    <3>5. /\ new[n + 1] = p /\ n \in Nat /\ Len(new) = n + 1 BY <3>1 DEF n, new
    <3>6. ASSUME NEW i \in 1..(n + 1)
          PROVE  /\ new[i].inject \subseteq UNION {new[j].provides : j \in 1..(i - 1)}
                 /\ new[i].source = "workspace" => trusted
      <4>1. CASE i = n + 1
        <5>1. i - 1 = n BY <3>5, <4>1
        <5>2. QED BY <3>3, <3>4, <3>5, <4>1, <5>1
      <4>2. CASE i \in 1..n BY <3>2, <4>2
      <4>3. QED BY <3>5, <4>1, <4>2
    <3>7. applied' = new /\ trusted' = trusted BY <1>0, <2>1 DEF new
    <3>8. QED BY <3>5, <3>6, <3>7 DEF AppliedInTurn
  <2>5. /\ Elements(listed)' = Elements(Tail(listed)) /\ Elements(blocked)' = Elements(blocked)
        /\ Elements(applied)' = Elements(applied) \cup {p}
        /\ OneToOne(listed)' /\ OneToOne(blocked)'
    <3>1. listed' = Tail(listed) /\ blocked' = blocked /\ applied' = Append(applied, p)
      BY <1>0, <1>1, <2>1
    <3>2. Elements(listed)' = Elements(Tail(listed)) /\ OneToOne(listed)'
      BY <1>3, <3>1 DEF Elements, OneToOne
    <3>3. Elements(blocked)' = Elements(blocked) /\ OneToOne(blocked)'
      BY <1>0, <3>1 DEF Elements, OneToOne, Placed
    <3>4. Elements(applied)' = Elements(Append(applied, p)) BY <3>1 DEF Elements
    <3>5. QED BY <2>2, <3>2, <3>3, <3>4
  <2>6. Placed' BY <1>0, <1>3, <1>4, <1>6, <2>5 DEF Placed
  <2>7. Fitting'
    <3>1. /\ services = UNION {q.provides : q \in Elements(applied)}
          /\ \A c \in Host!CommandNames :
                owners[c] = Host!Free <=> \A q \in Elements(applied) : c \notin Host!Names(q)
          /\ \A q, r \in Elements(applied) : q # r =>
                /\ q.provides \cap r.provides = {}
                /\ Host!Names(q) \cap Host!Names(r) # {} => q.lenient \/ r.lenient
      BY <1>0 DEF Fitting
    <3>2. services' = UNION {q.provides : q \in Elements(applied) \cup {p}}
      BY <2>1, <3>1
    <3>3. p.name # Host!Free BY <1>3 DEF ListingsAreLists
    <3>4. ASSUME NEW c \in Host!CommandNames
          PROVE  owners'[c] = Host!Free <=> \A q \in Elements(applied) \cup {p} : c \notin Host!Names(q)
      BY <2>1, <3>1, <3>3
    <3>5. ASSUME NEW q \in Elements(applied)
          PROVE  /\ q.provides \cap p.provides = {}
                 /\ Host!Names(q) \cap Host!Names(p) # {} => q.lenient \/ p.lenient
      <4>1. q.provides \subseteq services BY <3>1, <3>5
      <4>2. p.provides \cap services = {} BY <1>8 DEF Host!Applicable
      <4>3. ASSUME NEW c \in Host!Names(q) \cap Host!Names(p), ~ p.lenient PROVE FALSE
        <5>1. owners[c] = Host!Free BY <1>8, <4>3 DEF Host!Applicable
        <5>2. c \in Host!CommandNames BY <1>3, <4>3 DEF Host!CommandNames, Host!Names
        <5>3. QED BY <3>1, <3>5, <4>3, <5>1, <5>2
      <4>4. QED BY <4>1, <4>2, <4>3
    <3>6. ASSUME NEW q \in Elements(applied) \cup {p}, NEW r \in Elements(applied) \cup {p}, q # r
          PROVE  /\ q.provides \cap r.provides = {}
                 /\ Host!Names(q) \cap Host!Names(r) # {} => q.lenient \/ r.lenient
      <4>1. CASE q \in Elements(applied) /\ r \in Elements(applied) BY <3>1, <3>6, <4>1
      <4>2. CASE r = p /\ q \in Elements(applied) BY <3>5, <4>2
      <4>3. CASE q = p /\ r \in Elements(applied) BY <3>5, <4>3
      <4>4. QED BY <3>6, <4>1, <4>2, <4>3
    <3>7. \A q : Host!Names(q)' = Host!Names(q) BY <1>0 DEF Host!Names
    <3>8. Host!CommandNames' = Host!CommandNames /\ Host!Free' = Host!Free
      BY DEF Host!CommandNames, Host!Free
    <3>9. QED BY <1>0, <2>5, <3>2, <3>4, <3>6, <3>8 DEF Fitting, Host!Names
  <2>8. StillMissing' BY <2>1 DEF StillMissing
  <2>9. QED BY <1>0, <1>6, <2>1, <2>3, <2>4, <2>6, <2>7, <2>8 DEF HostKeeps
<1>9. QED BY <1>7, <1>8

LEMMA PassEndsKeeps ==
    ASSUME ListingsAreLists, HostKeeps, Host!PassEnds
    PROVE  HostKeeps'
<1>0. /\ HostTypes /\ AppliedInTurn /\ tree = "loading" /\ listed = <<>>
      /\ NamesApart /\ Placed /\ Fitting /\ StillMissing
      /\ UNCHANGED <<trusted, applied, services, owners, listing>>
      /\ listed' = blocked /\ blocked' = <<>> /\ progress' = FALSE
      /\ tree' = IF blocked = <<>> THEN "loaded" ELSE IF progress THEN "loading" ELSE "failed"
  BY DEF HostKeeps, Host!PassEnds, Host!Again
<1>1. Host!Asked' = Host!Asked /\ (NamesApart' <=> NamesApart) /\ (Defect' <=> Defect)
  BY <1>0, AskedStays
<1>2. Elements(listed) = {} BY <1>0, NoElements
<1>3. HostTypes'
  <2>1. <<>> \in Seq(Plugins) OBVIOUS
  <2>2. QED BY <1>0, <2>1 DEF HostTypes, Host!CommandNames
<1>4. AppliedInTurn' BY <1>0 DEF AppliedInTurn
<1>5. /\ Elements(listed)' = Elements(blocked) /\ Elements(blocked)' = {}
      /\ Elements(applied)' = Elements(applied)
      /\ OneToOne(listed)' /\ OneToOne(blocked)'
  BY <1>0, NoElements DEF Elements, OneToOne, Placed
<1>6. Placed' BY <1>0, <1>1, <1>2, <1>5 DEF Placed
<1>7. Fitting' BY <1>0, <1>5 DEF Fitting, Host!CommandNames, Host!Free, Host!Names
<1>8. StillMissing' BY <1>5 DEF StillMissing
<1>9. CASE blocked # <<>> /\ ~ progress
  <2>1. PICK p \in Elements(blocked) : TRUE
    <3>1. blocked \in Seq(Plugins) BY <1>0 DEF HostTypes
    <3>2. Head(blocked) \in Elements(blocked) BY <1>9, <3>1, HeadAndTail
    <3>3. QED BY <3>2
  <2>2. Elements(blocked) \subseteq Host!Asked /\ Host!Asked \ Elements(blocked) = Elements(applied)
    BY <1>0, <1>2 DEF Placed
  <2>3. \A q \in Elements(blocked) :
           ~ (q.inject \subseteq UNION {r.provides : r \in Host!Asked \ Elements(blocked)})
    BY <1>0, <1>9, <2>2 DEF StillMissing, Fitting
  <2>4. ~ Host!Orderable BY <2>1, <2>2, <2>3 DEF Host!Orderable
  <2>5. Defect' BY <1>1, <2>4 DEF Defect
  <2>6. tree' = "failed" BY <1>0, <1>9
  <2>7. QED BY <1>3, <1>4, <2>5, <2>6 DEF HostKeeps
<1>10. CASE blocked = <<>>
  <2>1. tree' = "loaded" /\ listed' = <<>> /\ blocked' = <<>> BY <1>0, <1>10
  <2>2. QED BY <1>0, <1>1, <1>3, <1>4, <1>6, <1>7, <2>1 DEF HostKeeps
<1>11. CASE blocked # <<>> /\ progress
  <2>1. tree' = "loading" BY <1>0, <1>11
  <2>2. QED BY <1>0, <1>1, <1>3, <1>4, <1>6, <1>7, <1>8, <2>1 DEF HostKeeps
<1>12. QED BY <1>9, <1>10, <1>11 DEF HostTypes

LEMMA HostStep == ListingsAreLists /\ HostKeeps /\ [Host!Next]_Host!vars => HostKeeps'
<1> SUFFICES ASSUME ListingsAreLists, HostKeeps, [Host!Next]_Host!vars PROVE HostKeeps'
  OBVIOUS
<1>1. CASE Host!Collects BY <1>1, CollectsKeeps
<1>2. CASE Host!Applies BY <1>2, AppliesKeeps
<1>3. CASE Host!Blocks BY <1>3, BlocksKeeps
<1>4. CASE Host!PassEnds BY <1>4, PassEndsKeeps
<1>5. CASE UNCHANGED Host!vars
  <2>1. /\ trusted' = trusted /\ listed' = listed /\ blocked' = blocked /\ progress' = progress
        /\ applied' = applied /\ services' = services /\ owners' = owners /\ tree' = tree
        /\ listing' = listing
    BY <1>5 DEF Host!vars
  <2>2. Host!Asked' = Host!Asked /\ (NamesApart' <=> NamesApart) /\ (Defect' <=> Defect)
    BY <2>1, AskedStays
  <2>3. HostTypes' <=> HostTypes BY <2>1 DEF HostTypes, Host!CommandNames
  <2>4. AppliedInTurn' <=> AppliedInTurn BY <2>1 DEF AppliedInTurn
  <2>5. /\ Elements(listed)' = Elements(listed) /\ Elements(blocked)' = Elements(blocked)
        /\ Elements(applied)' = Elements(applied)
        /\ OneToOne(listed)' = OneToOne(listed) /\ OneToOne(blocked)' = OneToOne(blocked)
    BY <2>1 DEF Elements, OneToOne
  <2>6. Placed' <=> Placed BY <2>2, <2>5 DEF Placed
  <2>7. Fitting' <=> Fitting
    BY <2>1, <2>5 DEF Fitting, Host!CommandNames, Host!Free, Host!Names
  <2>8. StillMissing' <=> StillMissing BY <2>1, <2>5 DEF StillMissing
  <2>9. (\A c \in Host!CommandNames : owners[c] = Host!Free)'
           <=> (\A c \in Host!CommandNames : owners[c] = Host!Free)
    BY <2>1 DEF Host!CommandNames, Host!Free
  <2>10. QED BY <2>1, <2>2, <2>3, <2>4, <2>6, <2>7, <2>8, <2>9 DEF HostKeeps
<1>6. QED BY <1>1, <1>2, <1>3, <1>4, <1>5 DEF Host!Next

LEMMA SmallestExists ==
    ASSUME NEW n \in Nat, NEW S \in SUBSET (1..n), S # {}
    PROVE  \E i \in S : \A j \in S : i <= j
<1>1. IsFiniteSet(S)
  <2>1. 1 \in Int /\ n \in Int OBVIOUS
  <2>2. IsFiniteSet(1..n) BY <2>1, FS_Interval
  <2>3. QED BY <2>2, FS_Subset
<1>2. S \in SUBSET Nat OBVIOUS
<1>3. 0 < Cardinality(S)
  <2>1. Cardinality(S) \in Nat BY <1>1, FS_CardinalityType
  <2>2. Cardinality(S) # 0 BY <1>1, FS_EmptySet
  <2>3. QED BY <2>1, <2>2
<1>4. PICK i \in S : Rank(S, i) = 0 BY <1>1, <1>2, <1>3, RankIsOnto
<1>5. ASSUME NEW j \in S, j < i PROVE FALSE
  <2>1. Rank(S, j) < Rank(S, i) /\ Rank(S, j) \in Nat BY <1>1, <1>2, <1>5, RankIncreases, RankBound
  <2>2. QED BY <1>4, <2>1
<1>6. \A j \in S : i <= j
  <2>1. \A j \in S : j \in Nat BY <1>2
  <2>2. QED BY <1>4, <1>5, <2>1
<1>7. QED BY <1>4, <1>6

(* What was applied in turn can be ordered: of any plugins among them, the  *)
(* first one applied needs none of the others.                             *)
LEMMA AppliedIsOrderable ==
    ASSUME HostTypes, AppliedInTurn, Elements(applied) = Host!Asked
    PROVE  Host!Orderable
<1> SUFFICES ASSUME NEW some \in SUBSET Host!Asked, some # {}
             PROVE  \E p \in some : p.inject \subseteq UNION {q.provides : q \in Host!Asked \ some}
  BY DEF Host!Orderable
<1> DEFINE n == Len(applied)
<1> DEFINE places == {i \in 1..n : applied[i] \in some}
<1>1. n \in Nat /\ DOMAIN applied = 1..n BY DEF HostTypes
<1>2. places # {}
  <2>1. PICK p \in some : TRUE OBVIOUS
  <2>2. p \in Elements(applied) OBVIOUS
  <2>3. PICK i \in 1..n : p = applied[i] BY <1>1, <2>2 DEF Elements
  <2>4. i \in places BY <2>1, <2>3
  <2>5. QED BY <2>4
<1>3. PICK i \in places : \A j \in places : i <= j
  <2>1. places \in SUBSET (1..n) OBVIOUS
  <2> HIDE DEF places, n
  <2>2. QED BY <1>1, <1>2, <2>1, SmallestExists
<1>4. applied[i] \in some /\ i \in 1..n OBVIOUS
<1>5. applied[i].inject \subseteq UNION {applied[j].provides : j \in 1..(i - 1)}
  BY <1>4 DEF AppliedInTurn
<1>6. ASSUME NEW j \in 1..(i - 1) PROVE applied[j] \in Host!Asked \ some
  <2>1. j \in 1..n /\ ~ (i <= j) BY <1>1, <1>4
  <2>2. j \notin places BY <1>3, <2>1
  <2>3. applied[j] \notin some BY <2>1, <2>2
  <2>4. applied[j] \in Elements(applied) BY <1>1, <2>1 DEF Elements
  <2>5. QED BY <2>3, <2>4
<1>7. UNION {applied[j].provides : j \in 1..(i - 1)}
         \subseteq UNION {q.provides : q \in Host!Asked \ some}
  BY <1>6
<1>8. QED BY <1>4, <1>5, <1>7

(* The runtime of plugins (load_plugin_tree): a listing is loaded exactly if *)
(* its plugins can be composed, and then all of them are, each after what  *)
(* it injects; the rounds of _apply_tree fail only for a defect that the   *)
(* listing has in any order, or a lenient plugin before a strict one.      *)
THEOREM PluginsAreComposed ==
    ASSUME ListingsAreLists
    PROVE  Host!Spec => []Host!ComposedByNeed
<1>1. Host!Init => HostKeeps BY HostInit
<1>2. HostKeeps /\ [Host!Next]_Host!vars => HostKeeps' BY HostStep
<1>3. ASSUME HostKeeps PROVE Host!ComposedByNeed
  <2>1. HostTypes /\ AppliedInTurn BY <1>3 DEF HostKeeps
  <2>2. DOMAIN applied = 1..Len(applied) BY <2>1 DEF HostTypes
  <2>3. ASSUME tree = "loaded"
        PROVE  /\ {applied[i] : i \in 1..Len(applied)} = Host!Asked
               /\ Host!Distinct /\ Host!Orderable
               /\ \A c \in Host!CommandNames :
                     owners[c] = Host!Free <=> \A p \in Host!Asked : c \notin Host!Names(p)
    <3>1. NamesApart /\ Placed /\ Fitting /\ listed = <<>> /\ blocked = <<>>
      BY <1>3, <2>3 DEF HostKeeps
    <3>2. Elements(applied) = Host!Asked BY <3>1, NoElements DEF Placed
    <3>3. {applied[i] : i \in 1..Len(applied)} = Elements(applied) BY <2>2 DEF Elements
    <3>4. Host!Orderable BY <2>1, <3>2, AppliedIsOrderable
    <3>5. /\ OneToOne(Host!Collected) /\ Cardinality(Host!Asked) = Len(Host!Collected)
          /\ Host!Asked = Elements(Host!Collected)
      BY <2>1, <3>1, NamesTell, CollectedPlugins
    <3>6. \A p, q \in Host!Asked : p # q => p.name # q.name
      BY <3>1, <3>5 DEF NamesApart, Elements
    <3>7. Host!Cardinality(Host!Asked) = Cardinality(Host!Asked)
      BY DEF Host!Cardinality, Cardinality
    <3>8. Host!Distinct BY <3>1, <3>2, <3>5, <3>6, <3>7 DEF Host!Distinct, Fitting
    <3>9. QED BY <3>1, <3>2, <3>3, <3>4, <3>8 DEF Fitting
  <2>4. tree = "failed" => Defect BY <1>3 DEF HostKeeps
  <2>5. QED BY <2>1, <2>3, <2>4 DEF Host!ComposedByNeed, AppliedInTurn, Defect
<1>4. QED BY <1>1, <1>2, <1>3, PTL DEF Host!Spec

-----------------------------------------------------------------------------
(* The chunks of a text, cut by _chunk_text.                               *)
WindowEnd(text, start) == Index!Min({start + Size, Len(text)})
NextStart(text, start) == Index!Max({0, WindowEnd(text, start) - Overlap})
Window(file, text, start) ==
    LET piece == SubSeq(text, start + 1, WindowEnd(text, start))
    IN  IF Index!Blank(piece) THEN <<>> ELSE <<[file |-> file, start |-> start, text |-> piece]>>
CutAt(file, text, from, start) ==
    Window(file, text, start) \o
        (IF WindowEnd(text, start) = Len(text) THEN <<>> ELSE from[NextStart(text, start)])
Cuts(file, text) ==
    CHOOSE from : from = [start \in 0..Len(text) |-> CutAt(file, text, from, start)]

LEMMA ChunksAreCut ==
    ASSUME NEW file, NEW text
    PROVE  Index!Chunks(file, text) = IF Index!Blank(text) THEN <<>> ELSE Cuts(file, text)[0]
BY DEF Index!Chunks, Cuts, CutAt, Window, NextStart, WindowEnd

LEMMA LargestExists ==
    ASSUME NEW n \in Nat, NEW S \in SUBSET (0..n), S # {}
    PROVE  \E i \in S : \A j \in S : j <= i
<1> DEFINE T == {n + 1 - i : i \in S}
<1>0. n + 1 \in Nat /\ \A i \in S : n + 1 - i \in 1..(n + 1) OBVIOUS
<1>1. T \in SUBSET (1..(n + 1)) /\ T # {} /\ n + 1 \in Nat BY <1>0
<1>2. PICK k \in T : \A l \in T : k <= l
  <2> HIDE DEF T
  <2>1. QED BY <1>1, SmallestExists
<1>3. PICK i \in S : k = n + 1 - i OBVIOUS
<1>4. ASSUME NEW j \in S PROVE j <= i
  <2>1. n + 1 - j \in T OBVIOUS
  <2>2. k <= n + 1 - j BY <1>2, <2>1
  <2>3. i \in Nat /\ j \in Nat OBVIOUS
  <2>4. QED BY <1>3, <2>2, <2>3
<1>5. QED BY <1>4

LEMMA WindowMoves ==
    ASSUME SizesAreSound, NEW S, NEW text \in Seq(S), NEW start \in 0..Len(text)
    PROVE  /\ WindowEnd(text, start) \in start..Len(text)
           /\ WindowEnd(text, start) # Len(text) =>
                 /\ NextStart(text, start) \in (start + 1)..Len(text)
                 /\ NextStart(text, start) <= WindowEnd(text, start)
<1> DEFINE L == Len(text)
<1> DEFINE e == WindowEnd(text, start)
<1>0. L \in Nat /\ start \in Nat /\ Size \in Nat \ {0} /\ Overlap \in 0..(Size - 1) /\ start <= L
  BY DEF SizesAreSound
<1> HIDE DEF L
<1>1. ASSUME NEW a \in Nat, NEW b \in Nat
      PROVE  Index!Min({a, b}) = IF a <= b THEN a ELSE b
  <2>1. \E x \in {a, b} : \A y \in {a, b} : x <= y BY <1>1
  <2>2. /\ Index!Min({a, b}) \in {a, b}
        /\ \A y \in {a, b} : Index!Min({a, b}) <= y
    BY <2>1 DEF Index!Min
  <2>3. QED BY <1>1, <2>2
<1>2. ASSUME NEW a \in Int, NEW b \in Int
      PROVE  Index!Max({a, b}) = IF a <= b THEN b ELSE a
  <2>1. \E x \in {a, b} : \A y \in {a, b} : x >= y BY <1>2
  <2>2. /\ Index!Max({a, b}) \in {a, b}
        /\ \A y \in {a, b} : Index!Max({a, b}) >= y
    BY <2>1 DEF Index!Max
  <2>3. QED BY <1>2, <2>2
<1>3. e = IF start + Size <= L THEN start + Size ELSE L
  <2>1. start + Size \in Nat BY <1>0
  <2>2. QED BY <1>0, <1>1, <2>1 DEF WindowEnd, L
<1>4. e \in start..L BY <1>0, <1>3
<1>5. NextStart(text, start) = IF 0 <= e - Overlap THEN e - Overlap ELSE 0
  <2>1. e - Overlap \in Int /\ 0 \in Int BY <1>0, <1>4
  <2> HIDE DEF e
  <2>2. Index!Max({0, e - Overlap}) = IF 0 <= e - Overlap THEN e - Overlap ELSE 0 BY <1>2, <2>1
  <2>3. QED BY <2>2 DEF NextStart, e
<1> HIDE DEF e
<1>6. e # L => /\ NextStart(text, start) \in (start + 1)..L
               /\ NextStart(text, start) <= e
  BY <1>0, <1>3, <1>4, <1>5
<1>7. QED BY <1>4, <1>6 DEF L, e

(* The recursion of the cuts is well founded: every window starts after the *)
(* one before it.                                                          *)
LEMMA CutsExist ==
    ASSUME SizesAreSound, NEW S, NEW text \in Seq(S), NEW file
    PROVE  Cuts(file, text)
             = [start \in 0..Len(text) |-> CutAt(file, text, Cuts(file, text), start)]
<1> DEFINE L == Len(text)
<1> DEFINE IsCut(g, m) == g = [start \in m..L |-> CutAt(file, text, g, start)]
<1> DEFINE E(m) == \E g : IsCut(g, m)
<1>0. L \in Nat OBVIOUS
<1>1. E(L + 1)
  <2>1. (L + 1)..L = {} BY <1>0
  <2>2. [start \in {} |-> 0] = [start \in (L + 1)..L |-> CutAt(file, text, [s \in {} |-> 0], start)]
    BY <2>1
  <2>3. QED BY <2>2
<1>2. ASSUME NEW m \in 0..L, E(m + 1) PROVE E(m)
  <2>1. PICK g : IsCut(g, m + 1) BY <1>2
  <2> DEFINE h == [s \in m..L |-> IF s = m THEN CutAt(file, text, g, m) ELSE g[s]]
  <2>2. ASSUME NEW s \in m..L PROVE CutAt(file, text, h, s) = CutAt(file, text, g, s)
    <3>1. s \in 0..Len(text) BY <1>0
    <3>2. WindowEnd(text, s) # L => NextStart(text, s) \in (s + 1)..L BY <3>1, WindowMoves
    <3>3. WindowEnd(text, s) # L => h[NextStart(text, s)] = g[NextStart(text, s)]
      BY <1>0, <3>2
    <3> HIDE DEF h
    <3>4. QED BY <3>3 DEF CutAt
  <2>3. ASSUME NEW s \in m..L PROVE h[s] = CutAt(file, text, g, s)
    <3>1. CASE s = m BY <3>1
    <3>2. CASE s # m
      <4>1. s \in (m + 1)..L BY <1>0, <3>2
      <4>2. g[s] = CutAt(file, text, g, s) BY <2>1, <4>1
      <4>3. QED BY <3>2, <4>2
    <3>3. QED BY <3>1, <3>2
  <2>4. h = [s \in m..L |-> h[s]] OBVIOUS
  <2> HIDE DEF h
  <2>5. h = [s \in m..L |-> CutAt(file, text, h, s)] BY <2>2, <2>3, <2>4
  <2>6. QED BY <2>5
<1>3. E(0)
  <2> HIDE DEF E
  <2> SUFFICES ASSUME ~ E(0) PROVE FALSE
    OBVIOUS
  <2> DEFINE Bad == {m \in 0..L : ~ E(m)}
  <2>1. Bad \in SUBSET (0..L) /\ Bad # {} BY <1>0
  <2>2. PICK m \in Bad : \A j \in Bad : j <= m
    <3> HIDE DEF Bad, L
    <3>1. QED BY <1>0, <2>1, LargestExists
  <2>3. m \in 0..L /\ ~ E(m) OBVIOUS
  <2>4. E(m + 1)
    <3>1. CASE m = L BY <1>1, <3>1
    <3>2. CASE m # L
      <4>1. m + 1 \in 0..L /\ ~ (m + 1 <= m) BY <1>0, <2>3, <3>2
      <4>2. m + 1 \notin Bad BY <2>2, <4>1
      <4>3. QED BY <4>1, <4>2
    <3>3. QED BY <3>1, <3>2
  <2>5. QED BY <1>2, <2>3, <2>4
<1>4. \E g : g = [start \in 0..L |-> CutAt(file, text, g, start)] BY <1>3
<1>5. QED BY <1>4 DEF Cuts

ChunkRows == [file : Files, start : Nat, text : Seq(Letters)]

(* What a chunk says of a text, and a character that it holds.              *)
QuotesText(c, t) == c.text = SubSeq(t, c.start + 1, c.start + Len(c.text))
HoldsAt(c, k, t) == k - c.start \in DOMAIN c.text /\ c.text[k - c.start] = t[k]

LEMMA WindowHolds ==
    ASSUME SizesAreSound, NEW file \in Files, NEW text \in Seq(Letters), NEW start \in 0..Len(text)
    PROVE  \/ /\ Window(file, text, start) = <<>>
              /\ \A k \in (start + 1)..WindowEnd(text, start) : text[k] = " "
           \/ \E c \in ChunkRows :
                 /\ Window(file, text, start) = <<c>>
                 /\ c.file = file /\ c.start = start /\ QuotesText(c, text)
                 /\ \A k \in (start + 1)..WindowEnd(text, start) : HoldsAt(c, k, text)
<1> DEFINE e == WindowEnd(text, start)
<1> DEFINE piece == SubSeq(text, start + 1, e)
<1>0. e \in start..Len(text) /\ Len(text) \in Nat /\ start \in Nat /\ e \in Nat
  BY WindowMoves
<1>1. \A i \in (start + 1)..e : text[i] \in Letters BY <1>0
<1> HIDE DEF e
<1>2. /\ piece \in Seq(Letters)
      /\ Len(piece) = e - start
      /\ \A i \in 1..(e - start) : piece[i] = text[start + i]
  <2>1. start + 1 \in Int /\ e \in Int BY <1>0
  <2>2. /\ piece \in Seq(Letters)
        /\ Len(piece) = IF start + 1 <= e THEN e - (start + 1) + 1 ELSE 0
        /\ \A i \in 1..(e - (start + 1) + 1) : piece[i] = text[(start + 1) + i - 1]
    BY <1>1, <2>1, SubSeqProperties
  <2>3. e - (start + 1) + 1 = e - start /\ (~ (start + 1 <= e) => e - start = 0) BY <1>0
  <2>4. \A i \in 1..(e - start) : (start + 1) + i - 1 = start + i BY <1>0
  <2>5. QED BY <2>2, <2>3, <2>4
<1>3. DOMAIN piece = 1..(e - start) BY <1>2
<1>4. Window(file, text, start)
         = IF Index!Blank(piece) THEN <<>> ELSE <<[file |-> file, start |-> start, text |-> piece]>>
  BY DEF Window, e
<1>5. ASSUME NEW k \in (start + 1)..e
      PROVE  k - start \in DOMAIN piece /\ piece[k - start] = text[k]
  <2>1. k - start \in 1..(e - start) /\ start + (k - start) = k BY <1>0
  <2>2. QED BY <1>2, <1>3, <2>1
<1> HIDE DEF piece
<1>6. CASE Index!Blank(piece)
  <2>1. \A i \in DOMAIN piece : piece[i] = " " BY <1>6 DEF Index!Blank, Index!ToSet
  <2>2. \A k \in (start + 1)..e : text[k] = " " BY <1>5, <2>1
  <2>3. QED BY <1>4, <1>6, <2>2 DEF e
<1>7. CASE ~ Index!Blank(piece)
  <2> DEFINE c == [file |-> file, start |-> start, text |-> piece]
  <2>1. c \in ChunkRows /\ c.file = file /\ c.start = start /\ c.text = piece
    BY <1>0, <1>2 DEF ChunkRows
  <2>2. Window(file, text, start) = <<c>> BY <1>4, <1>7
  <2> HIDE DEF c
  <2>3. QuotesText(c, text)
    <3>1. start + Len(piece) = e BY <1>0, <1>2
    <3>2. piece = SubSeq(text, start + 1, start + Len(piece)) BY <3>1 DEF piece
    <3>3. QED BY <2>1, <3>2 DEF QuotesText
  <2>4. \A k \in (start + 1)..e : HoldsAt(c, k, text) BY <1>5, <2>1 DEF HoldsAt
  <2>5. QED BY <2>1, <2>2, <2>3, <2>4 DEF e
<1>8. QED BY <1>6, <1>7

(* What the chunks from a place of the text on are.                        *)
CutsFrom(list, file, text, m) ==
    /\ list \in Seq(ChunkRows)
    /\ \A i \in DOMAIN list : /\ list[i].file = file /\ list[i].start \in m..Len(text)
                              /\ QuotesText(list[i], text)
    /\ \A i, j \in DOMAIN list : i < j => list[i].start < list[j].start
    /\ \A k \in (m + 1)..Len(text) : text[k] # " " =>
          \E i \in DOMAIN list : HoldsAt(list[i], k, text)

(* A window before the chunks from a later place on, which it reaches.      *)
LEMMA WindowBefore ==
    ASSUME NEW file \in Files, NEW text \in Seq(Letters), NEW m \in 0..Len(text),
           NEW n \in (m + 1)..Len(text), NEW e \in n..Len(text),
           NEW c \in ChunkRows, c.file = file, c.start = m, QuotesText(c, text),
           \A k \in (m + 1)..e : HoldsAt(c, k, text),
           NEW rest, CutsFrom(rest, file, text, n)
    PROVE  CutsFrom(<<c>> \o rest, file, text, m)
<1> DEFINE list == <<c>> \o rest
<1>0. Len(text) \in Nat /\ m \in Nat /\ n \in Nat /\ e \in Nat /\ m < n /\ n <= e /\ e <= Len(text)
  OBVIOUS
<1>1. rest \in Seq(ChunkRows) /\ <<c>> \in Seq(ChunkRows) /\ Len(<<c>>) = 1 /\ <<c>>[1] = c
  <2>1. rest \in Seq(ChunkRows) BY DEF CutsFrom
  <2>2. c \in ChunkRows OBVIOUS
  <2>3. <<c>> \in Seq(ChunkRows) BY <2>2
  <2>4. QED BY <2>1, <2>3
<1>2. /\ list \in Seq(ChunkRows) /\ Len(list) = Len(rest) + 1 /\ Len(rest) \in Nat
      /\ list[1] = c /\ \A i \in 1..Len(rest) : list[i + 1] = rest[i]
      /\ DOMAIN list = 1..(Len(rest) + 1) /\ DOMAIN rest = 1..Len(rest)
  <2>1. /\ list \in Seq(ChunkRows) /\ Len(list) = Len(<<c>>) + Len(rest)
        /\ \A i \in 1..(Len(<<c>>) + Len(rest)) :
              list[i] = IF i <= Len(<<c>>) THEN <<c>>[i] ELSE rest[i - Len(<<c>>)]
    BY <1>1, ConcatProperties
  <2>2. Len(rest) \in Nat BY <1>1
  <2> HIDE DEF list
  <2>3. \A i \in 1..(1 + Len(rest)) : list[i] = IF i <= 1 THEN <<c>>[i] ELSE rest[i - 1]
    BY <1>1, <2>1
  <2>4. 1 \in 1..(1 + Len(rest)) BY <2>2
  <2>5. list[1] = c BY <1>1, <2>3, <2>4
  <2>6. ASSUME NEW i \in 1..Len(rest) PROVE list[i + 1] = rest[i]
    <3>1. i + 1 \in 1..(1 + Len(rest)) /\ ~ (i + 1 <= 1) /\ (i + 1) - 1 = i BY <2>2
    <3>2. QED BY <2>3, <3>1
  <2>7. DOMAIN list = 1..(Len(rest) + 1) BY <1>1, <2>1, <2>2
  <2>8. QED BY <1>1, <2>1, <2>2, <2>5, <2>6, <2>7
<1> HIDE DEF list
<1>3. \A i \in DOMAIN list : i = 1 \/ (i - 1 \in DOMAIN rest /\ list[i] = rest[i - 1])
  <2>1. ASSUME NEW i \in DOMAIN list, i # 1 PROVE i - 1 \in DOMAIN rest /\ list[i] = rest[i - 1]
    <3>1. i - 1 \in 1..Len(rest) /\ (i - 1) + 1 = i BY <1>2, <2>1
    <3>2. QED BY <1>2, <3>1
  <2>2. QED BY <2>1
<1>4. \A i \in DOMAIN rest : /\ rest[i].file = file /\ rest[i].start \in n..Len(text)
                             /\ QuotesText(rest[i], text)
  BY DEF CutsFrom
<1>5. ASSUME NEW i \in DOMAIN list
      PROVE  /\ list[i].file = file /\ list[i].start \in m..Len(text)
             /\ QuotesText(list[i], text)
  <2>1. CASE i = 1 BY <1>0, <1>2, <2>1
  <2>2. CASE i # 1
    <3>1. i - 1 \in DOMAIN rest /\ list[i] = rest[i - 1] BY <1>3, <2>2
    <3>2. rest[i - 1].start \in n..Len(text) BY <1>4, <3>1
    <3>3. rest[i - 1].start \in m..Len(text) BY <1>0, <3>2
    <3>4. QED BY <1>4, <3>1, <3>3
  <2>3. QED BY <2>1, <2>2
<1>6. ASSUME NEW i \in DOMAIN list, NEW j \in DOMAIN list, i < j
      PROVE  list[i].start < list[j].start
  <2>0. i \in Nat /\ j \in Nat /\ j # 1 BY <1>2, <1>6
  <2>1. j - 1 \in DOMAIN rest /\ list[j] = rest[j - 1] BY <1>3, <2>0
  <2>2. CASE i = 1
    <3>1. rest[j - 1].start \in n..Len(text) BY <1>4, <2>1
    <3>2. m < rest[j - 1].start BY <1>0, <3>1
    <3>3. QED BY <1>2, <2>1, <2>2, <3>2
  <2>3. CASE i # 1
    <3>1. i - 1 \in DOMAIN rest /\ list[i] = rest[i - 1] BY <1>3, <2>3
    <3>2. i - 1 < j - 1 BY <1>6, <2>0
    <3>3. rest[i - 1].start < rest[j - 1].start BY <2>1, <3>1, <3>2 DEF CutsFrom
    <3>4. QED BY <2>1, <3>1, <3>3
  <2>4. QED BY <2>2, <2>3
<1>7. ASSUME NEW k \in (m + 1)..Len(text), text[k] # " "
      PROVE  \E i \in DOMAIN list : HoldsAt(list[i], k, text)
  <2>1. CASE k <= e
    <3>1. k \in (m + 1)..e BY <1>0, <2>1
    <3>2. HoldsAt(list[1], k, text) /\ 1 \in DOMAIN list BY <1>2, <3>1
    <3>3. QED BY <3>2
  <2>2. CASE ~ (k <= e)
    <3>1. k \in (n + 1)..Len(text) BY <1>0, <2>2
    <3>2. PICK i \in DOMAIN rest : HoldsAt(rest[i], k, text) BY <1>7, <3>1 DEF CutsFrom
    <3>3. i + 1 \in DOMAIN list /\ list[i + 1] = rest[i] BY <1>2
    <3>4. QED BY <3>2, <3>3
  <2>3. QED BY <2>1, <2>2
<1>8. QED BY <1>2, <1>5, <1>6, <1>7 DEF CutsFrom, list

LEMMA CutsAreFaithful ==
    ASSUME SizesAreSound, NEW file \in Files, NEW text \in Seq(Letters)
    PROVE  CutsFrom(Cuts(file, text)[0], file, text, 0)
<1> DEFINE L == Len(text)
<1> DEFINE from == Cuts(file, text)
<1> DEFINE Good(m) == CutsFrom(from[m], file, text, m)
<1>0. L \in Nat OBVIOUS
<1>1. \A m \in 0..L : from[m] = CutAt(file, text, from, m) BY CutsExist
<1> HIDE DEF from
<1>2. ASSUME NEW m \in 0..L, \A j \in (m + 1)..L : Good(j) PROVE Good(m)
  <2> DEFINE e == WindowEnd(text, m)
  <2> DEFINE n == NextStart(text, m)
  <2>1. /\ e \in m..L
        /\ e # L => n \in (m + 1)..L /\ n <= e
    BY WindowMoves
  <2>2. from[m] = Window(file, text, m) \o (IF e = L THEN <<>> ELSE from[n])
    BY <1>1 DEF CutAt
  <2>3. \/ /\ Window(file, text, m) = <<>>
           /\ \A k \in (m + 1)..e : text[k] = " "
        \/ \E c \in ChunkRows :
              /\ Window(file, text, m) = <<c>>
              /\ c.file = file /\ c.start = m /\ QuotesText(c, text)
              /\ \A k \in (m + 1)..e : HoldsAt(c, k, text)
    BY WindowHolds
  <2> HIDE DEF e, n
  <2>4. CASE e = L
    <3>1. CASE Window(file, text, m) = <<>> /\ \A k \in (m + 1)..e : text[k] = " "
      <4>1. from[m] = <<>>
        <5>1. <<>> \o <<>> = <<>> OBVIOUS
        <5>2. QED BY <2>2, <2>4, <3>1, <5>1
      <4>2. <<>> \in Seq(ChunkRows) /\ DOMAIN <<>> = {} OBVIOUS
      <4>3. \A k \in (m + 1)..Len(text) : text[k] = " " BY <2>4, <3>1
      <4>4. CutsFrom(<<>>, file, text, m) BY <4>2, <4>3 DEF CutsFrom
      <4>5. QED BY <4>1, <4>4
    <3>2. CASE \E c \in ChunkRows :
                 /\ Window(file, text, m) = <<c>>
                 /\ c.file = file /\ c.start = m /\ QuotesText(c, text)
                 /\ \A k \in (m + 1)..e : HoldsAt(c, k, text)
      <4>1. PICK c \in ChunkRows :
                 /\ Window(file, text, m) = <<c>>
                 /\ c.file = file /\ c.start = m /\ QuotesText(c, text)
                 /\ \A k \in (m + 1)..e : HoldsAt(c, k, text)
        BY <3>2
      <4>2. <<c>> \in Seq(ChunkRows) /\ DOMAIN <<c>> = {1} /\ <<c>>[1] = c
        <5>1. c \in ChunkRows OBVIOUS
        <5>2. QED BY <5>1
      <4>3. from[m] = <<c>>
        <5>1. <<c>> \o <<>> = <<c>> BY <4>2, ConcatEmptySeq
        <5>2. QED BY <2>2, <2>4, <4>1, <5>1
      <4>4. \A k \in (m + 1)..Len(text) : HoldsAt(c, k, text) BY <2>4, <4>1
      <4>5. c.start \in m..Len(text) BY <1>0, <4>1
      <4>6. ~ (1 < 1) OBVIOUS
      <4>7. CutsFrom(<<c>>, file, text, m) BY <4>1, <4>2, <4>4, <4>5, <4>6 DEF CutsFrom
      <4>8. QED BY <4>3, <4>7
    <3>3. QED BY <2>3, <3>1, <3>2
  <2>5. CASE e # L
    <3>1. n \in (m + 1)..L /\ n <= e BY <2>1, <2>5
    <3>2. CutsFrom(from[n], file, text, n) BY <1>2, <3>1
    <3>3. from[m] = Window(file, text, m) \o from[n] BY <2>2, <2>5
    <3>4. CASE Window(file, text, m) = <<>> /\ \A k \in (m + 1)..e : text[k] = " "
      <4>1. from[n] \in Seq(ChunkRows) BY <3>2 DEF CutsFrom
      <4>2. from[m] = from[n]
        <5>1. <<>> \o from[n] = from[n] BY <4>1, ConcatEmptySeq
        <5>2. QED BY <3>3, <3>4, <5>1
      <4>3. \A i \in DOMAIN from[n] : from[n][i].start \in m..Len(text)
        <5>1. ASSUME NEW i \in DOMAIN from[n] PROVE from[n][i].start \in m..Len(text)
          <6>1. from[n][i].start \in n..Len(text) BY <3>2 DEF CutsFrom
          <6>2. QED BY <1>0, <3>1, <6>1
        <5>2. QED BY <5>1
      <4>4. ASSUME NEW k \in (m + 1)..Len(text), text[k] # " " PROVE k \in (n + 1)..Len(text)
        <5>0. e \in Nat /\ n \in Nat /\ k \in Nat /\ m + 1 <= k /\ k <= Len(text) /\ n <= e
          BY <1>0, <2>1, <3>1
        <5>1. ~ (k <= e)
          <6>1. k <= e => k \in (m + 1)..e BY <5>0
          <6>2. QED BY <3>4, <4>4, <6>1
        <5>2. n + 1 <= k BY <5>0, <5>1
        <5>3. QED BY <1>0, <5>0, <5>2
      <4>5. CutsFrom(from[n], file, text, m) BY <3>2, <4>3, <4>4 DEF CutsFrom
      <4>6. QED BY <4>2, <4>5
    <3>5. CASE \E c \in ChunkRows :
                 /\ Window(file, text, m) = <<c>>
                 /\ c.file = file /\ c.start = m /\ QuotesText(c, text)
                 /\ \A k \in (m + 1)..e : HoldsAt(c, k, text)
      <4>1. PICK c \in ChunkRows :
                 /\ Window(file, text, m) = <<c>>
                 /\ c.file = file /\ c.start = m /\ QuotesText(c, text)
                 /\ \A k \in (m + 1)..e : HoldsAt(c, k, text)
        BY <3>5
      <4>2. n \in (m + 1)..Len(text) /\ e \in n..Len(text) BY <1>0, <2>1, <3>1
      <4>3. CutsFrom(<<c>> \o from[n], file, text, m) BY <3>2, <4>1, <4>2, WindowBefore
      <4>4. QED BY <3>3, <4>1, <4>3
    <3>6. QED BY <2>3, <3>4, <3>5
  <2>6. QED BY <2>4, <2>5
<1>3. Good(0)
  <2> HIDE DEF Good
  <2> SUFFICES ASSUME ~ Good(0) PROVE FALSE
    OBVIOUS
  <2> DEFINE Bad == {m \in 0..L : ~ Good(m)}
  <2>1. Bad \in SUBSET (0..L) /\ Bad # {} BY <1>0
  <2>2. PICK m \in Bad : \A j \in Bad : j <= m
    <3> HIDE DEF Bad, L
    <3>1. QED BY <1>0, <2>1, LargestExists
  <2>3. m \in 0..L /\ ~ Good(m) OBVIOUS
  <2>4. ASSUME NEW j \in (m + 1)..L PROVE Good(j)
    <3>1. j \in 0..L /\ ~ (j <= m) BY <1>0, <2>3
    <3>2. QED BY <2>2, <3>1
  <2>5. QED BY <1>2, <2>3, <2>4
<1>4. QED BY <1>3 DEF from

(* No two chunks of a text are the same.                                   *)
LEMMA ChunksAreFaithful ==
    ASSUME SizesAreSound, NEW file \in Files, NEW text \in Seq(Letters)
    PROVE  CutsFrom(Index!Chunks(file, text), file, text, 0)
<1>1. CASE Index!Blank(text)
  <2>1. Index!Chunks(file, text) = <<>> BY <1>1, ChunksAreCut
  <2>2. \A k \in 1..Len(text) : text[k] = " "
    <3>1. DOMAIN text = 1..Len(text) OBVIOUS
    <3>2. \A k \in DOMAIN text : text[k] \in {" "} BY <1>1 DEF Index!Blank, Index!ToSet
    <3>3. QED BY <3>1, <3>2
  <2>3. <<>> \in Seq(ChunkRows) /\ DOMAIN <<>> = {} /\ 0 + 1 = 1 OBVIOUS
  <2>4. QED BY <2>1, <2>2, <2>3 DEF CutsFrom
<1>2. CASE ~ Index!Blank(text) BY <1>2, ChunksAreCut, CutsAreFaithful
<1>3. QED BY <1>1, <1>2

BuildRows == [state : {"idle", "reads", "writes"}, into : {"file", "store"}, todo : SUBSET Files,
              chunks : Seq(ChunkRows), fresh : BOOLEAN]
IndexRows == [exists : BOOLEAN, lines : Seq(ChunkRows), torn : BOOLEAN, whole : BOOLEAN,
              rewrites : Nat]
SearchStates == {"idle", "reads", "falls back"} \cup Index!Answered
SearchRows == [state : SearchStates, pos : Nat, hits : SUBSET ChunkRows, calm : BOOLEAN,
               opened : Nat]

IndexTypes ==
    /\ texts \in [Files -> Seq(Letters)]
    /\ build \in BuildRows /\ index \in IndexRows /\ search \in SearchRows
    /\ vectors \subseteq ChunkRows

(* Chunks hold every word of the files of some set, as they are now, and    *)
(* nothing else.                                                           *)
HoldAll(chunks, t) == \A k \in DOMAIN t : t[k] # " " => \E c \in chunks : HoldsAt(c, k, t)
OfFile(chunks, f) == {c \in chunks : c.file = f}
SayNow(list, some, now) ==
    /\ \A f \in some : HoldAll(OfFile(Elements(list), f), now[f])
    /\ \A i \in DOMAIN list : list[i].file \in some /\ QuotesText(list[i], now[list[i].file])
    /\ OneToOne(list)

(* What a build that nothing overtook has, has written or has yet to write. *)
BuildKnows ==
    build.fresh =>
        /\ build.state = "reads" => SayNow(build.chunks, Files \ build.todo, texts)
        /\ build.state = "writes" => SayNow(index.lines \o build.chunks, Files, texts)
        /\ build.state = "idle" /\ build.into = "file" => SayNow(index.lines, Files, texts)
        /\ build.state = "idle" /\ build.into = "store" =>
              \A f \in Files : HoldAll(OfFile(vectors, f), texts[f])

(* An index that is whole is not being written, nor does it end in a torn   *)
(* line.                                                                   *)
WholeIsDone ==
    /\ build.state = "writes" =>
          build.into = "file" /\ index.exists /\ ~ index.whole /\ (index.torn => build.chunks # <<>>)
    /\ index.whole => index.exists /\ ~ index.torn

Matching(list, n) == {list[i] : i \in {j \in 1..n : Index!Matches(list[j].text)}}

(* A search no rebuild wrote into has the hits of the lines it has read.    *)
SearchKnows ==
    search.calm =>
        /\ index.whole /\ search.opened = index.rewrites
        /\ search.state = "reads" =>
              search.pos <= Len(index.lines) /\ search.hits = Matching(index.lines, search.pos)
        /\ search.state = "hits" => search.hits = Matching(index.lines, Len(index.lines))
        /\ search.state \in (Index!Answered \cup {"falls back"}) \ {"hits"} =>
              Matching(index.lines, Len(index.lines)) = {}
        /\ search.state = "failed" => memory = "broken"

IndexKeeps == IndexTypes /\ BuildKnows /\ WholeIsDone /\ SearchKnows

LEMMA IndexInit == TextsAreTexts /\ Index!Init => IndexKeeps
<1> SUFFICES ASSUME TextsAreTexts, Index!Init PROVE IndexKeeps
  OBVIOUS
<1>0. <<>> \in Seq(ChunkRows) OBVIOUS
<1>1. /\ texts \in [Files -> Texts] /\ vectors = {}
      /\ build = [state |-> "idle", into |-> "file", todo |-> {}, chunks |-> <<>>, fresh |-> FALSE]
      /\ index = [exists |-> FALSE, lines |-> <<>>, torn |-> FALSE, whole |-> FALSE, rewrites |-> 0]
      /\ search = [state |-> "idle", pos |-> 0, hits |-> {}, calm |-> FALSE, opened |-> 0]
  BY DEF Index!Init
<1>2. texts \in [Files -> Seq(Letters)] BY <1>1 DEF TextsAreTexts
<1>3. build \in BuildRows BY <1>0, <1>1 DEF BuildRows
<1>4. index \in IndexRows BY <1>0, <1>1 DEF IndexRows
<1>5. search \in SearchRows BY <1>1 DEF SearchRows, SearchStates
<1>6. IndexTypes BY <1>1, <1>2, <1>3, <1>4, <1>5 DEF IndexTypes
<1>7. ~ build.fresh /\ ~ index.whole /\ ~ search.calm /\ build.state = "idle" BY <1>1
<1>8. QED BY <1>6, <1>7 DEF IndexKeeps, BuildKnows, WholeIsDone, SearchKnows

LEMMA PlacesOfSequence ==
    ASSUME NEW S, NEW s \in Seq(S)
    PROVE  DOMAIN s = 1..Len(s)
OBVIOUS

(* The chunks of one more file.                                            *)
LEMMA OneMoreFile ==
    ASSUME SizesAreSound, NEW now \in [Files -> Seq(Letters)], NEW some \in SUBSET Files,
           NEW f \in Files, f \notin some, NEW list \in Seq(ChunkRows), SayNow(list, some, now)
    PROVE  /\ list \o Index!Chunks(f, now[f]) \in Seq(ChunkRows)
           /\ SayNow(list \o Index!Chunks(f, now[f]), some \cup {f}, now)
<1> DEFINE new == Index!Chunks(f, now[f])
<1> DEFINE all == list \o new
<1>1. CutsFrom(new, f, now[f], 0) BY ChunksAreFaithful
<1> HIDE DEF new
<1>2. /\ new \in Seq(ChunkRows)
      /\ \A i \in DOMAIN new : new[i].file = f /\ QuotesText(new[i], now[f])
                               /\ new[i].start \in Nat
      /\ \A i, j \in DOMAIN new : i < j => new[i].start < new[j].start
      /\ \A k \in 1..Len(now[f]) : now[f][k] # " " =>
            \E i \in DOMAIN new : HoldsAt(new[i], k, now[f])
  <2> DEFINE t == now[f]
  <2>0. t \in Seq(Letters) OBVIOUS
  <2> HIDE DEF t
  <2>1. 0 + 1 = 1 /\ Len(t) \in Nat /\ 0..Len(t) \subseteq Nat BY <2>0
  <2>2. CutsFrom(new, f, t, 0) BY <1>1 DEF t
  <2>3. new \in Seq(ChunkRows) BY <2>2 DEF CutsFrom
  <2>4. \A i \in DOMAIN new : new[i].file = f /\ QuotesText(new[i], t) /\ new[i].start \in Nat
    BY <2>1, <2>2 DEF CutsFrom
  <2>5. \A i, j \in DOMAIN new : i < j => new[i].start < new[j].start BY <2>2 DEF CutsFrom
  <2>6. \A k \in 1..Len(t) : t[k] # " " => \E i \in DOMAIN new : HoldsAt(new[i], k, t)
    BY <2>1, <2>2 DEF CutsFrom
  <2>7. QED BY <2>3, <2>4, <2>5, <2>6 DEF t
<1> DEFINE m == Len(list)
<1>3. /\ all \in Seq(ChunkRows) /\ m \in Nat /\ Len(new) \in Nat
      /\ DOMAIN list = 1..m /\ DOMAIN new = 1..Len(new) /\ DOMAIN all = 1..(m + Len(new))
      /\ \A i \in 1..(m + Len(new)) : all[i] = IF i <= m THEN list[i] ELSE new[i - m]
  <2>1. new \in Seq(ChunkRows) BY <1>2
  <2>2. /\ all \in Seq(ChunkRows) /\ Len(all) = Len(list) + Len(new)
        /\ \A i \in 1..(Len(list) + Len(new)) :
              all[i] = IF i <= Len(list) THEN list[i] ELSE new[i - Len(list)]
    BY <2>1, ConcatProperties
  <2> HIDE DEF all
  <2>3. QED BY <2>1, <2>2
<1> HIDE DEF all, m
<1>4. \A i \in DOMAIN list : i \in DOMAIN all /\ all[i] = list[i] BY <1>3
<1>5. ASSUME NEW i \in DOMAIN new PROVE m + i \in DOMAIN all /\ all[m + i] = new[i]
  <2>1. m + i \in 1..(m + Len(new)) /\ ~ (m + i <= m) /\ (m + i) - m = i BY <1>3
  <2>2. QED BY <1>3, <2>1
<1>6. ASSUME NEW i \in DOMAIN all
      PROVE  \/ i \in DOMAIN list /\ all[i] = list[i] /\ i <= m
             \/ i - m \in DOMAIN new /\ all[i] = new[i - m] /\ ~ (i <= m)
  BY <1>3
<1>7. /\ \A g \in some : HoldAll(OfFile(Elements(list), g), now[g])
      /\ \A i \in DOMAIN list : list[i].file \in some /\ QuotesText(list[i], now[list[i].file])
      /\ OneToOne(list)
  BY DEF SayNow
<1>8. Elements(list) \subseteq Elements(all) BY <1>4 DEF Elements
<1>9. \A g \in some : HoldAll(OfFile(Elements(all), g), now[g])
  BY <1>7, <1>8 DEF HoldAll, OfFile
<1>10. HoldAll(OfFile(Elements(all), f), now[f])
  <2> SUFFICES ASSUME NEW k \in DOMAIN now[f], now[f][k] # " "
               PROVE  \E c \in OfFile(Elements(all), f) : HoldsAt(c, k, now[f])
    BY DEF HoldAll
  <2>1. k \in 1..Len(now[f])
    <3>1. now[f] \in Seq(Letters) OBVIOUS
    <3>2. DOMAIN now[f] = 1..Len(now[f]) BY <3>1, PlacesOfSequence
    <3>3. QED BY <3>2
  <2>2. PICK i \in DOMAIN new : HoldsAt(new[i], k, now[f]) BY <1>2, <2>1
  <2>3. new[i] \in Elements(all) BY <1>5 DEF Elements
  <2>4. new[i] \in OfFile(Elements(all), f) BY <1>2, <2>3 DEF OfFile
  <2>5. QED BY <2>2, <2>4
<1>11. ASSUME NEW i \in DOMAIN all
       PROVE  all[i].file \in some \cup {f} /\ QuotesText(all[i], now[all[i].file])
  BY <1>2, <1>6, <1>7
<1>12. ASSUME NEW i \in DOMAIN all, NEW j \in DOMAIN all, all[i] = all[j] PROVE i = j
  <2>1. CASE i <= m /\ j <= m
    <3>1. i \in DOMAIN list /\ j \in DOMAIN list /\ list[i] = list[j] BY <1>6, <1>12, <2>1
    <3>2. QED BY <1>7, <3>1 DEF OneToOne
  <2>2. CASE ~ (i <= m) /\ ~ (j <= m)
    <3>1. i - m \in DOMAIN new /\ j - m \in DOMAIN new /\ new[i - m] = new[j - m]
      BY <1>6, <1>12, <2>2
    <3>2. /\ i - m < j - m => new[i - m].start < new[j - m].start
          /\ j - m < i - m => new[j - m].start < new[i - m].start
          /\ new[i - m].start \in Nat /\ new[j - m].start \in Nat
      BY <1>2, <3>1
    <3>3. new[i - m].start = new[j - m].start BY <3>1
    <3>4. ~ (i - m < j - m) /\ ~ (j - m < i - m) BY <3>2, <3>3
    <3>5. i \in Nat /\ j \in Nat BY <1>3
    <3>6. QED BY <1>3, <3>4, <3>5
  <2>3. CASE i <= m /\ ~ (j <= m)
    <3>1. all[i].file \in some /\ all[j].file = f BY <1>2, <1>6, <1>7, <2>3
    <3>2. QED BY <1>12, <3>1
  <2>4. CASE ~ (i <= m) /\ j <= m
    <3>1. all[j].file \in some /\ all[i].file = f BY <1>2, <1>6, <1>7, <2>4
    <3>2. QED BY <1>12, <3>1
  <2>5. QED BY <2>1, <2>2, <2>3, <2>4
<1>13. SayNow(all, some \cup {f}, now) BY <1>9, <1>10, <1>11, <1>12 DEF SayNow, OneToOne
<1>14. QED BY <1>3, <1>13 DEF all, new

(* What the steps of a search leave alone, and those of a build.            *)
LEMMA BuildStays ==
    ASSUME BuildKnows, WholeIsDone, UNCHANGED <<texts, build, index, vectors>>
    PROVE  BuildKnows' /\ WholeIsDone'
<1>1. texts' = texts /\ build' = build /\ index' = index /\ vectors' = vectors OBVIOUS
<1>2. BuildKnows' BY <1>1 DEF BuildKnows
<1>3. WholeIsDone' BY <1>1 DEF WholeIsDone
<1>4. QED BY <1>2, <1>3

LEMMA SearchStays ==
    ASSUME SearchKnows, UNCHANGED <<index, memory, search>>
    PROVE  SearchKnows'
<1>1. index' = index /\ memory' = memory /\ search' = search OBVIOUS
<1>2. QED BY <1>1 DEF SearchKnows

(* A search goes on with nothing to say of an index that is being written.  *)
LEMMA SearchIsNotCalm ==
    ASSUME SearchKnows, WholeIsDone, build.state = "writes", search \in SearchRows
    PROVE  search.calm = FALSE
<1>1. ~ search.calm BY DEF SearchKnows, WholeIsDone
<1>2. search.calm \in BOOLEAN BY DEF SearchRows
<1>3. QED BY <1>1, <1>2

LEMMA EditKeeps ==
    ASSUME TextsAreTexts, IndexKeeps, NEW f \in Files, NEW text \in Edits, Index!Edit(f, text)
    PROVE  IndexKeeps'
<1>0. /\ IndexTypes /\ BuildKnows /\ WholeIsDone /\ SearchKnows
      /\ texts' = [texts EXCEPT ![f] = text] /\ build' = [build EXCEPT !.fresh = FALSE]
      /\ index' = index /\ vectors' = vectors /\ memory' = memory /\ search' = search
  BY DEF IndexKeeps, Index!Edit
<1>1. text \in Seq(Letters) BY DEF TextsAreTexts
<1>2. texts' \in [Files -> Seq(Letters)] BY <1>0, <1>1 DEF IndexTypes
<1>3. build \in BuildRows BY <1>0 DEF IndexTypes
<1>4. build' \in BuildRows BY <1>0, <1>3 DEF BuildRows
<1>5. build'.fresh = FALSE /\ build'.state = build.state /\ build'.chunks = build.chunks
      /\ build'.into = build.into
  BY <1>0, <1>3 DEF BuildRows
<1>6. IndexTypes' BY <1>0, <1>2, <1>4 DEF IndexTypes
<1>7. BuildKnows' BY <1>5 DEF BuildKnows
<1>8. WholeIsDone' BY <1>0, <1>5 DEF WholeIsDone
<1>9. SearchKnows' BY <1>0, SearchStays
<1>10. QED BY <1>6, <1>7, <1>8, <1>9 DEF IndexKeeps

LEMMA BuildStartsKeeps ==
    ASSUME IndexKeeps, NEW into \in {"file", "store"}, Index!BuildStarts(into)
    PROVE  IndexKeeps'
<1>0. /\ IndexTypes /\ BuildKnows /\ WholeIsDone /\ SearchKnows
      /\ build' = [state |-> "reads", into |-> into, todo |-> Files, chunks |-> <<>>, fresh |-> TRUE]
      /\ texts' = texts /\ index' = index /\ vectors' = vectors /\ memory' = memory
      /\ search' = search
  BY DEF IndexKeeps, Index!BuildStarts
<1>1. <<>> \in Seq(ChunkRows) OBVIOUS
<1>2. build' \in BuildRows BY <1>0, <1>1 DEF BuildRows
<1>3. IndexTypes' BY <1>0, <1>2 DEF IndexTypes
<1>4. build'.state = "reads" /\ build'.todo = Files /\ build'.chunks = <<>> BY <1>0
<1>5. SayNow(<<>>, {}, texts') BY NoElements DEF SayNow, Elements, OneToOne
<1>6. Files \ Files = {} OBVIOUS
<1>7. BuildKnows' BY <1>4, <1>5, <1>6 DEF BuildKnows
<1>8. WholeIsDone' BY <1>0, <1>4 DEF WholeIsDone
<1>9. SearchKnows' BY <1>0, SearchStays
<1>10. QED BY <1>3, <1>7, <1>8, <1>9 DEF IndexKeeps

LEMMA ReadsFileKeeps ==
    ASSUME SizesAreSound, IndexKeeps, NEW f \in Files, NEW readable \in BOOLEAN,
           Index!ReadsFile(f, readable)
    PROVE  IndexKeeps'
<1> DEFINE more == IF readable THEN build.chunks \o Index!Chunks(f, texts[f]) ELSE build.chunks
<1>0. /\ IndexTypes /\ BuildKnows /\ WholeIsDone /\ SearchKnows
      /\ build.state = "reads" /\ f \in build.todo
      /\ build' = [build EXCEPT !.todo = @ \ {f},
                                !.chunks = IF readable THEN @ \o Index!Chunks(f, texts[f]) ELSE @,
                                !.fresh = @ /\ readable]
      /\ texts' = texts /\ index' = index /\ vectors' = vectors /\ memory' = memory
      /\ search' = search
  BY DEF IndexKeeps, Index!ReadsFile
<1>1. build \in BuildRows /\ texts \in [Files -> Seq(Letters)] BY <1>0 DEF IndexTypes
<1>2. build.chunks \in Seq(ChunkRows) /\ build.todo \in SUBSET Files BY <1>1 DEF BuildRows
<1>3. Index!Chunks(f, texts[f]) \in Seq(ChunkRows)
  BY <1>1, ChunksAreFaithful DEF CutsFrom
<1>4. more \in Seq(ChunkRows)
  <2>1. build.chunks \o Index!Chunks(f, texts[f]) \in Seq(ChunkRows)
    BY <1>2, <1>3, ConcatProperties
  <2>2. QED BY <1>2, <2>1
<1>5. build' = [build EXCEPT !.todo = build.todo \ {f}, !.chunks = more,
                             !.fresh = build.fresh /\ readable]
  BY <1>0, Zenon
<1> HIDE DEF more
<1>6. (build.fresh /\ readable) \in BOOLEAN OBVIOUS
<1>7. build' \in BuildRows
  <2> DEFINE both == build.fresh /\ readable
  <2>1. both \in BOOLEAN OBVIOUS
  <2>2. build' = [build EXCEPT !.todo = build.todo \ {f}, !.chunks = more, !.fresh = both]
    BY <1>5
  <2> HIDE DEF both
  <2>3. QED BY <1>1, <1>2, <1>4, <2>1, <2>2 DEF BuildRows
<1>8. /\ build'.state = build.state /\ build'.todo = build.todo \ {f} /\ build'.chunks = more
      /\ build'.fresh => build.fresh /\ readable
  BY <1>1, <1>5 DEF BuildRows
<1>9. IndexTypes' BY <1>0, <1>7 DEF IndexTypes
<1>10. ASSUME build'.fresh PROVE SayNow(build'.chunks, Files \ build'.todo, texts')
  <2>1. SayNow(build.chunks, Files \ build.todo, texts) BY <1>0, <1>8, <1>10 DEF BuildKnows
  <2>2. more = build.chunks \o Index!Chunks(f, texts[f]) BY <1>8, <1>10 DEF more
  <2>3. f \notin Files \ build.todo /\ Files \ build.todo \in SUBSET Files BY <1>0
  <2>4. SayNow(more, (Files \ build.todo) \cup {f}, texts)
    BY <1>1, <1>2, <2>1, <2>2, <2>3, OneMoreFile
  <2>5. (Files \ build.todo) \cup {f} = Files \ (build.todo \ {f}) BY <1>0, <1>2
  <2>6. QED BY <1>0, <1>8, <2>4, <2>5
<1>11. BuildKnows' BY <1>0, <1>8, <1>10 DEF BuildKnows
<1>12. WholeIsDone' BY <1>0, <1>8 DEF WholeIsDone
<1>13. SearchKnows' BY <1>0, SearchStays
<1>14. QED BY <1>9, <1>11, <1>12, <1>13 DEF IndexKeeps

LEMMA UpsertsKeeps ==
    ASSUME IndexKeeps, Index!Upserts
    PROVE  IndexKeeps'
<1>0. /\ IndexTypes /\ BuildKnows /\ WholeIsDone /\ SearchKnows
      /\ build.state = "reads" /\ build.todo = {} /\ build.into = "store"
      /\ vectors' = vectors \cup Index!ToSet(build.chunks)
      /\ build' = [build EXCEPT !.state = "idle"]
      /\ texts' = texts /\ index' = index /\ memory' = memory /\ search' = search
  BY DEF IndexKeeps, Index!Upserts
<1>1. build \in BuildRows /\ vectors \subseteq ChunkRows BY <1>0 DEF IndexTypes
<1>2. Index!ToSet(build.chunks) = Elements(build.chunks) BY DEF Index!ToSet, Elements
<1>3. Elements(build.chunks) \subseteq ChunkRows
  <2>1. build.chunks \in Seq(ChunkRows) BY <1>1 DEF BuildRows
  <2>2. \A i \in DOMAIN build.chunks : build.chunks[i] \in ChunkRows BY <2>1
  <2>3. QED BY <2>2 DEF Elements
<1>4. build' \in BuildRows BY <1>0, <1>1 DEF BuildRows
<1>5. /\ build'.state = "idle" /\ build'.into = "store" /\ build'.fresh = build.fresh
  BY <1>0, <1>1 DEF BuildRows
<1>6. IndexTypes' BY <1>0, <1>1, <1>2, <1>3, <1>4 DEF IndexTypes
<1>7. ASSUME build.fresh, NEW f \in Files PROVE HoldAll(OfFile(vectors', f), texts'[f])
  <2>1. SayNow(build.chunks, Files \ build.todo, texts) BY <1>0, <1>7 DEF BuildKnows
  <2>2. HoldAll(OfFile(Elements(build.chunks), f), texts[f]) BY <1>0, <2>1 DEF SayNow
  <2>3. OfFile(Elements(build.chunks), f) \subseteq OfFile(vectors', f)
    BY <1>0, <1>2 DEF OfFile
  <2>4. QED BY <1>0, <2>2, <2>3 DEF HoldAll
<1>8. BuildKnows' BY <1>5, <1>7 DEF BuildKnows
<1>9. WholeIsDone' BY <1>0, <1>5 DEF WholeIsDone
<1>10. SearchKnows' BY <1>0, SearchStays
<1>11. QED BY <1>6, <1>8, <1>9, <1>10 DEF IndexKeeps

LEMMA OpensKeeps ==
    ASSUME IndexKeeps, Index!Opens
    PROVE  IndexKeeps'
<1>0. /\ IndexTypes /\ BuildKnows /\ WholeIsDone /\ SearchKnows
      /\ build.state = "reads" /\ build.todo = {} /\ build.into = "file"
      /\ index' = [exists |-> TRUE, lines |-> <<>>, torn |-> FALSE, whole |-> FALSE,
                   rewrites |-> index.rewrites + 1]
      /\ search' = [search EXCEPT !.calm = FALSE]
      /\ build' = [build EXCEPT !.state = "writes"]
      /\ texts' = texts /\ vectors' = vectors /\ memory' = memory
  BY DEF IndexKeeps, Index!Opens
<1>1. build \in BuildRows /\ index \in IndexRows /\ search \in SearchRows BY <1>0 DEF IndexTypes
<1>2. build' \in BuildRows BY <1>0, <1>1 DEF BuildRows
<1>3. index' \in IndexRows
  <2>1. index.rewrites + 1 \in Nat BY <1>1 DEF IndexRows
  <2>2. <<>> \in Seq(ChunkRows) OBVIOUS
  <2>3. QED BY <1>0, <2>1, <2>2 DEF IndexRows
<1>4. search' \in SearchRows BY <1>0, <1>1 DEF SearchRows
<1>5. IndexTypes' BY <1>0, <1>2, <1>3, <1>4 DEF IndexTypes
<1>6. /\ build'.state = "writes" /\ build'.chunks = build.chunks /\ build'.fresh = build.fresh
      /\ index'.lines = <<>> /\ index'.exists /\ ~ index'.whole /\ ~ index'.torn /\ ~ search'.calm
      /\ build'.into = "file"
  BY <1>0, <1>1 DEF BuildRows, SearchRows
<1>7. ASSUME build.fresh PROVE SayNow(<<>> \o build.chunks, Files, texts)
  <2>1. SayNow(build.chunks, Files \ build.todo, texts) BY <1>0, <1>7 DEF BuildKnows
  <2>2. Files \ build.todo = Files BY <1>0
  <2>3. build.chunks \in Seq(ChunkRows) BY <1>1 DEF BuildRows
  <2>4. <<>> \o build.chunks = build.chunks BY <2>3, ConcatEmptySeq
  <2>5. QED BY <2>1, <2>2, <2>4
<1>8. BuildKnows' BY <1>0, <1>6, <1>7 DEF BuildKnows
<1>9. WholeIsDone' BY <1>6 DEF WholeIsDone
<1>10. SearchKnows' BY <1>6 DEF SearchKnows
<1>11. QED BY <1>5, <1>8, <1>9, <1>10 DEF IndexKeeps

LEMMA MovesHead ==
    ASSUME NEW S, NEW s \in Seq(S), NEW t \in Seq(S), t # <<>>
    PROVE  /\ Append(s, Head(t)) \in Seq(S) /\ Tail(t) \in Seq(S)
           /\ Append(s, Head(t)) \o Tail(t) = s \o t
<1>1. Head(t) \in S /\ Tail(t) \in Seq(S) BY HeadTailProperties
<1>2. <<Head(t)>> \in Seq(S) BY <1>1
<1>3. Append(s, Head(t)) \in Seq(S) BY <1>1
<1>4. Append(s, Head(t)) = s \o <<Head(t)>> BY <1>1, AppendIsConcat
<1>5. <<Head(t)>> \o Tail(t) = t
  <2> DEFINE one == <<Head(t)>>
  <2> DEFINE rest == Tail(t)
  <2> DEFINE both == one \o rest
  <2>1. /\ Len(one) = 1 /\ one[1] = t[1] /\ one \in Seq(S) /\ rest \in Seq(S)
        /\ Len(rest) = Len(t) - 1 /\ Len(t) \in Nat \ {0}
        /\ \A i \in 1..Len(rest) : rest[i] = t[i + 1]
    BY <1>1, <1>2, HeadTailProperties
  <2> HIDE DEF one, rest
  <2>2. /\ both \in Seq(S) /\ Len(both) = Len(one) + Len(rest)
        /\ \A i \in 1..(Len(one) + Len(rest)) :
              both[i] = IF i <= Len(one) THEN one[i] ELSE rest[i - Len(one)]
    BY <2>1, ConcatProperties
  <2> HIDE DEF both
  <2>3. Len(both) = Len(t) BY <2>1, <2>2
  <2>4. ASSUME NEW i \in 1..Len(t) PROVE both[i] = t[i]
    <3>1. both[i] = IF i <= 1 THEN one[i] ELSE rest[i - 1] BY <2>1, <2>2
    <3>2. CASE i = 1 BY <2>1, <3>1, <3>2
    <3>3. CASE i # 1
      <4>1. i - 1 \in 1..Len(rest) /\ (i - 1) + 1 = i /\ ~ (i <= 1) BY <2>1, <3>3
      <4>2. QED BY <2>1, <3>1, <4>1
    <3>4. QED BY <3>2, <3>3
  <2>5. both = t BY <2>2, <2>3, <2>4, SeqEqual
  <2>6. QED BY <2>5 DEF both, one, rest
<1>6. (s \o <<Head(t)>>) \o Tail(t) = s \o (<<Head(t)>> \o Tail(t))
  BY <1>1, <1>2, ConcatAssociative
<1>7. QED BY <1>1, <1>3, <1>4, <1>5, <1>6

LEMMA FlushesKeeps ==
    ASSUME IndexKeeps, NEW torn \in BOOLEAN, Index!Flushes(torn)
    PROVE  IndexKeeps'
<1>0. /\ IndexTypes /\ BuildKnows /\ WholeIsDone /\ SearchKnows
      /\ build.state = "writes" /\ build.chunks # <<>>
      /\ IF torn THEN index' = [index EXCEPT !.torn = TRUE] /\ UNCHANGED build
         ELSE /\ index' = [index EXCEPT !.lines = Append(@, Head(build.chunks)), !.torn = FALSE]
              /\ build' = [build EXCEPT !.chunks = Tail(@)]
      /\ texts' = texts /\ vectors' = vectors /\ memory' = memory /\ search' = search
  BY DEF IndexKeeps, Index!Flushes
<1>1. build \in BuildRows /\ index \in IndexRows /\ search \in SearchRows BY <1>0 DEF IndexTypes
<1>2. search'.calm = FALSE BY <1>0, <1>1, SearchIsNotCalm
<1>3. SearchKnows' BY <1>2 DEF SearchKnows
<1>4. build.chunks \in Seq(ChunkRows) /\ index.lines \in Seq(ChunkRows)
  BY <1>1 DEF BuildRows, IndexRows
<1>5. CASE torn
  <2>1. index' = [index EXCEPT !.torn = TRUE] /\ build' = build BY <1>0, <1>5
  <2>2. index' \in IndexRows BY <1>1, <2>1 DEF IndexRows
  <2>3. index'.lines = index.lines /\ index'.whole = index.whole /\ index'.exists = index.exists
    BY <1>1, <2>1 DEF IndexRows
  <2>4. IndexTypes' BY <1>0, <2>1, <2>2 DEF IndexTypes
  <2>5. BuildKnows' BY <1>0, <2>1, <2>3 DEF BuildKnows
  <2>6. WholeIsDone' BY <1>0, <2>1, <2>3 DEF WholeIsDone
  <2>7. QED BY <1>3, <2>4, <2>5, <2>6 DEF IndexKeeps
<1>6. CASE ~ torn
  <2> DEFINE lines == Append(index.lines, Head(build.chunks))
  <2> DEFINE rest == Tail(build.chunks)
  <2>1. lines \in Seq(ChunkRows) /\ rest \in Seq(ChunkRows)
        /\ lines \o rest = index.lines \o build.chunks
    <3> DEFINE old == index.lines
    <3> DEFINE ahead == build.chunks
    <3>1. old \in Seq(ChunkRows) /\ ahead \in Seq(ChunkRows) /\ ahead # <<>> BY <1>0, <1>4
    <3> HIDE DEF old, ahead
    <3>2. /\ Append(old, Head(ahead)) \in Seq(ChunkRows) /\ Tail(ahead) \in Seq(ChunkRows)
          /\ Append(old, Head(ahead)) \o Tail(ahead) = old \o ahead
      BY <3>1, MovesHead
    <3>3. QED BY <3>2 DEF old, ahead
  <2>2. index' = [index EXCEPT !.lines = lines, !.torn = FALSE]
        /\ build' = [build EXCEPT !.chunks = rest]
    BY <1>0, <1>6, Zenon
  <2> HIDE DEF lines, rest
  <2>3. index' \in IndexRows BY <1>1, <2>1, <2>2 DEF IndexRows
  <2>4. build' \in BuildRows BY <1>1, <2>1, <2>2 DEF BuildRows
  <2>5. /\ index'.lines = lines /\ index'.whole = index.whole /\ index'.exists = index.exists
        /\ index'.torn = FALSE
    BY <1>1, <2>2 DEF IndexRows
  <2>6. build'.chunks = rest /\ build'.state = build.state /\ build'.fresh = build.fresh
        /\ build'.into = build.into
    BY <1>1, <2>2 DEF BuildRows
  <2>7. IndexTypes' BY <1>0, <2>3, <2>4 DEF IndexTypes
  <2>8. BuildKnows' BY <1>0, <2>1, <2>5, <2>6 DEF BuildKnows
  <2>9. WholeIsDone' BY <1>0, <2>5, <2>6 DEF WholeIsDone
  <2>10. QED BY <1>3, <2>7, <2>8, <2>9 DEF IndexKeeps
<1>7. QED BY <1>5, <1>6

LEMMA ClosesKeeps ==
    ASSUME IndexKeeps, Index!Closes
    PROVE  IndexKeeps'
<1>0. /\ IndexTypes /\ BuildKnows /\ WholeIsDone /\ SearchKnows
      /\ build.state = "writes" /\ build.chunks = <<>>
      /\ index' = [index EXCEPT !.whole = TRUE] /\ build' = [build EXCEPT !.state = "idle"]
      /\ texts' = texts /\ vectors' = vectors /\ memory' = memory /\ search' = search
  BY DEF IndexKeeps, Index!Closes
<1>1. build \in BuildRows /\ index \in IndexRows /\ search \in SearchRows BY <1>0 DEF IndexTypes
<1>2. search'.calm = FALSE BY <1>0, <1>1, SearchIsNotCalm
<1>3. SearchKnows' BY <1>2 DEF SearchKnows
<1>4. index' \in IndexRows /\ build' \in BuildRows BY <1>0, <1>1 DEF IndexRows, BuildRows
<1>5. /\ index'.lines = index.lines /\ index'.exists = index.exists /\ index'.torn = index.torn
      /\ build'.state = "idle" /\ build'.into = build.into /\ build'.fresh = build.fresh
  BY <1>0, <1>1 DEF IndexRows, BuildRows
<1>6. IndexTypes' BY <1>0, <1>4 DEF IndexTypes
<1>7. WholeIsDone' BY <1>0, <1>5 DEF WholeIsDone
<1>8. ASSUME build.fresh PROVE SayNow(index.lines, Files, texts)
  <2>1. SayNow(index.lines \o build.chunks, Files, texts) BY <1>0, <1>8 DEF BuildKnows
  <2>2. index.lines \in Seq(ChunkRows) BY <1>1 DEF IndexRows
  <2>3. index.lines \o <<>> = index.lines BY <2>2, ConcatEmptySeq
  <2>4. QED BY <1>0, <2>1, <2>3
<1>9. build.into = "file" BY <1>0 DEF WholeIsDone
<1>10. BuildKnows' BY <1>0, <1>5, <1>8, <1>9 DEF BuildKnows
<1>11. QED BY <1>3, <1>6, <1>7, <1>10 DEF IndexKeeps

LEMMA BuildDiesKeeps ==
    ASSUME IndexKeeps, Index!BuildDies
    PROVE  IndexKeeps'
<1>0. /\ IndexTypes /\ BuildKnows /\ WholeIsDone /\ SearchKnows
      /\ build' = [build EXCEPT !.state = "idle", !.chunks = <<>>, !.fresh = FALSE]
      /\ texts' = texts /\ index' = index /\ vectors' = vectors /\ memory' = memory
      /\ search' = search
  BY DEF IndexKeeps, Index!BuildDies
<1>1. build \in BuildRows BY <1>0 DEF IndexTypes
<1>2. <<>> \in Seq(ChunkRows) OBVIOUS
<1>3. build' \in BuildRows BY <1>0, <1>1, <1>2 DEF BuildRows
<1>4. build'.fresh = FALSE /\ build'.state = "idle" BY <1>0, <1>1 DEF BuildRows
<1>5. IndexTypes' BY <1>0, <1>3 DEF IndexTypes
<1>6. BuildKnows' BY <1>4 DEF BuildKnows
<1>7. WholeIsDone' BY <1>0, <1>4 DEF WholeIsDone
<1>8. SearchKnows' BY <1>0, SearchStays
<1>9. QED BY <1>5, <1>6, <1>7, <1>8 DEF IndexKeeps

(* The lines that match, up to one more.                                   *)
LEMMA OneMoreLine ==
    ASSUME NEW list, NEW n \in Nat
    PROVE  Matching(list, n + 1)
             = IF Index!Matches(list[n + 1].text) THEN Matching(list, n) \cup {list[n + 1]}
               ELSE Matching(list, n)
<1>1. 1..(n + 1) = (1..n) \cup {n + 1} OBVIOUS
<1>2. QED BY <1>1 DEF Matching

LEMMA SearchStartsKeeps ==
    ASSUME IndexKeeps, Index!SearchStarts
    PROVE  IndexKeeps'
<1>0. /\ IndexTypes /\ BuildKnows /\ WholeIsDone /\ SearchKnows
      /\ search' = [state |-> IF index.exists THEN "reads" ELSE "falls back", pos |-> 0,
                    hits |-> {}, calm |-> index.whole, opened |-> index.rewrites]
      /\ UNCHANGED <<texts, build, index, vectors, memory>>
  BY DEF IndexKeeps, Index!SearchStarts
<1>1. index \in IndexRows BY <1>0 DEF IndexTypes
<1>2. search' \in SearchRows
  <2>1. index.whole \in BOOLEAN /\ index.rewrites \in Nat BY <1>1 DEF IndexRows
  <2> DEFINE state == IF index.exists THEN "reads" ELSE "falls back"
  <2>2. state \in SearchStates BY DEF SearchStates
  <2> HIDE DEF state
  <2>3. search' = [state |-> state, pos |-> 0, hits |-> {}, calm |-> index.whole,
                   opened |-> index.rewrites]
    BY <1>0 DEF state
  <2>4. QED BY <2>1, <2>2, <2>3 DEF SearchRows
<1>3. IndexTypes' BY <1>0, <1>2 DEF IndexTypes
<1>4. BuildKnows' /\ WholeIsDone' BY <1>0, BuildStays
<1>5. SearchKnows'
  <2>1. SUFFICES ASSUME index.whole PROVE SearchKnows'
    <3>1. search'.calm = index.whole BY <1>0
    <3>2. QED BY <2>1, <3>1 DEF SearchKnows
  <2>2. index.exists BY <1>0, <2>1 DEF WholeIsDone
  <2>3. search'.state = "reads" /\ search'.pos = 0 /\ search'.hits = {}
        /\ search'.opened = index.rewrites
    BY <1>0, <2>2
  <2>4. Matching(index.lines, 0) = {} BY DEF Matching
  <2>5. 0 <= Len(index.lines)
    <3>1. index.lines \in Seq(ChunkRows) BY <1>1 DEF IndexRows
    <3>2. QED BY <3>1
  <2>6. "reads" \notin Index!Answered \cup {"falls back"} BY DEF Index!Answered
  <2>7. index' = index BY <1>0
  <2>8. QED BY <2>1, <2>3, <2>4, <2>5, <2>6, <2>7 DEF SearchKnows, Index!Answered
<1>6. QED BY <1>3, <1>4, <1>5 DEF IndexKeeps

LEMMA ReadsLineKeeps ==
    ASSUME IndexKeeps, NEW lost \in BOOLEAN, Index!ReadsLine(lost)
    PROVE  IndexKeeps'
<1> DEFINE n == search.pos
<1> DEFINE lines == index.lines
<1> DEFINE torn == lost \/ (n >= Len(lines) /\ index.torn)
<1> DEFINE ended == [search EXCEPT !.state = IF search.hits # {} THEN "hits" ELSE "falls back"]
<1> DEFINE found == IF Index!Matches(lines[n + 1].text) THEN search.hits \cup {lines[n + 1]}
                    ELSE search.hits
<1>0. /\ IndexTypes /\ BuildKnows /\ WholeIsDone /\ SearchKnows
      /\ search.state = "reads" /\ (lost => search.opened # index.rewrites)
      /\ UNCHANGED <<texts, build, index, vectors, memory>>
  BY DEF IndexKeeps, Index!ReadsLine
<1>1. /\ torn => search' = [search EXCEPT !.state = "failed"]
      /\ ~ torn /\ n >= Len(lines) => search' = ended
      /\ ~ torn /\ ~ (n >= Len(lines)) =>
            search' = [search EXCEPT !.pos = n + 1, !.hits = found]
  BY Zenon DEF Index!ReadsLine
<1>2. /\ index \in IndexRows /\ search \in SearchRows BY <1>0 DEF IndexTypes
<1>3. /\ lines \in Seq(ChunkRows) /\ Len(lines) \in Nat /\ n \in Nat
      /\ search.hits \in SUBSET ChunkRows /\ search.calm \in BOOLEAN
  BY <1>2 DEF IndexRows, SearchRows
<1>4. BuildKnows' /\ WholeIsDone' BY <1>0, BuildStays
<1>5. /\ "failed" \in SearchStates /\ "hits" \in SearchStates /\ "falls back" \in SearchStates
  BY DEF SearchStates, Index!Answered
<1>6. index' = index /\ memory' = memory BY <1>0
<1>7. search.calm => /\ index.whole /\ search.opened = index.rewrites
                     /\ n <= Len(lines) /\ search.hits = Matching(lines, n)
  BY <1>0 DEF SearchKnows
<1>8. search.calm => ~ torn
  <2>1. search.calm => ~ lost /\ ~ index.torn BY <1>0, <1>7 DEF WholeIsDone
  <2>2. QED BY <2>1
<1> HIDE DEF torn
<1>9. CASE torn
  <2>1. search' = [search EXCEPT !.state = "failed"] BY <1>1, <1>9
  <2>2. search' \in SearchRows BY <1>2, <1>5, <2>1 DEF SearchRows
  <2>3. search'.calm = search.calm BY <1>2, <2>1 DEF SearchRows
  <2>4. IndexTypes' BY <1>0, <2>2 DEF IndexTypes
  <2>5. SearchKnows' BY <1>8, <1>9, <2>3 DEF SearchKnows
  <2>6. QED BY <1>4, <2>4, <2>5 DEF IndexKeeps
<1>10. CASE ~ torn /\ n >= Len(lines)
  <2> DEFINE state == IF search.hits # {} THEN "hits" ELSE "falls back"
  <2>1. search' = [search EXCEPT !.state = state] BY <1>1, <1>10
  <2>2. state \in SearchStates BY <1>5
  <2>3. /\ search.hits # {} => state = "hits"
        /\ search.hits = {} => state = "falls back"
    OBVIOUS
  <2> HIDE DEF state
  <2>4. search' \in SearchRows BY <1>2, <2>1, <2>2 DEF SearchRows
  <2>5. /\ search'.calm = search.calm /\ search'.state = state /\ search'.hits = search.hits
        /\ search'.opened = search.opened
    BY <1>2, <2>1 DEF SearchRows
  <2>6. IndexTypes' BY <1>0, <2>4 DEF IndexTypes
  <2>7. ASSUME search.calm PROVE search.hits = Matching(lines, Len(lines))
    <3>1. n = Len(lines) BY <1>3, <1>7, <1>10, <2>7
    <3>2. QED BY <1>7, <2>7, <3>1
  <2>8. SearchKnows'
    <3>1. state # "reads" /\ state # "failed" BY <2>3
    <3>2. QED BY <1>6, <1>7, <2>3, <2>5, <2>7, <3>1 DEF SearchKnows
  <2>9. QED BY <1>4, <2>6, <2>8 DEF IndexKeeps
<1>11. CASE ~ torn /\ ~ (n >= Len(lines))
  <2>1. search' = [search EXCEPT !.pos = n + 1, !.hits = found] BY <1>1, <1>11
  <2>2. n + 1 \in 1..Len(lines) BY <1>3, <1>11
  <2>3. lines[n + 1] \in ChunkRows BY <1>3, <2>2
  <2>4. found \in SUBSET ChunkRows BY <1>3, <2>3
  <2>5. Matching(lines, n + 1)
          = IF Index!Matches(lines[n + 1].text) THEN Matching(lines, n) \cup {lines[n + 1]}
            ELSE Matching(lines, n)
    <3>1. n \in Nat BY <1>3
    <3> HIDE DEF n, lines
    <3>2. QED BY <3>1, OneMoreLine
  <2>6. search.calm => found = Matching(lines, n + 1)
    <3>1. SUFFICES ASSUME search.calm PROVE found = Matching(lines, n + 1) OBVIOUS
    <3>2. search.hits = Matching(lines, n) BY <1>7, <3>1
    <3> DEFINE hit == Index!Matches(lines[n + 1].text)
    <3> DEFINE line == lines[n + 1]
    <3>3. found = IF hit THEN search.hits \cup {line} ELSE search.hits OBVIOUS
    <3>4. Matching(lines, n + 1)
            = IF hit THEN Matching(lines, n) \cup {line} ELSE Matching(lines, n)
      BY <2>5
    <3> HIDE DEF found, hit, line
    <3>5. QED BY <3>2, <3>3, <3>4
  <2> HIDE DEF found
  <2>7. search' \in SearchRows
    <3> DEFINE next == n + 1
    <3>1. next \in Nat BY <1>3
    <3>2. search' = [search EXCEPT !.pos = next, !.hits = found] BY <2>1
    <3> HIDE DEF next
    <3>3. QED BY <1>2, <2>4, <3>1, <3>2 DEF SearchRows
  <2>8. /\ search'.calm = search.calm /\ search'.state = "reads" /\ search'.hits = found
        /\ search'.opened = search.opened /\ search'.pos = n + 1
    BY <1>0, <1>2, <2>1 DEF SearchRows
  <2>9. IndexTypes' BY <1>0, <2>7 DEF IndexTypes
  <2>10. n + 1 <= Len(lines) BY <2>2
  <2>11. SearchKnows' BY <1>6, <1>7, <2>6, <2>8, <2>10 DEF SearchKnows, Index!Answered
  <2>12. QED BY <1>4, <2>9, <2>11 DEF IndexKeeps
<1>12. QED BY <1>9, <1>10, <1>11

LEMMA FallsBackKeeps ==
    ASSUME IndexKeeps, Index!FallsBack
    PROVE  IndexKeeps'
<1> DEFINE state == CASE memory = "absent" -> IF index.exists THEN "no evidence" ELSE "blocked"
                      [] memory = "broken" -> "failed"
                      [] memory = "answers" -> "memory hits"
                      [] OTHER -> "no evidence"
<1>0. /\ IndexTypes /\ BuildKnows /\ WholeIsDone /\ SearchKnows
      /\ search.state = "falls back" /\ search' = [search EXCEPT !.state = state]
      /\ UNCHANGED <<texts, build, index, vectors, memory>>
  BY DEF IndexKeeps, Index!FallsBack
<1>1. search \in SearchRows BY <1>0 DEF IndexTypes
<1>2. /\ state \in {"no evidence", "blocked", "failed", "memory hits"}
      /\ state = "failed" => memory = "broken"
  OBVIOUS
<1> HIDE DEF state
<1>3. state \in SearchStates BY <1>2 DEF SearchStates, Index!Answered
<1>4. search' \in SearchRows BY <1>0, <1>1, <1>3 DEF SearchRows
<1>5. /\ search'.calm = search.calm /\ search'.state = state /\ search'.opened = search.opened
  BY <1>0, <1>1 DEF SearchRows
<1>6. IndexTypes' BY <1>0, <1>4 DEF IndexTypes
<1>7. BuildKnows' /\ WholeIsDone' BY <1>0, BuildStays
<1>8. index' = index /\ memory' = memory BY <1>0
<1>9. search.calm => /\ index.whole /\ search.opened = index.rewrites
                     /\ Matching(index.lines, Len(index.lines)) = {}
  BY <1>0 DEF SearchKnows
<1>10. state # "reads" /\ state # "hits" BY <1>2
<1>11. SearchKnows' BY <1>2, <1>5, <1>8, <1>9, <1>10 DEF SearchKnows
<1>12. QED BY <1>6, <1>7, <1>11 DEF IndexKeeps

LEMMA SearchEndsKeeps ==
    ASSUME IndexKeeps, Index!SearchEnds
    PROVE  IndexKeeps'
<1>0. /\ IndexTypes /\ BuildKnows /\ WholeIsDone /\ SearchKnows
      /\ search' = [search EXCEPT !.state = "idle", !.hits = {}, !.pos = 0]
      /\ UNCHANGED <<texts, build, index, vectors, memory>>
  BY DEF IndexKeeps, Index!SearchEnds
<1>1. search \in SearchRows BY <1>0 DEF IndexTypes
<1>2. search' \in SearchRows
  <2>1. "idle" \in SearchStates BY DEF SearchStates
  <2>2. QED BY <1>0, <1>1, <2>1 DEF SearchRows
<1>3. /\ search'.calm = search.calm /\ search'.state = "idle" /\ search'.opened = search.opened
  BY <1>0, <1>1 DEF SearchRows
<1>4. IndexTypes' BY <1>0, <1>2 DEF IndexTypes
<1>5. BuildKnows' /\ WholeIsDone' BY <1>0, BuildStays
<1>6. index' = index /\ memory' = memory BY <1>0
<1>7. SearchKnows' BY <1>0, <1>3, <1>6 DEF SearchKnows, Index!Answered
<1>8. QED BY <1>4, <1>5, <1>7 DEF IndexKeeps

LEMMA IndexStep ==
    ASSUME SizesAreSound, TextsAreTexts
    PROVE  IndexKeeps /\ [Index!Next]_Index!vars => IndexKeeps'
<1> SUFFICES ASSUME IndexKeeps, [Index!Next]_Index!vars PROVE IndexKeeps'
  OBVIOUS
<1>1. ASSUME NEW f \in Files, NEW text \in Edits, Index!Edit(f, text) PROVE IndexKeeps'
  BY <1>1, EditKeeps
<1>2. ASSUME NEW f \in Files, NEW b \in BOOLEAN, Index!ReadsFile(f, b) PROVE IndexKeeps'
  BY <1>2, ReadsFileKeeps
<1>3. ASSUME NEW into \in {"file", "store"}, Index!BuildStarts(into) PROVE IndexKeeps'
  BY <1>3, BuildStartsKeeps
<1>4. ASSUME NEW b \in BOOLEAN, Index!Flushes(b) PROVE IndexKeeps' BY <1>4, FlushesKeeps
<1>5. ASSUME NEW b \in BOOLEAN, Index!ReadsLine(b) PROVE IndexKeeps' BY <1>5, ReadsLineKeeps
<1>6. CASE Index!Upserts BY <1>6, UpsertsKeeps
<1>7. CASE Index!Opens BY <1>7, OpensKeeps
<1>8. CASE Index!Closes BY <1>8, ClosesKeeps
<1>9. CASE Index!BuildDies BY <1>9, BuildDiesKeeps
<1>10. CASE Index!SearchStarts BY <1>10, SearchStartsKeeps
<1>11. CASE Index!FallsBack BY <1>11, FallsBackKeeps
<1>12. CASE Index!SearchEnds BY <1>12, SearchEndsKeeps
<1>13. CASE UNCHANGED Index!vars
  <2>1. UNCHANGED <<texts, build, index, vectors, memory, search>> BY <1>13 DEF Index!vars
  <2>2. IndexTypes' BY <2>1 DEF IndexKeeps, IndexTypes
  <2>3. BuildKnows' /\ WholeIsDone' BY <2>1, BuildStays DEF IndexKeeps
  <2>4. SearchKnows' BY <2>1, SearchStays DEF IndexKeeps
  <2>5. QED BY <2>2, <2>3, <2>4 DEF IndexKeeps
<1>14. QED
  BY <1>1, <1>2, <1>3, <1>4, <1>5, <1>6, <1>7, <1>8, <1>9, <1>10, <1>11, <1>12, <1>13
     DEF Index!Next

(* The index of a workspace (index_workspace, knowledge_search), for every   *)
(* text and every sound chunk size: an index whose build nothing overtook  *)
(* holds every word of the files once and nothing they do not say, and a   *)
(* search that no rebuild wrote into has found all there is to find.       *)
THEOREM IndexStaysFaithful ==
    ASSUME SizesAreSound, TextsAreTexts
    PROVE  Index!Spec => []Index!IndexIsFaithful
<1>1. Index!Init => IndexKeeps BY IndexInit
<1>2. IndexKeeps /\ [Index!Next]_Index!vars => IndexKeeps' BY IndexStep
<1>3. ASSUME IndexKeeps PROVE Index!IndexIsFaithful
  <2>0. IndexTypes /\ BuildKnows /\ WholeIsDone /\ SearchKnows BY <1>3 DEF IndexKeeps
  <2>1. Index!ToSet(index.lines) = Elements(index.lines) BY DEF Index!ToSet, Elements
  <2>2. ASSUME NEW chunks, NEW f \in Files, HoldAll(OfFile(chunks, f), texts[f])
        PROVE  Index!Covers(chunks, f)
    BY <2>2 DEF Index!Covers, HoldAll, OfFile, HoldsAt
  <2>3. ASSUME build.state = "idle", build.fresh, build.into = "file"
        PROVE  /\ \A f \in Files : Index!Covers(Elements(index.lines), f)
               /\ \A c \in Elements(index.lines) : Index!Quotes(c)
               /\ Index!IsInjective(index.lines)
    <3>1. SayNow(index.lines, Files, texts) BY <2>0, <2>3 DEF BuildKnows
    <3>2. \A f \in Files : Index!Covers(Elements(index.lines), f) BY <2>2, <3>1 DEF SayNow
    <3>3. \A c \in Elements(index.lines) : Index!Quotes(c)
      BY <3>1 DEF SayNow, Elements, QuotesText, Index!Quotes
    <3>4. Index!IsInjective(index.lines) BY <3>1 DEF SayNow, OneToOne, Index!IsInjective
    <3>5. QED BY <3>2, <3>3, <3>4
  <2>4. ASSUME build.state = "idle", build.fresh, build.into = "store"
        PROVE  \A f \in Files : Index!Covers(vectors, f)
    BY <2>0, <2>2, <2>4 DEF BuildKnows
  <2>5. {c \in Elements(index.lines) : Index!Matches(c.text)}
           = Matching(index.lines, Len(index.lines))
    <3>1. index.lines \in Seq(ChunkRows) BY <2>0 DEF IndexTypes, IndexRows
    <3>2. DOMAIN index.lines = 1..Len(index.lines) BY <3>1
    <3>3. QED BY <3>2 DEF Elements, Matching
  <2>6. ASSUME search.calm, search.state \in Index!Answered
        PROVE  /\ search.state = "hits" => search.hits = Matching(index.lines, Len(index.lines))
               /\ search.state # "hits" => Matching(index.lines, Len(index.lines)) = {}
               /\ search.state = "failed" => memory = "broken"
    BY <2>0, <2>6 DEF SearchKnows
  <2>7. QED BY <2>1, <2>3, <2>4, <2>5, <2>6 DEF Index!IndexIsFaithful
<1>4. QED BY <1>1, <1>2, <1>3, PTL DEF Index!Spec

-----------------------------------------------------------------------------
(* The events of a run.  The stream holds the last of its entries, numbered *)
(* without a gap; a link carries, in their order, entries its client has    *)
(* not handled, and what it does not carry up to the generator's position  *)
(* was skipped.                                                            *)
Entries == [id : 1..MaxEvents, ends : BOOLEAN]

LogIsNumbered ==
    /\ Len(log) <= lastId
    /\ \A k \in 1..Len(log) : log[k].id = (lastId - Len(log)) + k

Carries(way, n) == \E i \in 1..Len(way) : way[i].id = n
InOrder(way, from, to) ==
    /\ \A i \in 1..Len(way) : from < way[i].id /\ way[i].id <= to
    /\ \A i, j \in 1..Len(way) : i < j => way[i].id < way[j].id

LinkIsSound(state, from, to, way, lost, last) ==
    /\ from <= last /\ to <= last
    /\ state = "off" => way = <<>>
    /\ state = "open" =>
          /\ from <= to /\ InOrder(way, from, to)
          /\ \A n \in (from + 1)..to : n \in lost \/ Carries(way, n)

StreamKeeps ==
    /\ Stream!TypeOK /\ LogIsNumbered
    /\ \A c \in Stream!Clients :
          LinkIsSound(link[c], got[c], cursor[c], wire[c], skipped[c], lastId)

LEMMA TypesOfLinks ==
    ASSUME StreamIsFinite, Stream!TypeOK, NEW c \in Stream!Clients
    PROVE  /\ MaxEvents \in Nat /\ log \in Seq(Entries) /\ lastId \in 0..MaxEvents
           /\ wire[c] \in Seq(Entries) /\ skipped[c] \in SUBSET (1..MaxEvents)
           /\ cursor[c] \in 0..MaxEvents /\ got[c] \in 0..MaxEvents
<1>1. MaxEvents \in Nat BY DEF StreamIsFinite
<1>2. log \in Seq(Entries) /\ wire \in [Stream!Clients -> Seq(Entries)]
  BY DEF Stream!TypeOK, Entries
<1>3. /\ lastId \in 0..MaxEvents /\ cursor \in [Stream!Clients -> 0..MaxEvents]
      /\ got \in [Stream!Clients -> 0..MaxEvents]
      /\ skipped \in [Stream!Clients -> SUBSET (1..MaxEvents)]
  BY DEF Stream!TypeOK
<1>4. QED BY <1>1, <1>2, <1>3

LEMMA StreamInit == StreamIsFinite /\ Stream!Init => StreamKeeps
<1> SUFFICES ASSUME StreamIsFinite, Stream!Init PROVE StreamKeeps
  OBVIOUS
<1>1. Stream!TypeOK
  <2>1. 0 \in 0..MaxEvents /\ 0 \in 0..MaxLinkRetries BY DEF StreamIsFinite
  <2>2. <<>> \in Seq([id : 1..MaxEvents, ends : BOOLEAN]) OBVIOUS
  <2>3. {} \in SUBSET (1..MaxEvents) OBVIOUS
  <2>4. /\ log \in Seq([id : 1..MaxEvents, ends : BOOLEAN]) /\ lastId \in 0..MaxEvents
        /\ link \in [Stream!Clients -> {"off", "open", "done"}]
        /\ stage \in {"queued", "running", "finished", "committed", "persisted"}
    BY <2>1, <2>2 DEF Stream!Init
  <2>5. /\ cursor \in [Stream!Clients -> 0..MaxEvents] /\ got \in [Stream!Clients -> 0..MaxEvents]
        /\ failures \in [Stream!Clients -> 0..MaxLinkRetries]
    BY <2>1 DEF Stream!Init
  <2>6. /\ wire \in [Stream!Clients -> Seq([id : 1..MaxEvents, ends : BOOLEAN])]
        /\ skipped \in [Stream!Clients -> SUBSET (1..MaxEvents)] /\ unanswered \in BOOLEAN
    BY <2>2, <2>3 DEF Stream!Init
  <2>7. QED BY <2>4, <2>5, <2>6 DEF Stream!TypeOK
<1>2. LogIsNumbered BY DEF LogIsNumbered, Stream!Init
<1>3. ASSUME NEW c \in Stream!Clients
      PROVE  LinkIsSound(link[c], got[c], cursor[c], wire[c], skipped[c], lastId)
  BY DEF LinkIsSound, Stream!Init
<1>4. QED BY <1>1, <1>2, <1>3 DEF StreamKeeps

(* A read: the entries after a position, in the stream's order.             *)
LEMMA AfterIsNext ==
    ASSUME StreamIsFinite, Stream!TypeOK, LogIsNumbered, NEW id \in Nat
    PROVE  \E seen, to \in 0..Len(log) :
               /\ seen <= to
               /\ Stream!After(id) = SubSeq(log, seen + 1, to)
               /\ \A k \in 1..Len(log) : log[k].id <= id <=> k <= seen
<1> DEFINE earlier == {i \in 1..Len(log) : log[i].id <= id}
<1> DEFINE seen == IF earlier # {} THEN Stream!Max(earlier) ELSE 0
<1> DEFINE to == Stream!Min({seen + ReadCount, Len(log)})
<1>1. log \in Seq(Entries) /\ lastId \in Nat /\ Len(log) \in Nat
  BY DEF Stream!TypeOK, Entries, StreamIsFinite
<1>2. Stream!SelectLastInSeq(log, LAMBDA e : e.id <= id) = seen
  BY DEF Stream!SelectLastInSeq
<1>3. Stream!After(id) = SubSeq(log, seen + 1, to) BY <1>2 DEF Stream!After
<1>4. seen \in 0..Len(log) /\ \A k \in 1..Len(log) : log[k].id <= id <=> k <= seen
  <2>1. CASE earlier = {} BY <1>1, <2>1
  <2>2. CASE earlier # {}
    <3> DEFINE top == IF id - (lastId - Len(log)) <= Len(log) THEN id - (lastId - Len(log)) ELSE Len(log)
    <3>1. \A i \in 1..Len(log) : i \in earlier <=> i <= top BY <1>1 DEF LogIsNumbered
    <3>2. top \in earlier BY <1>1, <2>2, <3>1
    <3> HIDE DEF top, earlier
    <3>3. \A i \in earlier : i \in 1..Len(log) BY DEF earlier
    <3>4. \A i \in earlier : top >= i BY <3>1, <3>3
    <3>5. Stream!Max(earlier) \in earlier /\ \A i \in earlier : Stream!Max(earlier) >= i
      BY <3>2, <3>4 DEF Stream!Max
    <3>6. seen = top
      <4>1. Stream!Max(earlier) = top BY <1>1, <3>2, <3>3, <3>4, <3>5
      <4>2. QED BY <2>2, <4>1
    <3>7. seen \in 1..Len(log) BY <3>2, <3>3, <3>6
    <3>8. ASSUME NEW k \in 1..Len(log) PROVE log[k].id <= id <=> k <= seen
      <4>1. log[k].id <= id <=> k \in earlier BY DEF earlier
      <4>2. QED BY <3>1, <3>6, <4>1
    <3>9. QED BY <1>1, <3>7, <3>8
  <2>3. QED BY <2>1, <2>2
<1> HIDE DEF seen
<1>5. to \in 0..Len(log) /\ seen <= to
  <2> DEFINE ends == {seen + ReadCount, Len(log)}
  <2>1. \A a, b \in Int : a <= b \/ b <= a OBVIOUS
  <2>2. seen + ReadCount \in Int /\ Len(log) \in Int BY <1>1, <1>4 DEF StreamIsFinite
  <2>3. \E x \in ends : \A y \in ends : x =< y BY <2>1, <2>2
  <2>4. to \in ends BY <2>3 DEF Stream!Min
  <2>5. to <= seen + ReadCount /\ to <= Len(log) BY <2>3 DEF Stream!Min
  <2> HIDE DEF to
  <2>6. QED BY <1>1, <1>4, <2>4, <2>5 DEF StreamIsFinite
<1>6. QED BY <1>3, <1>4, <1>5

(* One client or its link moves, and the stream does not.                  *)
LEMMA OneLinkMoves ==
    ASSUME StreamKeeps, Stream!TypeOK', UNCHANGED <<log, lastId>>, NEW c \in Stream!Clients,
           \A d \in Stream!Clients \ {c} :
               /\ link'[d] = link[d] /\ got'[d] = got[d] /\ cursor'[d] = cursor[d]
               /\ wire'[d] = wire[d] /\ skipped'[d] = skipped[d],
           LinkIsSound(link'[c], got'[c], cursor'[c], wire'[c], skipped'[c], lastId)
    PROVE  StreamKeeps'
<1>1. LogIsNumbered' BY DEF StreamKeeps, LogIsNumbered
<1>2. ASSUME NEW d \in Stream!Clients
      PROVE  LinkIsSound(link'[d], got'[d], cursor'[d], wire'[d], skipped'[d], lastId')
  <2>1. CASE d = c BY <2>1
  <2>2. CASE d # c BY <2>2 DEF StreamKeeps
  <2>3. QED BY <2>1, <2>2
<1>3. QED BY <1>1, <1>2 DEF StreamKeeps

(* The stream moves on, and no link does.                                  *)
LEMMA OnlyStreamMoves ==
    ASSUME StreamKeeps, Stream!TypeOK, Stream!TypeOK', LogIsNumbered', lastId <= lastId',
           UNCHANGED Stream!clients
    PROVE  StreamKeeps'
<1>1. UNCHANGED <<link, got, cursor, wire, skipped>> BY DEF Stream!clients
<1>2. lastId \in Int /\ lastId' \in Int BY DEF Stream!TypeOK
<1>3. ASSUME NEW c \in Stream!Clients
      PROVE  LinkIsSound(link[c], got[c], cursor[c], wire[c], skipped[c], lastId')
  <2>1. LinkIsSound(link[c], got[c], cursor[c], wire[c], skipped[c], lastId) BY DEF StreamKeeps
  <2>2. got[c] \in Int /\ cursor[c] \in Int BY DEF Stream!TypeOK
  <2>3. QED BY <1>2, <2>1, <2>2 DEF LinkIsSound
<1>4. QED BY <1>1, <1>3 DEF StreamKeeps

LEMMA AddsKeeps ==
    ASSUME StreamIsFinite, StreamKeeps, NEW ends \in BOOLEAN, Stream!Add(ends),
           stage' \in {"queued", "running", "finished", "committed", "persisted"},
           UNCHANGED Stream!clients
    PROVE  StreamKeeps'
<1>1. /\ log \in Seq(Entries) /\ lastId \in 0..MaxEvents /\ Len(log) \in Nat
      /\ lastId < MaxEvents /\ lastId' = lastId + 1 /\ MaxEvents \in Nat
  BY DEF StreamKeeps, Stream!TypeOK, Entries, Stream!Add, StreamIsFinite
<1> DEFINE entry == [id |-> lastId + 1, ends |-> ends]
<1>2. log' = Append(log, entry) BY DEF Stream!Add
<1>3. entry \in Entries /\ entry.id = lastId + 1 BY <1>1 DEF Entries
<1> HIDE DEF entry
<1>4. log' \in Seq(Entries) /\ lastId' \in 0..MaxEvents BY <1>1, <1>2, <1>3
<1>5. Stream!TypeOK' BY <1>4 DEF StreamKeeps, Stream!TypeOK, Stream!clients, Entries
<1>6. /\ Len(log') = Len(log) + 1 /\ log'[Len(log) + 1] = entry
      /\ \A k \in 1..Len(log) : log'[k] = log[k]
  BY <1>1, <1>2, <1>3
<1>7. LogIsNumbered' BY <1>1, <1>3, <1>6 DEF StreamKeeps, LogIsNumbered
<1>8. QED BY <1>1, <1>5, <1>7, OnlyStreamMoves DEF StreamKeeps

LEMMA TrimKeeps ==
    ASSUME StreamIsFinite, StreamKeeps, Stream!Trim
    PROVE  StreamKeeps'
<1>1. /\ log \in Seq(Entries) /\ lastId \in Nat /\ Len(log) \in Nat /\ Len(log) > MaxLen
      /\ log' = Tail(log) /\ UNCHANGED <<stage, lastId, Stream!clients>>
  BY DEF StreamKeeps, Stream!TypeOK, Entries, Stream!Trim, StreamIsFinite
<1>2. /\ log' \in Seq(Entries) /\ Len(log') = Len(log) - 1
      /\ \A k \in 1..Len(log') : log'[k] = log[k + 1]
  <2>1. log # <<>>
    <3>1. Len(log) # 0 BY <1>1 DEF StreamIsFinite
    <3>2. QED BY <1>1, <3>1, EmptySeq
  <2>2. QED BY <1>1, <2>1, HeadTailProperties
<1>3. Stream!TypeOK' BY <1>1, <1>2 DEF StreamKeeps, Stream!TypeOK, Stream!clients, Entries
<1>4. LogIsNumbered' BY <1>1, <1>2 DEF StreamKeeps, LogIsNumbered
<1>5. QED BY <1>1, <1>3, <1>4, OnlyStreamMoves DEF StreamKeeps

LEMMA ConnectKeeps ==
    ASSUME StreamIsFinite, StreamKeeps, NEW c \in Stream!Clients, Stream!Connect(c)
    PROVE  StreamKeeps'
<1>0. Stream!TypeOK BY DEF StreamKeeps
<1>1. Stream!TypeOK'
  <2>1. failures' \in [Stream!Clients -> 0..MaxLinkRetries]
    <3>1. 0 \in 0..MaxLinkRetries BY DEF StreamIsFinite
    <3>2. QED BY <1>0, <3>1 DEF Stream!TypeOK, Stream!Connect
  <2>2. link' \in [Stream!Clients -> {"off", "open", "done"}]
    BY <1>0 DEF Stream!TypeOK, Stream!Connect
  <2>3. cursor' \in [Stream!Clients -> 0..MaxEvents]
    BY <1>0 DEF Stream!TypeOK, Stream!Connect
  <2>4. QED BY <1>0, <2>1, <2>2, <2>3 DEF Stream!TypeOK, Stream!Connect
<1>2. LinkIsSound(link[c], got[c], cursor[c], wire[c], skipped[c], lastId) BY DEF StreamKeeps
<1>3. /\ link'[c] = "open" /\ cursor'[c] = got[c] /\ got' = got /\ wire'[c] = <<>>
      /\ skipped' = skipped /\ got[c] \in Int
  BY <1>0, <1>2 DEF Stream!TypeOK, Stream!Connect, LinkIsSound
<1>4. LinkIsSound(link'[c], got'[c], cursor'[c], wire'[c], skipped'[c], lastId)
  BY <1>2, <1>3 DEF LinkIsSound, InOrder
<1>5. \A d \in Stream!Clients \ {c} :
          /\ link'[d] = link[d] /\ got'[d] = got[d] /\ cursor'[d] = cursor[d]
          /\ wire'[d] = wire[d] /\ skipped'[d] = skipped[d]
  BY <1>0 DEF Stream!TypeOK, Stream!Connect
<1>6. QED BY <1>1, <1>4, <1>5, OneLinkMoves DEF Stream!Connect

LEMMA LinkGrows ==
    ASSUME NEW way \in Seq(Entries), NEW read \in Seq(Entries), StreamIsFinite,
           NEW from \in Nat, NEW to \in Nat, NEW end \in Nat, to <= end,
           InOrder(way, from, to), InOrder(read, to, end), from <= to
    PROVE  /\ InOrder(way \o read, from, end)
           /\ \A n : Carries(way, n) \/ Carries(read, n) => Carries(way \o read, n)
<1> DEFINE both == way \o read
<1> DEFINE m == Len(way)
<1>1. /\ m \in Nat /\ Len(read) \in Nat /\ Len(both) = m + Len(read)
      /\ \A i \in 1..m : both[i] = way[i]
      /\ \A i \in 1..Len(read) : both[m + i] = read[i]
  BY ConcatProperties
<1>2. \A i \in 1..Len(both) : i \in 1..m \/ (i - m \in 1..Len(read) /\ both[i] = read[i - m])
  <2>1. ASSUME NEW i \in 1..Len(both), i \notin 1..m
        PROVE  i - m \in 1..Len(read) /\ both[i] = read[i - m]
    <3>1. i - m \in 1..Len(read) /\ m + (i - m) = i BY <1>1, <2>1
    <3>2. QED BY <1>1, <3>1
  <2>2. QED BY <2>1
<1>3. /\ \A i \in 1..m : way[i].id \in Nat
      /\ \A i \in 1..Len(read) : read[i].id \in Nat
  <2>1. \A e \in Entries : e.id \in Nat BY DEF Entries, StreamIsFinite
  <2>2. /\ \A i \in 1..m : way[i] \in Entries
        /\ \A i \in 1..Len(read) : read[i] \in Entries
    OBVIOUS
  <2>3. QED BY <2>1, <2>2
<1> HIDE DEF both, m
<1>4. \A i \in 1..Len(both) : from < both[i].id /\ both[i].id <= end
  <2>1. ASSUME NEW i \in 1..m PROVE from < both[i].id /\ both[i].id <= end
    BY <1>1, <1>3 DEF InOrder, m
  <2>2. ASSUME NEW i \in 1..Len(read) PROVE from < read[i].id /\ read[i].id <= end
    BY <1>3 DEF InOrder
  <2>3. QED BY <1>2, <2>1, <2>2
<1>5. ASSUME NEW i \in 1..Len(both), NEW j \in 1..Len(both), i < j
      PROVE  both[i].id < both[j].id
  <2>1. CASE i \in 1..m /\ j \in 1..m BY <1>1, <1>5, <2>1 DEF InOrder, m
  <2>2. CASE i \in 1..m /\ j \notin 1..m
    <3>1. way[i].id <= to BY <2>2 DEF InOrder, m
    <3>2. to < read[j - m].id BY <1>2, <2>2 DEF InOrder
    <3>3. way[i].id \in Nat /\ read[j - m].id \in Nat BY <1>2, <1>3, <2>2
    <3>4. QED BY <1>1, <1>2, <2>2, <3>1, <3>2, <3>3
  <2>3. CASE i \notin 1..m
    <3>1. j \notin 1..m BY <1>1, <1>5, <2>3
    <3>2. i - m < j - m BY <1>1, <1>5
    <3>3. QED BY <1>2, <2>3, <3>1, <3>2 DEF InOrder
  <2>4. QED BY <2>1, <2>2, <2>3
<1>6. ASSUME NEW n, Carries(way, n) PROVE Carries(both, n)
  <2>1. PICK i \in 1..m : way[i].id = n BY <1>6 DEF Carries, m
  <2>2. i \in 1..Len(both) BY <1>1
  <2>3. QED BY <1>1, <2>1, <2>2 DEF Carries
<1>7. ASSUME NEW n, Carries(read, n) PROVE Carries(both, n)
  <2>1. PICK i \in 1..Len(read) : read[i].id = n BY <1>7 DEF Carries
  <2>2. m + i \in 1..Len(both) BY <1>1
  <2>3. QED BY <1>1, <2>1, <2>2 DEF Carries
<1>8. QED BY <1>4, <1>5, <1>6, <1>7 DEF InOrder, both

LEMMA ServerReadsKeeps ==
    ASSUME StreamIsFinite, StreamKeeps, NEW c \in Stream!Clients, Stream!ServerReads(c)
    PROVE  StreamKeeps'
<1> DEFINE at == cursor[c]
<1> DEFINE read == Stream!After(at)
<1> DEFINE end == Stream!Last(read).id
<1> DEFINE lost == Stream!Lost(at, end)
<1>0. /\ Stream!TypeOK /\ LogIsNumbered
      /\ LinkIsSound(link[c], got[c], at, wire[c], skipped[c], lastId)
  BY DEF StreamKeeps
<1>1. /\ log \in Seq(Entries) /\ lastId \in 0..MaxEvents /\ Len(log) \in Nat
      /\ at \in 0..MaxEvents /\ got[c] \in 0..MaxEvents /\ wire[c] \in Seq(Entries)
      /\ skipped[c] \in SUBSET (1..MaxEvents) /\ MaxEvents \in Nat
  BY <1>0, TypesOfLinks
<1>2. /\ link[c] = "open" /\ read # <<>>
      /\ wire' = [wire EXCEPT ![c] = @ \o read] /\ cursor' = [cursor EXCEPT ![c] = end]
      /\ skipped' = [skipped EXCEPT ![c] = @ \cup lost]
      /\ UNCHANGED <<stage, log, lastId, link, got, failures, unanswered>>
  BY DEF Stream!ServerReads
<1>3. PICK seen \in 0..Len(log), to \in 0..Len(log) :
          /\ seen <= to /\ read = SubSeq(log, seen + 1, to)
          /\ \A k \in 1..Len(log) : log[k].id <= at <=> k <= seen
  <2>1. at \in Nat BY <1>1
  <2> HIDE DEF at
  <2>2. QED BY <1>0, <2>1, AfterIsNext
<1> HIDE DEF read
<1>4. /\ read \in Seq(Entries) /\ Len(read) = to - seen
      /\ \A i \in 1..Len(read) : read[i] = log[seen + i]
  <2>1. \A i \in (seen + 1)..to : log[i] \in Entries BY <1>1
  <2>2. seen + 1 \in Int /\ to \in Int /\ seen + 1 <= to + 1 BY <1>1, <1>3
  <2>3. /\ read \in Seq(Entries) /\ Len(read) = IF seen + 1 <= to THEN to - (seen + 1) + 1 ELSE 0
        /\ \A i \in 1..Len(read) : read[i] = log[seen + 1 + i - 1]
    BY <1>3, <2>1, <2>2, SubSeqProperties
  <2>4. Len(read) = to - seen BY <1>1, <1>3, <2>3
  <2>5. \A i \in 1..Len(read) : seen + 1 + i - 1 = seen + i BY <1>1, <2>4
  <2>6. QED BY <2>3, <2>4, <2>5
<1>5. seen < to
  <2>1. Len(read) # 0 BY <1>2, <1>4, EmptySeq
  <2>2. QED BY <1>1, <1>3, <1>4, <2>1
<1>6. end = log[to].id
  <2>1. Len(read) \in 1..Len(read) /\ seen + Len(read) = to BY <1>1, <1>4, <1>5
  <2>2. QED BY <1>4, <2>1 DEF Stream!Last
<1> HIDE DEF end
<1>7. /\ \A k \in 1..Len(log) : log[k].id = (lastId - Len(log)) + k
      /\ Len(log) <= lastId
  BY <1>0 DEF LogIsNumbered
<1>8. /\ end = (lastId - Len(log)) + to /\ at < end /\ end <= lastId
      /\ end \in 0..MaxEvents
  BY <1>1, <1>3, <1>5, <1>6, <1>7
<1>9. InOrder(read, at, end)
  <2>1. ASSUME NEW i \in 1..Len(read)
        PROVE  /\ seen + i \in 1..Len(log) /\ ~ (seen + i <= seen) /\ seen + i <= to
               /\ read[i].id = log[seen + i].id
    <3>1. i \in Nat /\ 1 <= i /\ i <= to - seen BY <1>1, <1>4
    <3>2. QED BY <1>1, <1>3, <1>4, <3>1
  <2>2. ASSUME NEW i \in 1..Len(read) PROVE at < read[i].id /\ read[i].id <= end
    <3>1. /\ i \in Nat /\ seen + i \in 1..Len(log) /\ seen + i <= to
          /\ ~ (log[seen + i].id <= at)
      BY <1>1, <1>3, <1>4, <2>1
    <3>2. read[i].id = (lastId - Len(log)) + (seen + i) BY <1>7, <2>1
    <3>3. read[i].id = log[seen + i].id BY <2>1
    <3>4. read[i].id \in Int BY <1>1, <3>1, <3>2
    <3>5. at < read[i].id BY <1>1, <3>1, <3>3, <3>4
    <3>6. read[i].id <= end BY <1>1, <1>8, <3>1, <3>2
    <3>7. QED BY <3>5, <3>6
  <2>3. ASSUME NEW i \in 1..Len(read), NEW j \in 1..Len(read), i < j
        PROVE  read[i].id < read[j].id
    <3>1. /\ read[i].id = (lastId - Len(log)) + (seen + i)
          /\ read[j].id = (lastId - Len(log)) + (seen + j)
      BY <1>7, <2>1
    <3>2. i \in Nat /\ j \in Nat BY <1>1, <1>4
    <3>3. QED BY <1>1, <2>3, <3>1, <3>2
  <2>4. QED BY <2>2, <2>3 DEF InOrder
<1>10. /\ got[c] <= lastId /\ got[c] <= at /\ InOrder(wire[c], got[c], at)
       /\ \A n \in (got[c] + 1)..at : n \in skipped[c] \/ Carries(wire[c], n)
  BY <1>0, <1>2 DEF LinkIsSound
<1>11. \A n \in (at + 1)..end : n \in lost \/ Carries(read, n)
  <2>1. SUFFICES ASSUME NEW n \in (at + 1)..end, n \notin lost PROVE Carries(read, n)
    OBVIOUS
  <2>2. PICK k \in 1..Len(log) : log[k].id = n
    <3>1. n \in {e.id : e \in Stream!ToSet(log)} BY <2>1 DEF Stream!Lost
    <3>2. QED BY <1>1, <3>1 DEF Stream!ToSet
  <2>3. seen < k /\ k <= to
    <3>1. n \in Int /\ ~ (n <= at) /\ n <= end BY <1>1, <1>8, <2>1
    <3>2. ~ (k <= seen) BY <1>3, <2>2, <3>1
    <3>3. n = (lastId - Len(log)) + k BY <1>7, <2>2
    <3>4. QED BY <1>1, <1>8, <3>1, <3>2, <3>3
  <2>4. k - seen \in 1..Len(read) /\ seen + (k - seen) = k BY <1>1, <1>4, <2>3
  <2>5. QED BY <1>4, <2>2, <2>4 DEF Carries
<1>12. lost \subseteq 1..MaxEvents BY <1>1, <1>8 DEF Stream!Lost
<1> HIDE DEF at, lost
<1>13. /\ InOrder(wire[c] \o read, got[c], end)
       /\ \A n : Carries(wire[c], n) \/ Carries(read, n) => Carries(wire[c] \o read, n)
  <2>1. got[c] \in Nat /\ at \in Nat /\ end \in Nat /\ at <= end BY <1>1, <1>8
  <2>2. QED BY <1>1, <1>4, <1>9, <1>10, <2>1, LinkGrows
<1>14. /\ wire'[c] = wire[c] \o read /\ cursor'[c] = end /\ skipped'[c] = skipped[c] \cup lost
       /\ \A d \in Stream!Clients \ {c} :
             /\ link'[d] = link[d] /\ got'[d] = got[d] /\ cursor'[d] = cursor[d]
             /\ wire'[d] = wire[d] /\ skipped'[d] = skipped[d]
  BY <1>0, <1>2 DEF Stream!TypeOK
<1>15. Stream!TypeOK'
  <2>1. wire[c] \o read \in Seq(Entries) BY <1>1, <1>4, ConcatProperties
  <2>2. wire' \in [Stream!Clients -> Seq(Entries)]
    BY <1>0, <1>2, <2>1 DEF Stream!TypeOK, Entries
  <2>3. cursor' \in [Stream!Clients -> 0..MaxEvents] BY <1>0, <1>2, <1>8 DEF Stream!TypeOK
  <2>4. skipped' \in [Stream!Clients -> SUBSET (1..MaxEvents)]
    BY <1>0, <1>1, <1>2, <1>12 DEF Stream!TypeOK
  <2>5. QED BY <1>0, <1>2, <2>2, <2>3, <2>4 DEF Stream!TypeOK, Entries
<1>16. LinkIsSound(link'[c], got'[c], cursor'[c], wire'[c], skipped'[c], lastId)
  <2>1. \A n \in (got[c] + 1)..end : n \in (got[c] + 1)..at \/ n \in (at + 1)..end
    BY <1>1, <1>8
  <2>2. \A n \in (got[c] + 1)..end : n \in skipped[c] \cup lost \/ Carries(wire[c] \o read, n)
    BY <1>10, <1>11, <1>13, <2>1
  <2>3. got[c] <= end BY <1>1, <1>8, <1>10
  <2>4. QED BY <1>2, <1>8, <1>10, <1>13, <1>14, <2>2, <2>3 DEF LinkIsSound
<1>17. QED BY <1>2, <1>14, <1>15, <1>16, OneLinkMoves

LEMMA HandlesKeeps ==
    ASSUME StreamIsFinite, StreamKeeps, NEW c \in Stream!Clients, Stream!Handles(c)
    PROVE  StreamKeeps'
<1> DEFINE way == wire[c]
<1> DEFINE first == Head(way).id
<1> DEFINE state == IF c = "follower" /\ Head(way).ends /\ Stream!Terminal THEN "done" ELSE "open"
<1>0. /\ Stream!TypeOK /\ LinkIsSound(link[c], got[c], cursor[c], way, skipped[c], lastId)
  BY DEF StreamKeeps
<1>1. /\ way \in Seq(Entries) /\ MaxEvents \in Nat /\ lastId \in 0..MaxEvents
      /\ cursor[c] \in 0..MaxEvents /\ got[c] \in 0..MaxEvents
  BY <1>0, TypesOfLinks
<1>2. /\ link[c] = "open" /\ way # <<>>
      /\ got' = [got EXCEPT ![c] = first] /\ wire' = [wire EXCEPT ![c] = Tail(way)]
      /\ link' = [link EXCEPT ![c] = state]
      /\ UNCHANGED <<stage, log, lastId, cursor, failures, skipped, unanswered>>
  <2>1. c = "follower" /\ Head(way).ends /\ Stream!Terminal
          => link' = [link EXCEPT ![c] = state]
    BY DEF Stream!Handles
  <2>2. ~ (c = "follower" /\ Head(way).ends /\ Stream!Terminal)
          => link' = [link EXCEPT ![c] = state]
    <3>1. ASSUME link[c] = "open" PROVE link = [link EXCEPT ![c] = "open"]
      BY <1>0, <3>1 DEF Stream!TypeOK
    <3>2. QED BY <3>1 DEF Stream!Handles
  <2>3. QED BY <2>1, <2>2 DEF Stream!Handles
<1>3. /\ Len(way) \in Nat /\ Len(way) >= 1 /\ first = way[1].id /\ way[1] \in Entries
      /\ Tail(way) \in Seq(Entries) /\ Len(Tail(way)) = Len(way) - 1
      /\ \A i \in 1..Len(Tail(way)) : Tail(way)[i] = way[i + 1]
  <2>1. Len(way) \in Nat /\ Len(way) # 0 BY <1>1, <1>2, EmptySeq
  <2>2. 1 \in 1..Len(way) BY <2>1
  <2>3. QED BY <1>1, <1>2, <2>1, <2>2, HeadTailProperties
<1>4. first \in 1..MaxEvents BY <1>3 DEF Entries
<1>5. /\ got[c] <= cursor[c] /\ cursor[c] <= lastId /\ InOrder(way, got[c], cursor[c])
      /\ \A n \in (got[c] + 1)..cursor[c] : n \in skipped[c] \/ Carries(way, n)
  BY <1>0, <1>2 DEF LinkIsSound
<1>6. state \in {"open", "done"} OBVIOUS
<1>7. first <= cursor[c] /\ got[c] < first
  <2>1. 1 \in 1..Len(way) BY <1>3
  <2>2. QED BY <1>3, <1>5, <2>1 DEF InOrder
<1> HIDE DEF first, state
<1>8. \A i \in 1..Len(way) : way[i].id \in Nat
  <2>1. \A e \in Entries : e.id \in Nat BY <1>1 DEF Entries
  <2>2. \A i \in 1..Len(way) : way[i] \in Entries BY <1>1
  <2>3. QED BY <2>1, <2>2
<1>9. InOrder(Tail(way), first, cursor[c])
  <2>1. ASSUME NEW i \in 1..Len(Tail(way))
        PROVE  i + 1 \in 1..Len(way) /\ 1 \in 1..Len(way) /\ 1 < i + 1 /\ i \in Nat
    BY <1>3
  <2>2. ASSUME NEW i \in 1..Len(Tail(way))
        PROVE  first < Tail(way)[i].id /\ Tail(way)[i].id <= cursor[c]
    BY <1>3, <1>5, <2>1 DEF InOrder
  <2>3. ASSUME NEW i \in 1..Len(Tail(way)), NEW j \in 1..Len(Tail(way)), i < j
        PROVE  Tail(way)[i].id < Tail(way)[j].id
    <3>1. i + 1 < j + 1 BY <2>1, <2>3
    <3>2. QED BY <1>3, <1>5, <2>1, <3>1 DEF InOrder
  <2>4. QED BY <2>2, <2>3 DEF InOrder
<1>10. \A n \in (first + 1)..cursor[c] : n \in skipped[c] \/ Carries(Tail(way), n)
  <2>1. SUFFICES ASSUME NEW n \in (first + 1)..cursor[c], n \notin skipped[c]
                 PROVE  Carries(Tail(way), n)
    OBVIOUS
  <2>2. n \in (got[c] + 1)..cursor[c] /\ n # first BY <1>1, <1>4, <1>7
  <2>3. PICK i \in 1..Len(way) : way[i].id = n BY <1>5, <2>1, <2>2 DEF Carries
  <2>4. i # 1 BY <1>3, <2>2, <2>3
  <2>5. i - 1 \in 1..Len(Tail(way)) /\ (i - 1) + 1 = i BY <1>3, <2>4
  <2>6. QED BY <1>3, <2>3, <2>5 DEF Carries
<1>11. /\ wire'[c] = Tail(way) /\ got'[c] = first /\ link'[c] = state
       /\ \A d \in Stream!Clients \ {c} :
             /\ link'[d] = link[d] /\ got'[d] = got[d] /\ cursor'[d] = cursor[d]
             /\ wire'[d] = wire[d] /\ skipped'[d] = skipped[d]
  BY <1>0, <1>2 DEF Stream!TypeOK
<1> HIDE DEF way
<1>12. Stream!TypeOK'
  <2>1. wire' \in [Stream!Clients -> Seq(Entries)]
    BY <1>0, <1>2, <1>3 DEF Stream!TypeOK, Entries
  <2>2. got' \in [Stream!Clients -> 0..MaxEvents]
    <3>1. first \in 0..MaxEvents BY <1>1, <1>4
    <3>2. QED BY <1>0, <1>2, <3>1 DEF Stream!TypeOK
  <2>3. link' \in [Stream!Clients -> {"off", "open", "done"}]
    BY <1>0, <1>2, <1>6 DEF Stream!TypeOK
  <2>4. QED BY <1>0, <1>2, <2>1, <2>2, <2>3 DEF Stream!TypeOK, Entries
<1>13. LinkIsSound(link'[c], got'[c], cursor'[c], wire'[c], skipped'[c], lastId)
  <2>1. first <= lastId BY <1>1, <1>4, <1>5, <1>7
  <2>2. QED BY <1>2, <1>5, <1>6, <1>7, <1>9, <1>10, <1>11, <2>1 DEF LinkIsSound
<1>14. QED BY <1>2, <1>11, <1>12, <1>13, OneLinkMoves

(* A link that ends, breaks or is given up, and a page opened anew.         *)
LEMMA LinkCloses ==
    ASSUME StreamIsFinite, StreamKeeps, NEW c \in Stream!Clients, NEW state \in {"off", "done"},
           NEW id \in 0..lastId, NEW lost \in {{}, skipped[c]}, NEW way \in {<<>>, wire[c]},
           NEW tries \in 0..MaxLinkRetries, state = "off" => way = <<>>,
           link' = [link EXCEPT ![c] = state], wire' = [wire EXCEPT ![c] = way],
           got' = [got EXCEPT ![c] = id], skipped' = [skipped EXCEPT ![c] = lost],
           failures' = [failures EXCEPT ![c] = tries], unanswered' \in BOOLEAN,
           UNCHANGED <<stage, log, lastId, cursor>>
    PROVE  StreamKeeps'
<1>0. /\ Stream!TypeOK
      /\ LinkIsSound(link[c], got[c], cursor[c], wire[c], skipped[c], lastId)
  BY DEF StreamKeeps
<1>1. /\ way \in Seq(Entries) /\ MaxEvents \in Nat /\ lastId \in 0..MaxEvents
      /\ got[c] \in 0..MaxEvents
  <2>1. wire[c] \in Seq(Entries) /\ <<>> \in Seq(Entries) BY <1>0, TypesOfLinks
  <2>2. way \in Seq(Entries) BY <2>1
  <2>3. QED BY <1>0, <2>2, TypesOfLinks
<1>2. Stream!TypeOK'
  <2>1. wire' \in [Stream!Clients -> Seq(Entries)]
    BY <1>0, <1>1 DEF Stream!TypeOK, Entries
  <2>2. got' \in [Stream!Clients -> 0..MaxEvents]
    <3>1. id \in 0..MaxEvents BY <1>1
    <3>2. QED BY <1>0, <3>1 DEF Stream!TypeOK
  <2>3. link' \in [Stream!Clients -> {"off", "open", "done"}] BY <1>0 DEF Stream!TypeOK
  <2>4. skipped' \in [Stream!Clients -> SUBSET (1..MaxEvents)] BY <1>0 DEF Stream!TypeOK
  <2>5. failures' \in [Stream!Clients -> 0..MaxLinkRetries] BY <1>0 DEF Stream!TypeOK
  <2>6. QED BY <1>0, <2>1, <2>2, <2>3, <2>4, <2>5 DEF Stream!TypeOK, Entries
<1>3. /\ link'[c] = state /\ wire'[c] = way /\ got'[c] = id /\ skipped'[c] = lost
      /\ \A d \in Stream!Clients \ {c} :
             /\ link'[d] = link[d] /\ got'[d] = got[d] /\ cursor'[d] = cursor[d]
             /\ wire'[d] = wire[d] /\ skipped'[d] = skipped[d]
  BY <1>0 DEF Stream!TypeOK
<1>4. id <= lastId BY <1>1
<1>5. LinkIsSound(link'[c], got'[c], cursor'[c], wire'[c], skipped'[c], lastId)
  BY <1>0, <1>3, <1>4 DEF LinkIsSound
<1>6. QED BY <1>2, <1>3, <1>5, OneLinkMoves

(* What a client handled, and the start of the stream, lie within it.       *)
LEMMA WhereClientsAre ==
    ASSUME StreamKeeps, NEW c \in Stream!Clients
    PROVE  got[c] \in 0..lastId /\ 0 \in 0..lastId /\ unanswered \in BOOLEAN
<1>1. Stream!TypeOK /\ got[c] <= lastId BY DEF StreamKeeps, LinkIsSound
<1>2. got[c] \in Nat /\ lastId \in Nat /\ unanswered \in BOOLEAN BY <1>1 DEF Stream!TypeOK
<1>3. QED BY <1>1, <1>2

(* A failure is counted or ends the client.                                 *)
LEMMA TriesAgainKeeps ==
    ASSUME StreamIsFinite, StreamKeeps, NEW c \in Stream!Clients, NEW id \in 0..lastId,
           Stream!TriesAgain(c), wire' = [wire EXCEPT ![c] = <<>>],
           got' = [got EXCEPT ![c] = id], unanswered' \in BOOLEAN,
           UNCHANGED <<stage, log, lastId, cursor, skipped>>
    PROVE  StreamKeeps'
<1>1. Stream!TypeOK BY DEF StreamKeeps
<1>2. /\ skipped = [skipped EXCEPT ![c] = skipped[c]]
      /\ failures = [failures EXCEPT ![c] = failures[c]] /\ failures[c] \in 0..MaxLinkRetries
  BY <1>1 DEF Stream!TypeOK
<1>3. CASE failures[c] < MaxLinkRetries
  <2>1. /\ failures' = [failures EXCEPT ![c] = failures[c] + 1]
        /\ link' = [link EXCEPT ![c] = "off"]
    BY <1>3 DEF Stream!TriesAgain
  <2>2. failures[c] + 1 \in 0..MaxLinkRetries BY <1>2, <1>3 DEF StreamIsFinite
  <2>3. QED BY <1>2, <2>1, <2>2, LinkCloses
<1>4. CASE ~ (failures[c] < MaxLinkRetries)
  <2>1. failures' = failures /\ link' = [link EXCEPT ![c] = "done"]
    BY <1>4 DEF Stream!TriesAgain
  <2>2. QED BY <1>2, <2>1, LinkCloses
<1>5. QED BY <1>3, <1>4

LEMMA LinkEndsKeeps ==
    ASSUME StreamIsFinite, StreamKeeps, NEW c \in Stream!Clients, Stream!LinkEnds(c)
    PROVE  StreamKeeps'
<1> DEFINE state == IF c = "follower" /\ Stream!Terminal THEN "done" ELSE "off"
<1>1. Stream!TypeOK BY DEF StreamKeeps
<1>2. state \in {"off", "done"} OBVIOUS
<1>3. /\ link' = [link EXCEPT ![c] = state] /\ wire' = [wire EXCEPT ![c] = <<>>]
      /\ failures' = [failures EXCEPT ![c] = 0]
      /\ UNCHANGED <<stage, log, lastId, cursor, got, skipped, unanswered>>
  BY DEF Stream!LinkEnds
<1>4. got = [got EXCEPT ![c] = got[c]] /\ skipped = [skipped EXCEPT ![c] = skipped[c]]
  BY <1>1 DEF Stream!TypeOK
<1>5. 0 \in 0..MaxLinkRetries BY DEF StreamIsFinite
<1> HIDE DEF state
<1>6. QED BY <1>2, <1>3, <1>4, <1>5, WhereClientsAre, LinkCloses

LEMMA LinkFailsKeeps ==
    ASSUME StreamIsFinite, StreamKeeps, NEW c \in Stream!Clients, Stream!LinkFails(c)
    PROVE  StreamKeeps'
<1>1. Stream!TypeOK BY DEF StreamKeeps
<1>2. /\ wire' = [wire EXCEPT ![c] = <<>>]
      /\ UNCHANGED <<stage, log, lastId, cursor, got, skipped, unanswered>>
  BY DEF Stream!LinkFails
<1>3. /\ got = [got EXCEPT ![c] = got[c]] /\ skipped = [skipped EXCEPT ![c] = skipped[c]]
  BY <1>1 DEF Stream!TypeOK
<1>4. Stream!TriesAgain(c) BY DEF Stream!LinkFails
<1>5. QED BY <1>2, <1>3, <1>4, WhereClientsAre, TriesAgainKeeps

LEMMA RefusedKeeps == ASSUME StreamIsFinite, StreamKeeps, Stream!Refused PROVE StreamKeeps'
<1> DEFINE c == "follower"
<1>1. Stream!TypeOK /\ c \in Stream!Clients BY DEF StreamKeeps, Stream!Clients
<1>2. /\ link' = [link EXCEPT ![c] = "done"]
      /\ UNCHANGED <<stage, log, lastId, cursor, wire, got, failures, skipped,
                   unanswered>>
  BY DEF Stream!Refused
<1>3. /\ got = [got EXCEPT ![c] = got[c]] /\ skipped = [skipped EXCEPT ![c] = skipped[c]]
      /\ failures = [failures EXCEPT ![c] = failures[c]] /\ failures[c] \in 0..MaxLinkRetries
      /\ wire = [wire EXCEPT ![c] = wire[c]]
  BY <1>1 DEF Stream!TypeOK
<1> HIDE DEF c
<1>4. QED BY <1>1, <1>2, <1>3, WhereClientsAre, LinkCloses

LEMMA ReopenKeeps == ASSUME StreamIsFinite, StreamKeeps, Stream!Reopen PROVE StreamKeeps'
<1> DEFINE c == "console"
<1>1. c \in Stream!Clients /\ 0 \in 0..MaxLinkRetries BY DEF Stream!Clients, StreamIsFinite
<1>2. /\ link' = [link EXCEPT ![c] = "off"] /\ wire' = [wire EXCEPT ![c] = <<>>]
      /\ got' = [got EXCEPT ![c] = 0] /\ skipped' = [skipped EXCEPT ![c] = {}]
      /\ failures' = [failures EXCEPT ![c] = 0] /\ UNCHANGED <<stage, log, lastId, cursor, unanswered>>
  BY DEF Stream!Reopen
<1> HIDE DEF c
<1>3. QED BY <1>1, <1>2, WhereClientsAre, LinkCloses

(* A look that fails: its entry is the first on the wire, within the stream. *)
LEMMA LookFailsKeeps == ASSUME StreamIsFinite, StreamKeeps, Stream!LookFails PROVE StreamKeeps'
<1> DEFINE c == "follower"
<1> DEFINE way == wire[c]
<1>1. c \in Stream!Clients /\ Stream!TypeOK BY DEF StreamKeeps, Stream!Clients
<1>2. /\ link[c] = "open" /\ way # <<>> /\ Stream!TriesAgain(c)
      /\ got' = [got EXCEPT ![c] = Head(way).id] /\ wire' = [wire EXCEPT ![c] = <<>>]
      /\ UNCHANGED <<stage, log, lastId, cursor, skipped>>
  BY DEF Stream!LookFails
<1>3. unanswered' \in BOOLEAN BY <1>1 DEF Stream!LookFails, Stream!TypeOK
<1>4. /\ way \in Seq(Entries) /\ MaxEvents \in Nat /\ lastId \in Nat /\ cursor[c] \in Nat
      /\ LinkIsSound(link[c], got[c], cursor[c], way, skipped[c], lastId)
  <2>1. way \in Seq(Entries) /\ MaxEvents \in Nat /\ lastId \in Nat /\ cursor[c] \in Nat
    BY <1>1, TypesOfLinks
  <2>2. QED BY <1>1, <2>1 DEF StreamKeeps
<1> HIDE DEF c, way
<1>5. 1 \in 1..Len(way) /\ Head(way) = way[1] /\ way[1] \in Entries
  <2>1. Len(way) \in Nat /\ Len(way) # 0 BY <1>2, <1>4, EmptySeq
  <2>2. 1 \in 1..Len(way) BY <2>1
  <2>3. QED BY <1>4, <2>1, <2>2, HeadTailProperties
<1>6. Head(way).id \in Nat BY <1>4, <1>5 DEF Entries
<1>7. Head(way).id <= cursor[c] /\ cursor[c] <= lastId
  BY <1>2, <1>4, <1>5 DEF LinkIsSound, InOrder
<1>8. Head(way).id \in 0..lastId BY <1>4, <1>6, <1>7
<1>9. QED BY <1>1, <1>2, <1>3, <1>8, TriesAgainKeeps

LEMMA StreamStep ==
    ASSUME StreamIsFinite, StreamKeeps, [Stream!Next]_Stream!vars
    PROVE  StreamKeeps'
<1> DEFINE stages == {"queued", "running", "finished", "committed", "persisted"}
<1>0. Stream!TypeOK /\ stage \in stages BY DEF StreamKeeps, Stream!TypeOK
<1>1. ASSUME Stream!WorkerStarts \/ Stream!WorkerEmits \/ Stream!WorkerFinishes
             \/ Stream!ResultPublished
      PROVE  StreamKeeps'
  <2>1. \E ends \in BOOLEAN : Stream!Add(ends)
    BY <1>1 DEF Stream!WorkerStarts, Stream!WorkerEmits, Stream!WorkerFinishes,
                Stream!ResultPublished
  <2>2. stage' \in stages /\ UNCHANGED Stream!clients
    BY <1>0, <1>1 DEF Stream!WorkerStarts, Stream!WorkerEmits, Stream!WorkerFinishes,
                Stream!ResultPublished
  <2>3. QED BY <2>1, <2>2, AddsKeeps
<1>2. CASE Stream!ResultCommitted
  <2>1. stage' \in stages /\ UNCHANGED <<log, lastId, Stream!clients>>
    BY <1>2 DEF Stream!ResultCommitted
  <2>2. Stream!TypeOK' BY <1>0, <2>1 DEF Stream!TypeOK, Stream!clients
  <2>3. LogIsNumbered' BY <2>1 DEF StreamKeeps, LogIsNumbered
  <2>4. lastId <= lastId' BY <1>0, <2>1 DEF Stream!TypeOK
  <2>5. QED BY <1>0, <2>1, <2>2, <2>3, <2>4, OnlyStreamMoves
<1>3. CASE Stream!Trim BY <1>3, TrimKeeps
<1>4. ASSUME NEW c \in Stream!Clients,
             Stream!Serve(c) \/ Stream!LinkEnds(c) \/ Stream!LinkFails(c)
      PROVE  StreamKeeps'
  BY <1>4, ConnectKeeps, ServerReadsKeeps, HandlesKeeps, LinkEndsKeeps, LinkFailsKeeps
     DEF Stream!Serve
<1>5. CASE Stream!Refused \/ Stream!LookFails BY <1>5, RefusedKeeps, LookFailsKeeps
<1>6. CASE Stream!Reopen BY <1>6, ReopenKeeps
<1>7. CASE UNCHANGED Stream!vars
  <2>1. UNCHANGED <<stage, log, lastId, link, cursor, wire, got, failures, skipped, unanswered>>
    BY <1>7 DEF Stream!vars
  <2>2. Stream!TypeOK' BY <1>0, <2>1 DEF Stream!TypeOK
  <2>3. UNCHANGED Stream!clients BY <2>1 DEF Stream!clients
  <2>4. LogIsNumbered' BY <2>1 DEF StreamKeeps, LogIsNumbered
  <2>5. lastId <= lastId' BY <1>0, <2>1 DEF Stream!TypeOK
  <2>6. QED BY <1>0, <2>2, <2>3, <2>4, <2>5, OnlyStreamMoves
<1>8. QED BY <1>1, <1>2, <1>3, <1>4, <1>5, <1>6, <1>7 DEF Stream!Next, Stream!Finish

(* The events of a run over connections that break (stream_run_events,      *)
(* useSSE, follow), for every length of the run, the stream and its reads:  *)
(* a client is sent every event once and in order, whenever it connects    *)
(* anew, but those the stream had lost before the generator came to them.  *)
THEOREM StreamIsReadWhole ==
    ASSUME StreamIsFinite
    PROVE  Stream!Spec => []Stream!NothingSkipped
<1>1. Stream!Init => StreamKeeps BY StreamInit
<1>2. StreamKeeps /\ [Stream!Next]_Stream!vars => StreamKeeps' BY StreamStep
<1>3. ASSUME StreamKeeps PROVE Stream!NothingSkipped
  <2>1. SUFFICES ASSUME NEW c \in Stream!Clients, link[c] = "open"
        PROVE  /\ \A id \in {e.id : e \in Stream!ToSet(wire[c])} : id > got[c]
               /\ (got[c] + 1)..cursor[c]
                     \subseteq {e.id : e \in Stream!ToSet(wire[c])} \cup skipped[c]
    BY DEF Stream!NothingSkipped
  <2>2. wire[c] \in Seq(Entries) /\ got[c] \in Int
    <3>1. Stream!TypeOK BY <1>3 DEF StreamKeeps
    <3>2. wire[c] \in Seq(Entries) /\ got[c] \in 0..MaxEvents /\ MaxEvents \in Nat
      BY <2>1, <3>1, TypesOfLinks
    <3>3. QED BY <3>2
  <2>3. LinkIsSound(link[c], got[c], cursor[c], wire[c], skipped[c], lastId)
    BY <1>3 DEF StreamKeeps
  <2>4. \A id : id \in {e.id : e \in Stream!ToSet(wire[c])} <=> Carries(wire[c], id)
    BY <2>2 DEF Stream!ToSet, Carries
  <2>5. \A i \in 1..Len(wire[c]) : wire[c][i].id \in Int
    <3>1. \A e \in Entries : e.id \in Int BY DEF Entries, StreamIsFinite
    <3>2. QED BY <2>2, <3>1
  <2>6. \A id : Carries(wire[c], id) => id > got[c]
    BY <2>1, <2>2, <2>3, <2>5 DEF LinkIsSound, InOrder, Carries
  <2>7. QED BY <2>1, <2>3, <2>4, <2>6 DEF LinkIsSound
<1>4. QED BY <1>1, <1>2, <1>3, PTL DEF Stream!Spec

-----------------------------------------------------------------------------
(* All of them: a step of the composition is a step of each part, or leaves *)
(* it alone.                                                               *)
LEMMA DataStepsAreParts ==
    ASSUME [DataNext]_dataVars
    PROVE  /\ [Known!Next]_Known!vars /\ [Catalog!Next]_Catalog!vars
           /\ [Vectors!Next]_Vectors!vars /\ [Registry!Next]_Registry!vars
           /\ [Host!Next]_Host!vars /\ [Index!Next]_Index!vars
           /\ [Stream!Next]_Stream!vars
<1>1. /\ itemVars = Known!vars /\ catalogVars = Catalog!vars /\ vectorVars = Vectors!vars
      /\ registryVars = Registry!vars /\ hostVars = Host!vars /\ indexVars = Index!vars
      /\ streamVars = Stream!vars
  BY DEF itemVars, catalogVars, vectorVars, registryVars, hostVars, indexVars,
         streamVars, Known!vars, Catalog!vars, Vectors!vars, Registry!vars, Host!vars,
         Index!vars, Stream!vars
<1>2. (/\ itemVars = Known!vars /\ catalogVars = Catalog!vars /\ vectorVars = Vectors!vars
       /\ registryVars = Registry!vars /\ hostVars = Host!vars /\ indexVars = Index!vars
       /\ streamVars = Stream!vars)'
  BY DEF itemVars, catalogVars, vectorVars, registryVars, hostVars, indexVars,
         streamVars, Known!vars, Catalog!vars, Vectors!vars, Registry!vars, Host!vars,
         Index!vars, Stream!vars
<1>3. CASE UNCHANGED dataVars BY <1>1, <1>2, <1>3 DEF dataVars
<1>4. CASE DataNext
  <2>1. PICK part \in DataParts : DataStep(part) BY <1>4 DEF DataNext
  <2>2. /\ Known!Next \/ UNCHANGED itemVars
        /\ Catalog!Next \/ UNCHANGED catalogVars
        /\ Vectors!Next \/ UNCHANGED vectorVars
        /\ Registry!Next \/ UNCHANGED registryVars
        /\ Host!Next \/ UNCHANGED hostVars
        /\ Index!Next \/ UNCHANGED indexVars
        /\ Stream!Next \/ UNCHANGED streamVars
    BY <2>1 DEF DataStep
  <2>3. QED BY <1>1, <1>2, <2>2
<1>5. QED BY <1>3, <1>4

(* Requests and writers of the catalog, the knowledge base and the registry *)
(* lose nothing and give nothing twice, but where they overlapped in a way  *)
(* a history variable records (CatalogKeepsOrder).                         *)
THEOREM RecordsKeepOrder == DataSpec => []CatalogKeepsOrder
<1>1. DataInit => Catalog!Init /\ Known!Init /\ Registry!Init BY DEF DataInit
<1>2. [DataNext]_dataVars =>
         [Catalog!Next]_Catalog!vars /\ [Known!Next]_Known!vars /\ [Registry!Next]_Registry!vars
  BY DataStepsAreParts
<1>3. Catalog!CatalogKeepsOrder /\ Known!UsageIsCounted /\ Registry!RegistryKeepsModels
        => CatalogKeepsOrder
  BY DEF CatalogKeepsOrder
<1>4. QED
  BY <1>1, <1>2, <1>3, CatalogStaysInOrder, KnowledgeUsageIsCounted, RegistryStaysSound, PTL
  DEF DataSpec, Catalog!Spec, Known!Spec, Registry!Spec

(* The two vector stores agree on what went through undisturbed, and an     *)
(* index and its searches on the files of its workspace (StoresAgree).     *)
THEOREM StoresStayFaithful == DataSpec => []StoresAgree
<1>1. DataInit => Vectors!Init /\ Index!Init BY DEF DataInit
<1>2. [DataNext]_dataVars => [Vectors!Next]_Vectors!vars /\ [Index!Next]_Index!vars
  BY DataStepsAreParts
<1>3. Vectors!StoresAgree /\ Index!IndexIsFaithful => StoresAgree BY DEF StoresAgree
<1>4. Vectors!Spec => []Vectors!StoresAgree BY VectorsAssumption, StoresStayInAgreement
<1>5. Index!Spec => []Index!IndexIsFaithful BY IndexAssumption, IndexStaysFaithful
<1>6. QED BY <1>1, <1>2, <1>3, <1>4, <1>5, PTL DEF DataSpec, Vectors!Spec, Index!Spec

(* A runtime has all its plugins, each after what it injects, or has none   *)
(* for a reason of theirs (ComposedByNeed).                                *)
THEOREM RuntimesAreComposed == DataSpec => []ComposedByNeed
<1>1. DataInit => Host!Init BY DEF DataInit
<1>2. [DataNext]_dataVars => [Host!Next]_Host!vars BY DataStepsAreParts
<1>3. Host!ComposedByNeed => ComposedByNeed BY DEF ComposedByNeed
<1>4. Host!Spec => []Host!ComposedByNeed BY PluginsAssumption, PluginsAreComposed
<1>5. QED BY <1>1, <1>2, <1>3, <1>4, PTL DEF DataSpec, Host!Spec

(* A run's events reach whoever reads them, each once, but those trimmed    *)
(* before (NothingSkipped).                                                *)
THEOREM RunsAreReadWhole == DataSpec => []NothingSkipped
<1>1. DataInit => Stream!Init BY DEF DataInit
<1>2. [DataNext]_dataVars => [Stream!Next]_Stream!vars BY DataStepsAreParts
<1>3. Stream!NothingSkipped => NothingSkipped BY DEF NothingSkipped
<1>4. Stream!Spec => []Stream!NothingSkipped BY StreamAssumption, StreamIsReadWhole
<1>5. QED BY <1>1, <1>2, <1>3, <1>4, PTL DEF DataSpec, Stream!Spec
=============================================================================
