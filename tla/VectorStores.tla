---------------------------- MODULE VectorStores ----------------------------
(***************************************************************************)
(* The two vector stores of dual mode.  Writers upsert and delete through  *)
(* DualWriteVectorStore, which sends every write to both stores at once    *)
(* and takes one success for enough; meanwhile migrate_vectors copies the  *)
(* records of Chroma to Milvus in batches, which can be rolled back.       *)
(***************************************************************************)
EXTENDS Naturals, Sequences, FiniteSetsExt

CONSTANTS
    Ids,        \* ids of records: numbers, in the order Chroma pages them
    MaxWrites,  \* bound on the writes made through the dual store
    BatchSize   \* batch_size of the migration

VARIABLES
    content,    \* per store and id: the version of the record, 0 if there is none
    writes,     \* writes started so far
    ops,        \* the writes under way
    latest,     \* per id: the version of the write started last
    doubtful,   \* history: ids of which the stores were never brought to agree
    copy,       \* the migration
    quiet       \* history: nobody else wrote while the migration ran

vars == <<content, writes, ops, latest, doubtful, copy, quiet>>

Stores == {"milvus", "chroma"}      \* primary and secondary
Versions == 0..(MaxWrites + 1)

NoCopy == [state |-> "none", offset |-> 0, batch |-> <<>>, scanned |-> 0,
           migrated |-> {}, failed |-> {}]

(* Dual mode is switched on over a Chroma collection and an empty Milvus.   *)
Init ==
    /\ \E old \in SUBSET Ids :
          /\ content = [s \in Stores |-> [i \in Ids |-> IF s = "chroma" /\ i \in old THEN 1 ELSE 0]]
          /\ latest = content["chroma"]
          /\ doubtful = old
    /\ writes = 0 /\ ops = {} /\ copy = NoCopy /\ quiet = TRUE

Read(batch) == {batch[k].id : k \in DOMAIN batch}
Disturbed(ids) == {IF op.id \in ids THEN [op EXCEPT !.alone = FALSE] ELSE op : op \in ops}

-----------------------------------------------------------------------------
Upsert == "upsert"
Delete == "delete"

\* Mutant: a record is deleted where it is read from.
StartsPreferred(kind, i) ==
    /\ writes < MaxWrites
    /\ writes' = writes + 1
    /\ latest' = [latest EXCEPT ![i] = IF kind = Upsert THEN writes + 2 ELSE 0]
    /\ ops' = Disturbed({i}) \cup
                {[no |-> writes, id |-> i, value |-> latest'[i], failed |-> {},
                  todo |-> IF kind = Upsert THEN Stores ELSE {"milvus"},
                  alone |-> (\A op \in ops : op.id # i) /\ i \notin Read(copy.batch)]}
    /\ quiet' = FALSE
    /\ UNCHANGED <<content, doubtful, copy>>

(* upsert or delete of one record: both stores are called (gather).         *)
Starts(kind, i) ==
    /\ writes < MaxWrites
    /\ writes' = writes + 1
    /\ latest' = [latest EXCEPT ![i] = IF kind = Upsert THEN writes + 2 ELSE 0]
    /\ ops' = Disturbed({i}) \cup
                {[no |-> writes, id |-> i, value |-> latest'[i], todo |-> Stores, failed |-> {},
                  alone |-> (\A op \in ops : op.id # i) /\ i \notin Read(copy.batch)]}
    /\ quiet' = FALSE
    /\ UNCHANGED <<content, doubtful, copy>>

(* A store takes the write, or its call fails: before or after that.        *)
Reaches(op, s, applied, fails) ==
    /\ s \in op.todo
    /\ applied \/ fails
    /\ content' = IF applied THEN [content EXCEPT ![s][op.id] = op.value] ELSE content
    /\ ops' = (ops \ {op}) \cup
                {[op EXCEPT !.todo = @ \ {s}, !.failed = IF fails THEN @ \cup {s} ELSE @]}
    /\ UNCHANGED <<writes, latest, doubtful, copy, quiet>>

(* Both calls are over.  A write that one store took is reported as done    *)
(* (DualWriteReport.degraded), one that both refused raises.               *)
Degraded(op) == op.failed # {}

Returns(op) ==
    /\ op.todo = {}
    /\ ops' = ops \ {op}
    /\ doubtful' = IF Degraded(op) \/ ~ op.alone THEN doubtful \cup {op.id}
                                                 ELSE doubtful \ {op.id}
    /\ UNCHANGED <<content, writes, latest, copy, quiet>>

-----------------------------------------------------------------------------
(* What Chroma holds, in the order of its pages.                           *)
Held(s) == {i \in Ids : content[s][i] # 0}
Position(s, i) == Cardinality({j \in Held(s) : j < i})

CopyStarts ==
    /\ copy.state = "none"
    /\ copy' = [copy EXCEPT !.state = "reading"]
    /\ quiet' = (ops = {})
    /\ UNCHANGED <<content, writes, ops, latest, doubtful>>

(* The next page of the source, counted from the records seen so far.       *)
Page == {i \in Held("chroma") : Position("chroma", i) \in copy.offset..(copy.offset + BatchSize - 1)}
Ordered(ids) == [k \in 1..Cardinality(ids) |->
                    CHOOSE i \in ids : Cardinality({j \in ids : j < i}) = k - 1]
Records(ids) == LET order == Ordered(ids) IN
                [k \in DOMAIN order |-> [id |-> order[k], value |-> content["chroma"][order[k]]]]

CopyReads ==
    /\ copy.state = "reading"
    /\ copy' = IF Page = {} THEN [copy EXCEPT !.state = "done"]
               ELSE [copy EXCEPT !.state = "writing", !.batch = Records(Page),
                                 !.offset = @ + Cardinality(Page),
                                 !.scanned = @ + Cardinality(Page)]
    /\ ops' = Disturbed(Page)
    /\ UNCHANGED <<content, writes, latest, doubtful, quiet>>

Written(batch) ==
    [i \in Ids |-> IF i \in Read(batch)
                   THEN (CHOOSE k \in DOMAIN batch : batch[k].id = i) ELSE 0]
Copied(batch) ==
    [content EXCEPT !["milvus"] =
        [i \in Ids |-> IF i \in Read(batch) THEN batch[Written(batch)[i]].value ELSE @[i]]]

(* The batch is upserted as a whole ...                                    *)
CopyWrites ==
    /\ copy.state = "writing"
    /\ content' = Copied(copy.batch)
    /\ copy' = [copy EXCEPT !.state = "reading", !.batch = <<>>,
                            !.migrated = @ \cup Read(copy.batch)]
    /\ UNCHANGED <<writes, ops, latest, doubtful, quiet>>

(* ... or, when that fails (having been applied or not), one by one.        *)
CopyFails(applied) ==
    /\ copy.state = "writing"
    /\ content' = IF applied THEN Copied(copy.batch) ELSE content
    /\ copy' = [copy EXCEPT !.state = "retrying"]
    /\ UNCHANGED <<writes, ops, latest, doubtful, quiet>>

Remaining == [copy EXCEPT
    !.batch = Tail(@), !.state = IF Len(copy.batch) = 1 THEN "reading" ELSE "retrying"]

(* Each record of a batch that failed is written by itself.                *)
Retry(succeeds, applied) ==
    /\ copy.state = "retrying"
    /\ succeeds => applied
    /\ LET record == Head(copy.batch) IN
       /\ content' = IF applied THEN [content EXCEPT !["milvus"][record.id] = record.value]
                                ELSE content
       /\ copy' = IF succeeds THEN [Remaining EXCEPT !.migrated = @ \cup {record.id}]
                              ELSE [Remaining EXCEPT !.failed = @ \cup {record.id}]
    /\ UNCHANGED <<writes, ops, latest, doubtful, quiet>>

(* rollback_vectors: the ids of the report that the target still holds are  *)
(* looked up, and then deleted.                                            *)
RollbackReads ==
    /\ copy.state = "done"
    /\ copy' = [copy EXCEPT !.state = "undoing",
                            !.batch = Records(copy.migrated \cap Held("milvus"))]
    /\ ops' = Disturbed(copy.migrated \cap Held("milvus"))
    /\ UNCHANGED <<content, writes, latest, doubtful, quiet>>

RollbackDeletes ==
    /\ copy.state = "undoing"
    /\ content' = [content EXCEPT !["milvus"] =
                      [i \in Ids |-> IF i \in Read(copy.batch) THEN 0 ELSE @[i]]]
    /\ doubtful' = doubtful \cup Read(copy.batch)
    /\ copy' = [copy EXCEPT !.state = "undone", !.batch = <<>>]
    /\ UNCHANGED <<writes, ops, latest, quiet>>

Next ==
    \/ \E kind \in {Upsert, Delete}, i \in Ids : Starts(kind, i)
    \/ \E op \in ops :
          \/ Returns(op)
          \/ \E s \in Stores, applied, fails \in BOOLEAN : Reaches(op, s, applied, fails)
    \/ CopyStarts \/ CopyReads \/ CopyWrites
    \/ \E applied \in BOOLEAN : CopyFails(applied)
    \/ \E succeeds, applied \in BOOLEAN : Retry(succeeds, applied)
    \/ RollbackReads \/ RollbackDeletes

Spec == Init /\ [][Next]_vars

-----------------------------------------------------------------------------
(* A read asks the preferred store and, only when that raises, the other.   *)
Answers(i) == {content[s][i] : s \in Stores}

(* validate_stores at rest.                                                *)
Missing == Held("chroma") \ Held("milvus")
Mismatched == {i \in Held("chroma") \cap Held("milvus") :
                  content["chroma"][i] # content["milvus"][i]}

TypeOK ==
    /\ content \in [Stores -> [Ids -> Versions]]
    /\ writes \in 0..MaxWrites
    /\ \A op \in ops : op.id \in Ids /\ op.value \in Versions /\ op.todo \cup op.failed \subseteq Stores
    /\ latest \in [Ids -> Versions]
    /\ doubtful \subseteq Ids /\ quiet \in BOOLEAN
    /\ copy.state \in {"none", "reading", "writing", "retrying", "done", "undoing", "undone"}
    /\ copy.migrated \cup copy.failed \subseteq Ids

(* Once a write went through undegraded and undisturbed, every read of that *)
(* record answers with it, whichever store it comes from: until a write of  *)
(* it is degraded, overtaken or undone.                                    *)
ReadsAgree ==
    \A i \in Ids \ doubtful : (\A op \in ops : op.id # i) => Answers(i) = {latest[i]}

(* A migration that nobody disturbed accounts for every record it was to    *)
(* copy: those it does not report as failed are in the target, unchanged.  *)
MigrationAccounts ==
    copy.state = "done" /\ quiet =>
        /\ copy.migrated \cup copy.failed = Held("chroma")
        /\ copy.migrated \cap copy.failed = {}
        /\ copy.migrated \cap (Missing \cup Mismatched) = {}
        /\ copy.scanned = Cardinality(Held("chroma"))

StoresAgree == ReadsAgree /\ MigrationAccounts
=============================================================================
