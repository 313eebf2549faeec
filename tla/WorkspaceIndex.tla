--------------------------- MODULE WorkspaceIndex ---------------------------
(***************************************************************************)
(* The index of a workspace, .zhixiao/index.jsonl: index_workspace walks   *)
(* the text files, cuts them into chunks and rewrites the index in place,  *)
(* while the knowledge_search tool of another process reads it line by     *)
(* line and falls back to the project memory, knowledge.jsonl.             *)
(***************************************************************************)
EXTENDS Naturals, SequencesExt, FiniteSetsExt

CONSTANTS
    Files,      \* the text files of the workspace
    Texts,      \* the texts a file may have at first, sequences of Characters
    Edits,      \* the texts it may be given later
    Size,       \* CHUNK_CHARS
    Overlap,    \* CHUNK_OVERLAP
    MaxEdits,   \* bound on the changes made to the files
    MaxBuilds   \* bound on the calls of index_workspace

VARIABLES
    texts,      \* per file: its text, <<>> when it is empty, absent or too large
    build,      \* index_workspace under way
    index,      \* index.jsonl: its lines, whether the last one is torn, its rewrites
    vectors,    \* the chunks of the vector store, when the index is kept in one
    memory,     \* knowledge.jsonl: absent, broken, or whether it answers the query
    search,     \* the tool's search
    left        \* what is left of the two bounds

vars == <<texts, build, index, vectors, memory, search, left>>

(* A letter the query asks for, another one, and white space.               *)
Characters == {"q", "x", " "}
Matches(piece) == Contains(piece, "q")
Blank(text) == ToSet(text) \subseteq {" "}

(* The chunks of a text: windows that overlap, the blank ones left out, up  *)
(* to the first that reaches the end.                                      *)
Chunks(file, text) ==
    LET End(start) == Min({start + Size, Len(text)})
        Here(start) ==
            LET piece == SubSeq(text, start + 1, End(start))
            IN  IF Blank(piece) THEN <<>> ELSE <<[file |-> file, start |-> start, text |-> piece]>>
        from[start \in 0..Len(text)] ==
            Here(start) \o (IF End(start) = Len(text) THEN <<>>
                            ELSE from[Max({0, End(start) - Overlap})])
    IN  IF Blank(text) THEN <<>> ELSE from[0]

Memories == {"absent", "broken", "answers", "silent"}

Init ==
    /\ texts \in [Files -> Texts]
    /\ build = [state |-> "idle", into |-> "file", todo |-> {}, chunks |-> <<>>, fresh |-> FALSE]
    /\ index = [exists |-> FALSE, lines |-> <<>>, torn |-> FALSE, whole |-> FALSE, rewrites |-> 0]
    /\ vectors = {}
    /\ memory \in Memories
    /\ search = [state |-> "idle", pos |-> 0, hits |-> {}, calm |-> FALSE, opened |-> 0]
    /\ left = [edits |-> MaxEdits, builds |-> MaxBuilds]

-----------------------------------------------------------------------------
Edit(f, text) ==
    /\ left.edits > 0 /\ text # texts[f]
    /\ texts' = [texts EXCEPT ![f] = text]
    /\ left' = [left EXCEPT !.edits = @ - 1]
    /\ build' = [build EXCEPT !.fresh = FALSE]
    /\ UNCHANGED <<index, vectors, memory, search>>

BuildStarts(into) ==
    /\ build.state = "idle" /\ left.builds > 0
    /\ build' = [state |-> "reads", into |-> into, todo |-> Files, chunks |-> <<>>, fresh |-> TRUE]
    /\ left' = [left EXCEPT !.builds = @ - 1]
    /\ UNCHANGED <<texts, index, vectors, memory, search>>

(* A file that cannot be read is passed over in silence.                   *)
ReadsFile(f, readable) ==
    /\ build.state = "reads" /\ f \in build.todo
    /\ build' = [build EXCEPT
                    !.todo = @ \ {f},
                    !.chunks = IF readable THEN @ \o Chunks(f, texts[f]) ELSE @,
                    !.fresh = @ /\ readable]
    /\ UNCHANGED <<texts, index, vectors, memory, search, left>>

(* The records go to the store at once: what is there of older texts stays. *)
Upserts ==
    /\ build.state = "reads" /\ build.todo = {} /\ build.into = "store"
    /\ vectors' = vectors \cup ToSet(build.chunks)
    /\ build' = [build EXCEPT !.state = "idle"]
    /\ UNCHANGED <<texts, index, memory, search, left>>

\* Mutant: the index is opened to append to it.
OpensAppending ==
    /\ build.state = "reads" /\ build.todo = {} /\ build.into = "file"
    /\ index' = [index EXCEPT !.exists = TRUE, !.torn = FALSE, !.whole = FALSE, !.rewrites = @ + 1]
    /\ search' = [search EXCEPT !.calm = FALSE]
    /\ build' = [build EXCEPT !.state = "writes"]
    /\ UNCHANGED <<texts, vectors, memory, left>>

(* The index is opened for writing, which empties it.                      *)
Opens ==
    /\ build.state = "reads" /\ build.todo = {} /\ build.into = "file"
    /\ index' = [exists |-> TRUE, lines |-> <<>>, torn |-> FALSE, whole |-> FALSE,
                 rewrites |-> index.rewrites + 1]
    /\ search' = [search EXCEPT !.calm = FALSE]
    /\ build' = [build EXCEPT !.state = "writes"]
    /\ UNCHANGED <<texts, vectors, memory, left>>

(* The buffer reaches the disk where it happens to end: within a line.      *)
Flushes(torn) ==
    /\ build.state = "writes" /\ build.chunks # <<>>
    /\ torn => ~index.torn
    /\ IF torn THEN index' = [index EXCEPT !.torn = TRUE] /\ UNCHANGED build
       ELSE /\ index' = [index EXCEPT !.lines = Append(@, Head(build.chunks)), !.torn = FALSE]
            /\ build' = [build EXCEPT !.chunks = Tail(@)]
    /\ UNCHANGED <<texts, vectors, memory, search, left>>

Closes ==
    /\ build.state = "writes" /\ build.chunks = <<>>
    /\ index' = [index EXCEPT !.whole = TRUE]
    /\ build' = [build EXCEPT !.state = "idle"]
    /\ UNCHANGED <<texts, vectors, memory, search, left>>

BuildDies ==
    /\ build.state # "idle"
    /\ build' = [build EXCEPT !.state = "idle", !.chunks = <<>>, !.fresh = FALSE]
    /\ UNCHANGED <<texts, index, vectors, memory, search, left>>

-----------------------------------------------------------------------------
(* knowledge_search: the index is read if there is one.                    *)
SearchStarts ==
    /\ search.state = "idle"
    /\ search' = [state |-> IF index.exists THEN "reads" ELSE "falls back", pos |-> 0, hits |-> {},
                  calm |-> index.whole, opened |-> index.rewrites]
    /\ UNCHANGED <<texts, build, index, vectors, memory, left>>

(* The next line.  After a rewrite the reader stands anywhere: in the       *)
(* middle of a line too, which is no JSON.                                 *)
ReadsLine(lost) ==
    /\ search.state = "reads"
    /\ lost => search.opened # index.rewrites
    /\ search' =
         IF lost \/ (search.pos >= Len(index.lines) /\ index.torn)
         THEN [search EXCEPT !.state = "failed"]
         ELSE IF search.pos >= Len(index.lines)
              THEN [search EXCEPT !.state = IF search.hits # {} THEN "hits" ELSE "falls back"]
         ELSE LET line == index.lines[search.pos + 1]
              IN  [search EXCEPT !.pos = @ + 1,
                                 !.hits = IF Matches(line.text) THEN @ \cup {line} ELSE @]
    /\ UNCHANGED <<texts, build, index, vectors, memory, left>>

(* Without a hit the project memory is asked.                              *)
FallsBack ==
    /\ search.state = "falls back"
    /\ search' = [search EXCEPT !.state =
                    CASE memory = "absent" -> IF index.exists THEN "no evidence" ELSE "blocked"
                      [] memory = "broken" -> "failed"
                      [] memory = "answers" -> "memory hits"
                      [] OTHER -> "no evidence"]
    /\ UNCHANGED <<texts, build, index, vectors, memory, left>>

Answered == {"hits", "memory hits", "no evidence", "blocked", "failed"}

SearchEnds ==
    /\ search.state \in Answered
    /\ search' = [search EXCEPT !.state = "idle", !.hits = {}, !.pos = 0]
    /\ UNCHANGED <<texts, build, index, vectors, memory, left>>

Next ==
    \/ \E f \in Files : (\E text \in Edits : Edit(f, text)) \/ (\E b \in BOOLEAN : ReadsFile(f, b))
    \/ \E into \in {"file", "store"} : BuildStarts(into)
    \/ Upserts \/ Opens \/ Closes \/ BuildDies
    \/ \E b \in BOOLEAN : Flushes(b) \/ ReadsLine(b)
    \/ SearchStarts \/ FallsBack \/ SearchEnds

Spec == Init /\ [][Next]_vars

-----------------------------------------------------------------------------
TypeOK ==
    /\ \A f \in Files : ToSet(texts[f]) \subseteq Characters
    /\ build.state \in {"idle", "reads", "writes"} /\ build.todo \subseteq Files
    /\ index.rewrites \in 0..MaxBuilds /\ index.torn \in BOOLEAN
    /\ search.state \in {"idle", "reads", "falls back"} \cup Answered
    /\ left.edits \in 0..MaxEdits /\ left.builds \in 0..MaxBuilds

(* Every character that is not white space is in a chunk at its place.      *)
Covers(chunks, f) ==
    \A k \in DOMAIN texts[f] : texts[f][k] # " " =>
        \E c \in chunks : /\ c.file = f
                          /\ k - c.start \in DOMAIN c.text
                          /\ c.text[k - c.start] = texts[f][k]

(* Nothing the files no longer say is in a chunk.                          *)
Quotes(c) == c.text = SubSeq(texts[c.file], c.start + 1, c.start + Len(c.text))

(* An index whose rebuild was not overtaken holds every word of the files   *)
(* and nothing else, no chunk twice; the store holds every word too.  A     *)
(* search no rebuild wrote into answers with all matching chunks, asks the *)
(* memory only without one, and fails only when the memory is broken.      *)
IndexIsFaithful ==
    /\ build.state = "idle" /\ build.fresh /\ build.into = "file" =>
         /\ \A f \in Files : Covers(ToSet(index.lines), f)
         /\ \A c \in ToSet(index.lines) : Quotes(c)
         /\ IsInjective(index.lines)
    /\ build.state = "idle" /\ build.fresh /\ build.into = "store" =>
         \A f \in Files : Covers(vectors, f)
    /\ search.calm /\ search.state \in Answered =>
         LET hits == {c \in ToSet(index.lines) : Matches(c.text)}
         IN  /\ search.state = "hits" => search.hits = hits
             /\ search.state # "hits" => hits = {}
             /\ search.state = "failed" => memory = "broken"
=============================================================================
