------------------------------ MODULE Plugins ------------------------------
(***************************************************************************)
(* The composition of a local runtime from plugins: those built in, those   *)
(* of the user and those of a trusted workspace are listed, and applied    *)
(* when the services they inject are provided.  Any defect fails the load. *)
(***************************************************************************)
EXTENDS Naturals, Sequences, FiniteSets

CONSTANTS
    Plugins,    \* every plugin a tree may list: records as below
    Lists       \* the listings tried: what is built in or the user's own, and the workspace's

VARIABLES
    trusted,    \* whether the workspace is
    listed,     \* _PendingPlugin entries not looked at in this pass
    blocked,    \* those that miss a service, for the next pass
    progress,   \* whether this pass applied one
    applied,    \* host.plugins
    services,   \* host.services
    owners,     \* host.commands: which plugin has a name
    tree,       \* listing, loading, loaded or failed
    listing     \* history: what was listed at first

vars == <<trusted, listed, blocked, progress, applied, services, owners, tree, listing>>

(* A plugin by what matters here: its name and source, whether its module   *)
(* is sound and can be loaded, and what apply does: provide services,      *)
(* register names of commands, of which a lenient one skips those taken.    *)

(* Files of an untrusted workspace register nothing.                       *)
Names(p) == IF p.lenient /\ ~trusted THEN {} ELSE p.names
Free == "free"
CommandNames == UNION {p.names : p \in Plugins}

Init ==
    /\ trusted \in BOOLEAN
    /\ listing \in Lists
    /\ listed = <<>> /\ blocked = <<>> /\ applied = <<>>
    /\ progress = FALSE
    /\ services = {}
    /\ owners = [c \in CommandNames |-> Free]
    /\ tree = "listing"

-----------------------------------------------------------------------------
(* An untrusted workspace's plugins are not even imported.                 *)
Collected == IF trusted THEN listing.own \o listing.workspace ELSE listing.own

(* Manifests are read and modules imported, then names compared.           *)
Collects ==
    /\ tree = "listing"
    /\ listed' = Collected
    /\ tree' = IF /\ \A i \in 1..Len(Collected) : Collected[i].sound
                  /\ Cardinality({Collected[i].name : i \in 1..Len(Collected)})
                         = Len(Collected)
               THEN "loading" ELSE "failed"
    /\ UNCHANGED <<trusted, blocked, progress, applied, services, owners, listing>>

(* apply: a service provided twice or a name that is taken raises.          *)
Applicable(p) ==
    /\ p.provides \cap services = {}
    /\ p.lenient \/ \A c \in Names(p) : owners[c] = Free

Missing(p) == p.inject \ services

Applies ==
    LET p == Head(listed) IN
    /\ tree = "loading" /\ listed # <<>> /\ Missing(p) = {}
    /\ IF Applicable(p)
       THEN /\ services' = services \cup p.provides
            /\ owners' = [c \in CommandNames |->
                              IF c \in Names(p) /\ owners[c] = Free THEN p.name ELSE owners[c]]
            /\ applied' = Append(applied, p)
            /\ progress' = TRUE
            /\ UNCHANGED tree
       ELSE tree' = "failed" /\ UNCHANGED <<services, owners, applied, progress>>
    /\ listed' = Tail(listed)
    /\ UNCHANGED <<trusted, blocked, listing>>

Blocks ==
    /\ tree = "loading" /\ listed # <<>> /\ Missing(Head(listed)) # {}
    /\ blocked' = Append(blocked, Head(listed))
    /\ listed' = Tail(listed)
    /\ UNCHANGED <<trusted, progress, applied, services, owners, tree, listing>>

\* Mutant: a single pass.
AgainNever == FALSE

Again == progress

(* The end of a pass: those blocked are tried again if it applied any.      *)
PassEnds ==
    /\ tree = "loading" /\ listed = <<>>
    /\ tree' = IF blocked = <<>> THEN "loaded" ELSE IF Again THEN "loading" ELSE "failed"
    /\ listed' = blocked /\ blocked' = <<>>
    /\ progress' = FALSE
    /\ UNCHANGED <<trusted, applied, services, owners, listing>>

Next == Collects \/ Applies \/ Blocks \/ PassEnds

Spec == Init /\ [][Next]_vars

-----------------------------------------------------------------------------
TypeOK ==
    /\ trusted \in BOOLEAN /\ progress \in BOOLEAN
    /\ \A s \in {listed, blocked, applied, listing.own, listing.workspace} :
           \A i \in 1..Len(s) : s[i] \in Plugins
    /\ services \subseteq UNION {p.provides : p \in Plugins}
    /\ owners \in [CommandNames -> {p.name : p \in Plugins} \cup {Free}]
    /\ tree \in {"listing", "loading", "loaded", "failed"}

(* What a listing asks for, whatever its order: that no service or strict   *)
(* name is wanted by two, and that no plugins wait for each other or for   *)
(* a service that nobody provides.                                         *)
Asked == {Collected[i] : i \in 1..Len(Collected)}
Distinct ==
    /\ Cardinality(Asked) = Len(Collected)
    /\ \A p, q \in Asked : p # q =>
           /\ p.name # q.name /\ p.provides \cap q.provides = {}
           /\ Names(p) \cap Names(q) # {} => p.lenient \/ q.lenient
Orderable ==
    \A some \in SUBSET Asked : some # {} =>
        \E p \in some : p.inject \subseteq UNION {q.provides : q \in Asked \ some}

(* Loading ends as the set of plugins demands: they are loaded exactly if   *)
(* they can be composed, all of them, each after what it injects, with one *)
(* owner for every name; the order of the listing decides only whether a   *)
(* lenient plugin comes before a strict one of the same name, which fails. *)
ComposedByNeed ==
    /\ tree = "loaded" =>
           /\ {applied[i] : i \in 1..Len(applied)} = Asked
           /\ Distinct /\ Orderable
           /\ \A c \in CommandNames : owners[c] = Free <=> \A p \in Asked : c \notin Names(p)
    /\ \A i \in 1..Len(applied) :
           /\ applied[i].inject \subseteq UNION {applied[j].provides : j \in 1..(i - 1)}
           /\ applied[i].source = "workspace" => trusted
    /\ tree = "failed" =>
           \/ ~Distinct \/ ~Orderable
           \/ \E p \in Asked : ~p.sound
           \/ \E p, q \in Asked : p # q /\ p.lenient /\ ~q.lenient /\ Names(p) \cap Names(q) # {}
=============================================================================
