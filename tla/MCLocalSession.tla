--------------------------- MODULE MCLocalSession ---------------------------
(* Bounds for the model checker: run r, and run f as a child of it.         *)
EXTENDS LocalSession

(* A child is followed with its parent at rest: the two share nothing but   *)
(* the processes.                                                          *)
OneAtATime ==
    manifest["f"] # "new" =>
        /\ manifest["r"] \in {"succeeded", "awaiting_approval"}
        /\ ~ Busy("r") /\ ~ abandoned["r"] /\ ~ stop["r"]

(* The first run is r.                                                     *)
ParentFirst == manifest["r"] = "new" => manifest["f"] = "new"
=============================================================================
