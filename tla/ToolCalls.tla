----------------------------- MODULE ToolCalls -----------------------------
(***************************************************************************)
(* The tool calls of one model turn: those of a batch that only reads run  *)
(* at once, any other batch call by call.  Around each call run the        *)
(* workspace's hooks (HookedToolRegistry); the file tools do their work in *)
(* a thread, which nobody can cancel.                                      *)
(***************************************************************************)
EXTENDS Naturals, SequencesExt

CONSTANTS
    Batches,    \* the batches a model may ask for: sequences of calls
    Settings    \* permission, trust, and the number of hooks before and after a tool

VARIABLES
    batch,      \* the calls of the turn
    setting,    \* the run's settings
    file,       \* the file the calls are about: Absent, or a text of the words a and b
    at,         \* per call: how far it is
    result,     \* per call: none, ok or error
    taken,      \* per call: the text its thread has read
    cancelled,  \* the run was cancelled
    meddled,    \* history: someone else changed the file
    effects     \* history: the calls that changed the file, in order

vars == <<batch, setting, file, at, result, taken, cancelled, meddled, effects>>

(* A call: its tool, what the model asked of it, and whether the agent may  *)
(* use that tool (one advertised to it, and registered).                   *)
Absent == <<"absent">>
Contents == {Absent, <<"a">>, <<"a", "b">>}
Calls == DOMAIN batch
ReadOnly(c) == c.tool = "read"
MayWrite == setting.permission # "read_only"
MayHook == setting.trusted /\ setting.permission \in {"execute", "full"}

Init ==
    /\ batch \in Batches /\ setting \in Settings
    /\ file \in Contents
    /\ at = [k \in Calls |-> "waits"]
    /\ result = [k \in Calls |-> "none"]
    /\ taken = [k \in Calls |-> Absent]
    /\ cancelled = FALSE /\ meddled = FALSE
    /\ effects = <<>>

-----------------------------------------------------------------------------
Goes(k, from, to) ==
    /\ ~cancelled /\ at[k] = from
    /\ at' = [at EXCEPT ![k] = to]
    /\ UNCHANGED <<batch, setting, cancelled, meddled>>

Reports(k, r) == result' = [result EXCEPT ![k] = r]
Undone == UNCHANGED <<file, taken, effects>>

\* Mutant: the calls of every batch are gathered.
BeginsGathered(k) == Goes(k, "waits", "before") /\ UNCHANGED result /\ Undone

(* gather for a batch of reads, otherwise the next call after the last.     *)
Begins(k) ==
    /\ (\A j \in Calls : ReadOnly(batch[j])) \/ (\A j \in 1..(k - 1) : at[j] = "over")
    /\ Goes(k, "waits", "before")
    /\ UNCHANGED result /\ Undone

(* run_hooks: without trust or permission, or at the first hook that fails. *)
HooksFail(n) == n > 0

Refused(k) ==
    /\ HooksFail(setting.before)
    /\ Goes(k, "before", "over")
    /\ Reports(k, "error") /\ Undone

(* The hooks before the tool have succeeded; a tool the agent may not use,  *)
(* or does not have, is an error, and so is a write that is not permitted, *)
(* a file that is not there, or one that is there already.                 *)
Looks(k) ==
    /\ setting.before > 0 => MayHook
    /\ LET c == batch[k]
           fits == /\ c.allowed
                   /\ c.tool \in {"edit", "write"} => MayWrite
                   /\ c.tool \in {"read", "edit"} => file # Absent
                   /\ c.tool = "write" => file = Absent \/ c.overwrite
       IN  IF fits THEN Goes(k, "before", "thread") /\ UNCHANGED result
           ELSE Goes(k, "before", "after") /\ Reports(k, "error")
    /\ Undone

(* A thread, which goes on when the run is cancelled, has read the file: by *)
(* now it may be gone.                                                     *)
ThreadReads(k, next) ==
    /\ at[k] = "thread"
    /\ taken' = [taken EXCEPT ![k] = file]
    /\ at' = [at EXCEPT ![k] = next]
    /\ UNCHANGED <<batch, setting, file, cancelled, meddled, effects>>

Reads(k) ==
    /\ ReadOnly(batch[k])
    /\ ThreadReads(k, "after")
    /\ Reports(k, IF file = Absent THEN "error" ELSE "ok")

(* exact_edit wants its text once, or wherever it is.                      *)
ReadsToEdit(k) ==
    /\ batch[k].tool = "edit"
    /\ LET hits == Len(SelectSeq(file, LAMBDA word : word = "a"))
       IN  IF hits = 1 \/ (hits > 1 /\ batch[k].all)
           THEN ThreadReads(k, "writes") /\ UNCHANGED result
           ELSE ThreadReads(k, "after") /\ Reports(k, "error")

(* What a call leaves of the text it has read: the words replaced, or the   *)
(* text written.                                                           *)
Left(c, text) ==
    IF c.tool = "write" THEN c.text ELSE [i \in DOMAIN text |-> "b"]

Writes(k) ==
    /\ at[k] = IF batch[k].tool = "write" THEN "thread" ELSE "writes"
    /\ batch[k].tool \in {"edit", "write"}
    /\ file' = Left(batch[k], taken[k])
    /\ at' = [at EXCEPT ![k] = "after"]
    /\ Reports(k, "ok")
    /\ effects' = Append(effects, k)
    /\ UNCHANGED <<batch, setting, taken, cancelled, meddled>>

(* The system refuses a write half-way: the file is emptied and no more.    *)
WriteFails(k) ==
    /\ at[k] = IF batch[k].tool = "write" THEN "thread" ELSE "writes"
    /\ batch[k].tool \in {"edit", "write"}
    /\ file' = <<>>
    /\ at' = [at EXCEPT ![k] = "after"]
    /\ Reports(k, "error")
    /\ meddled' = TRUE
    /\ UNCHANGED <<batch, setting, taken, cancelled, effects>>

(* After the tool the hooks run whatever came of it, and decide the result. *)
Passes(k) ==
    /\ setting.after > 0 => MayHook
    /\ Goes(k, "after", "over")
    /\ UNCHANGED result /\ Undone

Fails(k) ==
    /\ HooksFail(setting.after)
    /\ Goes(k, "after", "over")
    /\ Reports(k, "error") /\ Undone

-----------------------------------------------------------------------------
Cancel ==
    /\ ~cancelled /\ \E k \in Calls : at[k] # "over"
    /\ cancelled' = TRUE
    /\ UNCHANGED <<batch, setting, file, at, result, taken, meddled, effects>>

(* The user's editor, or a command left running in the background.          *)
Meddles(text) ==
    /\ ~meddled /\ text # file
    /\ file' = text
    /\ meddled' = TRUE
    /\ UNCHANGED <<batch, setting, at, result, taken, cancelled, effects>>

Next ==
    \/ \E k \in Calls :
          \/ Begins(k) \/ Refused(k) \/ Looks(k)
          \/ Reads(k) \/ ReadsToEdit(k) \/ Writes(k) \/ WriteFails(k)
          \/ Passes(k) \/ Fails(k)
    \/ Cancel
    \/ \E text \in {Absent, <<"a", "a">>} : Meddles(text)

Spec == Init /\ [][Next]_vars

-----------------------------------------------------------------------------
TypeOK ==
    /\ batch \in Batches /\ setting \in Settings
    /\ at \in [Calls -> {"waits", "before", "thread", "writes", "after", "over"}]
    /\ result \in [Calls -> {"none", "ok", "error"}]
    /\ cancelled \in BOOLEAN /\ meddled \in BOOLEAN
    /\ ToSet(effects) \subseteq Calls

(* The calls of a batch that writes take effect in the model's order, each  *)
(* on what the one before it left, unless another hand was in the file: a  *)
(* text it holds is the one its predecessors made.  A call reported as done *)
(* had every hook's consent and did its work, one refused by a hook before *)
(* it did none; nothing is written that the permission does not allow; and *)
(* of a cancelled batch at most the call under way still writes.           *)
CallsTakeEffectInOrder ==
    /\ \A i \in 1..(Len(effects) - 1) : effects[i] < effects[i + 1]
    /\ ~meddled => \A k \in Calls : at[k] = "writes" =>
                      taken[k] = file /\ \A j \in ToSet(effects) : j < k
    /\ \A k \in Calls :
          /\ result[k] = "ok" /\ ~ReadOnly(batch[k]) => k \in ToSet(effects)
          /\ result[k] = "ok" /\ at[k] = "over" /\ setting.before + setting.after > 0 => MayHook
          /\ k \in ToSet(effects) => MayWrite /\ batch[k].allowed
    /\ Cardinality({k \in Calls : at[k] \in {"thread", "writes"} /\ ~ReadOnly(batch[k])}) <= 1
=============================================================================
