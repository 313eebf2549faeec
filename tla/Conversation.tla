---------------------------- MODULE Conversation ----------------------------
(***************************************************************************)
(* The messages sent to a model: by the graph of a run, by a role of a     *)
(* team, and by a sub-agent.  A conversation over its budget is compacted  *)
(* before the next turn: its older messages become one summary.            *)
(***************************************************************************)
EXTENDS Naturals, Sequences, SequencesExt

CONSTANTS
    Keep,           \* messages kept verbatim: keep_pairs, twice
    MaxTurns,       \* turns followed
    MaxCalls        \* tool calls of a turn, tests of a verification

VARIABLES
    speaker,    \* "graph", "role" or "child"
    messages,   \* the conversation
    turns,      \* its turns
    said        \* history: how many messages it was ever given

vars == <<speaker, messages, turns, said>>

(* What tells messages apart: their role, for a tool result how many        *)
(* messages before it its assistant was, for an assistant its calls, and    *)
(* which of all messages said they hold: a summary one bullet of each.      *)
Message(role, n, nth) == [role |-> role, n |-> n, holds |-> <<nth>>]
Immutable == {"system", "request"}
Held(conversation) ==
    FlattenSeq([i \in 1..Len(conversation) |-> conversation[i].holds])

(* A role's prompt carries none of the markers of a request.               *)
Init ==
    /\ speaker \in {"graph", "role", "child"}
    /\ messages = <<Message("system", 0, 1),
                    Message(IF speaker = "graph" THEN "request" ELSE "user", 0, 2)>>
    /\ turns = 0
    /\ said = 2

-----------------------------------------------------------------------------
(* How many messages come before the first that may be summarised.          *)
Split(conversation) ==
    CHOOSE k \in 0..Len(conversation) :
        /\ \A i \in 1..k : conversation[i].role \in Immutable
        /\ k < Len(conversation) => conversation[k + 1].role \notin Immutable

Leading(conversation) == SubSeq(conversation, 1, Split(conversation))
Body(conversation) == SubSeq(conversation, Split(conversation) + 1, Len(conversation))

\* Mutant: the cut may separate tool results from their assistant.
CutAnywhere(body) == Len(body) - Keep

(* The cut walks back to an assistant over its tool results.               *)
Cut(body) ==
    LET cuts == {c \in 0..(Len(body) - Keep) : c = 0 \/ body[c + 1].role # "tool"}
    IN  CHOOSE c \in cuts : \A d \in cuts : d <= c

(* compact_messages: with nothing older than what is kept, as it was.       *)
Compacted(conversation) ==
    LET body == Body(conversation)
        cut == IF Len(body) <= Keep THEN 0 ELSE Cut(body)
        summary == [role |-> "summary", n |-> 0, holds |-> Held(SubSeq(body, 1, cut))]
    IN  IF cut = 0 THEN conversation
        ELSE Leading(conversation) \o <<summary>> \o SubSeq(body, cut + 1, Len(body))

(* The budget counts characters; a sub-agent has none.                     *)
Sendable == {messages} \cup (IF speaker = "child" THEN {} ELSE {Compacted(messages)})

Spoken(conversation, roles) ==
    conversation \o [i \in 1..Len(roles) |-> Message(roles[i].role, roles[i].n, said + i)]

(* A model turn and the results of all its tool calls, in their order.      *)
Turn(calls) ==
    /\ turns < MaxTurns
    /\ \E sent \in Sendable :
           messages' = Spoken(sent, <<[role |-> "assistant", n |-> calls]>> \o
                                    [i \in 1..calls |-> [role |-> "tool", n |-> i]])
    /\ turns' = turns + 1
    /\ said' = said + calls + 1
    /\ UNCHANGED speaker

(* The model fails: a role keeps what it compacted, the graph what it had.  *)
TurnFails ==
    /\ turns < MaxTurns
    /\ messages' \in (IF speaker = "role" THEN Sendable ELSE {messages})
    /\ turns' = MaxTurns
    /\ UNCHANGED <<speaker, said>>

(* Verification adds the outcome of each test command.                     *)
Verifies(tests) ==
    /\ speaker = "graph" /\ 0 < turns /\ turns < MaxTurns
    /\ Last(messages).role # "user"
    /\ messages' = Spoken(messages, [i \in 1..tests |-> [role |-> "user", n |-> 0]])
    /\ said' = said + tests
    /\ UNCHANGED <<speaker, turns>>

Next ==
    \/ \E calls \in 0..MaxCalls : Turn(calls)
    \/ \E tests \in 1..MaxCalls : Verifies(tests)
    \/ TurnFails

Spec == Init /\ [][Next]_vars

-----------------------------------------------------------------------------
TypeOK ==
    /\ speaker \in {"graph", "role", "child"}
    /\ turns \in 0..MaxTurns /\ said \in Nat
    /\ \A i \in 1..Len(messages) :
           /\ messages[i].role \in Immutable \cup {"user", "assistant", "tool", "summary"}
           /\ messages[i].n \in 0..MaxCalls

(* What a model is sent always is a conversation: every tool result comes   *)
(* after the assistant that called for it and the results before it, every *)
(* assistant with all its results.  However often it was compacted, it     *)
(* still holds everything that was said, once and in order, at most one    *)
(* summary in it, and the request of a run verbatim.                       *)
ConversationIsSound ==
    /\ \A i \in 1..Len(messages) :
           /\ messages[i].role = "tool" =>
                  LET asker == i - messages[i].n IN
                  asker > 0 /\ messages[asker].role = "assistant"
                            /\ messages[i].n <= messages[asker].n
           /\ messages[i].role = "assistant" =>
                  \A j \in 1..messages[i].n :
                      i + j <= Len(messages) /\ messages[i + j].role = "tool"
                                             /\ messages[i + j].n = j
    /\ Held(messages) = [i \in 1..said |-> i]
    /\ \A i, j \in 1..Len(messages) :
           messages[i].role = "summary" /\ messages[j].role = "summary" => i = j
    /\ speaker = "graph" => messages[2].role = "request"
=============================================================================
