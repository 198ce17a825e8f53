----------------------------- MODULE MCOutbound -----------------------------
(* A small instance of Outbound for TLC. *)
EXTENDS Outbound

\* Every combination of the headers that matter to each other, and all at once.
Mattering == {"x-opencode-session", "x-opencode-request", "x-session-affinity", "x-session-id",
            "User-Agent", "Authorization"}
HeaderSets == SUBSET Mattering \cup {Mattering \cup Forwarded}

\* What the patterns find, among the words of this instance.
SomeThinkingWords == {"deepseek", "DeepSeek", "kimi", "k2", "k2.5", "minimax", "mimo"}

\* An alias of a thinking model, one of another, a thinking model that is in no
\* table, a level that is not in the table, a name that only resembles one that
\* thinks, and no model.
SomeModels == {<<"deepseek", "v4", "flash", "high">>, <<"hy3", "none">>, <<"DeepSeek", "V3">>,
               <<"k2.5">>, <<"hy3", "max">>, <<"k25">>, <<>>}
SomeTurns == [1..1 -> Turn]
             \cup {<<[role |-> "developer", reasoning |-> "text"], [role |-> "assistant", reasoning |-> r]>> :
                      r \in {"absent", "text"}}
Objects ==
    {[kind |-> "object", model |-> model, metadata |-> metadata, effort |-> effort,
      messages |-> "list", turns |-> turns] :
        model \in SomeModels, metadata \in BOOLEAN, effort \in {"absent", "low"}, turns \in SomeTurns}
    \cup {[Plain("object") EXCEPT !.messages = "malformed", !.model = model, !.turns = turns] :
            model \in SomeModels,
            turns \in {<<>>, <<[role |-> "developer", reasoning |-> "text"],
                            [role |-> "assistant", reasoning |-> "absent"]>>}}
    \cup {[Plain("object") EXCEPT !.messages = "absent", !.model = model] : model \in SomeModels}
Bodies == Objects \cup {Plain("blank"), Plain("opaque")}

\* Bodies and headers have nothing to do with each other.
SomeRequests ==
    {[body |-> b, names |-> {}] : b \in Bodies}
    \cup {[body |-> Plain("blank"), names |-> names] : names \in HeaderSets}
=============================================================================
