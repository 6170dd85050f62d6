------------------------------ MODULE Backends ------------------------------
(***************************************************************************)
(* How the conversation reaches a model (void_mind/backends.py).  The      *)
(* agent keeps one normalized history; each backend translates it to its   *)
(* provider's shape.  The OpenAI and Ollama shapes keep one message per    *)
(* message, where a result names the call it answers by id or by tool; the *)
(* Anthropic shape gathers the results of a reply in one user message.     *)
(* The translations are operators on the history of Mind.                  *)
(***************************************************************************)
EXTENDS Integers, Sequences, SequencesExt

CONSTANT Tools   \* names of tools a reply may call

(* A message without its text: `calls` are the tools an assistant calls,   *)
(* in order, their ids being their places; a tool message has the `id` and *)
(* the tool of the call it answers, any other message 0 and "".            *)
Message == [role : {"user", "assistant", "tool"}, calls : Seq(Tools), id : Nat,
            name : Tools \cup {""}]

Say(role, calls, id, name) == [role |-> role, calls |-> calls, id |-> id, name |-> name]

(* The translations.  A message of a provider: `list` tells whether its    *)
(* content is a list of blocks, `uses` and `results` are the tool calls    *)
(* made and answered in it.                                                *)
Wire(role, list, uses, results) ==
    [role |-> role, list |-> list, uses |-> uses, results |-> results]

PerMessage(ms, result(_)) ==
    [i \in 1 .. Len(ms) |->
        Wire(ms[i].role, FALSE, ms[i].calls,
             IF ms[i].role = "tool" THEN <<result(ms[i])>> ELSE <<>>)]

(* OpenAIBackend.chat: a result has its tool_call_id.                      *)
openai(ms) == PerMessage(ms, LAMBDA m : m.id)

(* OllamaBackend.chat: calls go without ids, a result has its tool_name.   *)
ollama(ms) == PerMessage(ms, LAMBDA m : m.name)

(* Mutant: every result becomes a message.                                 *)
joinsNever(amsgs) == FALSE

(* A result joins the last message when that one is a list of the user.    *)
joins(amsgs) == amsgs # <<>> /\ Last(amsgs).role = "user" /\ Last(amsgs).list

(* Mutant: the new block replaces the list.                                *)
withBlockReplaced(w, id) == [w EXCEPT !.results = <<id>>]

withBlock(w, id) == [w EXCEPT !.results = Append(@, id)]

(* AnthropicBackend.chat, one message.                                     *)
translated(amsgs, m) ==
    CASE m.role = "user" -> Append(amsgs, Wire("user", FALSE, <<>>, <<>>))
      [] m.role = "assistant" ->
           Append(amsgs, Wire("assistant", TRUE, m.calls, <<>>))
      [] m.role = "tool" ->
           IF joins(amsgs)
             THEN Append(Front(amsgs), withBlock(Last(amsgs), m.id))
             ELSE Append(amsgs, Wire("user", TRUE, <<>>, <<m.id>>))

anthropic(ms) ==
    LET amsgs[i \in 0 .. Len(ms)] == IF i = 0 THEN <<>> ELSE translated(amsgs[i - 1], ms[i])
    IN  amsgs[Len(ms)]

(* The tool that result i of an id-keyed conversation belongs to: that of  *)
(* the call with its id in the reply before it.                            *)
ToolOf(o, i) ==
    LET reply == CHOOSE j \in 1 .. i - 1 :
                    /\ o[j].role = "assistant"
                    /\ \A k \in j + 1 .. i - 1 : o[k].role # "assistant"
    IN  o[reply].uses[o[i].results[1]]

(* A provider message without its grouping: one entry per normalized one.  *)
Ungrouped(w) ==
    IF w.results = <<>> THEN <<[w EXCEPT !.list = FALSE]>>
    ELSE [k \in 1 .. Len(w.results) |-> Wire("tool", FALSE, <<>>, <<w.results[k]>>)]
=============================================================================
