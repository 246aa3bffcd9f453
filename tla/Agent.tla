--------------------------------- MODULE Agent ---------------------------------
(***************************************************************************)
(* One conversation of the assistant with a model: runAgent                *)
(* (core/assistant/src/agent.ts) with the device tools                     *)
(* (core/assistant/src/tools.ts).  Operators on a record that stands for   *)
(* the conversation; Assistant says when the steps happen.                 *)
(*                                                                         *)
(* A message is its role, the question it belongs to and the names of the  *)
(* tools it calls or, for a result, of the tool that was called.  A call   *)
(* is a tool with its one argument that matters: a manifest or a path.     *)
(***************************************************************************)
EXTENDS Manifest

CONSTANTS
    MaxSteps,    \* maxSteps: the panel takes the default
    Readable     \* the paths that can be read

ASSUME StepsAssumption == MaxSteps \in Nat \ {0}

DeviceTools == {"read_device", "validate_manifest", "compile_manifest", "list_templates", "propose_device"}

Message(role, n, calls) == [role |-> role, of |-> n, calls |-> calls]
Question(n) == Message("user", n, <<>>)
Answer(n) == Message("assistant", n, <<>>)

StartRun(history, n) ==
    [of |-> n, messages |-> Append(history, Question(n)), calls |-> <<>>, proposals |-> <<>>,
     steps |-> 0, ended |-> FALSE]

Asking(run) == ~run.ended /\ run.calls = <<>>
Handling(run) == ~run.ended /\ run.calls # <<>>

(* The calls among the parts of what a provider answered: the texts are    *)
(* put together elsewhere, and what is not a record is passed over.        *)
parseToolCalls(parts) ==
    FoldLeft(LAMBDA calls, p : IF p.tool \in {"text", "malformed"} THEN calls ELSE Append(calls, p),
             <<>>, parts)

(* The provider has answered: with a text, which ends the run, or with the *)
(* tools it wants called.                                                  *)
Completed(run, calls) ==
    IF calls = <<>> THEN [run EXCEPT !.ended = TRUE]
    ELSE [run EXCEPT
             !.calls = calls,
             !.messages = Append(@, Message("assistant", run.of, [i \in 1..Len(calls) |-> calls[i].tool]))]

(* The gate: a proposal is only recorded when it compiles. *)
propose_device(proposals, yaml) == IF Valid(yaml) THEN Append(proposals, yaml) ELSE proposals

(* Mutant: a tool that fails or is not known gives no result. *)
Result_OnlyGood(run, call) ==
    IF call.tool \notin DeviceTools \/ (call.tool = "read_device" /\ call.arg \notin Readable) THEN <<>>
    ELSE <<Message("tool", run.of, <<call.tool>>)>>

(* Every call has a result: what the tool says, or an error. *)
Result(run, call) == <<Message("tool", run.of, <<call.tool>>)>>

(* The next call of a turn; with the last one the step is over. *)
Handled(run) ==
    LET call == Head(run.calls)
        last == Len(run.calls) = 1 IN
    [of |-> run.of,
     messages |-> run.messages \o Result(run, call),
     calls |-> Tail(run.calls),
     proposals |-> IF call.tool = "propose_device" THEN propose_device(run.proposals, call.arg)
                   ELSE run.proposals,
     steps |-> IF last THEN run.steps + 1 ELSE run.steps,
     ended |-> last /\ run.steps + 1 = MaxSteps]

--------------------------------------------------------------------------------
(* What is sent to the providers (core/assistant/src/providers).  For two   *)
(* of them a message becomes blocks of one of two roles, and neighbours of *)
(* one role become one message.                                            *)
Block(type, tool) == [type |-> type, tool |-> tool]

blocksFor(m) ==
    CASE m.role = "user" -> <<Block("text", "none")>>
      [] m.role = "assistant" /\ m.calls = <<>> -> <<Block("text", "none")>>
      [] m.role = "assistant" /\ m.calls # <<>> -> [i \in 1..Len(m.calls) |-> Block("tool_use", m.calls[i])]
      [] m.role = "tool" -> <<Block("tool_result", m.calls[1])>>

Sent(m) == [role |-> IF m.role = "assistant" THEN "assistant" ELSE "user", content |-> blocksFor(m)]

Joined(out, m) ==
    IF out # <<>> /\ Last(out).role = m.role
    THEN [out EXCEPT ![Len(out)].content = @ \o m.content]
    ELSE Append(out, m)

Merged(sent) == FoldLeft(LAMBDA out, m : Joined(out, m), <<>>, sent)

toAnthropicMessages(messages) == Merged([i \in 1..Len(messages) |-> Sent(messages[i])])

(* Gemini has no ids: the name of the tool goes with the result. *)
partsFor(m) ==
    CASE m.role = "tool" -> [role |-> "user", content |-> <<Block("functionResponse", m.calls[1])>>]
      [] m.role = "assistant" ->
            [role |-> "model",
             content |-> IF m.calls = <<>> THEN <<Block("text", "none")>>
                         ELSE [i \in 1..Len(m.calls) |-> Block("functionCall", m.calls[i])]]
      [] m.role = "user" -> [role |-> "user", content |-> <<Block("text", "none")>>]

toContents(messages) == Merged([i \in 1..Len(messages) |-> partsFor(messages[i])])

(* With OpenAI every result is a message of its own. *)
toOpenAiMessages(messages) ==
    <<[role |-> "system", calls |-> <<>>]>>
        \o [i \in 1..Len(messages) |-> [role |-> messages[i].role, calls |-> messages[i].calls]]

(* The tools of the blocks of a type, in order. *)
ToolsOf(content, type) ==
    FoldLeft(LAMBDA tools, b : IF b.type = type THEN Append(tools, b.tool) ELSE tools,
             <<>>, content)

(* A message at i answers the tools called before it: with their results   *)
(* in the order of the calls and nothing else, or with no result at all.   *)
Answers(out, i, call, result) ==
    LET called == IF i = 1 THEN <<>> ELSE ToolsOf(out[i - 1].content, call)
        results == ToolsOf(out[i].content, result)
    IN results = called /\ (called # <<>> => Len(out[i].content) = Len(results))

(* What a provider of two roles accepts: they alternate and begin and end  *)
(* with the user, and every call is answered by the message after it.      *)
Alternating(out, model, call, result) ==
    /\ out # <<>> /\ Last(out).role = "user"
    /\ \A i \in 1..Len(out) :
          /\ out[i].role = (IF i % 2 = 1 THEN "user" ELSE model)
          /\ Answers(out, i, call, result)

(* What OpenAI accepts: behind a message with calls their results, one     *)
(* message each, and no result anywhere else.                              *)
EachAnswered(out) ==
    /\ Last(out).role \in {"user", "tool"}
    /\ \A i \in 1..Len(out) :
          /\ out[i].role = "assistant" =>
                \A k \in 1..Len(out[i].calls) :
                    i + k <= Len(out) /\ out[i + k].role = "tool" /\ out[i + k].calls = <<out[i].calls[k]>>
          /\ out[i].role = "tool" =>
                \E k \in 1..(i - 1) : out[i - k].role = "assistant" /\ k <= Len(out[i - k].calls)

(* Any of the providers takes these messages. *)
Acceptable(messages) ==
    /\ Alternating(toAnthropicMessages(messages), "assistant", "tool_use", "tool_result")
    /\ Alternating(toContents(messages), "model", "functionCall", "functionResponse")
    /\ EachAnswered(toOpenAiMessages(messages))
================================================================================
