----------------------------- MODULE AnswerText -----------------------------
(***************************************************************************)
(* What the gateway sends to an agent and computes from its answer         *)
(* (agent/agent_http.go, model/agent.go), for the two APIs.  An answer is  *)
(* the sequence of its output items, or choices; an item has a type, a     *)
(* role and parts; a text is a sequence of tokens, one of which stands for *)
(* the prefix "MEDIA:".                                                    *)
(***************************************************************************)
EXTENDS Integers, SequencesExt, MessageText

(* The names of the parts' types in the dialect of an app. *)
PartFor(app, part) ==
  IF app = "OpenResponses" THEN part
  ELSE Part(IF part.type = "input_text" THEN "text" ELSE "image_url", part.val)

System(client, prompt) ==
  IF prompt = <<>> THEN <<>>
  ELSE <<[role |-> "system",
          content |-> <<Part(IF client = "OpenResponses" THEN "input_text" ELSE "text", prompt)>>]>>

User(parts) == <<[role |-> "user", content |-> parts]>>

(* A client for OpenResponses does not take the parts of a chat; one for   *)
(* ChatCompletions takes any and marshals them as they are.                *)
CanBuild(app, client) == client = "ChatCompletions" \/ app = "OpenResponses"

Request(client, prompt, parts) == System(client, prompt) \o User(parts)

-----------------------------------------------------------------------------
(* convertOutputItemToModel: no calls of tools, nobody else's messages.    *)
IsAssistantOutput(item) == item.type = "message" /\ item.role = "assistant"

(* parseResponse of the two builders.  An answer in the other dialect has  *)
(* no "output", or no "choices".                                           *)
ParseResponses(api, items) ==
  IF api = "OpenResponses"
    THEN FlattenSeq([i \in DOMAIN items |->
                       IF IsAssistantOutput(items[i]) THEN <<items[i]>> ELSE <<>>])
    ELSE <<>>

ParseChat(api, items) == IF api = "ChatCompletions" THEN items ELSE <<>>

(* The text of one item: its "output_text" parts in a row; for a choice    *)
(* the content, if that is a string.                                       *)
TextOf(item) ==
  FlattenSeq([i \in DOMAIN item.parts |->
                IF item.parts[i].type = "output_text" THEN item.parts[i].text ELSE <<>>])

(* Mistake: a newline is put before every message of either kind. *)
ResponsesContentByLines(items) == FlattenSeq([i \in DOMAIN items |-> <<"\n">> \o TextOf(items[i])])

(* GetContent of the two kinds of response.                                *)
ResponsesContent(items) == FlattenSeq([i \in DOMAIN items |-> TextOf(items[i])])

ChatContent(items) ==
  FlattenSeq([i \in DOMAIN items |->
                IF items[i].role = "assistant" THEN <<"\n">> \o TextOf(items[i]) ELSE <<>>])

GetContent(app, api, items) ==
  IF app = "ChatCompletions" THEN ChatContent(ParseChat(api, items))
                             ELSE ResponsesContent(ParseResponses(api, items))

-----------------------------------------------------------------------------
(* What ends a media path: the end of the line in a chat; else one of      *)
(* three of the blanks.                                                    *)
Separators(app) == IF app = "ChatCompletions" THEN {"\n"} ELSE {" ", "\t", "\n"}

AfterPrefix(text) ==
  LET at == SelectInSeq(text, LAMBDA t : t = "MEDIA:")
  IN  IF at = 0 THEN <<>> ELSE SubSeq(text, at + 1, Len(text))

PathStart(rest, separators) ==
  Min({i \in DOMAIN rest : rest[i] \notin separators} \cup {Len(rest) + 1})

(* Mistake: the path goes to the end of the text. *)
EndOfText(rest, separators) == Len(rest) + 1

PathEnd(rest, separators) ==
  Min({i \in DOMAIN rest : i > PathStart(rest, separators) /\ rest[i] \in separators}
      \cup {Len(rest) + 1})

(* extractMediaPath, the empty path if there is none. *)
MediaPath(text, separators) ==
  LET rest == AfterPrefix(text)
  IN  TrimSpace(SubSeq(rest, PathStart(rest, separators), PathEnd(rest, separators) - 1))
=============================================================================
