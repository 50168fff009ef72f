------------------------------ MODULE Content -------------------------------
(***************************************************************************)
(* The way of one message's data through the gateway: the encrypted body   *)
(* becomes an event, the event's content the parts of a message, the parts *)
(* a request to the agent, and the agent's answer the text and the file    *)
(* of the reply.  The computations are in MessageText and AnswerText; here *)
(* they are done in the order and under the conditions of HandleCallback,  *)
(* handleMessageEvent and processMessageAsync.  Input is chosen when it is *)
(* first read, and forgotten where it goes out of scope.                   *)
(***************************************************************************)
EXTENDS AnswerText, FiniteSets

CONSTANTS Bodies,    \* encrypted bodies, decoded
          Events,    \* chat type, message type and mentions of a message
          BotNames,  \* what bot_name may be, "" included
          Contents,  \* Contents[t]: contents of messages of type t
          Prompts,   \* system prompts, <<>> for none
          Answers    \* Answers[t]: items of answers of the API t

(* What Feishu sends: a mention is of a user or a bot, or has no type in   *)
(* older events, and its placeholder is a token of its own; the content of *)
(* a text message is a JSON object without blanks around it, or does not   *)
(* look like one even when something is cut out of it; only that of a post *)
(* has blocks.  An answer is what the structs of model/agent.go hold of it.*)
Mention == [key : Token \ (Blank \cup {"", Open, Close}),
            type : {"", "bot", "user"}, name : STRING]

Block == [isList : BOOLEAN, items : Seq([tag : STRING, val : Seq(Token)])]
AnswerItem == [type : STRING, role : STRING,
               parts : Seq([type : STRING, text : Seq(Token)])]

ASSUME ContentAssumption ==
  /\ Bodies \subseteq Seq(Nat)
  /\ \A e \in Events : e.mentions \in Seq(Mention)
  /\ Contents["text"] \subseteq [json : Seq(Token), imageKey : {<<>>}, blocks : {<<>>}]
  /\ \A c \in Contents["text"] : IsQuoted(c.json) \/ Open \notin ToSet(c.json)
  /\ \A e \in Events : \A c \in Contents[e.type] :
       /\ c.imageKey \in Seq(Token)
       /\ IF e.type = "post" THEN c.blocks \in Seq(Block) ELSE c.blocks = <<>>
  /\ \A t \in {"ChatCompletions", "OpenResponses"} : Answers[t] \subseteq Seq(AnswerItem)

VARIABLES pc,       \* the next step, or how the message ended
          bytes,    \* the body to decrypt
          botName,  \* app.BotName
          event,    \* the event, NoEvent before and after
          content,  \* the message's content
          parts,    \* contentParts
          app,      \* app.Agent.Type, "" until it is read
          client,   \* type of the cached client, likewise
          failed,   \* history: parts whose image could not be downloaded
          request,  \* messages of the request to the agent
          answer,   \* items of the agent's answer
          reply,    \* replyContent
          file      \* filePath

vars == <<pc, bytes, botName, event, content, parts, app, client, failed,
          request, answer, reply, file>>
inbound == <<botName, event, content, parts>>
outbound == <<app, client, failed, request, answer, reply, file>>

Types == {"ChatCompletions", "OpenResponses"}
NoEvent == [chatType |-> "", type |-> "", mentions |-> <<>>]
NoContent == [json |-> <<>>, imageKey |-> <<>>, blocks |-> <<>>]

Init ==
  /\ pc = "body" /\ bytes \in Bodies
  /\ botName \in BotNames /\ event = NoEvent /\ content = NoContent /\ parts = <<>>
  /\ app = "" /\ client = ""
  /\ failed = {} /\ request = <<>> /\ answer = <<>> /\ reply = <<>> /\ file = <<>>

(* DecryptAES256CBC: an error is answered 400, a panic 500. *)
DecryptFails == /\ pc = "body"
                /\ \/ TooShort(bytes) /\ pc' = "undecrypted"
                   \/ ~TooShort(bytes) /\ CryptBlocksPanics(bytes) /\ pc' = "panicked"
                   \/ /\ ~TooShort(bytes) /\ ~CryptBlocksPanics(bytes)
                      /\ ~WellPadded(Ciphertext(bytes)) /\ pc' = "undecrypted"
                /\ UNCHANGED <<bytes, inbound, outbound>>

Decrypt == /\ pc = "body" /\ ~TooShort(bytes) /\ ~CryptBlocksPanics(bytes)
           /\ WellPadded(Ciphertext(bytes))
           /\ pc' = "plaintext" /\ bytes' = Unpad(Ciphertext(bytes))
           /\ UNCHANGED <<inbound, outbound>>

(* shouldProcessMessage. *)
ShouldProcess(e) == IsDM(e.chatType) \/ IsBotMentioned(e.mentions, botName)

Ignore(e) == /\ pc = "plaintext" /\ ~ShouldProcess(e)
             /\ pc' = "ignored" /\ bytes' = <<>>
             /\ UNCHANGED <<inbound, outbound>>

Take(e) == /\ pc = "plaintext" /\ ShouldProcess(e)
           /\ pc' = "event" /\ bytes' = <<>> /\ event' = e
           /\ UNCHANGED <<botName, content, parts, outbound>>

(* The mention is cut out of the JSON, and only that of a text message.    *)
WithoutMention(c) ==
  IF event.type # "text" \/ BotMentionKey(event.mentions, botName) = "" THEN c
  ELSE [c EXCEPT !.json = StripBotMention(@, BotMentionKey(event.mentions, botName))]

Parse(c) == /\ pc = "event"
            /\ content' = c
            /\ parts' = ParseMessageContent(WithoutMention(c), event.type)
            /\ pc' = IF parts' = <<>> THEN "refused" ELSE "parsed"
            /\ UNCHANGED <<bytes, botName, event, outbound>>

-----------------------------------------------------------------------------
(* The worker: images that cannot be downloaded are left out.              *)
Downloaded(a, lost) ==
  FlattenSeq([i \in DOMAIN parts |-> IF i \in lost THEN <<>> ELSE <<PartFor(a, parts[i])>>])

Images == {i \in DOMAIN parts : parts[i].type = "input_image"}

BuildFails(a, k) ==
  /\ pc = "parsed" /\ ~CanBuild(a, k)
  /\ pc' = "noRequest" /\ app' = a /\ client' = k
  /\ event' = NoEvent /\ content' = NoContent /\ parts' = <<>>
  /\ UNCHANGED <<bytes, botName, failed, request, answer, reply, file>>

Ask(a, k, lost, prompt) ==
  /\ pc = "parsed" /\ CanBuild(a, k)
  /\ pc' = "asked" /\ app' = a /\ client' = k /\ failed' = lost
  /\ request' = Request(k, prompt, Downloaded(a, lost))
  /\ event' = NoEvent
  /\ UNCHANGED <<bytes, botName, content, parts, answer, reply, file>>

(* The request is sent; the worker keeps nothing of it. *)
Send == /\ pc = "asked" /\ pc' = "sent"
        /\ botName' = "" /\ content' = NoContent /\ parts' = <<>> /\ failed' = {} /\ request' = <<>>
        /\ UNCHANGED <<bytes, event, app, client, answer, reply, file>>

(* A status other than 200, more than 10 MiB, or no JSON object. *)
Unusable == /\ pc = "sent" /\ pc' = "noAnswer"
            /\ UNCHANGED <<bytes, inbound, outbound>>

(* The answer is that of the client's API, and read as one of the app's.   *)
Receive(items) ==
  /\ pc = "sent"
  /\ answer' = items
  /\ reply' = GetContent(app, client, items)
  /\ file' = MediaPath(reply', Separators(app))
  /\ pc' = IF reply' = <<>> THEN "empty" ELSE "replied"
  /\ UNCHANGED <<bytes, inbound, app, client, failed, request>>

Over == /\ pc \in {"undecrypted", "panicked", "ignored", "refused", "noRequest",
                   "noAnswer", "empty", "replied"}
        /\ UNCHANGED vars

Next == \/ DecryptFails \/ Decrypt
        \/ \E e \in Events : Ignore(e) \/ Take(e)
        \/ pc = "event" /\ \E c \in Contents[event.type] : Parse(c)
        \/ \E a, k \in Types :
             \/ BuildFails(a, k)
             \/ \E lost \in SUBSET Images, prompt \in Prompts : Ask(a, k, lost, prompt)
        \/ Send \/ Unusable
        \/ pc = "sent" /\ \E items \in Answers[client] : Receive(items)
        \/ Over

Spec == Init /\ [][Next]_vars

-----------------------------------------------------------------------------
(* Types of the variables that grow; every part has something in it.       *)
MessagePart == [type : {"input_text", "input_image"}, val : Seq(Token) \ {<<>>}]

TypeOK ==
  /\ bytes \in Seq(Nat) /\ botName \in BotNames \cup {""}
  /\ event \in Events \cup {NoEvent}
  /\ parts \in Seq(MessagePart)
  /\ app \in Types \cup {""} /\ client \in Types \cup {""}
  /\ failed \subseteq DOMAIN parts
  /\ \A i \in DOMAIN request : request[i].role \in {"system", "user"}
  /\ reply \in Seq(Token)

(* The padding PKCS#7 asks for. *)
Pad(plain) ==
  LET n == BlockSize - (Len(plain) % BlockSize)
  IN  plain \o [i \in 1 .. n |-> n]

(* Decryption gives back exactly what was padded, whole blocks of padding  *)
(* included, and accepts nothing else (aes.go:47-68).                      *)
DecryptionInvertsPadding ==
  [][pc = "body" /\ pc' = "plaintext" => Pad(bytes') = Ciphertext(bytes)]_vars

(* The mentions that are the bot's, the placeholder of the first of them,  *)
(* and the text a message came with.                                       *)
Bots == {i \in DOMAIN event.mentions : /\ event.mentions[i].type # "user"
                                       /\ event.mentions[i].name = botName}
BotKey == event.mentions[Min(Bots)].key
Original == Unquoted(content.json)

(* A placeholder is a whole word unless a digit makes it a longer one.     *)
Digit == {"0", "1", "2", "3", "4", "5", "6", "7", "8", "9"}
IsWord(text, i) == i = Len(text) \/ text[i + 1] \notin Digit

Occurrences(text, key) == {i \in DOMAIN text : text[i] = key}
WithoutFirst(text, key) ==
  LET i == Min(Occurrences(text, key))
  IN  IF Occurrences(text, key) = {} THEN text
      ELSE [k \in 1 .. Len(text) - 1 |-> text[IF k < i THEN k ELSE k + 1]]

FirstIsWord(text, key) ==
  Occurrences(text, key) = {} \/ IsWord(text, Min(Occurrences(text, key)))

(* A text message in a group that passes the gate mentions the bot, and,   *)
(* blanks at its ends aside, the agent gets its text without the           *)
(* placeholder the bot was addressed by, or, if nothing is left, it is     *)
(* refused: the loop that finds a mention and the loop that finds its key  *)
(* agree, and cutting it out of the JSON does not damage the content, of   *)
(* which another user's placeholder stays (callback.go:220-231,            *)
(* mentions.go:14-58).  What the text is with its blanks, and where the    *)
(* key is only the beginning of a longer placeholder, is left to the       *)
(* property below.                                                         *)
MentionIsStripped ==
  pc \in {"parsed", "refused"} /\ event.type = "text" /\ ~IsDM(event.chatType) =>
    LET rest == TrimSpace(WithoutFirst(Original, BotKey))
    IN  /\ Bots # {}
        /\ FirstIsWord(Original, BotKey) =>
             /\ pc = "parsed" => TrimSpace(parts[1].val) = rest
             /\ pc = "refused" /\ IsQuoted(content.json) => rest = <<>>

(* "StripBotMention removes the bot's @mention placeholder from text and   *)
(* trims any leftover leading whitespace, so the Agent receives clean      *)
(* input.  The key is matched case-sensitively as a whole-word             *)
(* placeholder." (mentions.go:45-47)  What is left of a text that began    *)
(* with the bot's placeholder begins with no blank; and blanks at the ends *)
(* aside it is the text without the first whole word that is the key.      *)
Words(text, key) == {i \in Occurrences(text, key) : IsWord(text, i)}

AgentGetsCleanInput ==
  pc = "parsed" /\ event.type = "text" /\ ~IsDM(event.chatType) =>
    LET words == Words(Original, BotKey)
        got   == parts[1].val
    IN  /\ 1 \in words => Head(got) \notin Blank
        /\ words # {} => TrimSpace(got) = TrimSpace(RemoveAt(Original, Min(words)))

(* The items of a post that make a part, and the place of one among them.  *)
UsableItems(block) == IF block.isList THEN {i \in DOMAIN block.items : Usable(block.items[i])}
                                      ELSE {}
Places(blocks) == UNION {{b} \X UsableItems(blocks[b]) : b \in DOMAIN blocks}
Place(blocks, p) ==
  Cardinality({q \in Places(blocks) : q[1] < p[1] \/ (q[1] = p[1] /\ q[2] <= p[2])})

(* The last message of the request is the user's, and has the usable items *)
(* of the post in reading order, whatever else is between them, without    *)
(* the images that could not be downloaded; a post is refused only if it   *)
(* has none (event.go:140-185, callback.go:401-447, agent_http.go:233-299, *)
(* 405-427).                                                               *)
RequestCarriesPost ==
  /\ pc = "refused" /\ event.type = "post" => Places(content.blocks) = {}
  /\ pc = "asked" /\ content.blocks # <<>> =>
       /\ Last(request).role = "user"
       /\ Len(Last(request).content) = Cardinality(Places(content.blocks)) - Cardinality(failed)
       /\ \A p \in Places(content.blocks) :
            LET i == Place(content.blocks, p)
            IN  i \notin failed =>
                  Last(request).content[i - Cardinality({f \in failed : f < i})].val
                    = content.blocks[p[1]].items[p[2]].val

(* The file that is sent for an answer is named in it right after the      *)
(* first MEDIA: and blanks, and goes to the next separator of the app's    *)
(* kind, less the blanks before it.  An answer with a MEDIA: names no file *)
(* only if nothing follows it, or nothing but blanks and then a separator  *)
(* (model/agent.go:97-142).                                                *)
FileIsNamedInReply ==
  LET at == SelectInSeq(reply, LAMBDA t : t = "MEDIA:")
      rest == at + 1 .. Len(reply)
  IN  IF file # <<>>
        THEN /\ at > 0
             /\ \E i, j \in rest :
                  /\ i <= j /\ file = SubSeq(reply, i, j)
                  /\ {reply[i], reply[j]} \cap Blank = {}
                  /\ \A k \in at + 1 .. i - 1 : reply[k] \in Blank
                  /\ \A k \in i .. j : reply[k] \notin Separators(app)
                  /\ \E e \in j + 1 .. Len(reply) + 1 :
                       /\ \A k \in j + 1 .. e - 1 : reply[k] \in Blank
                       /\ e = Len(reply) + 1 \/ reply[e] \in Separators(app)
        ELSE at > 0 => \A i \in rest : reply[i] \in Blank \/
               \E b, e \in at + 1 .. i - 1 : /\ b < e /\ reply[b] \notin Separators(app)
                                            /\ reply[e] \in Separators(app)

(* The view Reply has of an answer and of the reply made of it.            *)
R == INSTANCE Reply WITH
       Messages <- {}, MaxApplied <- 1, message <- <<>>, appType <- app, client <- client,
       pc <- "agent", left <- <<>>, parts <- <<>>, ctx1 <- TRUE, ctx2 <- TRUE,
       content <- "none", posted <- <<>>, fileFailed <- FALSE, failed <- "none"

(* What the assistant said; not every item of OpenResponses is a message.  *)
Said == {i \in DOMAIN answer : /\ answer[i].role = "assistant"
                               /\ client = "OpenResponses" => answer[i].type = "message"}

AnswerKind == IF Said = {} THEN "nothing"
              ELSE IF \A i \in Said : TextOf(answer[i]) = <<>> THEN ""
              ELSE IF file # <<>> THEN "media" ELSE "words"

ReplyKind == IF reply = <<>> THEN ""
             ELSE IF file # <<>> THEN "media"
             ELSE IF app = "ChatCompletions" /\ reply = [i \in 1 .. Cardinality(Said) |-> "\n"]
               THEN "blank" ELSE "words"

(* What the parser and GetContent make of an answer is what Reply takes    *)
(* for it, whichever types app and client are of: what is checked there of *)
(* the worker holds for the real texts (agent_http.go:326-473,             *)
(* model/agent.go:80-115).                                                 *)
ReplyKnowsAnswer ==
  pc \in {"empty", "replied"} => ReplyKind = R!ContentOf(AnswerKind)
=============================================================================
