---------------------------- MODULE MessageText -----------------------------
(***************************************************************************)
(* What the gateway computes from the data of one event: the plaintext of  *)
(* an encrypted body (pkg/crypto/aes.go), whether the bot is addressed and *)
(* by which placeholder (model/mentions.go), and the content parts of the  *)
(* message (model/event.go).  A text is a sequence of tokens, where a      *)
(* placeholder like @_user_1 is a token of its own: followed by a digit it *)
(* is the beginning of a longer placeholder.  The prefix of a media path   *)
(* is a token as well.                                                     *)
(***************************************************************************)
EXTENDS Integers, SequencesExt, FiniteSetsExt

CONSTANTS BlockSize,  \* aes.BlockSize, 16 in the code
          Token,      \* what texts are made of
          Blank       \* the white space among it, as unicode.IsSpace has it

ASSUME MessageTextAssumption == BlockSize \in Nat \ {0}
ASSUME TokenAssumption ==
  /\ {" ", "\t", "\n"} \subseteq Blank
  /\ {"{", "}", "MEDIA:"} \subseteq Token \ Blank /\ Blank \subseteq Token

TrimSpace(s) ==
  LET words == {i \in DOMAIN s : s[i] \notin Blank}
  IN  IF words = {} THEN <<>> ELSE SubSeq(s, Min(words), Max(words))

-----------------------------------------------------------------------------
(* The bytes of a body are an IV of one block and ciphertext, which is     *)
(* represented by what it decrypts to.                                     *)
Ciphertext(bytes) == SubSeq(bytes, BlockSize + 1, Len(bytes))

TooShort(bytes) == Len(bytes) < BlockSize + 1
CryptBlocksPanics(bytes) == Len(Ciphertext(bytes)) % BlockSize # 0

PadLength(data) == data[Len(data)]

(* Mistake: only the last byte of the padding is looked at. *)
LastByteIsPadLength(data) == PadLength(data) \in 1 .. BlockSize

WellPadded(data) ==
  /\ PadLength(data) \in 1 .. BlockSize
  /\ \A i \in 0 .. PadLength(data) - 1 : data[Len(data) - i] = PadLength(data)

Unpad(data) == SubSeq(data, 1, Len(data) - PadLength(data))

-----------------------------------------------------------------------------
IsDM(chatType) == chatType \in {"dm", "p2p"}

(* A mention without a type counts as one of a bot. *)
IsBotMentioned(mentions, botName) ==
  /\ botName # ""
  /\ \E i \in DOMAIN mentions :
        \/ mentions[i].type = "" /\ mentions[i].name = botName
        \/ mentions[i].type = "bot" /\ mentions[i].name = botName

(* Mistake: only a mention with a type counts. *)
TypedBotMentionKey(mentions, botName) ==
  LET m == SelectInSeq(mentions, LAMBDA n : n.type = "bot" /\ n.name = botName)
  IN  IF botName = "" \/ m = 0 THEN "" ELSE mentions[m].key

(* The key of the first mention of the bot, "" if there is none. *)
BotMentionKey(mentions, botName) ==
  LET m == SelectInSeq(mentions, LAMBDA n : n.type \in {"", "bot"} /\ n.name = botName)
  IN  IF botName = "" \/ m = 0 THEN "" ELSE mentions[m].key

(* The key is cut out where it is found first, even if it is the beginning *)
(* of another placeholder there.                                           *)
StripBotMention(text, key) ==
  TrimSpace(IF key = "" THEN text ELSE RemoveFirst(text, key))

-----------------------------------------------------------------------------
(* The JSON content of a text message, of which nothing matters but that   *)
(* the text is inside it.                                                  *)
Open == "{"
Close == "}"
Quoted(text) == <<Open>> \o text \o <<Close>>
IsQuoted(json) == Len(json) > 1 /\ Head(json) = Open /\ Last(json) = Close
Unquoted(json) == SubSeq(json, 2, Len(json) - 1)

(* Mistake: an empty value makes a part too. *)
UsableTag(item) == item.tag \in {"text", "img"}

(* Whether an item of a post makes a part: it has one of two tags and a    *)
(* value that is a string with something in it, here val # <<>>.           *)
Usable(item) == item.tag \in {"text", "img"} /\ item.val # <<>>

Part(type, val) == [type |-> type, val |-> val]
PartOf(item) == Part(IF item.tag = "text" THEN "input_text" ELSE "input_image", item.val)

(* A loop that appends to a slice is the FlattenSeq of what each of its    *)
(* rounds appends, <<>> where it goes on to the next.  These two loops     *)
(* skip whatever has another shape.                                        *)
PartsOfBlock(block) ==
  FlattenSeq([i \in DOMAIN block.items |->
                IF Usable(block.items[i]) THEN <<PartOf(block.items[i])>> ELSE <<>>])

(* Mistake: what is no list ends the loop. *)
PartsOfPostUntilBad(blocks) ==
  FlattenSeq([b \in DOMAIN blocks |->
                IF \A c \in 1 .. b : blocks[c].isList THEN PartsOfBlock(blocks[b]) ELSE <<>>])

PartsOfPost(blocks) ==
  FlattenSeq([b \in DOMAIN blocks |->
                IF blocks[b].isList THEN PartsOfBlock(blocks[b]) ELSE <<>>])

(* ParseMessageContent, where no parts stand for an error: it never        *)
(* returns an empty slice without one.                                     *)
ParseMessageContent(content, type) ==
  IF type = "text" /\ IsQuoted(content.json) /\ Unquoted(content.json) # <<>>
    THEN <<Part("input_text", Unquoted(content.json))>>
  ELSE IF type = "image" /\ content.imageKey # <<>>
    THEN <<Part("input_image", content.imageKey)>>
  ELSE IF type = "post" THEN PartsOfPost(content.blocks) ELSE <<>>
=============================================================================
