----------------------------- MODULE MCContent ------------------------------
EXTENDS Content

(* Bodies without a whole IV, and all of up to two blocks of two bytes; 3  *)
(* is more than a block.                                                   *)
IV == [i \in 1 .. BlockSize |-> 0]
SmallBodies == {SubSeq(IV, 1, n) : n \in 0 .. BlockSize}
               \cup {IV \o data : data \in BoundedSeq(0 .. 3, 2 * BlockSize)}

(* Up to two mentions, numbered as Feishu does; the second placeholder may *)
(* be the bot's.                                                           *)
Mentions(n) == {[i \in 1 .. n |-> [key |-> <<"@_user_1", "@_user_2">>[i],
                                   type |-> kind[i][1], name |-> kind[i][2]]] :
                  kind \in [1 .. n -> {"", "bot", "user"} \X {"MyBot", "Ann"}]}

SmallEvents == [chatType : {"dm", "p2p", "group"}, type : {"text"},
                mentions : UNION {Mentions(n) : n \in 0 .. 2}]
               \cup [chatType : {"p2p", "group"}, type : {"image", "post", "file"},
                     mentions : {<<>>, <<[key |-> "@_user_1", type |-> "bot", name |-> "MyBot"]>>}]

(* strings.TrimSpace cuts more than what separates paths. *)
SmallBlank == {" ", "\t", "\n", "\r"}
SmallTokens == SmallBlank \cup {Open, Close, "MEDIA:", "@_user_1", "@_user_2", "0", "hi", "be brief",
                           "/f", "img_1", "ou_1"}

(* "0" after a placeholder makes it one of another user. *)
Texts == BoundedSeq({"@_user_1", "@_user_2", "0", " ", "hi"}, 3)

Items == {[tag |-> "text", val |-> <<"hi">>], [tag |-> "img", val |-> <<"img_1">>],
          [tag |-> "text", val |-> <<>>], [tag |-> "at", val |-> <<"ou_1">>]}
Blocks == {[isList |-> FALSE, items |-> <<>>]}
          \cup [isList : {TRUE}, items : BoundedSeq(Items, 2)]

SmallContents ==
  [text |-> {[NoContent EXCEPT !.json = j] : j \in {Quoted(t) : t \in Texts} \cup {<<"hi">>}},
   image |-> {[NoContent EXCEPT !.imageKey = k] : k \in {<<>>, <<"img_1">>}},
   post |-> {[NoContent EXCEPT !.blocks = b] : b \in BoundedSeq(Blocks, 2)},
   file |-> {NoContent}]

SmallPrompts == {<<>>, <<"be brief">>}

(* Answers of up to two items; at most one has a text of its own. *)
Item(type, role, said) == [type |-> type, role |-> role, parts |-> said]
Out(text) == [type |-> "output_text", text |-> text]
Refusal == [type |-> "refusal", text |-> <<"hi">>]

Sayings == {<<Out(t)>> : t \in BoundedSeq({"MEDIA:", "/f", " ", "\r", "\n"}, 4)}
        \cup {<<>>, <<Refusal>>, <<Out(<<"hi">>), Out(<<>>)>>, <<Out(<<"hi">>), Refusal>>}
Few == {Item("message", "assistant", <<Out(t)>>) : t \in {<<>>, <<"hi">>, <<"MEDIA:">>}}
Others == {Item("message", "user", <<Out(<<"hi">>)>>),
           Item("tool_use", "assistant", <<Out(<<"hi">>)>>)}
Turns == {Item("", "assistant", s) : s \in {x \in Sayings : Len(x) = 1}}
FewTurns == {Item("", r, <<Out(t)>>) : r \in {"assistant", "user", ""}, t \in {<<>>, <<"hi">>}}

SmallAnswers ==
  [OpenResponses |-> {<<>>} \cup {<<Item("message", "assistant", s)>> : s \in Sayings}
                     \cup BoundedSeq(Few \cup Others, 2),
   ChatCompletions |-> {<<>>} \cup {<<c>> : c \in Turns} \cup BoundedSeq(FewTurns, 2)]

(* Texts as people write them, with one mention, which is of the bot. *)
PlainContents == [SmallContents EXCEPT !["text"] =
  {[NoContent EXCEPT !.json = Quoted(t)] :
     t \in {<<"@_user_1", "hi">>, <<"@_user_1", " ", "hi">>, <<"hi", " ", "@_user_1">>}}]

PlainEvents == {[chatType |-> c, type |-> "text",
                 mentions |-> <<[key |-> "@_user_1", type |-> "bot", name |-> "MyBot"]>>] :
                  c \in {"p2p", "group"}}

BotNameSet == {"", "MyBot"}
=============================================================================
