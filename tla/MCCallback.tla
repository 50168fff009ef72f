----------------------------- MODULE MCCallback -----------------------------
EXTENDS Callback

TwoDeliveries == 1 .. 2
OneDelivery == 1 .. 1

Agent(t, u) == [type |-> t, url |-> u]
Chat == Agent("ChatCompletions", TRUE)
Responses == Agent("OpenResponses", TRUE)

AppRec(key, token, enabled, agent, delay, name) ==
  [key |-> key, token |-> token, enabled |-> enabled, agent |-> agent,
   retryBaseDelay |-> delay, botName |-> name]
UserRec(enabled, agent, delay) ==
  [enabled |-> enabled, agent |-> agent, retryBaseDelay |-> delay]

(* An app with and without key and token, with another name for its bot    *)
(* and with none, disabled, without agent, as the README shows it, gone.   *)
Apps == {AppRec("K", "T", TRUE, Chat, "number", "Bot"),
         AppRec(None, None, TRUE, Responses, "number", "Bot"),
         AppRec("K", "T", TRUE, Chat, "number", "Butler"),
         AppRec("K", "T", TRUE, Chat, "number", ""),
         AppRec("K", "T", FALSE, Chat, "number", "Bot"),
         AppRec("K", None, TRUE, Agent("", FALSE), "number", "Bot"),
         AppRec("K", "T", TRUE, Chat, "string", "Bot"),
         None}

(* A user with an agent, with one of a wrong type, without agent, disabled,*)
(* and none.                                                               *)
Users == {UserRec(TRUE, Responses, "number"),
          UserRec(TRUE, Agent("Completions", TRUE), "number"),
          UserRec(TRUE, Agent("", FALSE), "number"),
          UserRec(FALSE, Responses, "number"),
          None}

Message(body, key, hasUser, dm, bots, says) ==
  [body |-> body, signature |-> key, token |-> "T", kind |-> "message",
   hasUser |-> hasUser, dm |-> dm, bots |-> bots, says |-> says]
ToBot == Message("K", "K", TRUE, FALSE, {"Bot"}, {"words", "Bot"})

(* The message of a group to the bot, of someone without user ID in a      *)
(* direct chat, in plain text, to nobody, and with nothing but the name of *)
(* the bot, in a group and in a direct chat; one of odd length, one with   *)
(* another token, and requests of the other kinds.                         *)
Events == {ToBot,
           Message("K", "K", FALSE, TRUE, {}, {"words"}),
           Message(None, None, TRUE, FALSE, {"Bot"}, {"words", "Bot"}),
           Message("K", "K", TRUE, FALSE, {}, {"words"}),
           Message("K", "K", TRUE, FALSE, {"Bot"}, {"Bot"}),
           Message("K", "K", TRUE, TRUE, {"Bot"}, {"Bot"}),
           [ToBot EXCEPT !.body = "bad"],
           [ToBot EXCEPT !.token = "S"],
           [ToBot EXCEPT !.kind = "challenge"],
           [ToBot EXCEPT !.kind = "garbage"],
           [ToBot EXCEPT !.kind = "other"]}

(* The configuration examples of the README, and a message for them. *)
ReadmeApps == {AppRec("K", "T", TRUE, Chat, "string", "Bot")}
ReadmeUsers == {UserRec(TRUE, Responses, "string"), None}
ReadmeEvents == {ToBot}
=============================================================================
