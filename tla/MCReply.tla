------------------------------ MODULE MCReply -------------------------------
EXTENDS Reply

(* All messages of up to three parts, as a post with mixed content. *)
Posts == UNION {[1 .. n -> {"text", "image"}] : n \in 1 .. 3}
=============================================================================
