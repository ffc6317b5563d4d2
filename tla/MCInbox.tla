------------------------------ MODULE MCInbox ------------------------------
(* Small instances of the commitment controller for TLC. *)
EXTENDS Inbox, TLC

(* A peer's ordinary message, and a server notice addressed to this agent. *)
Message ==
  [kind |-> "message", from |-> "peer", about |-> 0, key |-> 0,
   owned |-> FALSE, automated |-> FALSE]
Notice(kind, key, about) ==
  [kind |-> kind, from |-> "peer", about |-> about, key |-> key,
   owned |-> TRUE, automated |-> FALSE]

TwoMessages == <<Message, Message>>

(* Two notices of one request, the second of them correlated with the       *)
(* message that follows; its classification; a review of the same           *)
(* suggestion; an admission notice, which needs no claim.                   *)
Notices ==
  <<Notice("collaboration", 1, 0), Notice("collaboration", 1, 3), Message,
    Notice("attention", 2, 3), Notice("semantic", 2, 0),
    Notice("join_requested", 3, 0)>>

OnePrivateNotice == <<Notice("collaboration", 1, 0)>>

SharedOrAfter == {<<{}, {"report"}>>, <<{1}, {}>>, <<{2}, {}>>}
AllOutcomes ==
  {"awaiting_approval", "awaiting_information", "failed", "needs_recovery"}
=============================================================================
