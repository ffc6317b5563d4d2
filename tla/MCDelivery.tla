----------------------------- MODULE MCDelivery -----------------------------
(* Small instances of notice delivery for TLC. *)
EXTENDS Delivery

(* Messages are executed, notices for the owner are only shown. *)
AttemptsOnce == [e \in Events |-> IF e \in Reviews THEN 0 ELSE 1]

(* Codex with its queue, another host with listeners, and one that is only   *)
(* notified: a listener and the queue share nothing but the inbox, which     *)
(* neither of them changes.                                                  *)
EachHost ==
  {[codex |-> TRUE, listens |-> FALSE], [codex |-> FALSE, listens |-> TRUE],
   [codex |-> FALSE, listens |-> FALSE]}

(* Without queue and listener a question is also answered. *)
Revisions == [s \in Setups |-> IF s.codex \/ s.listens THEN 1 ELSE 2]

CodexHost == {[codex |-> TRUE, listens |-> FALSE]}
=============================================================================
