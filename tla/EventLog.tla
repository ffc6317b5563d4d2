------------------------------ MODULE EventLog ------------------------------
(***************************************************************************)
(* What the event stream promises, without connections, crashes and saves: *)
(* the events of the log are processed once each and in order; a readable   *)
(* event that asks for attention becomes work, an encrypted one only the    *)
(* first time; a join request becomes work or is settled by the process.    *)
(***************************************************************************)
EXTENDS Naturals, Sequences

CONSTANTS
  Payloads,   \* identities of messages and join requests
  Work,       \* payloads that become work when they are processed
  Join,       \* join requests: work only if they need the owner
  Encrypted   \* payloads whose replay is recognised

VARIABLES
  log,    \* the events published, each the occurrence of a payload
  after,  \* how many of them are processed
  inbox   \* the events that became work

vars == <<log, after, inbox>>

Init == log = <<>> /\ after = 0 /\ inbox = <<>>

FirstTime(n) == \A m \in 1..n-1 : log[m] # log[n]

Wakes(n) == log[n] \in Work /\ (log[n] \in Encrypted => FirstTime(n))

Publish == \E p \in Payloads : log' = Append(log, p) /\ UNCHANGED <<after, inbox>>

Process ==
  /\ after < Len(log)
  /\ after' = after + 1
  /\ \/ (Wakes(after + 1) \/ log[after + 1] \in Join) /\ inbox' = Append(inbox, after + 1)
     \/ ~ Wakes(after + 1) /\ inbox' = inbox
  /\ UNCHANGED log

Next == Publish \/ Process

Spec == Init /\ [][Next]_vars /\ WF_vars(Process)
=============================================================================
