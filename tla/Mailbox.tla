------------------------------- MODULE Mailbox -------------------------------
(***************************************************************************)
(* What the run queue promises the threads that publish commands, without  *)
(* notifications, budgets, idleness or driver: an open mailbox accepts     *)
(* every command, its owner takes commands in the order they were posted   *)
(* and goes on taking them while it serves, and a mailbox that closes      *)
(* waits for the commands it has accepted and takes them too.              *)
(***************************************************************************)
EXTENDS Naturals, Sequences

CONSTANTS
  Senders,   \* threads that publish commands
  Owner      \* the thread that takes them, it may post to itself

VARIABLES
  phase,     \* "serving", "away" (outside block_on), "closing" or "gone"
  accepted,  \* senders whose command is accepted and not posted
  box,       \* the senders of the posted commands, oldest first
  taken      \* commands of each thread that have been taken

vars == <<phase, accepted, box, taken>>

Init ==
  /\ phase = "serving" /\ accepted = {} /\ box = <<>>
  /\ taken = [t \in Senders \cup {Owner} |-> 0]

Accept(t) ==
  /\ phase \in {"serving", "away"} /\ t \notin accepted
  /\ accepted' = accepted \cup {t}
  /\ UNCHANGED <<phase, box, taken>>

Post(t) ==
  /\ phase # "gone" /\ t \in accepted
  /\ accepted' = accepted \ {t}
  /\ box' = Append(box, t)
  /\ UNCHANGED <<phase, taken>>

\* The owner needs no acceptance: nothing happens between its check and its post.
OwnerPost ==
  /\ phase \in {"serving", "closing"}
  /\ box' = Append(box, Owner)
  /\ UNCHANGED <<phase, accepted, taken>>

\* A closing mailbox that nothing can reach any more is bypassed.
OwnerBypass ==
  /\ phase = "closing" /\ accepted = {} /\ box = <<>>
  /\ taken' = [taken EXCEPT ![Owner] = @ + 1]
  /\ UNCHANGED <<phase, accepted, box>>

Take ==
  /\ phase \in {"serving", "closing"} /\ box # <<>>
  /\ box' = Tail(box)
  /\ taken' = [taken EXCEPT ![Head(box)] = @ + 1]
  /\ UNCHANGED <<phase, accepted>>

Move(from, to) == phase = from /\ phase' = to /\ UNCHANGED <<accepted, box, taken>>

Leave  == Move("serving", "away")
Return == Move("away", "serving")
Close  == Move("away", "closing")
Finish == Move("closing", "gone") /\ accepted = {} /\ box = <<>>

Next ==
  \/ \E t \in Senders : Accept(t) \/ Post(t)
  \/ OwnerPost \/ OwnerBypass \/ Take
  \/ Leave \/ Return \/ Close \/ Finish

\* An accepted command is posted, an owner that serves or closes goes on taking
\* commands, and a mailbox that closes is gone in the end.
Fairness ==
  /\ \A t \in Senders : WF_vars(Post(t))
  /\ WF_vars(Take) /\ WF_vars(Finish)

Safety == Init /\ [][Next]_vars

Spec == Safety /\ Fairness
=============================================================================
