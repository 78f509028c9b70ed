------------------------------ MODULE MailFifo ------------------------------
(***************************************************************************)
(* What a CoOS mailbox or message queue promises: messages are received in *)
(* the order in which they were accepted, each once, and at most size of   *)
(* them wait.  A message that is accepted while somebody waits may be      *)
(* received in the same step.  Only deleting the mailbox discards what is  *)
(* in it.  A message is not sent twice in a row, nor right after it was    *)
(* received, so that every acceptance changes sent, every receipt changes  *)
(* given, and neither can pass for a step that does nothing.               *)
(***************************************************************************)
EXTENDS Integers, SequencesExt

CONSTANT Messages

VARIABLES
  size,      \* the capacity, which never changes
  exists,    \* the mailbox was created and is not deleted
  box,       \* the messages that wait, oldest first
  sent,      \* the message accepted last
  given      \* the message received last

vars == <<size, exists, box, sent, given>>

Init ==
  /\ size \in Nat \ {0} /\ exists \in BOOLEAN /\ box = <<>>
  /\ sent \notin Messages /\ given \notin Messages

Accept(m) ==
  /\ exists /\ Len(box) < size
  /\ m \notin ToSet(box) \cup {sent, given}
  /\ sent' = m

Send(m) ==
  /\ Accept(m)
  /\ box' = Append(box, m)
  /\ UNCHANGED <<exists, given>>

\* A message is accepted and the oldest goes to somebody who waits.
Forward(m) ==
  /\ Accept(m)
  /\ LET all == Append(box, m)
     IN  given' = Head(all) /\ box' = Tail(all)
  /\ UNCHANGED exists

Receive ==
  /\ exists /\ box # <<>>
  /\ given' = Head(box)
  /\ box' = Tail(box)
  /\ UNCHANGED <<exists, sent>>

Create ==
  /\ ~exists
  /\ exists' = TRUE
  /\ UNCHANGED <<box, sent, given>>

Delete ==
  /\ exists
  /\ exists' = FALSE /\ box' = <<>>
  /\ UNCHANGED <<sent, given>>

Next ==
  /\ \/ \E m \in Messages : Send(m) \/ Forward(m)
     \/ Receive \/ Create \/ Delete
  /\ UNCHANGED size

Spec == Init /\ [][Next]_vars

=============================================================================
