------------------------------- MODULE Mailbox -------------------------------
(***************************************************************************)
(* What single_reader_queue promises: a first-in first-out queue that many  *)
(* threads put values in and its reader takes them out of, that the reader  *)
(* may mark as blocked while it is empty, and that it may close.            *)
(***************************************************************************)
EXTENDS Naturals, Sequences

CONSTANT Values

VARIABLES
  contents,  \* the values in the queue, oldest first
  state      \* "open", "blocked" or "closed"

Init == contents = <<>> /\ state = "open"

\* A value is put in; a blocked reader no longer is.
Put ==
  /\ state # "closed"
  /\ \E v \in Values : contents' = Append(contents, v)
  /\ state' = "open"

\* The reader takes the oldest value out.
Take == contents # <<>> /\ contents' = Tail(contents) /\ UNCHANGED state

\* The reader blocks, but only while there is nothing to read.
Block ==
  state = "open" /\ contents = <<>> /\ state' = "blocked" /\ UNCHANGED contents

Unblock == state = "blocked" /\ state' = "open" /\ UNCHANGED contents

\* Closing throws the values away, the oldest ones first.
Discard ==
  /\ \E n \in 1..Len(contents) :
       contents' = SubSeq(contents, n + 1, Len(contents))
  /\ UNCHANGED state

Close == contents' = <<>> /\ state = "open" /\ state' = "closed"

Next == Put \/ Take \/ Block \/ Unblock \/ Discard \/ Close

Spec == Init /\ [][Next]_<<contents, state>>
=============================================================================
