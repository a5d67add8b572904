------------------------------ MODULE LossyFifo ------------------------------
(***************************************************************************)
(* What the window thread and the emulator thread may rely on when they    *)
(* exchange host events: one first-in first-out queue per input device,    *)
(* bounded by Cap, whose only loss is the newest event, refused while the  *)
(* queue is full.  There is no code behind this module: VinputQueue is the *)
(* ring buffer that is shown to implement it.                              *)
(***************************************************************************)
EXTENDS Naturals, Sequences

CONSTANTS Dev, Cmd, Cap, NoCmd

VARIABLES
  q,         \* q[d]: the events of device d, oldest first
  popped,    \* popped[d]: the event the last pop of device d returned
  accepted   \* what the last push returned

vars == <<q, popped, accepted>>

Init ==
  /\ q = [d \in Dev |-> <<>>]
  /\ popped = [d \in Dev |-> NoCmd]
  /\ accepted = TRUE

Push(d, c) ==
  /\ Len(q[d]) < Cap
  /\ q' = [q EXCEPT ![d] = Append(@, c)]
  /\ accepted' = TRUE
  /\ UNCHANGED popped

Refuse(d) ==
  /\ Len(q[d]) = Cap
  /\ accepted' = FALSE
  /\ UNCHANGED <<q, popped>>

Pop(d) ==
  /\ q[d] # <<>>
  /\ popped' = [popped EXCEPT ![d] = Head(q[d])]
  /\ q' = [q EXCEPT ![d] = Tail(@)]
  /\ UNCHANGED accepted

Next ==
  \E d \in Dev : (\E c \in Cmd : Push(d, c)) \/ Refuse(d) \/ Pop(d)

Spec == Init /\ [][Next]_vars
=============================================================================
