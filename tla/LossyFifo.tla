----------------------------- MODULE LossyFifo -----------------------------
(***************************************************************************)
(* What a ConcurrentQueue promises to the threads that use it, whatever    *)
(* its policy and however they block: items come out in the order in which *)
(* they were accepted; only the oldest ones are ever taken away from the   *)
(* consumers; and every item taken away or refused is added to the count   *)
(* of losses, which the next delivery hands over exactly once (when the    *)
(* queue delivers counts at all).  Items are numbered as accepted.         *)
(***************************************************************************)
EXTENDS Integers, Sequences

CONSTANT Reports  \* does a delivery carry the number of losses?

VARIABLES
  content,   \* the numbers of the items inside, oldest first
  accepted,  \* items accepted so far
  lost,      \* losses not yet reported
  reported,  \* losses reported so far
  latest     \* the number of the latest item delivered

vars == <<content, accepted, lost, reported, latest>>

Init ==
  /\ content = <<>>
  /\ accepted = 0
  /\ lost = 0
  /\ reported = 0
  /\ latest = 0

WithoutOldest(n) == SubSeq(content, n + 1, Len(content))

\* A new item displaces the n oldest.
Accept(n) ==
  /\ content' = Append(WithoutOldest(n), accepted + 1)
  /\ accepted' = accepted + 1
  /\ lost' = lost + n
  /\ UNCHANGED <<reported, latest>>

\* The n oldest items are lost, and k more that never were inside.
Lose(n, k) ==
  /\ content' = WithoutOldest(n)
  /\ lost' = lost + n + k
  /\ UNCHANGED <<accepted, reported, latest>>

Deliver ==
  /\ content # <<>>
  /\ content' = Tail(content)
  /\ latest' = Head(content)
  /\ IF Reports
     THEN lost' = 0 /\ reported' = reported + lost
     ELSE UNCHANGED <<lost, reported>>
  /\ UNCHANGED accepted

Next ==
  \/ \E n \in 0 .. Len(content) : Accept(n)
  \/ \E n \in 0 .. Len(content), k \in {0, 1} : Lose(n, k)
  \/ Deliver

Spec == Init /\ [][Next]_vars
=============================================================================
