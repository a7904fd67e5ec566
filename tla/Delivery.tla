------------------------------ MODULE Delivery ------------------------------
(***************************************************************************)
(* What a collector promises while the server still has everything it      *)
(* asks for: the transactions it records are the ones the source           *)
(* committed, each of them whole and once, in the order of their commits,  *)
(* and from the first one it records none is left out.  Where it begins is *)
(* open: a collector with nothing collected begins where the server is.    *)
(***************************************************************************)
EXTENDS Integers, Sequences

VARIABLES committed,  \* what the source committed, in order
          recorded    \* what the store holds, in the order of its row ids

Init == committed = <<>> /\ recorded = <<>>

Commit == /\ Len(committed') = Len(committed) + 1
          /\ SubSeq(committed', 1, Len(committed)) = committed
          /\ UNCHANGED recorded

Record ==
    /\ \E first \in 1 .. Len(committed) - Len(recorded) :
          LET last == first + Len(recorded)
          IN  /\ recorded = SubSeq(committed, first, last - 1)
              /\ recorded' = SubSeq(committed, first, last)
    /\ UNCHANGED committed

Next == Commit \/ Record

Spec == Init /\ [][Next]_<<committed, recorded>>
=============================================================================
