---------------------------- MODULE TextStream ----------------------------
(***************************************************************************)
(* What an application may rely on about the text it streams to a call:    *)
(* text is spoken in the order it was sent, no piece twice, and text that  *)
(* is thrown away is thrown away with everything that waits behind it.     *)
(***************************************************************************)
EXTENDS Naturals, Sequences

VARIABLES heard,    \* how many pieces of text were accepted
          waiting,  \* the pieces that wait to be spoken
          spoken    \* the pieces handed to the synthesizer

Pieces(from, to) == [i \in 1..(to - from) |-> from + i]

Init == heard = 0 /\ waiting = <<>> /\ spoken = <<>>

\* Some pieces (perhaps none) are accepted, and a beginning of what waits is spoken.
Stream ==
  /\ heard' \in Nat /\ heard <= heard'
  /\ LET all == waiting \o Pieces(heard, heard')
     IN  \E n \in 0..Len(all) :
           /\ spoken'  = spoken \o SubSeq(all, 1, n)
           /\ waiting' = SubSeq(all, n + 1, Len(all))

ThrowAway == waiting' = <<>> /\ UNCHANGED <<heard, spoken>>

Next == Stream \/ ThrowAway

Spec == Init /\ [][Next]_<<heard, waiting, spoken>>
============================================================================
