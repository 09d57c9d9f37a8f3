--------------------------- MODULE BlockTransfer ----------------------------
(***************************************************************************)
(* What a sound card promises a program that plays blocks of samples: it   *)
(* takes units only while it plays, calls for attention with the last unit *)
(* of a block or when it was asked to, goes on with the next block in      *)
(* auto-init mode and stops otherwise, and never stops by itself before.   *)
(***************************************************************************)
EXTENDS Integers

CONSTANT Sizes  \* of blocks, in units

VARIABLE block

Idle == [playing |-> FALSE, left |-> 0, size |-> 0, again |-> FALSE,
         signal |-> FALSE, asked |-> FALSE]

Init == block = Idle

(* n units are taken; the memory may hold no more of them *)
Taken(b, n) ==
  IF n < b.left THEN [b EXCEPT !.left = @ - n]
  ELSE IF b.again THEN [b EXCEPT !.left = b.size, !.signal = TRUE]
  ELSE [b EXCEPT !.left = 0, !.signal = TRUE, !.playing = FALSE]

Stopped(b) == [b EXCEPT !.playing = FALSE]

Play ==
  /\ block.playing
  /\ \E n \in 1..block.left :
       LET b == Taken(block, n) IN block' \in {b, Stopped(b)}

(* A command looks at the card as it is by now: some more units may be gone. *)
Now(b) ==
  {b} \cup IF b.playing
           THEN LET later == {Taken(b, n) : n \in 1..b.left}
                IN  later \cup {Stopped(c) : c \in later}
           ELSE {}

(* a new block; what was left of the old one is given up *)
Begin == \E size \in Sizes, playing, again, signal \in BOOLEAN :
  /\ block'.left = size
  /\ signal => block.signal
  /\ block' = [block EXCEPT !.left = size, !.size = size, !.playing = playing,
                            !.again = again, !.signal = signal]

Halt == ~block'.playing /\ \E b \in Now(block) : block' = Stopped(b)

Resume ==
  /\ ~block.playing /\ block.left > 0
  /\ block' = [block EXCEPT !.playing = TRUE]

SetSize == \E b \in Now(block), size \in Sizes : block' = [b EXCEPT !.size = size]

SetAgain == \E again \in BOOLEAN :
  \/ \E b \in Now(block) : block' = [b EXCEPT !.again = again]
  \/ block' \in Now([block EXCEPT !.again = again])

(* a card that stopped because nobody answered its signal goes on *)
Acknowledge == \E playing \in BOOLEAN :
  /\ block.playing => playing
  /\ playing => block.left > 0
  /\ block' = [block EXCEPT !.signal = FALSE, !.playing = playing]

Ask == block' = [block EXCEPT !.asked = TRUE]

Answer == block.asked /\ block' = [block EXCEPT !.asked = FALSE, !.signal = TRUE]

Reset == block' = [Idle EXCEPT !.asked = block.asked]

Next ==
  \/ Play \/ Begin \/ Halt \/ Resume \/ SetSize \/ SetAgain
  \/ Acknowledge \/ Ask \/ Answer \/ Reset

(* A card that plays goes on to the end of its block: fairness of Play while no
   signal waits for an answer. *)
KeepsPlaying == []<>(~block.playing \/ block.signal) \/ []<><<Play>>_block

Spec == Init /\ [][Next]_block /\ KeepsPlaying
=============================================================================
