------------------------------- MODULE MCSlots -------------------------------
(***************************************************************************)
(* ImplicitProducerHash for TLC with more threads than it can interleave   *)
(* in every way: they take turns, as Schedule says, and every behaviour is *)
(* one of HashSpec.                                                        *)
(*                                                                         *)
(* The larger table fills up uncounted, in rounds of two threads that know *)
(* only the first table.  The grower holds the flag that lets it grow the  *)
(* table, so that the late one stays with the first, takes over a slot an  *)
(* exited thread has left there and counts itself out; its next call       *)
(* copies its id into the larger table and counts nothing.  When it exits, *)
(* the grower takes over that slot and counts itself out too.              *)
(***************************************************************************)
EXTENDS ImplicitProducerHash, SequencesExt

VARIABLE turn

\* Enough threads to have the first table grow, and a round for each slot of the next.
Residents == (InitialSize \div 2) - 1
Rounds == 2 * InitialSize
late(k) == Residents + k
grower(k) == Residents + Rounds + k
Threads == 1 .. Residents + 2 * Rounds

\* The worst case of a hash: every id starts at the same slot.
SameSlot == [i \in Ids |-> 0]

Repeat(n, Turns(_)) == FlattenSeq([k \in 1 .. n |-> Turns(k)])

\* Whose turn it is, and the stage in which it ends.
Arrive(i) == << << i, "alive" >>, << i, "alive" >> >>
Pause(k) == << << late(k), "look" >>, << grower(k), "look" >> >>
Round(k) ==
  << << late(k), "grow" >>, << grower(k), "clear" >>,
     << late(k), "alive" >>, << late(k), "alive" >>, << late(k), "dead" >>,
     << grower(k), "alive" >> >>
Schedule ==
  Repeat(Residents, Arrive) \o << << 1, "dead" >> >>
    \o Repeat(Rounds, Pause) \o Repeat(Rounds, Round)

\* A living thread exits if its turn is to end so, and calls otherwise; no call fails.
TakeTurn(i, end) ==
  /\ HashStep(i)
  /\ stage[i] = "alive" => (stage'[i] # "look" <=> end = "dead")
  /\ stage'[i] # "release" /\ (stage[i] = "recycle" => stage'[i] # "alive")
  /\ turn' = IF stage'[i] = end THEN turn + 1 ELSE turn

SlotsSpec ==
  /\ HashInit /\ turn = 1
  /\ [][/\ turn <= Len(Schedule)
        /\ TakeTurn(Schedule[turn][1], Schedule[turn][2])]_<< hashVars, turn >>
=============================================================================
