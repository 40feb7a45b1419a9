--------------------------- MODULE MCSoundStream ---------------------------
(***************************************************************************)
(* SoundStream for TLC: banks of eight bytes, headers and chunks of two.   *)
(* Two effects: one lists two resources, the second of them with a chunk   *)
(* that ends at a bank's end; the other's resource is of whole chunks.  Of *)
(* two songs one takes the resident's place.                               *)
(***************************************************************************)
EXTENDS SoundStream

ResourcesMC ==
    [i \in 0 .. 4 |->
        CASE i = 0 -> [at |-> 0, length |-> 5]
          [] i = 1 -> [at |-> 5, length |-> 1]
          [] i = 2 -> [at |-> 9, length |-> 2]
          [] i = 3 -> [at |-> 14, length |-> 4]
          [] i = 4 -> [at |-> 26, length |-> 5]]
ResidentsMC == <<0>>
SongsMC ==
    {[own |-> FALSE, fixed |-> <<1>>, extra |-> <<2, 2>>],
     [own |-> TRUE, fixed |-> << >>, extra |-> <<2>>]}
EffectsMC ==
    {[slot |-> 4, ids |-> <<2, 4>>],
     [slot |-> 3, ids |-> <<3>>]}
=============================================================================
