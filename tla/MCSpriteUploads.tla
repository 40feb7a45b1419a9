-------------------------- MODULE MCSpriteUploads --------------------------
(***************************************************************************)
(* SpriteUploads for TLC: two actors and an object with two frames each,   *)
(* and a queue of three places, two of them open to actors.                *)
(***************************************************************************)
EXTENDS SpriteUploads

CONSTANTS hero, guard, chest, f1, f2

ActorsMC == {hero, guard}
ObjectsMC == {chest}
FramesMC == {f1, f2}

=============================================================================
