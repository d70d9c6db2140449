------------------------------- MODULE MCGame -------------------------------
(* A small screen for Game: seven cannon steps wide, four shot rows high.  *)
EXTENDS Game

\* No key, each game key in the low byte, the pair that conflicts in both orders,
\* a key that steers with the one that fires, and keys the game does not know.
MCKeycodes ==
    {Keycode(NoKey, key) : key \in {NoKey, SpaceKey, LeftKey, RightKey}}
    \cup {Keycode(SpaceKey, LeftKey), Keycode(RightKey, SpaceKey),
          Keycode(RightKey, LeftKey), Keycode(LeftKey, RightKey), Keycode(4, 5)}
=============================================================================
