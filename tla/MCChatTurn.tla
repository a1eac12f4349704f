----------------------------- MODULE MCChatTurn -----------------------------
(* Instances of ChatTurn for TLC. *)
EXTENDS ChatTurn, TLC

CONSTANTS t1, t2, t3, s1, s2

\* Turns that change no preferences, and turns that take both locks in either order.
NoPreferences == {{}}
TwoPreferences == {{"model", "user"}, {"user", "settings"}}

Symmetry == Permutations({t2, t3})
=============================================================================
