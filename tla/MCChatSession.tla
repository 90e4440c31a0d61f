--------------------------- MODULE MCChatSession ---------------------------
(***************************************************************************)
(* Instances of ChatSession for TLC: two sessions and three turns, one     *)
(* that names a model, one that does not, and a plan review.               *)
(***************************************************************************)
EXTENDS ChatSession

CONSTANTS s1, s2, t1, t2, t3

MCSessions == {s1, s2}
MCOneSession == {s1}
MCTurns == {t1, t2, t3}
MCReviews == {t3}
MCResolves == {t1}
=============================================================================
