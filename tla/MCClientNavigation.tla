-------------------------- MODULE MCClientNavigation --------------------------
(***************************************************************************)
(* Instance for TLC: the page the user is on, another one, and one that    *)
(* redirects to the other.                                                 *)
(***************************************************************************)
EXTENDS ClientNavigation

CONSTANTS home, post, draft

MCRoute == {home, post, draft}
MCRedirect == [r \in MCRoute |-> IF r = draft THEN post ELSE r]
=============================================================================
