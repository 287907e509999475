------------------------------ MODULE MCHotReload ------------------------------
(***************************************************************************)
(* Instance for TLC: a panel below app/ imports a card, which imports a    *)
(* badge.  The batch of a save of the badge rebuilds the panel, from a     *)
(* card that only the full build makes anew.  A page stands beside them.   *)
(***************************************************************************)
EXTENDS HotReload

CONSTANTS panel, card, badge, page

MCFile == {panel, card, badge, page}
MCImports == [f \in MCFile |-> IF f = panel THEN {card}
                               ELSE IF f = card THEN {badge} ELSE {}]
MCBelow == [f \in MCFile |-> IF f = panel THEN {card, badge}
                             ELSE IF f = card THEN {badge} ELSE {}]
MCImporters == [f \in MCFile |-> {g \in MCFile : f \in MCImports[g]}]
MCApp == {panel, page}
MCRoute == {page}
MCOrder == <<badge, card, page, panel>>
MCRegistered == {panel}
MCMaxEdits == [f \in MCFile |-> IF f = panel THEN 2 ELSE IF f = card THEN 0 ELSE 1]
=============================================================================
