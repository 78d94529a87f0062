------------------------------ MODULE MCPanelMenu ------------------------------
(* Two applications in two categories, one tool, a window, and a cache for two *)
(* icons out of three.  The name of the first application's icon and that of    *)
(* the window and the tool differ in the case of a letter, and only the latter   *)
(* is that of a file; the second's is symbolic; the icon of the first category   *)
(* is a file of its own.                                                        *)
EXTENDS PanelMenu

MCNames == {"Mail", "mail", "term", "term-symbolic", "nizam", "/net.svg"}
MCPaths == {"/net.svg"}
MCStem == [n \in MCNames |-> n]
MCNorm == [n \in MCNames |-> IF n = "Mail" THEN "mail" ELSE n]
MCKeys == {MCNorm[n] : n \in MCNames}
MCInstalled == {<<2, "mail">>, <<1, "term-symbolic">>, <<2, "term">>, <<1, "nizam">>,
                <<2, "/net.svg">>}
MCSymbolic == [n \in {"term"} |-> "term-symbolic"]
MCHolders == {App(1), App(2), Tool(1), Cat(1), Cat(2), Task}
MCSurfaces == 1..45
MCPool == [k \in MCKeys |-> CASE k = "mail" -> 1..9 [] k = "term-symbolic" -> 10..18
                             [] k = "nizam" -> 19..27 [] k = "term" -> 28..36
                             [] OTHER -> 37..45]
MCPlaces == {1, 2}

CONSTANTS e1, e2
MCCategory == [e \in {e1, e2} |-> IF e = e1 THEN 1 ELSE 2]
MCLabel == [e \in {e1, e2} |-> IF e = e1 THEN <<1, 4>> ELSE <<2, 3>>]
MCIcon == [e \in {e1, e2} |-> IF e = e1 THEN "Mail" ELSE "term"]
MCTools == <<"mail">>
MCCats == <<<<"/net.svg", "nizam">>, <<"nizam">>>>
================================================================================
