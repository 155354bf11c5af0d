------------------------------ MODULE MCClients ------------------------------
(* One instance for TLC of the archive as its callers meet it: the contract of *)
(* the two stores, and the web application that asks the archive.  A behaviour *)
(* is one of the areas below from its initial state on, and the others stand   *)
(* still.  They share no variable, so that this is each of them by itself.     *)
EXTENDS StoreContract, Console, Pages

CONSTANT Areas

VARIABLE area

(* How many calls of each group of the store. *)
Depths == [g \in Groups |->
    CASE g \in {"devices", "curation", "memory", "teams"} -> 4
      [] g = "unread" -> 6
      [] OTHER -> 5]

(* Two sessions, "s" the newer. *)
TwoSessions == <<"s", "t">>

(* How many requests the reader's errand makes, and each screen. *)
ErrandAsks == [e \in Errands |-> IF e \in {"scrolling", "returning"} THEN 4 ELSE 3]
ScreenAsks == [p \in Pages |->
    CASE p \in {"convert", "search"} -> 3 [] p = "teams" -> 5 [] p = "import" -> 9 [] OTHER -> 4]

clientVars == <<area, contractVars, consoleVars, pagesVars>>

(* Where an area has several initial states, the others begin in one of them. *)
Init ==
    /\ area \in Areas
    /\ ContractInit /\ (area = "contract" \/ group = "settings")
    /\ ConsoleInit
    /\ area = "console" \/ (place = "timeline" /\ accepted = 1 /\ errand = "moving")
    /\ PagesInit /\ (area = "pages" \/ (page = "search" /\ losses = 0))

OthersStand ==
    /\ IF area = "contract" THEN TRUE ELSE UNCHANGED contractVars
    /\ IF area = "console" THEN TRUE ELSE UNCHANGED consoleVars
    /\ IF area = "pages" THEN TRUE ELSE UNCHANGED pagesVars

Next ==
    /\ UNCHANGED area
    /\ \/ area = "contract" /\ ContractNext
       \/ area = "console" /\ ConsoleNext
       \/ area = "pages" /\ PagesNext
    /\ OthersStand

Spec == Init /\ [][Next]_clientVars
=============================================================================
