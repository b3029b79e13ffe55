---------------------------- MODULE MCRevisionBus ----------------------------
(* Model checking instance of the revision bus, the caches keyed by its    *)
(* revision and the labels of themes. In a behaviour either the bus runs,  *)
(* or theme labels do, or callers ask one of the caches (and this the      *)
(* caches it is made from).                                                *)
EXTENDS RevisionBus, RevisionCaches, ThemeLabels

VARIABLE part

MCInit ==
    /\ part \in {"bus", "labels"} \cup Asked
    /\ Init /\ CachesInit /\ ThemesInit

(* Only stored maps need a second process: after the first one has written *)
(* what leaves them alone, the second writes what deletes them. One write  *)
(* while they compute is what there is to check of the other caches.       *)
CachesWithin ==
    /\ \A g \in Callers : calls'[g] # <<>> => calls'[g][1].cache = part
    /\ \A w \in writing' : w.layout => part = "map" /\ w.version = MaxVersion
    /\ corpus' = MaxVersion => starts' = MaxStarts
    /\ starts' = 1 \/ part = "map"

MCNext ==
    /\ UNCHANGED part
    /\ \/ part = "bus" /\ Next /\ UNCHANGED <<cacheVars, themeVars>>
       \/ part = "labels" /\ ThemesNext /\ UNCHANGED <<vars, cacheVars>>
       \/ part \in Asked /\ CachesNext /\ CachesWithin /\ UNCHANGED <<vars, themeVars>>

MCSpec == MCInit /\ [][MCNext]_<<part, vars, cacheVars, themeVars>> /\ BusFairness
=============================================================================
