------------------------------ MODULE GainStore ------------------------------
(* What the gains path promises a console: the drone has one set of gains    *)
(* per axis, replaced as a whole by an update, and what it reports is what   *)
(* it has, rounded as reports are.                                            *)
CONSTANTS
    Updates,        \* [axis, gains] updates that may be accepted
    FirstGains,     \* the gains before any update
    Viewers,        \* consoles
    Nothing,        \* what a viewer has seen before the first report
    Render(_)       \* how gains look in a report

VARIABLES store, shown

svars == <<store, shown>>

SInit ==
    /\ store = FirstGains
    /\ shown = [v \in Viewers |-> Nothing]

Update(u) ==
    /\ store' = [store EXCEPT ![u.axis] = u.gains]
    /\ UNCHANGED shown

Show(v) ==
    /\ shown' = [shown EXCEPT ![v] = Render(store)]
    /\ UNCHANGED store

SNext == (\E u \in Updates : Update(u)) \/ (\E v \in Viewers : Show(v))

SSpec == SInit /\ [][SNext]_svars
=============================================================================
