--------------------------- MODULE WorkspaceScope ---------------------------
(* What the shell of the application promises about workspaces: the rows on *)
(* the screen are rows of the workspace that is named on the screen.        *)
EXTENDS Naturals

CONSTANT MaxWorkspace      \* workspaces are numbered by age, from 1

VARIABLES active,          \* the workspace the shell names, 0 for none yet
          shown            \* the workspace the rows belong to, 0 for no rows

vars == <<active, shown>>

Choices == 0..MaxWorkspace

TypeOK == active \in Choices /\ shown \in Choices

Init == active \in Choices /\ shown = 0

(* Picking a workspace drops the rows of the one before. *)
Switch == active' \in Choices /\ shown' = 0

(* Until a workspace is named, the one that comes must fit the rows. *)
Adopt == active = 0 /\ active' \in Choices /\ shown \in {0, active'} /\ UNCHANGED shown

Fill == shown' \in Choices \ {0} /\ active \in {0, shown'} /\ UNCHANGED active

Drop == shown' = 0 /\ UNCHANGED active

(* Signing out names no workspace; rows may linger in the cache. *)
Leave == active' = 0 /\ UNCHANGED shown

Next == Switch \/ Adopt \/ Fill \/ Drop \/ Leave

Spec == Init /\ [][Next]_vars

(* Rows never stand under the name of another workspace. *)
Scoped == active = 0 \/ shown \in {0, active}
=============================================================================
