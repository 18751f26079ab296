------------------------------ MODULE WebPages ------------------------------
(***************************************************************************)
(* The pages of the web client that ask again while older answers are on   *)
(* their way (routes/MainRoutes.jsx): the router mounts one of them at a   *)
(* time, and a page that is left drops its state, so every page starts     *)
(* from its own initial state and only its own actions happen.             *)
(***************************************************************************)
EXTENDS NodesPage, NodeCheckPage, SmartGroupsPage, TemplateEditor

VARIABLE route  \* the page that is mounted

pageVars == <<nodesVars, checkVars, groupsVars, editorVars, route>>

WebInit ==
  /\ route \in {"nodes", "node_check", "smart_groups", "templates"}
  /\ NodesInit /\ CheckInit /\ GroupsInit /\ EditorInit
  \* What an unmounted page would start from does not matter.
  /\ route # "nodes" => filter = CHOOSE f \in Filter : TRUE
  /\ route # "node_check" => ~running
  /\ route # "smart_groups" => checking = {} /\ ~automatic

WebNext ==
  \/ /\ route = "nodes" /\ NodesNext
     /\ UNCHANGED <<checkVars, groupsVars, editorVars, route>>
  \/ /\ route = "node_check" /\ CheckNext
     /\ UNCHANGED <<nodesVars, groupsVars, editorVars, route>>
  \/ /\ route = "smart_groups" /\ GroupsNext
     /\ UNCHANGED <<nodesVars, checkVars, editorVars, route>>
  \/ /\ route = "templates" /\ EditorNext
     /\ UNCHANGED <<nodesVars, checkVars, groupsVars, route>>

WebSpec == WebInit /\ [][WebNext]_pageVars /\ CheckFairness
=============================================================================
