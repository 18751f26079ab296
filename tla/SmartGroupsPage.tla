-------------------------- MODULE SmartGroupsPage --------------------------
(***************************************************************************)
(* The smart groups as a tab shows them (views/smart-groups/index.jsx):    *)
(* the list, the dialog with one group's members, the check started from   *)
(* it, and the interval that loads both again while anything may run.      *)
(*                                                                         *)
(* A group is whether its check runs; rules, profiles, members' rows, the  *)
(* form and deletion are left out.  SmartGroupChecks has the server's side *)
(* of a check.                                                             *)
(***************************************************************************)
EXTENDS Naturals, FiniteSets

CONSTANTS
  Group, NoGroup,
  MaxChecks,  \* bound on the checks started
  MaxLists,   \* bound on the list requests under way
  MaxMembers  \* bound on the member requests under way

ASSUME GroupsAssumption ==
  /\ NoGroup \notin Group
  /\ MaxChecks \in Nat /\ {MaxLists, MaxMembers} \subseteq Nat \ {0}

VARIABLES
  checking,   \* the groups whose check runs on the server
  checks,
  automatic,  \* some group has a schedule or follows its airports
  listed,     \* the groups the list shows as running
  lists,      \* slots of list requests
  view,       \* the group whose dialog is open
  viewRuns,   \* it is shown as running
  members,    \* the group whose members are in the dialog's state
  memberReqs, \* slots of member requests
  checkCall   \* the group whose check has been asked for

groupsVars == <<checking, checks, automatic, listed, lists, view, viewRuns,
                members, memberReqs, checkCall>>

ListSlot == 1 .. MaxLists
MemberSlot == 1 .. MaxMembers

NoList == [state |-> "free", answer |-> {}]
NoMembers == [state |-> "free", group |-> NoGroup, outdated |-> FALSE, runs |-> FALSE]

GroupsInit ==
  /\ checking \in SUBSET Group
  /\ checks = 0
  /\ automatic \in BOOLEAN
  /\ listed = {}
  /\ lists = [i \in ListSlot |-> IF i = 1 THEN [NoList EXCEPT !.state = "sent"] ELSE NoList]
  /\ view = NoGroup
  /\ viewRuns = FALSE
  /\ members = NoGroup
  /\ memberReqs = [i \in MemberSlot |-> NoMembers]
  /\ checkCall = NoGroup

\* refresh: its answers are shown in the order they come.
refresh ==
  \E i \in ListSlot :
    /\ lists[i] = NoList /\ \A j \in ListSlot : j < i => lists[j] # NoList
    /\ lists' = [lists EXCEPT ![i].state = "sent"]

Outdated == [i \in MemberSlot |-> [memberReqs[i] EXCEPT !.outdated = memberReqs[i] # NoMembers]]

\* showMembers' request: memberRequest is incremented.
requestMembers(g) ==
  \E i \in MemberSlot :
    /\ memberReqs[i] = NoMembers /\ \A j \in MemberSlot : j < i => memberReqs[j] # NoMembers
    /\ memberReqs' = [Outdated EXCEPT ![i] = [NoMembers EXCEPT !.state = "sent", !.group = g]]

-----------------------------------------------------------------------------
\* The members button: the old members go first.
OpenMembers(g) ==
  /\ view = NoGroup /\ checkCall = NoGroup
  /\ view' = g /\ viewRuns' = (g \in listed)
  /\ members' = NoGroup
  /\ requestMembers(g)
  /\ UNCHANGED <<checking, checks, automatic, listed, lists, checkCall>>

\* Another page of the members, and the dialog's refresh button.
TurnPage ==
  /\ view # NoGroup
  /\ \A i \in MemberSlot : memberReqs[i] # NoMembers => memberReqs[i].outdated
  /\ requestMembers(view)
  /\ UNCHANGED <<checking, checks, automatic, listed, lists, view, viewRuns, members, checkCall>>

\* Mutant of closeMembers: memberRequest is left alone.
CloseOnly ==
  /\ view # NoGroup
  /\ view' = NoGroup /\ viewRuns' = FALSE
  /\ UNCHANGED <<checking, checks, automatic, listed, lists, members, memberReqs, checkCall>>

closeMembers ==
  /\ view # NoGroup
  /\ view' = NoGroup /\ viewRuns' = FALSE
  /\ memberReqs' = Outdated
  /\ UNCHANGED <<checking, checks, automatic, listed, lists, members, checkCall>>

\* runCheck, up to its request, from the dialog or from one of its rows; busy
\* disables its buttons, though here not until the list is loaded as well.
runCheck ==
  /\ view # NoGroup /\ ~viewRuns /\ members # NoGroup /\ checkCall = NoGroup
  /\ checkCall' = view
  /\ UNCHANGED <<checking, checks, automatic, listed, lists, view, viewRuns, members, memberReqs>>

\* The check has started; the dialog may show another group by now.
CheckStarted ==
  /\ checkCall # NoGroup /\ checkCall' = NoGroup
  /\ checkCall \notin checking /\ checks < MaxChecks
  /\ checking' = checking \cup {checkCall} /\ checks' = checks + 1
  /\ viewRuns' = (viewRuns \/ view = checkCall)
  /\ refresh
  /\ UNCHANGED <<automatic, listed, view, members, memberReqs>>

CheckRefused ==
  /\ checkCall # NoGroup /\ checkCall' = NoGroup
  /\ UNCHANGED <<checking, checks, automatic, listed, lists, view, viewRuns, members, memberReqs>>

\* The schedule or an airport starts a check.
CheckStarts(g) ==
  /\ automatic /\ g \notin checking /\ checks < MaxChecks
  /\ checking' = checking \cup {g} /\ checks' = checks + 1
  /\ UNCHANGED <<automatic, listed, lists, view, viewRuns, members, memberReqs, checkCall>>

\* What the interval and a finished task do.
ReloadBoth ==
  /\ refresh
  /\ IF view = NoGroup THEN UNCHANGED memberReqs ELSE requestMembers(view)

\* A check ends; its task's completion may be heard.
CheckEnds(g) ==
  /\ g \in checking /\ checking' = checking \ {g}
  /\ ReloadBoth \/ UNCHANGED <<lists, memberReqs>>
  /\ UNCHANGED <<checks, automatic, listed, view, viewRuns, members, checkCall>>

\* hasAutomaticGroups, or the open group runs.
Polling == automatic \/ listed # {} \/ viewRuns

IntervalFires ==
  /\ Polling
  /\ ReloadBoth
  /\ UNCHANGED <<checking, checks, automatic, listed, view, viewRuns, members, checkCall>>

-----------------------------------------------------------------------------
GetSmartGroups(i) ==
  /\ lists[i].state = "sent"
  /\ lists' = [lists EXCEPT ![i] = [state |-> "read", answer |-> checking]]
  /\ UNCHANGED <<checking, checks, automatic, listed, view, viewRuns, members, memberReqs, checkCall>>

ListAnswered(i) ==
  /\ lists[i].state = "read"
  /\ listed' = lists[i].answer
  /\ lists' = [lists EXCEPT ![i] = NoList]
  /\ UNCHANGED <<checking, checks, automatic, view, viewRuns, members, memberReqs, checkCall>>

ListFails(i) ==
  /\ lists[i] # NoList
  /\ lists' = [lists EXCEPT ![i] = NoList]
  /\ UNCHANGED <<checking, checks, automatic, listed, view, viewRuns, members, memberReqs, checkCall>>

GetSmartGroupMembers(i) ==
  /\ memberReqs[i].state = "sent"
  /\ memberReqs' = [memberReqs EXCEPT ![i].state = "read",
                                      ![i].runs = memberReqs[i].group \in checking]
  /\ UNCHANGED <<checking, checks, automatic, listed, lists, view, viewRuns, members, checkCall>>

\* An answer for the dialog: the members, and the group as it is by now.
MembersAnswered(i) ==
  /\ memberReqs[i].state = "read"
  /\ memberReqs' = [memberReqs EXCEPT ![i] = NoMembers]
  /\ IF memberReqs[i].outdated THEN UNCHANGED <<members, view, viewRuns>>
     ELSE members' = memberReqs[i].group /\ view' = memberReqs[i].group
          /\ viewRuns' = memberReqs[i].runs
  /\ UNCHANGED <<checking, checks, automatic, listed, lists, checkCall>>

MembersFail(i) ==
  /\ memberReqs[i] # NoMembers
  /\ memberReqs' = [memberReqs EXCEPT ![i] = NoMembers]
  /\ UNCHANGED <<checking, checks, automatic, listed, lists, view, viewRuns, members, checkCall>>

GroupsNext ==
  \/ TurnPage \/ closeMembers \/ runCheck \/ CheckStarted \/ CheckRefused \/ IntervalFires
  \/ \E g \in Group : OpenMembers(g) \/ CheckStarts(g) \/ CheckEnds(g)
  \/ \E i \in ListSlot : GetSmartGroups(i) \/ ListAnswered(i) \/ ListFails(i)
  \/ \E i \in MemberSlot :
       \/ GetSmartGroupMembers(i) \/ MembersAnswered(i) \/ MembersFail(i)

-----------------------------------------------------------------------------
GroupsTypeOK ==
  /\ {checking, listed} \subseteq SUBSET Group
  /\ checks \in 0 .. MaxChecks
  /\ {automatic, viewRuns} \subseteq BOOLEAN
  /\ lists \in [ListSlot -> [state : {"free", "sent", "read"}, answer : SUBSET Group]]
  /\ {view, members, checkCall} \subseteq Group \cup {NoGroup}
  /\ memberReqs \in [MemberSlot -> [state : {"free", "sent", "read"}, group : Group \cup {NoGroup},
                              outdated : BOOLEAN, runs : BOOLEAN]]

\* The dialog shows the members of the group it was opened for and of no other,
\* and an answer does not open it again, however late it comes.
MembersOfOpenGroup ==
  [][/\ view' # NoGroup /\ members' # NoGroup => members' = view'
     /\ view # NoGroup => view' \in {view, NoGroup}
     /\ view = NoGroup /\ view' # NoGroup => members' = NoGroup]_groupsVars
=============================================================================
