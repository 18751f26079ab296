----------------------------- MODULE NodesPage -----------------------------
(***************************************************************************)
(* The node list of the web client (views/nodes/index.jsx): every filter   *)
(* change, page change, finished task and batch edit asks the server for   *)
(* the list again, and the answers may come back in any order.             *)
(*                                                                         *)
(* The filters are one value, the rows one version of the nodes' table.    *)
(* The page size is part of the filters: both restart the same timer.  One *)
(* batch edit is under way at a time.                                      *)
(* Filter options, dialogs, export and selection are left out.             *)
(***************************************************************************)
EXTENDS Naturals

CONSTANTS
  Filter,      \* what the filter controls can say
  MaxVersion,  \* bound on the changes of the nodes' table
  MaxRequests  \* bound on the list requests under way

ASSUME NodesAssumption ==
  /\ Filter # {}
  /\ MaxVersion \in Nat
  /\ MaxRequests \in Nat \ {0}

VARIABLES
  version,   \* the nodes' table
  filter,    \* the filter controls
  pageNo,    \* page
  debounce,  \* debounceTimerRef is armed
  requests,  \* slots of requests under way
  shown,     \* what the list shows: of which query, of which version
  failed,    \* the last answer was a failure
  reloadTimer, \* the timer of onTaskComplete is armed
  heard,     \* history: the version of the last completion heard
  batch,     \* the query a submitted batch edit will ask for when it is done
  stale      \* history: the last query asked for was a batch edit's

nodesVars == <<version, filter, pageNo, debounce, requests, shown, failed,
               reloadTimer, heard, batch, stale>>

Query == Filter \X {0, 1}
Slot == 1 .. MaxRequests

NoQuery == <<>>
Free == [state |-> "free"]
Request == [state : {"current", "outdated"}, query : Query, answer : 0 .. MaxVersion + 1]

\* The component's state before its first effect.
NodesInit ==
  /\ version = 0
  /\ filter \in Filter /\ pageNo = 0
  /\ debounce = FALSE
  /\ requests = [i \in Slot |-> Free]
  /\ shown = [query |-> NoQuery, version |-> 0]
  /\ failed = FALSE
  /\ reloadTimer = FALSE
  /\ heard = 0
  /\ batch = NoQuery
  /\ stale = FALSE

getCurrentFilters == <<filter, pageNo>>

Current == {i \in Slot : requests[i].state = "current"}

\* fetchNodes: the request before it is aborted and its sequence number is
\* outdated.  An answer is the version read, counted from 1; 0 is none yet.
fetchNodes(q) ==
  \E i \in Slot :
    /\ requests[i] = Free
    /\ \A j \in Slot : j < i => requests[j] # Free
    /\ requests' = [j \in Slot |->
         IF j = i THEN [state |-> "current", query |-> q, answer |-> 0]
         ELSE IF j \in Current THEN [requests[j] EXCEPT !.state = "outdated"]
         ELSE requests[j]]

NotAsked == UNCHANGED <<shown, failed, heard>>

-----------------------------------------------------------------------------
InitialLoad ==
  /\ shown.query = NoQuery /\ ~failed /\ Current = {}
  /\ fetchNodes(<<filter, 0>>)
  /\ NotAsked /\ UNCHANGED <<version, filter, pageNo, debounce, reloadTimer, batch, stale>>

ChangeFilter(f) ==
  /\ f # filter /\ filter' = f
  /\ debounce' = TRUE
  /\ NotAsked /\ UNCHANGED <<version, pageNo, requests, reloadTimer, batch, stale>>

\* The 300 ms of the filter effect are over.
DebounceFires ==
  /\ debounce /\ debounce' = FALSE
  /\ pageNo' = 0
  /\ fetchNodes(<<filter, 0>>)
  /\ stale' = FALSE
  /\ NotAsked /\ UNCHANGED <<version, filter, reloadTimer, batch>>

onPageChange(p) ==
  /\ p # pageNo /\ pageNo' = p
  /\ fetchNodes(<<filter, p>>)
  /\ stale' = FALSE
  /\ NotAsked /\ UNCHANGED <<version, filter, debounce, reloadTimer, batch>>

\* The refresh button, which is disabled while the list loads.
handleRefresh ==
  /\ Current = {}
  /\ fetchNodes(getCurrentFilters)
  /\ stale' = FALSE
  /\ NotAsked /\ UNCHANGED <<version, filter, pageNo, debounce, reloadTimer, batch>>

\* A speed test or an update of a subscription changes the nodes ...
TaskWrites ==
  /\ version < MaxVersion /\ version' = version + 1
  /\ NotAsked
  /\ UNCHANGED <<filter, pageNo, debounce, requests, reloadTimer, batch, stale>>

\* ... and its completion is heard.
onTaskComplete ==
  /\ heard < version /\ heard' = version
  /\ reloadTimer' = TRUE
  /\ UNCHANGED <<version, filter, pageNo, debounce, requests, shown, failed, batch, stale>>

\* Mutant of RefreshFires: the callback keeps the filters it was made with.
RefreshFiresStale ==
  /\ reloadTimer /\ reloadTimer' = FALSE
  /\ fetchNodes(IF shown.query = NoQuery THEN getCurrentFilters ELSE shown.query)
  /\ stale' = FALSE
  /\ NotAsked /\ UNCHANGED <<version, filter, pageNo, debounce, batch>>

\* The 250 ms are over: refreshRef has the last render's handleRefresh.
RefreshFires ==
  /\ reloadTimer /\ reloadTimer' = FALSE
  /\ fetchNodes(getCurrentFilters)
  /\ stale' = FALSE
  /\ NotAsked /\ UNCHANGED <<version, filter, pageNo, debounce, batch>>

\* A batch edit is sent; its continuation has this render's filters.
SubmitBatch ==
  /\ batch = NoQuery /\ batch' = getCurrentFilters
  /\ NotAsked
  /\ UNCHANGED <<version, filter, pageNo, debounce, requests, reloadTimer, stale>>

\* It is done, and may have changed nothing; the dialog may have been
\* cancelled and the filters changed by now.
BatchDone ==
  /\ batch # NoQuery /\ batch' = NoQuery
  /\ version' \in {version, version + 1} \cap 0 .. MaxVersion
  /\ fetchNodes(batch)
  /\ stale' = TRUE
  /\ NotAsked /\ UNCHANGED <<filter, pageNo, debounce, reloadTimer>>

BatchFails ==
  /\ batch # NoQuery /\ batch' = NoQuery
  /\ NotAsked
  /\ UNCHANGED <<version, filter, pageNo, debounce, requests, reloadTimer, stale>>

-----------------------------------------------------------------------------
\* The server reads the table, also for a request that has been aborted.
GetNodes(i) ==
  /\ requests[i] # Free /\ requests[i].answer = 0
  /\ requests' = [requests EXCEPT ![i].answer = version + 1]
  /\ NotAsked
  /\ UNCHANGED <<version, filter, pageNo, debounce, reloadTimer, batch, stale>>

\* Mutant of FetchAnswered: the sequence number is not compared.
FetchAnsweredAnyway(i) ==
  /\ requests[i] # Free /\ requests[i].answer > 0
  /\ requests' = [requests EXCEPT ![i] = Free]
  /\ shown' = [query |-> requests[i].query, version |-> requests[i].answer - 1]
  /\ failed' = FALSE
  /\ UNCHANGED <<version, filter, pageNo, debounce, reloadTimer, heard, batch, stale>>

\* An answer arrives; an outdated one is dropped, whether its abort came in
\* time or not.
FetchAnswered(i) ==
  /\ requests[i] # Free /\ requests[i].answer > 0
  /\ requests' = [requests EXCEPT ![i] = Free]
  /\ IF i \in Current
     THEN /\ shown' = [query |-> requests[i].query, version |-> requests[i].answer - 1]
          /\ failed' = FALSE
     ELSE UNCHANGED <<shown, failed>>
  /\ UNCHANGED <<version, filter, pageNo, debounce, reloadTimer, heard, batch, stale>>

FetchFails(i) ==
  /\ requests[i] # Free
  /\ requests' = [requests EXCEPT ![i] = Free]
  /\ failed' = (failed \/ i \in Current)
  /\ UNCHANGED <<version, filter, pageNo, debounce, shown, reloadTimer, heard, batch, stale>>

NodesNext ==
  \/ InitialLoad \/ DebounceFires \/ handleRefresh
  \/ TaskWrites \/ onTaskComplete \/ RefreshFires
  \/ SubmitBatch \/ BatchDone \/ BatchFails
  \/ \E f \in Filter : ChangeFilter(f)
  \/ \E p \in {0, 1} : onPageChange(p)
  \/ \E i \in Slot : GetNodes(i) \/ FetchAnswered(i) \/ FetchFails(i)

-----------------------------------------------------------------------------
NodesTypeOK ==
  /\ {version, heard} \subseteq 0 .. MaxVersion
  /\ filter \in Filter /\ pageNo \in {0, 1}
  /\ {debounce, failed, reloadTimer, stale} \subseteq BOOLEAN
  /\ requests \in [Slot -> Request \cup {Free}]
  /\ shown \in [query : Query \cup {NoQuery}, version : 0 .. MaxVersion]
  /\ batch \in Query \cup {NoQuery}

NodesQuiet == ~debounce /\ ~reloadTimer /\ batch = NoQuery /\ Current = {}

\* Once nothing is under way the list shows what its controls say, and is as
\* new as the last completion that was heard, in whatever order the answers
\* came.  Two exceptions: the last answer was a failure, which a message
\* reports, or the last one to ask was a batch edit, with the filters of the
\* render it was submitted from.
NodesListSettles ==
  NodesQuiet /\ shown.query # NoQuery =>
    \/ failed
    \/ shown.query = getCurrentFilters /\ shown.version >= heard
    \/ stale /\ shown.version >= heard

\* Rows the list has shown are never replaced by older ones.
NodesListNeverGoesBack ==
  [][shown.query # NoQuery => shown'.version >= shown.version]_nodesVars
=============================================================================
