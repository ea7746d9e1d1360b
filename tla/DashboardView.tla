--------------------------- MODULE DashboardView ---------------------------
(***************************************************************************)
(* The live view of src/client/dashboard/app.ts: the overview with its      *)
(* table of incidents, the preview, the dialog of one incident, and the     *)
(* names of OLTs that are looked up for all three.  Every answer of the     *)
(* server is an event of its own; nothing orders the answers.              *)
(***************************************************************************)
EXTENDS Integers, FiniteSets, Sequences

CONSTANTS Listed,        \* incidents the server may list
          OltOf,         \* the OLT of each
          PageCount,     \* pages of the list
          Views,         \* calls of showIncident under way
          GroupSize,     \* names that loadOltNames looks up together
          MaxClicks,     \* bound: clicks for another page
          MaxFailures    \* bound: loads of the overview that fail

Nobody == "nobody"

ASSUME ViewAssumption ==
  /\ PageCount \in Nat \ {0} /\ GroupSize \in Nat \ {0}
  /\ MaxClicks \in Nat /\ MaxFailures \in Nat
  /\ Nobody \notin Listed

VARIABLES
  page,       \* state.pagination.incidents
  shown,      \* the page the table shows, 0 before the first
  loading,    \* the overview: idle, waiting for its summary or for a page
  auto,       \* state.autoRefresh
  clicks, failures,
  rows,       \* state.incidents
  preview,    \* state.previewIncident, set while the preview is open
  dialog,     \* whether it is open, the incident its header names, which is
              \* state.detailIncident, the one its buttons act on, and the
              \* summaries in it: whose each is, whether it reads "Consultando"
  view,       \* where each showIncident is (`again` after an operation), and
              \* its incident
  names,      \* OLTs whose name, or its absence, is in state.oltNames
  flying,     \* OLTs being looked up (state.oltNameRequests)
  groups,     \* each loadOltNames at work: the OLTs of the group it waits
              \* for, and those it has still to come to
  dropped,    \* OLTs that one which ended with an error had still to come to,
              \* since the table was drawn
  pending     \* labels that read "Consultando" in the table, the preview and
              \* the title of the dialog: places and incidents

list == <<page, shown, loading, auto, clicks, failures>>
olts == <<names, flying, groups, dropped>>
dashboard == <<list, rows, preview, dialog, view, olts, pending>>

Olts == {OltOf[i] : i \in Listed}
Places == {"table", "preview", "title"}
Still == [stage |-> "idle", of |-> Nobody]
Quiet == [stage |-> "idle", asked |-> 0]
Showing == [stage : {"operating", "loading", "again"}, of : Listed]
Summaries == [of : Listed, waits : BOOLEAN]
Groups == [waits : SUBSET Olts, rest : SUBSET Olts]

ViewTypeOK ==
  /\ page \in 1..PageCount /\ shown \in 0..PageCount
  /\ loading.stage \in {"idle", "summary", "list"} /\ loading.asked \in 0..PageCount
  /\ auto \in BOOLEAN /\ clicks \in 0..MaxClicks /\ failures \in 0..MaxFailures
  /\ rows \subseteq Listed /\ preview \in Listed \union {Nobody}
  /\ dialog \in [open : BOOLEAN, header : Listed \union {Nobody},
                 actions : Listed \union {Nobody}, summaries : Seq(Summaries)]
  /\ view \in [Views -> {Still} \union Showing]
  /\ names \subseteq Olts /\ flying \subseteq Olts /\ dropped \subseteq Olts
  /\ groups \subseteq Groups
  /\ pending \subseteq Places \X Listed

ViewInit ==
  /\ page = 1 /\ shown = 0
  /\ loading = [stage |-> "summary", asked |-> 0]
  /\ auto \in BOOLEAN
  /\ clicks = 0 /\ failures = 0
  /\ rows = {}
  /\ preview = Nobody
  /\ dialog = [open |-> FALSE, header |-> Nobody, actions |-> Nobody, summaries |-> <<>>]
  /\ view = [v \in Views |-> Still]
  /\ names = {} /\ flying = {} /\ groups = {} /\ dropped = {} /\ pending = {}

-----------------------------------------------------------------------------
(* refreshCurrentView, through whileLoading: dropped while a load runs.     *)
Refreshed == IF loading.stage = "idle" THEN [stage |-> "summary", asked |-> 0] ELSE loading

(* The buttons of renderPagination lead from the page that is shown.        *)
ClickPage(p) ==
  /\ shown # 0 /\ p \in {shown - 1, shown + 1} \cap 1..PageCount
  /\ ~dialog.open
  /\ clicks < MaxClicks
  /\ clicks' = clicks + 1
  /\ page' = p
  /\ loading' = Refreshed
  /\ UNCHANGED <<shown, auto, failures, rows, preview, dialog, view, olts, pending>>

SetAutoRefresh ==
  /\ ~dialog.open
  /\ auto' = ~auto
  /\ UNCHANGED <<page, shown, loading, clicks, failures, rows, preview, dialog, view, olts, pending>>

TimerFires ==
  /\ auto /\ ~dialog.open /\ preview = Nobody
  /\ loading.stage = "idle"
  /\ loading' = Refreshed
  /\ UNCHANGED <<page, shown, auto, clicks, failures, rows, preview, dialog, view, olts, pending>>

SummaryArrives ==
  /\ loading.stage = "summary"
  /\ loading' = [stage |-> "list", asked |-> page]
  /\ UNCHANGED <<page, shown, auto, clicks, failures, rows, preview, dialog, view, olts, pending>>

Labels(place, S) == {place} \X {i \in S : OltOf[i] \notin names}
Elsewhere(place) == {l \in pending : l[1] # place}

(* loadOltName for each of O: a name that is known and still young is used,  *)
(* one that is being looked up is waited for, any other is looked up.       *)
Young(O) == SUBSET (O \intersect names)
Asks(O, young) == flying' = flying \union (O \ young)

(* loadOltNames comes to its next group, and waits for what is looked up.    *)
NextGroups(rest) ==
  IF Cardinality(rest) < GroupSize THEN {rest} ELSE {g \in SUBSET rest : Cardinality(g) = GroupSize}
AtWork(G) == {b \in G : b.waits \union b.rest # {}}
Comes(others, rest, g, young) ==
  /\ Asks(g, young)
  /\ groups' = AtWork(others \union {[waits |-> g \ young, rest |-> rest \ g]})

(* loadIncidents: the table, the first names, the end of the load.          *)
ListArrives(S) ==
  /\ loading.stage = "list"
  /\ shown' = loading.asked
  /\ rows' = S
  /\ pending' = Elsewhere("table") \union Labels("table", S)
  /\ LET all == {OltOf[i] : i \in S}
     IN \E g \in NextGroups(all) : \E young \in Young(g) : Comes(groups, all, g, young)
  /\ dropped' = {}
  /\ loading' = Quiet
  /\ UNCHANGED <<page, auto, clicks, failures, preview, dialog, view, names>>

(* Faulty variant: the view is not released when its load fails.            *)
LoadStaysBusy ==
  /\ loading.stage # "idle"
  /\ failures < MaxFailures
  /\ failures' = failures + 1
  /\ loading' = [stage |-> "wedged", asked |-> 0]
  /\ UNCHANGED <<page, shown, auto, clicks, rows, preview, dialog, view, olts, pending>>
LoadFails ==
  /\ loading.stage # "idle"
  /\ failures < MaxFailures
  /\ failures' = failures + 1
  /\ loading' = Quiet
  /\ UNCHANGED <<page, shown, auto, clicks, rows, preview, dialog, view, olts, pending>>

-----------------------------------------------------------------------------
(* showIncidentPreview, and loadOltName for it; the preview is not modal.   *)
ShowPreview(i) ==
  /\ i \in rows /\ ~dialog.open
  /\ preview' = i
  /\ pending' = Elsewhere("preview") \union Labels("preview", {i})
  /\ \E young \in Young({OltOf[i]}) : Asks({OltOf[i]}, young)
  /\ UNCHANGED <<list, rows, dialog, view, names, groups, dropped>>
ClosePreview ==
  /\ preview # Nobody
  /\ preview' = Nobody
  /\ pending' = Elsewhere("preview")
  /\ UNCHANGED <<list, rows, dialog, view, olts>>

(* showIncident: the dialog is emptied and opened, the answers awaited.     *)
(* Faulty variant: the buttons of the last incident are left in place.      *)
ShowWithActions(v, i, stage) ==
  /\ view' = [view EXCEPT ![v] = [stage |-> stage, of |-> i]]
  /\ dialog' = [open |-> TRUE, header |-> Nobody, actions |-> dialog.actions,
                summaries |-> <<>>]
ShowIncident(v, i, stage) ==
  /\ view' = [view EXCEPT ![v] = [stage |-> stage, of |-> i]]
  /\ dialog' = [open |-> TRUE, header |-> Nobody, actions |-> Nobody, summaries |-> <<>>]

(* From the table or from the preview, which closes.                        *)
OpenDetail(v, i) ==
  /\ view[v] = Still
  /\ ~dialog.open
  /\ \/ i \in rows
     \/ i = preview
  /\ ShowIncident(v, i, "loading")
  /\ pending' = {l \in pending : l[1] = "table"}
  /\ preview' = Nobody
  /\ UNCHANGED <<list, rows, olts>>

(* A button of renderIncidentActions.  Its answer shows the incident again,  *)
(* whatever the dialog shows by now, and then refreshes the view; or it is  *)
(* an error.                                                               *)
Operate(v) ==
  /\ view[v] = Still
  /\ dialog.open /\ dialog.actions # Nobody
  /\ view' = [view EXCEPT ![v] = [stage |-> "operating", of |-> dialog.actions]]
  /\ UNCHANGED <<list, rows, preview, dialog, olts, pending>>
OperationEnds(v) ==
  /\ view[v].stage = "operating"
  /\ \/ ShowIncident(v, view[v].of, "again") /\ pending' = Elsewhere("title")
     \/ view' = [view EXCEPT ![v] = Still] /\ UNCHANGED <<dialog, pending>>
  /\ UNCHANGED <<list, rows, preview, olts>>

Shows(v) == /\ view[v].stage \in {"loading", "again"}
            /\ view' = [view EXCEPT ![v] = Still]
            /\ loading' = IF view[v].stage = "again" THEN Refreshed ELSE loading
            /\ UNCHANGED <<page, shown, auto, clicks, failures, rows, preview, names, groups, dropped>>

(* Every answer is there: the header and the buttons are those of this       *)
(* incident, whoever asked last; its summary, and what else there is, comes *)
(* below whatever another showIncident has put there since the dialog was   *)
(* emptied.                                                                *)
DetailArrives(v) ==
  /\ Shows(v)
  /\ LET i == view[v].of
         summary == [of |-> i, waits |-> OltOf[i] \notin names]
     IN /\ dialog' = [dialog EXCEPT !.header = i, !.actions = i, !.summaries = Append(@, summary)]
        /\ pending' = Elsewhere("title") \union Labels("title", {i})
        /\ \E young \in Young({OltOf[i]}) : Asks({OltOf[i]}, young)

(* The error replaces all that is in the dialog; the header and the buttons, *)
(* and with them state.detailIncident, stay as they are.                   *)
DetailFails(v) ==
  /\ Shows(v)
  /\ dialog' = [dialog EXCEPT !.summaries = <<>>]
  /\ UNCHANGED <<flying, pending>>

CloseDialog ==
  /\ dialog.open
  /\ dialog' = [dialog EXCEPT !.open = FALSE]
  /\ UNCHANGED <<list, rows, preview, view, olts, pending>>

-----------------------------------------------------------------------------
(* loadOltNames goes on when it waits for no name of its group.              *)
NextGroup(b) ==
  /\ b \in groups /\ b.waits = {}
  /\ \E g \in NextGroups(b.rest) : \E young \in Young(g) : Comes(groups \ {b}, b.rest, g, young)
  /\ UNCHANGED <<list, rows, preview, dialog, view, names, dropped, pending>>

(* updateOltLabels writes every label of the OLT in the table, the preview   *)
(* and the title, and that of one summary: the first, by its id.            *)
Relabelled(o) == {l \in pending : OltOf[l[2]] = o /\ (l[1] = "title" => dialog.open)}
IsDetail(o) == dialog.open /\ dialog.header # Nobody /\ OltOf[dialog.header] = o
Rewritten(o) == IF IsDetail(o) /\ dialog.summaries # <<>>
                THEN [dialog EXCEPT !.summaries[1].waits = FALSE] ELSE dialog

(* Without a summary it throws, which ends whoever waits for this name.      *)
Throws(o) == IsDetail(o) /\ dialog.summaries = <<>>
Waiting(o) == {b \in groups : o \in b.waits}
Resumes(o) ==
  IF Throws(o)
  THEN /\ groups' = groups \ Waiting(o)
       /\ dropped' = dropped \union UNION {b.rest : b \in Waiting(o)}
  ELSE /\ groups' = AtWork({[b EXCEPT !.waits = @ \ {o}] : b \in groups})
       /\ UNCHANGED dropped

(* The name, or that there is none; then updateOltLabels.                    *)
(* Faulty variant: only the table is updated.                               *)
NameInTable(o) ==
  /\ o \in flying
  /\ flying' = flying \ {o}
  /\ names' = names \union {o}
  /\ pending' = pending \ {l \in Relabelled(o) : l[1] = "table"}
  /\ Resumes(o)
  /\ UNCHANGED <<list, rows, preview, dialog, view>>
NameArrives(o) ==
  /\ o \in flying
  /\ flying' = flying \ {o}
  /\ names' = names \union {o}
  /\ pending' = pending \ Relabelled(o)
  /\ dialog' = Rewritten(o)
  /\ Resumes(o)
  /\ UNCHANGED <<list, rows, preview, view>>

UserActs ==
  \/ \E p \in 1..PageCount : ClickPage(p)
  \/ SetAutoRefresh \/ ClosePreview \/ CloseDialog
  \/ \E i \in Listed : ShowPreview(i) \/ \E v \in Views : OpenDetail(v, i)
  \/ \E v \in Views : Operate(v)
OverviewEnds == SummaryArrives \/ (\E S \in SUBSET Listed : ListArrives(S)) \/ LoadFails
ServerAnswers ==
  \/ OverviewEnds
  \/ \E v \in Views : OperationEnds(v) \/ DetailArrives(v) \/ DetailFails(v)
  \/ \E b \in groups : NextGroup(b)
  \/ \E o \in Olts : NameArrives(o)

ViewNext == UserActs \/ TimerFires \/ ServerAnswers

(* The timer fires, and a load ends in one way or the other.                *)
ViewSpec == /\ ViewInit /\ [][ViewNext]_dashboard
            /\ WF_dashboard(TimerFires) /\ WF_dashboard(OverviewEnds)

-----------------------------------------------------------------------------
(* The buttons act on the incident the header names, in whatever order       *)
(* details of several incidents, failures and operations arrive.           *)
ActionsMatchHeader == dialog.actions # Nobody => dialog.header = dialog.actions

(* A label on the screen that reads "Consultando" has its OLT looked up: in   *)
(* the preview, in the title and in a summary that is alone in the dialog at *)
(* every moment; in the table, now or when loadOltNames comes to it, except *)
(* for what is dropped when updateOltLabels throws.                         *)
ToCome == UNION {b.rest : b \in groups}
LabelsAreLookedUp ==
  /\ \A l \in pending : (l[1] = "title" => dialog.open) =>
       \/ OltOf[l[2]] \in flying
       \/ l[1] = "table" /\ OltOf[l[2]] \in ToCome \union dropped
  /\ LET own == dialog.summaries[1]
     IN dialog.open /\ Len(dialog.summaries) = 1 /\ own.waits => OltOf[own.of] \in flying

(* What the label says, "Consultando Smart OLT": there is a lookup that will  *)
(* write it, for every label on the screen.                                *)
ConsultingIsTrue ==
  /\ \A l \in pending : (l[1] = "title" => dialog.open) =>
                          OltOf[l[2]] \in flying \union ToCome
  /\ dialog.open => \A k \in DOMAIN dialog.summaries :
       dialog.summaries[k].waits => OltOf[dialog.summaries[k].of] \in flying

(* The page that was asked for is shown in the end, although a click during *)
(* a load is dropped and loads fail, as long as the view refreshes itself   *)
(* and nothing is open over it.                                            *)
AskedPageIsShown ==
  []<>(shown = page \/ ~auto \/ dialog.open \/ preview # Nobody)
=============================================================================
