--------------------------- MODULE DashboardProofs ---------------------------
(***************************************************************************)
(* The browser side, for any number of calls, tokens, incidents and         *)
(* details: the view's buttons and labels, and what races of its calls can  *)
(* do to a session; first of each by itself, then of both in one tab.       *)
(***************************************************************************)
EXTENDS MCDashboard, FiniteSetTheorems, TLAPS

(* The view.  A label on the screen that waits is of an OLT without a name,   *)
(* which is being looked up, or still to come for the table; a summary that  *)
(* is alone in the dialog is of the incident that the header names.         *)
Visible(l) == l[1] = "title" => dialog.open
LabelsWait == \A l \in pending : Visible(l) =>
  /\ OltOf[l[2]] \notin names
  /\ \/ OltOf[l[2]] \in flying
     \/ l[1] = "table" /\ OltOf[l[2]] \in ToCome \union dropped
SummaryWaits == Len(dialog.summaries) = 1 =>
  /\ dialog.summaries[1].of = dialog.header /\ dialog.header \in Listed
  /\ dialog.open /\ dialog.summaries[1].waits => OltOf[dialog.header] \in flying
ViewInv == ViewTypeOK /\ ActionsMatchHeader /\ LabelsWait /\ SummaryWaits

LEMMA ViewStarts == ViewInit => ViewInv
<1> SUFFICES ASSUME ViewInit PROVE ViewInv
  OBVIOUS
<1>1. ViewTypeOK
  BY ViewAssumption DEF ViewInit, ViewTypeOK, Still
<1> QED
  BY <1>1 DEF ViewInit, ViewInv, ActionsMatchHeader, LabelsWait, SummaryWaits

(* What loadOltNames does at its next group keeps the types and forgets no    *)
(* OLT: it is looked up, still to come, or known.                          *)
LEMMA GroupComes ==
  ASSUME NEW others \in SUBSET Groups, NEW rest \in SUBSET Olts, NEW g \in NextGroups(rest),
         NEW young \in Young(g), flying \subseteq Olts, Comes(others, rest, g, young)
  PROVE  /\ flying' \subseteq Olts /\ groups' \subseteq Groups
         /\ flying \subseteq flying'
         /\ \A b \in others : b.rest \subseteq ToCome'
         /\ \A o \in rest \ names : o \in flying' \union ToCome'
<1> DEFINE new == [waits |-> g \ young, rest |-> rest \ g]
<1>1. g \subseteq rest
  BY DEF NextGroups
<1>2. new \in Groups
  BY <1>1 DEF Groups
<1>3. /\ flying' = flying \union (g \ young) /\ groups' = AtWork(others \union {new})
      /\ young \subseteq names
  BY DEF Comes, Asks, Young
<1>4. \A b \in others \union {new} : b.rest \subseteq ToCome'
  <2> SUFFICES ASSUME NEW b \in others \union {new}, NEW o \in b.rest PROVE o \in ToCome'
    OBVIOUS
  <2>1. b \in groups'
    BY <1>3 DEF AtWork
  <2> QED
    BY <2>1 DEF ToCome
<1>5. ASSUME NEW o \in rest \ names PROVE o \in flying' \union ToCome'
  <2>1. CASE o \in g
    BY <1>3, <2>1
  <2>2. CASE o \notin g
    <3>1. new.rest \subseteq ToCome' /\ new.rest = rest \ g
      BY <1>4
    <3> QED
      BY <2>2, <3>1
  <2> QED
    BY <2>1, <2>2
<1> QED
  BY <1>1, <1>2, <1>3, <1>4, <1>5 DEF AtWork

LEMMA UserKeepsType ==
  ASSUME ViewTypeOK, UserActs PROVE ViewTypeOK'
<1> USE ViewAssumption DEF ViewTypeOK, list, olts, Places, Showing, Still
<1>1. ASSUME NEW p \in 1..PageCount, ClickPage(p) PROVE ViewTypeOK'
  BY <1>1 DEF ClickPage, Refreshed
<1>2. CASE SetAutoRefresh BY <1>2 DEF SetAutoRefresh
<1>3. CASE ClosePreview BY <1>3 DEF ClosePreview, Elsewhere
<1>4. CASE CloseDialog BY <1>4 DEF CloseDialog
<1>5. ASSUME NEW i \in Listed, ShowPreview(i) PROVE ViewTypeOK'
  <2>1. flying' \subseteq Olts /\ pending' \subseteq Places \X Listed
    BY <1>5 DEF ShowPreview, Elsewhere, Labels, Olts, Asks
  <2> QED
    BY <1>5, <2>1 DEF ShowPreview
<1>6. ASSUME NEW i \in Listed, NEW v \in Views, OpenDetail(v, i) PROVE ViewTypeOK'
  BY <1>6 DEF OpenDetail, ShowIncident
<1>7. ASSUME NEW v \in Views, Operate(v) PROVE ViewTypeOK'
  BY <1>7 DEF Operate
<1> QED
  BY <1>1, <1>2, <1>3, <1>4, <1>5, <1>6, <1>7 DEF UserActs

(* The name of an OLT is written in the summary with the id, which waits no   *)
(* more; the rest of the dialog stays.                                      *)
LEMMA RewrittenDoes ==
  ASSUME ViewTypeOK, NEW o
  PROVE  /\ Rewritten(o) \in [open : BOOLEAN, header : Listed \union {Nobody},
                              actions : Listed \union {Nobody}, summaries : Seq(Summaries)]
         /\ Rewritten(o).open = dialog.open /\ Rewritten(o).header = dialog.header
         /\ Rewritten(o).actions = dialog.actions
         /\ Len(Rewritten(o).summaries) = Len(dialog.summaries)
         /\ Len(dialog.summaries) = 1 =>
              /\ Rewritten(o).summaries[1].of = dialog.summaries[1].of
              /\ Rewritten(o).summaries[1].waits => dialog.summaries[1].waits /\ ~IsDetail(o)
<1> DEFINE written == [dialog.summaries EXCEPT ![1].waits = FALSE]
<1>1. dialog.summaries \in Seq(Summaries)
  BY DEF ViewTypeOK
<1>2. CASE IsDetail(o) /\ dialog.summaries # <<>>
  <2>1. Len(dialog.summaries) \in Nat \ {0} /\ dialog.summaries[1] \in Summaries
    BY <1>1, <1>2
  <2>2. [dialog.summaries[1] EXCEPT !.waits = FALSE] \in Summaries
    BY <2>1 DEF Summaries
  <2>3. /\ written \in Seq(Summaries) /\ Len(written) = Len(dialog.summaries)
        /\ written[1] = [dialog.summaries[1] EXCEPT !.waits = FALSE]
    BY <1>1, <2>1, <2>2
  <2>4. written[1].of = dialog.summaries[1].of /\ written[1].waits = FALSE
    BY <2>1, <2>3 DEF Summaries
  <2>5. Rewritten(o) = [dialog EXCEPT !.summaries = written]
    BY <1>2 DEF Rewritten
  <2> QED
    BY <2>3, <2>4, <2>5 DEF ViewTypeOK
<1>3. CASE ~(IsDetail(o) /\ dialog.summaries # <<>>)
  <2>1. Rewritten(o) = dialog
    BY <1>3 DEF Rewritten
  <2>2. Len(dialog.summaries) = 1 => ~IsDetail(o)
    <3>1. dialog.summaries = <<>> => Len(dialog.summaries) = 0
      OBVIOUS
    <3> QED
      BY <1>3, <3>1
  <2> QED
    BY <1>1, <2>1, <2>2 DEF ViewTypeOK
<1> QED
  BY <1>2, <1>3

(* A name that was looked up releases those who wait for it, or ends them.    *)
LEMMA ResumesDoes ==
  ASSUME groups \subseteq Groups, dropped \subseteq Olts, NEW o, Resumes(o)
  PROVE  /\ groups' \subseteq Groups /\ dropped' \subseteq Olts
         /\ ToCome \union dropped \subseteq ToCome' \union dropped'
<1>1. CASE Throws(o)
  <2>1. groups' = groups \ Waiting(o) /\ dropped' = dropped \union UNION {b.rest : b \in Waiting(o)}
    BY <1>1 DEF Resumes
  <2> QED
    BY <2>1 DEF Waiting, Groups, ToCome
<1>2. CASE ~Throws(o)
  <2>1. groups' = AtWork({[b EXCEPT !.waits = @ \ {o}] : b \in groups}) /\ dropped' = dropped
    BY <1>2 DEF Resumes
  <2>2. ASSUME NEW b \in groups
        PROVE  /\ [b EXCEPT !.waits = @ \ {o}] \in Groups
               /\ [b EXCEPT !.waits = @ \ {o}].rest = b.rest
    BY DEF Groups
  <2>3. groups' \subseteq Groups
    BY <2>1, <2>2 DEF AtWork
  <2>4. ASSUME NEW b \in groups, NEW x \in b.rest PROVE x \in ToCome'
    <3>1. [b EXCEPT !.waits = @ \ {o}] \in groups'
      BY <2>1, <2>2, <2>4 DEF AtWork
    <3> QED
      BY <2>2, <2>4, <3>1 DEF ToCome
  <2> QED
    BY <2>1, <2>3, <2>4 DEF ToCome
<1> QED
  BY <1>1, <1>2

LEMMA ServerKeepsType ==
  ASSUME ViewTypeOK, ServerAnswers PROVE ViewTypeOK'
<1> USE ViewAssumption DEF ViewTypeOK, list, olts, Places, Showing, Still
<1>1. CASE SummaryArrives BY <1>1 DEF SummaryArrives
<1>2. ASSUME NEW S \in SUBSET Listed, ListArrives(S) PROVE ViewTypeOK'
  <2>1. flying' \subseteq Olts /\ groups' \subseteq Groups
    <3>1. {OltOf[i] : i \in S} \in SUBSET Olts
      BY DEF Olts
    <3>2. PICK g \in NextGroups({OltOf[i] : i \in S}) : \E young \in Young(g) :
            Comes(groups, {OltOf[i] : i \in S}, g, young)
      BY <1>2 DEF ListArrives
    <3>3. PICK young \in Young(g) : Comes(groups, {OltOf[i] : i \in S}, g, young)
      BY <3>2
    <3> QED
      BY <3>1, <3>3, GroupComes
  <2>2. pending' \subseteq Places \X Listed
    BY <1>2 DEF ListArrives, Elsewhere, Labels
  <2> QED
    BY <1>2, <2>1, <2>2 DEF ListArrives, Quiet
<1>3. CASE LoadFails BY <1>3 DEF LoadFails, Quiet
<1>4. ASSUME NEW v \in Views, OperationEnds(v) PROVE ViewTypeOK'
  <2>1. view[v].of \in Listed
    BY <1>4 DEF OperationEnds
  <2>2. CASE ShowIncident(v, view[v].of, "again") /\ pending' = Elsewhere("title")
    BY <1>4, <2>1, <2>2 DEF OperationEnds, ShowIncident, Elsewhere
  <2>3. CASE view' = [view EXCEPT ![v] = Still] /\ UNCHANGED <<dialog, pending>>
    BY <1>4, <2>3 DEF OperationEnds, Still
  <2> QED
    BY <1>4, <2>2, <2>3 DEF OperationEnds
<1>5. ASSUME NEW v \in Views, Shows(v)
      PROVE  view' \in [Views -> {Still} \union Showing]
  BY <1>5 DEF Shows, Still
<1>a. ASSUME NEW v \in Views, Shows(v)
      PROVE  /\ loading'.stage \in {"idle", "summary", "list"} /\ loading'.asked \in 0..PageCount
             /\ UNCHANGED <<page, shown, auto, clicks, failures, rows, preview, names, groups, dropped>>
  <2>1. /\ Refreshed.stage \in {"idle", "summary", "list"} /\ Refreshed.asked \in 0..PageCount
    BY DEF Refreshed
  <2> QED
    BY <1>a, <2>1 DEF Shows
<1>6. ASSUME NEW v \in Views, DetailArrives(v) PROVE ViewTypeOK'
  <2>1. Shows(v)
    BY <1>6 DEF DetailArrives
  <2>3. view[v].of \in Listed
    BY <2>1 DEF Shows
  <2>4. pending' \subseteq Places \X Listed /\ flying' \subseteq Olts
    BY <1>6, <2>3 DEF DetailArrives, Elsewhere, Labels, Olts, Asks
  <2>5. [of |-> view[v].of, waits |-> OltOf[view[v].of] \notin names] \in Summaries
    BY <2>3 DEF Summaries
  <2>6. Append(dialog.summaries, [of |-> view[v].of, waits |-> OltOf[view[v].of] \notin names])
          \in Seq(Summaries)
    BY <2>5
  <2>7. dialog' \in [open : BOOLEAN, header : Listed \union {Nobody},
                     actions : Listed \union {Nobody}, summaries : Seq(Summaries)]
    BY <1>6, <2>3, <2>6 DEF DetailArrives
  <2> QED
    BY <1>5, <1>a, <2>1, <2>4, <2>7
<1>7. ASSUME NEW v \in Views, DetailFails(v) PROVE ViewTypeOK'
  <2>1. Shows(v) /\ UNCHANGED <<flying, pending>>
    BY <1>7 DEF DetailFails
  <2>0. <<>> \in Seq(Summaries)
    OBVIOUS
  <2>2. dialog' \in [open : BOOLEAN, header : Listed \union {Nobody},
                     actions : Listed \union {Nobody}, summaries : Seq(Summaries)]
    BY <1>7, <2>0 DEF DetailFails
  <2> QED
    BY <1>5, <1>a, <2>1, <2>2
<1>8. ASSUME NEW b \in groups, NextGroup(b) PROVE ViewTypeOK'
  <2>1. PICK g \in NextGroups(b.rest) : \E young \in Young(g) : Comes(groups \ {b}, b.rest, g, young)
    BY <1>8 DEF NextGroup
  <2>2. PICK young \in Young(g) : Comes(groups \ {b}, b.rest, g, young)
    BY <2>1
  <2>3. b.rest \in SUBSET Olts
    BY DEF Groups
  <2>4. flying' \subseteq Olts /\ groups' \subseteq Groups
    BY <2>2, <2>3, GroupComes
  <2> QED
    BY <1>8, <2>4 DEF NextGroup
<1>10. ASSUME NEW o \in Olts, NameArrives(o) PROVE ViewTypeOK'
  <2>1. groups' \subseteq Groups /\ dropped' \subseteq Olts
    BY <1>10, ResumesDoes DEF NameArrives
  <2> QED
    BY <1>10, <2>1, RewrittenDoes DEF NameArrives
<1> QED
  BY <1>1, <1>2, <1>3, <1>4, <1>6, <1>7, <1>8, <1>10 DEF ServerAnswers, OverviewEnds

LEMMA ButtonsKept ==
  ASSUME ViewTypeOK, ActionsMatchHeader, [ViewNext]_dashboard
  PROVE  ActionsMatchHeader'
<1> USE DEF ActionsMatchHeader
<1>1. CASE UNCHANGED dialog BY <1>1
<1>2. ASSUME NEW v, NEW i, NEW stage, ShowIncident(v, i, stage) PROVE ActionsMatchHeader'
  BY <1>2 DEF ShowIncident
<1>3. ASSUME NEW v \in Views, DetailArrives(v) PROVE ActionsMatchHeader'
  BY <1>3 DEF DetailArrives, ViewTypeOK
<1>4. CASE CloseDialog BY <1>4 DEF CloseDialog, ViewTypeOK
<1>5. ASSUME NEW v \in Views, DetailFails(v) PROVE ActionsMatchHeader'
  BY <1>5 DEF DetailFails, ViewTypeOK
<1>6. ASSUME NEW o \in Olts, NameArrives(o) PROVE ActionsMatchHeader'
  BY <1>6, RewrittenDoes DEF NameArrives
<1> QED
  BY <1>1, <1>2, <1>3, <1>4, <1>5, <1>6
  DEF ViewNext, UserActs, ServerAnswers, OverviewEnds, dashboard, olts, ClickPage, SetAutoRefresh,
      ClosePreview, ShowPreview, OpenDetail, Operate, TimerFires, SummaryArrives, ListArrives,
      LoadFails, OperationEnds, NextGroup

(* Labels that are drawn read "Consultando" only without a name, and then    *)
(* their OLT is looked up at once.                                         *)
LEMMA DrawnLabelsWait ==
  ASSUME LabelsWait, NEW place, NEW i, NEW young \in Young({OltOf[i]}), Asks({OltOf[i]}, young),
         UNCHANGED <<names, groups, dropped>>, dialog'.open = dialog.open,
         pending' = Elsewhere(place) \union Labels(place, {i})
  PROVE  /\ LabelsWait' /\ flying \subseteq flying'
         /\ OltOf[i] \notin names => OltOf[i] \in flying'
BY DEF LabelsWait, Visible, Elsewhere, Labels, Asks, Young, ToCome

LEMMA LabelsKept ==
  ASSUME ViewTypeOK, LabelsWait, [ViewNext]_dashboard
  PROVE  LabelsWait'
<1> USE DEF LabelsWait, Visible
<1>1. CASE UNCHANGED <<olts, dialog>> /\ pending' \subseteq pending
  BY <1>1 DEF olts, ToCome
<1>2. ASSUME NEW i \in Listed, ShowPreview(i) PROVE LabelsWait'
  BY <1>2, DrawnLabelsWait DEF ShowPreview
<1>3. ASSUME NEW S \in SUBSET Listed, ListArrives(S) PROVE LabelsWait'
  <2> DEFINE all == {OltOf[i] : i \in S}
  <2>1. PICK g \in NextGroups(all) : \E young \in Young(g) : Comes(groups, all, g, young)
    BY <1>3 DEF ListArrives
  <2>2. PICK young \in Young(g) : Comes(groups, all, g, young)
    BY <2>1
  <2>3. all \in SUBSET Olts /\ flying \subseteq Olts /\ groups \in SUBSET Groups
    BY DEF Olts, ViewTypeOK
  <2>4. flying \subseteq flying' /\ \A o \in all \ names : o \in flying' \union ToCome'
    BY <2>2, <2>3, GroupComes
  <2>5. pending' = Elsewhere("table") \union Labels("table", S) /\ UNCHANGED <<names, dialog>>
    BY <1>3 DEF ListArrives
  <2>6. ASSUME NEW l \in Elsewhere("table"), Visible(l)
        PROVE  OltOf[l[2]] \notin names /\ OltOf[l[2]] \in flying'
    BY <2>4, <2>6 DEF Elsewhere
  <2>7. ASSUME NEW l \in Labels("table", S)
        PROVE  l[1] = "table" /\ OltOf[l[2]] \notin names /\ OltOf[l[2]] \in flying' \union ToCome'
    BY <2>4 DEF Labels
  <2> QED
    BY <2>5, <2>6, <2>7
<1>4. ASSUME NEW i \in Listed, NEW v \in Views, OpenDetail(v, i) PROVE LabelsWait'
  BY <1>4 DEF OpenDetail, olts, ToCome
<1>5. ASSUME NEW v \in Views, OperationEnds(v) PROVE LabelsWait'
  BY <1>5 DEF OperationEnds, Elsewhere, olts, ToCome
<1>6. ASSUME NEW v \in Views, DetailArrives(v) PROVE LabelsWait'
  <2>1. dialog'.open = dialog.open /\ UNCHANGED <<names, groups, dropped>>
    BY <1>6 DEF DetailArrives, Shows, ViewTypeOK
  <2>2. PICK young \in Young({OltOf[view[v].of]}) : Asks({OltOf[view[v].of]}, young)
    BY <1>6 DEF DetailArrives
  <2>3. pending' = Elsewhere("title") \union Labels("title", {view[v].of})
    BY <1>6 DEF DetailArrives
  <2> QED
    BY <2>1, <2>2, <2>3, DrawnLabelsWait
<1>7. CASE CloseDialog
  <2>1. ~dialog'.open
    BY <1>7 DEF CloseDialog, ViewTypeOK
  <2> QED
    BY <1>7, <2>1 DEF CloseDialog, olts, ToCome
<1>8. ASSUME NEW b \in groups, NextGroup(b) PROVE LabelsWait'
  <2>1. PICK g \in NextGroups(b.rest) : \E young \in Young(g) : Comes(groups \ {b}, b.rest, g, young)
    BY <1>8 DEF NextGroup
  <2>2. PICK young \in Young(g) : Comes(groups \ {b}, b.rest, g, young)
    BY <2>1
  <2>3. b.rest \in SUBSET Olts /\ flying \subseteq Olts /\ groups \ {b} \in SUBSET Groups
    BY DEF Groups, ViewTypeOK
  <2>4. /\ flying \subseteq flying'
        /\ \A c \in groups \ {b} : c.rest \subseteq ToCome'
        /\ \A o \in b.rest \ names : o \in flying' \union ToCome'
    BY <2>2, <2>3, GroupComes
  <2>5. \A o \in ToCome \ names : o \in flying' \union ToCome'
    BY <2>4 DEF ToCome
  <2> QED
    BY <1>8, <2>4, <2>5 DEF NextGroup
<1>10. ASSUME NEW o \in Olts, NameArrives(o) PROVE LabelsWait'
  <2>1. dialog'.open = dialog.open /\ pending' = pending \ Relabelled(o)
        /\ flying' = flying \ {o} /\ names' = names \union {o}
    BY <1>10, RewrittenDoes DEF NameArrives
  <2>2. ToCome \union dropped \subseteq ToCome' \union dropped'
    BY <1>10, ResumesDoes DEF NameArrives, ViewTypeOK
  <2>3. ASSUME NEW l \in pending', Visible(l)' PROVE OltOf[l[2]] # o /\ l \in pending /\ Visible(l)
    BY <2>1, <2>3 DEF Relabelled
  <2> QED
    BY <2>1, <2>2, <2>3
<1>11. ASSUME NEW v \in Views, Operate(v) PROVE LabelsWait'
  BY <1>1, <1>11 DEF Operate
<1>13. ASSUME NEW v \in Views, DetailFails(v) PROVE LabelsWait'
  <2>1. dialog'.open = dialog.open
    BY <1>13 DEF DetailFails, ViewTypeOK
  <2> QED
    BY <1>13, <2>1 DEF DetailFails, Shows, ToCome
<1>12. CASE ClosePreview
  BY <1>1, <1>12 DEF ClosePreview, Elsewhere
<1> QED
  BY <1>1, <1>2, <1>3, <1>4, <1>5, <1>6, <1>7, <1>8, <1>10, <1>11, <1>12, <1>13
  DEF ViewNext, UserActs, ServerAnswers, OverviewEnds, dashboard, ClickPage, SetAutoRefresh,
      TimerFires, SummaryArrives, LoadFails

LEMMA SummaryKept ==
  ASSUME ViewTypeOK, SummaryWaits, [ViewNext]_dashboard
  PROVE  SummaryWaits'
<1> USE DEF SummaryWaits
<1>1. CASE UNCHANGED dialog /\ flying \subseteq flying'
  BY <1>1
<1>2. ASSUME NEW v, NEW i, NEW stage, ShowIncident(v, i, stage) PROVE SummaryWaits'
  <2>1. dialog'.summaries = <<>>
    BY <1>2 DEF ShowIncident
  <2> QED
    BY <2>1
<1>3. ASSUME NEW v \in Views, DetailArrives(v) PROVE SummaryWaits'
  <2> DEFINE i == view[v].of
             summary == [of |-> i, waits |-> OltOf[i] \notin names]
  <2>1. i \in Listed
    BY <1>3 DEF DetailArrives, Shows, ViewTypeOK, Still, Showing
  <2>2. dialog'.header = i /\ dialog'.summaries = Append(dialog.summaries, summary)
    BY <1>3 DEF DetailArrives, ViewTypeOK
  <2>3. OltOf[i] \notin names => OltOf[i] \in flying'
    BY <1>3 DEF DetailArrives, Asks, Young
  <2>4. dialog.summaries \in Seq(Summaries)
    BY DEF ViewTypeOK
  <2>5. Len(dialog'.summaries) = 1 => dialog'.summaries[1] = summary
    BY <2>2, <2>4
  <2>6. summary.of = i /\ (summary.waits => OltOf[i] \notin names)
    OBVIOUS
  <2> HIDE DEF summary, i
  <2> QED
    BY <2>1, <2>2, <2>3, <2>5, <2>6
<1>4. CASE CloseDialog
  <2>1. ~dialog'.open /\ dialog'.header = dialog.header /\ dialog'.summaries = dialog.summaries
    BY <1>4 DEF CloseDialog, ViewTypeOK
  <2> QED
    BY <2>1
<1>5. ASSUME NEW v \in Views, DetailFails(v) PROVE SummaryWaits'
  <2>1. dialog'.summaries = <<>>
    BY <1>5 DEF DetailFails, ViewTypeOK
  <2> QED
    BY <2>1
<1>6. ASSUME NEW o \in Olts, NameArrives(o) PROVE SummaryWaits'
  <2>1. dialog' = Rewritten(o) /\ flying' = flying \ {o}
    BY <1>6 DEF NameArrives
  <2>2. IsDetail(o) \/ ~dialog.open \/ dialog.header = Nobody \/ OltOf[dialog.header] # o
    BY DEF IsDetail
  <2>3. ASSUME Len(dialog'.summaries) = 1, dialog'.open, dialog'.summaries[1].waits
        PROVE  OltOf[dialog.header] \in flying /\ OltOf[dialog.header] # o
    <3>1. dialog.summaries[1].waits /\ ~IsDetail(o) /\ Len(dialog.summaries) = 1 /\ dialog.open
      BY <2>1, <2>3, RewrittenDoes
    <3>2. dialog.summaries \in Seq(Summaries)
      BY DEF ViewTypeOK
    <3>3. CASE dialog.header # Nobody
      BY <2>2, <3>1, <3>3
    <3>4. CASE dialog.header = Nobody
      BY <3>1, <3>4, ViewAssumption
    <3> QED
      BY <3>3, <3>4
  <2> QED
    BY <2>1, <2>3, RewrittenDoes
<1>7. ASSUME NEW S \in SUBSET Listed, ListArrives(S) PROVE SummaryWaits'
  BY <1>1, <1>7 DEF ListArrives, Comes, Asks
<1>8. ASSUME NEW i \in Listed, ShowPreview(i) PROVE SummaryWaits'
  BY <1>1, <1>8 DEF ShowPreview, Asks
<1>9. ASSUME NEW b \in groups, NextGroup(b) PROVE SummaryWaits'
  BY <1>1, <1>9 DEF NextGroup, Comes, Asks
<1>10. ASSUME NEW i \in Listed, NEW v \in Views, OpenDetail(v, i) PROVE SummaryWaits'
  BY <1>2, <1>10 DEF OpenDetail
<1>11. ASSUME NEW v \in Views, OperationEnds(v) PROVE SummaryWaits'
  BY <1>1, <1>2, <1>11 DEF OperationEnds, olts
<1> QED
  BY <1>1, <1>3, <1>4, <1>5, <1>6, <1>7, <1>8, <1>9, <1>10, <1>11
  DEF ViewNext, UserActs, ServerAnswers, OverviewEnds, dashboard, olts, ClickPage, SetAutoRefresh,
      ClosePreview, Operate, TimerFires, SummaryArrives, LoadFails

LEMMA ViewKeeps == ViewInv /\ [ViewNext]_dashboard => ViewInv'
<1> SUFFICES ASSUME ViewInv, [ViewNext]_dashboard PROVE ViewInv'
  OBVIOUS
<1>1. CASE TimerFires
  <2>1. ViewTypeOK'
    BY <1>1, ViewAssumption DEF TimerFires, ViewInv, ViewTypeOK, olts, Refreshed
  <2> QED
    BY <2>1, ButtonsKept, LabelsKept, SummaryKept DEF ViewInv
<1>2. CASE UNCHANGED dashboard
  <2>1. ViewTypeOK'
    BY <1>2 DEF dashboard, list, olts, ViewInv, ViewTypeOK
  <2> QED
    BY <2>1, ButtonsKept, LabelsKept, SummaryKept DEF ViewInv
<1> QED
  BY <1>1, <1>2, UserKeepsType, ServerKeepsType, ButtonsKept, LabelsKept, SummaryKept DEF ViewNext, ViewInv

(* Whatever number of details, operations and failures arrive in whatever    *)
(* order, the buttons of the dialog act on the incident its header names.   *)
THEOREM ButtonsMatchHeader == ViewSpec => []ActionsMatchHeader
<1>1. ViewInv => ActionsMatchHeader
  BY DEF ViewInv
<1> QED
  BY <1>1, ViewStarts, ViewKeeps, PTL DEF ViewSpec

(* Whatever details, failures and loads interleave, a label of the preview or   *)
(* the title, and that of a summary alone in the dialog, waits only while its *)
(* OLT is looked up (show*, loadOltNames, updateOltLabels); one of the table  *)
(* may have been dropped by the error of app.ts:346.                         *)
THEOREM LabelsGetLookedUp == ViewSpec => []LabelsAreLookedUp
<1>1. ViewInv => LabelsAreLookedUp
  BY DEF ViewInv, LabelsWait, SummaryWaits, Visible, LabelsAreLookedUp
<1> QED
  BY <1>1, ViewStarts, ViewKeeps, PTL DEF ViewSpec

-----------------------------------------------------------------------------
(* The session.  Pairs are issued in order; whoever presents or was issued a *)
(* token has one that was issued; and what is denied, or is about to be     *)
(* exchanged, is live no more.                                             *)
CallRecords == [stage : Stages, sent : 0..MaxTokens, token : 0..MaxTokens,
                retried : BOOLEAN, boot : BOOLEAN]
TokensHeld ==
  /\ Issued = 1..Cardinality(Issued)
  /\ tab \in Issued \union {0}
  /\ \A c \in Calls :
       /\ call[c].token \in Issued \union {0}
       /\ call[c].stage \in {"idle", "password"} => call[c].token = 0
       /\ call[c].stage \in {"presented", "checked", "revoked", "denied", "issued"} => call[c].token # 0
       /\ call[c].stage \in {"revoked", "denied"} => tokens[call[c].token] # "live"
SessionsInv == SessionsTypeOK /\ TokensHeld

(* What a step can do to the tokens: nothing, revoke or expire one, or       *)
(* issue the next to a call whose account was found active.                *)
TokensKept == /\ parent' = parent
              /\ \A t \in Pairs : \/ tokens'[t] = tokens[t]
                                  \/ tokens[t] # "none" /\ tokens'[t] \in {"revoked", "expired"}

LEMMA KeptIssued == ASSUME TokensKept PROVE Issued' = Issued
BY DEF TokensKept, Issued

LEMMA NextPair ==
  ASSUME SessionsInv, Pairs # Issued
  PROVE  /\ Cardinality(Issued) + 1 \in Pairs \ Issued
         /\ Cardinality(Issued \union {Cardinality(Issued) + 1}) = Cardinality(Issued) + 1
         /\ Issued \union {Cardinality(Issued) + 1} = 1..(Cardinality(Issued) + 1)
<1>1. IsFiniteSet(Pairs) /\ Cardinality(Pairs) = MaxTokens
  BY SessionsAssumption, FS_Interval DEF Pairs
<1>2. Issued \in SUBSET Pairs
  BY DEF Issued
<1>3. /\ IsFiniteSet(Issued) /\ Cardinality(Issued) <= MaxTokens
      /\ Cardinality(Pairs) = Cardinality(Issued) => Pairs = Issued
  BY <1>1, <1>2, FS_Subset
<1>4. Cardinality(Issued) \in Nat
  BY <1>3, FS_CardinalityType
<1>5. Cardinality(Issued) < MaxTokens
  BY <1>1, <1>3, <1>4, SessionsAssumption
<1>6. Issued = 1..Cardinality(Issued)
  BY DEF SessionsInv, TokensHeld
<1>7. Cardinality(Issued) + 1 \notin Issued
  BY <1>4, <1>6
<1>8. Cardinality(Issued) + 1 \in Pairs
  BY <1>4, <1>5, SessionsAssumption DEF Pairs
<1>9. Issued \union {Cardinality(Issued) + 1} = 1..(Cardinality(Issued) + 1)
  BY <1>4, <1>6
<1> QED
  BY <1>3, <1>7, <1>8, <1>9, FS_AddElement

LEMMA SessionStarts == SessionsInit => SessionsInv
<1> SUFFICES ASSUME SessionsInit PROVE SessionsInv
  OBVIOUS
<1> USE SessionsAssumption
<1>1. SessionsTypeOK
  <2>1. /\ Idle \in CallRecords
        /\ [stage |-> "sent", sent |-> 1, token |-> 0, retried |-> FALSE, boot |-> TRUE] \in CallRecords
    BY DEF Idle, CallRecords, Stages
  <2>2. call \in [Calls -> CallRecords]
    BY <2>1 DEF SessionsInit
  <2>3. /\ tokens \in [Pairs -> {"none", "live", "revoked", "expired"}]
        /\ parent \in [Pairs -> 0..MaxTokens]
        /\ tab \in 0..MaxTokens /\ lost \in 0..MaxLost
    BY DEF SessionsInit
  <2> QED
    BY <2>2, <2>3 DEF SessionsInit, SessionsTypeOK, CallRecords
<1>2. Issued = {1}
  BY DEF SessionsInit, Issued, Pairs
<1>3. Issued = 1..Cardinality(Issued)
  BY <1>2, FS_Singleton
<1>4. TokensHeld
  BY <1>2, <1>3 DEF TokensHeld, SessionsInit, Idle
<1> QED
  BY <1>1, <1>4 DEF SessionsInv

(* Issue.                                                                   *)
LEMMA IssueKeeps ==
  ASSUME SessionsInv, NEW c \in Calls, Issue(c) PROVE SessionsInv'
<1> DEFINE t == Cardinality(Issued) + 1
<1>1. /\ t \in Pairs \ Issued /\ t \in 0..MaxTokens /\ t # 0
      /\ Issued \union {t} = 1..t /\ Cardinality(Issued \union {t}) = t
  BY NextPair, SessionsAssumption DEF Issue, Pairs
<1>2. /\ tokens' = [tokens EXCEPT ![t] = "live"]
      /\ parent' = [parent EXCEPT ![t] = call[c].token]
      /\ call' = [call EXCEPT ![c].stage = "issued", ![c].token = t]
      /\ UNCHANGED <<status, expired, tab, entered, lost>>
  BY DEF Issue, client
<1>3. SessionsTypeOK'
  BY <1>1, <1>2 DEF SessionsInv, SessionsTypeOK, Stages
<1>4. Issued' = Issued \union {t}
  BY <1>1, <1>2 DEF SessionsInv, SessionsTypeOK, Issued
<1>5. Issued' = 1..Cardinality(Issued')
  BY <1>1, <1>4
<1>6. \A d \in Calls \ {c} : call'[d] = call[d]
  BY <1>2 DEF SessionsInv, SessionsTypeOK
<1>7. call'[c].stage = "issued" /\ call'[c].token = t
  BY <1>2 DEF SessionsInv, SessionsTypeOK
<1>8. \A u \in Issued : tokens'[u] = tokens[u]
  BY <1>1, <1>2 DEF SessionsInv, SessionsTypeOK, Issued
<1>9. TokensHeld'
  BY <1>1, <1>2, <1>4, <1>5, <1>6, <1>7, <1>8 DEF SessionsInv, TokensHeld
<1> QED
  BY <1>3, <1>9 DEF SessionsInv

(* A call that only moves on keeps the rest of its record.                  *)
LEMMA CallMovesOn ==
  ASSUME SessionsTypeOK, NEW c \in Calls, NEW s \in Stages, call' = [call EXCEPT ![c].stage = s]
  PROVE  /\ call' \in [Calls -> CallRecords]
         /\ call'[c].stage = s /\ call'[c].token = call[c].token
         /\ \A d \in Calls \ {c} : call'[d] = call[d]
BY DEF SessionsTypeOK, CallRecords

(* A call that is given a new record.                                       *)
LEMMA CallReplaced ==
  ASSUME SessionsTypeOK, NEW c \in Calls, NEW r \in CallRecords, call' = [call EXCEPT ![c] = r]
  PROVE  /\ call' \in [Calls -> CallRecords] /\ call'[c] = r
         /\ \A d \in Calls \ {c} : call'[d] = call[d]
BY DEF SessionsTypeOK, CallRecords

(* Every other step of a call: the record it leaves.                        *)
OtherStep(c) ==
  \/ Send(c) \/ Answered(c) \/ Refresh(c) \/ Renewed(c) \/ ClearSession(c) \/ Lose(c)
  \/ LoginSent(c) \/ LogoutSent(c) \/ LogoutEnds(c) \/ LogoutClears(c)
  \/ Deny(c) \/ Check(c) \/ Revoke(c) \/ ReadAccount(c) \/ ExchangeFails(c) \/ Login(c)

LEMMA OtherStepDoes ==
  ASSUME SessionsInv, NEW c \in Calls, OtherStep(c)
  PROVE  /\ TokensKept
         /\ SessionsTypeOK'
         /\ \A d \in Calls \ {c} : call'[d] = call[d]
         /\ tab' \in Issued \union {0}
         /\ call'[c].token \in Issued \union {0}
         /\ call'[c].stage \in {"idle", "password"} => call'[c].token = 0
         /\ call'[c].stage \in {"presented", "checked", "revoked", "denied", "issued"} => call'[c].token # 0
         /\ call'[c].stage \in {"revoked", "denied"} => tokens'[call'[c].token] # "live"
         /\ \/ call'[c].stage \notin {"checked", "revoked", "active"}
            \/ call'[c].token = 0 \/ tokens[call'[c].token] = "live"
            \/ /\ call[c].stage \in {"checked", "revoked", "active"}
               /\ call'[c].token = call[c].token
<1> DEFINE held == Issued \union {0}
<1>0. /\ Issued \subseteq Pairs /\ Pairs \subseteq 0..MaxTokens /\ 0 \notin Pairs /\ 0 \in 0..MaxTokens
      /\ call[c] \in CallRecords /\ call[c].token \in held /\ tab \in held
  BY SessionsAssumption DEF Issued, Pairs, SessionsInv, SessionsTypeOK, TokensHeld, CallRecords
<1>a. Idle \in CallRecords /\ Idle.stage = "idle" /\ Idle.token = 0
  BY <1>0 DEF Idle, CallRecords, Stages
<1>b. ASSUME UNCHANGED tokens, UNCHANGED parent PROVE TokensKept
  BY <1>b DEF TokensKept
<1> USE DEF SessionsInv, TokensHeld, At, Goes, Ends, server, client
<1>1. CASE Send(c)
  <2>1. [Idle EXCEPT !.stage = "sent", !.sent = tab] \in CallRecords
    BY <1>0 DEF Idle, CallRecords, Stages
  <2> QED
    BY <1>0, <1>1, <1>b, <2>1, CallReplaced DEF Send, SessionsTypeOK, CallRecords, Idle
<1>2. CASE Answered(c)
  BY <1>0, <1>2, <1>a, <1>b, CallReplaced DEF Answered, SessionsTypeOK, CallRecords
<1>3. CASE Refresh(c)
  <2> DEFINE r == [call[c] EXCEPT !.stage = "presented", !.token = tab]
  <2>1. r \in CallRecords /\ r.stage = "presented" /\ r.token = tab
    BY <1>0 DEF CallRecords, Stages, Exchanging
  <2>2. call' = [call EXCEPT ![c] = r]
    BY <1>3 DEF Refresh
  <2> HIDE DEF r
  <2>3. /\ call' \in [Calls -> CallRecords] /\ call'[c].stage = "presented" /\ call'[c].token = tab
        /\ \A d \in Calls \ {c} : call'[d] = call[d]
    BY <2>1, <2>2, CallReplaced
  <2> QED
    BY <1>0, <1>3, <1>b, <2>3 DEF Refresh, SessionsTypeOK, CallRecords
<1>4. CASE Renewed(c)
  <2> DEFINE r == [call[c] EXCEPT !.stage = "sent", !.sent = call[c].token, !.token = 0, !.retried = TRUE]
  <2>1. r \in CallRecords /\ r.stage = "sent" /\ r.token = 0
    BY <1>0 DEF CallRecords, Stages
  <2>2. call' = [call EXCEPT ![c] = r] \/ call' = [call EXCEPT ![c] = Idle]
    BY <1>4 DEF Renewed
  <2>3. /\ call' \in [Calls -> CallRecords] /\ call'[c].token = 0 /\ call'[c].stage \in {"idle", "sent"}
        /\ \A d \in Calls \ {c} : call'[d] = call[d]
    <3> HIDE DEF r
    <3>1. CASE call' = [call EXCEPT ![c] = r]
      BY <2>1, <3>1, CallReplaced
    <3>2. CASE call' = [call EXCEPT ![c] = Idle]
      BY <1>a, <3>2, CallReplaced
    <3> QED
      BY <2>2, <3>1, <3>2
  <2>4. tab' \in held /\ entered' \in BOOLEAN /\ UNCHANGED <<status, tokens, expired, parent, lost>>
    BY <1>0, <1>4 DEF Renewed, SessionsTypeOK
  <2> QED
    BY <1>0, <1>b, <2>3, <2>4 DEF SessionsTypeOK, CallRecords
<1>5. CASE ClearSession(c)
  BY <1>0, <1>5, <1>a, <1>b, CallReplaced DEF ClearSession, SessionsTypeOK, CallRecords
<1>6. CASE Lose(c)
  <2>1. lost' \in 0..MaxLost
    BY <1>6, SessionsAssumption DEF Lose, SessionsTypeOK
  <2> QED
    BY <1>0, <1>6, <1>a, <1>b, <2>1, CallReplaced DEF Lose, SessionsTypeOK, CallRecords
<1>7. CASE LoginSent(c)
  BY <1>0, <1>7, <1>b, CallMovesOn DEF LoginSent, SessionsTypeOK, CallRecords, Stages
<1>8. CASE LogoutSent(c)
  <2>1. [Idle EXCEPT !.stage = "leaving", !.token = tab] \in CallRecords
    BY <1>0 DEF Idle, CallRecords, Stages
  <2> QED
    BY <1>0, <1>8, <1>b, <2>1, CallReplaced DEF LogoutSent, SessionsTypeOK, CallRecords, Idle
<1>9. CASE LogoutEnds(c)
  <2>1. TokensKept /\ tokens' \in [Pairs -> {"none", "live", "revoked", "expired"}]
    BY <1>0, <1>9 DEF LogoutEnds, TokensKept, SessionsTypeOK
  <2>2. /\ call' \in [Calls -> CallRecords] /\ call'[c].token \in held /\ call'[c].stage = "left"
        /\ \A d \in Calls \ {c} : call'[d] = call[d]
    BY <1>0, <1>9, CallMovesOn DEF LogoutEnds, Stages
  <2> QED
    BY <1>0, <1>9, <2>1, <2>2 DEF LogoutEnds, SessionsTypeOK, CallRecords
<1>10. CASE LogoutClears(c)
  BY <1>0, <1>10, <1>a, <1>b, CallReplaced DEF LogoutClears, SessionsTypeOK, CallRecords
<1>11. CASE Deny(c)
  <2>1. /\ call' \in [Calls -> CallRecords] /\ call'[c].token = call[c].token /\ call'[c].stage = "denied"
        /\ \A d \in Calls \ {c} : call'[d] = call[d]
    BY <1>11, CallMovesOn DEF Deny, Stages, Exchanging
  <2> QED
    BY <1>0, <1>11, <1>b, <2>1 DEF Deny, SessionsTypeOK, CallRecords, Exchanging
<1>12. CASE Check(c)
  <2>1. /\ call' \in [Calls -> CallRecords] /\ call'[c].token = call[c].token /\ call'[c].stage = "checked"
        /\ \A d \in Calls \ {c} : call'[d] = call[d]
    BY <1>12, CallMovesOn DEF Check, Stages, Exchanging
  <2> QED
    BY <1>0, <1>12, <1>b, <2>1 DEF Check, SessionsTypeOK, CallRecords, Exchanging
<1>13. CASE Revoke(c)
  <2>1. /\ call' \in [Calls -> CallRecords] /\ call'[c].token = call[c].token /\ call'[c].stage = "revoked"
        /\ \A d \in Calls \ {c} : call'[d] = call[d]
    BY <1>13, CallMovesOn DEF Revoke, Stages, Exchanging
  <2>2. /\ TokensKept /\ tokens' \in [Pairs -> {"none", "live", "revoked", "expired"}]
        /\ tokens'[call[c].token] = "revoked"
    <3>1. tokens[call[c].token] # "none" /\ call[c].token \in Pairs
      BY <1>0, <1>13 DEF Revoke, Issued
    <3> QED
      BY <1>0, <1>13, <3>1 DEF Revoke, TokensKept, SessionsTypeOK
  <2> QED
    BY <1>0, <1>13, <2>1, <2>2 DEF Revoke, SessionsTypeOK, CallRecords, Exchanging
<1>14. CASE ReadAccount(c)
  <2>1. /\ call' \in [Calls -> CallRecords] /\ call'[c].token = call[c].token /\ call'[c].stage \in {"active", "denied"}
        /\ \A d \in Calls \ {c} : call'[d] = call[d]
    BY <1>14, CallMovesOn DEF ReadAccount, Stages, Exchanging
  <2> QED
    BY <1>0, <1>14, <1>b, <2>1 DEF ReadAccount, SessionsTypeOK, CallRecords, Exchanging
<1>15. CASE ExchangeFails(c)
  <2>1. /\ call' \in [Calls -> CallRecords] /\ call'[c].token = call[c].token /\ call'[c].stage = "errored"
        /\ \A d \in Calls \ {c} : call'[d] = call[d]
    BY <1>15, CallMovesOn DEF ExchangeFails, Stages, Exchanging
  <2>2. lost' \in 0..MaxLost
    BY <1>15, SessionsAssumption DEF ExchangeFails, SessionsTypeOK
  <2> QED
    BY <1>0, <1>15, <1>b, <2>1, <2>2 DEF ExchangeFails, SessionsTypeOK, CallRecords, Exchanging
<1>16. CASE Login(c)
  <2>1. /\ call' \in [Calls -> CallRecords] /\ call'[c].token = call[c].token /\ call'[c].stage = "active"
        /\ \A d \in Calls \ {c} : call'[d] = call[d]
    BY <1>16, CallMovesOn DEF Login, Stages, Exchanging
  <2> QED
    BY <1>0, <1>16, <1>b, <2>1 DEF Login, SessionsTypeOK, CallRecords, Exchanging
<1> QED
  BY <1>1, <1>2, <1>3, <1>4, <1>5, <1>6, <1>7, <1>8, <1>9, <1>10, <1>11, <1>12, <1>13, <1>14,
     <1>15, <1>16 DEF OtherStep

LEMMA SessionKeeps == SessionsInv /\ [SessionsNext]_sessions => SessionsInv'
<1> SUFFICES ASSUME SessionsInv, [SessionsNext]_sessions PROVE SessionsInv'
  OBVIOUS
<1>1. ASSUME NEW c \in Calls, OtherStep(c) PROVE SessionsInv'
  <2>1. TokensKept /\ Issued' = Issued
    BY <1>1, OtherStepDoes, KeptIssued
  <2>2. \A d \in Calls \ {c} : call'[d] = call[d]
    BY <1>1, OtherStepDoes
  <2>3. \A t \in Issued : tokens[t] # "live" => tokens'[t] # "live"
    BY <2>1 DEF TokensKept, Issued
  <2>4. TokensHeld'
    BY <1>1, <2>1, <2>2, <2>3, OtherStepDoes DEF SessionsInv, TokensHeld
  <2> QED
    BY <1>1, <2>4, OtherStepDoes DEF SessionsInv
<1>2. ASSUME UNCHANGED <<parent, client, call, lost>>, status' \in {"ACTIVE", "INACTIVE"},
             expired' \subseteq Pairs, tokens' \in [Pairs -> {"none", "live", "revoked", "expired"}],
             TokensKept
      PROVE  SessionsInv'
  <2>1. Issued' = Issued
    BY <1>2, KeptIssued
  <2>2. \A t \in Issued : tokens[t] # "live" => tokens'[t] # "live"
    BY <1>2 DEF TokensKept, Issued
  <2>3. TokensHeld'
    BY <1>2, <2>1, <2>2 DEF SessionsInv, TokensHeld, client
  <2>4. SessionsTypeOK'
    BY <1>2 DEF SessionsInv, SessionsTypeOK, client
  <2> QED
    BY <2>3, <2>4 DEF SessionsInv
<1>3. CASE UpdateAccount
  <2>1. TokensKept
    BY <1>3 DEF UpdateAccount, TokensKept
  <2> QED
    BY <1>2, <1>3, <2>1 DEF UpdateAccount, SessionsInv, SessionsTypeOK
<1>4. ASSUME NEW t \in Pairs, ExpireAccess(t) PROVE SessionsInv'
  <2>1. TokensKept
    BY <1>4 DEF ExpireAccess, TokensKept
  <2> QED
    BY <1>2, <1>4, <2>1 DEF ExpireAccess, SessionsInv, SessionsTypeOK
<1>5. ASSUME NEW t \in Pairs, ExpireRefresh(t) PROVE SessionsInv'
  <2>1. TokensKept /\ tokens' \in [Pairs -> {"none", "live", "revoked", "expired"}]
    BY <1>5 DEF ExpireRefresh, TokensKept, SessionsInv, SessionsTypeOK
  <2> QED
    BY <1>2, <1>5, <2>1 DEF ExpireRefresh, SessionsInv, SessionsTypeOK
<1>6. CASE UNCHANGED sessions
  <2>1. TokensKept
    BY <1>6 DEF sessions, server, TokensKept
  <2> QED
    BY <1>2, <1>6, <2>1 DEF sessions, server, client, SessionsInv, SessionsTypeOK
<1> QED
  BY <1>1, <1>3, <1>4, <1>5, <1>6, IssueKeeps DEF SessionsNext, SessionStep, OtherStep

(* Among any number of calls, only logging out, a failed boot, exchange or   *)
(* login, a retry, or a call refused for an older token ends a session      *)
(* whose refresh token is good.                                            *)
THEOREM GoodSessionsEnd == SessionsSpec => GoodSessionEnds
<1> DEFINE Ending == tab # 0 /\ tab' = 0 /\ tokens[tab] = "live" =>
                       \E c \in Calls :
                         /\ call[c].stage # "idle" /\ call'[c].stage = "idle"
                         /\ \/ call[c].stage \in {"left", "errored", "password"}
                            \/ At(c, "sent") /\ call[c].retried
                            \/ call[c].boot
                            \/ At(c, "denied") /\ call[c].token # tab
<1>1. ASSUME SessionsInv, [SessionsNext]_sessions PROVE Ending
  <2> SUFFICES ASSUME tab # 0, tab' = 0, tokens[tab] = "live" PROVE Ending
    OBVIOUS
  <2>1. PICK c \in Calls : Renewed(c) \/ ClearSession(c) \/ Lose(c) \/ LogoutClears(c)
    BY <1>1
    DEF SessionsNext, SessionStep, sessions, server, client, UpdateAccount, ExpireAccess, ExpireRefresh, Send,
        Answered, Refresh, LoginSent, LogoutSent, LogoutEnds, Deny, Check, Revoke, ReadAccount,
        ExchangeFails, Login, Issue
  <2>2. ~Renewed(c)
    BY <1>1 DEF Renewed, At, SessionsInv, TokensHeld
  <2>3. call' = [call EXCEPT ![c] = Idle]
    BY <2>1, <2>2 DEF ClearSession, Lose, LogoutClears, Ends
  <2>4. call'[c].stage = "idle"
    BY <1>1, <2>3 DEF Idle, SessionsInv, SessionsTypeOK
  <2>5. CASE ClearSession(c)
    BY <1>1, <2>4, <2>5 DEF ClearSession, At, SessionsInv, TokensHeld
  <2>6. CASE Lose(c)
    BY <1>1, <2>4, <2>6 DEF Lose
  <2>7. CASE LogoutClears(c)
    BY <2>4, <2>7 DEF LogoutClears, At
  <2> QED
    BY <2>1, <2>2, <2>5, <2>6, <2>7
<1>2. SessionsInv /\ [SessionsNext]_sessions => Ending
  BY <1>1
<1>3. [][Ending]_sessions => GoodSessionEnds
  BY PTL DEF GoodSessionEnds
<1> QED
  BY <1>2, <1>3, SessionStarts, SessionKeeps, PTL DEF SessionsSpec

(* Claims on a token are finite sets of pairs and of calls.                  *)
LEMMA ClaimsAreFinite ==
  ASSUME NEW t
  PROVE  /\ IsFiniteSet(Children(t)) /\ Cardinality(Children(t)) \in Nat
         /\ IsFiniteSet(PastCheck(t)) /\ Cardinality(PastCheck(t)) \in Nat
<1>1. IsFiniteSet(Pairs)
  BY SessionsAssumption, FS_Interval DEF Pairs
<1>2. Children(t) \in SUBSET Pairs /\ PastCheck(t) \in SUBSET Calls
  BY DEF Children, PastCheck, Issued
<1>3. IsFiniteSet(Children(t)) /\ IsFiniteSet(PastCheck(t))
  BY <1>1, <1>2, SessionsAssumption, FS_Subset
<1> QED
  BY <1>3, FS_CardinalityType

(* Steps that issue nothing add no claim on a token that is not live.        *)
LEMMA NoClaimAdded ==
  ASSUME SessionsInv, NEW t \in Issued, tokens[t] # "live", TokensKept,
         \A c \in Calls : call'[c].stage \in {"checked", "revoked", "active"} /\ call'[c].token = t =>
                           call[c].stage \in {"checked", "revoked", "active"} /\ call[c].token = t
  PROVE  Claims(t)' <= Claims(t)
<1>1. Children(t)' = Children(t)
  BY KeptIssued DEF Children, TokensKept
<1>2. PastCheck(t)' \in SUBSET PastCheck(t)
  BY DEF PastCheck
<1>3. /\ IsFiniteSet(PastCheck(t)')
      /\ Cardinality(PastCheck(t)') <= Cardinality(PastCheck(t))
  BY <1>2, ClaimsAreFinite, FS_Subset
<1>4. Cardinality(PastCheck(t)') \in Nat
  BY <1>3, FS_CardinalityType
<1>5. Claims(t)' = Cardinality(Children(t)) + Cardinality(PastCheck(t)')
  BY <1>1 DEF Claims
<1> QED
  BY <1>3, <1>4, <1>5, ClaimsAreFinite DEF Claims

(* Issuing a pair for a token takes the call's claim for the pair's.         *)
LEMMA ClaimIsSpent ==
  ASSUME SessionsInv, NEW t \in Issued, tokens[t] # "live", NEW c \in Calls, Issue(c)
  PROVE  tokens'[t] # "live" /\ Claims(t)' <= Claims(t)
<1> DEFINE u == Cardinality(Issued) + 1
<1>1. u \in Pairs \ Issued
  BY NextPair DEF Issue
<1>2. /\ tokens' = [tokens EXCEPT ![u] = "live"]
      /\ parent' = [parent EXCEPT ![u] = call[c].token]
      /\ call' = [call EXCEPT ![c].stage = "issued", ![c].token = u]
      /\ call[c].stage = "active"
  BY DEF Issue, At
<1> HIDE DEF u
<1>3. Issued' = Issued \union {u} /\ tokens'[t] # "live"
  BY <1>1, <1>2 DEF SessionsInv, SessionsTypeOK, Issued
<1>4. \A v \in Issued : parent'[v] = parent[v]
  BY <1>1, <1>2 DEF SessionsInv, SessionsTypeOK
<1>5. parent'[u] = call[c].token
  BY <1>1, <1>2 DEF SessionsInv, SessionsTypeOK
<1>6. \A d \in Calls \ {c} : call'[d] = call[d]
  BY <1>2 DEF SessionsInv, SessionsTypeOK
<1>7. call'[c].stage = "issued"
  BY <1>2 DEF SessionsInv, SessionsTypeOK
<1>8. CASE call[c].token = t
  <2>1. Children(t)' = Children(t) \union {u} /\ u \notin Children(t)
    BY <1>1, <1>3, <1>4, <1>5, <1>8 DEF Children
  <2>2. PastCheck(t)' = PastCheck(t) \ {c} /\ c \in PastCheck(t)
    BY <1>2, <1>6, <1>7, <1>8 DEF PastCheck
  <2>3. Cardinality(Children(t) \union {u}) = Cardinality(Children(t)) + 1
    BY <2>1, ClaimsAreFinite, FS_AddElement
  <2>4. Cardinality(PastCheck(t) \ {c}) = Cardinality(PastCheck(t)) - 1
    BY <2>2, ClaimsAreFinite, FS_RemoveElement
  <2>5. Claims(t)' = Cardinality(Children(t) \union {u}) + Cardinality(PastCheck(t) \ {c})
    BY <2>1, <2>2 DEF Claims
  <2> QED
    BY <1>3, <2>3, <2>4, <2>5, ClaimsAreFinite DEF Claims
<1>9. CASE call[c].token # t
  <2>1. Children(t)' = Children(t)
    BY <1>1, <1>3, <1>4, <1>5, <1>9 DEF Children
  <2>2. PastCheck(t)' = PastCheck(t)
    BY <1>6, <1>7, <1>9 DEF PastCheck
  <2>3. Claims(t)' = Claims(t)
    BY <2>1, <2>2 DEF Claims
  <2> QED
    BY <1>3, <2>3, ClaimsAreFinite DEF Claims
<1> QED
  BY <1>8, <1>9

(* A token that was rotated, revoked or has expired stays so, and the pairs  *)
(* it gave and may still give never become more, however many calls         *)
(* present it, wherever they are.                                          *)
THEOREM RevokedTokensStaySpent == SessionsSpec => RevokedStaysSpent
<1> DEFINE Spent == \A t \in Issued : tokens[t] # "live" =>
                      tokens'[t] # "live" /\ Claims(t)' <= Claims(t)
<1>1. ASSUME SessionsInv, [SessionsNext]_sessions, NEW t \in Issued, tokens[t] # "live"
      PROVE  tokens'[t] # "live" /\ Claims(t)' <= Claims(t)
  <2>1. ASSUME NEW c \in Calls, OtherStep(c)
        PROVE  tokens'[t] # "live" /\ Claims(t)' <= Claims(t)
    <3>1. TokensKept /\ \A d \in Calls \ {c} : call'[d] = call[d]
      BY <1>1, <2>1, OtherStepDoes
    <3>2. call'[c].stage \in {"checked", "revoked", "active"} /\ call'[c].token = t =>
            call[c].stage \in {"checked", "revoked", "active"} /\ call[c].token = t
      <4>1. t # 0
        BY DEF Issued, Pairs
      <4> QED
        BY <1>1, <2>1, <4>1, OtherStepDoes
    <3>3. tokens'[t] # "live"
      BY <1>1, <3>1 DEF TokensKept, Issued
    <3> QED
      BY <1>1, <3>1, <3>2, <3>3, NoClaimAdded
  <2>2. CASE UNCHANGED call /\ TokensKept
    <3>1. tokens'[t] # "live"
      BY <1>1, <2>2 DEF TokensKept, Issued
    <3> QED
      BY <1>1, <2>2, <3>1, NoClaimAdded
  <2>3. UpdateAccount => UNCHANGED call /\ TokensKept
    BY DEF UpdateAccount, TokensKept
  <2>4. ASSUME NEW v \in Pairs PROVE ExpireAccess(v) \/ ExpireRefresh(v) => UNCHANGED call /\ TokensKept
    BY <1>1 DEF ExpireAccess, ExpireRefresh, TokensKept, SessionsInv, SessionsTypeOK
  <2>5. UNCHANGED sessions => UNCHANGED call /\ TokensKept
    BY DEF sessions, server, TokensKept
  <2> QED
    BY <1>1, <2>1, <2>2, <2>3, <2>4, <2>5, ClaimIsSpent DEF SessionsNext, SessionStep, OtherStep
<1>2. SessionsInv /\ [SessionsNext]_sessions => Spent
  BY <1>1
<1>3. [][Spent]_sessions => RevokedStaysSpent
  BY PTL DEF RevokedStaysSpent
<1> QED
  BY <1>2, <1>3, SessionStarts, SessionKeeps, PTL DEF SessionsSpec

-----------------------------------------------------------------------------
(* Both in one tab: each step is a step or a stutter of either.             *)
LEMMA TabStep ==
  [Next]_<<sessions, dashboard, part>> => [SessionsNext]_sessions /\ [ViewNext]_dashboard
BY DEF Next

(* The buttons, the labels and the session of a tab keep what each promises *)
(* by itself (show, lookups of OLT names, api and its exchange of tokens).  *)
THEOREM TabKeepsItsPromises ==
  Spec => /\ [](ActionsMatchHeader /\ LabelsAreLookedUp)
          /\ GoodSessionEnds /\ RevokedStaysSpent
<1>1. Init => SessionsInit /\ ViewInit
  BY DEF Init
<1>2. Spec => SessionsSpec
  BY <1>1, TabStep, PTL DEF Spec, SessionsSpec
<1>3. ViewInv /\ [Next]_<<sessions, dashboard, part>> => ViewInv'
  BY TabStep, ViewKeeps
<1>4. ViewInv => ActionsMatchHeader /\ LabelsAreLookedUp
  BY DEF ViewInv, LabelsWait, SummaryWaits, Visible, LabelsAreLookedUp
<1>5. Spec => [](ActionsMatchHeader /\ LabelsAreLookedUp)
  BY <1>1, <1>3, <1>4, ViewStarts, PTL DEF Spec
<1> QED
  BY <1>2, <1>5, GoodSessionsEnd, RevokedTokensStaySpent, PTL
=============================================================================
