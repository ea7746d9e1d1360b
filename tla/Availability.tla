---------------------------- MODULE Availability ----------------------------
(***************************************************************************)
(* SlaService (src/sla/sla.service.ts), StatisticsService                  *)
(* (src/statistics/statistics.service.ts) and DashboardService             *)
(* (src/dashboard/dashboard.service.ts): three views of the outages kept    *)
(* in incidents and incident_customers, and the snapshots of the first.    *)
(*                                                                         *)
(* Time is counted in minutes.  Of a status, what matters is whether it is  *)
(* open, completed or FALSE_POSITIVE; of the filters, pon and customer.    *)
(***************************************************************************)
EXTENDS Integers, FiniteSets, SequencesExt

CONSTANTS Incidents,     \* incidents that may happen
          PonOf,         \* the PON of each
          Customers,     \* external ids of the customers they may affect
          CustomerCodes, \* codes that a customer may have
          Requests,      \* requests to create a snapshot
          Asked,         \* the scopes, labels and periods they may ask for
          MaxTime,       \* bound: the last minute
          MaxDelay       \* bound: how late an alert is processed

VARIABLES
  now,         \* the clock
  incidents,   \* status, detectedAt (startedAt is the same) and resolvedAt
  outages,     \* incident_customers: whether affectedFrom is set, restoredAt,
               \* and customerCode, if there is one
  snapshots,   \* sla_records: downtime by key and period, None without, and
               \* what it was calculated for
  requests     \* what each request has calculated

availability == <<now, incidents, outages, snapshots, requests>>

Null == MaxTime + 1     \* a time that is not set
None == -1
Times == 0..MaxTime
All == "all"
Unlabelled == "unlabelled"
NoCode == "no code"

(* resolvePeriod: an end in the future becomes the current instant.          *)
(* Faulty variant: it is taken as it is asked for.                          *)
PeriodAsAsked(start, end) == [start |-> start, end |-> end]
ResolvePeriod(start, end) == [start |-> start, end |-> IF end > now THEN now ELSE end]
Periods == {p \in [start : Times, end : Times] : p.start < p.end}
Scopes == {All} \union {PonOf[i] : i \in Incidents} \union CustomerCodes

ASSUME AvailabilityAssumption ==
  /\ MaxTime \in Nat /\ MaxDelay \in Nat
  /\ IsFiniteSet(Incidents) /\ IsFiniteSet(Customers)
  /\ {All, NoCode} \intersect CustomerCodes = {}
  /\ \A ask \in Asked : ask.scope \in Scopes /\ ask.start \in Nat /\ ask.end \in Nat

(* resolveScope, for whose key createSnapshot takes the label, if any.       *)
Kind(scope) == CASE scope = All -> "GLOBAL" [] scope \in CustomerCodes -> "CUSTOMER" [] OTHER -> "PON"
SnapshotKey(ask) == <<Kind(ask.scope), IF ask.label = Unlabelled THEN ask.scope ELSE ask.label>>
SnapshotKeys == {SnapshotKey(ask) : ask \in Asked}
Rows == Incidents \X Customers
Outages == [affected : BOOLEAN, restoredAt : Times \union {Null}, code : CustomerCodes \union {NoCode}]

AvailabilityTypeOK ==
  /\ now \in Times
  /\ incidents \in [Incidents -> [status : {"NONE", "OPEN", "COMPLETED", "FALSE_POSITIVE"},
                                  detectedAt : Times, resolvedAt : Times \union {Null}]]
  /\ outages \in [Rows -> Outages]
  /\ snapshots \in [SnapshotKeys \X Periods ->
                     [of : Scopes, downtime : Times \union {None}]]
  /\ \A r \in Requests : requests[r].downtime \in Times \union {None}

NoIncident == [status |-> "NONE", detectedAt |-> 0, resolvedAt |-> Null]
NoOutage == [affected |-> FALSE, restoredAt |-> Null, code |-> NoCode]
NoSnapshot == [of |-> All, downtime |-> None]
NoRequest == [downtime |-> None]

AvailabilityInit ==
  /\ now = 0
  /\ incidents = [i \in Incidents |-> NoIncident]
  /\ outages = [row \in Rows |-> NoOutage]
  /\ snapshots = [key \in SnapshotKeys \X Periods |-> NoSnapshot]
  /\ requests = [r \in Requests |-> NoRequest]

-----------------------------------------------------------------------------
(* incidentInterval and customerInterval: the part inside the period.        *)
Interval(from, until, period) ==
  LET start == Max({from, period.start})
      end == Min({IF until = Null THEN period.end ELSE until, period.end})
  IN IF end > start THEN {[start |-> start, end |-> end]} ELSE {}

(* mergeIntervals, written alike in SlaService and StatisticsService: the    *)
(* intervals by their start, those that start together in any order.        *)
InOrder(intervals) ==
  CHOOSE s \in [1..Cardinality(intervals) -> intervals] :
    /\ \A x \in intervals : \E k \in DOMAIN s : s[k] = x
    /\ \A j, k \in DOMAIN s : j < k => s[j].start <= s[k].start

(* Faulty variant: the last interval that overlaps decides where it ends.   *)
ExtendedToLast(merged, x) ==
  IF merged = <<>> \/ x.start > Last(merged).end THEN Append(merged, x)
  ELSE [merged EXCEPT ![Len(merged)] = [start |-> Last(merged).start, end |-> x.end]]

(* Its loop: what has been merged, extended by the next interval.           *)
Extended(merged, x) ==
  IF merged = <<>> \/ x.start > Last(merged).end THEN Append(merged, x)
  ELSE IF x.end > Last(merged).end
  THEN [merged EXCEPT ![Len(merged)] = [start |-> Last(merged).start, end |-> x.end]]
  ELSE merged
Merge(intervals) ==
  LET ordered == InOrder(intervals)
      merged[k \in 0..Len(ordered)] ==
        IF k = 0 THEN <<>> ELSE Extended(merged[k - 1], ordered[k])
  IN merged[Len(ordered)]

Minutes(merged) ==
  LET total[k \in 0..Len(merged)] ==
        IF k = 0 THEN 0 ELSE total[k - 1] + (merged[k].end - merged[k].start)
  IN total[Len(merged)]

Overlaps(from, until, period) == from < period.end /\ (until = Null \/ until > period.start)

(* incidentWhere without a status filter.                                   *)
IncidentWhere(scope, period) ==
  {i \in Incidents :
     /\ incidents[i].status \notin {"NONE", "FALSE_POSITIVE"}
     /\ Overlaps(incidents[i].detectedAt, incidents[i].resolvedAt, period)
     /\ scope \in {All, PonOf[i]} \union CustomerCodes}

(* The rows of incident_customers that calculateCustomerSla and customers    *)
(* read, for one code or for all rows; affectedFrom is the incident's        *)
(* detectedAt.                                                             *)
CustomerRows(scope, period) ==
  {row \in Rows :
     /\ row[1] \in IncidentWhere(scope, period)
     /\ scope \in CustomerCodes => outages[row].code = scope
     /\ outages[row].affected
     /\ Overlaps(incidents[row[1]].detectedAt, outages[row].restoredAt, period)}
CustomerIntervals(R, period) ==
  UNION {Interval(incidents[row[1]].detectedAt, outages[row].restoredAt, period) : row \in R}

IncidentInterval(i, period) ==
  Interval(incidents[i].detectedAt, incidents[i].resolvedAt, period)
Resolved(S, period) == {i \in S : /\ incidents[i].resolvedAt # Null
                                  /\ incidents[i].resolvedAt > period.start
                                  /\ incidents[i].resolvedAt <= period.end}
Recovery(S, period) == MapThenSumSet(LAMBDA i : Minutes(Merge(IncidentInterval(i, period))), S)

(* buildCalculation; mttrMinutes is recovery / resolved, and availability    *)
(* and mtbfMinutes are the uptime over the total and over the incidents.   *)
BuildCalculation(S, intervals, period) ==
  LET total == period.end - period.start
      downtime == Min({total, Minutes(Merge(intervals))})
  IN [total |-> total, downtime |-> downtime, uptime |-> total - downtime,
      incidents |-> Cardinality(S), resolved |-> Cardinality(Resolved(S, period)),
      recovery |-> Recovery(Resolved(S, period), period)]

Calculate(scope, period) ==
  IF scope \in CustomerCodes
  THEN LET R == CustomerRows(scope, period)
       IN BuildCalculation({row[1] : row \in R}, CustomerIntervals(R, period), period)
  ELSE LET S == IncidentWhere(scope, period)
       IN BuildCalculation(S, UNION {IncidentInterval(i, period) : i \in S}, period)

(* StatisticsService.customers: the rows grouped by customer, which is the    *)
(* code of the row or, without one, the external id.                       *)
CustomerKey(row) == IF outages[row].code = NoCode THEN row[2] ELSE outages[row].code
GroupCustomers(R) == [key \in {CustomerKey(row) : row \in R} |->
                       {row \in R : CustomerKey(row) = key}]
(* Faulty variant: the intervals of a customer are added up unmerged.       *)
StatisticsUnmerged(scope, period) ==
  LET grouped == GroupCustomers(CustomerRows(scope, period))
  IN [key \in DOMAIN grouped |->
       [incidents |-> Cardinality({row[1] : row \in grouped[key]}),
        downtime  |-> MapThenSumSet(LAMBDA x : x.end - x.start,
                                    CustomerIntervals(grouped[key], period))]]
CustomerStatistics(scope, period) ==
  LET grouped == GroupCustomers(CustomerRows(scope, period))
  IN [key \in DOMAIN grouped |->
       [incidents |-> Cardinality({row[1] : row \in grouped[key]}),
        downtime  |-> Minutes(Merge(CustomerIntervals(grouped[key], period)))]]

(* StatisticsService.incidents: those detected in the period, both ends      *)
(* included; averageRecoveryMinutes is recovery / resolved.                *)
DetectedIncidents(period) ==
  {i \in Incidents : /\ incidents[i].status \notin {"NONE", "FALSE_POSITIVE"}
                     /\ incidents[i].detectedAt \in period.start..period.end}
CountEnum(S) == [s \in {"OPEN", "COMPLETED", "FALSE_POSITIVE"} |->
                  Cardinality({i \in S : incidents[i].status = s})]
ByDay(S) == [d \in {incidents[i].detectedAt : i \in S} |->
              Cardinality({i \in S : incidents[i].detectedAt = d})]
ByLocation(S) == [p \in {PonOf[i] : i \in S} |-> Cardinality({i \in S : PonOf[i] = p})]
IncidentStatistics(period) ==
  LET S == DetectedIncidents(period)
      resolved == {i \in S : incidents[i].resolvedAt # Null}
  IN [incidents |-> Cardinality(S),
      active    |-> CountEnum(S)["OPEN"],
      resolved  |-> Cardinality(resolved),
      recovery  |-> Recovery(resolved, period),
      byDay     |-> ByDay(S),
      byPon     |-> ByLocation(S)]

(* DashboardService.summary without a filter by customer; today is the day   *)
(* that began at the given time.                                           *)
LocationWhere(scope) ==
  {i \in Incidents : incidents[i].status # "NONE" /\ scope \in {All, PonOf[i]}}
ActiveWhere(scope) == {i \in LocationWhere(scope) : incidents[i].status = "OPEN"}
Summary(scope, period, today) ==
  [active        |-> Cardinality(ActiveWhere(scope)),
   resolvedToday |-> Cardinality({i \in LocationWhere(scope) :
                                    incidents[i].resolvedAt \in today..now}),
   sla           |-> Calculate(scope, period)]

-----------------------------------------------------------------------------
Tick == /\ now < MaxTime
        /\ now' = now + 1
        /\ UNCHANGED <<incidents, outages, snapshots, requests>>

(* Incidents are detected when their alert says and resolved when an         *)
(* operator does it; one that is reopened keeps its resolvedAt and can no   *)
(* longer become a false positive.                                         *)
Detect(i, t) ==
  /\ incidents[i].status = "NONE"
  /\ t \in Max({0, now - MaxDelay})..now
  /\ incidents' = [incidents EXCEPT ![i] = [status |-> "OPEN", detectedAt |-> t,
                                            resolvedAt |-> Null]]
  /\ UNCHANGED <<now, outages, snapshots, requests>>

Moves(i, from, to, at) ==
  /\ incidents[i].status = from
  /\ incidents' = [incidents EXCEPT ![i].status = to, ![i].resolvedAt = at]
  /\ UNCHANGED <<now, outages, snapshots, requests>>
IncidentMoves(i) == \/ Moves(i, "OPEN", "COMPLETED", now)
                    \/ Moves(i, "COMPLETED", "OPEN", incidents[i].resolvedAt)
                    \/ incidents[i].resolvedAt = Null /\ Moves(i, "OPEN", "FALSE_POSITIVE", Null)

(* upsertCustomer, for a customer that is offline or is not: a code that is   *)
(* not reported leaves the one that is stored.                             *)
Coded(row, code) == IF code = NoCode THEN outages[row].code ELSE code
Affect(row, code) ==
  /\ incidents[row[1]].status # "NONE"
  /\ outages' = [outages EXCEPT ![row].affected = TRUE, ![row].code = Coded(row, code)]
  /\ UNCHANGED <<now, incidents, snapshots, requests>>
Restore(row, code) ==
  /\ incidents[row[1]].status # "NONE"
  /\ outages' = [outages EXCEPT ![row].code = Coded(row, code),
       ![row].restoredAt = IF outages[row].affected /\ @ = Null THEN now ELSE @]
  /\ UNCHANGED <<now, incidents, snapshots, requests>>

(* createSnapshot: calculate, then write.                                   *)
CalculateSnapshot(r, ask) ==
  /\ requests[r].downtime = None
  /\ LET period == ResolvePeriod(ask.start, ask.end)
     IN /\ period.start < period.end
        /\ requests' = [requests EXCEPT
             ![r] = [of |-> ask.scope, key |-> SnapshotKey(ask), period |-> period,
                     downtime |-> Calculate(ask.scope, period).downtime]]
  /\ UNCHANGED <<now, incidents, outages, snapshots>>
UpsertSnapshot(r) ==
  /\ requests[r].downtime # None
  /\ snapshots' = [snapshots EXCEPT ![<<requests[r].key, requests[r].period>>] =
                     [of |-> requests[r].of, downtime |-> requests[r].downtime]]
  /\ requests' = [requests EXCEPT ![r] = NoRequest]
  /\ UNCHANGED <<now, incidents, outages>>

IncidentNext == Tick \/ \E i \in Incidents : IncidentMoves(i) \/ \E t \in Times : Detect(i, t)
CustomerNext == \E row \in Rows, code \in CustomerCodes \union {NoCode} :
                  Affect(row, code) \/ Restore(row, code)
SnapshotNext == \E r \in Requests :
                  \/ UpsertSnapshot(r)
                  \/ \E ask \in Asked : CalculateSnapshot(r, ask)
AvailabilityNext == IncidentNext \/ CustomerNext \/ SnapshotNext

-----------------------------------------------------------------------------
(* README, "evitando descontar el mismo minuto dos veces": the downtime of   *)
(* a period is the number of its minutes in which some counted outage       *)
(* lasted, however outages nest, touch, or cross the edges of the period.  *)
Covers(i, m) == incidents[i].detectedAt <= m /\ m < incidents[i].resolvedAt
DowntimeIsCoverage ==
  \A scope \in Scopes \ CustomerCodes, p \in Periods :
    Calculate(scope, p).downtime =
      Cardinality({m \in p.start..(p.end - 1) :
        \E i \in Incidents : /\ incidents[i].status \notin {"NONE", "FALSE_POSITIVE"}
                             /\ scope \in {All, PonOf[i]}
                             /\ Covers(i, m)})

(* The views agree: the statistics of a customer's code give it the downtime  *)
(* of its SLA, and those of all customers no less: more only through rows    *)
(* without a code whose external id is that code.  Both views of the open    *)
(* incidents count the same ones, and no incident is left out of, or twice   *)
(* in, the days and the PONs.                                               *)
Sum(f) == Cardinality(UNION {{x} \X (1..f[x]) : x \in DOMAIN f})
Shown(statistics, c) == IF c \in DOMAIN statistics THEN statistics[c].downtime ELSE 0
TakenFor(c, period) ==
  {row \in CustomerRows(All, period) : outages[row].code = NoCode /\ row[2] = c}
ViewsAgree ==
  /\ \A p \in Periods, c \in CustomerCodes :
       LET downtime == Calculate(c, p).downtime
           among == Shown(CustomerStatistics(All, p), c)
       IN /\ Shown(CustomerStatistics(c, p), c) = downtime
          /\ among >= downtime
          /\ TakenFor(c, p) = {} => among = downtime
  /\ LET period == [start |-> 0, end |-> now]
         statistics == IncidentStatistics(period)
     IN /\ statistics.active = Summary(All, period, 0).active
        /\ Sum(statistics.byDay) = statistics.incidents
        /\ Sum(statistics.byPon) = statistics.incidents

(* A stored snapshot claims no downtime that what it was calculated for does *)
(* not show now, be its incidents resolved, reopened or found late since,   *)
(* and whichever request wrote it last; only false positives take downtime  *)
(* back.                                                                   *)
SnapshotsNotOverstated ==
  \A key \in SnapshotKeys, p \in Periods :
    snapshots[<<key, p>>].of \notin CustomerCodes =>
      snapshots[<<key, p>>].downtime <=
        Cardinality({m \in p.start..(p.end - 1) :
          \E i \in Incidents : /\ incidents[i].status # "NONE"
                               /\ snapshots[<<key, p>>].of \in {All, PonOf[i]}
                               /\ Covers(i, m)})
=============================================================================
