------------------------------ MODULE Reports ------------------------------
(***************************************************************************)
(* ReportsService.generate and download (src/reports/reports.service.ts)    *)
(* with ReportDataService.build (report-data.service.ts).  The data of a    *)
(* report is read by several statements while the incident changes; every   *)
(* await is a step that can fail, and the process can stop in between.      *)
(***************************************************************************)
EXTENDS Naturals

CONSTANTS Generations,   \* requests for a report of one incident
          MaxRevisions   \* bound: changes of the incident and its customers

ASSUME ReportsAssumption == MaxRevisions \in Nat

VARIABLES
  revision,     \* state of the incident and its customers, a number
  generation,   \* where each request is
  summary,      \* the revision of the incident rows its report holds
  details,      \* the revision of its customers, events and timeline
  reports,      \* the report row of each request
  files,        \* its file: none, partly written, or whole
  downloads     \* the requests whose report was downloaded

reporting == <<revision, generation, summary, details, reports, files, downloads>>

(* assertRequest refuses before anything is stored.  Then the row is         *)
(* created, GENERATING, the incidents are read, the rest of the data, the   *)
(* document is rendered, the file is being written, is written, or the      *)
(* failure is to be recorded.                                              *)
Generating == {"created", "reading", "gathering", "rendering", "writing", "written", "failing"}
Ended == {"answered", "refused", "thrown", "stopped"}

ReportsInit ==
  /\ revision = 1
  /\ generation = [g \in Generations |-> "waiting"]
  /\ summary = [g \in Generations |-> 0]
  /\ details = [g \in Generations |-> 0]
  /\ reports = [g \in Generations |-> "ABSENT"]
  /\ files = [g \in Generations |-> "none"]
  /\ downloads = {}

Goes(g, from, to) == /\ generation[g] = from
                     /\ generation' = [generation EXCEPT ![g] = to]

Revise == /\ revision < MaxRevisions
          /\ revision' = revision + 1
          /\ UNCHANGED <<generation, summary, details, reports, files, downloads>>

Refuse(g) == /\ Goes(g, "waiting", "refused")
             /\ UNCHANGED <<revision, summary, details, reports, files, downloads>>

Create(g) == /\ Goes(g, "waiting", "created")
             /\ reports' = [reports EXCEPT ![g] = "PENDING"]
             /\ UNCHANGED <<revision, summary, details, files, downloads>>

StartGenerating(g) == /\ Goes(g, "created", "reading")
                      /\ reports' = [reports EXCEPT ![g] = "GENERATING"]
                      /\ UNCHANGED <<revision, summary, details, files, downloads>>

ReadIncidents(g) == /\ Goes(g, "reading", "gathering")
                    /\ summary' = [summary EXCEPT ![g] = revision]
                    /\ UNCHANGED <<revision, details, reports, files, downloads>>

(* Faulty variant: the details come from a cache filled when the service    *)
(* started.                                                                *)
ReadCachedDetails(g) == /\ Goes(g, "gathering", "rendering")
                        /\ details' = [details EXCEPT ![g] = 1]
                        /\ UNCHANGED <<revision, summary, reports, files, downloads>>
ReadDetails(g) == /\ Goes(g, "gathering", "rendering")
                  /\ details' = [details EXCEPT ![g] = revision]
                  /\ UNCHANGED <<revision, summary, reports, files, downloads>>

(* persistFile; the file is there, in part, while it is being written.      *)
OpenFile(g) == /\ Goes(g, "rendering", "writing")
               /\ files' = [files EXCEPT ![g] = "part"]
               /\ UNCHANGED <<revision, summary, details, reports, downloads>>
WriteFile(g) == /\ Goes(g, "writing", "written")
                /\ files' = [files EXCEPT ![g] = "whole"]
                /\ UNCHANGED <<revision, summary, details, reports, downloads>>

(* Faulty variant: the write is not awaited.                                *)
CompleteEarly(g) == /\ generation[g] \in {"writing", "written"}
                    /\ generation' = [generation EXCEPT ![g] = "answered"]
                    /\ reports' = [reports EXCEPT ![g] = "COMPLETED"]
                    /\ UNCHANGED <<revision, summary, details, files, downloads>>
Complete(g) == /\ Goes(g, "written", "answered")
               /\ reports' = [reports EXCEPT ![g] = "COMPLETED"]
               /\ UNCHANGED <<revision, summary, details, files, downloads>>

GenerateThrows(g) == /\ generation[g] \in Generating \ {"failing"}
                     /\ generation' = [generation EXCEPT ![g] = "failing"]
                     /\ UNCHANGED <<revision, summary, details, reports, files, downloads>>

RecordFailure(g) == /\ Goes(g, "failing", "thrown")
                    /\ reports' = [reports EXCEPT ![g] = "FAILED"]
                    /\ UNCHANGED <<revision, summary, details, files, downloads>>

(* The row of the report, or of its failure, cannot be written.              *)
ReportLost(g) == /\ generation[g] \in {"waiting", "failing"}
                 /\ generation' = [generation EXCEPT ![g] = "thrown"]
                 /\ UNCHANGED <<revision, summary, details, reports, files, downloads>>

Download(g) == /\ reports[g] = "COMPLETED"
               /\ files[g] # "none"
               /\ downloads' = downloads \union {g}
               /\ UNCHANGED <<revision, generation, summary, details, reports, files>>

ReportsStop == /\ generation' = [g \in Generations |->
                    IF generation[g] \in Generating THEN "stopped" ELSE generation[g]]
               /\ UNCHANGED <<revision, summary, details, reports, files, downloads>>

ReportsNext ==
  \/ Revise
  \/ \E g \in Generations :
       \/ Refuse(g) \/ Create(g) \/ StartGenerating(g) \/ ReadIncidents(g) \/ ReadDetails(g)
       \/ OpenFile(g) \/ WriteFile(g) \/ Complete(g) \/ GenerateThrows(g)
       \/ RecordFailure(g) \/ ReportLost(g) \/ Download(g)

ReportsSpec == ReportsInit /\ [][ReportsNext \/ ReportsStop]_reporting

-----------------------------------------------------------------------------
(* The row of a report is never ahead of its file (JobLedger).                *)
LedgerRow(row) == CASE row = "GENERATING" -> "RUNNING" [] row = "COMPLETED" -> "DONE" [] OTHER -> row
ReportLedger == INSTANCE JobLedger WITH
  Jobs <- Generations, status <- [g \in Generations |-> LedgerRow(reports[g])],
  effect <- [g \in Generations |-> files[g] = "whole"]

(* What is downloaded is a whole file whose details are not older than the  *)
(* summary on its first page.                                              *)
DownloadIsWhole ==
  \A g \in downloads : files[g] = "whole" /\ details[g] >= summary[g]

(* A report stays PENDING or GENERATING only while its request is at work,  *)
(* or when its failure could not be recorded or the process stopped.       *)
ReportUnsettledIsInterrupted ==
  \A g \in Generations : reports[g] \in {"PENDING", "GENERATING"} =>
    generation[g] \in Generating \union {"thrown", "stopped"}
=============================================================================
