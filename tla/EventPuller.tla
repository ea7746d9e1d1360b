----------------------------- MODULE EventPuller -----------------------------
(***************************************************************************)
(* ZasmaoltEventPullerService (src/alerts/zasmaolt-event-puller.service.ts): *)
(* polls the outbox of api_zaSmaOlt from a cursor kept in memory and in      *)
(* system_settings, and sends each event through the pipeline before it      *)
(* moves the cursor past it.                                                *)
(*                                                                         *)
(* The provider's outbox is outside the repository: rows numbered from 1    *)
(* that are only appended, until the source is restored from a backup,      *)
(* which drops the newest rows and lets their cursors be used again.  The   *)
(* provider always reports latestCursor.                                    *)
(***************************************************************************)
EXTENDS AlertPipeline, Sequences

CONSTANTS Puller,         \* the slot the puller delivers in
          BatchSize,      \* ZASMAOLT_EVENT_PULL_BATCH_SIZE
          PagesPerRun,    \* pages one poll reads at most
          MaxRestores,    \* bound: restores of the source
          RegrowthWaits   \* a restored outbox reuses a cursor only after the
                          \* puller has noticed the restore

ASSUME PullerAssumption ==
  /\ Puller \in Slots
  /\ BatchSize \in Nat \ {0}
  /\ PagesPerRun \in Nat \ {0}
  /\ MaxRestores \in Nat
  /\ RegrowthWaits \in BOOLEAN

VARIABLES
  outbox,      \* the source's events, in cursor order
  restores,    \* how often the source was restored
  stored,      \* the cursor in system_settings
  cursor,      \* the cursor in memory
  pull,        \* where the poll is
  page,        \* what is left of the page being processed
  hasMore,     \* the page's hasMore, until its last item
  pagesLeft    \* pages this poll may still read

source == <<outbox, restores>>
poll == <<pull, page, hasMore, pagesLeft>>
pullerVars == <<pipeline, source, stored, cursor, poll>>

(* The poll is down with its process, idle between timers, reading a page,  *)
(* at an item, delivering it, saving a cursor, or saving a reset.           *)
PullStates == {"down", "idle", "fetch", "item", "deliver", "save", "reset"}
Items == [cursor : Nat, event : Events]

PullerTypeOK ==
  /\ PipelineTypeOK
  /\ outbox \in Seq(Events)
  /\ restores \in 0..MaxRestores
  /\ stored \in Nat
  /\ cursor \in Nat
  /\ pull \in PullStates
  /\ page \in Seq(Items)
  /\ hasMore \in BOOLEAN
  /\ pagesLeft \in 0..PagesPerRun

PullerInit ==
  /\ PipelineInit
  /\ outbox = <<>>
  /\ restores = 0
  /\ stored = 0
  /\ cursor = 0
  /\ pull = "down"
  /\ page = <<>>
  /\ hasMore = FALSE
  /\ pagesLeft = 0

-----------------------------------------------------------------------------
(* The source.                                                              *)

(* The puller holds no position beyond the end of the outbox.               *)
RestoreNoticed ==
  \A c \in {stored, cursor} \union {page[k].cursor : k \in DOMAIN page} : c <= Len(outbox)

(* The provider records an event, or is restored to its first n rows.       *)
Record(e) ==
  /\ \A n \in DOMAIN outbox : outbox[n] # e
  /\ RegrowthWaits => RestoreNoticed
  /\ outbox' = Append(outbox, e)
  /\ UNCHANGED <<pipeline, restores, stored, cursor, poll>>

Restore(n) ==
  /\ restores < MaxRestores
  /\ outbox' = SubSeq(outbox, 1, n)
  /\ restores' = restores + 1
  /\ UNCHANGED <<pipeline, stored, cursor, poll>>

-----------------------------------------------------------------------------
(* onModuleInit: the stored cursor, or 0 when it cannot be read; the first  *)
(* poll starts at once.                                                     *)
Boot ==
  /\ pull = "down"
  /\ cursor' \in {stored, 0}
  /\ pull' = "fetch"
  /\ pagesLeft' = PagesPerRun
  /\ UNCHANGED <<pipeline, source, stored, page, hasMore>>

(* The interval timer; while a poll runs it does nothing.                   *)
Timer ==
  /\ pull = "idle"
  /\ pull' = "fetch"
  /\ pagesLeft' = PagesPerRun
  /\ UNCHANGED <<pipeline, source, stored, cursor, page, hasMore>>

LastOfPage == IF cursor + BatchSize < Len(outbox) THEN cursor + BatchSize ELSE Len(outbox)

FetchPage ==
  /\ pull = "fetch"
  /\ cursor < Len(outbox)
  /\ page' = [k \in 1..(LastOfPage - cursor) |->
                [cursor |-> cursor + k, event |-> outbox[cursor + k]]]
  /\ hasMore' = (LastOfPage < Len(outbox))
  /\ pull' = "item"
  /\ pagesLeft' = pagesLeft - 1
  /\ UNCHANGED <<pipeline, source, stored, cursor>>

NothingNew ==
  /\ pull = "fetch"
  /\ cursor = Len(outbox)
  /\ pull' = "idle"
  /\ pagesLeft' = 0
  /\ UNCHANGED <<pipeline, source, stored, cursor, page, hasMore>>

(* No data and a latestCursor behind ours: the source was restored.         *)
DetectReset ==
  /\ pull = "fetch"
  /\ cursor > Len(outbox)
  /\ cursor' = 0
  /\ pull' = "reset"
  /\ pagesLeft' = pagesLeft - 1
  /\ UNCHANGED <<pipeline, source, stored, page, hasMore>>

(* The bound on a poll's pages.                                             *)
NextFetch == IF pagesLeft > 0 THEN "fetch" ELSE "idle"

SaveReset ==
  /\ pull = "reset"
  /\ stored' = cursor
  /\ pull' = NextFetch
  /\ UNCHANGED <<pipeline, source, cursor, page, hasMore, pagesLeft>>

-----------------------------------------------------------------------------
Item == Head(page)

(* Faulty variant: an invalid event ends the poll, to be tried again.       *)
TakeValidItem ==
  /\ pull = "item"
  /\ IF Item.event \in Valid
     THEN /\ delivery' = [delivery EXCEPT ![Puller] = Accepted(Item.event)]
          /\ pull' = "deliver"
          /\ UNCHANGED <<page, hasMore, pagesLeft>>
     ELSE /\ pull' = "idle"
          /\ page' = <<>>
          /\ hasMore' = FALSE
          /\ pagesLeft' = 0
          /\ UNCHANGED delivery
  /\ UNCHANGED <<shared, source, stored, cursor>>

(* A valid event goes into the pipeline, an invalid one is passed over.     *)
TakeItem ==
  /\ pull = "item"
  /\ IF Item.event \in Valid
     THEN /\ delivery' = [delivery EXCEPT ![Puller] = Accepted(Item.event)]
          /\ pull' = "deliver"
          /\ UNCHANGED cursor
     ELSE /\ cursor' = Item.cursor
          /\ pull' = "save"
          /\ UNCHANGED delivery
  /\ UNCHANGED <<shared, source, stored, page, hasMore, pagesLeft>>

(* Faulty variant: the cursor moves on as soon as the engine is done.       *)
AdvanceEarly ==
  /\ pull = "deliver"
  /\ delivery[Puller].stage \in {"measure", "settle"}
  /\ cursor' = Item.cursor
  /\ delivery' = [delivery EXCEPT ![Puller] = Idle]
  /\ pull' = "save"
  /\ UNCHANGED <<shared, source, stored, page, hasMore, pagesLeft>>

(* advanceCursor: memory first.                                             *)
Advance ==
  /\ pull = "deliver"
  /\ At(Puller, "settle")
  /\ cursor' = Item.cursor
  /\ delivery' = [delivery EXCEPT ![Puller] = Idle]
  /\ pull' = "save"
  /\ UNCHANGED <<shared, source, stored, page, hasMore, pagesLeft>>

(* advanceCursor: then the row; on to the next item, page or timer.         *)
SaveCursor ==
  /\ pull = "save"
  /\ stored' = cursor
  /\ page' = Tail(page)
  /\ pull' = IF Len(page) > 1 THEN "item"
             ELSE IF hasMore THEN NextFetch ELSE "idle"
  /\ hasMore' = (hasMore /\ Len(page) > 1)
  /\ UNCHANGED <<pipeline, source, cursor, pagesLeft>>

-----------------------------------------------------------------------------
EndPoll(to) ==
  /\ pull' = to
  /\ page' = <<>>
  /\ hasMore' = FALSE
  /\ pagesLeft' = 0
  /\ delivery' = [delivery EXCEPT ![Puller] = Idle]
  /\ UNCHANGED <<outbox, restores, stored>>

(* Any of the awaited calls throws: the poll ends where its cursor is.      *)
PollFails ==
  /\ pull \in {"fetch", "deliver", "save", "reset"}
  /\ IF pull = "deliver" THEN CallThrows(Puller) ELSE UNCHANGED shared
  /\ EndPoll("idle")
  /\ UNCHANGED cursor

(* The process stops, at any point.                                         *)
PullerCrash ==
  /\ pull # "down"
  /\ CountCrash
  /\ EndPoll("down")
  /\ cursor' = 0
  /\ UNCHANGED database

Deliver ==
  /\ Call(Puller)
  /\ UNCHANGED <<source, stored, cursor, poll>>

SourceStep == \/ \E e \in Events : Record(e)
              \/ \E n \in 0..Len(outbox) : Restore(n)

PullStep == \/ Boot     \/ Timer     \/ FetchPage \/ NothingNew \/ DetectReset
            \/ SaveReset \/ TakeItem \/ Advance   \/ SaveCursor

PullerNext == SourceStep \/ PullStep \/ Deliver \/ PollFails \/ PullerCrash

PullerSpec == PullerInit /\ [][PullerNext]_pullerVars

(* The process is restarted and its timer fires; whatever the poll awaits   *)
(* succeeds sooner or later if it is tried again and again.                 *)
PullerFairness ==
  /\ WF_pullerVars(Boot \/ Timer \/ NothingNew \/ TakeItem \/ Advance)
  /\ SF_pullerVars(FetchPage \/ DetectReset) /\ SF_pullerVars(SaveReset) /\ SF_pullerVars(SaveCursor)
  /\ SF_pullerVars(IngestAlert(Puller) /\ UNCHANGED <<source, stored, cursor, poll>>)
  /\ SF_pullerVars(ProcessAlert(Puller) /\ UNCHANGED <<source, stored, cursor, poll>>)
  /\ SF_pullerVars(RefreshImpact(Puller) /\ UNCHANGED <<source, stored, cursor, poll>>)
  /\ SF_pullerVars(Dispatch(Puller) /\ UNCHANGED <<source, stored, cursor, poll>>)

PullerFairSpec == PullerSpec /\ PullerFairness

-----------------------------------------------------------------------------
Passed(c) == {outbox[n] : n \in {m \in DOMAIN outbox : m <= c}}

(* No valid event is skipped: each event of the outbox that a cursor, in    *)
(* memory or saved, has passed went through processing and the impact       *)
(* refresh, whatever failed, crashed or was restored on the way.            *)
NothingSkipped ==
  \A e \in (Passed(cursor) \union Passed(stored)) \intersect Valid : Settled(e)

(* Every event passed was also notified.                                    *)
PassedIsNotified ==
  \A e \in Passed(stored) \intersect Valid : dispatched[e] >= 1

(* Liveness: a valid event of the outbox is settled in the end, unless a    *)
(* restore drops it: no failure, crash or reset blocks the feed for ever.   *)
EventsReached ==
  \A e \in Valid : (\E n \in DOMAIN outbox : outbox[n] = e)
                     ~> (Settled(e) \/ \A n \in DOMAIN outbox : outbox[n] # e)
=============================================================================
