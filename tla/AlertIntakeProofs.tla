-------------------------- MODULE AlertIntakeProofs --------------------------
(***************************************************************************)
(* The channels, for any number of events, slots, retries, crashes, lost    *)
(* connections and restores of the outbox.                                  *)
(*                                                                         *)
(* The puller alone skips no valid event, provided that a restored outbox   *)
(* reuses no cursor before the puller notices the restore.  Over all        *)
(* channels an event is notified at most once.  And what the puller and the *)
(* consumer promise alone they keep side by side, although they share the   *)
(* database and the process they stop with.                                *)
(***************************************************************************)
EXTENDS AlertIntake, AlertConsumerProofs

-----------------------------------------------------------------------------
(* The puller.                                                             *)

(* What the argument needs of the types.                                    *)
PullerTyped == /\ outbox \in Seq(Events)
               /\ stored \in Nat
               /\ cursor \in Nat
               /\ page \in Seq(Items)
               /\ pull \in PullStates
               /\ delivery \in [Slots -> {Idle} \union Deliveries]

(* Every valid row up to a cursor is settled.                               *)
SettledTo(c) == \A n \in DOMAIN outbox : n <= c /\ outbox[n] \in Valid => Settled(outbox[n])

(* What is left of the page goes on from the cursor; while it is saved, the *)
(* cursor is that of the first item.                                       *)
Behind == IF pull = "save" THEN 1 ELSE 0
PageFollowsCursor == /\ page # <<>> <=> pull \in {"item", "deliver", "save"}
                     /\ \A k \in DOMAIN page : page[k].cursor = cursor + k - Behind

(* Its items are rows of the outbox, unless a restore has dropped them.     *)
PageIsOutbox ==
  \A k \in DOMAIN page : page[k].cursor \in DOMAIN outbox => outbox[page[k].cursor] = page[k].event

(* The delivery in progress is of the page's first item.                    *)
DeliversItem ==
  IF pull = "deliver"
  THEN /\ delivery[Puller] \in Deliveries
       /\ delivery[Puller].event = Item.event
       /\ delivery[Puller].stage \in {"dispatch", "settle"} => Settled(Item.event)
  ELSE delivery[Puller] = Idle

CursorsSettled == SettledTo(cursor) /\ SettledTo(stored)

PullerInv == PullerTyped /\ PageFollowsCursor /\ PageIsOutbox /\ DeliversItem /\ CursorsSettled

-----------------------------------------------------------------------------
LEMMA PullerInvAtFirst == PullerInit => PullerInv
  BY PullerAssumption
  DEF PullerInit, PipelineInit, PullerInv, PullerTyped, PullStates, PageFollowsCursor, PageIsOutbox,
      DeliversItem, CursorsSettled, SettledTo

(* An appended row is past every cursor, since the restore was noticed.     *)
LEMMA RecordKeepsPullerInv ==
  ASSUME PullerInv, RegrowthWaits, NEW e \in Events, Record(e)
  PROVE  PullerInv'
<1>1. /\ outbox' \in Seq(Events)
      /\ Len(outbox') = Len(outbox) + 1
      /\ \A n \in DOMAIN outbox : n \in DOMAIN outbox' /\ outbox'[n] = outbox[n]
      /\ \A n \in DOMAIN outbox' : n <= Len(outbox) => n \in DOMAIN outbox
  BY DEF Record, PullerInv, PullerTyped
<1>2. /\ stored <= Len(outbox)
      /\ cursor <= Len(outbox)
      /\ \A k \in DOMAIN page : page[k].cursor <= Len(outbox)
  BY DEF Record, RestoreNoticed
<1>3. UNCHANGED <<pipeline, stored, cursor, poll>>
  BY DEF Record
<1>4. PullerTyped'
  BY <1>1, <1>3 DEF PullerInv, PullerTyped, pipeline, poll
<1>5. PageFollowsCursor'
  BY <1>3 DEF PullerInv, PageFollowsCursor, Behind, poll
<1>6. PageIsOutbox'
  <2> SUFFICES ASSUME NEW k \in DOMAIN page, page[k].cursor \in DOMAIN outbox'
               PROVE  outbox'[page[k].cursor] = page[k].event
    BY <1>3 DEF PageIsOutbox, poll
  <2>1. page[k].cursor \in DOMAIN outbox
    BY <1>1, <1>2
  <2> QED
    BY <1>1, <2>1 DEF PullerInv, PageIsOutbox
<1>7. DeliversItem'
  BY <1>3 DEF PullerInv, DeliversItem, Item, At, Settled, pipeline, shared, database, poll
<1>8. CursorsSettled'
  <2>1. ASSUME NEW c \in {cursor, stored}, NEW n \in DOMAIN outbox', n <= c
        PROVE  n \in DOMAIN outbox /\ outbox'[n] = outbox[n]
    BY <1>1, <1>2, <2>1 DEF PullerInv, PullerTyped
  <2>2. UNCHANGED <<cursor, stored, measured>>
    BY <1>3 DEF pipeline, shared, database
  <2> QED
    BY <2>1, <2>2 DEF PullerInv, CursorsSettled, SettledTo, Settled
<1> QED
  BY <1>4, <1>5, <1>6, <1>7, <1>8 DEF PullerInv

(* A restore leaves fewer rows, each where it was.                          *)
LEMMA RestoreKeepsPullerInv ==
  ASSUME PullerInv, NEW n \in 0..Len(outbox), Restore(n)
  PROVE  PullerInv'
<1>1. /\ outbox' \in Seq(Events)
      /\ Len(outbox') = n
      /\ \A m \in DOMAIN outbox' : m \in DOMAIN outbox /\ outbox'[m] = outbox[m]
  BY DEF Restore, PullerInv, PullerTyped
<1>2. UNCHANGED <<pipeline, stored, cursor, poll>>
  BY DEF Restore
<1>3. PullerTyped'
  BY <1>1, <1>2 DEF PullerInv, PullerTyped, pipeline, poll
<1>4. PageFollowsCursor'
  BY <1>2 DEF PullerInv, PageFollowsCursor, Behind, poll
<1>5. PageIsOutbox'
  BY <1>1, <1>2 DEF PullerInv, PageIsOutbox, poll
<1>6. DeliversItem'
  BY <1>2 DEF PullerInv, DeliversItem, Item, At, Settled, pipeline, shared, database, poll
<1>7. CursorsSettled'
  BY <1>1, <1>2
  DEF PullerInv, CursorsSettled, SettledTo, Settled, pipeline, shared, database
<1> QED
  BY <1>3, <1>4, <1>5, <1>6, <1>7 DEF PullerInv

-----------------------------------------------------------------------------
(* A page is the rows after the cursor.                                     *)
LEMMA FetchKeepsPullerInv ==
  ASSUME PullerInv, FetchPage
  PROVE  PullerInv'
<1> DEFINE m == LastOfPage - cursor
<1>1. m \in Nat \ {0} /\ cursor + m <= Len(outbox) /\ cursor \in Nat /\ Len(outbox) \in Nat
  BY PullerAssumption DEF FetchPage, LastOfPage, PullerInv, PullerTyped
<1>2. page' = [k \in 1..m |-> [cursor |-> cursor + k, event |-> outbox[cursor + k]]]
  BY DEF FetchPage
<1>3. \A k \in 1..m : cursor + k \in DOMAIN outbox /\ outbox[cursor + k] \in Events
  BY <1>1 DEF PullerInv, PullerTyped
<1>4. page' \in Seq(Items) /\ page' # <<>> /\ DOMAIN page' = 1..m
  <2>1. page' \in [1..m -> Items]
    BY <1>1, <1>2, <1>3 DEF Items
  <2>2. page' \in Seq(Items) /\ DOMAIN page' = 1..m
    BY <1>1, <2>1
  <2> QED
    BY <1>1, <2>2
<1>5. UNCHANGED <<pipeline, source, stored, cursor>> /\ pull = "fetch" /\ pull' = "item"
  BY DEF FetchPage
<1>6. PullerTyped'
  BY <1>4, <1>5 DEF PullerInv, PullerTyped, PullStates, pipeline, source
<1>7. PageFollowsCursor'
  BY <1>1, <1>2, <1>4, <1>5 DEF PageFollowsCursor, Behind
<1>8. PageIsOutbox'
  BY <1>2, <1>4, <1>5 DEF PageIsOutbox, source
<1>9. DeliversItem'
  BY <1>5 DEF PullerInv, DeliversItem, pipeline
<1>10. CursorsSettled'
  BY <1>5 DEF PullerInv, CursorsSettled, SettledTo, Settled, pipeline, shared, database, source
<1> QED
  BY <1>6, <1>7, <1>8, <1>9, <1>10 DEF PullerInv

(* Steps between pages, which hold no page: the cursor in memory is what it *)
(* was, 0, or the stored one, and what is stored is the cursor in memory.   *)
LEMMA BetweenPagesKeepsPullerInv ==
  ASSUME PullerInv,
         UNCHANGED <<outbox, measured, delivery, page>>,
         cursor' \in {cursor, stored, 0}, stored' \in {stored, cursor},
         pull \in {"down", "idle", "fetch", "reset"}, pull' \in {"idle", "fetch", "reset"}
  PROVE  PullerInv'
<1>1. page = <<>>
  BY DEF PullerInv, PageFollowsCursor
<1>2. PullerTyped'
  BY DEF PullerInv, PullerTyped, PullStates
<1>3. PageFollowsCursor' /\ PageIsOutbox'
  BY <1>1 DEF PageFollowsCursor, PageIsOutbox
<1>4. DeliversItem'
  BY DEF PullerInv, DeliversItem
<1>5. SettledTo(cursor) /\ SettledTo(stored) /\ SettledTo(0)
  BY DEF PullerInv, PullerTyped, CursorsSettled, SettledTo
<1>6. CursorsSettled'
  BY <1>5 DEF CursorsSettled, SettledTo, Settled
<1> QED
  BY <1>2, <1>3, <1>4, <1>6 DEF PullerInv

(* The first item is the row after the cursor: once its event is invalid or *)
(* settled, the cursor may pass it.                                         *)
LEMMA ItemIsNextRow ==
  ASSUME PullerInv, pull \in {"item", "deliver"}
  PROVE  /\ Item \in Items /\ page # <<>>
         /\ Item.cursor = cursor + 1
         /\ (Item.event \notin Valid \/ Settled(Item.event)) => SettledTo(Item.cursor)
<1>1. page # <<>> /\ 1 \in DOMAIN page /\ Item = page[1] /\ Item \in Items
  BY DEF PullerInv, PullerTyped, PageFollowsCursor, Item
<1>2. Item.cursor = cursor + 1
  BY <1>1 DEF PullerInv, PullerTyped, PageFollowsCursor, Behind
<1>3. cursor + 1 <= Len(outbox) => outbox[cursor + 1] = Item.event
  BY <1>1, <1>2 DEF PullerInv, PullerTyped, PageIsOutbox
<1>4. \A n \in DOMAIN outbox : n <= cursor + 1 => n <= cursor \/ n = cursor + 1
  BY DEF PullerInv, PullerTyped
<1>5. SettledTo(cursor)
  BY DEF PullerInv, CursorsSettled
<1>6. ASSUME Item.event \notin Valid \/ Settled(Item.event)
      PROVE  SettledTo(cursor + 1)
  <2> SUFFICES ASSUME NEW n \in DOMAIN outbox, n <= cursor + 1, outbox[n] \in Valid
               PROVE  Settled(outbox[n])
    BY DEF SettledTo
  <2>1. CASE n <= cursor
    BY <1>5, <2>1 DEF SettledTo
  <2>2. CASE n = cursor + 1
    BY <1>3, <1>6, <2>2 DEF PullerInv, PullerTyped
  <2> QED
    BY <1>4, <2>1, <2>2
<1> QED
  BY <1>1, <1>2, <1>6

(* The cursor moves on to its item: past an invalid event, or a settled one.*)
LEMMA PassKeepsPullerInv ==
  ASSUME PullerInv, pull \in {"item", "deliver"},
         Item.event \notin Valid \/ Settled(Item.event),
         cursor' = Item.cursor, pull' = "save", delivery' \in [Slots -> {Idle} \union Deliveries],
         delivery'[Puller] = Idle, UNCHANGED <<outbox, measured, stored, page>>
  PROVE  PullerInv'
<1>1. Item.cursor = cursor + 1 /\ page # <<>> /\ SettledTo(cursor + 1)
  BY ItemIsNextRow
<1>2. PullerTyped'
  BY <1>1 DEF PullerInv, PullerTyped, PullStates
<1>3. \A k \in DOMAIN page : page[k].cursor = cursor + k
  BY DEF PullerInv, PullerTyped, PageFollowsCursor, Behind
<1>4. PageFollowsCursor'
  BY <1>1, <1>3 DEF PullerInv, PullerTyped, PageFollowsCursor, Behind
<1>5. PageIsOutbox'
  BY DEF PullerInv, PageIsOutbox
<1>6. DeliversItem'
  BY DEF DeliversItem
<1>7. CursorsSettled'
  BY <1>1 DEF PullerInv, CursorsSettled, SettledTo, Settled
<1> QED
  BY <1>2, <1>4, <1>5, <1>6, <1>7 DEF PullerInv

LEMMA TakeItemKeepsPullerInv ==
  ASSUME PullerInv, TakeItem
  PROVE  PullerInv'
<1>1. Item \in Items /\ page # <<>>
  BY ItemIsNextRow DEF TakeItem
<1>2. UNCHANGED <<shared, source, stored, page>> /\ pull = "item"
  BY DEF TakeItem
<1>3. CASE Item.event \in Valid
  <2>1. /\ delivery' = [delivery EXCEPT ![Puller] = Accepted(Item.event)]
        /\ pull' = "deliver" /\ cursor' = cursor
    BY <1>3 DEF TakeItem
  <2>2. Accepted(Item.event) \in Deliveries /\ Accepted(Item.event).event = Item.event
        /\ Accepted(Item.event).stage \notin {"dispatch", "settle"}
    BY <1>1 DEF Accepted, Deliveries, Stages, Calls, Items
  <2>3. PullerTyped'
    BY <1>2, <2>1, <2>2 DEF PullerInv, PullerTyped, PullStates, source
  <2>4. PageFollowsCursor' /\ PageIsOutbox'
    BY <1>1, <1>2, <2>1 DEF PullerInv, PageFollowsCursor, Behind, PageIsOutbox, source
  <2>5. delivery'[Puller] = Accepted(Item.event)
    BY PullerAssumption, <2>1 DEF PullerInv, PullerTyped
  <2>6. DeliversItem'
    BY <1>2, <2>1, <2>2, <2>5 DEF DeliversItem, Item, At
  <2>7. CursorsSettled'
    BY <1>2, <2>1 DEF PullerInv, CursorsSettled, SettledTo, Settled, shared, database, source
  <2> QED
    BY <2>3, <2>4, <2>6, <2>7 DEF PullerInv
<1>4. CASE Item.event \notin Valid
  <2>1. cursor' = Item.cursor /\ pull' = "save" /\ delivery' = delivery
    BY <1>4 DEF TakeItem
  <2>2. delivery[Puller] = Idle
    BY <1>2 DEF PullerInv, DeliversItem
  <2> QED
    BY <1>2, <1>4, <2>1, <2>2, PassKeepsPullerInv DEF PullerInv, PullerTyped, shared, database, source
<1> QED
  BY <1>3, <1>4

LEMMA AdvanceKeepsPullerInv ==
  ASSUME PullerInv, Advance
  PROVE  PullerInv'
<1>1. Settled(Item.event)
  BY DEF Advance, At, PullerInv, DeliversItem
<1>2. /\ delivery' \in [Slots -> {Idle} \union Deliveries]
      /\ delivery'[Puller] = Idle
  BY PullerAssumption DEF Advance, PullerInv, PullerTyped
<1> QED
  BY <1>1, <1>2, PassKeepsPullerInv DEF Advance, shared, database, source

LEMMA SaveCursorKeepsPullerInv ==
  ASSUME PullerInv, SaveCursor
  PROVE  PullerInv'
<1>1. /\ pull = "save" /\ stored' = cursor /\ page' = Tail(page)
      /\ UNCHANGED <<pipeline, source, cursor>>
  BY DEF SaveCursor
<1>2. page # <<>> /\ page \in Seq(Items)
  BY <1>1 DEF PullerInv, PullerTyped, PageFollowsCursor
<1>3. /\ page' \in Seq(Items)
      /\ Len(page') = Len(page) - 1
      /\ \A k \in DOMAIN page' : k + 1 \in DOMAIN page /\ page'[k] = page[k + 1]
  BY <1>1, <1>2
<1>4. IF Len(page) > 1 THEN pull' = "item" /\ page' # <<>>
                       ELSE pull' \in {"fetch", "idle"} /\ page' = <<>>
  BY <1>2, <1>3 DEF SaveCursor, NextFetch
<1>5. PullerTyped'
  BY <1>1, <1>3, <1>4 DEF PullerInv, PullerTyped, PullStates, pipeline, source
<1>6. PageFollowsCursor'
  <2>1. \A k \in DOMAIN page : page[k].cursor = cursor + k - 1
    BY <1>1 DEF PullerInv, PageFollowsCursor, Behind
  <2>2. \A k \in DOMAIN page' : page'[k].cursor = cursor + k
    BY <1>3, <2>1 DEF PullerInv, PullerTyped
  <2> QED
    BY <1>1, <1>3, <1>4, <2>2 DEF PullerInv, PullerTyped, PageFollowsCursor, Behind
<1>7. PageIsOutbox'
  BY <1>1, <1>3 DEF PullerInv, PageIsOutbox, source
<1>8. DeliversItem'
  BY <1>1, <1>4 DEF PullerInv, DeliversItem, pipeline
<1>9. CursorsSettled'
  BY <1>1 DEF PullerInv, CursorsSettled, SettledTo, Settled, pipeline, shared, database, source
<1> QED
  BY <1>5, <1>6, <1>7, <1>8, <1>9 DEF PullerInv

-----------------------------------------------------------------------------
(* A call goes on with the delivery of the item, and measured only grows.   *)
LEMMA DeliverKeepsPullerInv ==
  ASSUME PullerInv, Deliver
  PROVE  PullerInv'
<1>1. Call(Puller) /\ UNCHANGED <<source, stored, cursor, poll>>
  BY DEF Deliver
<1>2. pull = "deliver"
  BY <1>1 DEF PullerInv, DeliversItem, Call, IngestAlert, ProcessAlert, RefreshImpact, Dispatch,
              At, Idle
<1>3. delivery[Puller] \in Deliveries /\ delivery[Puller].event = Item.event
  BY <1>2 DEF PullerInv, DeliversItem
<1>4. measured \subseteq measured'
  BY <1>1 DEF Call, IngestAlert, ProcessAlert, RefreshImpact, Dispatch
<1>5. /\ delivery' \in [Slots -> {Idle} \union Deliveries]
      /\ delivery'[Puller] \in Deliveries
      /\ delivery'[Puller].event = Item.event
      /\ delivery'[Puller].stage \in {"dispatch", "settle"} => Settled(Item.event)'
  <2>1. CASE IngestAlert(Puller)
    BY <1>3, <2>1, PullerAssumption
    DEF IngestAlert, MoveTo, PullerInv, PullerTyped, Deliveries, Stages, Calls, At
  <2>2. CASE ProcessAlert(Puller)
    BY <1>3, <2>2, PullerAssumption
    DEF ProcessAlert, PullerInv, PullerTyped, Deliveries, Stages, Calls, At
  <2>3. CASE RefreshImpact(Puller)
    <3>1. delivery' = [delivery EXCEPT ![Puller].stage =
                         IF delivery[Puller].fresh THEN "dispatch" ELSE "settle"]
      BY <2>3 DEF RefreshImpact, MoveTo
    <3>2. /\ delivery' \in [Slots -> {Idle} \union Deliveries]
          /\ delivery'[Puller] \in Deliveries
          /\ delivery'[Puller].event = Item.event
      BY <1>3, <3>1, PullerAssumption DEF PullerInv, PullerTyped, Deliveries, Stages, Calls
    <3>3. Settled(Item.event)'
      BY <1>1, <1>3, <2>3 DEF RefreshImpact, Settled, Item, poll
    <3> QED
      BY <1>1, <3>2, <3>3
  <2>4. CASE Dispatch(Puller)
    <3>1. /\ delivery' = [delivery EXCEPT ![Puller].stage = "settle"]
          /\ measured' = measured /\ Settled(Item.event)
      BY <1>2, <2>4 DEF Dispatch, MoveTo, At, PullerInv, DeliversItem
    <3>2. /\ delivery' \in [Slots -> {Idle} \union Deliveries]
          /\ delivery'[Puller] \in Deliveries
          /\ delivery'[Puller].event = Item.event
      BY <1>3, <3>1, PullerAssumption DEF PullerInv, PullerTyped, Deliveries, Stages, Calls
    <3> QED
      BY <1>1, <3>1, <3>2 DEF Settled, Item, poll
  <2> QED
    BY <1>1, <2>1, <2>2, <2>3, <2>4 DEF Call
<1>6. PullerTyped'
  BY <1>1, <1>5 DEF PullerInv, PullerTyped, source, poll
<1>7. PageFollowsCursor' /\ PageIsOutbox'
  BY <1>1 DEF PullerInv, PageFollowsCursor, Behind, PageIsOutbox, source, poll
<1>8. DeliversItem'
  BY <1>1, <1>2, <1>5 DEF DeliversItem, Item, poll
<1>9. CursorsSettled'
  BY <1>1, <1>4 DEF PullerInv, CursorsSettled, SettledTo, Settled, source
<1> QED
  BY <1>6, <1>7, <1>8, <1>9 DEF PullerInv

(* A poll that ends, with its process or without, leaves nothing behind.    *)
LEMMA PollOverKeepsPullerInv ==
  ASSUME PullerInv, pull' \in {"idle", "down"}, page' = <<>>, cursor' \in {cursor, 0},
         UNCHANGED <<outbox, stored, measured>>,
         delivery' \in [Slots -> {Idle} \union Deliveries], delivery'[Puller] = Idle
  PROVE  PullerInv'
<1>1. PullerTyped'
  BY DEF PullerInv, PullerTyped, PullStates
<1>2. PageFollowsCursor' /\ PageIsOutbox' /\ DeliversItem'
  BY DEF PageFollowsCursor, PageIsOutbox, DeliversItem
<1>3. SettledTo(0)
  BY DEF PullerInv, PullerTyped, SettledTo
<1>4. CursorsSettled'
  BY <1>3 DEF PullerInv, CursorsSettled, SettledTo, Settled
<1> QED
  BY <1>1, <1>2, <1>4 DEF PullerInv

LEMMA EndPollKeepsPullerInv ==
  ASSUME PullerInv, NEW to \in {"idle", "down"}, EndPoll(to), cursor' \in {cursor, 0},
         measured' = measured
  PROVE  PullerInv'
<1>1. /\ delivery' \in [Slots -> {Idle} \union Deliveries]
      /\ delivery'[Puller] = Idle
  BY PullerAssumption DEF EndPoll, PullerInv, PullerTyped
<1>2. page' = <<>> /\ pull' = to /\ UNCHANGED <<outbox, stored>>
  BY DEF EndPoll
<1> QED
  BY <1>1, <1>2, PollOverKeepsPullerInv

-----------------------------------------------------------------------------
LEMMA StepKeepsPullerInv ==
  ASSUME PullerInv, RegrowthWaits, [PullerNext]_pullerVars
  PROVE  PullerInv'
<1>1. CASE SourceStep
  BY <1>1, RecordKeepsPullerInv, RestoreKeepsPullerInv DEF SourceStep
<1>2. CASE Boot \/ Timer \/ NothingNew \/ DetectReset
  BY <1>2, BetweenPagesKeepsPullerInv
  DEF Boot, Timer, NothingNew, DetectReset, pipeline, shared, database, source
<1>3. CASE SaveReset
  BY <1>3, BetweenPagesKeepsPullerInv
  DEF SaveReset, NextFetch, pipeline, shared, database, source
<1>4. CASE FetchPage
  BY <1>4, FetchKeepsPullerInv
<1>5. CASE TakeItem
  BY <1>5, TakeItemKeepsPullerInv
<1>6. CASE Advance
  BY <1>6, AdvanceKeepsPullerInv
<1>7. CASE SaveCursor
  BY <1>7, SaveCursorKeepsPullerInv
<1>8. CASE Deliver
  BY <1>8, DeliverKeepsPullerInv
<1>9. CASE PollFails
  BY <1>9, EndPollKeepsPullerInv DEF PollFails, CallThrows, shared, database
<1>10. CASE PullerCrash
  BY <1>10, EndPollKeepsPullerInv DEF PullerCrash, database
<1>11. CASE UNCHANGED pullerVars
  BY <1>11
  DEF pullerVars, pipeline, shared, database, source, poll, PullerInv, PullerTyped, PageFollowsCursor,
      Behind, PageIsOutbox, DeliversItem, Item, At, CursorsSettled, SettledTo, Settled
<1> QED
  BY <1>1, <1>2, <1>3, <1>4, <1>5, <1>6, <1>7, <1>8, <1>9, <1>10, <1>11
  DEF PullerNext, PullStep

LEMMA PullerInvSkipsNothing == PullerInv => NothingSkipped
  BY DEF PullerInv, CursorsSettled, SettledTo, NothingSkipped, Passed

(* No valid event is passed, by the cursor in memory or the saved one,      *)
(* before it was processed and its impact measured (poll, processItem and   *)
(* advanceCursor).                                                         *)
THEOREM SkipsNothing == RegrowthWaits /\ PullerSpec => []NothingSkipped
<1>1. PullerInv /\ RegrowthWaits /\ [PullerNext]_pullerVars => PullerInv'
  BY StepKeepsPullerInv
<1>2. RegrowthWaits => []RegrowthWaits
  OBVIOUS
<1> QED
  BY PullerInvAtFirst, <1>1, <1>2, PullerInvSkipsNothing, PTL DEF PullerSpec

-----------------------------------------------------------------------------
(* The notification.                                                       *)

(* The types the argument needs: the deliveries, the notification counts,   *)
(* and the messages that become deliveries.                                 *)
IntakeTyped == /\ dispatched \in [Events -> Nat]
               /\ delivery \in [Slots -> {Idle} \union Deliveries]
               /\ DOMAIN queue \subseteq Messages
               /\ DOMAIN retrying \subseteq Messages
               /\ inHand \in [Consumers -> Messages \union {Nothing}]

Once == NotifiedAtMostOnce /\ OneFreshDelivery /\ DispatchesAreFresh

IntakeInv == IntakeTyped /\ SlotsHoldMessages /\ Once

-----------------------------------------------------------------------------
(* Deliveries that begin, end or settle leave the notifications alone.      *)
LEMMA QuietKeepsOnce ==
  ASSUME Once, UNCHANGED shared,
         \A s \in Slots : \/ delivery'[s] = delivery[s]
                          \/ delivery'[s].stage \notin {"measure", "dispatch"}
  PROVE  Once'
<1>1. \A s \in Unnotified' : s \in Unnotified /\ delivery'[s] = delivery[s]
  BY DEF Unnotified
<1>2. processed' = processed /\ dispatched' = dispatched
  BY DEF shared, database
<1> QED
  BY <1>1, <1>2 DEF Once, NotifiedAtMostOnce, OneFreshDelivery, DispatchesAreFresh, At

(* A call that throws may have sent the notification, and then its delivery *)
(* does not go on.                                                          *)
LEMMA ThrowKeepsOnce ==
  ASSUME Once, IntakeTyped, NEW s \in Slots, CallThrows(s),
         \A t \in Slots : \/ delivery'[t] = delivery[t] /\ t # s
                          \/ delivery'[t].stage \notin {"measure", "dispatch"}
  PROVE  Once'
<1>1. \A t \in Unnotified' : t \in Unnotified /\ delivery'[t] = delivery[t] /\ t # s
  BY DEF Unnotified
<1>2. processed' = processed
  BY DEF CallThrows
<1>3. CASE UNCHANGED dispatched
  BY <1>1, <1>2, <1>3 DEF Once, NotifiedAtMostOnce, OneFreshDelivery, DispatchesAreFresh, At
<1>4. CASE /\ At(s, "dispatch")
           /\ dispatched' = [dispatched EXCEPT ![delivery[s].event] = @ + 1]
  <2>1. s \in Unnotified
    BY <1>4 DEF At, Unnotified, Once, DispatchesAreFresh
  <2> DEFINE e0 == delivery[s].event
  <2>2. delivery[s] \in Deliveries /\ e0 \in Events
    BY <1>4 DEF At, IntakeTyped, Deliveries, Idle
  <2>3. e0 \in processed /\ dispatched[e0] = 0
    BY <2>1 DEF Once, OneFreshDelivery
  <2>4. dispatched'[e0] = 1 /\ \A e \in Events \ {e0} : dispatched'[e] = dispatched[e]
    BY <1>4, <2>2, <2>3 DEF IntakeTyped
  <2>5. NotifiedAtMostOnce'
    BY <2>2, <2>4 DEF Once, NotifiedAtMostOnce
  <2>6. OneFreshDelivery'
    <3>1. \A t \in Unnotified' : delivery[t].event # e0
      BY <1>1, <2>1 DEF Once, OneFreshDelivery
    <3>2. \A t \in Unnotified' : delivery[t].event \in Events
      BY <1>1 DEF Unnotified, IntakeTyped, Deliveries, Idle
    <3> QED
      BY <1>1, <1>2, <2>4, <3>1, <3>2 DEF Once, OneFreshDelivery
  <2>7. DispatchesAreFresh'
    <3>1. \A t \in Slots : At(t, "dispatch")' => delivery'[t].fresh
      BY DEF At, Once, DispatchesAreFresh
    <3>2. \A e \in Events : dispatched'[e] > 0 => e \in processed'
      BY <1>2, <2>3, <2>4 DEF Once, DispatchesAreFresh
    <3> QED
      BY <3>1, <3>2 DEF DispatchesAreFresh
  <2> QED
    BY <2>5, <2>6, <2>7 DEF Once
<1> QED
  BY <1>3, <1>4 DEF CallThrows

(* The four calls: the engine reports an outcome as new to one delivery     *)
(* only, and that one dispatches once.                                      *)
LEMMA CallKeepsOnce ==
  ASSUME Once, IntakeTyped, NEW s \in Slots, Call(s)
  PROVE  Once'
<1> DEFINE e0 == delivery[s].event
<1>0. delivery[s] \in Deliveries /\ e0 \in Events
  BY DEF Call, IngestAlert, ProcessAlert, RefreshImpact, Dispatch, At, IntakeTyped, Deliveries, Idle
<1>1. CASE IngestAlert(s)
  <2>1. \A t \in Slots : \/ delivery'[t] = delivery[t]
                         \/ delivery'[t].stage \notin {"measure", "dispatch"}
    BY <1>0, <1>1 DEF IngestAlert, MoveTo, IntakeTyped, Deliveries
  <2>2. \A t \in Unnotified' : t \in Unnotified /\ delivery'[t] = delivery[t]
    BY <2>1 DEF Unnotified
  <2> QED
    BY <1>1, <2>1, <2>2
    DEF IngestAlert, Once, NotifiedAtMostOnce, OneFreshDelivery, DispatchesAreFresh, At
<1>2. CASE ProcessAlert(s)
  <2>1. /\ delivery'[s].stage = "measure"
        /\ delivery'[s].event = e0
        /\ delivery'[s].fresh = (e0 \notin processed)
        /\ \A t \in Slots \ {s} : delivery'[t] = delivery[t]
    BY <1>0, <1>2 DEF ProcessAlert, IntakeTyped, Deliveries
  <2>2. processed' = processed \union {e0} /\ dispatched' = dispatched
    BY <1>2 DEF ProcessAlert
  <2>3. \A t \in Unnotified' \ {s} : t \in Unnotified /\ delivery'[t] = delivery[t]
    BY <2>1 DEF Unnotified
  <2>4. s \in Unnotified' => e0 \notin processed
    BY <2>1 DEF Unnotified
  <2>5. e0 \notin processed => dispatched[e0] = 0
    BY <1>0 DEF Once, DispatchesAreFresh, IntakeTyped
  <2>6. OneFreshDelivery'
    BY <2>1, <2>2, <2>3, <2>4, <2>5 DEF Once, OneFreshDelivery
  <2>7. DispatchesAreFresh'
    BY <2>1, <2>2 DEF Once, DispatchesAreFresh, At
  <2> QED
    BY <2>2, <2>6, <2>7 DEF Once, NotifiedAtMostOnce
<1>3. CASE RefreshImpact(s)
  <2>1. /\ delivery'[s].stage = IF delivery[s].fresh THEN "dispatch" ELSE "settle"
        /\ delivery'[s].event = e0
        /\ delivery'[s].fresh = delivery[s].fresh
        /\ \A t \in Slots \ {s} : delivery'[t] = delivery[t]
    BY <1>0, <1>3 DEF RefreshImpact, MoveTo, IntakeTyped, Deliveries
  <2>2. processed' = processed /\ dispatched' = dispatched
    BY <1>3 DEF RefreshImpact
  <2>3. \A t \in Unnotified' : t \in Unnotified /\ delivery'[t].event = delivery[t].event
    BY <1>3, <2>1 DEF RefreshImpact, At, Unnotified
  <2>4. OneFreshDelivery'
    BY <2>2, <2>3 DEF Once, OneFreshDelivery
  <2>5. DispatchesAreFresh'
    BY <2>1, <2>2 DEF Once, DispatchesAreFresh, At
  <2> QED
    BY <2>2, <2>4, <2>5 DEF Once, NotifiedAtMostOnce
<1>4. CASE Dispatch(s)
  <2>1. CallThrows(s)
    BY <1>4 DEF Dispatch, CallThrows, At, Calls
  <2>2. \A t \in Slots : \/ delivery'[t] = delivery[t] /\ t # s
                         \/ delivery'[t].stage \notin {"measure", "dispatch"}
    BY <1>0, <1>4 DEF Dispatch, MoveTo, IntakeTyped, Deliveries
  <2> QED
    BY <2>1, <2>2, ThrowKeepsOnce
<1> QED
  BY <1>1, <1>2, <1>3, <1>4 DEF Call

-----------------------------------------------------------------------------
(* Messages keep their type in the bags of RabbitMQ.                        *)
LEMMA PutDomain ==
  ASSUME NEW S, NEW bag, DOMAIN bag \subseteq S, NEW m \in S
  PROVE  DOMAIN Put(bag, m) \subseteq S
BY DEF Put, SetToBag, (+)

LEMMA TakeDomain ==
  ASSUME NEW bag, NEW m
  PROVE  DOMAIN Take(bag, m) \subseteq DOMAIN bag
BY DEF Take, SetToBag, (-)

LEMMA RequeueTyped ==
  ASSUME IntakeTyped, Requeue
  PROVE  /\ DOMAIN queue' \subseteq Messages
         /\ DOMAIN retrying' \subseteq Messages
         /\ inHand' \in [Consumers -> Messages \union {Nothing}]
<1>1. {inHand[s] : s \in Held} \subseteq Messages
  BY DEF IntakeTyped, Held
<1>2. DOMAIN queue' = DOMAIN queue \union {inHand[s] : s \in Held}
  BY DEF Requeue, (+)
<1> QED
  BY <1>1, <1>2 DEF IntakeTyped, Requeue

LEMMA AcceptedTyped ==
  ASSUME NEW e \in Events
  PROVE  Accepted(e) \in Deliveries /\ Accepted(e).stage \in {"ingest", "reject"}
BY DEF Accepted, Deliveries, Stages, Calls

(* The calls keep the types.                                                *)
LEMMA CallKeepsTyped ==
  ASSUME IntakeTyped, NEW s \in Slots, Call(s)
  PROVE  /\ dispatched' \in [Events -> Nat]
         /\ delivery' \in [Slots -> {Idle} \union Deliveries]
<1>0. delivery[s] \in Deliveries /\ delivery[s].event \in Events
  BY DEF Call, IngestAlert, ProcessAlert, RefreshImpact, Dispatch, At, IntakeTyped, Deliveries, Idle
<1>1. CASE IngestAlert(s)
  BY <1>0, <1>1 DEF IngestAlert, MoveTo, IntakeTyped, Deliveries, Stages, Calls
<1>2. CASE ProcessAlert(s)
  BY <1>0, <1>2 DEF ProcessAlert, IntakeTyped, Deliveries, Stages, Calls
<1>3. CASE RefreshImpact(s)
  BY <1>0, <1>3 DEF RefreshImpact, MoveTo, IntakeTyped, Deliveries, Stages, Calls
<1>4. CASE Dispatch(s)
  <2>1. dispatched' \in [Events -> Nat]
    BY <1>0, <1>4 DEF Dispatch, IntakeTyped
  <2>2. delivery' \in [Slots -> {Idle} \union Deliveries]
    BY <1>0, <1>4 DEF Dispatch, MoveTo, IntakeTyped, Deliveries, Stages, Calls
  <2> QED
    BY <2>1, <2>2
<1> QED
  BY <1>1, <1>2, <1>3, <1>4 DEF Call

LEMMA ThrowKeepsTyped ==
  ASSUME IntakeTyped, NEW s \in Slots, CallThrows(s)
  PROVE  dispatched' \in [Events -> Nat]
<1>1. delivery[s].event \in Events
  BY DEF CallThrows, Calls, IntakeTyped, Deliveries, Idle
<1> QED
  BY <1>1 DEF CallThrows, IntakeTyped

(* A call moves no slot in or out of use.                                   *)
LEMMA CallKeepsSlots ==
  ASSUME IntakeTyped, NEW s \in Slots, Call(s)
  PROVE  /\ delivery[s] # Idle
         /\ \A t \in Slots \ {s} : delivery'[t] = delivery[t]
BY DEF Call, IngestAlert, ProcessAlert, RefreshImpact, Dispatch, At, MoveTo, IntakeTyped, Idle

-----------------------------------------------------------------------------
LEMMA PullerKeepsInv ==
  ASSUME IntakeInv, PullerRuns
  PROVE  IntakeInv'
<1> USE SlotsAssumption, PullerAssumption, ConsumerAssumption
<1>1. UNCHANGED <<queue, retrying, inHand, session>>
  BY DEF PullerRuns, ofConsumer, queues
<1>a. ASSUME UNCHANGED pipeline
      PROVE  IntakeInv'
  BY <1>1, <1>a, QuietKeepsOnce
  DEF IntakeInv, IntakeTyped, SlotsHoldMessages, pipeline, shared, database, Messages, Nothing
<1>b. ASSUME UNCHANGED shared,
             \A t \in Slots \ {Puller} : delivery'[t] = delivery[t],
             delivery' \in [Slots -> {Idle} \union Deliveries],
             delivery'[Puller].stage \notin {"measure", "dispatch"}
      PROVE  IntakeInv'
  <2>1. Once'
    BY <1>b, QuietKeepsOnce DEF IntakeInv
  <2>2. SlotsHoldMessages'
    BY <1>1, <1>b DEF IntakeInv, SlotsHoldMessages, Nothing
  <2>3. IntakeTyped'
    BY <1>1, <1>b DEF IntakeInv, IntakeTyped, shared, database, Messages, Nothing
  <2> QED
    BY <2>1, <2>2, <2>3 DEF IntakeInv
<1>2. CASE SourceStep
  BY <1>2, <1>a DEF SourceStep, Record, Restore
<1>3. CASE Boot \/ Timer \/ FetchPage \/ NothingNew \/ DetectReset
             \/ SaveReset \/ SaveCursor
  BY <1>3, <1>a
  DEF Boot, Timer, FetchPage, NothingNew, DetectReset, SaveReset, SaveCursor
<1>4. CASE TakeItem
  <2>1. CASE Item.event \in Valid
    <3>1. /\ UNCHANGED shared
          /\ delivery' = [delivery EXCEPT ![Puller] = Accepted(Item.event)]
      BY <1>4, <2>1 DEF TakeItem
    <3>2. Item.event \in Events
      BY <2>1, PipelineAssumption
    <3> QED
      BY <1>b, <3>1, <3>2, AcceptedTyped DEF IntakeInv, IntakeTyped
  <2>2. CASE Item.event \notin Valid
    BY <1>a, <1>4, <2>2 DEF TakeItem, pipeline, shared, database
  <2> QED
    BY <2>1, <2>2
<1>5. CASE Advance
  <2>1. /\ UNCHANGED shared
        /\ delivery' = [delivery EXCEPT ![Puller] = Idle]
    BY <1>5 DEF Advance
  <2> QED
    BY <1>b, <2>1 DEF IntakeInv, IntakeTyped, Idle
<1>6. CASE Deliver
  <2>1. Call(Puller)
    BY <1>6 DEF Deliver
  <2>2. Once'
    BY <2>1, CallKeepsOnce DEF IntakeInv
  <2>3. IntakeTyped'
    BY <1>1, <2>1, CallKeepsTyped DEF IntakeInv, IntakeTyped, Messages, Nothing
  <2>4. SlotsHoldMessages'
    BY <1>1, <2>1, CallKeepsSlots DEF IntakeInv, SlotsHoldMessages, Nothing
  <2> QED
    BY <2>2, <2>3, <2>4 DEF IntakeInv
<1>7. CASE PollFails
  <2>1. delivery' = [delivery EXCEPT ![Puller] = Idle]
    BY <1>7 DEF PollFails, EndPoll
  <2>2. CASE UNCHANGED shared
    BY <1>b, <2>1, <2>2 DEF IntakeInv, IntakeTyped, Idle
  <2>3. CASE CallThrows(Puller)
    <3>1. Once'
      BY <2>1, <2>3, ThrowKeepsOnce DEF IntakeInv, IntakeTyped, Idle
    <3>2. IntakeTyped'
      BY <1>1, <2>1, <2>3, ThrowKeepsTyped DEF IntakeInv, IntakeTyped, Messages, Nothing
    <3>3. SlotsHoldMessages'
      BY <1>1, <2>1 DEF IntakeInv, IntakeTyped, SlotsHoldMessages, Nothing
    <3> QED
      BY <3>1, <3>2, <3>3 DEF IntakeInv
  <2> QED
    BY <1>7, <2>2, <2>3 DEF PollFails
<1> QED
  BY <1>2, <1>3, <1>4, <1>5, <1>6, <1>7 DEF PullerRuns, PullStep

(* A slot in use holds a message of its queue's type while it can answer.   *)
LEMMA HeldIsMessage ==
  ASSUME IntakeInv, NEW s \in Consumers, session = "open", delivery[s] # Idle
  PROVE  inHand[s] \in Messages
BY DEF IntakeInv, IntakeTyped, SlotsHoldMessages

LEMMA ConsumerKeepsInv ==
  ASSUME IntakeInv, ConsumerRuns
  PROVE  IntakeInv'
<1> USE ConsumerAssumption
<1> DEFINE QueuesTyped == /\ DOMAIN queue \subseteq Messages
                          /\ DOMAIN retrying \subseteq Messages
                          /\ inHand \in [Consumers -> Messages \union {Nothing}]
<1>0. QueuesTyped /\ Messages' = Messages /\ Nothing' = Nothing
  BY DEF IntakeInv, IntakeTyped, Messages, Nothing
<1>1. CASE QueueStep /\ ~LoseConnection
  <2>1. UNCHANGED pipeline
    BY <1>1 DEF QueueStep, Publish, Expire, Start
  <2>2. Once'
    BY <2>1, QuietKeepsOnce DEF IntakeInv, pipeline
  <2>3. QueuesTyped' /\ SlotsHoldMessages'
    <3>1. CASE \E e \in Events : Publish(e)
      <4>1. PICK e \in Events : Publish(e)
        BY <3>1
      <4>2. [event |-> e, retries |-> 0] \in Messages
        BY DEF Messages
      <4>3. queue' = Put(queue, [event |-> e, retries |-> 0])
        BY <4>1 DEF Publish
      <4>4. DOMAIN queue' \subseteq Messages
        BY <1>0, <4>2, <4>3, PutDomain
      <4>5. UNCHANGED <<pipeline, retrying, inHand, session>>
        BY <4>1 DEF Publish
      <4> QED
        BY <1>0, <4>4, <4>5 DEF IntakeInv, SlotsHoldMessages, pipeline
    <3>2. CASE \E m \in DOMAIN retrying : Expire(m)
      <4>1. PICK m \in DOMAIN retrying : Expire(m)
        BY <3>2
      <4>2. queue' = Put(queue, m) /\ retrying' = Take(retrying, m)
        BY <4>1 DEF Expire
      <4>3. DOMAIN queue' \subseteq Messages
        BY <1>0, <4>2, PutDomain
      <4>4. DOMAIN retrying' \subseteq Messages
        BY <1>0, <4>2, TakeDomain
      <4>5. UNCHANGED <<pipeline, inHand, session>>
        BY <4>1 DEF Expire
      <4> QED
        BY <1>0, <4>3, <4>4, <4>5 DEF IntakeInv, SlotsHoldMessages, pipeline
    <3>3. CASE Start
      BY <1>0, <2>1, <3>3
      DEF Start, queues, IntakeInv, SlotsHoldMessages, pipeline, Nothing
    <3> QED
      BY <1>1, <3>1, <3>2, <3>3 DEF QueueStep
  <2> QED
    BY <1>0, <2>1, <2>2, <2>3 DEF IntakeInv, IntakeTyped, pipeline, shared, database
<1>3. CASE LoseConnection
  <2>1. session' = "lost" /\ session = "open" /\ Requeue /\ UNCHANGED shared
    BY <1>3 DEF LoseConnection
  <2>2. delivery' = [s \in Slots |-> IF s \in Consumers /\ At(s, "answered")
                                     THEN Idle ELSE delivery[s]]
    BY <1>3 DEF LoseConnection
  <2>3. QueuesTyped'
    BY <1>0, <2>1, RequeueTyped DEF IntakeInv
  <2>4. \A s \in Slots : delivery'[s] = delivery[s] \/ delivery'[s] = Idle
    BY <2>2
  <2>5. Once'
    BY <2>1, <2>4, QuietKeepsOnce DEF IntakeInv, Idle
  <2>6. SlotsHoldMessages'
    BY <2>1, <2>4 DEF IntakeInv, SlotsHoldMessages
  <2>7. delivery' \in [Slots -> {Idle} \union Deliveries]
    BY <2>2 DEF IntakeInv, IntakeTyped
  <2> QED
    BY <1>0, <2>1, <2>3, <2>5, <2>6, <2>7 DEF IntakeInv, IntakeTyped, shared, database
<1>2. ASSUME NEW s \in Consumers, MessageStep(s)
      PROVE  IntakeInv'
  <2>a. ASSUME UNCHANGED <<shared, session>>, QueuesTyped',
               delivery' = [delivery EXCEPT ![s] = Idle],
               \A t \in Consumers \ {s} : inHand'[t] = inHand[t]
        PROVE  IntakeInv'
    <3>1. Once'
      BY <2>a, QuietKeepsOnce DEF IntakeInv, IntakeTyped, Idle
    <3>2. SlotsHoldMessages'
      BY <1>0, <2>a DEF IntakeInv, IntakeTyped, SlotsHoldMessages
    <3> QED
      BY <1>0, <2>a, <3>1, <3>2 DEF IntakeInv, IntakeTyped, shared, database, Idle
  <2>1. CASE \E m \in DOMAIN queue : Receive(s, m)
    <3>1. PICK m \in DOMAIN queue : Receive(s, m)
      BY <2>1
    <3>2. m \in Messages /\ m.event \in Events /\ m # Nothing
      BY <1>0 DEF Messages, Nothing
    <3>3. QueuesTyped' /\ inHand'[s] # Nothing
      BY <1>0, <3>1, <3>2, TakeDomain DEF Receive
    <3>4. delivery' \in [Slots -> {Idle} \union Deliveries]
      BY <3>1, <3>2, AcceptedTyped DEF Receive, IntakeInv, IntakeTyped
    <3>5. Once'
      <4>1. UNCHANGED shared /\ delivery' = [delivery EXCEPT ![s] = Accepted(m.event)]
        BY <3>1 DEF Receive
      <4> QED
        BY <3>2, <4>1, AcceptedTyped, QuietKeepsOnce DEF IntakeInv, IntakeTyped
    <3>6. SlotsHoldMessages'
      BY <1>0, <3>1, <3>3 DEF Receive, IntakeInv, IntakeTyped, SlotsHoldMessages
    <3> QED
      BY <1>0, <3>1, <3>3, <3>4, <3>5, <3>6
      DEF Receive, IntakeInv, IntakeTyped, shared, database
  <2>2. CASE Handle(s)
    <3>1. Call(s) /\ UNCHANGED <<queues, session>>
      BY <2>2 DEF Handle
    <3>2. Once'
      BY <3>1, CallKeepsOnce DEF IntakeInv
    <3>3. IntakeTyped'
      BY <1>0, <3>1, CallKeepsTyped DEF IntakeInv, IntakeTyped, queues
    <3>4. SlotsHoldMessages'
      BY <1>0, <3>1, CallKeepsSlots DEF IntakeInv, SlotsHoldMessages, queues
    <3> QED
      BY <3>2, <3>3, <3>4 DEF IntakeInv
  <2>3. CASE Ack(s) \/ Reject(s)
    BY <1>0, <2>3, <2>a DEF Ack, Reject, Release
  <2>4. CASE DeadLetter(s) \/ Retry(s)
    <3>1. CallThrows(s) /\ session = "open" /\ session' = session
      BY <2>4 DEF DeadLetter, Retry
    <3>2. delivery[s] \in Deliveries /\ delivery[s] # Idle
      BY <3>1 DEF CallThrows, Calls, IntakeInv, IntakeTyped, Idle
    <3>3. inHand[s] \in Messages
      BY <3>1, <3>2, HeldIsMessage
    <3>4. dispatched' \in [Events -> Nat]
      BY <3>1, ThrowKeepsTyped DEF IntakeInv
    <3>5. CASE DeadLetter(s)
      <4>1. /\ delivery' = [delivery EXCEPT ![s] = Idle]
            /\ inHand' = [inHand EXCEPT ![s] = Nothing]
            /\ UNCHANGED <<queue, retrying>>
        BY <3>5 DEF DeadLetter, Release
      <4>2. Once'
        BY <3>1, <4>1, ThrowKeepsOnce DEF IntakeInv, IntakeTyped, Idle
      <4>3. SlotsHoldMessages'
        BY <1>0, <3>1, <4>1 DEF IntakeInv, IntakeTyped, SlotsHoldMessages
      <4> QED
        BY <1>0, <3>4, <4>1, <4>2, <4>3 DEF IntakeInv, IntakeTyped, Idle
    <3>6. CASE Retry(s)
      <4>1. /\ delivery' = [delivery EXCEPT ![s].stage = "answered"]
            /\ retrying' = Put(retrying, Retried(inHand[s]))
            /\ inHand[s].retries < MaxRetries
            /\ UNCHANGED <<queue, inHand>>
        BY <3>6 DEF Retry, MoveTo
      <4>2. Retried(inHand[s]) \in Messages
        BY <3>3, <4>1 DEF Retried, Messages
      <4>3. QueuesTyped'
        <5>1. DOMAIN retrying' \subseteq Messages
          BY <1>0, <4>1, <4>2, PutDomain
        <5> QED
          BY <1>0, <4>1, <5>1
      <4>4. delivery' \in [Slots -> {Idle} \union Deliveries]
        BY <3>2, <4>1 DEF IntakeInv, IntakeTyped, Deliveries, Stages
      <4>5. delivery'[s].stage = "answered" /\ \A t \in Slots \ {s} : delivery'[t] = delivery[t]
        BY <3>2, <4>1 DEF IntakeInv, IntakeTyped, Deliveries
      <4>6. Once'
        BY <3>1, <4>5, ThrowKeepsOnce DEF IntakeInv
      <4>7. SlotsHoldMessages'
        BY <1>0, <3>1, <3>2, <4>1, <4>5 DEF IntakeInv, SlotsHoldMessages
      <4> QED
        BY <1>0, <3>4, <4>3, <4>4, <4>6, <4>7 DEF IntakeInv, IntakeTyped
    <3> QED
      BY <2>4, <3>5, <3>6
  <2> QED
    BY <1>2, <2>1, <2>2, <2>3, <2>4 DEF MessageStep
<1> QED
  BY <1>1, <1>2, <1>3 DEF ConsumerRuns

LEMMA RequestKeepsInv ==
  ASSUME IntakeInv, RequestRuns
  PROVE  IntakeInv'
<1> USE SlotsAssumption, ConsumerAssumption
<1>1. UNCHANGED <<queue, retrying, inHand, session>> /\ Messages' = Messages /\ Nothing' = Nothing
  BY DEF RequestRuns, ofConsumer, queues, Messages, Nothing
<1>2. PICK s \in Requests : \/ \E e \in Events : Post(s, e)
                            \/ Call(s) \/ Respond(s) \/ RespondError(s)
  BY DEF RequestRuns
<1>3. CASE Call(s)
  <2>1. Once'
    BY <1>3, CallKeepsOnce DEF IntakeInv
  <2>2. IntakeTyped'
    BY <1>1, <1>3, CallKeepsTyped DEF IntakeInv, IntakeTyped
  <2>3. SlotsHoldMessages'
    BY <1>1, <1>3, CallKeepsSlots DEF IntakeInv, SlotsHoldMessages
  <2> QED
    BY <2>1, <2>2, <2>3 DEF IntakeInv
<1>4. ASSUME NEW d \in {Idle} \union Deliveries, d.stage \notin {"measure", "dispatch"},
             delivery' = [delivery EXCEPT ![s] = d],
             UNCHANGED shared \/ CallThrows(s)
      PROVE  IntakeInv'
  <2>1. Once'
    BY <1>4, QuietKeepsOnce, ThrowKeepsOnce DEF IntakeInv, IntakeTyped
  <2>2. IntakeTyped'
    BY <1>1, <1>4, ThrowKeepsTyped DEF IntakeInv, IntakeTyped, shared, database
  <2>3. SlotsHoldMessages'
    BY <1>1, <1>4 DEF IntakeInv, IntakeTyped, SlotsHoldMessages
  <2> QED
    BY <2>1, <2>2, <2>3 DEF IntakeInv
<1>5. CASE \E e \in Events : Post(s, e)
  BY <1>4, <1>5, AcceptedTyped DEF Post
<1>6. CASE Respond(s) \/ RespondError(s)
  BY <1>4, <1>6 DEF Respond, RespondError, Idle
<1> QED
  BY <1>2, <1>3, <1>5, <1>6

(* The process stops: every slot is empty afterwards.                       *)
LEMMA StopKeepsInv ==
  ASSUME IntakeInv, Crash \/ UnhandledRejection
  PROVE  IntakeInv'
<1> USE ConsumerAssumption
<1>1. delivery' = [s \in Slots |-> Idle]
  BY DEF Crash, UnhandledRejection, Stops
<1>2. SlotsHoldMessages'
  BY <1>1 DEF SlotsHoldMessages
<1>3. CASE Crash
  <2>1. UNCHANGED database /\ Requeue
    BY <1>3 DEF Crash
  <2>2. Once'
    BY <1>1, <2>1 DEF database, IntakeInv, Once, NotifiedAtMostOnce, OneFreshDelivery,
                      DispatchesAreFresh, Unnotified, At, Idle
  <2> QED
    BY <1>1, <1>2, <2>1, <2>2, RequeueTyped DEF database, IntakeInv, IntakeTyped, Messages, Nothing
<1>4. CASE UnhandledRejection
  <2>1. PICK s \in Consumers : CannotAnswer(s)
    BY <1>4 DEF UnhandledRejection
  <2>2. UNCHANGED <<queue, retrying, inHand>>
    BY <1>4 DEF UnhandledRejection, queues
  <2>3. \A t \in Slots : delivery'[t].stage \notin {"measure", "dispatch"}
    BY <1>1 DEF Idle
  <2>4. UNCHANGED shared \/ CallThrows(s)
    BY <2>1 DEF CannotAnswer
  <2>5. Once'
    BY <2>3, <2>4, QuietKeepsOnce, ThrowKeepsOnce DEF IntakeInv
  <2>6. dispatched' \in [Events -> Nat]
    BY <2>4, ThrowKeepsTyped DEF IntakeInv, IntakeTyped, shared, database
  <2> QED
    BY <1>1, <1>2, <2>2, <2>5, <2>6 DEF IntakeInv, IntakeTyped, Messages, Nothing
<1> QED
  BY <1>3, <1>4

-----------------------------------------------------------------------------
(* The inductive invariant holds always: deliveries and messages are well   *)
(* typed, slots hold what they handle, and of the deliveries of an event at *)
(* most one will notify, and only if none has.                              *)
THEOREM IntakeInvariant == Spec => []IntakeInv
<1>1. Init => IntakeInv
  <2> SUFFICES ASSUME Init PROVE IntakeInv
    OBVIOUS
  <2>1. IntakeTyped
    BY DEF Init, PullerInit, ConsumerInit, PipelineInit, IntakeTyped, EmptyBag, SetToBag
  <2>2. SlotsHoldMessages
    BY ConsumerAssumption DEF Init, PullerInit, PipelineInit, SlotsHoldMessages
  <2>3. Once
    BY DEF Init, PullerInit, PipelineInit, Once, NotifiedAtMostOnce, OneFreshDelivery,
           DispatchesAreFresh, Unnotified, At, Idle
  <2> QED
    BY <2>1, <2>2, <2>3 DEF IntakeInv
<1>2. IntakeInv /\ [Next]_vars => IntakeInv'
  <2> SUFFICES ASSUME IntakeInv, [Next]_vars PROVE IntakeInv'
    OBVIOUS
  <2>1. CASE UNCHANGED vars
    <3>1. UNCHANGED <<pipeline, queue, retrying, inHand, session>>
      BY <2>1 DEF vars, ofConsumer, queues
    <3> QED
      BY <3>1 DEF pipeline, shared, database, IntakeInv, IntakeTyped, Messages, Nothing,
                  SlotsHoldMessages, Once, NotifiedAtMostOnce, OneFreshDelivery,
                  DispatchesAreFresh, Unnotified, At
  <2> QED
    BY <2>1, PullerKeepsInv, ConsumerKeepsInv, RequestKeepsInv, StopKeepsInv DEF Next
<1> QED
  BY <1>1, <1>2, PTL DEF Spec

(* However many deliveries of an event are in progress over the queue, the  *)
(* puller and HTTP, and whatever fails, is retried, redelivered, replayed   *)
(* or restarted, at most one notification of it is dispatched.              *)
THEOREM NotifiedOnce == Spec => []NotifiedAtMostOnce
<1>1. IntakeInv => NotifiedAtMostOnce
  BY DEF IntakeInv, Once
<1> QED
  BY <1>1, IntakeInvariant, PTL

(* The links hold at every moment: one fresh delivery per event, dispatches *)
(* by fresh deliveries only, and slots that hold what they handle.          *)
THEOREM OneWillNotify == Spec => [](OneFreshDelivery /\ DispatchesAreFresh /\ SlotsHoldMessages)
<1>1. IntakeInv => OneFreshDelivery /\ DispatchesAreFresh /\ SlotsHoldMessages
  BY DEF IntakeInv, Once
<1> QED
  BY <1>1, IntakeInvariant, PTL

-----------------------------------------------------------------------------
(* Side by side.  What a channel does leaves the slots of the others alone, *)
(* and takes nothing back that is measured: the invariants of the puller    *)
(* and of the consumer survive each other's steps and those of HTTP.        *)
LeavesAlone(S) ==
  /\ measured \subseteq measured'
  /\ crashes' = crashes
  /\ \A s \in S : delivery'[s] = delivery[s]

LEMMA CallLeavesAlone ==
  ASSUME IntakeTyped, NEW s \in Slots, Call(s)
  PROVE  LeavesAlone(Slots \ {s})
<1>1. measured \subseteq measured' /\ crashes' = crashes
  BY DEF Call, IngestAlert, ProcessAlert, RefreshImpact, Dispatch
<1> QED
  BY <1>1, CallKeepsSlots DEF LeavesAlone

LEMMA PullerLeavesAlone ==
  ASSUME IntakeTyped, PullerRuns
  PROVE  LeavesAlone(Slots \ {Puller})
<1>1. CASE Deliver
  BY <1>1, CallLeavesAlone, PullerAssumption DEF Deliver
<1>2. CASE UNCHANGED pipeline
  BY <1>2 DEF pipeline, shared, database, LeavesAlone
<1>3. CASE TakeItem \/ Advance
  <2>1. UNCHANGED <<measured, crashes>>
    BY <1>3 DEF TakeItem, Advance, shared, database
  <2>2. \/ delivery' = delivery
        \/ delivery' = [delivery EXCEPT ![Puller] = Accepted(Item.event)]
        \/ delivery' = [delivery EXCEPT ![Puller] = Idle]
    BY <1>3 DEF TakeItem, Advance
  <2>3. \A s \in Slots \ {Puller} : delivery'[s] = delivery[s]
    BY <2>2 DEF IntakeTyped
  <2> QED
    BY <2>1, <2>3 DEF LeavesAlone
<1>4. CASE PollFails
  <2>1. measured' = measured /\ crashes' = crashes
    BY <1>4 DEF PollFails, CallThrows, shared, database
  <2>2. delivery' = [delivery EXCEPT ![Puller] = Idle]
    BY <1>4 DEF PollFails, EndPoll
  <2> QED
    BY <2>1, <2>2 DEF LeavesAlone
<1> QED
  BY <1>1, <1>2, <1>3, <1>4
  DEF PullerRuns, PullStep, SourceStep, Record, Restore, Boot, Timer, FetchPage, NothingNew,
      DetectReset, SaveReset, SaveCursor

LEMMA ConsumerLeavesAlone ==
  ASSUME IntakeTyped, ConsumerRuns
  PROVE  LeavesAlone(Slots \ Consumers)
<1>1. CASE UNCHANGED pipeline
  BY <1>1 DEF pipeline, shared, database, LeavesAlone
<1>2. CASE LoseConnection
  BY <1>2 DEF LoseConnection, shared, database, LeavesAlone
<1>3. ASSUME NEW s \in Consumers, MessageStep(s)
      PROVE  LeavesAlone(Slots \ Consumers)
  <2>1. CASE Handle(s)
    BY <2>1, CallLeavesAlone, ConsumerAssumption DEF Handle, LeavesAlone
  <2>2. CASE ~Handle(s)
    <3>1. UNCHANGED <<measured, crashes>>
      BY <1>3, <2>2
      DEF MessageStep, Receive, Ack, Reject, DeadLetter, Retry, CallThrows, shared, database
    <3>2. \A t \in Slots \ {s} : delivery'[t] = delivery[t]
      BY <1>3, <2>2
      DEF MessageStep, Receive, Ack, Reject, DeadLetter, Retry, Release, MoveTo, IntakeTyped
    <3> QED
      BY <3>1, <3>2 DEF LeavesAlone
  <2> QED
    BY <2>1, <2>2
<1> QED
  BY <1>1, <1>2, <1>3 DEF ConsumerRuns, QueueStep, Publish, Expire, Start

LEMMA RequestLeavesAlone ==
  ASSUME IntakeTyped, RequestRuns
  PROVE  LeavesAlone(Slots \ Requests)
<1>1. PICK s \in Requests : \/ \E e \in Events : Post(s, e)
                            \/ Call(s) \/ Respond(s) \/ RespondError(s)
  BY DEF RequestRuns
<1>2. CASE Call(s)
  BY <1>2, CallLeavesAlone, SlotsAssumption DEF LeavesAlone
<1>3. CASE ~Call(s)
  <2>1. UNCHANGED <<measured, crashes>>
    BY <1>1, <1>3 DEF Post, Respond, RespondError, CallThrows, shared, database
  <2>2. \A t \in Slots \ {s} : delivery'[t] = delivery[t]
    BY <1>1, <1>3 DEF Post, Respond, RespondError, IntakeTyped
  <2> QED
    BY <2>1, <2>2 DEF LeavesAlone
<1> QED
  BY <1>2, <1>3

-----------------------------------------------------------------------------
(* The puller beside the other channels.                                    *)
LEMMA OthersKeepPullerInv ==
  ASSUME PullerInv, UNCHANGED ofPuller, LeavesAlone({Puller}),
         delivery' \in [Slots -> {Idle} \union Deliveries]
  PROVE  PullerInv'
<1>1. /\ UNCHANGED <<outbox, stored, cursor, page, pull>>
      /\ measured \subseteq measured' /\ delivery'[Puller] = delivery[Puller]
  BY DEF ofPuller, source, poll, LeavesAlone
<1>2. PullerTyped' /\ PageFollowsCursor' /\ PageIsOutbox'
  BY <1>1 DEF PullerInv, PullerTyped, PageFollowsCursor, Behind, PageIsOutbox
<1>3. DeliversItem'
  BY <1>1 DEF PullerInv, DeliversItem, Item, Settled
<1>4. CursorsSettled'
  BY <1>1 DEF PullerInv, CursorsSettled, SettledTo, Settled
<1> QED
  BY <1>2, <1>3, <1>4 DEF PullerInv

LEMMA NextKeepsPullerInv ==
  ASSUME PullerInv, IntakeInv, IntakeInv', RegrowthWaits, [Next]_vars
  PROVE  PullerInv'
<1>0. IntakeTyped /\ delivery' \in [Slots -> {Idle} \union Deliveries]
  BY DEF IntakeInv, IntakeTyped
<1>1. CASE PullerRuns
  BY <1>1, StepKeepsPullerInv DEF PullerRuns, PullerNext
<1>2. CASE ConsumerRuns \/ RequestRuns
  <2>1. LeavesAlone({Puller}) /\ UNCHANGED ofPuller
    BY <1>0, <1>2, ConsumerLeavesAlone, RequestLeavesAlone, SlotsAssumption, PullerAssumption
    DEF LeavesAlone, ConsumerRuns, RequestRuns
  <2> QED
    BY <1>0, <2>1, OthersKeepPullerInv
<1>3. CASE Crash \/ UnhandledRejection
  <2>1. Stops /\ UNCHANGED measured
    BY <1>3 DEF Crash, UnhandledRejection, CannotAnswer, CallThrows, shared, database
  <2>2. delivery'[Puller] = Idle
    BY <2>1, PullerAssumption DEF Stops
  <2> QED
    BY <1>0, <2>1, <2>2, PollOverKeepsPullerInv DEF Stops, source
<1>4. CASE UNCHANGED vars
  BY <1>0, <1>4, OthersKeepPullerInv
  DEF vars, pipeline, shared, database, LeavesAlone
<1> QED
  BY <1>1, <1>2, <1>3, <1>4 DEF Next

(* The puller skips no valid event, also while the queue and HTTP deliver   *)
(* the same events and the process stops with any of its channels: provided *)
(* that a restored outbox reuses no cursor before the restore is noticed.   *)
THEOREM SkipsNothingInCompany == RegrowthWaits /\ Spec => []NothingSkipped
<1>1. Init => PullerInv
  BY PullerInvAtFirst DEF Init
<1>2. PullerInv /\ IntakeInv /\ IntakeInv' /\ RegrowthWaits /\ [Next]_vars => PullerInv'
  BY NextKeepsPullerInv
<1>3. RegrowthWaits => []RegrowthWaits
  OBVIOUS
<1> QED
  BY <1>1, <1>2, <1>3, IntakeInvariant, PullerInvSkipsNothing, PTL DEF Spec

-----------------------------------------------------------------------------
(* The consumer beside the other channels.                                  *)
QueueInv == RetriedInv /\ CopiesInv

LEMMA OthersKeepQueueInv ==
  ASSUME QueueInv, UNCHANGED ofConsumer, LeavesAlone(Consumers),
         delivery' \in [Slots -> {Idle} \union Deliveries]
  PROVE  QueueInv'
<1>1. /\ UNCHANGED <<published, queue, retrying, dead, inHand, session, failures, losses, crashes>>
      /\ measured \subseteq measured'
      /\ \A s \in Consumers : delivery'[s] = delivery[s]
  BY DEF ofConsumer, queues, LeavesAlone
<1>2. ConsumerInv'
  <2>1. ConsumerTyped'
    BY <1>1 DEF QueueInv, RetriedInv, ConsumerInv, ConsumerTyped, Messages, Nothing
  <2>2. Handlers'
    BY <1>1
    DEF QueueInv, RetriedInv, ConsumerInv, Handlers, HandlersHold, FinishedAreSettled,
        AnsweredHaveCopies, At, Settled, Nothing
  <2>3. Carried' = Carried
    BY <1>1 DEF Carried, InHands, Held, Nothing
  <2>4. NothingLost'
    BY <1>1, <2>3, CarriedIsNotLost DEF QueueInv, RetriedInv, ConsumerInv
  <2> QED
    BY <2>1, <2>2, <2>4 DEF ConsumerInv
<1>3. RetriedInv'
  <2>1. RejectsInvalid'
    BY <1>1 DEF QueueInv, RetriedInv, RejectsInvalid, At
  <2>2. Waiting' = Waiting
    BY <1>1 DEF Waiting, InHands, Held, Nothing
  <2>3. FailuresTyped' /\ CountedRetries' /\ DeadLettersWereRetried'
    BY <1>1, <1>2, <2>2, NothingGivenUp DEF QueueInv
  <2> QED
    BY <1>2, <2>1, <2>3 DEF RetriedInv
<1>4. CopiesInv'
  <2>1. CountsTyped' /\ AllPublished' /\ Held' = Held
    BY <1>1 DEF QueueInv, CopiesInv, CountsTyped, AllPublished, Carried, InHands, Held, Nothing
  <2>2. OneAnswered' /\ \A e : SlotsWith(e)' = SlotsWith(e)
    <3>1. \A s \in Consumers : At(s, "answered")' <=> At(s, "answered")
      BY <1>1 DEF At
    <3>2. OneAnswered'
      BY <1>1, <2>1, <3>1 DEF QueueInv, CopiesInv, OneAnswered
    <3>3. Unanswered' = Unanswered
      BY <2>1, <3>1 DEF Unanswered, Held
    <3> QED
      BY <1>1, <3>2, <3>3 DEF SlotsWith
  <2>3. OneCopyPerFault'
    BY <1>1, <2>2, NoMoreCopies DEF QueueInv, CopiesOf
  <2> QED
    BY <1>2, <2>1, <2>2, <2>3 DEF CopiesInv
<1> QED
  BY <1>3, <1>4 DEF QueueInv

(* The process stops with all its channels, by a crash of whichever one is  *)
(* up or by an answer that fails.                                          *)
LEMMA CrashKeepsQueueInv ==
  ASSUME QueueInv, Crash
  PROVE  QueueInv'
<1>1. /\ Requeue /\ session' = "down" /\ crashes' = crashes + 1
      /\ UNCHANGED <<measured, published, failures, losses>>
      /\ delivery' = [s \in Slots |-> Idle]
  BY DEF Crash, Stops, CountCrash, database
<1>2. /\ delivery' \in [Slots -> {Idle} \union Deliveries]
      /\ \A s \in Consumers : delivery'[s] = Idle
  BY <1>1, ConsumerAssumption
<1>3. ConsumerInv'
  BY <1>1, <1>2, RequeueKeepsInv DEF QueueInv, RetriedInv
<1>4. RejectsInvalid'
  BY <1>2 DEF RejectsInvalid, At, Idle
<1>5. FailuresTyped' /\ CountedRetries' /\ DeadLettersWereRetried'
  BY <1>1, <1>3, RequeueGivesNothingUp DEF QueueInv
<1>6. \A s \in Consumers : delivery'[s].stage # "answered"
  BY <1>2 DEF Idle
<1>7. CountsTyped' /\ AllPublished' /\ OneAnswered' /\ OneCopyPerFault'
  BY <1>1, <1>6, RequeueCopies DEF QueueInv
<1> QED
  BY <1>3, <1>4, <1>5, <1>7 DEF QueueInv, RetriedInv, CopiesInv

LEMMA RejectionKeepsQueueInv ==
  ASSUME QueueInv, UnhandledRejection
  PROVE  QueueInv'
<1>1. /\ session = "lost"
      /\ UNCHANGED <<measured, crashes, published, queue, retrying, dead, inHand, failures, losses>>
      /\ delivery' = [s \in Slots |-> Idle]
  BY DEF UnhandledRejection, CannotAnswer, CallThrows, Stops, queues, shared, database
<1>2. /\ delivery' \in [Slots -> {Idle} \union Deliveries]
      /\ \A s \in Consumers : delivery'[s] = Idle
  BY <1>1, ConsumerAssumption
<1>3. ConsumerInv'
  BY <1>1, <1>2, QuitKeepsInv DEF QueueInv, RetriedInv
<1>4. RejectsInvalid'
  BY <1>2 DEF RejectsInvalid, At, Idle
<1>5. FailuresTyped' /\ CountedRetries' /\ DeadLettersWereRetried'
  <2>1. Waiting' = Waiting
    BY <1>1 DEF Waiting, InHands, Held, Nothing
  <2> QED
    BY <1>1, <1>3, <2>1, NothingGivenUp DEF QueueInv
<1>6. CountsTyped' /\ AllPublished' /\ OneAnswered' /\ OneCopyPerFault'
  BY <1>1, <1>2, StillCopies DEF QueueInv
<1> QED
  BY <1>3, <1>4, <1>5, <1>6 DEF QueueInv, RetriedInv, CopiesInv

LEMMA NextKeepsQueueInv ==
  ASSUME QueueInv, IntakeInv, IntakeInv', [Next]_vars
  PROVE  QueueInv'
<1>0. IntakeTyped /\ delivery' \in [Slots -> {Idle} \union Deliveries]
  BY DEF IntakeInv, IntakeTyped
<1>1. CASE ConsumerRuns
  <2>1. ConsumerNext
    BY <1>1 DEF ConsumerRuns, ConsumerNext, ConsumerStep
  <2> QED
    BY <2>1, RetriedStep, CopiesStep DEF QueueInv
<1>2. CASE PullerRuns \/ RequestRuns
  <2>1. LeavesAlone(Consumers) /\ UNCHANGED ofConsumer
    BY <1>0, <1>2, PullerLeavesAlone, RequestLeavesAlone, SlotsAssumption, ConsumerAssumption
    DEF LeavesAlone, PullerRuns, RequestRuns
  <2> QED
    BY <1>0, <2>1, OthersKeepQueueInv
<1>3. CASE Crash \/ UnhandledRejection
  BY <1>3, CrashKeepsQueueInv, RejectionKeepsQueueInv
<1>4. CASE UNCHANGED vars
  BY <1>0, <1>4, OthersKeepQueueInv DEF vars, pipeline, shared, database, LeavesAlone
<1> QED
  BY <1>1, <1>2, <1>3, <1>4 DEF Next

(* What the retries of the consumer promise alone holds beside the puller   *)
(* and HTTP, and over crashes that stop them all: no message is lost, none  *)
(* is given up before its last retry, and copies do not outnumber faults.   *)
THEOREM QueueKeepsItsPromises ==
  Spec => [](MessageNotLost /\ DeadLettersWereRetried /\ OneCopyPerFault)
<1>1. Init => QueueInv
  BY RetriedAtFirst, CopiesAtFirst DEF Init, QueueInv
<1>2. QueueInv /\ IntakeInv /\ IntakeInv' /\ [Next]_vars => QueueInv'
  BY NextKeepsQueueInv
<1>3. QueueInv => MessageNotLost /\ DeadLettersWereRetried /\ OneCopyPerFault
  BY NothingLostIsMessageNotLost DEF QueueInv, RetriedInv, ConsumerInv, CopiesInv
<1> QED
  BY <1>1, <1>2, <1>3, IntakeInvariant, PTL DEF Spec
=============================================================================
