----------------------------- MODULE UsageHistory -----------------------------
(***************************************************************************)
(* The usage tables of tokens_usage.db: the raw rows, which a retention     *)
(* removes, and the hourly and lifetime counters, which outlive them and    *)
(* feed the statistics.  The tables are made and filled from older rows at  *)
(* start (_init_db), the accounting schema is migrated version by version   *)
(* (accounting_schema.py), an event is accepted in one transaction and may  *)
(* be delivered again at any time.  A statement may fail, a commit may fail *)
(* with or without its effect, the process may die between any two steps.   *)
(***************************************************************************)
EXTENDS Naturals, FiniteSets

CONSTANTS Legacy,          \* rows written before there were events
          Events,          \* accounting events
          Hours,           \* 1..n, bound: hours of the clock
          RetentionHours,  \* how long a raw row is kept
          MaxDeaths,       \* bound: deaths of the process
          MaxDbFaults      \* bound: calls of the database that fail

NoEvent == 0
ASSUME HistoryAssumption ==
  /\ IsFiniteSet(Legacy) /\ IsFiniteSet(Events) /\ Legacy \cap Events = {} /\ Events # {} /\ NoEvent \notin Events
  /\ Hours \subseteq Nat /\ 1 \in Hours /\ RetentionHours \in Nat /\ MaxDeaths \in Nat /\ MaxDbFaults \in Nat

VARIABLE uh    \* db: what is committed; tx: the open transaction's view of it, or db; pc: the process; event: the one being
               \* accepted; answer: to the last delivery; acked: the events whose delivery was answered well; hour: the one
               \* each row is from; migrated: the component rows the migration promised; now: the hour; deaths; faults

Rows == Legacy \cup Events
NoRows == {<<NoEvent, 0>>}
\* schema: the migrations applied; agg: the counters' tables exist; raw: the raw rows; outbox: the accepted events,
\* projected: those of them that were projected; parts: the component rows, an event and the version of their layout
NewDb(schema, outbox) ==
  [schema |-> schema, agg |-> FALSE, raw |-> Legacy \cup outbox, outbox |-> outbox, projected |-> {}, parts |-> outbox \X {1},
   hourly |-> [h \in Hours |-> 0], life |-> 0]
\* An installation without events, or one that an earlier version left with one.
UHInit ==
  \E schema \in {0, 1}, outbox \in {{}, {CHOOSE e \in Events : TRUE}}, hour \in [Rows -> Hours] :
    /\ schema = 0 => outbox = {}
    /\ \A r \in Legacy \cup outbox : hour[r] = 1
    /\ LET db == NewDb(schema, outbox)
       IN uh = [db |-> db, tx |-> db, pc |-> "off", event |-> NoEvent, answer |-> "none", acked |-> {}, hour |-> hour,
                migrated |-> NoRows, now |-> 1, deaths |-> 0, faults |-> 0]

Tick == \E h \in Hours : h = uh.now + 1 /\ uh' = [uh EXCEPT !.now = h]
InTransaction(pc, tx) == [uh EXCEPT !.pc = pc, !.tx = tx]
Committed(pc, db) == [uh EXCEPT !.pc = pc, !.db = db, !.tx = db]
DbFault == uh.faults < MaxDbFaults

-----------------------------------------------------------------------------
(* The start.                                                              *)

\* CREATE TABLE commits by itself.
CreateTables == uh.pc = "off" /\ uh' = Committed("hourly", [uh.db EXCEPT !.agg = TRUE])
InHour(rows, h) == Cardinality({r \in rows : uh.hour[r] = h})
\* The counters are filled from the raw rows, once: while they are empty.
BackfillHourly ==
  /\ uh.pc = "hourly"
  /\ LET empty == \A h \in Hours : uh.tx.hourly[h] = 0
         filled == [uh.tx EXCEPT !.hourly = [h \in Hours |-> InHour(uh.tx.raw, h)]]
     IN uh' = InTransaction("lifetime", IF empty THEN filled ELSE uh.tx)
BackfillLifetime ==
  /\ uh.pc = "lifetime"
  /\ uh' = InTransaction("init", IF uh.tx.life = 0 THEN [uh.tx EXCEPT !.life = Cardinality(uh.tx.raw)] ELSE uh.tx)
CommitInit == uh.pc = "init" /\ uh' = Committed("migrate", uh.tx)

\* _run_versioned_migrations: the versions that are missing, in one transaction.
BeginMigration == uh.pc = "migrate" /\ uh' = InTransaction("apply", uh.db)
Layout(db, version) == db.schema = version /\ \A p \in db.parts : p[2] = version
ApplyV1 == uh.pc = "apply" /\ uh.tx.schema = 0 /\ uh' = InTransaction("apply", [uh.tx EXCEPT !.schema = 1])
\* The component rows go through a table of the new layout.
ApplyV2 ==
  /\ uh.pc = "apply" /\ Layout(uh.tx, 1)
  /\ LET rows == {<<p[1], 2>> : p \in uh.tx.parts}
     IN uh' = [InTransaction("apply", [uh.tx EXCEPT !.schema = 2, !.parts = rows]) EXCEPT !.migrated = rows]
CommitMigration == uh.pc = "apply" /\ uh.tx.schema = 2 /\ uh' = Committed("verify", uh.tx)
VerifySchema ==
  /\ uh.pc = "verify" /\ Layout(uh.db, 2) /\ uh.migrated \in {NoRows, uh.db.parts}
  /\ uh' = [uh EXCEPT !.pc = "on", !.migrated = NoRows]
\* A failed statement rolls back and ends the start; a failed commit may have taken effect.
StartFails ==
  /\ DbFault /\ uh.pc \in {"hourly", "lifetime", "init", "migrate", "apply", "verify"}
  /\ \E db \in {uh.db} \cup IF uh.pc = "init" \/ (uh.pc = "apply" /\ uh.tx.schema = 2) THEN {uh.tx} ELSE {} :
       uh' = [Committed("off", db) EXCEPT !.migrated = NoRows, !.faults = @ + 1]

-----------------------------------------------------------------------------
(* accept_accounting_event, one transaction at a time.                     *)

DeliveryAnswered(after, e, answer) ==
  [after EXCEPT !.event = NoEvent, !.answer = answer,
                !.acked = IF answer \in {"accepted", "recovered", "duplicate"} THEN @ \cup {e} ELSE @]
\* The answer to an event that is stored already: by its row, or after the
\* retention by the outbox, which must then say that it was projected.
Stored(e) == IF e \in uh.db.raw \cup uh.db.projected THEN "duplicate" ELSE "conflict"
Duplicate(e) == uh.pc = "on" /\ e \in uh.db.outbox /\ uh' = DeliveryAnswered(uh, e, Stored(e))

InsertUsage(db, e) == [db EXCEPT !.raw = @ \cup {e}]
InsertOutbox(db, e) == [db EXCEPT !.outbox = @ \cup {e}]
InsertManifests(db, e) == [db EXCEPT !.parts = @ \cup {<<e, 2>>}]
Fold(db, e) == [db EXCEPT !.hourly[uh.hour[e]] = @ + 1, !.life = @ + 1]
WriteEvent(e) ==
  /\ uh.pc = "on" /\ e \notin uh.db.outbox /\ uh.hour[e] <= uh.now
  /\ uh' = [InTransaction("commit", Fold(InsertManifests(InsertOutbox(InsertUsage(uh.db, e), e), e), e)) EXCEPT !.event = e]
CommitEvent == uh.pc = "commit" /\ uh' = DeliveryAnswered(Committed("on", uh.tx), uh.event, "accepted")
\* A statement failed: the transaction is rolled back.
WriteFails ==
  uh.pc = "commit" /\ DbFault /\ uh' = DeliveryAnswered([Committed("on", uh.db) EXCEPT !.faults = @ + 1], uh.event, "failed")
\* The commit raised, with or without its effect: another connection looks.
CommitRaises ==
  /\ uh.pc = "commit" /\ DbFault
  /\ \E db \in {uh.db, uh.tx} : uh' = [Committed("recover", db) EXCEPT !.faults = @ + 1]
RecoverEvent ==
  /\ uh.pc = "recover"
  /\ LET answer == IF uh.event \in uh.db.outbox THEN "recovered" ELSE "failed"
     IN uh' = DeliveryAnswered([uh EXCEPT !.pc = "on"], uh.event, answer)
RecoverFails ==
  uh.pc = "recover" /\ DbFault /\ uh' = DeliveryAnswered([uh EXCEPT !.pc = "on", !.faults = @ + 1], uh.event, "failed")

\* A pending event is projected, and marked if its row can be read; a mark that
\* was not written leaves it pending.
Pending == uh.db.outbox \ uh.db.projected
Project(e) ==
  /\ uh.pc = "on" /\ e \in Pending \cap uh.db.raw
  /\ uh' = Committed("on", [uh.db EXCEPT !.projected = @ \cup {e}])

Old(r) == uh.hour[r] + RetentionHours < uh.now
\* mutant: old rows go whether or not their event was projected
RetireAll == uh.pc = "on" /\ uh' = Committed("on", [uh.db EXCEPT !.raw = {r \in @ : ~Old(r)}])

\* cleanup_old_records: old rows go, those of an event once it was projected.
Retire ==
  uh.pc = "on" /\ uh' = Committed("on", [uh.db EXCEPT !.raw = {r \in @ : ~Old(r) \/ r \in Events \ uh.db.projected}])

\* The process dies; an open transaction is gone with it.
ProcessDies ==
  /\ uh.pc # "off" /\ uh.deaths < MaxDeaths
  /\ uh' = [Committed("off", uh.db) EXCEPT !.event = NoEvent, !.answer = "none", !.migrated = NoRows, !.deaths = @ + 1]

StartStep ==
  \/ CreateTables \/ BackfillHourly \/ BackfillLifetime \/ CommitInit
  \/ BeginMigration \/ ApplyV1 \/ ApplyV2 \/ CommitMigration \/ VerifySchema \/ StartFails
UHNext ==
  \/ Tick \/ StartStep \/ CommitEvent \/ WriteFails \/ CommitRaises \/ RecoverEvent \/ RecoverFails \/ Retire \/ ProcessDies
  \/ \E e \in Events : Duplicate(e) \/ WriteEvent(e) \/ Project(e)
UHSpec == UHInit /\ [][UHNext]_uh

-----------------------------------------------------------------------------
(* What the statistics and the reconciliation read.                        *)

Timeline(h) == uh.db.hourly[h]          \* get_dashboard_usage without a filter
Lifetime == uh.db.life                  \* get_lifetime_totals
Records(h) == InHour(uh.db.raw, h)      \* its summary
PendingReadable == Pending \subseteq uh.db.raw   \* list_pending_accounting_events: else it raises

\* Every row there ever was is counted once in its hour and once for all time,
\* whatever the retention removed, however often an event was delivered, wherever
\* a statement failed or the process died; the timeline covers the rows that are
\* left; an event whose delivery was answered well is stored for ever and always
\* recognised again; one that is still to be projected can be read; and no start
\* is refused for what an interrupted migration left.
HistoryKept ==
  /\ uh.pc \in {"migrate", "apply", "verify", "on", "commit", "recover"} =>
       /\ \A h \in Hours : Timeline(h) = InHour(Legacy \cup uh.db.outbox, h) /\ Timeline(h) >= Records(h)
       /\ Lifetime = Cardinality(Legacy \cup uh.db.outbox)
  /\ uh.answer # "conflict"
  /\ uh.acked \subseteq uh.db.outbox
  /\ PendingReadable
  /\ uh.pc = "apply" => uh.tx.schema = 0 \/ Layout(uh.tx, uh.tx.schema)
  /\ uh.pc = "verify" => Layout(uh.db, 2) /\ uh.migrated \in {NoRows, uh.db.parts}
=============================================================================
