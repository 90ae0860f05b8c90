---------------------------- MODULE StorageProofs ----------------------------
(***************************************************************************)
(* What survives failures of the disk, the process and the machine, for any *)
(* number of processes, files, events, failed calls and crashes.            *)
(***************************************************************************)
EXTENDS UsageHistory, SystemdMigration, ImageVolume, Lifespan, FiniteSetTheorems, TLAPS

-----------------------------------------------------------------------------
(***************************************************************************)
(* The usage history.  The invariant says, of every place of the process,   *)
(* what the committed tables hold and how the open transaction differs from *)
(* them: before the backfill the counters are right or still empty beside   *)
(* all the rows, and a transaction that may yet be committed is right       *)
(* itself.                                                                  *)
(***************************************************************************)

PartRows == SUBSET (Events \X {1, 2})
Db == [schema : 0..2, agg : BOOLEAN, raw : SUBSET Rows, outbox : SUBSET Events, projected : SUBSET Events,
       parts : PartRows, hourly : [Hours -> Nat], life : Nat]
Starting == {"off", "hourly", "lifetime", "init"}
Ready == {"migrate", "apply", "verify", "on", "commit", "recover"}
ComponentRows == SUBSET ((Events \cup {NoEvent}) \X (0..2))
UHState ==
  [db : Db, tx : Db, pc : Starting \cup Ready, event : Events \cup {NoEvent},
   answer : {"none", "accepted", "recovered", "duplicate", "failed"}, acked : SUBSET Events, hour : [Rows -> Hours],
   migrated : ComponentRows, now : Hours, deaths : Nat, faults : Nat]

AllRows(db) == Legacy \cup db.outbox
CountIn(hour, rows, h) == Cardinality({r \in rows : hour[r] = h})
HourlyRight(db, hour) == \A h \in Hours : db.hourly[h] = CountIn(hour, AllRows(db), h)
HourlyEmpty(db) == db.raw = AllRows(db) /\ \A h \in Hours : db.hourly[h] = 0
LifeRight(db) == db.life = Cardinality(AllRows(db))
LifeEmpty(db) == db.raw = AllRows(db) /\ db.life = 0
RowsRight(db) ==
  db.raw \subseteq AllRows(db) /\ db.outbox \ db.projected \subseteq db.raw /\ \A p \in db.parts : p[2] = db.schema
SameTables(tx, db) == tx.raw = db.raw /\ tx.outbox = db.outbox /\ tx.projected = db.projected

\* What the committed tables hold, and what the last starts and answers promised.
CommittedInv ==
  /\ RowsRight(uh.db)
  /\ uh.acked \subseteq uh.db.outbox
  /\ uh.pc \in Starting => (HourlyRight(uh.db, uh.hour) \/ HourlyEmpty(uh.db)) /\ (LifeRight(uh.db) \/ LifeEmpty(uh.db))
  /\ uh.pc \in Ready => HourlyRight(uh.db, uh.hour) /\ LifeRight(uh.db)
  /\ uh.pc \in {"verify", "on", "commit", "recover"} => uh.db.schema = 2
  /\ uh.pc = "recover" => uh.event \in Events

\* What the open transaction would commit.
TransactionInv ==
  /\ uh.pc \in {"hourly", "lifetime", "init", "apply", "commit"} => RowsRight(uh.tx)
  /\ uh.pc \in {"hourly", "lifetime", "init", "apply"} => SameTables(uh.tx, uh.db)
  /\ uh.pc = "hourly" => uh.tx = uh.db
  /\ uh.pc = "lifetime" => HourlyRight(uh.tx, uh.hour) /\ (LifeRight(uh.tx) \/ LifeEmpty(uh.tx))
  /\ uh.pc \in {"init", "apply", "commit"} => HourlyRight(uh.tx, uh.hour) /\ LifeRight(uh.tx)
  /\ uh.pc = "commit" =>
       uh.event \in Events \ uh.db.outbox /\ uh.tx.outbox = uh.db.outbox \cup {uh.event} /\ uh.tx.schema = 2

\* The rows the migration promised are the ones it wrote.
MigrationInv ==
  /\ uh.pc = "apply" => uh.migrated = NoRows \/ (uh.tx.schema = 2 /\ uh.migrated = uh.tx.parts)
  /\ uh.pc = "verify" => uh.migrated \in {NoRows, uh.db.parts}
  /\ uh.pc \notin {"apply", "verify"} => uh.migrated = NoRows

UHInv == uh \in UHState /\ CommittedInv /\ TransactionInv /\ MigrationInv

-----------------------------------------------------------------------------
(* Rows and counts.                                                        *)

\* Every set of rows is finite and has a size.
LEMMA RowsFinite ==
  ASSUME NEW S \in SUBSET Rows
  PROVE IsFiniteSet(S) /\ Cardinality(S) \in Nat
<1>1. IsFiniteSet(Rows)
  BY HistoryAssumption, FS_Union DEF Rows
<1> QED BY <1>1, FS_Subset, FS_CardinalityType

\* A row that is new counts once in its hour, and nowhere else (Fold).
LEMMA CountOneMore ==
  ASSUME NEW S \in SUBSET Rows, NEW e \in Rows \ S, NEW hour \in [Rows -> Hours], NEW h \in Hours
  PROVE /\ CountIn(hour, S \cup {e}, h) = CountIn(hour, S, h) + (IF hour[e] = h THEN 1 ELSE 0)
        /\ Cardinality(S \cup {e}) = Cardinality(S) + 1
<1> DEFINE In == {r \in S : hour[r] = h}
<1>1. IsFiniteSet(S) /\ IsFiniteSet(In) /\ Cardinality(S) \in Nat /\ Cardinality(In) \in Nat
  <2>1. In \in SUBSET Rows
    OBVIOUS
  <2> QED BY <2>1, RowsFinite
<1>2. Cardinality(S \cup {e}) = Cardinality(S) + 1
  BY <1>1, FS_AddElement
<1>3. CASE hour[e] = h
  <2>1. {r \in S \cup {e} : hour[r] = h} = In \cup {e}
    BY <1>3
  <2>2. Cardinality(In \cup {e}) = Cardinality(In) + 1
    <3>1. e \notin In
      OBVIOUS
    <3> QED BY <1>1, <3>1, FS_AddElement
  <2> QED BY <1>2, <1>3, <2>1, <2>2 DEF CountIn
<1>4. CASE hour[e] # h
  <2>1. {r \in S \cup {e} : hour[r] = h} = In
    BY <1>4
  <2>2. CountIn(hour, S \cup {e}, h) = Cardinality(In) /\ CountIn(hour, S, h) = Cardinality(In)
    BY <2>1, Zenon DEF CountIn
  <2> QED BY <1>1, <1>2, <1>4, <2>2
<1> QED BY <1>3, <1>4

\* The rows that are left in an hour are no more than all there were.
LEMMA CountMonotone ==
  ASSUME NEW S \in SUBSET Rows, NEW T \in SUBSET S, NEW hour \in [Rows -> Hours], NEW h \in Hours
  PROVE CountIn(hour, T, h) <= CountIn(hour, S, h) /\ CountIn(hour, T, h) \in Nat /\ CountIn(hour, S, h) \in Nat
<1> DEFINE InS == {r \in S : hour[r] = h}
           InT == {r \in T : hour[r] = h}
<1>1. InS \in SUBSET Rows /\ InT \in SUBSET Rows /\ InT \subseteq InS
  OBVIOUS
<1>2. IsFiniteSet(InS) /\ Cardinality(InS) \in Nat /\ Cardinality(InT) \in Nat
  BY <1>1, RowsFinite
<1>3. Cardinality(InT) <= Cardinality(InS)
  BY <1>1, <1>2, FS_Subset
<1> QED BY <1>2, <1>3 DEF CountIn

\* Counters that are right and empty have no rows: each row is in an hour.
LEMMA NothingCounted ==
  ASSUME NEW db \in Db, NEW hour \in [Rows -> Hours],
         \/ HourlyRight(db, hour) /\ \A h \in Hours : db.hourly[h] = 0
         \/ LifeRight(db) /\ db.life = 0
  PROVE AllRows(db) = {}
<1>1. AllRows(db) \in SUBSET Rows
  BY DEF AllRows, Rows, Db
<1>2. CASE LifeRight(db) /\ db.life = 0
  BY <1>1, <1>2, RowsFinite, FS_EmptySet DEF LifeRight
<1>3. CASE HourlyRight(db, hour) /\ \A h \in Hours : db.hourly[h] = 0
  <2> SUFFICES ASSUME NEW r \in AllRows(db)
               PROVE FALSE
    OBVIOUS
  <2> DEFINE In == {q \in AllRows(db) : hour[q] = hour[r]}
  <2>1. hour[r] \in Hours
    BY <1>1
  <2>2. Cardinality(In) = 0
    BY <1>3, <2>1 DEF HourlyRight, CountIn
  <2>3. IsFiniteSet(In)
    <3>1. In \in SUBSET Rows
      BY <1>1
    <3> QED BY <3>1, RowsFinite
  <2>4. In = {}
    BY <2>2, <2>3, FS_EmptySet
  <2> QED BY <2>4
<1> QED BY <1>2, <1>3

-----------------------------------------------------------------------------
(* The operators on tables and on the state.                               *)

\* The operators that the steps are made of set the fields they name and keep
\* the state's type.
LEMMA StateFields ==
  ASSUME uh \in UHState, NEW db \in Db, NEW pc \in Starting \cup Ready
  PROVE /\ InTransaction(pc, db) = [uh EXCEPT !.pc = pc, !.tx = db] /\ InTransaction(pc, db) \in UHState
        /\ Committed(pc, db) = [uh EXCEPT !.pc = pc, !.db = db, !.tx = db] /\ Committed(pc, db) \in UHState
BY DEF InTransaction, Committed, UHState

\* An answer ends the delivery; a good one is remembered.
LEMMA AnswerFields ==
  ASSUME NEW s \in UHState, NEW e \in Events, NEW a \in {"accepted", "recovered", "duplicate", "failed"}
  PROVE LET t == DeliveryAnswered(s, e, a)
        IN /\ t \in UHState
           /\ t.db = s.db /\ t.tx = s.tx /\ t.pc = s.pc /\ t.hour = s.hour /\ t.migrated = s.migrated
           /\ t.acked \subseteq s.acked \cup {e} /\ s.acked \subseteq t.acked
           /\ a = "failed" => t.acked = s.acked
BY DEF DeliveryAnswered, UHState

\* Writing an event into right tables makes right tables that hold it too.
LEMMA WrittenRight ==
  ASSUME NEW db \in Db, NEW hour \in [Rows -> Hours], NEW e \in Events \ db.outbox,
         RowsRight(db), db.schema = 2, HourlyRight(db, hour), LifeRight(db), hour = uh.hour
  PROVE LET tx == Fold(InsertManifests(InsertOutbox(InsertUsage(db, e), e), e), e)
        IN /\ tx \in Db /\ RowsRight(tx) /\ HourlyRight(tx, hour) /\ LifeRight(tx)
           /\ tx.outbox = db.outbox \cup {e} /\ tx.schema = 2
<1> DEFINE tx == Fold(InsertManifests(InsertOutbox(InsertUsage(db, e), e), e), e)
<1>1. /\ AllRows(db) \in SUBSET Rows /\ e \in Rows \ AllRows(db)
  BY HistoryAssumption DEF AllRows, Rows, Db
<1>2. hour[e] \in Hours
  BY <1>1
<1> DEFINE a == InsertUsage(db, e)
           b == InsertOutbox(a, e)
           c == InsertManifests(b, e)
<1>a. /\ a \in Db /\ a.raw = db.raw \cup {e} /\ a.outbox = db.outbox /\ a.parts = db.parts /\ a.projected = db.projected
      /\ a.hourly = db.hourly /\ a.life = db.life /\ a.schema = db.schema
  BY <1>1 DEF InsertUsage, Db
<1> HIDE DEF a
<1>b. /\ b \in Db /\ b.raw = a.raw /\ b.outbox = a.outbox \cup {e} /\ b.parts = a.parts /\ b.projected = a.projected
      /\ b.hourly = a.hourly /\ b.life = a.life /\ b.schema = a.schema
  BY <1>a DEF InsertOutbox, Db
<1> HIDE DEF b
<1>c. /\ c \in Db /\ c.raw = b.raw /\ c.outbox = b.outbox /\ c.parts = b.parts \cup {<<e, 2>>} /\ c.projected = b.projected
      /\ c.hourly = b.hourly /\ c.life = b.life /\ c.schema = b.schema
  BY <1>b DEF InsertManifests, Db, PartRows
<1> HIDE DEF c
<1>d. /\ tx \in Db /\ tx.raw = c.raw /\ tx.outbox = c.outbox /\ tx.parts = c.parts /\ tx.projected = c.projected
      /\ tx.hourly = [c.hourly EXCEPT ![hour[e]] = @ + 1] /\ tx.life = c.life + 1 /\ tx.schema = c.schema
  <2> DEFINE hourly == [c.hourly EXCEPT ![hour[e]] = @ + 1]
             life == c.life + 1
  <2>1. tx = [c EXCEPT !.hourly = hourly, !.life = life]
    BY DEF Fold, c, b, a
  <2>2. hourly \in [Hours -> Nat] /\ life \in Nat
    BY <1>2, <1>c DEF Db
  <2>3. tx.hourly = hourly /\ tx.life = life
    <3> HIDE DEF hourly, life, tx
    <3> QED BY <1>c, <2>1, <2>2 DEF Db
  <2> HIDE DEF hourly, life, tx
  <2>4. /\ tx \in Db /\ tx.raw = c.raw /\ tx.outbox = c.outbox /\ tx.parts = c.parts /\ tx.projected = c.projected
        /\ tx.schema = c.schema
    BY <1>c, <2>1, <2>2 DEF Db
  <2> QED BY <2>3, <2>4 DEF hourly, life
<1>4. /\ tx.raw = db.raw \cup {e} /\ tx.outbox = db.outbox \cup {e} /\ tx.parts = db.parts \cup {<<e, 2>>}
      /\ tx.hourly = [db.hourly EXCEPT ![hour[e]] = @ + 1] /\ tx.life = db.life + 1 /\ tx.schema = 2
      /\ tx.projected = db.projected /\ tx \in Db
  BY <1>a, <1>b, <1>c, <1>d
<1> HIDE DEF tx
<1>5. AllRows(tx) = AllRows(db) \cup {e}
  BY <1>4 DEF AllRows
<1>6. RowsRight(tx)
  BY <1>4, <1>5 DEF RowsRight
<1>7. HourlyRight(tx, hour)
  <2> SUFFICES ASSUME NEW h \in Hours
               PROVE tx.hourly[h] = CountIn(hour, AllRows(tx), h)
    BY DEF HourlyRight
  <2>1. CountIn(hour, AllRows(tx), h) = CountIn(hour, AllRows(db), h) + (IF hour[e] = h THEN 1 ELSE 0)
    BY <1>1, <1>5, CountOneMore, SMTT(30)
  <2>2. db.hourly[h] = CountIn(hour, AllRows(db), h) /\ db.hourly \in [Hours -> Nat]
    BY DEF HourlyRight, Db
  <2> QED BY <1>2, <1>4, <2>1, <2>2
<1>8. LifeRight(tx)
  BY <1>1, <1>4, <1>5, CountOneMore DEF LifeRight
<1> QED BY <1>4, <1>6, <1>7, <1>8 DEF tx

-----------------------------------------------------------------------------
(* The steps.                                                              *)

\* Without a row the empty counters are the right ones (BackfillHourly and
\* BackfillLifetime run again on a start after the first).
LEMMA EmptyRight ==
  ASSUME NEW db \in Db, NEW hour \in [Rows -> Hours], RowsRight(db)
  PROVE /\ (HourlyRight(db, hour) \/ HourlyEmpty(db)) /\ (\A h \in Hours : db.hourly[h] = 0)
             => \A h \in Hours : CountIn(hour, db.raw, h) = CountIn(hour, AllRows(db), h)
        /\ (LifeRight(db) \/ LifeEmpty(db)) /\ db.life = 0 => Cardinality(db.raw) = Cardinality(AllRows(db))
<1>1. ASSUME HourlyRight(db, hour) \/ HourlyEmpty(db), \A h \in Hours : db.hourly[h] = 0
      PROVE db.raw = AllRows(db)
  BY <1>1, NothingCounted DEF HourlyEmpty, RowsRight
<1>2. ASSUME LifeRight(db) \/ LifeEmpty(db), db.life = 0
      PROVE db.raw = AllRows(db)
  BY <1>2, NothingCounted DEF LifeEmpty, RowsRight
<1> QED BY <1>1, <1>2

\* The initial tables: no counters yet, and all the rows there are.
LEMMA InitInv == UHInit => UHInv
<1> SUFFICES ASSUME NEW schema \in {0, 1}, NEW outbox \in {{}, {CHOOSE e \in Events : TRUE}}, NEW hour \in [Rows -> Hours],
                    schema = 0 => outbox = {},
                    uh = [db |-> NewDb(schema, outbox), tx |-> NewDb(schema, outbox), pc |-> "off", event |-> NoEvent,
                          answer |-> "none", acked |-> {}, hour |-> hour, migrated |-> NoRows, now |-> 1, deaths |-> 0,
                          faults |-> 0]
             PROVE UHInv
  BY DEF UHInit
<1> DEFINE db == NewDb(schema, outbox)
<1>1. outbox \in SUBSET Events
  BY HistoryAssumption
<1>2. /\ db \in Db /\ db.raw = Legacy \cup outbox /\ db.outbox = outbox /\ db.projected = {} /\ db.parts = outbox \X {1}
      /\ db.schema = schema /\ db.hourly = [h \in Hours |-> 0] /\ db.life = 0
  BY <1>1 DEF NewDb, Db, Rows, PartRows
<1> HIDE DEF db
<1>3. uh \in UHState
  BY <1>2, HistoryAssumption DEF UHState, Starting, NoRows, ComponentRows, db
<1>4. RowsRight(db) /\ HourlyEmpty(db) /\ LifeEmpty(db)
  BY <1>2 DEF RowsRight, HourlyEmpty, LifeEmpty, AllRows
<1>5. uh.db = db /\ uh.pc = "off" /\ uh.acked = {} /\ uh.migrated = NoRows
  BY DEF db
<1> QED BY <1>3, <1>4, <1>5 DEF UHInv, CommittedInv, TransactionInv, MigrationInv, Ready, Starting

\* The clock changes nothing else.
LEMMA TickKeeps == UHInv /\ Tick => UHInv'
<1> SUFFICES ASSUME UHInv, NEW h \in Hours, uh' = [uh EXCEPT !.now = h]
             PROVE UHInv'
  BY DEF Tick
<1>1. uh' \in UHState
  BY DEF UHInv, UHState
<1>2. /\ uh'.db = uh.db /\ uh'.tx = uh.tx /\ uh'.pc = uh.pc /\ uh'.event = uh.event /\ uh'.acked = uh.acked
      /\ uh'.hour = uh.hour /\ uh'.migrated = uh.migrated
  BY DEF UHInv, UHState
<1> QED BY <1>1, <1>2 DEF UHInv, CommittedInv, TransactionInv, MigrationInv

\* The tables are made, and the counters filled in one transaction (_init_db).
LEMMA InitDbKeeps == UHInv /\ (CreateTables \/ BackfillHourly \/ BackfillLifetime \/ CommitInit) => UHInv'
<1> SUFFICES ASSUME UHInv, CreateTables \/ BackfillHourly \/ BackfillLifetime \/ CommitInit
             PROVE UHInv'
  OBVIOUS
<1> USE DEF UHInv
<1>0. uh.db \in Db /\ uh.tx \in Db /\ uh.hour \in [Rows -> Hours]
  BY DEF UHState
<1>1. CASE CreateTables
  <2> DEFINE db == [uh.db EXCEPT !.agg = TRUE]
  <2>1. /\ db \in Db /\ db.raw = uh.db.raw /\ db.outbox = uh.db.outbox /\ db.projected = uh.db.projected
        /\ db.parts = uh.db.parts /\ db.schema = uh.db.schema /\ db.hourly = uh.db.hourly /\ db.life = uh.db.life
    BY <1>0 DEF Db
  <2> HIDE DEF db
  <2>2. uh.pc = "off" /\ uh' = Committed("hourly", db)
    BY <1>1 DEF CreateTables, db
  <2>3. uh' = [uh EXCEPT !.pc = "hourly", !.db = db, !.tx = db] /\ uh' \in UHState
    BY <2>1, <2>2, StateFields DEF Starting
  <2>4. /\ uh'.db = db /\ uh'.tx = db /\ uh'.pc = "hourly" /\ uh'.event = uh.event /\ uh'.acked = uh.acked
        /\ uh'.hour = uh.hour /\ uh'.migrated = uh.migrated
    BY <2>3 DEF UHState
  <2>5. RowsRight(db) /\ (HourlyRight(db, uh.hour) \/ HourlyEmpty(db)) /\ (LifeRight(db) \/ LifeEmpty(db))
    BY <2>1, <2>2 DEF CommittedInv, RowsRight, HourlyRight, HourlyEmpty, LifeRight, LifeEmpty, AllRows, Starting
  <2> QED BY <2>1, <2>2, <2>3, <2>4, <2>5 DEF CommittedInv, TransactionInv, MigrationInv, Starting, Ready, SameTables
<1>2. CASE BackfillHourly
  <2> DEFINE empty == \A h \in Hours : uh.tx.hourly[h] = 0
             filled == [uh.tx EXCEPT !.hourly = [h \in Hours |-> InHour(uh.tx.raw, h)]]
             tx == IF empty THEN filled ELSE uh.tx
  <2>1. uh.pc = "hourly" /\ uh.tx = uh.db /\ RowsRight(uh.tx) /\ uh' = InTransaction("lifetime", tx)
    BY <1>2 DEF BackfillHourly, TransactionInv
  <2>2. \A h \in Hours : InHour(uh.tx.raw, h) = CountIn(uh.hour, uh.tx.raw, h) /\ InHour(uh.tx.raw, h) \in Nat
    <3>1. ASSUME NEW h \in Hours
          PROVE {r \in uh.tx.raw : uh.hour[r] = h} \in SUBSET Rows
      BY <1>0 DEF Db
    <3> QED BY <3>1, RowsFinite DEF InHour, CountIn
  <2>3. /\ filled \in Db /\ filled.raw = uh.tx.raw /\ filled.outbox = uh.tx.outbox /\ filled.projected = uh.tx.projected
        /\ filled.parts = uh.tx.parts /\ filled.schema = uh.tx.schema /\ filled.life = uh.tx.life
        /\ \A h \in Hours : filled.hourly[h] = CountIn(uh.hour, uh.tx.raw, h)
    BY <1>0, <2>2 DEF Db
  <2>4. (HourlyRight(uh.tx, uh.hour) \/ HourlyEmpty(uh.tx)) /\ (LifeRight(uh.tx) \/ LifeEmpty(uh.tx))
    BY <2>1 DEF CommittedInv, Starting
  <2>5. empty => \A h \in Hours : CountIn(uh.hour, uh.tx.raw, h) = CountIn(uh.hour, AllRows(uh.tx), h)
    BY <1>0, <2>1, <2>4, EmptyRight
  <2>6. /\ tx \in Db /\ RowsRight(tx) /\ SameTables(tx, uh.db) /\ HourlyRight(tx, uh.hour)
        /\ LifeRight(tx) \/ LifeEmpty(tx)
    <3>1. CASE empty
      <4> HIDE DEF filled
      <4> QED BY <3>1, <2>1, <2>3, <2>4, <2>5 DEF RowsRight, SameTables, HourlyRight, LifeRight, LifeEmpty, AllRows
    <3>2. CASE ~empty
      <4>1. HourlyRight(uh.tx, uh.hour)
        BY <3>2, <2>4 DEF HourlyEmpty
      <4> QED BY <3>2, <4>1, <1>0, <2>1, <2>4 DEF SameTables
    <3> QED BY <3>1, <3>2
  <2> HIDE DEF tx
  <2>7. uh' = [uh EXCEPT !.pc = "lifetime", !.tx = tx] /\ uh' \in UHState
    BY <2>1, <2>6, StateFields DEF Starting
  <2>8. /\ uh'.db = uh.db /\ uh'.tx = tx /\ uh'.pc = "lifetime" /\ uh'.event = uh.event /\ uh'.acked = uh.acked
        /\ uh'.hour = uh.hour /\ uh'.migrated = uh.migrated
    BY <2>7 DEF UHState
  <2> QED BY <2>1, <2>6, <2>7, <2>8 DEF CommittedInv, TransactionInv, MigrationInv, Starting, Ready
<1>3. CASE BackfillLifetime
  <2> DEFINE tx == IF uh.tx.life = 0 THEN [uh.tx EXCEPT !.life = Cardinality(uh.tx.raw)] ELSE uh.tx
  <2>1. /\ uh.pc = "lifetime" /\ RowsRight(uh.tx) /\ SameTables(uh.tx, uh.db) /\ HourlyRight(uh.tx, uh.hour)
        /\ LifeRight(uh.tx) \/ LifeEmpty(uh.tx)
        /\ uh' = InTransaction("init", tx)
    BY <1>3 DEF BackfillLifetime, TransactionInv
  <2>2. Cardinality(uh.tx.raw) \in Nat
    BY <1>0, RowsFinite DEF Db
  <2>3. uh.tx.life = 0 => Cardinality(uh.tx.raw) = Cardinality(AllRows(uh.tx))
    BY <1>0, <2>1, EmptyRight
  <2>4. /\ tx \in Db /\ tx.raw = uh.tx.raw /\ tx.outbox = uh.tx.outbox /\ tx.projected = uh.tx.projected
        /\ tx.parts = uh.tx.parts /\ tx.schema = uh.tx.schema /\ tx.hourly = uh.tx.hourly
        /\ tx.life = IF uh.tx.life = 0 THEN Cardinality(uh.tx.raw) ELSE uh.tx.life
    BY <1>0, <2>2 DEF Db
  <2> HIDE DEF tx
  <2>5. RowsRight(tx) /\ SameTables(tx, uh.db) /\ HourlyRight(tx, uh.hour) /\ LifeRight(tx)
    BY <2>1, <2>3, <2>4 DEF RowsRight, SameTables, HourlyRight, LifeRight, LifeEmpty, AllRows
  <2>6. uh' = [uh EXCEPT !.pc = "init", !.tx = tx] /\ uh' \in UHState
    BY <2>1, <2>4, StateFields DEF Starting
  <2>7. /\ uh'.db = uh.db /\ uh'.tx = tx /\ uh'.pc = "init" /\ uh'.event = uh.event /\ uh'.acked = uh.acked
        /\ uh'.hour = uh.hour /\ uh'.migrated = uh.migrated
    BY <2>6 DEF UHState
  <2> QED BY <2>1, <2>5, <2>6, <2>7 DEF CommittedInv, TransactionInv, MigrationInv, Starting, Ready
<1>4. CASE CommitInit
  <2>1. uh.pc = "init" /\ uh' = Committed("migrate", uh.tx)
    BY <1>4 DEF CommitInit
  <2>2. uh' = [uh EXCEPT !.pc = "migrate", !.db = uh.tx, !.tx = uh.tx] /\ uh' \in UHState
    BY <1>0, <2>1, StateFields DEF Ready
  <2>3. /\ uh'.db = uh.tx /\ uh'.tx = uh.tx /\ uh'.pc = "migrate" /\ uh'.event = uh.event /\ uh'.acked = uh.acked
        /\ uh'.hour = uh.hour /\ uh'.migrated = uh.migrated
    BY <2>2 DEF UHState
  <2> QED BY <2>1, <2>2, <2>3 DEF CommittedInv, TransactionInv, MigrationInv, Starting, Ready, SameTables
<1> QED BY <1>1, <1>2, <1>3, <1>4

\* The versions that are missing are applied in one transaction, which touches
\* no count and rewrites the component rows (_run_versioned_migrations).
LEMMA MigrationKeeps == UHInv /\ (BeginMigration \/ ApplyV1 \/ ApplyV2 \/ CommitMigration \/ VerifySchema) => UHInv'
<1> SUFFICES ASSUME UHInv, BeginMigration \/ ApplyV1 \/ ApplyV2 \/ CommitMigration \/ VerifySchema
             PROVE UHInv'
  OBVIOUS
<1> USE DEF UHInv
<1>0. uh.db \in Db /\ uh.tx \in Db /\ uh.hour \in [Rows -> Hours]
  BY DEF UHState
<1>1. CASE BeginMigration
  <2>1. uh.pc = "migrate" /\ uh' = InTransaction("apply", uh.db)
    BY <1>1 DEF BeginMigration
  <2>2. uh' = [uh EXCEPT !.pc = "apply", !.tx = uh.db] /\ uh' \in UHState
    BY <1>0, <2>1, StateFields DEF Ready
  <2>3. /\ uh'.db = uh.db /\ uh'.tx = uh.db /\ uh'.pc = "apply" /\ uh'.event = uh.event /\ uh'.acked = uh.acked
        /\ uh'.hour = uh.hour /\ uh'.migrated = uh.migrated
    BY <2>2 DEF UHState
  <2> QED BY <2>1, <2>2, <2>3 DEF CommittedInv, TransactionInv, MigrationInv, Starting, Ready, SameTables
<1>2. CASE ApplyV1
  <2> DEFINE tx == [uh.tx EXCEPT !.schema = 1]
  <2>1. uh.pc = "apply" /\ uh.tx.schema = 0 /\ RowsRight(uh.tx) /\ uh' = InTransaction("apply", tx)
    BY <1>2 DEF ApplyV1, TransactionInv
  <2>2. /\ tx \in Db /\ tx.raw = uh.tx.raw /\ tx.outbox = uh.tx.outbox /\ tx.projected = uh.tx.projected
        /\ tx.parts = uh.tx.parts /\ tx.schema = 1 /\ tx.hourly = uh.tx.hourly /\ tx.life = uh.tx.life
    BY <1>0 DEF Db
  <2>3. uh.tx.parts = {}
    BY <1>0, <2>1 DEF RowsRight, Db, PartRows
  <2> HIDE DEF tx
  <2>4. RowsRight(tx)
    BY <2>1, <2>2, <2>3 DEF RowsRight, AllRows
  <2>5. uh' = [uh EXCEPT !.pc = "apply", !.tx = tx] /\ uh' \in UHState
    BY <2>1, <2>2, StateFields DEF Ready
  <2>6. /\ uh'.db = uh.db /\ uh'.tx = tx /\ uh'.pc = "apply" /\ uh'.event = uh.event /\ uh'.acked = uh.acked
        /\ uh'.hour = uh.hour /\ uh'.migrated = uh.migrated
    BY <2>5 DEF UHState
  <2>7. uh.migrated = NoRows
    BY <2>1 DEF MigrationInv
  <2>8. SameTables(tx, uh.db) /\ HourlyRight(tx, uh.hour) /\ LifeRight(tx)
    BY <2>1, <2>2 DEF TransactionInv, SameTables, HourlyRight, LifeRight, AllRows
  <2> QED BY <2>1, <2>4, <2>5, <2>6, <2>7, <2>8 DEF CommittedInv, TransactionInv, MigrationInv, Starting, Ready
<1>3. CASE ApplyV2
  <2> DEFINE rows == {<<p[1], 2>> : p \in uh.tx.parts}
             tx == [uh.tx EXCEPT !.schema = 2, !.parts = rows]
  <2>1. uh.pc = "apply" /\ RowsRight(uh.tx) /\ uh' = [InTransaction("apply", tx) EXCEPT !.migrated = rows]
    BY <1>3 DEF ApplyV2, TransactionInv
  <2>2. rows \in PartRows
    BY <1>0 DEF Db, PartRows
  <2>a. \A q \in rows : q[2] = 2
    OBVIOUS
  <2> HIDE DEF rows
  <2>3. /\ tx \in Db /\ tx.raw = uh.tx.raw /\ tx.outbox = uh.tx.outbox /\ tx.projected = uh.tx.projected
        /\ tx.parts = rows /\ tx.schema = 2 /\ tx.hourly = uh.tx.hourly /\ tx.life = uh.tx.life
    <3> DEFINE t == [uh.tx EXCEPT !.schema = 2]
    <3>1. /\ t \in Db /\ t.raw = uh.tx.raw /\ t.outbox = uh.tx.outbox /\ t.projected = uh.tx.projected
          /\ t.schema = 2 /\ t.hourly = uh.tx.hourly /\ t.life = uh.tx.life
      BY <1>0 DEF Db
    <3> HIDE DEF t
    <3>2. tx = [t EXCEPT !.parts = rows]
      BY DEF t
    <3> HIDE DEF tx
    <3> QED BY <3>1, <3>2, <2>2 DEF Db
  <2> HIDE DEF tx
  <2>4. RowsRight(tx)
    BY <2>1, <2>a, <2>3 DEF RowsRight, AllRows
  <2>5. InTransaction("apply", tx) = [uh EXCEPT !.pc = "apply", !.tx = tx] /\ InTransaction("apply", tx) \in UHState
    BY <2>3, StateFields DEF Ready
  <2>6. rows \in ComponentRows
    BY <2>2 DEF ComponentRows, PartRows
  <2>7. /\ uh' \in UHState /\ uh'.db = uh.db /\ uh'.tx = tx /\ uh'.pc = "apply" /\ uh'.event = uh.event
        /\ uh'.acked = uh.acked /\ uh'.hour = uh.hour /\ uh'.migrated = rows
    <3> DEFINE s == InTransaction("apply", tx)
    <3>1. /\ s \in UHState /\ s.db = uh.db /\ s.tx = tx /\ s.pc = "apply" /\ s.event = uh.event
          /\ s.acked = uh.acked /\ s.hour = uh.hour
      BY <2>5 DEF UHState
    <3> HIDE DEF s
    <3>2. uh' = [s EXCEPT !.migrated = rows]
      BY <2>1 DEF s
    <3> QED BY <3>1, <3>2, <2>6 DEF UHState
  <2>8. SameTables(tx, uh.db) /\ HourlyRight(tx, uh.hour) /\ LifeRight(tx)
    BY <2>1, <2>3 DEF TransactionInv, SameTables, HourlyRight, LifeRight, AllRows
  <2> QED BY <2>1, <2>3, <2>4, <2>7, <2>8 DEF CommittedInv, TransactionInv, MigrationInv, Starting, Ready
<1>4. CASE CommitMigration
  <2>1. uh.pc = "apply" /\ uh.tx.schema = 2 /\ uh' = Committed("verify", uh.tx)
    BY <1>4 DEF CommitMigration
  <2>2. uh' = [uh EXCEPT !.pc = "verify", !.db = uh.tx, !.tx = uh.tx] /\ uh' \in UHState
    BY <1>0, <2>1, StateFields DEF Ready
  <2>3. /\ uh'.db = uh.tx /\ uh'.tx = uh.tx /\ uh'.pc = "verify" /\ uh'.event = uh.event /\ uh'.acked = uh.acked
        /\ uh'.hour = uh.hour /\ uh'.migrated = uh.migrated
    BY <2>2 DEF UHState
  <2> QED BY <2>1, <2>2, <2>3 DEF CommittedInv, TransactionInv, MigrationInv, Starting, Ready, SameTables
<1>5. CASE VerifySchema
  <2>1. uh.pc = "verify" /\ uh' = [uh EXCEPT !.pc = "on", !.migrated = NoRows]
    BY <1>5 DEF VerifySchema
  <2>2. NoRows \in ComponentRows
    BY DEF NoRows, ComponentRows
  <2>3. /\ uh' \in UHState /\ uh'.db = uh.db /\ uh'.tx = uh.tx /\ uh'.pc = "on" /\ uh'.event = uh.event
        /\ uh'.acked = uh.acked /\ uh'.hour = uh.hour /\ uh'.migrated = NoRows
    BY <2>1, <2>2 DEF UHState, Ready
  <2> QED BY <2>1, <2>3 DEF CommittedInv, TransactionInv, MigrationInv, Starting, Ready
<1> QED BY <1>1, <1>2, <1>3, <1>4, <1>5

\* A start that fails, and a process that dies, leave the committed tables or,
\* when a commit took effect and then raised, those of the transaction.
LEMMA StopKeeps == UHInv /\ (StartFails \/ ProcessDies) => UHInv'
<1> SUFFICES ASSUME UHInv, StartFails \/ ProcessDies
             PROVE UHInv'
  OBVIOUS
<1> USE DEF UHInv
<1>0. uh.db \in Db /\ uh.tx \in Db /\ uh.hour \in [Rows -> Hours] /\ NoRows \in ComponentRows
  BY DEF UHState, NoRows, ComponentRows
<1>1. PICK db \in {uh.db, uh.tx} :
        /\ db = uh.tx => db = uh.db \/ uh.pc \in {"init", "apply"}
        /\ uh' \in UHState /\ uh'.db = db /\ uh'.tx = db /\ uh'.pc = "off" /\ uh'.acked = uh.acked
        /\ uh'.hour = uh.hour /\ uh'.migrated = NoRows
  <2>1. CASE StartFails
    <3>1. PICK db \in {uh.db} \cup (IF uh.pc = "init" \/ (uh.pc = "apply" /\ uh.tx.schema = 2) THEN {uh.tx} ELSE {}) :
            uh' = [Committed("off", db) EXCEPT !.migrated = NoRows, !.faults = @ + 1]
      BY <2>1 DEF StartFails
    <3>2. db \in Db
      BY <1>0, <3>1
    <3>3. Committed("off", db) = [uh EXCEPT !.pc = "off", !.db = db, !.tx = db] /\ Committed("off", db) \in UHState
      BY <3>2, StateFields DEF Starting
    <3> DEFINE s == Committed("off", db)
    <3>4. s \in UHState /\ s.db = db /\ s.tx = db /\ s.pc = "off" /\ s.acked = uh.acked /\ s.hour = uh.hour
      BY <3>3 DEF UHState
    <3> HIDE DEF s
    <3> DEFINE faults == s.faults + 1
    <3>5. uh' = [s EXCEPT !.migrated = NoRows, !.faults = faults] /\ faults \in Nat
      BY <3>1, <3>4 DEF s, UHState
    <3> HIDE DEF faults
    <3>6. /\ uh' \in UHState /\ uh'.db = db /\ uh'.tx = db /\ uh'.pc = "off" /\ uh'.acked = uh.acked
          /\ uh'.hour = uh.hour /\ uh'.migrated = NoRows
      BY <1>0, <3>4, <3>5 DEF UHState
    <3> QED BY <3>1, <3>6
  <2>2. CASE ProcessDies
    <3>1. uh' = [Committed("off", uh.db) EXCEPT !.event = NoEvent, !.answer = "none", !.migrated = NoRows, !.deaths = @ + 1]
      BY <2>2 DEF ProcessDies
    <3>2. Committed("off", uh.db) = [uh EXCEPT !.pc = "off", !.db = uh.db, !.tx = uh.db] /\ Committed("off", uh.db) \in UHState
      BY <1>0, StateFields DEF Starting
    <3> DEFINE s == Committed("off", uh.db)
    <3>3. s \in UHState /\ s.db = uh.db /\ s.tx = uh.db /\ s.pc = "off" /\ s.acked = uh.acked /\ s.hour = uh.hour
      BY <3>2 DEF UHState
    <3> HIDE DEF s
    <3> DEFINE deaths == s.deaths + 1
    <3>4. uh' = [s EXCEPT !.event = NoEvent, !.answer = "none", !.migrated = NoRows, !.deaths = deaths] /\ deaths \in Nat
      BY <3>1, <3>3 DEF s, UHState
    <3> HIDE DEF deaths
    <3>5. /\ uh' \in UHState /\ uh'.db = uh.db /\ uh'.tx = uh.db /\ uh'.pc = "off" /\ uh'.acked = uh.acked
          /\ uh'.hour = uh.hour /\ uh'.migrated = NoRows
      BY <1>0, <3>3, <3>4 DEF UHState
    <3> QED BY <3>5
  <2> QED BY <2>1, <2>2
<1>2. RowsRight(db) /\ uh.acked \subseteq db.outbox
  BY <1>1 DEF CommittedInv, TransactionInv, SameTables
<1>3. (HourlyRight(db, uh.hour) \/ HourlyEmpty(db)) /\ (LifeRight(db) \/ LifeEmpty(db))
  <2>1. uh.pc \in Starting \cup Ready
    BY DEF UHState
  <2> QED BY <1>1, <2>1 DEF CommittedInv, TransactionInv
<1> QED BY <1>1, <1>2, <1>3 DEF CommittedInv, TransactionInv, MigrationInv, Starting, Ready

\* A delivery writes its event into an open transaction, which is committed,
\* rolled back, or looked up when its commit raised (accept_accounting_event).
LEMMA DeliveryKeeps ==
  ASSUME UHInv,
         \/ CommitEvent \/ WriteFails \/ CommitRaises \/ RecoverEvent \/ RecoverFails
         \/ \E e \in Events : Duplicate(e) \/ WriteEvent(e)
  PROVE UHInv'
<1> USE DEF UHInv
<1>0. /\ uh.db \in Db /\ uh.tx \in Db /\ uh.hour \in [Rows -> Hours] /\ uh.event \in Events \cup {NoEvent}
      /\ uh.faults \in Nat
  BY DEF UHState
<1>1. ASSUME NEW e \in Events, Duplicate(e)
      PROVE UHInv'
  <2>1. uh.pc = "on" /\ e \in uh.db.outbox /\ uh' = DeliveryAnswered(uh, e, "duplicate")
    BY <1>1 DEF Duplicate, Stored, CommittedInv, RowsRight
  <2>2. /\ uh' \in UHState /\ uh'.db = uh.db /\ uh'.tx = uh.tx /\ uh'.pc = "on" /\ uh'.hour = uh.hour
        /\ uh'.migrated = uh.migrated /\ uh'.acked \subseteq uh.acked \cup {e}
    BY <2>1, AnswerFields
  <2> QED BY <2>1, <2>2 DEF CommittedInv, TransactionInv, MigrationInv, Starting, Ready
<1>2. ASSUME NEW e \in Events, WriteEvent(e)
      PROVE UHInv'
  <2> DEFINE tx == Fold(InsertManifests(InsertOutbox(InsertUsage(uh.db, e), e), e), e)
             s == InTransaction("commit", tx)
  <2>1. uh.pc = "on" /\ e \in Events \ uh.db.outbox /\ uh' = [s EXCEPT !.event = e]
    BY <1>2 DEF WriteEvent
  <2>2. RowsRight(uh.db) /\ uh.db.schema = 2 /\ HourlyRight(uh.db, uh.hour) /\ LifeRight(uh.db)
    BY <2>1 DEF CommittedInv, Ready
  <2>3. /\ tx \in Db /\ RowsRight(tx) /\ HourlyRight(tx, uh.hour) /\ LifeRight(tx)
        /\ tx.outbox = uh.db.outbox \cup {e} /\ tx.schema = 2
    BY <1>0, <2>1, <2>2, WrittenRight
  <2> HIDE DEF tx
  <2>4. s = [uh EXCEPT !.pc = "commit", !.tx = tx] /\ s \in UHState
    BY <2>3, StateFields DEF Ready
  <2>5. /\ s.db = uh.db /\ s.tx = tx /\ s.pc = "commit" /\ s.hour = uh.hour /\ s.migrated = uh.migrated /\ s.acked = uh.acked
    BY <2>4 DEF UHState
  <2> HIDE DEF s
  <2>6. /\ uh' \in UHState /\ uh'.db = uh.db /\ uh'.tx = tx /\ uh'.pc = "commit" /\ uh'.hour = uh.hour
        /\ uh'.migrated = uh.migrated /\ uh'.acked = uh.acked /\ uh'.event = e
    BY <2>1, <2>4, <2>5 DEF UHState
  <2> QED BY <2>1, <2>2, <2>3, <2>6 DEF CommittedInv, TransactionInv, MigrationInv, Starting, Ready
<1>3. CASE CommitEvent
  <2> DEFINE s == Committed("on", uh.tx)
  <2>1. uh.pc = "commit" /\ uh' = DeliveryAnswered(s, uh.event, "accepted") /\ uh.event \in Events
    BY <1>3 DEF CommitEvent, TransactionInv
  <2>2. s = [uh EXCEPT !.pc = "on", !.db = uh.tx, !.tx = uh.tx] /\ s \in UHState
    BY <1>0, StateFields DEF Ready
  <2>3. s.db = uh.tx /\ s.tx = uh.tx /\ s.pc = "on" /\ s.hour = uh.hour /\ s.migrated = uh.migrated /\ s.acked = uh.acked
    BY <2>2 DEF UHState
  <2> HIDE DEF s
  <2>4. /\ uh' \in UHState /\ uh'.db = uh.tx /\ uh'.tx = uh.tx /\ uh'.pc = "on" /\ uh'.hour = uh.hour
        /\ uh'.migrated = uh.migrated /\ uh'.acked \subseteq uh.acked \cup {uh.event}
    <3>1. /\ uh' \in UHState /\ uh'.db = s.db /\ uh'.tx = s.tx /\ uh'.pc = s.pc /\ uh'.hour = s.hour
          /\ uh'.migrated = s.migrated /\ uh'.acked \subseteq s.acked \cup {uh.event}
      <4>1. s \in UHState /\ uh.event \in Events /\ uh' = DeliveryAnswered(s, uh.event, "accepted")
        BY <2>1, <2>2
      <4> QED BY <4>1, AnswerFields
    <3> QED BY <2>3, <3>1
  <2> QED BY <2>1, <2>4 DEF CommittedInv, TransactionInv, MigrationInv, Starting, Ready
<1>4. CASE WriteFails
  <2> DEFINE s == Committed("on", uh.db)
             faults == s.faults + 1
             t == [s EXCEPT !.faults = faults]
  <2>1. uh.pc = "commit" /\ uh' = DeliveryAnswered(t, uh.event, "failed") /\ uh.event \in Events
    BY <1>4 DEF WriteFails, TransactionInv
  <2>2. s = [uh EXCEPT !.pc = "on", !.db = uh.db, !.tx = uh.db] /\ s \in UHState
    BY <1>0, StateFields DEF Ready
  <2>3. s.db = uh.db /\ s.tx = uh.db /\ s.pc = "on" /\ s.hour = uh.hour /\ s.migrated = uh.migrated /\ s.acked = uh.acked
    BY <2>2 DEF UHState
  <2>4. faults \in Nat
    BY <2>2 DEF UHState
  <2> HIDE DEF s, faults
  <2>5. /\ t \in UHState /\ t.db = uh.db /\ t.tx = uh.db /\ t.pc = "on" /\ t.hour = uh.hour /\ t.migrated = uh.migrated
        /\ t.acked = uh.acked
    BY <2>2, <2>3, <2>4 DEF UHState
  <2> HIDE DEF t
  <2>6. /\ uh' \in UHState /\ uh'.db = uh.db /\ uh'.tx = uh.db /\ uh'.pc = "on" /\ uh'.hour = uh.hour
        /\ uh'.migrated = uh.migrated /\ uh'.acked = uh.acked
    BY <2>1, <2>5, AnswerFields
  <2> QED BY <2>1, <2>6 DEF CommittedInv, TransactionInv, MigrationInv, Starting, Ready
<1>5. CASE CommitRaises
  <2>1. PICK db \in {uh.db, uh.tx} : uh' = [Committed("recover", db) EXCEPT !.faults = @ + 1]
    BY <1>5 DEF CommitRaises
  <2>2. uh.pc = "commit" /\ uh.event \in Events /\ db \in Db
    BY <1>0, <1>5, <2>1 DEF CommitRaises, TransactionInv
  <2> DEFINE s == Committed("recover", db)
             faults == s.faults + 1
  <2>3. s = [uh EXCEPT !.pc = "recover", !.db = db, !.tx = db] /\ s \in UHState
    BY <2>2, StateFields DEF Ready
  <2>4. /\ s.db = db /\ s.tx = db /\ s.pc = "recover" /\ s.hour = uh.hour /\ s.migrated = uh.migrated
        /\ s.acked = uh.acked /\ s.event = uh.event
    BY <2>3 DEF UHState
  <2>5. faults \in Nat /\ uh' = [s EXCEPT !.faults = faults]
    BY <2>1, <2>3 DEF UHState
  <2> HIDE DEF s, faults
  <2>6. /\ uh' \in UHState /\ uh'.db = db /\ uh'.tx = db /\ uh'.pc = "recover" /\ uh'.hour = uh.hour
        /\ uh'.migrated = uh.migrated /\ uh'.acked = uh.acked /\ uh'.event = uh.event
    BY <2>3, <2>4, <2>5 DEF UHState
  <2>7. RowsRight(db) /\ HourlyRight(db, uh.hour) /\ LifeRight(db) /\ db.schema = 2 /\ uh.acked \subseteq db.outbox
    BY <2>1, <2>2 DEF CommittedInv, TransactionInv, Ready
  <2> QED BY <2>2, <2>6, <2>7 DEF CommittedInv, TransactionInv, MigrationInv, Starting, Ready
<1>6. CASE RecoverEvent
  <2> DEFINE answer == IF uh.event \in uh.db.outbox THEN "recovered" ELSE "failed"
             s == [uh EXCEPT !.pc = "on"]
  <2>1. uh.pc = "recover" /\ uh' = DeliveryAnswered(s, uh.event, answer) /\ uh.event \in Events
    BY <1>6 DEF RecoverEvent, CommittedInv
  <2>2. /\ s \in UHState /\ s.db = uh.db /\ s.tx = uh.tx /\ s.pc = "on" /\ s.hour = uh.hour
        /\ s.migrated = uh.migrated /\ s.acked = uh.acked
    BY DEF UHState, Ready
  <2>3. answer \in {"recovered", "failed"} /\ (answer # "failed" => uh.event \in uh.db.outbox)
    OBVIOUS
  <2> HIDE DEF s, answer
  <2>4. /\ uh' \in UHState /\ uh'.db = uh.db /\ uh'.tx = uh.tx /\ uh'.pc = "on" /\ uh'.hour = uh.hour
        /\ uh'.migrated = uh.migrated /\ uh'.acked \subseteq uh.acked \cup {uh.event}
        /\ answer = "failed" => uh'.acked = uh.acked
    <3>1. /\ uh' \in UHState /\ uh'.db = s.db /\ uh'.tx = s.tx /\ uh'.pc = s.pc /\ uh'.hour = s.hour
          /\ uh'.migrated = s.migrated /\ uh'.acked \subseteq s.acked \cup {uh.event}
          /\ answer = "failed" => uh'.acked = s.acked
      <4>1. s \in UHState /\ uh.event \in Events /\ uh' = DeliveryAnswered(s, uh.event, answer)
        BY <2>1, <2>2
      <4>2. CASE answer = "recovered"
        BY <4>1, <4>2, AnswerFields
      <4>3. CASE answer = "failed"
        BY <4>1, <4>3, AnswerFields
      <4> QED BY <2>3, <4>2, <4>3
    <3> QED BY <2>2, <3>1
  <2> QED BY <2>1, <2>3, <2>4 DEF CommittedInv, TransactionInv, MigrationInv, Starting, Ready
<1>7. CASE RecoverFails
  <2> DEFINE faults == uh.faults + 1
             s == [uh EXCEPT !.pc = "on", !.faults = faults]
  <2>1. uh.pc = "recover" /\ uh' = DeliveryAnswered(s, uh.event, "failed") /\ uh.event \in Events
    BY <1>7 DEF RecoverFails, CommittedInv
  <2>2. faults \in Nat
    BY <1>0
  <2> HIDE DEF faults
  <2>3. /\ s \in UHState /\ s.db = uh.db /\ s.tx = uh.tx /\ s.pc = "on" /\ s.hour = uh.hour
        /\ s.migrated = uh.migrated /\ s.acked = uh.acked
    BY <2>2 DEF UHState, Ready
  <2> HIDE DEF s
  <2>4. /\ uh' \in UHState /\ uh'.db = uh.db /\ uh'.tx = uh.tx /\ uh'.pc = "on" /\ uh'.hour = uh.hour
        /\ uh'.migrated = uh.migrated /\ uh'.acked = uh.acked
    BY <2>1, <2>3, AnswerFields
  <2> QED BY <2>1, <2>4 DEF CommittedInv, TransactionInv, MigrationInv, Starting, Ready
<1> QED BY <1>1, <1>2, <1>3, <1>4, <1>5, <1>6, <1>7

\* A mark makes an event droppable, and the retention drops only such events.
LEMMA OutboxKeeps ==
  ASSUME UHInv, Retire \/ \E e \in Events : Project(e)
  PROVE UHInv'
<1> USE DEF UHInv
<1>0. uh.db \in Db /\ uh.tx \in Db /\ uh.hour \in [Rows -> Hours]
  BY DEF UHState
<1>1. PICK db \in Db :
        /\ uh.pc = "on" /\ uh' = Committed("on", db) /\ RowsRight(db)
        /\ db.outbox = uh.db.outbox /\ db.schema = uh.db.schema /\ db.hourly = uh.db.hourly /\ db.life = uh.db.life
  <2>1. CASE Retire
    <3> DEFINE raw == {r \in uh.db.raw : ~Old(r) \/ r \in Events \ uh.db.projected}
               db == [uh.db EXCEPT !.raw = raw]
    <3>1. raw \subseteq uh.db.raw /\ (uh.db.outbox \ uh.db.projected) \cap uh.db.raw \subseteq raw
      BY <1>0 DEF Db
    <3>2. uh.pc = "on" /\ uh' = Committed("on", db)
      BY <2>1 DEF Retire
    <3> HIDE DEF raw
    <3>3. /\ db \in Db /\ db.raw = raw /\ db.outbox = uh.db.outbox /\ db.schema = uh.db.schema /\ db.hourly = uh.db.hourly
          /\ db.life = uh.db.life /\ db.projected = uh.db.projected /\ db.parts = uh.db.parts
      BY <1>0, <3>1 DEF Db
    <3> HIDE DEF db
    <3>4. RowsRight(db)
      BY <3>1, <3>3 DEF CommittedInv, RowsRight, AllRows
    <3> QED BY <3>2, <3>3, <3>4
  <2>2. ASSUME NEW e \in Events, Project(e)
        PROVE \E db \in Db :
                /\ uh.pc = "on" /\ uh' = Committed("on", db) /\ RowsRight(db)
                /\ db.outbox = uh.db.outbox /\ db.schema = uh.db.schema /\ db.hourly = uh.db.hourly /\ db.life = uh.db.life
    <3> DEFINE db == [uh.db EXCEPT !.projected = @ \cup {e}]
    <3>1. uh.pc = "on" /\ uh' = Committed("on", db)
      BY <2>2 DEF Project
    <3>2. /\ db \in Db /\ db.raw = uh.db.raw /\ db.outbox = uh.db.outbox /\ db.schema = uh.db.schema /\ db.hourly = uh.db.hourly
          /\ db.life = uh.db.life /\ db.projected = uh.db.projected \cup {e} /\ db.parts = uh.db.parts
      BY <1>0 DEF Db
    <3> HIDE DEF db
    <3>3. RowsRight(db)
      BY <3>2 DEF CommittedInv, RowsRight, AllRows
    <3> QED BY <3>1, <3>2, <3>3
  <2> QED BY <2>1, <2>2
<1>2. uh' = [uh EXCEPT !.pc = "on", !.db = db, !.tx = db] /\ uh' \in UHState
  BY <1>1, StateFields DEF Ready
<1>3. /\ uh'.db = db /\ uh'.tx = db /\ uh'.pc = "on" /\ uh'.event = uh.event /\ uh'.acked = uh.acked
      /\ uh'.hour = uh.hour /\ uh'.migrated = uh.migrated
  BY <1>2 DEF UHState
<1>4. HourlyRight(db, uh.hour) /\ LifeRight(db)
  BY <1>1 DEF CommittedInv, Ready, HourlyRight, LifeRight, AllRows
<1> QED BY <1>1, <1>2, <1>3, <1>4 DEF CommittedInv, TransactionInv, MigrationInv, Starting, Ready

-----------------------------------------------------------------------------
(* The theorems.                                                           *)

\* The tables and the open transaction keep their types and their relation at
\* every place of the start, of a delivery and of the retention.
THEOREM HistoryInvariant == UHSpec => []UHInv
<1>1. UHInv /\ [UHNext]_uh => UHInv'
  <2> SUFFICES ASSUME UHInv, [UHNext]_uh
               PROVE UHInv'
    OBVIOUS
  <2>1. CASE Tick
    BY <2>1, TickKeeps
  <2>2. CASE StartStep
    BY <2>2, InitDbKeeps, MigrationKeeps, StopKeeps DEF StartStep
  <2>3. CASE \/ CommitEvent \/ WriteFails \/ CommitRaises \/ RecoverEvent \/ RecoverFails
             \/ \E e \in Events : Duplicate(e) \/ WriteEvent(e)
    BY <2>3, DeliveryKeeps
  <2>4. CASE Retire \/ \E e \in Events : Project(e)
    BY <2>4, OutboxKeeps
  <2>5. CASE ProcessDies
    BY <2>5, StopKeeps
  <2>6. CASE UNCHANGED uh
    BY <2>6 DEF UHInv, CommittedInv, TransactionInv, MigrationInv
  <2> QED BY <2>1, <2>2, <2>3, <2>4, <2>5, <2>6 DEF UHNext
<1> QED BY <1>1, InitInv, PTL DEF UHSpec

\* The statistics count every row there ever was once, an answered event is
\* stored for ever and recognised again, a pending one can be read, and no start
\* is refused: whatever the retention removed, wherever a call failed or the
\* process died.
THEOREM HistoryAlwaysKept == UHSpec => []HistoryKept
<1>1. UHInv => HistoryKept
  <2> SUFFICES ASSUME UHInv
               PROVE HistoryKept
    OBVIOUS
  <2> USE DEF UHInv
  <2>0. uh.db \in Db /\ uh.tx \in Db /\ uh.hour \in [Rows -> Hours]
    BY DEF UHState
  <2>1. ASSUME uh.pc \in Ready
        PROVE /\ \A h \in Hours : Timeline(h) = InHour(Legacy \cup uh.db.outbox, h) /\ Timeline(h) >= Records(h)
              /\ Lifetime = Cardinality(Legacy \cup uh.db.outbox)
    <3>1. AllRows(uh.db) \in SUBSET Rows /\ uh.db.raw \in SUBSET AllRows(uh.db)
      BY <2>0 DEF CommittedInv, RowsRight, AllRows, Rows, Db
    <3>2. ASSUME NEW h \in Hours
          PROVE Timeline(h) = InHour(Legacy \cup uh.db.outbox, h) /\ Timeline(h) >= Records(h)
      <4>1. Timeline(h) = CountIn(uh.hour, AllRows(uh.db), h)
        BY <2>1 DEF Timeline, CommittedInv, HourlyRight
      <4>2. /\ InHour(Legacy \cup uh.db.outbox, h) = CountIn(uh.hour, AllRows(uh.db), h)
            /\ Records(h) = CountIn(uh.hour, uh.db.raw, h)
        BY DEF InHour, Records, CountIn, AllRows
      <4>3. /\ CountIn(uh.hour, uh.db.raw, h) <= CountIn(uh.hour, AllRows(uh.db), h)
            /\ CountIn(uh.hour, uh.db.raw, h) \in Nat /\ CountIn(uh.hour, AllRows(uh.db), h) \in Nat
        BY <2>0, <3>1, CountMonotone
      <4> QED BY <4>1, <4>2, <4>3
    <3> QED BY <2>1, <3>2 DEF Lifetime, CommittedInv, LifeRight, AllRows
  <2>2. uh.answer # "conflict"
    BY DEF UHState
  <2>3. uh.acked \subseteq uh.db.outbox /\ PendingReadable
    BY DEF CommittedInv, RowsRight, PendingReadable, Pending
  <2>4. uh.pc = "apply" => Layout(uh.tx, uh.tx.schema)
    BY DEF TransactionInv, RowsRight, Layout
  <2>5. uh.pc = "verify" => Layout(uh.db, 2) /\ uh.migrated \in {NoRows, uh.db.parts}
    BY DEF CommittedInv, MigrationInv, RowsRight, Layout
  <2> QED BY <2>1, <2>2, <2>3, <2>4, <2>5 DEF HistoryKept, Ready
<1> QED BY <1>1, HistoryInvariant, PTL

-----------------------------------------------------------------------------
(***************************************************************************)
(* The migration of a host.  Until a target is settled, durable or reported *)
(* as in doubt, the temporary of the migration that published it shares its *)
(* inode and that migration has still to sync; the artifacts a migration    *)
(* has passed are settled.                                                  *)
(***************************************************************************)

Versions == [Parts -> Nat]
MigrationPcs == {"new", "plan", "dirs", "chown", "next", "copy", "link", "sync", "unlink", "done", "error"}
ItemSteps == 1..4
Runs == [pc : MigrationPcs, i : ItemSteps, snap : [Artifacts -> Versions], found : SUBSET Artifacts, temp : Versions,
         todo : SUBSET (Artifacts \X Parts)]
Targets == [have : Versions, durable : BOOLEAN, shared : SUBSET Migrators]
SMFields == {"src", "dst", "left", "dir", "run", "told", "unsure", "changes", "failures"}

\* The type invariant, field by field.
SMTypes(s) ==
  /\ DOMAIN s = SMFields
  /\ s.src \in [Artifacts -> Versions]
  /\ s.dst \in [Artifacts -> Targets]
  /\ s.left \in SUBSET (Migrators \X Artifacts)
  /\ s.dir \in {"none", "drift", "raw", "ok"}
  /\ s.run \in [Migrators -> Runs]
  /\ s.told \in SUBSET Artifacts
  /\ s.unsure \in SUBSET Artifacts
  /\ s.changes \in Nat
  /\ s.failures \in Nat

\* A target that is there to stay, or of which nobody is told that it is.
Settled(a) == a \in sm.unsure \/ (Published(a) /\ Target(a).durable)
\* The parts of a source change together.
SourcesOK == \A a \in Artifacts :
  sm.src[a]["main"] > 0 /\ \A p \in PartsOf(a) : sm.src[a][p] = sm.src[a]["main"]
\* A target is of one version; until it is settled its temporary still shares its inode,
\* and the migration that owns that one has still to sync.
TargetsOK == \A a \in Artifacts :
  /\ Published(a) => \A p \in PartsOf(a) : Target(a).have[p] = Target(a).have["main"]
  /\ Published(a) /\ a # "cache" => Settled(a) \/ \E k \in Target(a).shared : Run(k).pc = "sync" /\ Item(k) = a
  /\ a \in sm.told => Settled(a)
\* What a migration has read is what its snapshot says.
ReadRight(u, p) == u.temp[p] = u.snap[Order[u.i]][p] /\ u.temp[p] > 0
\* A migration and the artifacts it has passed.
Place(u) ==
  /\ \A j \in ItemSteps : j < u.i => Settled(Order[j])
  /\ u.pc \notin {"new", "done", "error"} => \A a \in u.found : Published(a)
  /\ u.pc \in {"sync", "unlink"} => Published(Order[u.i])
  /\ u.pc = "unlink" => Settled(Order[u.i])
\* The copy of a migration.
Staged(u) ==
  /\ u.pc = "copy" => /\ \A t \in u.todo : t[1] = Order[u.i] /\ t[2] \in PartsOf(Order[u.i])
                      /\ \A p \in PartsOf(Order[u.i]) : <<Order[u.i], p>> \in u.todo \/ ReadRight(u, p)
  /\ u.pc = "link" => \A p \in PartsOf(Order[u.i]) : ReadRight(u, p)
SMInv == SMTypes(sm) /\ SourcesOK /\ TargetsOK /\ \A k \in Migrators : Place(Run(k)) /\ Staged(Run(k))

OrderFacts == /\ Artifacts = {"config", "db", "letter", "cache"} /\ Len(Order) = 4
              /\ Order[1] = "config" /\ Order[2] = "db" /\ Order[3] = "letter" /\ Order[4] = "cache"
              /\ \A j \in ItemSteps : Order[j] \in Artifacts
\* The artifacts in their order.
LEMMA OrderIs == OrderFacts
<1>1. Len(Order) = 4 /\ Order[1] = "config" /\ Order[2] = "db" /\ Order[3] = "letter" /\ Order[4] = "cache"
  BY DEF Order
<1>2. Artifacts = {Order[i] : i \in 1..4}
  BY <1>1 DEF Artifacts
<1>3. 1..4 = {1, 2, 3, 4}
  OBVIOUS
<1>4. Artifacts = {"config", "db", "letter", "cache"}
  BY <1>1, <1>2, <1>3
<1> QED BY <1>1, <1>2, <1>4 DEF OrderFacts, ItemSteps

\* A version with a main part is there.
LEMMA VersionsAre == Absent \in Versions /\ \A v \in Versions : v["main"] > 0 => v # Absent
BY DEF Absent, Versions, Parts

\* The fields of the state.
LEMMA FieldTypes ==
  ASSUME SMInv, NEW k \in Migrators
  PROVE  /\ SMTypes(sm) /\ Run(k) = sm.run[k] /\ sm.run[k] \in Runs /\ sm.run[k].i \in ItemSteps /\ sm.run[k].pc \in MigrationPcs
         /\ sm.dst \in [Artifacts -> Targets] /\ sm.src \in [Artifacts -> Versions]
         /\ Item(k) = Order[sm.run[k].i] /\ Item(k) \in Artifacts
<1>1. SMTypes(sm) /\ Run(k) = sm.run[k] /\ Item(k) = Order[sm.run[k].i]
  BY DEF SMInv, Run, Item
<1>2. sm.run[k] \in Runs /\ sm.dst \in [Artifacts -> Targets] /\ sm.src \in [Artifacts -> Versions]
  BY <1>1 DEF SMTypes
<1>3. sm.run[k].i \in ItemSteps /\ sm.run[k].pc \in MigrationPcs
  BY <1>2 DEF Runs
<1> QED BY <1>1, <1>2, <1>3, OrderIs DEF OrderFacts

\* A step of one migration: what it leaves of the targets and of the others.
Gentle(k) ==
  /\ SMTypes(sm') /\ sm'.src = sm.src /\ \A j \in Migrators \ {k} : sm'.run[j] = sm.run[j]
  /\ sm.unsure \subseteq sm'.unsure
  /\ \A a \in Artifacts : /\ sm'.dst[a].have = sm.dst[a].have /\ sm'.dst[a].durable = sm.dst[a].durable
                          /\ sm.dst[a].shared \ {k} \subseteq sm'.dst[a].shared

\* What is settled stays settled, what is published stays published.
LEMMA GentleTargets ==
  ASSUME SMInv, NEW k \in Migrators, Gentle(k)
  PROVE  /\ \A a \in Artifacts : (Published(a))' <=> Published(a)
         /\ \A a \in Artifacts : Settled(a) => (Settled(a))'
BY DEF Gentle, Settled, Published, Target

\* The other migrations stand where they stood.
LEMMA OthersStand ==
  ASSUME SMInv, NEW k \in Migrators, \A j \in Migrators \ {k} : sm'.run[j] = sm.run[j],
         \A a \in Artifacts : Published(a) => (Published(a))', \A a \in Artifacts : Settled(a) => (Settled(a))'
  PROVE  \A j \in Migrators \ {k} : (Place(Run(j)) /\ Staged(Run(j)))'
<1> SUFFICES ASSUME NEW j \in Migrators \ {k} PROVE (Place(Run(j)) /\ Staged(Run(j)))'
  OBVIOUS
<1>1. sm'.run[j] = sm.run[j] /\ Place(sm.run[j]) /\ Staged(sm.run[j]) /\ sm.run[j].i \in ItemSteps /\ sm.run[j].found \in SUBSET Artifacts
  BY FieldTypes DEF SMInv, Run, Runs
<1>2. Staged(sm.run[j])'
  BY <1>1 DEF Staged, ReadRight
<1>3. Place(sm.run[j])'
  BY <1>1, OrderIs DEF Place, OrderFacts
<1> QED BY <1>1, <1>2, <1>3 DEF Run

\* A gentle step keeps the invariant if its own migration fits.
LEMMA GentleKeeps ==
  ASSUME SMInv, NEW k \in Migrators, Gentle(k), (Place(Run(k)) /\ Staged(Run(k)))',
         Run(k).pc = "sync" => Item(k) \in sm'.unsure,
         sm'.told = sm.told \/ \A a \in Artifacts : (Settled(a))'
  PROVE  SMInv'
<1>1. SourcesOK'
  BY DEF SMInv, SourcesOK, Gentle
<1>2. TargetsOK'
  <2> SUFFICES ASSUME NEW a \in Artifacts
               PROVE /\ Published(a)' => \A p \in PartsOf(a) : sm'.dst[a].have[p] = sm'.dst[a].have["main"]
                     /\ Published(a)' /\ a # "cache" => Settled(a)' \/ \E j \in sm'.dst[a].shared : sm'.run[j].pc = "sync" /\ Order[sm'.run[j].i] = a
                     /\ a \in sm'.told => Settled(a)'
    BY DEF TargetsOK, Target, Run, Item
  <2>1. Published(a)' => \A p \in PartsOf(a) : sm'.dst[a].have[p] = sm'.dst[a].have["main"]
    BY GentleTargets DEF SMInv, TargetsOK, Gentle, Target
  <2>2. ASSUME Published(a)', a # "cache", ~Settled(a)'
        PROVE  \E j \in sm'.dst[a].shared : sm'.run[j].pc = "sync" /\ Order[sm'.run[j].i] = a
    <3>1. Published(a) /\ ~Settled(a)
      BY <2>2, GentleTargets
    <3>2. PICK j \in sm.dst[a].shared : sm.run[j].pc = "sync" /\ Order[sm.run[j].i] = a
      BY <2>2, <3>1 DEF SMInv, TargetsOK, Target, Run, Item
    <3>3. j # k
      BY <2>2, <3>2 DEF Settled, Run, Item
    <3>4. j \in Migrators
      BY <3>2, FieldTypes DEF Targets
    <3> QED BY <3>2, <3>3, <3>4 DEF Gentle
  <2>3. a \in sm'.told => Settled(a)'
    BY GentleTargets DEF SMInv, TargetsOK
  <2> QED BY <2>1, <2>2, <2>3
<1>3. \A j \in Migrators \ {k} : (Place(Run(j)) /\ Staged(Run(j)))'
  BY GentleTargets, OthersStand DEF Gentle
<1> QED BY <1>1, <1>2, <1>3 DEF Gentle, SMInv

---------------------------------------------------------------------------
(* The records.                                                            *)

\* A run that is put in place of another.
LEMMA RunPut ==
  ASSUME NEW c, SMTypes(c), NEW k \in Migrators, NEW r \in Runs
  PROVE  /\ SMTypes([c EXCEPT !.run[k] = r])
         /\ [c EXCEPT !.run[k] = r].run = [c.run EXCEPT ![k] = r]
         /\ [c EXCEPT !.run[k] = r].src = c.src /\ [c EXCEPT !.run[k] = r].dst = c.dst
         /\ [c EXCEPT !.run[k] = r].told = c.told /\ [c EXCEPT !.run[k] = r].unsure = c.unsure
BY DEF SMTypes, SMFields

\* A run with other fields.
LEMMA RunWith ==
  ASSUME NEW u \in Runs, NEW pc \in MigrationPcs
  PROVE  /\ [u EXCEPT !.pc = pc] \in Runs
         /\ [u EXCEPT !.pc = pc, !.temp = Absent] \in Runs
         /\ \A i \in ItemSteps : [u EXCEPT !.pc = pc, !.temp = Absent, !.i = i] \in Runs
         /\ \A v \in [Artifacts -> Versions], w \in SUBSET (Artifacts \X Parts) :
               [u EXCEPT !.snap = v, !.todo = w, !.pc = pc] \in Runs
         /\ \A v \in Versions, w \in SUBSET (Artifacts \X Parts) : [u EXCEPT !.temp = v, !.todo = w, !.pc = pc] \in Runs
BY VersionsAre DEF Runs

\* The fields beside the runs and the targets.
Same(c, d) == /\ SMTypes(d) /\ d.run = c.run /\ d.src = c.src /\ d.dst = c.dst /\ d.told = c.told /\ d.unsure = c.unsure
\* What touches neither the runs nor the targets (Failed).
LEMMA FieldsPut ==
  ASSUME NEW c, SMTypes(c)
  PROVE  /\ Same(c, c) /\ Same(c, Failed(c))
         /\ \A l \in SUBSET (Migrators \X Artifacts) : Same(c, [c EXCEPT !.left = l])
         /\ \A d \in {"none", "drift", "raw", "ok"} : Same(c, [c EXCEPT !.dir = d])
BY DEF Same, Failed, SMTypes, SMFields

\* A step that changes its own run alone.
LEMMA OwnStep ==
  ASSUME SMInv, NEW k \in Migrators, NEW r \in Runs, SMTypes(sm'), sm'.run = [sm.run EXCEPT ![k] = r],
         sm'.src = sm.src, sm'.dst = sm.dst, sm'.told = sm.told, sm'.unsure = sm.unsure,
         Run(k).pc # "sync", Place(r), Staged(r)
  PROVE  SMInv'
<1>1. Gentle(k)
  BY FieldTypes DEF Gentle
<1>2. sm'.run[k] = r
  BY FieldTypes DEF SMTypes
<1>3. Place(r)'
  BY OrderIs, GentleTargets, <1>1 DEF Place, Runs, OrderFacts
<1>4. Staged(r)'
  BY DEF Staged, ReadRight
<1>5. (Place(Run(k)) /\ Staged(Run(k)))'
  BY <1>2, <1>3, <1>4 DEF Run
<1> QED BY <1>1, <1>5, GentleKeeps

---------------------------------------------------------------------------
(* The steps.                                                              *)

\* Nothing but the sources changed.
LEMMA Untouched ==
  ASSUME SMInv, SMTypes(sm'), SourcesOK', sm'.run = sm.run, sm'.dst = sm.dst, sm'.told = sm.told, sm'.unsure = sm.unsure
  PROVE  SMInv'
<1>1. /\ \A b \in Artifacts : (Published(b)' <=> Published(b)) /\ (Settled(b)' <=> Settled(b))
      /\ \A k \in Migrators : Run(k)' = Run(k) /\ Item(k)' = Item(k)
  BY DEF Settled, Published, Target, Run, Item
<1>2. TargetsOK'
  <2>1. TargetsOK
    BY DEF SMInv
  <2>2. \A b \in Artifacts : sm'.dst[b].shared \subseteq Migrators
    BY DEF SMTypes, Targets
  <2> QED BY <1>1, <2>1, <2>2 DEF TargetsOK, Target
<1>3. ASSUME NEW k \in Migrators PROVE (Place(Run(k)) /\ Staged(Run(k)))'
  <2>1. /\ sm.run[k] \in Runs /\ sm'.run[k] = sm.run[k] /\ Order[sm.run[k].i] \in Artifacts
        /\ Place(sm.run[k]) /\ Staged(sm.run[k])
    BY FieldTypes DEF SMInv, Run
  <2>2. Place(sm.run[k])'
    BY <1>1, <2>1, OrderIs DEF Place, Runs, OrderFacts
  <2>3. Staged(sm.run[k])'
    BY <2>1 DEF Staged, ReadRight
  <2> QED BY <2>2, <2>3 DEF Run
<1> QED BY <1>2, <1>3 DEF SMInv

\* The service writes to a source (SourceChanges).
LEMMA SourceKeeps == ASSUME SMInv, NEW a \in Artifacts, SourceChanges(a) PROVE SMInv'
<1> DEFINE v == [p \in Parts |-> IF p \in PartsOf(a) THEN sm.src[a][p] + 1 ELSE 0]
<1>0. SMTypes(sm) /\ sm.src[a] \in Versions
  BY DEF SMInv, SMTypes
<1>1. v \in Versions
  BY <1>0 DEF Versions
<1>2. sm' = [sm EXCEPT !.changes = sm.changes + 1, !.src[a] = v]
  BY DEF SourceChanges
<1>3. v["main"] > 0 /\ \A p \in PartsOf(a) : v[p] = v["main"]
  <2>1. PartsOf(a) \subseteq Parts /\ "main" \in PartsOf(a) /\ "main" \in Parts
    BY DEF PartsOf, Parts
  <2>2. sm.src[a]["main"] > 0 /\ (\A p \in PartsOf(a) : sm.src[a][p] = sm.src[a]["main"]) /\ sm.src[a]["main"] \in Nat
    BY <1>0, <2>1 DEF SMInv, SourcesOK, Versions
  <2> QED BY <2>1, <2>2
<1> HIDE DEF v
<1>4. /\ SMTypes(sm') /\ sm'.src = [sm.src EXCEPT ![a] = v] /\ sm'.run = sm.run /\ sm'.dst = sm.dst
      /\ sm'.told = sm.told /\ sm'.unsure = sm.unsure
  BY <1>0, <1>1, <1>2 DEF SMTypes, SMFields
<1>5. SourcesOK'
  BY <1>0, <1>3, <1>4 DEF SMInv, SMTypes, SourcesOK
<1> QED BY <1>4, <1>5, Untouched

\* A plan is refused, or starts from the targets that are there.
LEMMA PlanKeeps == ASSUME SMInv, NEW k \in Migrators, RefusePlan(k) \/ StartPlan(k) PROVE SMInv'
<1>0. Run(k).pc = "new" /\ Place(Run(k))
  BY DEF RefusePlan, StartPlan, SMInv
<1>1. CASE RefusePlan(k)
  <2> DEFINE r == [sm.run[k] EXCEPT !.pc = "error"]
  <2>1. r \in Runs /\ Place(r) /\ Staged(r)
    BY <1>0, FieldTypes DEF Runs, MigrationPcs, Place, Staged, Run
  <2>2. sm' = [sm EXCEPT !.run[k] = r]
    BY <1>1 DEF RefusePlan
  <2> HIDE DEF r
  <2> QED BY <1>0, <2>1, <2>2, RunPut, OwnStep, FieldTypes
<1>2. CASE StartPlan(k)
  <2> DEFINE f == {a \in Artifacts : Published(a)}
             w == {t \in Artifacts \X Parts : t[2] \in PartsOf(t[1])}
             r == [sm.run[k] EXCEPT !.pc = "plan", !.found = f, !.todo = w]
  <2>1. sm' = [sm EXCEPT !.run[k] = r]
    BY <1>2 DEF StartPlan
  <2>2. f \in SUBSET Artifacts /\ w \in SUBSET (Artifacts \X Parts) /\ \A a \in f : Published(a)
    OBVIOUS
  <2> HIDE DEF f, w
  <2>3. r \in Runs /\ Place(r) /\ Staged(r)
    BY <1>0, <2>2, FieldTypes DEF Runs, MigrationPcs, Place, Staged, Run
  <2> HIDE DEF r
  <2> QED BY <1>0, <2>1, <2>3, RunPut, OwnStep, FieldTypes
<1> QED BY <1>1, <1>2

\* A part of a source is looked at.
LEMMA SnapshotKeeps == ASSUME SMInv, NEW k \in Migrators, Snapshot(k) PROVE SMInv'
<1>0. Run(k).pc = "plan" /\ Place(Run(k))
  BY DEF Snapshot, SMInv
<1>1. PICK t \in PlanOrder(k) :
        sm' = [sm EXCEPT !.run[k] = [@ EXCEPT !.snap[t[1]][t[2]] = sm.src[t[1]][t[2]], !.todo = Run(k).todo \ {t},
                                              !.pc = IF Run(k).todo = {t} THEN "dirs" ELSE "plan"]]
  BY DEF Snapshot
<1> DEFINE x == sm.src[t[1]][t[2]]
           y == Run(k).todo \ {t}
           pc == IF Run(k).todo = {t} THEN "dirs" ELSE "plan"
           r == [sm.run[k] EXCEPT !.snap[t[1]][t[2]] = x, !.todo = y, !.pc = pc]
<1>2. sm' = [sm EXCEPT !.run[k] = r]
  BY <1>1
<1>3. t[1] \in Artifacts /\ t[2] \in Parts /\ x \in Nat
  BY FieldTypes DEF PlanOrder, MainFirst, Runs, Versions
<1>4. y \in SUBSET (Artifacts \X Parts) /\ pc \in {"dirs", "plan"}
  BY FieldTypes DEF Runs
<1> HIDE DEF x, y, pc
<1>5. r \in Runs /\ Place(r) /\ Staged(r)
  <2> DEFINE v == [sm.run[k].snap EXCEPT ![t[1]] = [sm.run[k].snap[t[1]] EXCEPT ![t[2]] = x]]
  <2>1. sm.run[k].snap \in [Artifacts -> Versions]
    BY FieldTypes DEF Runs
  <2>2. v \in [Artifacts -> Versions]
    BY <1>3, <2>1 DEF Versions
  <2>3. r = [sm.run[k] EXCEPT !.snap = v, !.todo = y, !.pc = pc]
    OBVIOUS
  <2> HIDE DEF v, r
  <2>4. r \in Runs
    <3>1. sm.run[k] \in Runs /\ pc \in MigrationPcs
      BY <1>4, FieldTypes DEF MigrationPcs
    <3> QED BY <1>4, <2>2, <2>3, <3>1, RunWith
  <2>5. /\ r.i = sm.run[k].i /\ r.found = sm.run[k].found /\ r.pc \in {"dirs", "plan"}
    BY <1>4, <2>3, FieldTypes DEF Runs
  <2> QED BY <1>0, <2>4, <2>5, FieldTypes DEF Place, Staged, Run
<1> HIDE DEF r
<1> QED BY <1>0, <1>2, <1>5, RunPut, OwnStep, FieldTypes

\* The state directory is made ready, or is found half made.
LEMMA DirectoryKeeps == ASSUME SMInv, NEW k \in Migrators, Directories(k) \/ EnsureDirectory(k) PROVE SMInv'
<1>0. Run(k).pc \in {"dirs", "chown"} /\ Place(Run(k)) /\ SMTypes(sm) /\ sm.run[k] \in Runs
  BY FieldTypes DEF Directories, EnsureDirectory, SMInv
<1>1. ASSUME NEW c, Same(sm, c), NEW pc \in {"next", "chown", "error"},
             sm' = [c EXCEPT !.run[k].pc = pc] \/ sm' = Failed([c EXCEPT !.run[k].pc = pc])
      PROVE  SMInv'
  <2> DEFINE r == [sm.run[k] EXCEPT !.pc = pc]
  <2>1. r \in Runs
    BY <1>0, RunWith DEF MigrationPcs
  <2>2. Place(r) /\ Staged(r)
    BY <1>0 DEF Runs, Place, Staged, Run
  <2>3. [c EXCEPT !.run[k].pc = pc] = [c EXCEPT !.run[k] = r]
    BY <1>1 DEF Same
  <2> HIDE DEF r
  <2>4. SMTypes(c) /\ c.run = sm.run /\ c.src = sm.src /\ c.dst = sm.dst /\ c.told = sm.told /\ c.unsure = sm.unsure
    BY <1>1 DEF Same
  <2> DEFINE d == [c EXCEPT !.run[k] = r]
  <2>5. /\ SMTypes(d) /\ d.run = [c.run EXCEPT ![k] = r] /\ d.src = c.src /\ d.dst = c.dst /\ d.told = c.told /\ d.unsure = c.unsure
    BY <2>1, <2>4, RunPut
  <2>6. Same(d, sm')
    BY <1>1, <2>3, <2>5, FieldsPut
  <2> HIDE DEF d
  <2> QED BY <1>0, <2>1, <2>2, <2>4, <2>5, <2>6, OwnStep DEF Same
<1>2. Same(sm, sm) /\ \A d \in {"none", "drift", "raw", "ok"} : Same(sm, [sm EXCEPT !.dir = d])
  BY <1>0, FieldsPut
<1>3. CASE Directories(k)
  <2>1. \/ sm' = [sm EXCEPT !.run[k].pc = "next"]
        \/ sm' = [[sm EXCEPT !.dir = "ok"] EXCEPT !.run[k].pc = "next"]
        \/ sm' = [[sm EXCEPT !.dir = "raw"] EXCEPT !.run[k].pc = "chown"]
        \/ sm' = [sm EXCEPT !.run[k].pc = "error"]
    BY <1>0, <1>3 DEF Directories, SMTypes
  <2> QED BY <1>1, <1>2, <2>1
<1>4. CASE EnsureDirectory(k)
  <2>1. \/ sm' = [[sm EXCEPT !.dir = "ok"] EXCEPT !.run[k].pc = "next"]
        \/ sm' = Failed([[sm EXCEPT !.dir = "none"] EXCEPT !.run[k].pc = "error"])
        \/ sm' = Failed([[sm EXCEPT !.dir = "raw"] EXCEPT !.run[k].pc = "error"])
    <3>1. CASE sm' = [sm EXCEPT !.dir = "ok", !.run[k].pc = "next"]
      BY <1>0, <3>1 DEF SMTypes
    <3>2. ASSUME NEW gone \in BOOLEAN, sm' = Failed([sm EXCEPT !.dir = IF gone THEN "none" ELSE "raw", !.run[k].pc = "error"])
          PROVE  \/ sm' = Failed([[sm EXCEPT !.dir = "none"] EXCEPT !.run[k].pc = "error"])
                 \/ sm' = Failed([[sm EXCEPT !.dir = "raw"] EXCEPT !.run[k].pc = "error"])
      <4>1. CASE gone
        BY <1>0, <3>2, <4>1 DEF SMTypes
      <4>2. CASE ~gone
        BY <1>0, <3>2, <4>2 DEF SMTypes
      <4> QED BY <4>1, <4>2
    <3> QED BY <1>4, <3>1, <3>2 DEF EnsureDirectory
  <2> QED BY <1>1, <1>2, <2>1
<1> QED BY <1>3, <1>4

\* The copy of an artifact begins, with all its parts to be read.
LEMMA StartCopyKeeps == ASSUME SMInv, NEW k \in Migrators, StartCopy(k) PROVE SMInv'
<1>0. Run(k).pc = "next" /\ Place(Run(k)) /\ SMTypes(sm) /\ sm.run[k] \in Runs /\ Item(k) \in Artifacts
  BY FieldTypes DEF StartCopy, SMInv
<1> DEFINE w == {<<Item(k), p>> : p \in PartsOf(Item(k))}
           l == IF Item(k) \in {"config", "cache"} THEN sm.left ELSE sm.left \cup {<<k, Item(k)>>}
           r == [sm.run[k] EXCEPT !.pc = "copy", !.todo = w]
           c == [sm EXCEPT !.run[k] = r]
<1>1. sm' = [c EXCEPT !.left = l]
  BY DEF StartCopy
<1>2. w \in SUBSET (Artifacts \X Parts) /\ \A p \in PartsOf(Item(k)) : <<Item(k), p>> \in w
  BY <1>0 DEF PartsOf, Parts
<1>3. \A t \in w : t[1] = Item(k) /\ t[2] \in PartsOf(Item(k))
  OBVIOUS
<1>4. l \in SUBSET (Migrators \X Artifacts)
  BY <1>0 DEF SMTypes
<1> HIDE DEF w, l
<1>5. r \in Runs
  BY <1>0, <1>2 DEF Runs, MigrationPcs
<1>6. Place(r) /\ Staged(r)
  BY <1>0, <1>2, <1>3 DEF Runs, Place, Staged, Run, Item
<1> HIDE DEF r
<1>7. SMTypes(c) /\ c.run = [sm.run EXCEPT ![k] = r] /\ c.src = sm.src /\ c.dst = sm.dst /\ c.told = sm.told /\ c.unsure = sm.unsure
  BY <1>0, <1>5, RunPut
<1>8. Same(c, sm')
  <2> HIDE DEF c
  <2> QED BY <1>1, <1>4, <1>7, FieldsPut
<1> HIDE DEF c
<1> QED BY <1>0, <1>5, <1>6, <1>7, <1>8, OwnStep DEF Same

\* A part is copied as it was looked at.
LEMMA CopiedKeeps ==
  ASSUME SMInv, NEW k \in Migrators, Run(k).pc = "copy", NEW t \in Run(k).todo, Unchanged(k, t[2]), sm' = Copied(k, t)
  PROVE  SMInv'
<1>0. Place(Run(k)) /\ Staged(Run(k)) /\ SMTypes(sm) /\ sm.run[k] \in Runs /\ Item(k) \in Artifacts
  BY FieldTypes DEF SMInv
<1> DEFINE a == Item(k)
           x == sm.src[t[1]][t[2]]
           y == Run(k).todo \ {t}
           pc == IF Run(k).todo = {t} THEN "link" ELSE "copy"
           v == [sm.run[k].temp EXCEPT ![t[2]] = x]
           r == [sm.run[k] EXCEPT !.temp = v, !.todo = y, !.pc = pc]
<1>1. t \in Artifacts \X Parts /\ t[1] = a /\ t[2] \in PartsOf(a) /\ t = <<a, t[2]>>
  <2>1. t \in Artifacts \X Parts
    BY <1>0 DEF Runs, Run
  <2>2. t[1] = a /\ t[2] \in PartsOf(a)
    BY <1>0 DEF Staged, Run, Item
  <2> QED BY <2>1, <2>2
<1>2. x \in Nat /\ x > 0 /\ x = sm.run[k].snap[a][t[2]]
  <2>1. sm.src \in [Artifacts -> Versions]
    BY <1>0 DEF SMTypes
  <2>2. sm.src[a][t[2]] > 0 /\ sm.src[a][t[2]] = sm.run[k].snap[a][t[2]]
    BY <1>0, <1>1 DEF SMInv, SourcesOK, Unchanged, Run
  <2> QED BY <1>0, <1>1, <2>1, <2>2 DEF Versions
<1>3. v \in Versions
  BY <1>0, <1>1, <1>2 DEF Runs, Versions
<1>4. y \in SUBSET (Artifacts \X Parts) /\ pc \in {"link", "copy"}
  BY <1>0 DEF Runs, Run
<1>5. sm' = [sm EXCEPT !.run[k] = r]
  BY DEF Copied
<1>6. \A p \in PartsOf(a) : v[p] = IF p = t[2] THEN x ELSE sm.run[k].temp[p]
  BY <1>0, <1>1 DEF Runs, Versions, PartsOf, Parts
<1>7. \A p \in PartsOf(a) : <<a, p>> \in y \/ (v[p] = sm.run[k].snap[a][p] /\ v[p] > 0)
  <2> TAKE p \in PartsOf(a)
  <2>1. CASE p = t[2]
    BY <1>2, <1>6, <2>1
  <2>2. CASE p # t[2]
    <3>1. <<a, p>> # t
      BY <1>1, <2>2
    <3>2. <<a, p>> \in Run(k).todo \/ ReadRight(sm.run[k], p)
      BY <1>0 DEF Staged, Run, Item
    <3> QED BY <1>6, <2>2, <3>1, <3>2 DEF ReadRight, Run, Item
  <2> QED BY <2>1, <2>2
<1>8. pc = "link" => y = {}
  OBVIOUS
<1>9. \A u \in y : u[1] = a /\ u[2] \in PartsOf(a)
  BY <1>0 DEF Staged, Run, Item
<1> HIDE DEF x, y, pc, v
<1>10. r \in Runs /\ r.pc = pc /\ r.i = sm.run[k].i /\ r.found = sm.run[k].found /\ r.todo = y /\ r.temp = v /\ r.snap = sm.run[k].snap
  <2>1. r \in Runs
    BY <1>0, <1>3, <1>4, RunWith DEF MigrationPcs
  <2> QED BY <1>0, <2>1 DEF Runs
<1> HIDE DEF r
<1>11. Place(r)
  BY <1>0, <1>4, <1>10 DEF Place, Run
<1>12. Staged(r)
  BY <1>4, <1>7, <1>8, <1>9, <1>10 DEF Staged, ReadRight, Run, Item
<1> QED BY <1>0, <1>5, <1>10, <1>11, <1>12, RunPut, OwnStep

\* A migration that failed, and what it left of its temporary (CleanUp).
LEMMA CleanUpIs ==
  ASSUME SMInv, NEW k \in Migrators, NEW kept \in BOOLEAN
  PROVE  LET c == CleanUp(sm, k, kept) IN
         /\ SMTypes(c) /\ c.src = sm.src /\ c.told = sm.told /\ c.unsure = sm.unsure
         /\ \E r \in Runs : c.run = [sm.run EXCEPT ![k] = r] /\ r.pc = "error" /\ r.i = sm.run[k].i
         /\ \A a \in Artifacts : /\ c.dst[a].have = sm.dst[a].have /\ c.dst[a].durable = sm.dst[a].durable
                                 /\ sm.dst[a].shared \ {k} \subseteq c.dst[a].shared
<1> DEFINE r == [sm.run[k] EXCEPT !.pc = "error", !.temp = Absent]
           l == IF kept THEN sm.left ELSE sm.left \ {<<k, Item(k)>>}
           d == [a \in Artifacts |-> IF kept THEN sm.dst[a] ELSE [sm.dst[a] EXCEPT !.shared = @ \ {k}]]
           c1 == [sm EXCEPT !.run[k] = r]
           c2 == [c1 EXCEPT !.left = l]
<1>0. SMTypes(sm) /\ sm.run[k] \in Runs /\ sm.dst \in [Artifacts -> Targets]
  BY FieldTypes
<1>1. CleanUp(sm, k, kept) = [c2 EXCEPT !.dst = d]
  BY DEF CleanUp
<1>2. r \in Runs
  BY <1>0, RunWith DEF MigrationPcs
<1>3. r.pc = "error" /\ r.i = sm.run[k].i
  BY <1>0 DEF Runs
<1>4. l \in SUBSET (Migrators \X Artifacts)
  BY <1>0 DEF SMTypes
<1>5. d \in [Artifacts -> Targets]
  BY <1>0 DEF Targets
<1>6. \A a \in Artifacts : /\ d[a].have = sm.dst[a].have /\ d[a].durable = sm.dst[a].durable
                           /\ sm.dst[a].shared \ {k} \subseteq d[a].shared
  BY <1>0 DEF Targets
<1> HIDE DEF r, l, d
<1>7. /\ SMTypes(c1) /\ c1.run = [sm.run EXCEPT ![k] = r] /\ c1.src = sm.src /\ c1.told = sm.told /\ c1.unsure = sm.unsure
  BY <1>0, <1>2, RunPut
<1> HIDE DEF c1
<1>8. Same(c1, c2)
  BY <1>4, <1>7, FieldsPut
<1> HIDE DEF c2
<1>9. LET c == [c2 EXCEPT !.dst = d] IN SMTypes(c) /\ c.run = c2.run /\ c.src = c2.src /\ c.told = c2.told /\ c.unsure = c2.unsure /\ c.dst = d
  BY <1>5, <1>8 DEF Same, SMTypes, SMFields
<1> DEFINE e == [c2 EXCEPT !.dst = d]
<1>10. SMTypes(e) /\ e.run = [sm.run EXCEPT ![k] = r] /\ e.src = sm.src /\ e.told = sm.told /\ e.unsure = sm.unsure /\ e.dst = d
  BY <1>7, <1>8, <1>9 DEF Same
<1> HIDE DEF e
<1>11. CleanUp(sm, k, kept) = e
  BY <1>1 DEF e
<1> QED BY <1>2, <1>3, <1>6, <1>10, <1>11

\* However it failed: one that had still to sync has its target in doubt.
LEMMA CleanUpKeeps ==
  ASSUME SMInv, NEW k \in Migrators, NEW kept \in BOOLEAN, NEW c, c = CleanUp(sm, k, kept),
         SMTypes(sm'), sm'.run = c.run, sm'.src = c.src, sm'.dst = c.dst, sm'.told = c.told, c.unsure \subseteq sm'.unsure,
         Run(k).pc = "sync" => Item(k) \in sm'.unsure
  PROVE  SMInv'
<1>0. SMTypes(sm) /\ sm.run \in [Migrators -> Runs] /\ Place(sm.run[k]) /\ sm.run[k].i \in ItemSteps
  BY FieldTypes DEF SMInv, SMTypes, Run
<1>1. PICK r \in Runs : c.run = [sm.run EXCEPT ![k] = r] /\ r.pc = "error" /\ r.i = sm.run[k].i
  BY CleanUpIs
<1>2. Gentle(k)
  BY <1>0, <1>1, CleanUpIs DEF Gentle
<1>3. sm'.run[k] = r
  BY <1>0, <1>1
<1>4. Place(r)' /\ Staged(r)'
  BY <1>0, <1>1, <1>2, GentleTargets, OrderIs DEF Place, Staged, OrderFacts
<1>5. (Place(Run(k)) /\ Staged(Run(k)))'
  BY <1>3, <1>4 DEF Run
<1>6. sm'.told = sm.told
  BY CleanUpIs
<1> QED BY <1>2, <1>5, <1>6, GentleKeeps

\* A copy that fails (CopyPart, Populate, CopyFails).
LEMMA CopyKeeps == ASSUME SMInv, NEW k \in Migrators, CopyPart(k) \/ Populate(k) \/ CopyFails(k) PROVE SMInv'
<1>0. Run(k).pc = "copy" /\ Staged(Run(k)) /\ SMTypes(sm) /\ Item(k) = Order[Run(k).i]
  BY FieldTypes DEF SMInv, CopyPart, Populate, CopyFails
<1> DEFINE c(kept) == CleanUp(sm, k, kept)
<1>1. \A kept \in BOOLEAN : SMTypes(c(kept)) /\ c(kept).unsure = sm.unsure
  BY CleanUpIs
<1>2. CASE sm' = CleanUp(sm, k, FALSE)
  BY <1>0, <1>1, <1>2, CleanUpKeeps
<1>3. CASE \E t \in Run(k).todo : Unchanged(k, t[2]) /\ sm' = Copied(k, t)
  BY <1>0, <1>3, CopiedKeeps
<1>4. ASSUME CopyPart(k) PROVE SMInv'
  <2>1. PICK t \in Run(k).todo : sm' = IF Unchanged(k, t[2]) THEN Copied(k, t) ELSE CleanUp(sm, k, FALSE)
    BY <1>4 DEF CopyPart, MainFirst
  <2> QED BY <1>2, <1>3, <2>1
<1>5. ASSUME Populate(k) PROVE SMInv'
  <2>1. PICK t \in Run(k).todo : sm' = IF Unchanged(k, "main") THEN Copied(k, t) ELSE CleanUp(sm, k, FALSE)
    BY <1>5 DEF Populate
  <2>2. t[2] = "main"
    BY <1>0, <1>5 DEF Populate, Staged, PartsOf
  <2> QED BY <1>2, <1>3, <2>1, <2>2
<1>6. ASSUME CopyFails(k) PROVE SMInv'
  <2>1. PICK kept \in BOOLEAN : sm' = Failed(CleanUp(sm, k, kept))
    BY <1>6 DEF CopyFails
  <2>2. Same(c(kept), sm')
    BY <1>1, <2>1, FieldsPut
  <2> QED BY <1>0, <2>2, CleanUpKeeps DEF Same
<1> QED BY <1>4, <1>5, <1>6

\* The next artifact, or the end (NextItem).
LEMMA NextItemIs ==
  ASSUME SMInv, NEW k \in Migrators, NEW c, SMTypes(c), c.run = sm.run
  PROVE  LET n == NextItem(c, k) IN
         /\ SMTypes(n) /\ n.src = c.src /\ n.dst = c.dst /\ n.unsure = c.unsure
         /\ \E r \in Runs : /\ n.run = [sm.run EXCEPT ![k] = r] /\ r.found = sm.run[k].found
                            /\ \/ r.pc = "done" /\ r.i = sm.run[k].i /\ r.i = 4
                               \/ r.pc = "next" /\ r.i = sm.run[k].i + 1 /\ n.told = c.told
<1>0. sm.run[k] \in Runs /\ Run(k) = sm.run[k] /\ sm.run[k].i \in ItemSteps
  BY FieldTypes
<1>1. CASE Run(k).i = Len(Order)
  <2> DEFINE r == [sm.run[k] EXCEPT !.pc = "done", !.temp = Absent]
             c1 == [c EXCEPT !.run[k] = r]
             n == [c1 EXCEPT !.told = Artifacts]
  <2>1. NextItem(c, k) = n
    BY <1>1 DEF NextItem
  <2>2. r \in Runs
    BY <1>0, RunWith DEF MigrationPcs
  <2>3. r.pc = "done" /\ r.i = sm.run[k].i /\ r.found = sm.run[k].found
    BY <1>0 DEF Runs
  <2> HIDE DEF r
  <2>4. SMTypes(c1) /\ c1.run = [sm.run EXCEPT ![k] = r] /\ c1.src = c.src /\ c1.dst = c.dst /\ c1.unsure = c.unsure
    BY <2>2, RunPut
  <2> HIDE DEF c1
  <2>5. SMTypes(n) /\ n.run = c1.run /\ n.src = c1.src /\ n.dst = c1.dst /\ n.unsure = c1.unsure
    BY <2>4 DEF SMTypes, SMFields
  <2>6. sm.run[k].i = 4
    BY <1>0, <1>1, OrderIs DEF OrderFacts
  <2> HIDE DEF n
  <2> QED BY <2>1, <2>2, <2>3, <2>4, <2>5, <2>6
<1>2. CASE Run(k).i # Len(Order)
  <2> DEFINE i == sm.run[k].i + 1
             r == [sm.run[k] EXCEPT !.pc = "next", !.temp = Absent, !.i = i]
             n == [c EXCEPT !.run[k] = r]
  <2>1. NextItem(c, k) = n
    BY <1>0, <1>2 DEF NextItem
  <2>2. i \in ItemSteps
    BY <1>0, <1>2, OrderIs DEF OrderFacts, ItemSteps
  <2> HIDE DEF i
  <2>3. r \in Runs
    BY <1>0, <2>2, RunWith DEF MigrationPcs
  <2>4. r.pc = "next" /\ r.i = i /\ r.found = sm.run[k].found
    BY <1>0 DEF Runs
  <2> HIDE DEF r
  <2>5. SMTypes(n) /\ n.run = [sm.run EXCEPT ![k] = r] /\ n.src = c.src /\ n.dst = c.dst /\ n.told = c.told /\ n.unsure = c.unsure
    BY <2>3, RunPut
  <2> HIDE DEF n
  <2> QED BY <2>1, <2>3, <2>4, <2>5 DEF i
<1> QED BY <1>1, <1>2

\* A migration goes on from an artifact that is settled.
LEMMA ProceedKeeps ==
  ASSUME SMInv, NEW k \in Migrators, NEW c, SMTypes(c), c.run = sm.run, c.src = sm.src, c.told = sm.told, sm.unsure \subseteq c.unsure,
         \A a \in Artifacts : /\ c.dst[a].have = sm.dst[a].have /\ c.dst[a].durable = sm.dst[a].durable
                              /\ sm.dst[a].shared \ {k} \subseteq c.dst[a].shared,
         Run(k).pc \in {"next", "unlink"}, sm' = NextItem(c, k),
         Item(k) \in c.unsure \/ (Published(Item(k)) /\ Target(Item(k)).durable)
  PROVE  SMInv'
<1>0. Place(sm.run[k]) /\ Run(k) = sm.run[k] /\ Item(k) = Order[sm.run[k].i] /\ sm.run[k].i \in ItemSteps /\ Item(k) \in Artifacts
  BY FieldTypes DEF SMInv, Run
<1>1. SMTypes(sm') /\ sm'.src = sm.src /\ sm'.dst = c.dst /\ sm'.unsure = c.unsure
  BY NextItemIs
<1>2. PICK r \in Runs : /\ sm'.run = [sm.run EXCEPT ![k] = r] /\ r.found = sm.run[k].found
                        /\ \/ r.pc = "done" /\ r.i = sm.run[k].i /\ r.i = 4
                           \/ r.pc = "next" /\ r.i = sm.run[k].i + 1 /\ sm'.told = sm.told
  BY NextItemIs
<1>3. Gentle(k) /\ sm'.run[k] = r
  BY <1>1, <1>2, FieldTypes DEF Gentle, SMTypes
<1>4. \A a \in Artifacts : a = Item(k) => (Settled(a))'
  <2> SUFFICES ASSUME NEW a \in Artifacts, a = Item(k) PROVE (Settled(a))'
    OBVIOUS
  <2>1. a \in c.unsure \/ (sm.dst[a].have # Absent /\ sm.dst[a].durable)
    BY DEF Published, Target
  <2>2. sm'.dst[a].have = sm.dst[a].have /\ sm'.dst[a].durable = sm.dst[a].durable
    BY <1>3 DEF Gentle
  <2> QED BY <1>1, <2>1, <2>2 DEF Settled, Published, Target
<1>5. \A j \in ItemSteps : j <= sm.run[k].i => (Settled(Order[j]))'
  <2> TAKE j \in ItemSteps
  <2>1. Order[j] \in Artifacts
    BY OrderIs DEF OrderFacts
  <2>2. CASE j < sm.run[k].i
    BY <1>0, <1>3, <2>1, <2>2, GentleTargets DEF Place
  <2>3. CASE j = sm.run[k].i
    BY <1>0, <1>4, <2>1, <2>3
  <2> QED BY <1>0, <2>2, <2>3 DEF ItemSteps
<1>6. Staged(r)'
  BY <1>2 DEF Staged
<1>7. Place(r)'
  <2>1. \A j \in ItemSteps : j < r.i => (Settled(Order[j]))'
    BY <1>0, <1>2, <1>5 DEF ItemSteps
  <2>2. r.pc = "next" => \A a \in r.found : (Published(a))'
    <3>1. sm.run[k].found \in SUBSET Artifacts
      BY FieldTypes DEF Runs
    <3> QED BY <1>0, <1>2, <1>3, <3>1, GentleTargets DEF Place
  <2> QED BY <1>2, <2>1, <2>2 DEF Place
<1>8. sm'.told = sm.told \/ \A a \in Artifacts : (Settled(a))'
  <2>1. CASE r.pc = "done"
    <3>1. \A j \in ItemSteps : (Settled(Order[j]))'
      BY <1>2, <1>5, <2>1 DEF ItemSteps
    <3>2. \A a \in Artifacts : \E j \in ItemSteps : a = Order[j]
      BY OrderIs DEF OrderFacts, ItemSteps
    <3> QED BY <3>1, <3>2
  <2>2. CASE r.pc # "done"
    BY <1>2, <2>2
  <2> QED BY <2>1, <2>2
<1>9. (Place(Run(k)) /\ Staged(Run(k)))'
  BY <1>3, <1>6, <1>7 DEF Run
<1> QED BY <1>0, <1>3, <1>8, <1>9, GentleKeeps

\* A target that was found is not written (Skip, CacheThere).
LEMMA FoundKeeps == ASSUME SMInv, NEW k \in Migrators, Skip(k) \/ CacheThere(k) PROVE SMInv'
<1>0. SMTypes(sm) /\ Run(k) = sm.run[k] /\ Item(k) \in Artifacts /\ Run(k).pc = "next" /\ sm' = Found(k)
  BY FieldTypes DEF Skip, CacheThere
<1>1. Published(Item(k))
  <2>1. CASE Skip(k)
    BY <1>0, <2>1 DEF Skip, SMInv, Place
  <2>2. CASE CacheThere(k)
    BY <2>2 DEF CacheThere
  <2> QED BY <2>1, <2>2
<1> DEFINE u == IF Target(Item(k)).durable THEN sm.unsure ELSE sm.unsure \cup {Item(k)}
           c == [sm EXCEPT !.unsure = u]
<1>2. u \in SUBSET Artifacts /\ sm.unsure \subseteq u /\ (Item(k) \in u \/ Target(Item(k)).durable)
  BY <1>0 DEF SMTypes
<1>3. sm' = NextItem(c, k)
  BY <1>0 DEF Found
<1> HIDE DEF u
<1>4. SMTypes(c) /\ c.run = sm.run /\ c.src = sm.src /\ c.told = sm.told /\ c.unsure = u /\ c.dst = sm.dst
  BY <1>0, <1>2 DEF SMTypes, SMFields
<1> HIDE DEF c
<1> QED BY <1>0, <1>1, <1>2, <1>3, <1>4, ProceedKeeps

\* The temporary goes; a target with another link is not taken (Unlink).
LEMMA UnlinkKeeps == ASSUME SMInv, NEW k \in Migrators, Unlink(k) PROVE SMInv'
<1>0. /\ SMTypes(sm) /\ Run(k) = sm.run[k] /\ Item(k) = Order[sm.run[k].i] /\ Item(k) \in Artifacts /\ sm.dst \in [Artifacts -> Targets]
      /\ Run(k).pc = "unlink" /\ Settled(Item(k))
  BY FieldTypes DEF Unlink, SMInv, Place
<1> DEFINE l == sm.left \ {<<k, Item(k)>>}
           v == sm.dst[Item(k)].shared \ {k}
           d == [sm.dst EXCEPT ![Item(k)].shared = v]
           c0 == [sm EXCEPT !.left = l]
           c == [c0 EXCEPT !.dst = d]
           e(kept) == CleanUp(sm, k, kept)
<1>1. \/ sm' = NextItem(c, k)
      \/ sm' = CleanUp(sm, k, FALSE)
      \/ sm' = Failed(CleanUp(sm, k, TRUE))
  BY DEF Unlink
<1>2. d \in [Artifacts -> Targets]
  BY <1>0 DEF Targets
<1>3. \A a \in Artifacts : /\ d[a].have = sm.dst[a].have /\ d[a].durable = sm.dst[a].durable
                           /\ sm.dst[a].shared \ {k} \subseteq d[a].shared
  BY <1>0 DEF Targets
<1>4. l \in SUBSET (Migrators \X Artifacts)
  BY <1>0 DEF SMTypes
<1>5. \A kept \in BOOLEAN : SMTypes(e(kept)) /\ e(kept).unsure = sm.unsure
  BY CleanUpIs
<1>6. CASE sm' = NextItem(c, k)
  <2> HIDE DEF l, v, d
  <2>1. Same(sm, c0)
    BY <1>0, <1>4, FieldsPut
  <2> HIDE DEF c0
  <2>2. SMTypes(c) /\ c.run = sm.run /\ c.src = sm.src /\ c.told = sm.told /\ c.unsure = sm.unsure /\ c.dst = d
    BY <1>2, <2>1 DEF Same, SMTypes, SMFields
  <2> HIDE DEF c
  <2> QED BY <1>0, <1>3, <1>6, <2>2, ProceedKeeps DEF Settled
<1>7. CASE sm' = CleanUp(sm, k, FALSE)
  BY <1>0, <1>5, <1>7, CleanUpKeeps
<1>8. CASE sm' = Failed(CleanUp(sm, k, TRUE))
  <2>1. Same(e(TRUE), sm')
    BY <1>5, <1>8, FieldsPut
  <2> QED BY <1>0, <2>1, CleanUpKeeps DEF Same
<1> QED BY <1>1, <1>6, <1>7, <1>8

\* A target is published, or found published by then (Publish).
LEMMA PublishKeeps == ASSUME SMInv, NEW k \in Migrators, Publish(k) PROVE SMInv'
<1>0. /\ SMTypes(sm) /\ Run(k) = sm.run[k] /\ sm.run[k] \in Runs /\ Item(k) = Order[sm.run[k].i] /\ Item(k) \in Artifacts
      /\ sm.dst \in [Artifacts -> Targets] /\ Run(k).pc = "link" /\ Place(sm.run[k]) /\ Staged(sm.run[k]) /\ sm.run[k].i \in ItemSteps
  BY FieldTypes DEF Publish, SMInv, Run
<1>1. CASE sm' = CleanUp(sm, k, FALSE)
  <2>1. SMTypes(CleanUp(sm, k, FALSE))
    BY CleanUpIs
  <2> QED BY <1>0, <1>1, <2>1, CleanUpKeeps
<1>2. ASSUME Published(Item(k)), Valid(Item(k)),
             sm' = [sm EXCEPT !.run[k].pc = IF Item(k) = "config" \/ Item(k) = "letter" THEN "unlink" ELSE "sync"]
      PROVE  SMInv'
  <2> DEFINE pc == IF Item(k) = "config" \/ Item(k) = "letter" THEN "unlink" ELSE "sync"
             r == [sm.run[k] EXCEPT !.pc = pc]
  <2>1. sm' = [sm EXCEPT !.run[k] = r]
    BY <1>2
  <2>2. pc \in {"unlink", "sync"} /\ (pc = "unlink" => Item(k) # "cache")
    OBVIOUS
  <2> HIDE DEF pc
  <2>3. r \in Runs
    BY <1>0, <2>2, RunWith DEF MigrationPcs
  <2>4. Settled(Item(k)) \/ Item(k) = "cache"
    BY <1>0, <1>2 DEF SMInv, TargetsOK, Valid
  <2>5. r.i = sm.run[k].i /\ r.found = sm.run[k].found /\ r.pc = pc
    BY <1>0 DEF Runs
  <2> HIDE DEF r
  <2>6. Place(r) /\ Staged(r)
    BY <1>0, <1>2, <2>2, <2>4, <2>5 DEF Place, Staged
  <2> QED BY <1>0, <2>1, <2>3, <2>6, RunPut, OwnStep
<1>3. ASSUME NEW a \in Artifacts, a = Item(k), Item(k) = "db" => \A p \in Parts : Unchanged(k, p), ~Published(Item(k)), NEW S \in {{}, {k}}, Item(k) # "cache" => k \in S,
             sm' = [sm EXCEPT !.dst[Item(k)] = [have |-> Run(k).temp, durable |-> FALSE, shared |-> S], !.run[k].pc = "sync"]
      PROVE  SMInv'
  <2> DEFINE T == [have |-> sm.run[k].temp, durable |-> FALSE, shared |-> S]
             d == [sm.dst EXCEPT ![a] = T]
             r == [sm.run[k] EXCEPT !.pc = "sync"]
             c == [sm EXCEPT !.dst = d]
  <2>1. sm' = [c EXCEPT !.run[k] = r]
    BY <1>0, <1>3
  <2>2. sm.run[k].temp \in Versions /\ sm.run[k].temp["main"] > 0 /\ sm.run[k].temp # Absent
    <3>1. sm.run[k].temp \in Versions
      BY <1>0 DEF Runs
    <3>2. "main" \in PartsOf(a)
      BY DEF PartsOf, Parts
    <3> QED BY <1>0, <1>3, <3>1, <3>2, VersionsAre DEF Staged, ReadRight
  <2>3. \A p \in PartsOf(a) : sm.run[k].temp[p] = sm.run[k].temp["main"]
    <3>1. CASE a # "db"
      BY <3>1 DEF PartsOf
    <3>2. CASE a = "db"
      <4>1. \A p \in Parts : sm.run[k].temp[p] = sm.run[k].snap[a][p] /\ sm.src[a][p] = sm.run[k].snap[a][p]
        BY <1>0, <1>3, <3>2 DEF Staged, ReadRight, PartsOf, Unchanged
      <4>2. \A p \in Parts : sm.src[a][p] = sm.src[a]["main"]
        BY <1>0, <3>2 DEF SMInv, SourcesOK, PartsOf
      <4> QED BY <4>1, <4>2 DEF PartsOf, Parts
    <3> QED BY <3>1, <3>2
  <2>4. T \in Targets /\ S \subseteq {k}
    BY <2>2 DEF Targets
  <2>5. d \in [Artifacts -> Targets] /\ d[a] = T /\ \A b \in Artifacts \ {a} : d[b] = sm.dst[b]
    <3> HIDE DEF T
    <3> QED BY <1>0, <2>4
  <2>6. r \in Runs /\ r.i = sm.run[k].i /\ r.found = sm.run[k].found /\ r.pc = "sync"
    BY <1>0 DEF Runs, MigrationPcs
  <2> HIDE DEF d, r
  <2>7. SMTypes(c) /\ c.run = sm.run /\ c.src = sm.src /\ c.told = sm.told /\ c.unsure = sm.unsure /\ c.dst = d
    BY <1>0, <2>5 DEF SMTypes, SMFields
  <2> HIDE DEF c
  <2>8. /\ SMTypes(sm') /\ sm'.run = [sm.run EXCEPT ![k] = r] /\ sm'.src = sm.src /\ sm'.told = sm.told /\ sm'.unsure = sm.unsure
        /\ sm'.dst = d
    BY <2>1, <2>6, <2>7, RunPut
  <2>9. sm'.run[k] = r /\ \A j \in Migrators \ {k} : sm'.run[j] = sm.run[j]
    BY <1>0, <2>8 DEF SMTypes
  <2>10. sm'.dst[a].have = sm.run[k].temp /\ sm'.dst[a].shared = S
    BY <2>5, <2>8
  <2> HIDE DEF T
  <2>11. /\ \A b \in Artifacts : Published(b) => (Published(b))'
         /\ \A b \in Artifacts : Settled(b) => (Settled(b))'
         /\ (Published(a))'
    <3>1. \A b \in Artifacts \ {a} : sm'.dst[b] = sm.dst[b]
      BY <2>5, <2>8
    <3>2. ~Published(a)
      BY <1>3
    <3>3. (Published(a))'
      BY <2>2, <2>10 DEF Published, Target
    <3>4. \A b \in Artifacts : Published(b) => (Published(b))'
      BY <3>1, <3>2 DEF Published, Target
    <3>5. ASSUME NEW b \in Artifacts, Settled(b) PROVE (Settled(b))'
      <4>1. CASE b \in sm.unsure
        BY <2>8, <4>1 DEF Settled
      <4>2. CASE b \notin sm.unsure
        BY <3>1, <3>2, <3>5, <4>2 DEF Settled, Published, Target
      <4> QED BY <4>1, <4>2
    <3> QED BY <3>3, <3>4, <3>5
  <2>12. (Place(Run(k)) /\ Staged(Run(k)))'
    <3>1. sm'.run[k].i = sm.run[k].i /\ sm'.run[k].found = sm.run[k].found /\ sm'.run[k].pc = "sync"
      BY <2>6, <2>9
    <3>2. sm.run[k].found \in SUBSET Artifacts /\ Order[sm.run[k].i] = a
      BY <1>0, <1>3 DEF Runs
    <3>3. \A j \in ItemSteps : j < sm.run[k].i => (Settled(Order[j]))'
      BY <1>0, <2>11, OrderIs DEF Place, OrderFacts
    <3>4. \A b \in sm.run[k].found : (Published(b))'
      BY <1>0, <2>11, <3>2 DEF Place
    <3> QED BY <2>11, <3>1, <3>2, <3>3, <3>4 DEF Place, Staged, Run
  <2>13. \A j \in Migrators : (Place(Run(j)) /\ Staged(Run(j)))'
    BY <2>9, <2>11, <2>12, OthersStand
  <2>14. TargetsOK'
    <3> SUFFICES ASSUME NEW b \in Artifacts
                 PROVE /\ Published(b)' => \A p \in PartsOf(b) : sm'.dst[b].have[p] = sm'.dst[b].have["main"]
                       /\ Published(b)' /\ b # "cache" => Settled(b)' \/ \E j \in sm'.dst[b].shared : sm'.run[j].pc = "sync" /\ Order[sm'.run[j].i] = b
                       /\ b \in sm'.told => Settled(b)'
      BY DEF TargetsOK, Target, Run, Item
    <3>1. b \in sm'.told => Settled(b)'
      BY <2>8, <2>11 DEF SMInv, TargetsOK
    <3>2. CASE b = a
      <4>1. \A p \in PartsOf(b) : sm'.dst[b].have[p] = sm'.dst[b].have["main"]
        BY <2>3, <2>10, <3>2
      <4>2. b # "cache" => k \in sm'.dst[b].shared /\ sm'.run[k].pc = "sync" /\ Order[sm'.run[k].i] = b
        BY <1>0, <1>3, <2>6, <2>9, <2>10, <3>2
      <4> QED BY <3>1, <4>1, <4>2
    <3>3. CASE b # a
      <4>1. sm'.dst[b] = sm.dst[b]
        BY <2>5, <2>8, <3>3
      <4>2. Published(b)' => \A p \in PartsOf(b) : sm'.dst[b].have[p] = sm'.dst[b].have["main"]
        BY <4>1 DEF SMInv, TargetsOK, Published, Target
      <4>3. ASSUME Published(b)', b # "cache", ~Settled(b)'
            PROVE  \E j \in sm'.dst[b].shared : sm'.run[j].pc = "sync" /\ Order[sm'.run[j].i] = b
        <5>1. Published(b) /\ ~Settled(b)
          BY <2>11, <4>1, <4>3 DEF Published, Target
        <5>2. PICK j \in sm.dst[b].shared : sm.run[j].pc = "sync" /\ Order[sm.run[j].i] = b
          BY <4>3, <5>1 DEF SMInv, TargetsOK, Target, Run, Item
        <5>3. j # k /\ j \in Migrators
          BY <1>0, <5>2 DEF Targets
        <5> QED BY <2>9, <4>1, <5>2, <5>3
      <4> QED BY <3>1, <4>2, <4>3
    <3> QED BY <3>2, <3>3
  <2>15. SourcesOK'
    BY <2>8 DEF SMInv, SourcesOK
  <2> QED BY <2>8, <2>13, <2>14, <2>15 DEF SMInv
<1>4. CASE Published(Item(k)) /\ Valid(Item(k)) /\ sm' = IF Valid(Item(k)) THEN [sm EXCEPT !.run[k].pc = IF Item(k) = "config" \/ Item(k) = "letter" THEN "unlink" ELSE "sync"]
                 ELSE CleanUp(sm, k, FALSE)
  BY <1>2, <1>4
<1>5. CASE ~Valid(Item(k)) /\ sm' = IF Valid(Item(k)) THEN [sm EXCEPT !.run[k].pc = IF Item(k) = "config" \/ Item(k) = "letter" THEN "unlink" ELSE "sync"]
                 ELSE CleanUp(sm, k, FALSE)
  BY <1>1, <1>5
<1>6. CASE /\ Item(k) = "db" => \A p \in Parts : Unchanged(k, p)
           /\ ~Published(Item(k))
           /\ sm' = [sm EXCEPT !.dst[Item(k)] = [have |-> Run(k).temp, durable |-> FALSE, shared |-> IF Item(k) = "cache" THEN {} ELSE {k}],
                            !.run[k].pc = "sync"]
  <2> DEFINE S == IF Item(k) = "cache" THEN {} ELSE {k}
  <2>2. S \in {{}, {k}} /\ (Item(k) # "cache" => k \in S)
    OBVIOUS
  <2>3. sm' = [sm EXCEPT !.dst[Item(k)] = [have |-> Run(k).temp, durable |-> FALSE, shared |-> S], !.run[k].pc = "sync"]
    BY <1>6, Zenon
  <2> HIDE DEF S
  <2> QED BY <1>0, <1>3, <1>6, <2>2, <2>3
<1> QED BY <1>1, <1>4, <1>5, <1>6 DEF Publish

\* The directory of the target is synced, or it stays in doubt (SyncTarget).
LEMMA SyncKeeps == ASSUME SMInv, NEW k \in Migrators, SyncTarget(k) PROVE SMInv'
<1>0. /\ SMTypes(sm) /\ Run(k) = sm.run[k] /\ sm.run[k] \in Runs /\ Item(k) = Order[sm.run[k].i] /\ Item(k) \in Artifacts
      /\ sm.dst \in [Artifacts -> Targets] /\ Run(k).pc = "sync" /\ Place(sm.run[k]) /\ sm.run[k].i \in ItemSteps
  BY FieldTypes DEF SyncTarget, SMInv, Run
<1>1. ASSUME NEW a \in Artifacts, a = Item(k), sm' = [sm EXCEPT !.dst[a].durable = TRUE, !.run[k].pc = "unlink"] PROVE SMInv'
  <2> DEFINE r == [sm.run[k] EXCEPT !.pc = "unlink"]
             T == [sm.dst[a] EXCEPT !.durable = TRUE]
             d == [sm.dst EXCEPT ![a] = T]
             c == [sm EXCEPT !.dst = d]
  <2>1. sm' = [c EXCEPT !.run[k] = r]
    BY <1>1
  <2>2. T \in Targets /\ T.have = sm.dst[a].have /\ T.shared = sm.dst[a].shared /\ T.durable = TRUE
    BY <1>0 DEF Targets
  <2>3. r \in Runs /\ r.i = sm.run[k].i /\ r.found = sm.run[k].found /\ r.pc = "unlink"
    BY <1>0 DEF Runs, MigrationPcs
  <2> HIDE DEF T, r
  <2>4. d \in [Artifacts -> Targets] /\ d[a] = T /\ \A b \in Artifacts \ {a} : d[b] = sm.dst[b]
    BY <1>0, <2>2
  <2> HIDE DEF d
  <2>5. SMTypes(c) /\ c.run = sm.run /\ c.src = sm.src /\ c.told = sm.told /\ c.unsure = sm.unsure /\ c.dst = d
    BY <1>0, <2>4 DEF SMTypes, SMFields
  <2> HIDE DEF c
  <2>6. /\ SMTypes(sm') /\ sm'.run = [sm.run EXCEPT ![k] = r] /\ sm'.src = sm.src /\ sm'.told = sm.told /\ sm'.unsure = sm.unsure
        /\ sm'.dst = d
    BY <2>1, <2>3, <2>5, RunPut
  <2>7. sm'.run[k] = r /\ \A j \in Migrators \ {k} : sm'.run[j] = sm.run[j]
    BY <1>0, <2>6 DEF SMTypes
  <2>8. /\ \A b \in Artifacts : sm'.dst[b].have = sm.dst[b].have /\ sm'.dst[b].shared = sm.dst[b].shared
        /\ sm'.dst[a].durable = TRUE /\ \A b \in Artifacts \ {a} : sm'.dst[b].durable = sm.dst[b].durable
    BY <2>2, <2>4, <2>6
  <2>9. /\ \A b \in Artifacts : Published(b) <=> (Published(b))'
        /\ \A b \in Artifacts : Settled(b) => (Settled(b))'
    BY <2>6, <2>8 DEF Published, Settled, Target
  <2>10. Published(a) /\ (Settled(a))'
    <3>1. Published(a)
      BY <1>0, <1>1 DEF Place
    <3> QED BY <2>8, <2>9, <3>1 DEF Settled, Target
  <2>11. (Place(Run(k)) /\ Staged(Run(k)))'
    <3>1. sm'.run[k].i = sm.run[k].i /\ sm'.run[k].found = sm.run[k].found /\ sm'.run[k].pc = "unlink"
      BY <2>3, <2>7
    <3>2. sm.run[k].found \in SUBSET Artifacts /\ Order[sm.run[k].i] = a
      BY <1>0, <1>1 DEF Runs
    <3>3. \A j \in ItemSteps : j < sm.run[k].i => (Settled(Order[j]))'
      BY <1>0, <2>9, OrderIs DEF Place, OrderFacts
    <3>4. \A b \in sm.run[k].found : (Published(b))'
      BY <1>0, <2>9, <3>2 DEF Place
    <3> QED BY <2>9, <2>10, <3>1, <3>2, <3>3, <3>4 DEF Place, Staged, Run
  <2>12. \A j \in Migrators : (Place(Run(j)) /\ Staged(Run(j)))'
    BY <2>7, <2>9, <2>11, OthersStand
  <2>13. TargetsOK'
    <3> SUFFICES ASSUME NEW b \in Artifacts
                 PROVE /\ Published(b)' => \A p \in PartsOf(b) : sm'.dst[b].have[p] = sm'.dst[b].have["main"]
                       /\ Published(b)' /\ b # "cache" => Settled(b)' \/ \E j \in sm'.dst[b].shared : sm'.run[j].pc = "sync" /\ Order[sm'.run[j].i] = b
                       /\ b \in sm'.told => Settled(b)'
      BY DEF TargetsOK, Target, Run, Item
    <3>1. b \in sm'.told => Settled(b)'
      BY <2>6, <2>9 DEF SMInv, TargetsOK
    <3>2. Published(b)' => \A p \in PartsOf(b) : sm'.dst[b].have[p] = sm'.dst[b].have["main"]
      BY <2>8, <2>9 DEF SMInv, TargetsOK, Target
    <3>3. ASSUME Published(b)', b # "cache", ~Settled(b)'
          PROVE  \E j \in sm'.dst[b].shared : sm'.run[j].pc = "sync" /\ Order[sm'.run[j].i] = b
      <4>1. Published(b) /\ ~Settled(b) /\ b # a
        BY <2>9, <2>10, <3>3
      <4>2. PICK j \in sm.dst[b].shared : sm.run[j].pc = "sync" /\ Order[sm.run[j].i] = b
        BY <3>3, <4>1 DEF SMInv, TargetsOK, Target, Run, Item
      <4>3. j # k /\ j \in Migrators
        BY <1>0, <1>1, <4>1, <4>2 DEF Targets
      <4> QED BY <2>7, <2>8, <4>2, <4>3
    <3> QED BY <3>1, <3>2, <3>3
  <2>14. SourcesOK'
    BY <2>6 DEF SMInv, SourcesOK
  <2> QED BY <2>6, <2>12, <2>13, <2>14 DEF SMInv
<1>2. ASSUME NEW kept \in BOOLEAN, sm' = Failed([CleanUp(sm, k, kept) EXCEPT !.unsure = @ \cup {Item(k)}]) PROVE SMInv'
  <2> DEFINE c == CleanUp(sm, k, kept)
             u == sm.unsure \cup {Item(k)}
             d == [c EXCEPT !.unsure = u]
  <2>1. SMTypes(c) /\ c.unsure = sm.unsure
    BY CleanUpIs
  <2>2. sm' = Failed([c EXCEPT !.unsure = u])
    BY <1>2, <2>1
  <2>3. u \in SUBSET Artifacts
    BY <1>0 DEF SMTypes
  <2>4. sm.unsure \subseteq u /\ Item(k) \in u
    OBVIOUS
  <2> HIDE DEF c, u
  <2>5. SMTypes(d) /\ d.run = c.run /\ d.src = c.src /\ d.dst = c.dst /\ d.told = c.told /\ d.unsure = u
    BY <2>1, <2>3 DEF SMTypes, SMFields
  <2>6. Same(d, sm')
    <3> HIDE DEF d
    <3> QED BY <2>2, <2>5, FieldsPut DEF d
  <2> HIDE DEF d
  <2>7. c = CleanUp(sm, k, kept)
    BY DEF c
  <2>8. /\ SMTypes(sm') /\ sm'.run = c.run /\ sm'.src = c.src /\ sm'.dst = c.dst /\ sm'.told = c.told /\ c.unsure \subseteq sm'.unsure
        /\ Item(k) \in sm'.unsure
    BY <2>1, <2>4, <2>5, <2>6 DEF Same
  <2> QED BY <2>7, <2>8, CleanUpKeeps
<1> QED BY <1>0, <1>1, <1>2 DEF SyncTarget

\* The machine stops (MachineStops).
LEMMA MachineKeeps == ASSUME SMInv, MachineStops PROVE SMInv'
<1>0. SMTypes(sm) /\ sm.run \in [Migrators -> Runs] /\ sm.dst \in [Artifacts -> Targets]
  BY DEF SMInv, SMTypes
<1>1. PICK gone \in SUBSET {a \in Artifacts : Published(a) /\ ~Target(a).durable} :
        sm' = Failed([sm EXCEPT !.dst = [a \in Artifacts |-> IF a \in gone THEN NoTarget ELSE [@[a] EXCEPT !.durable = Published(a)]],
                                !.run = [k \in Migrators |-> IF @[k].pc \in {"new", "done"} THEN @[k] ELSE [NoRun EXCEPT !.pc = "error"]]])
  BY DEF MachineStops
<1> DEFINE d == [a \in Artifacts |-> IF a \in gone THEN NoTarget ELSE [sm.dst[a] EXCEPT !.durable = Published(a)]]
           Stopped == [NoRun EXCEPT !.pc = "error"]
           R == [k \in Migrators |-> IF sm.run[k].pc \in {"new", "done"} THEN sm.run[k] ELSE Stopped]
           c == [[sm EXCEPT !.dst = d] EXCEPT !.run = R]
<1>2. sm' = Failed(c)
  BY <1>1
<1>3. NoTarget \in Targets /\ NoTarget.have = Absent
  BY VersionsAre DEF NoTarget, Targets
<1>4. \A a \in Artifacts : Published(a) \in BOOLEAN
  BY DEF Published
<1>5. d \in [Artifacts -> Targets]
  BY <1>0, <1>3, <1>4 DEF Targets
<1>6. \A a \in Artifacts : IF a \in gone THEN d[a] = NoTarget
                           ELSE d[a].have = sm.dst[a].have /\ d[a].durable = Published(a)
  BY <1>0 DEF Targets
<1>7. Stopped \in Runs /\ Stopped.pc = "error" /\ Stopped.i = 1
  <2>1. NoRun \in Runs
    <3>1. [a \in Artifacts |-> Absent] \in [Artifacts -> Versions]
      BY VersionsAre
    <3> QED BY <3>1, VersionsAre DEF NoRun, Runs, MigrationPcs, ItemSteps
  <2> QED BY <2>1, RunWith DEF MigrationPcs, NoRun
<1> HIDE DEF d, Stopped
<1>8. R \in [Migrators -> Runs]
  BY <1>0, <1>7
<1>9. \A k \in Migrators : (R[k] = sm.run[k] /\ sm.run[k].pc \in {"new", "done"}) \/ R[k] = Stopped
  OBVIOUS
<1> HIDE DEF R
<1>10. SMTypes(c) /\ c.run = R /\ c.src = sm.src /\ c.told = sm.told /\ c.unsure = sm.unsure /\ c.dst = d
  BY <1>0, <1>5, <1>8 DEF SMTypes, SMFields
<1> HIDE DEF c
<1>11. SMTypes(sm') /\ sm'.run = R /\ sm'.src = sm.src /\ sm'.told = sm.told /\ sm'.unsure = sm.unsure /\ sm'.dst = d
  BY <1>2, <1>10, FieldsPut DEF Same
<1>12. \A a \in Artifacts : /\ Settled(a) => (Settled(a))'
                            /\ (Published(a))' => Published(a) /\ (Settled(a))' /\ sm'.dst[a].have = sm.dst[a].have
  <2> TAKE a \in Artifacts
  <2>1. CASE a \in gone
    <3>1. ~(Published(a))'
      BY <1>3, <1>6, <1>11, <2>1 DEF Published, Target
    <3>2. Settled(a) => (Settled(a))'
      BY <1>1, <1>11, <2>1 DEF Settled, Target
    <3> QED BY <3>1, <3>2
  <2>2. CASE a \notin gone
    <3>1. sm'.dst[a].have = sm.dst[a].have /\ sm'.dst[a].durable = Published(a)
      BY <1>6, <1>11, <2>2
    <3> QED BY <1>11, <3>1 DEF Settled, Published, Target
  <2> QED BY <2>1, <2>2
<1>13. TargetsOK'
  <2>1. TargetsOK
    BY DEF SMInv
  <2> QED BY <1>11, <1>12, <2>1 DEF TargetsOK, Target
<1>14. SourcesOK'
  BY <1>11 DEF SMInv, SourcesOK
<1>15. ASSUME NEW k \in Migrators PROVE (Place(Run(k)) /\ Staged(Run(k)))'
  <2>1. Place(sm.run[k]) /\ sm.run[k].i \in ItemSteps
    BY FieldTypes DEF SMInv, Run
  <2>2. sm'.run[k].pc \in {"new", "done", "error"} /\ \A j \in ItemSteps : j < sm'.run[k].i => (Settled(Order[j]))'
    BY <1>7, <1>9, <1>11, <1>12, <2>1, OrderIs DEF Place, OrderFacts, ItemSteps
  <2> QED BY <2>2 DEF Place, Staged, Run
<1> QED BY <1>11, <1>13, <1>14, <1>15 DEF SMInv

---------------------------------------------------------------------------
\* Before a migration begins.
LEMMA MigrationStarts == SMInit => SMInv
<1> SUFFICES ASSUME SMInit PROVE SMInv
  OBVIOUS
<1> DEFINE S == [a \in Artifacts |-> [p \in Parts |-> IF p \in PartsOf(a) THEN 1 ELSE 0]]
<1>1. S \in [Artifacts -> Versions] /\ \A a \in Artifacts : \A p \in PartsOf(a) : S[a][p] = 1
  BY DEF Versions, PartsOf, Parts
<1>2. \A a \in Artifacts : "main" \in PartsOf(a)
  BY DEF PartsOf, Parts
<1> HIDE DEF S
<1>3. NoTarget \in Targets /\ NoTarget.have = Absent
  BY VersionsAre DEF NoTarget, Targets
<1>4. NoRun \in Runs /\ NoRun.pc = "new" /\ NoRun.i = 1
  <2>1. [a \in Artifacts |-> Absent] \in [Artifacts -> Versions]
    BY VersionsAre
  <2> QED BY <2>1, VersionsAre DEF NoRun, Runs, MigrationPcs, ItemSteps
<1>5. PICK dir \in {"none", "drift"} :
        sm = [src |-> S, dst |-> [a \in Artifacts |-> NoTarget], left |-> {}, dir |-> dir, run |-> [k \in Migrators |-> NoRun],
              told |-> {}, unsure |-> {}, changes |-> 0, failures |-> 0]
  BY DEF SMInit, S
<1>6. SMTypes(sm)
  BY <1>1, <1>3, <1>4, <1>5 DEF SMTypes, SMFields
<1>7. SourcesOK /\ TargetsOK
  BY <1>1, <1>2, <1>3, <1>5 DEF SourcesOK, TargetsOK, Published, Target
<1>8. \A k \in Migrators : Run(k) = NoRun
  BY <1>5 DEF Run
<1>9. Place(NoRun) /\ Staged(NoRun)
  BY <1>4 DEF Place, Staged, ItemSteps
<1> QED BY <1>6, <1>7, <1>8, <1>9 DEF SMInv

\* Every step of a migration, of the service and of the machine keeps the invariant.
LEMMA MigrationSteps == SMInv /\ [SMNext]_sm => SMInv'
<1> SUFFICES ASSUME SMInv, [SMNext]_sm PROVE SMInv'
  OBVIOUS
<1>1. CASE UNCHANGED sm
  <2>1. SMTypes(sm) /\ SourcesOK
    BY DEF SMInv
  <2>2. SMTypes(sm') /\ SourcesOK'
    BY <1>1, <2>1 DEF SourcesOK
  <2> QED BY <1>1, <2>2, Untouched
<1>2. CASE MachineStops
  BY <1>2, MachineKeeps
<1>3. ASSUME NEW a \in Artifacts, SourceChanges(a) PROVE SMInv'
  BY <1>3, SourceKeeps
<1>4. ASSUME NEW k \in Migrators, Migrate(k) PROVE SMInv'
  BY <1>4, PlanKeeps, SnapshotKeeps, DirectoryKeeps, FoundKeeps, StartCopyKeeps, CopyKeeps, PublishKeeps, SyncKeeps, UnlinkKeeps DEF Migrate
<1> QED BY <1>1, <1>2, <1>3, <1>4 DEF SMNext

\* What is published is one version of its source, and what a finished migration
\* reported is there and durable, whatever ran or failed beside it (apply_plan, the
\* snapshots of fs and the publication without replacement).
THEOREM MigrationAlwaysWhole == SMSpec => []MigrationWhole
<1>1. SMInv => MigrationWhole
  <2> SUFFICES ASSUME SMInv PROVE MigrationWhole
    OBVIOUS
  <2>1. sm.told \subseteq Artifacts
    BY DEF SMInv, SMTypes
  <2> QED BY <2>1 DEF SMInv, TargetsOK, Settled, MigrationWhole
<1> QED BY <1>1, MigrationStarts, MigrationSteps, PTL DEF SMSpec

\* A migration changes no target: a step leaves the content of every published one, or
\* the machine lost it before it was durable.
LEMMA TargetsStay ==
  ASSUME SMInv, [SMNext]_sm, NEW a \in Artifacts, Published(a)
  PROVE  sm'.dst[a].have \in {Target(a).have, Absent} /\ (sm'.dst[a].have = Absent => ~Target(a).durable)
<1>0. SMTypes(sm) /\ sm.dst \in [Artifacts -> Targets] /\ Target(a) = sm.dst[a] /\ sm.dst[a].have # Absent
  BY DEF SMInv, SMTypes, Target, Published
<1> SUFFICES sm'.dst[a].have = sm.dst[a].have \/ (sm'.dst[a].have = Absent /\ ~sm.dst[a].durable)
  BY <1>0
<1>1. CASE UNCHANGED sm
  BY <1>1
<1>2. CASE MachineStops
  <2>1. PICK gone \in SUBSET {b \in Artifacts : Published(b) /\ ~Target(b).durable} :
          sm' = Failed([sm EXCEPT !.dst = [b \in Artifacts |-> IF b \in gone THEN NoTarget ELSE [@[b] EXCEPT !.durable = Published(b)]],
                                  !.run = [k \in Migrators |-> IF @[k].pc \in {"new", "done"} THEN @[k] ELSE [NoRun EXCEPT !.pc = "error"]]])
    BY <1>2 DEF MachineStops
  <2> DEFINE d == [b \in Artifacts |-> IF b \in gone THEN NoTarget ELSE [sm.dst[b] EXCEPT !.durable = Published(b)]]
  <2>2. sm'.dst = d
    BY <1>0, <2>1 DEF Failed, SMTypes, SMFields
  <2>3. d[a].have = sm.dst[a].have \/ (d[a].have = Absent /\ ~sm.dst[a].durable)
    BY <1>0, <2>1 DEF Targets, NoTarget
  <2> QED BY <2>2, <2>3
<1>3. ASSUME NEW b \in Artifacts, SourceChanges(b) PROVE sm'.dst = sm.dst
  BY <1>0, <1>3 DEF SourceChanges, SMTypes, SMFields
<1>4. ASSUME NEW k \in Migrators, Migrate(k) PROVE sm'.dst[a].have = sm.dst[a].have
  <2>0. \A kept \in BOOLEAN : /\ SMTypes(CleanUp(sm, k, kept)) /\ SMTypes(Failed(CleanUp(sm, k, kept)))
                              /\ CleanUp(sm, k, kept).dst[a].have = sm.dst[a].have
                              /\ Failed(CleanUp(sm, k, kept)).dst[a].have = sm.dst[a].have
    <3> SUFFICES ASSUME NEW kept \in BOOLEAN
                 PROVE /\ SMTypes(CleanUp(sm, k, kept)) /\ SMTypes(Failed(CleanUp(sm, k, kept)))
                       /\ CleanUp(sm, k, kept).dst[a].have = sm.dst[a].have
                       /\ Failed(CleanUp(sm, k, kept)).dst[a].have = sm.dst[a].have
      OBVIOUS
    <3>1. SMTypes(CleanUp(sm, k, kept)) /\ CleanUp(sm, k, kept).dst[a].have = sm.dst[a].have
      BY CleanUpIs
    <3> QED BY <3>1, FieldsPut DEF Same
  <2>1. ASSUME NEW c, Same(sm, c), NEW pc, sm' = [c EXCEPT !.run[k].pc = pc] \/ sm' = Failed([c EXCEPT !.run[k].pc = pc])
        PROVE  sm'.dst[a].have = sm.dst[a].have
    BY <2>1 DEF Same, SMTypes, SMFields, Failed
  <2>2. CASE RefusePlan(k) \/ StartPlan(k) \/ Snapshot(k)
    BY <1>0, <2>2 DEF RefusePlan, StartPlan, Snapshot, SMTypes, SMFields
  <2>3. CASE Directories(k) \/ EnsureDirectory(k)
    <3>1. Same(sm, sm) /\ \A d \in {"none", "drift", "raw", "ok"} : Same(sm, [sm EXCEPT !.dir = d])
      BY <1>0, FieldsPut
    <3>2. CASE Directories(k)
      BY <2>1, <3>1, <3>2 DEF Directories
    <3>3. CASE EnsureDirectory(k)
      BY <2>1, <3>1, <3>3 DEF EnsureDirectory
    <3> QED BY <2>3, <3>2, <3>3
  <2>4. ASSUME NEW U \in SUBSET Artifacts, sm' = NextItem([sm EXCEPT !.unsure = U], k) PROVE sm'.dst[a].have = sm.dst[a].have
    <3> DEFINE c == [sm EXCEPT !.unsure = U]
    <3>1. SMTypes(c) /\ c.run = sm.run /\ c.dst = sm.dst
      BY <1>0 DEF SMTypes, SMFields
    <3>2. sm' = NextItem(c, k)
      BY <2>4
    <3> HIDE DEF c
    <3> QED BY <3>1, <3>2, NextItemIs
  <2>5. CASE Skip(k) \/ CacheThere(k)
    <3> DEFINE U == IF Target(Item(k)).durable THEN sm.unsure ELSE sm.unsure \cup {Item(k)}
    <3>1. U \in SUBSET Artifacts
      BY <1>0, FieldTypes DEF SMTypes
    <3>2. sm' = NextItem([sm EXCEPT !.unsure = U], k)
      BY <2>5 DEF Skip, CacheThere, Found
    <3> HIDE DEF U
    <3> QED BY <2>4, <3>1, <3>2
  <2>6. CASE StartCopy(k)
    BY <1>0, <2>6 DEF StartCopy, SMTypes, SMFields
  <2>7. \A t : Copied(k, t).dst = sm.dst
    BY <1>0 DEF Copied, SMTypes, SMFields
  <2>8. CASE CopyPart(k) \/ Populate(k) \/ CopyFails(k)
    BY <2>0, <2>7, <2>8 DEF CopyPart, Populate, CopyFails
  <2>9. CASE Publish(k)
    <3>1. CASE sm' = CleanUp(sm, k, FALSE)
      BY <2>0, <3>1
    <3>2. ASSUME NEW pc, sm' = [sm EXCEPT !.run[k].pc = pc] PROVE sm'.dst[a].have = sm.dst[a].have
      BY <1>0, <3>2 DEF SMTypes, SMFields
    <3>4. CASE Published(Item(k)) /\ sm' = IF Valid(Item(k)) THEN [sm EXCEPT !.run[k].pc = IF Item(k) = "config" \/ Item(k) = "letter" THEN "unlink" ELSE "sync"]
                                            ELSE CleanUp(sm, k, FALSE)
      BY <3>1, <3>2, <3>4
    <3>5. CASE ~Published(Item(k))
      <4>1. Item(k) # a
        BY <3>5
      <4> DEFINE T == [have |-> Run(k).temp, durable |-> FALSE, shared |-> IF Item(k) = "cache" THEN {} ELSE {k}]
      <4>2. sm' = CleanUp(sm, k, FALSE) \/ sm' = [sm EXCEPT !.dst[Item(k)] = T, !.run[k].pc = "sync"]
        BY <2>9, <3>5, Zenon DEF Publish
      <4> HIDE DEF T
      <4>3. CASE sm' = [sm EXCEPT !.dst[Item(k)] = T, !.run[k].pc = "sync"]
        <5>1. sm'.dst = [sm.dst EXCEPT ![Item(k)] = T]
          BY <1>0, <4>3 DEF SMTypes, SMFields
        <5> QED BY <1>0, <4>1, <5>1
      <4> QED BY <3>1, <4>2, <4>3
    <3> QED BY <2>9, <3>1, <3>4, <3>5 DEF Publish
  <2>10. CASE SyncTarget(k)
    <3>1. CASE sm' = [sm EXCEPT !.dst[Item(k)].durable = TRUE, !.run[k].pc = "unlink"]
      <4>1. sm'.dst = [sm.dst EXCEPT ![Item(k)] = [sm.dst[Item(k)] EXCEPT !.durable = TRUE]]
        BY <1>0, <3>1 DEF SMTypes, SMFields
      <4> QED BY <1>0, <4>1 DEF Targets
    <3>2. ASSUME NEW kept \in BOOLEAN, sm' = Failed([CleanUp(sm, k, kept) EXCEPT !.unsure = @ \cup {Item(k)}])
          PROVE  sm'.dst[a].have = sm.dst[a].have
      <4> DEFINE c == CleanUp(sm, k, kept)
      <4>1. SMTypes(c) /\ c.dst[a].have = sm.dst[a].have
        BY <2>0
      <4>2. sm' = Failed([c EXCEPT !.unsure = @ \cup {Item(k)}])
        BY <3>2
      <4> HIDE DEF c
      <4> QED BY <4>1, <4>2 DEF Failed, SMTypes, SMFields
    <3> QED BY <2>10, <3>1, <3>2 DEF SyncTarget
  <2>11. CASE Unlink(k)
    <3> DEFINE l == sm.left \ {<<k, Item(k)>>}
               v == sm.dst[Item(k)].shared \ {k}
               d == [sm.dst EXCEPT ![Item(k)].shared = v]
               c0 == [sm EXCEPT !.left = l]
               c == [c0 EXCEPT !.dst = d]
    <3>1. sm' = NextItem(c, k) \/ sm' = CleanUp(sm, k, FALSE) \/ sm' = Failed(CleanUp(sm, k, TRUE))
      BY <2>11 DEF Unlink
    <3>2. d \in [Artifacts -> Targets] /\ d[a].have = sm.dst[a].have
      BY <1>0, FieldTypes DEF Targets
    <3>3. l \in SUBSET (Migrators \X Artifacts)
      BY <1>0 DEF SMTypes
    <3>4. CASE sm' = NextItem(c, k)
      <4> HIDE DEF l, v, d
      <4>1. Same(sm, c0)
        BY <1>0, <3>3, FieldsPut
      <4> HIDE DEF c0
      <4>2. SMTypes(c) /\ c.run = sm.run /\ c.dst = d
        BY <3>2, <4>1 DEF Same, SMTypes, SMFields
      <4> HIDE DEF c
      <4> QED BY <3>2, <3>4, <4>2, NextItemIs
    <3> QED BY <2>0, <3>1, <3>4
  <2> QED BY <1>4, <2>2, <2>3, <2>5, <2>6, <2>8, <2>9, <2>10, <2>11 DEF Migrate
<1> QED BY <1>1, <1>2, <1>3, <1>4 DEF SMNext

\* No step replaces what is at a target (os.link and RENAME_NOREPLACE of Publish;
\* CleanUp and Unlink take only temporaries).
THEOREM MigrationReplacesNothing == SMSpec => NothingReplaced
<1>1. SMInv /\ [SMNext]_sm => [\A a \in Artifacts : Published(a) => sm'.dst[a].have \in {Target(a).have, Absent}
                                                     /\ (sm'.dst[a].have = Absent => ~Target(a).durable)]_sm
  BY TargetsStay
<1> QED BY <1>1, MigrationStarts, MigrationSteps, PTL DEF SMSpec, NothingReplaced

-----------------------------------------------------------------------------
(***************************************************************************)
(* The volume of images.  What is reported is durable unless an entry above *)
(* it is known not to be, and what the retention removes was old when it    *)
(* looked; the tool finds the volume empty or its marker in both views of   *)
(* the disk, and while one view of the marker is missing the whole backup   *)
(* is in both views of the volume and nothing else can take its place.      *)
(***************************************************************************)

Marks == {"fresh", "stale", "none", "gone"}
Volumes == [Images -> Marks]
Dirs == {"none", "made", "unsure", "durable"}
Pubs == [pc : {"idle", "mkdir", "temp", "sync"}, name : Images, temp : BOOLEAN, out : {"none", "ok", "error", "uncertain"}]
Rets == [pc : {"idle", "run", "delete", "end"}, todo : SUBSET Images, stale : SUBSET Images]
Clis == [pc : {"idle", "mark", "copy", "rmdir", "rename", "sync", "clear", "swept"}, copied : SUBSET Images, began : BOOLEAN,
         unsynced : BOOLEAN]
Bks == [pc : {"idle", "write", "archive", "manifest", "done"}, seen : SUBSET Images]
Ends == Backups \cup {"none"}
Pairs == [archive : Ends, manifest : Ends]
IMFields == {"img", "dimg", "dir", "behind", "marker", "dmarker", "gw", "lock", "pub", "ret", "cli", "bk", "pair", "dirty", "acked",
             "shaky", "faults"}

\* The type invariant, field by field.
IMTypes(s) ==
  /\ DOMAIN s = IMFields
  /\ s.img \in Volumes /\ s.dimg \in Volumes /\ s.dir \in Dirs /\ s.behind \in SUBSET Volumes
  /\ s.marker \in BOOLEAN /\ s.dmarker \in BOOLEAN
  /\ s.gw \in {"on", "off"} /\ s.lock \in {"free", "pub", "ret"}
  /\ s.pub \in Pubs /\ s.ret \in Rets /\ s.cli \in Clis
  /\ s.bk \in [Backups -> Bks] /\ s.pair \in Pairs /\ s.dirty \in BOOLEAN
  /\ s.acked \in SUBSET Images /\ s.shaky \in SUBSET Images /\ s.faults \in Nat

\* A volume with every image of the backup, and one with no image of a research.
Holds(v) == \A n \in Backup : v[n] \in {"fresh", "stale"}
Flat(v) == \A n \in Nested : v[n] \notin {"fresh", "stale"}
\* Who works on the volume: the gateway or the tool, and within the gateway the one with the lock.
TurnsOK(s) ==
  /\ s.gw = "on" => s.cli.pc = "idle" /\ ~s.cli.began
  /\ s.pub.pc # "idle" => s.gw = "on" /\ s.lock = "pub"
  /\ s.ret.pc # "idle" => s.gw = "on" /\ s.lock = "ret"
  /\ s.pub.out = "error" => s.gw = "on"
\* What was reported is in both views, and unless it is shaky the entries above it are durable.
ReportedOK(s) ==
  \A n \in s.acked : /\ s.img[n] = "fresh" /\ s.dimg[n] = "fresh"
                     /\ n \notin s.shaky => s.behind = {} /\ (n \in Nested => s.dir = "durable")
\* The research directory is there for what is in it, and for what is going to be.
DirectoryOK(s) ==
  /\ s.dir \in {"none", "made"} => Flat(s.img)
  /\ s.dir = "made" <=> s.pub.pc = "mkdir"
  /\ s.pub.pc \in {"temp", "sync"} /\ s.pub.name \in Nested => s.dir \in {"unsure", "durable"}
\* A temporary name hides nothing, and what is removed was old when it was looked at.
NamesOK(s) ==
  /\ s.pub.pc \in {"mkdir", "temp"} \/ (s.pub.out = "error" /\ s.pub.pc = "idle") => s.img[s.pub.name] = "none"
  /\ s.pub.pc = "sync" => s.img[s.pub.name] = "fresh"
  /\ \A n \in s.ret.stale : s.ret.pc = "delete" /\ s.img[n] = "stale"
EntriesOK(s) == ReportedOK(s) /\ DirectoryOK(s) /\ NamesOK(s)
\* What the tool has done. Once a restore began, and unless a second call cleared the
\* marker of a rename that was not synced, either both views of the marker are there or
\* the volume has the backup and no other can take its place.
RestoreOK(s) ==
  /\ s.cli.pc \in {"mark", "copy", "rmdir", "rename"} => s.acked = {} /\ s.dir = "none"
  /\ s.cli.pc = "mark" => ~Holds(s.img)
  /\ s.cli.pc \in {"copy", "rmdir", "rename", "sync"} => s.marker /\ s.dmarker
  /\ s.cli.pc \in {"sync", "clear", "swept"} => Holds(s.img)
  /\ s.cli.began => s.dir \in {"none", "durable"} /\ (Holds(s.img) => Holds(s.dimg))
  /\ s.cli.began /\ ~s.cli.unsynced => (s.marker /\ s.dmarker) \/ (Holds(s.img) /\ s.behind = {})
  /\ s.cli.pc \in {"clear", "swept"} /\ s.cli.began /\ ~s.cli.unsynced => s.behind = {}
VolumeOK(s) == TurnsOK(s) /\ EntriesOK(s) /\ RestoreOK(s)
\* What is at the destination belongs to the backup that linked it.
PairOK(s) ==
  /\ \A b \in Backups : /\ s.bk[b].pc \in {"write", "archive"} => s.pair.archive # b /\ s.pair.manifest # b
                        /\ s.bk[b].pc = "manifest" => /\ s.pair.archive = b /\ s.pair.manifest # b
                                                      /\ ~s.dirty => s.pair.manifest = "none"
                        /\ s.bk[b].pc = "done" => s.pair.archive = b /\ s.pair.manifest = b
  /\ ~s.dirty /\ s.pair.archive # s.pair.manifest => \E b \in Backups : s.bk[b].pc = "manifest"
IMInv == IMTypes(im) /\ VolumeOK(im) /\ PairOK(im)

\* The fields a step may change.
Changes(F) == DOMAIN im' = IMFields /\ \A f \in IMFields \ F : im'[f] = im[f]
\* The constants of the volume.
LEMMA VolumesAre ==
  /\ Gone \in Volumes /\ Empty \in Volumes /\ Whole \in Volumes
  /\ Holds(Whole) /\ ~Holds(Empty) /\ ~Holds(Gone) /\ Flat(Empty) /\ Flat(Gone)
  /\ Backup \cap Nested = {} => Flat(Whole)
  /\ NoPub \in Pubs /\ NoPub.pc = "idle" /\ NoPub.out = "none" /\ NoBackup \in Bks /\ NoBackup.pc = "idle"
<1>1. Images # {} /\ Backup \subseteq Images /\ Backup # {} /\ Nested \subseteq Images
  BY VolumeAssumption
<1>2. Gone \in Volumes /\ Empty \in Volumes /\ Whole \in Volumes
  BY DEF Gone, Empty, Whole, Volumes, Marks
<1>3. Holds(Whole) /\ ~Holds(Empty) /\ ~Holds(Gone)
  BY <1>1 DEF Gone, Empty, Whole, Holds
<1>7. Flat(Empty) /\ Flat(Gone) /\ (Backup \cap Nested = {} => Flat(Whole))
  BY <1>1 DEF Gone, Empty, Whole, Flat
<1>4. (CHOOSE n \in Images : TRUE) \in Images
  BY <1>1
<1>5. NoPub \in Pubs /\ NoPub.pc = "idle" /\ NoPub.out = "none"
  BY <1>4 DEF NoPub, Pubs
<1>6. NoBackup \in Bks /\ NoBackup.pc = "idle"
  BY DEF NoBackup, Bks
<1> QED BY <1>2, <1>3, <1>5, <1>6, <1>7

\* The gateway and the tool leave the destination of the backups alone.
LEMMA PairStays ==
  ASSUME IMInv, im'.bk = im.bk, im'.pair = im.pair, im'.dirty = im.dirty
  PROVE  PairOK(im')
BY DEF IMInv, PairOK

\* What the invariant says of the parts.
LEMMA VolumeFacts ==
  ASSUME IMInv
  PROVE  /\ DOMAIN im = IMFields /\ im.img \in Volumes /\ im.dimg \in Volumes /\ im.dir \in Dirs /\ im.behind \in SUBSET Volumes
         /\ im.marker \in BOOLEAN /\ im.dmarker \in BOOLEAN /\ im.pub \in Pubs /\ im.ret \in Rets /\ im.cli \in Clis
         /\ im.bk \in [Backups -> Bks] /\ im.pair \in Pairs /\ im.dirty \in BOOLEAN
         /\ im.acked \in SUBSET Images /\ im.shaky \in SUBSET Images /\ im.faults \in Nat /\ im.faults + 1 \in Nat
         /\ im.pub.name \in Images /\ im.pub.temp \in BOOLEAN
         /\ TurnsOK(im) /\ ReportedOK(im) /\ DirectoryOK(im) /\ NamesOK(im) /\ RestoreOK(im)
BY DEF IMInv, IMTypes, VolumeOK, EntriesOK, Pubs

\* While the gateway is on nothing but its own account of the volume can go wrong.
LEMMA GatewaySteps ==
  ASSUME IMInv, Changes({"img", "dimg", "dir", "gw", "lock", "pub", "ret", "cli", "acked", "shaky", "faults"}),
         im'.img \in Volumes, im'.dimg \in Volumes, im'.dir \in Dirs, im'.gw \in {"on", "off"}, im'.lock \in {"free", "pub", "ret"},
         im'.pub \in Pubs, im'.ret \in Rets, im'.cli \in Clis, im'.acked \in SUBSET Images, im'.shaky \in SUBSET Images,
         im'.faults \in Nat, im'.cli.pc = "idle", ~im'.cli.began,
         TurnsOK(im'), ReportedOK(im'), DirectoryOK(im'), NamesOK(im')
  PROVE  IMInv'
<1>1. IMTypes(im')
  BY DEF IMInv, IMTypes, Changes, IMFields
<1>2. RestoreOK(im')
  BY DEF RestoreOK
<1> QED BY <1>1, <1>2, PairStays DEF Changes, IMFields, IMInv, VolumeOK, EntriesOK

\* What a sync of the images directory does.
LEMMA SyncRootIs ==
  ASSUME IMInv, NEW c, DOMAIN c = IMFields, c.img = im.img, c.dimg = im.dimg, c.behind = im.behind, c.dir \in Dirs,
         c.shaky = im.shaky, NEW r, r = SyncRoot(c)
  PROVE  /\ DOMAIN r = IMFields /\ \A f \in IMFields \ {"dimg", "dir", "shaky"} : r[f] = c[f]
         /\ r.dimg \in Volumes /\ r.dir \in Dirs /\ r.shaky \in SUBSET Images
         /\ \A n \in Images : r.dimg[n] = IF n \in Nested /\ c.dir # "none" THEN im.dimg[n] ELSE im.img[n]
         /\ r.dir = (IF c.dir = "none" THEN "none" ELSE "durable")
         /\ r.shaky = (IF im.behind = {} THEN {} ELSE im.shaky)
<1> DEFINE w == [n \in Images |-> IF n \in Nested /\ c.dir # "none" THEN im.dimg[n] ELSE im.img[n]]
           d == IF c.dir = "none" THEN "none" ELSE "durable"
           h == IF im.behind = {} THEN {} ELSE im.shaky
<1>1. /\ DOMAIN r = IMFields /\ \A f \in IMFields \ {"dimg", "dir", "shaky"} : r[f] = c[f]
      /\ r.dimg = w /\ r.dir = d /\ r.shaky = h
  BY DEF SyncRoot, IMFields
<1>2. w \in Volumes /\ h \in SUBSET Images /\ d \in Dirs
  BY VolumeFacts DEF Volumes, Marks, Dirs
<1>3. \A n \in Images : w[n] = IF n \in Nested /\ c.dir # "none" THEN im.dimg[n] ELSE im.img[n]
  OBVIOUS
<1> HIDE DEF w
<1> QED BY <1>1, <1>2, <1>3

\* A sync of the images directory leaves what was reported in both views.
LEMMA SyncKeepsReports ==
  ASSUME IMInv, im'.img = im.img, im'.behind = im.behind, NEW d \in Dirs, d = im.dir \/ (im.dir = "made" /\ d = "unsure"),
         \A n \in Images : im'.dimg[n] = IF n \in Nested /\ d # "none" THEN im.dimg[n] ELSE im.img[n],
         im'.dir = (IF d = "none" THEN "none" ELSE "durable"), im'.shaky = (IF im.behind = {} THEN {} ELSE im.shaky),
         im'.acked = im.acked
  PROVE  ReportedOK(im')
<1>1. ReportedOK(im) /\ DirectoryOK(im) /\ im.acked \in SUBSET Images
  BY VolumeFacts
<1> SUFFICES ASSUME NEW n \in im.acked
             PROVE  /\ im'.img[n] = "fresh" /\ im'.dimg[n] = "fresh"
                    /\ n \notin im'.shaky => im'.behind = {} /\ (n \in Nested => im'.dir = "durable")
  BY DEF ReportedOK
<1>2. n \in Images /\ im.img[n] = "fresh" /\ im.dimg[n] = "fresh" /\ (n \notin im.shaky => im.behind = {})
  BY <1>1 DEF ReportedOK
<1>3. n \in Nested => im.dir # "none"
  BY <1>1, <1>2 DEF DirectoryOK, Flat
<1> QED BY <1>2, <1>3

\* The gateway starts or stops.
LEMMA GatewayKeeps == ASSUME IMInv, StartGateway \/ StopGateway PROVE IMInv'
<1>1. CASE StartGateway
  <2> DEFINE r == SyncRoot(im)
             k == [im.cli EXCEPT !.began = FALSE, !.unsynced = FALSE]
  <2>1. /\ DOMAIN r = IMFields /\ \A f \in IMFields \ {"dimg", "dir", "shaky"} : r[f] = im[f]
        /\ r.dimg \in Volumes /\ r.dir \in Dirs /\ r.shaky \in SUBSET Images
        /\ \A n \in Images : r.dimg[n] = IF n \in Nested /\ im.dir # "none" THEN im.dimg[n] ELSE im.img[n]
        /\ r.dir = (IF im.dir = "none" THEN "none" ELSE "durable")
        /\ r.shaky = (IF im.behind = {} THEN {} ELSE im.shaky)
    BY VolumeFacts, SyncRootIs
  <2>2. im.gw = "off" /\ im.cli.pc = "idle" /\ im' = [r EXCEPT !.gw = "on", !.cli.began = FALSE, !.cli.unsynced = FALSE]
    BY <1>1 DEF StartGateway
  <2>3. k \in Clis /\ k.pc = "idle" /\ ~k.began
    BY <2>2, VolumeFacts DEF Clis
  <2> HIDE DEF r
  <2>4. /\ Changes({"dimg", "dir", "shaky", "gw", "cli"}) /\ im'.gw = "on" /\ im'.cli = k
        /\ im'.dimg = r.dimg /\ im'.dir = r.dir /\ im'.shaky = r.shaky
    BY <2>1, <2>2 DEF Changes, IMFields
  <2> HIDE DEF k
  <2>5. /\ im'.img = im.img /\ im'.behind = im.behind /\ im'.pub = im.pub /\ im'.ret = im.ret /\ im'.acked = im.acked
        /\ im'.lock = im.lock /\ im'.faults = im.faults
    BY <2>4 DEF Changes, IMFields
  <2>6. Changes({"img", "dimg", "dir", "gw", "lock", "pub", "ret", "cli", "acked", "shaky", "faults"})
    BY <2>4 DEF Changes
  <2>7. ReportedOK(im')
    BY <2>1, <2>4, <2>5, VolumeFacts, SyncKeepsReports
  <2>8. im.pub.pc = "idle" /\ im.ret.pc = "idle"
    BY <2>2, VolumeFacts DEF TurnsOK, Pubs, Rets
  <2>9. TurnsOK(im') /\ DirectoryOK(im') /\ NamesOK(im')
    BY <2>1, <2>3, <2>4, <2>5, <2>8, VolumeFacts DEF TurnsOK, DirectoryOK, NamesOK
  <2>10. im.lock \in {"free", "pub", "ret"}
    BY DEF IMInv, IMTypes
  <2> QED BY <2>1, <2>3, <2>4, <2>5, <2>6, <2>7, <2>9, <2>10, VolumeFacts, GatewaySteps
<1>2. CASE StopGateway
  <2> DEFINE p == [NoPub EXCEPT !.temp = im.pub.temp]
  <2>1. Changes({"gw", "pub"}) /\ im'.gw = "off" /\ im'.pub = p
    BY <1>2, VolumeFacts DEF StopGateway, Changes, IMFields
  <2>2. p \in Pubs /\ p.pc = "idle" /\ p.out = "none"
    BY VolumeFacts, VolumesAre DEF Pubs
  <2> HIDE DEF p
  <2>3. IMTypes(im')
    BY <2>1, <2>2 DEF IMInv, IMTypes, Changes, IMFields
  <2>4. VolumeOK(im')
    BY <1>2, <2>1, <2>2, VolumeFacts
       DEF StopGateway, VolumeOK, TurnsOK, EntriesOK, ReportedOK, DirectoryOK, NamesOK, RestoreOK, Changes, IMFields
  <2> QED BY <2>1, <2>3, <2>4, PairStays DEF Changes, IMFields, IMInv
<1> QED BY <1>1, <1>2

\* A step of the publisher, the retention or the clock that keeps the account of the entries.
LEMMA OnlineKeeps ==
  ASSUME IMInv, im.gw = "on", Changes({"img", "dimg", "dir", "lock", "pub", "ret", "acked", "shaky", "faults"}),
         im'.img \in Volumes, im'.dimg \in Volumes, im'.dir \in Dirs, im'.lock \in {"free", "pub", "ret"},
         im'.pub \in Pubs, im'.ret \in Rets, im'.acked \in SUBSET Images, im'.shaky \in SUBSET Images, im'.faults \in Nat,
         im'.pub.pc # "idle" => im'.lock = "pub", im'.ret.pc # "idle" => im'.lock = "ret",
         ReportedOK(im'), DirectoryOK(im'), NamesOK(im')
  PROVE  IMInv'
<1>1. im'.gw = "on" /\ im'.cli = im.cli
      /\ Changes({"img", "dimg", "dir", "gw", "lock", "pub", "ret", "cli", "acked", "shaky", "faults"})
  BY DEF Changes, IMFields
<1>2. im.cli.pc = "idle" /\ ~im.cli.began /\ im.cli \in Clis
  BY VolumeFacts DEF TurnsOK
<1>3. TurnsOK(im')
  BY <1>1, <1>2 DEF TurnsOK
<1> QED BY <1>1, <1>2, <1>3, GatewaySteps

\* The publisher begins, and makes the directory of a research when it is not there (PublishBegins).
LEMMA BeginKeeps == ASSUME IMInv, NEW n \in Images, PublishBegins(n) PROVE IMInv'
<1> DEFINE p == [pc |-> "mkdir", name |-> n, temp |-> im.pub.temp, out |-> "none"]
           q == [p EXCEPT !.pc = "temp", !.temp = TRUE]
<1>1. im.gw = "on" /\ im.pub.pc = "idle" /\ im.lock = "free" /\ im.img[n] = "none"
  BY DEF PublishBegins
<1>2. \/ n \in Nested /\ im.dir = "none" /\ Changes({"lock", "pub", "dir"}) /\ im'.lock = "pub" /\ im'.pub = p /\ im'.dir = "made"
      \/ ~(n \in Nested /\ im.dir = "none") /\ Changes({"lock", "pub"}) /\ im'.lock = "pub" /\ im'.pub = q
  <2> DEFINE c == [im EXCEPT !.lock = "pub", !.pub = p]
  <2>1. im' = IF n \in Nested /\ im.dir = "none" THEN [c EXCEPT !.dir = "made"] ELSE OpenTemp(c)
    BY DEF PublishBegins
  <2>2. DOMAIN c = IMFields /\ c.lock = "pub" /\ c.pub = p /\ \A f \in IMFields \ {"lock", "pub"} : c[f] = im[f]
    BY VolumeFacts DEF IMFields
  <2> HIDE DEF c
  <2>3. CASE n \in Nested /\ im.dir = "none"
    BY <2>1, <2>2, <2>3 DEF Changes, IMFields
  <2>4. CASE ~(n \in Nested /\ im.dir = "none")
    <3>1. im' = [c EXCEPT !.pub = q]
      BY <2>1, <2>2, <2>4 DEF OpenTemp
    <3> HIDE DEF p, q
    <3> QED BY <2>2, <2>4, <3>1 DEF Changes, IMFields
  <2> QED BY <2>3, <2>4
<1>3. p \in Pubs /\ p.pc = "mkdir" /\ p.out = "none" /\ p.name = n /\ q \in Pubs /\ q.pc = "temp" /\ q.out = "none" /\ q.name = n
  BY VolumeFacts DEF Pubs
<1> HIDE DEF p, q
<1>4. im.ret.pc = "idle" /\ im.ret.stale = {} /\ im.dir # "made"
  BY <1>1, VolumeFacts DEF TurnsOK, NamesOK, DirectoryOK, Rets
<1>5. /\ Changes({"img", "dimg", "dir", "lock", "pub", "ret", "acked", "shaky", "faults"})
      /\ im'.img = im.img /\ im'.dimg = im.dimg /\ im'.behind = im.behind /\ im'.ret = im.ret /\ im'.acked = im.acked
      /\ im'.shaky = im.shaky /\ im'.faults = im.faults
  BY <1>2 DEF Changes, IMFields
<1>6. CASE n \in Nested /\ im.dir = "none" /\ im'.lock = "pub" /\ im'.pub = p /\ im'.dir = "made"
  <2>1. ReportedOK(im') /\ DirectoryOK(im') /\ NamesOK(im')
    BY <1>1, <1>3, <1>4, <1>5, <1>6, VolumeFacts DEF ReportedOK, DirectoryOK, NamesOK
  <2>2. im'.dir \in Dirs
    BY <1>6 DEF Dirs
  <2> QED BY <1>1, <1>3, <1>4, <1>5, <1>6, <2>1, <2>2, VolumeFacts, OnlineKeeps
<1>7. CASE ~(n \in Nested /\ im.dir = "none") /\ im'.lock = "pub" /\ im'.pub = q /\ im'.dir = im.dir
  <2>1. ReportedOK(im') /\ NamesOK(im')
    BY <1>1, <1>3, <1>4, <1>5, <1>7, VolumeFacts DEF ReportedOK, NamesOK
  <2>2. DirectoryOK(im')
    BY <1>1, <1>3, <1>4, <1>5, <1>7, VolumeFacts DEF DirectoryOK, Dirs
  <2> QED BY <1>1, <1>3, <1>4, <1>5, <1>7, <2>1, <2>2, VolumeFacts, OnlineKeeps
<1> QED BY <1>2, <1>6, <1>7 DEF Changes, IMFields

\* The new directory is synced, or cannot be (SyncParent).
LEMMA ParentKeeps == ASSUME IMInv, SyncParent PROVE IMInv'
<1>1. im.pub.pc = "mkdir" /\ im.gw = "on" /\ im.lock = "pub" /\ im.dir = "made" /\ im.ret.pc = "idle"
  BY VolumeFacts DEF SyncParent, TurnsOK, DirectoryOK, Rets
<1>2. CASE im' = OpenTemp(SyncRoot(im))
  <2> DEFINE r == SyncRoot(im)
             q == [im.pub EXCEPT !.pc = "temp", !.temp = TRUE]
  <2>1. /\ DOMAIN r = IMFields /\ \A f \in IMFields \ {"dimg", "dir", "shaky"} : r[f] = im[f]
        /\ r.dimg \in Volumes /\ r.dir \in Dirs /\ r.shaky \in SUBSET Images
        /\ \A n \in Images : r.dimg[n] = IF n \in Nested /\ im.dir # "none" THEN im.dimg[n] ELSE im.img[n]
        /\ r.dir = (IF im.dir = "none" THEN "none" ELSE "durable")
        /\ r.shaky = (IF im.behind = {} THEN {} ELSE im.shaky)
    BY VolumeFacts, SyncRootIs
  <2>2. q \in Pubs /\ q.pc = "temp" /\ q.name = im.pub.name
    BY VolumeFacts DEF Pubs
  <2> HIDE DEF r
  <2>3. /\ Changes({"dimg", "dir", "shaky", "pub"}) /\ im'.dimg = r.dimg /\ im'.dir = r.dir /\ im'.shaky = r.shaky /\ im'.pub = q
    BY <1>2, <2>1 DEF OpenTemp, Changes, IMFields, r
  <2> HIDE DEF q
  <2>4. /\ im'.img = im.img /\ im'.behind = im.behind /\ im'.ret = im.ret /\ im'.acked = im.acked /\ im'.lock = im.lock
        /\ im'.faults = im.faults /\ Changes({"img", "dimg", "dir", "lock", "pub", "ret", "acked", "shaky", "faults"})
    BY <2>3 DEF Changes, IMFields
  <2>5. ReportedOK(im')
    BY <2>1, <2>3, <2>4, VolumeFacts, SyncKeepsReports
  <2>6. DirectoryOK(im') /\ NamesOK(im')
    BY <1>1, <2>1, <2>2, <2>3, <2>4, VolumeFacts DEF DirectoryOK, NamesOK
  <2> QED BY <1>1, <2>1, <2>2, <2>3, <2>4, <2>5, <2>6, VolumeFacts, OnlineKeeps
<1>3. ASSUME NEW dir \in {"none", "unsure"}, im' = Faulted(PublishEnds([im EXCEPT !.dir = dir], "error")) PROVE IMInv'
  <2> DEFINE q == [im.pub EXCEPT !.pc = "idle", !.out = "error"]
  <2>1. /\ Changes({"dir", "lock", "pub", "faults"}) /\ im'.dir = dir /\ im'.lock = "free" /\ im'.pub = q
        /\ im'.faults = im.faults + 1
    BY <1>3, VolumeFacts DEF PublishEnds, Faulted, Changes, IMFields
  <2>2. q \in Pubs /\ q.pc = "idle" /\ q.out = "error" /\ q.name = im.pub.name
    BY VolumeFacts DEF Pubs
  <2> HIDE DEF q
  <2>3. /\ im'.img = im.img /\ im'.dimg = im.dimg /\ im'.behind = im.behind /\ im'.ret = im.ret /\ im'.acked = im.acked
        /\ im'.shaky = im.shaky /\ Changes({"img", "dimg", "dir", "lock", "pub", "ret", "acked", "shaky", "faults"})
    BY <2>1 DEF Changes, IMFields
  <2>4. ReportedOK(im') /\ DirectoryOK(im') /\ NamesOK(im')
    BY <1>1, <1>3, <2>1, <2>2, <2>3, VolumeFacts DEF ReportedOK, DirectoryOK, NamesOK
  <2>5. im'.dir \in Dirs
    BY <2>1 DEF Dirs
  <2> QED BY <1>1, <2>1, <2>2, <2>3, <2>4, <2>5, VolumeFacts, OnlineKeeps
<1> QED BY <1>2, <1>3 DEF SyncParent

\* The publisher fails before anything has its name (TempFails).
LEMMA TempKeeps == ASSUME IMInv, TempFails PROVE IMInv'
<1>1. PICK cleaned \in BOOLEAN : im' = Faulted(PublishEnds([im EXCEPT !.pub.temp = ~cleaned], "error"))
  BY DEF TempFails
<1> DEFINE p == [im.pub EXCEPT !.temp = ~cleaned, !.pc = "idle", !.out = "error"]
<1>2. Changes({"lock", "pub", "faults"}) /\ im'.lock = "free" /\ im'.pub = p /\ im'.faults = im.faults + 1
  BY <1>1, VolumeFacts DEF PublishEnds, Faulted, Changes, IMFields
<1>3. p \in Pubs /\ p.pc = "idle" /\ p.out = "error" /\ p.name = im.pub.name
  BY VolumeFacts DEF Pubs
<1>4. im.pub.pc = "temp" /\ im.gw = "on" /\ im.lock = "pub" /\ im.ret.pc = "idle"
  BY VolumeFacts DEF TempFails, TurnsOK, Rets
<1> HIDE DEF p
<1>5. /\ im'.img = im.img /\ im'.dimg = im.dimg /\ im'.dir = im.dir /\ im'.behind = im.behind /\ im'.ret = im.ret
      /\ im'.acked = im.acked /\ im'.shaky = im.shaky
      /\ Changes({"img", "dimg", "dir", "lock", "pub", "ret", "acked", "shaky", "faults"})
  BY <1>2 DEF Changes, IMFields
<1>6. ReportedOK(im') /\ DirectoryOK(im') /\ NamesOK(im')
  BY <1>2, <1>3, <1>4, <1>5, VolumeFacts DEF ReportedOK, DirectoryOK, NamesOK
<1> QED BY <1>2, <1>3, <1>4, <1>5, <1>6, VolumeFacts, OnlineKeeps

\* The image gets its name (Replace).
LEMMA ReplaceKeeps == ASSUME IMInv, Replace PROVE IMInv'
<1> DEFINE p == [im.pub EXCEPT !.temp = FALSE, !.pc = "sync"]
           q == [im.pub EXCEPT !.temp = FALSE, !.pc = "idle", !.out = "uncertain"]
           v == [im.img EXCEPT ![im.pub.name] = "fresh"]
<1>1. im.pub.pc = "temp" /\ im.gw = "on" /\ im.lock = "pub" /\ im.ret.pc = "idle" /\ im.ret.stale = {}
  BY VolumeFacts DEF Replace, TurnsOK, NamesOK, Rets
<1>2. \/ Changes({"img", "pub"}) /\ im'.img = v /\ im'.pub = p
      \/ Changes({"img", "lock", "pub", "faults"}) /\ im'.img = v /\ im'.pub = q /\ im'.lock = "free" /\ im'.faults = im.faults + 1
  BY VolumeFacts DEF Replace, PublishEnds, Faulted, Changes, IMFields
<1>3. /\ p \in Pubs /\ p.pc = "sync" /\ p.name = im.pub.name
      /\ q \in Pubs /\ q.pc = "idle" /\ q.out = "uncertain" /\ q.name = im.pub.name
  BY VolumeFacts DEF Pubs
<1>4. v \in Volumes /\ v[im.pub.name] = "fresh" /\ \A n \in Images : n # im.pub.name => v[n] = im.img[n]
  BY VolumeFacts DEF Volumes, Marks
<1> HIDE DEF p, q, v
<1>5. /\ Changes({"img", "dimg", "dir", "lock", "pub", "ret", "acked", "shaky", "faults"})
      /\ im'.img = v /\ im'.dimg = im.dimg /\ im'.dir = im.dir /\ im'.behind = im.behind /\ im'.ret = im.ret
      /\ im'.acked = im.acked /\ im'.shaky = im.shaky /\ im'.faults \in Nat /\ im'.pub \in {p, q}
      /\ im'.lock \in {"pub", "free"} /\ (im'.pub = q \/ im'.lock = "pub")
  BY <1>1, <1>2, VolumeFacts DEF Changes, IMFields
<1>6. ReportedOK(im')
  BY <1>4, <1>5, VolumeFacts DEF ReportedOK
<1>7. DirectoryOK(im')
  <2>1. im.dir # "made" /\ (im.pub.name \in Nested => im.dir \in {"unsure", "durable"})
    BY <1>1, VolumeFacts DEF DirectoryOK
  <2>2. im.dir = "none" => Flat(v)
    BY <1>4, <2>1, VolumeFacts, VolumeAssumption DEF DirectoryOK, Flat
  <2>3. im'.pub.name = im.pub.name /\ im'.pub.pc \in {"sync", "idle"}
    BY <1>3, <1>5
  <2> QED BY <1>5, <2>1, <2>2, <2>3 DEF DirectoryOK
<1>8. NamesOK(im')
  BY <1>1, <1>3, <1>4, <1>5 DEF NamesOK
<1>9. im'.pub \in Pubs /\ (im'.pub.pc # "idle" => im'.lock = "pub")
  BY <1>3, <1>5
<1> QED BY <1>1, <1>4, <1>5, <1>6, <1>7, <1>8, <1>9, VolumeFacts, OnlineKeeps

\* The directory is synced, and then the image is reported; or it cannot be, and that is said (SyncDirectory).
LEMMA ReportKeeps == ASSUME IMInv, SyncDirectory PROVE IMInv'
<1> DEFINE n == im.pub.name
           p == [im.pub EXCEPT !.pc = "idle", !.out = "ok"]
           q == [im.pub EXCEPT !.pc = "idle", !.out = "uncertain"]
           A == im.acked \cup {n}
<1>1. /\ im.pub.pc = "sync" /\ im.gw = "on" /\ im.lock = "pub" /\ im.ret.pc = "idle" /\ im.ret.stale = {} /\ im.dir # "made"
      /\ n \in Images /\ im.img[n] = "fresh" /\ (n \in Nested => im.dir \in {"unsure", "durable"})
  BY VolumeFacts DEF SyncDirectory, TurnsOK, NamesOK, DirectoryOK, Rets
<1>2. p \in Pubs /\ p.pc = "idle" /\ p.out = "ok" /\ q \in Pubs /\ q.pc = "idle" /\ q.out = "uncertain"
  BY VolumeFacts DEF Pubs
<1>3. A \in SUBSET Images
  BY <1>1, VolumeFacts
<1>4. CASE im' = Faulted(PublishEnds(im, "uncertain"))
  <2>1. Changes({"lock", "pub", "faults"}) /\ im'.lock = "free" /\ im'.pub = q /\ im'.faults = im.faults + 1
    BY <1>4, VolumeFacts DEF PublishEnds, Faulted, Changes, IMFields
  <2> HIDE DEF p, q, A, n
  <2>2. /\ im'.img = im.img /\ im'.dimg = im.dimg /\ im'.dir = im.dir /\ im'.behind = im.behind /\ im'.ret = im.ret
        /\ im'.acked = im.acked /\ im'.shaky = im.shaky
        /\ Changes({"img", "dimg", "dir", "lock", "pub", "ret", "acked", "shaky", "faults"})
    BY <2>1 DEF Changes, IMFields
  <2>3. ReportedOK(im') /\ DirectoryOK(im') /\ NamesOK(im')
    BY <1>1, <1>2, <2>1, <2>2, VolumeFacts DEF ReportedOK, DirectoryOK, NamesOK
  <2> QED BY <1>1, <1>2, <2>1, <2>2, <2>3, VolumeFacts, OnlineKeeps
<1> DEFINE Reported(c) == PublishEnds([c EXCEPT !.acked = @ \cup {n}, !.shaky = IF Firm(n) THEN @ ELSE @ \cup {n}], "ok")
<1>5. ASSUME NEW c, DOMAIN c = IMFields, \A f \in IMFields \ {"dimg", "dir", "shaky"} : c[f] = im[f], im' = Reported(c),
             c.dimg \in Volumes, c.dir \in Dirs, c.dir # "made", c.shaky \in SUBSET Images, c.dimg[n] = "fresh",
             c.dir = im.dir \/ (c.dir = "durable" /\ im.dir # "none"),
             n \in Nested => c.dir = im.dir,
             \A m \in im.acked : c.dimg[m] = "fresh" /\ (m \in Nested /\ m \notin c.shaky => c.dir = "durable"),
             c.shaky = im.shaky \/ (c.shaky = {} /\ im.behind = {})
      PROVE  IMInv'
  <2> DEFINE S == IF Firm(n) THEN c.shaky ELSE c.shaky \cup {n}
  <2>0. c.acked = im.acked /\ c.pub = im.pub
    BY <1>5 DEF IMFields
  <2>1. /\ Changes({"dimg", "dir", "shaky", "acked", "lock", "pub"}) /\ im'.dimg = c.dimg /\ im'.dir = c.dir /\ im'.shaky = S
        /\ im'.acked = A /\ im'.lock = "free" /\ im'.pub = p
    <3> DEFINE e == [c EXCEPT !.acked = @ \cup {n}, !.shaky = S]
    <3>1. im' = PublishEnds(e, "ok")
      BY <1>5
    <3>2. DOMAIN e = IMFields /\ e.acked = A /\ e.shaky = S /\ \A f \in IMFields \ {"acked", "shaky"} : e[f] = c[f]
      BY <1>5, <2>0 DEF IMFields
    <3> HIDE DEF e, S, A, n
    <3>3. e.pub = im.pub
      BY <2>0, <3>2 DEF IMFields
    <3>4. im' = [e EXCEPT !.lock = "free", !.pub = [e.pub EXCEPT !.pc = "idle", !.out = "ok"]]
      BY <3>1 DEF PublishEnds
    <3>5. im' = [e EXCEPT !.lock = "free", !.pub = p]
      BY <3>3, <3>4
    <3> HIDE DEF p
    <3>6. /\ DOMAIN im' = IMFields /\ im'.lock = "free" /\ im'.pub = p
          /\ \A f \in IMFields \ {"lock", "pub"} : im'[f] = e[f]
      BY <3>2, <3>5 DEF IMFields
    <3>7. im'.dimg = c.dimg /\ im'.dir = c.dir /\ im'.shaky = S /\ im'.acked = A
      BY <3>2, <3>6 DEF IMFields
    <3>8. \A f \in IMFields \ {"dimg", "dir", "shaky", "acked", "lock", "pub"} : im'[f] = im[f]
      BY <1>5, <3>2, <3>6
    <3> QED BY <3>6, <3>7, <3>8 DEF Changes
  <2>2. S \in SUBSET Images /\ (n \in S \/ Firm(n)) /\ \A m \in Images : m # n => (m \in S <=> m \in c.shaky)
    BY <1>1, <1>5
  <2> HIDE DEF S, p, q
  <2>3. /\ im'.img = im.img /\ im'.behind = im.behind /\ im'.ret = im.ret /\ im'.faults = im.faults
        /\ Changes({"img", "dimg", "dir", "lock", "pub", "ret", "acked", "shaky", "faults"})
    BY <2>1 DEF Changes, IMFields
  <2>4. ReportedOK(im')
    <3> SUFFICES ASSUME NEW m \in A
                 PROVE  /\ im.img[m] = "fresh" /\ c.dimg[m] = "fresh"
                        /\ m \notin S => im.behind = {} /\ (m \in Nested => c.dir = "durable")
      BY <2>1, <2>3 DEF ReportedOK
    <3>1. CASE m = n
      BY <1>1, <1>5, <2>2, <3>1 DEF Firm
    <3>2. CASE m # n
      BY <1>5, <2>2, <3>2, VolumeFacts DEF ReportedOK
    <3> QED BY <3>1, <3>2
  <2>5. DirectoryOK(im') /\ NamesOK(im')
    BY <1>1, <1>2, <1>5, <2>1, <2>3, VolumeFacts DEF DirectoryOK, NamesOK
  <2> HIDE DEF n, A
  <2> QED BY <1>1, <1>2, <1>3, <1>5, <2>1, <2>2, <2>3, <2>4, <2>5, VolumeFacts, OnlineKeeps
<1>6. CASE n \notin Nested /\ im' = Reported(SyncRoot(im))
  <2> DEFINE r == SyncRoot(im)
  <2>1. /\ DOMAIN r = IMFields /\ \A f \in IMFields \ {"dimg", "dir", "shaky"} : r[f] = im[f]
        /\ r.dimg \in Volumes /\ r.dir \in Dirs /\ r.shaky \in SUBSET Images
        /\ \A m \in Images : r.dimg[m] = IF m \in Nested /\ im.dir # "none" THEN im.dimg[m] ELSE im.img[m]
        /\ r.dir = (IF im.dir = "none" THEN "none" ELSE "durable")
        /\ r.shaky = (IF im.behind = {} THEN {} ELSE im.shaky)
    BY VolumeFacts, SyncRootIs
  <2>2. im' = Reported(r)
    BY <1>6
  <2> HIDE DEF r, Reported
  <2>3. r.dimg[n] = "fresh" /\ r.dir # "made" /\ (r.dir = im.dir \/ (r.dir = "durable" /\ im.dir # "none"))
    BY <1>1, <1>6, <2>1
  <2>4. \A m \in im.acked : r.dimg[m] = "fresh" /\ (m \in Nested /\ m \notin r.shaky => r.dir = "durable")
    BY <2>1, VolumeFacts DEF ReportedOK, DirectoryOK, Flat
  <2>5. r.shaky = im.shaky \/ (r.shaky = {} /\ im.behind = {})
    BY <2>1
  <2> QED BY <1>5, <1>6, <2>1, <2>2, <2>3, <2>4, <2>5
<1>7. CASE n \in Nested /\ im' = Reported([im EXCEPT !.dimg = [m \in Images |-> IF m \in Nested THEN im.img[m] ELSE @[m]]])
  <2> DEFINE w == [m \in Images |-> IF m \in Nested THEN im.img[m] ELSE im.dimg[m]]
             r == [im EXCEPT !.dimg = w]
  <2>1. w \in Volumes /\ \A m \in Images : w[m] = IF m \in Nested THEN im.img[m] ELSE im.dimg[m]
    BY VolumeFacts DEF Volumes, Marks
  <2>2. im' = Reported(r)
    BY <1>7
  <2> HIDE DEF w, Reported
  <2>3. DOMAIN r = IMFields /\ r.dimg = w /\ r.dir = im.dir /\ r.shaky = im.shaky /\ \A f \in IMFields \ {"dimg"} : r[f] = im[f]
    BY VolumeFacts DEF IMFields
  <2> HIDE DEF r
  <2>4. \A m \in im.acked : r.dimg[m] = "fresh" /\ (m \in Nested /\ m \notin r.shaky => r.dir = "durable")
    BY <2>1, <2>3, VolumeFacts DEF ReportedOK
  <2>5. r.dimg[n] = "fresh" /\ r.dir # "made" /\ r.dir \in Dirs /\ r.shaky \in SUBSET Images /\ r.dimg \in Volumes
    BY <1>1, <1>7, <2>1, <2>3, VolumeFacts
  <2> QED BY <1>5, <2>2, <2>3, <2>4, <2>5
<1> QED BY <1>4, <1>6, <1>7 DEF SyncDirectory

\* The retention takes the lock, and looks at the files one by one (RetentionBegins, Look).
LEMMA RetentionKeeps == ASSUME IMInv, RetentionBegins \/ \E n \in Images : Look(n) PROVE IMInv'
<1>1. ASSUME RetentionBegins PROVE IMInv'
  <2> DEFINE r == [pc |-> "run", todo |-> Images, stale |-> {}]
  <2>1. /\ Changes({"lock", "ret"}) /\ im'.lock = "ret" /\ im'.ret = r
        /\ im.gw = "on" /\ im.lock = "free" /\ im.pub.pc = "idle"
    BY <1>1, VolumeFacts DEF RetentionBegins, Changes, IMFields, TurnsOK
  <2>2. r \in Rets /\ r.pc = "run" /\ r.stale = {}
    BY DEF Rets
  <2> HIDE DEF r
  <2>3. /\ im'.img = im.img /\ im'.dimg = im.dimg /\ im'.dir = im.dir /\ im'.behind = im.behind /\ im'.pub = im.pub
        /\ im'.acked = im.acked /\ im'.shaky = im.shaky /\ im'.faults = im.faults
        /\ Changes({"img", "dimg", "dir", "lock", "pub", "ret", "acked", "shaky", "faults"})
    BY <2>1 DEF Changes, IMFields
  <2>4. ReportedOK(im') /\ DirectoryOK(im') /\ NamesOK(im')
    BY <2>1, <2>2, <2>3, VolumeFacts DEF ReportedOK, DirectoryOK, NamesOK
  <2> QED BY <2>1, <2>2, <2>3, <2>4, VolumeFacts, OnlineKeeps
<1>2. ASSUME NEW n \in Images, Look(n) PROVE IMInv'
  <2> DEFINE S == IF im.img[n] = "stale" THEN {n} ELSE {}
             r == [im.ret EXCEPT !.todo = @ \ {n}, !.stale = S, !.pc = "delete"]
  <2>1. Changes({"ret"}) /\ im'.ret = r /\ im.ret.pc = "run"
    BY <1>2, VolumeFacts DEF Look, Changes, IMFields
  <2>2. S \in SUBSET Images /\ \A m \in S : im.img[m] = "stale"
    OBVIOUS
  <2> HIDE DEF S
  <2>3. r \in Rets /\ r.pc = "delete" /\ r.stale = S
    BY <2>2, VolumeFacts DEF Rets
  <2> HIDE DEF r
  <2>4. /\ im'.img = im.img /\ im'.dimg = im.dimg /\ im'.dir = im.dir /\ im'.behind = im.behind /\ im'.pub = im.pub
        /\ im'.acked = im.acked /\ im'.shaky = im.shaky /\ im'.faults = im.faults /\ im'.lock = im.lock
        /\ Changes({"img", "dimg", "dir", "lock", "pub", "ret", "acked", "shaky", "faults"})
    BY <2>1 DEF Changes, IMFields
  <2>5. im.gw = "on" /\ im.lock = "ret" /\ im.pub.pc = "idle"
    BY <2>1, VolumeFacts DEF TurnsOK, Pubs
  <2>6. ReportedOK(im') /\ DirectoryOK(im') /\ NamesOK(im')
    BY <2>1, <2>2, <2>3, <2>4, VolumeFacts DEF ReportedOK, DirectoryOK, NamesOK
  <2> QED BY <2>1, <2>3, <2>4, <2>5, <2>6, VolumeFacts, OnlineKeeps
<1> QED BY <1>1, <1>2

\* The retention removes an empty directory and gives the lock back (RetentionEnds).
LEMMA RetentionEndKeeps == ASSUME IMInv, RetentionEnds PROVE IMInv'
<1>1. PICK old \in BOOLEAN, removed \in BOOLEAN :
         /\ removed => im.dir # "none" /\ PresentImages \cap Nested = {} /\ (im.pub.temp => old)
         /\ im' = [im EXCEPT !.ret.pc = "idle", !.lock = "free", !.pub.temp = @ /\ ~old, !.dir = IF removed THEN "none" ELSE @]
  BY DEF RetentionEnds
<1> DEFINE t == im.pub.temp /\ ~old
           p == [im.pub EXCEPT !.temp = t]
           r == [im.ret EXCEPT !.pc = "idle"]
           d == IF removed THEN "none" ELSE im.dir
<1>2. Changes({"ret", "lock", "pub", "dir"}) /\ im'.ret = r /\ im'.lock = "free" /\ im'.pub = p /\ im'.dir = d
  BY <1>1, VolumeFacts DEF Changes, IMFields
<1>3. im.ret.pc = "end" /\ im.ret.stale = {} /\ im.pub.pc = "idle" /\ im.gw = "on" /\ im.dir # "made"
  BY VolumeFacts DEF RetentionEnds, TurnsOK, NamesOK, DirectoryOK, Rets, Pubs
<1>4. r \in Rets /\ r.pc = "idle" /\ r.stale = {}
  BY <1>3, VolumeFacts DEF Rets
<1>5. t \in BOOLEAN
  OBVIOUS
<1> HIDE DEF t
<1>6. p \in Pubs /\ p.pc = im.pub.pc /\ p.out = im.pub.out /\ p.name = im.pub.name
  BY <1>5, VolumeFacts DEF Pubs
<1>7. d \in Dirs /\ (d = im.dir \/ (d = "none" /\ Flat(im.img)))
  <2>1. PresentImages \cap Nested = {} => Flat(im.img)
    BY VolumeAssumption DEF PresentImages, InPlace, Flat
  <2> QED BY <1>1, <2>1, VolumeFacts DEF Dirs
<1> HIDE DEF p, r, d
<1>8. /\ im'.img = im.img /\ im'.dimg = im.dimg /\ im'.behind = im.behind
      /\ im'.acked = im.acked /\ im'.shaky = im.shaky /\ im'.faults = im.faults
      /\ Changes({"img", "dimg", "dir", "lock", "pub", "ret", "acked", "shaky", "faults"})
  BY <1>2 DEF Changes, IMFields
<1>9. ReportedOK(im')
  BY <1>2, <1>7, <1>8, VolumeFacts DEF ReportedOK, Flat
<1>10. DirectoryOK(im') /\ NamesOK(im')
  BY <1>2, <1>3, <1>4, <1>6, <1>7, <1>8, VolumeFacts DEF DirectoryOK, NamesOK
<1> QED BY <1>2, <1>3, <1>4, <1>6, <1>7, <1>8, <1>9, <1>10, VolumeFacts, OnlineKeeps

\* What was old is removed, or that fails (Delete).
LEMMA DeleteKeeps == ASSUME IMInv, Delete PROVE IMInv'
<1> DEFINE v == [n \in Images |-> IF n \in im.ret.stale THEN "none" ELSE im.img[n]]
           pc == IF im.ret.todo = {} THEN "end" ELSE "run"
           r == [im.ret EXCEPT !.pc = pc, !.stale = {}]
<1>1. \/ Changes({"ret", "img"}) /\ im'.ret = r /\ im'.img = v
      \/ Changes({"ret", "faults"}) /\ im'.ret = r /\ im'.faults = im.faults + 1
  <2> DEFINE c == [im EXCEPT !.ret = r]
             w == [n \in Images |-> IF n \in im.ret.stale THEN "none" ELSE c.img[n]]
  <2>1. im' = [c EXCEPT !.img = w] \/ im' = Faulted(c)
    BY DEF Delete
  <2> HIDE DEF r
  <2>2. DOMAIN c = IMFields /\ c.ret = r /\ \A f \in IMFields \ {"ret"} : c[f] = im[f]
    BY VolumeFacts DEF IMFields
  <2>3. w = v
    BY <2>2 DEF IMFields
  <2> HIDE DEF c, w, v
  <2> QED BY <2>1, <2>2, <2>3 DEF Faulted, Changes, IMFields
<1>2. v \in Volumes /\ \A n \in Images : v[n] = IF n \in im.ret.stale THEN "none" ELSE im.img[n]
  BY VolumeFacts DEF Volumes, Marks
<1>3. pc \in {"end", "run"}
  OBVIOUS
<1> HIDE DEF v, pc
<1>4. r \in Rets /\ r.pc \in {"end", "run"} /\ r.stale = {}
  BY <1>3, VolumeFacts DEF Rets
<1> HIDE DEF r
<1>5. im.ret.pc = "delete" /\ im.gw = "on" /\ im.lock = "ret" /\ im.pub.pc = "idle" /\ im.dir # "made"
  BY VolumeFacts DEF Delete, TurnsOK, DirectoryOK, Pubs
<1>6. /\ im'.dimg = im.dimg /\ im'.dir = im.dir /\ im'.behind = im.behind /\ im'.pub = im.pub /\ im'.ret = r /\ im'.lock = im.lock
      /\ im'.acked = im.acked /\ im'.shaky = im.shaky /\ im'.img \in {v, im.img} /\ im'.faults \in Nat
      /\ Changes({"img", "dimg", "dir", "lock", "pub", "ret", "acked", "shaky", "faults"})
  BY <1>1, VolumeFacts DEF Changes, IMFields
<1>7. ASSUME NEW n \in Images
      PROVE  im'.img[n] = im.img[n] \/ (im.img[n] = "stale" /\ im'.img[n] = "none")
  BY <1>2, <1>6, VolumeFacts DEF NamesOK
<1>8. im'.img \in Volumes
  BY <1>2, <1>6, VolumeFacts
<1>9. ReportedOK(im')
  BY <1>6, <1>7, VolumeFacts DEF ReportedOK
<1>10. DirectoryOK(im')
  BY <1>5, <1>6, <1>7, VolumeFacts, VolumeAssumption DEF DirectoryOK, Flat
<1>11. NamesOK(im')
  BY <1>4, <1>5, <1>6, <1>7, VolumeFacts DEF NamesOK
<1> QED BY <1>4, <1>5, <1>6, <1>8, <1>9, <1>10, <1>11, VolumeFacts, OnlineKeeps

\* What was published grows old, whoever works on the volume (Age).
LEMMA AgeKeeps == ASSUME IMInv, NEW n \in Images, Age(n) PROVE IMInv'
<1> DEFINE v == [im.img EXCEPT ![n] = "stale"]
           w == [im.dimg EXCEPT ![n] = IF @ = "fresh" THEN "stale" ELSE @]
<1>1. /\ Changes({"img", "dimg", "acked", "shaky"}) /\ im'.img = v /\ im'.dimg = w /\ im'.acked = im.acked \ {n}
      /\ im'.shaky = im.shaky \ {n}
  BY VolumeFacts DEF Age, Changes, IMFields
<1>2. /\ v \in Volumes /\ v[n] = "stale" /\ \A m \in Images : m # n => v[m] = im.img[m]
      /\ w \in Volumes /\ \A m \in Images : m # n => w[m] = im.dimg[m]
      /\ im.dimg[n] \in {"fresh", "stale"} => w[n] = "stale"
  BY VolumeFacts DEF Volumes, Marks
<1>3. im.img[n] = "fresh" /\ im.pub.pc = "idle"
  BY DEF Age
<1> HIDE DEF v, w
<1>4. IMTypes(im')
  BY <1>1, <1>2 DEF IMInv, IMTypes, Changes, IMFields
<1>5. Holds(im.img) <=> Holds(im'.img)
  BY <1>1, <1>2, <1>3, VolumeAssumption DEF Holds
<1>6. Holds(im.dimg) => Holds(im'.dimg)
  BY <1>1, <1>2, VolumeAssumption DEF Holds
<1>7. Flat(im.img) <=> Flat(im'.img)
  BY <1>1, <1>2, <1>3, VolumeAssumption DEF Flat
<1>8. /\ im'.dir = im.dir /\ im'.behind = im.behind /\ im'.pub = im.pub /\ im'.ret = im.ret /\ im'.cli = im.cli /\ im'.gw = im.gw
      /\ im'.lock = im.lock /\ im'.marker = im.marker /\ im'.dmarker = im.dmarker
  BY <1>1 DEF Changes, IMFields
<1>9. TurnsOK(im') /\ RestoreOK(im')
  BY <1>1, <1>5, <1>6, <1>8, VolumeFacts DEF TurnsOK, RestoreOK
<1>10. ReportedOK(im')
  BY <1>1, <1>2, <1>8, VolumeFacts DEF ReportedOK
<1>11. DirectoryOK(im')
  BY <1>7, <1>8, VolumeFacts DEF DirectoryOK
<1>12. NamesOK(im')
  <2>1. im.ret.stale \in SUBSET Images
    BY VolumeFacts DEF Rets
  <2> QED BY <1>1, <1>2, <1>3, <1>8, <2>1, VolumeFacts DEF NamesOK
<1> QED BY <1>1, <1>4, <1>9, <1>10, <1>11, <1>12, PairStays DEF Changes, IMFields, IMInv, VolumeOK, EntriesOK

\* While the gateway is off nothing but the tool's own account of the volume can go wrong.
LEMMA ToolKeeps ==
  ASSUME IMInv, im.gw = "off", Changes({"img", "dimg", "dir", "behind", "marker", "dmarker", "cli", "faults"}),
         im'.img \in Volumes, im'.dimg \in Volumes, im'.dir \in Dirs, im'.behind \in SUBSET Volumes,
         im'.marker \in BOOLEAN, im'.dmarker \in BOOLEAN, im'.cli \in Clis, im'.faults \in Nat,
         \/ im'.img = im.img /\ im'.dimg = im.dimg /\ im'.dir = im.dir /\ im'.behind \in {im.behind, {}}
         \/ im.acked = {} /\ im'.dir \in {"none", "durable"} /\ (im'.dir = "none" => Flat(im'.img)),
         RestoreOK(im')
  PROVE  IMInv'
<1>1. IMTypes(im')
  BY DEF IMInv, IMTypes, Changes, IMFields
<1>2. im.pub.pc = "idle" /\ im.ret.pc = "idle" /\ im.pub.out # "error" /\ im.ret.stale = {} /\ im.dir # "made"
  <2>1. im.pub.pc = "idle" /\ im.ret.pc = "idle" /\ im.pub.out # "error"
    BY VolumeFacts DEF TurnsOK, Pubs, Rets
  <2> QED BY <2>1, VolumeFacts DEF NamesOK, DirectoryOK, Rets
<1>3. im'.pub = im.pub /\ im'.ret = im.ret /\ im'.gw = im.gw /\ im'.acked = im.acked /\ im'.shaky = im.shaky
  BY DEF Changes, IMFields
<1>4. TurnsOK(im') /\ NamesOK(im')
  BY <1>2, <1>3 DEF TurnsOK, NamesOK
<1>5. ReportedOK(im') /\ DirectoryOK(im')
  BY <1>2, <1>3, VolumeFacts DEF ReportedOK, DirectoryOK
<1> QED BY <1>1, <1>4, <1>5, PairStays DEF Changes, IMFields, IMInv, VolumeOK, EntriesOK

\* A tool finds a volume it may fill, or one that another run of it had filled
\* (RecoverPublication, Restore).
LEMMA RestoreKeeps == ASSUME IMInv, RecoverPublication \/ Restore PROVE IMInv'
<1>0. im.gw = "off" /\ im.cli.pc = "idle"
  BY DEF RecoverPublication, Restore, ToolIdle
<1>1. CASE RecoverPublication
  <2> DEFINE u == im.behind # {}
             c == [im.cli EXCEPT !.pc = "clear", !.unsynced = u]
  <2>1. Changes({"cli"}) /\ im'.cli = c /\ PresentImages = Backup
    BY <1>1, VolumeFacts DEF RecoverPublication, Changes, IMFields
  <2>2. u \in BOOLEAN /\ (u <=> im.behind # {})
    OBVIOUS
  <2> HIDE DEF u
  <2>3. c \in Clis /\ c.pc = "clear" /\ c.began = im.cli.began /\ (c.unsynced <=> u)
    BY <2>2, VolumeFacts DEF Clis
  <2> HIDE DEF c
  <2>4. Holds(im.img)
    BY <2>1 DEF PresentImages, InPlace, Holds
  <2>5. /\ im'.img = im.img /\ im'.dimg = im.dimg /\ im'.dir = im.dir /\ im'.behind = im.behind
        /\ im'.marker = im.marker /\ im'.dmarker = im.dmarker /\ im'.faults = im.faults /\ im'.acked = im.acked
        /\ Changes({"img", "dimg", "dir", "behind", "marker", "dmarker", "cli", "faults"})
    BY <2>1 DEF Changes, IMFields
  <2>6. RestoreOK(im')
    BY <2>1, <2>2, <2>3, <2>4, <2>5, VolumeFacts DEF RestoreOK
  <2> QED BY <1>0, <2>1, <2>3, <2>5, <2>6, VolumeFacts, ToolKeeps
<1>2. CASE Restore
  <2> DEFINE c == [im.cli EXCEPT !.pc = "mark", !.copied = {}]
             B == im.behind \cup {Gone}
  <2>1. /\ im.dir = "none" /\ PresentImages = {}
        /\ \/ Changes({"cli"}) /\ im'.cli = c
           \/ /\ Changes({"cli", "img", "dimg", "behind"}) /\ im'.cli = c /\ im'.img = Empty /\ im'.dimg = Empty
              /\ im'.behind = B /\ im.img = Gone
    BY <1>2, VolumeFacts DEF Restore, TargetEmpty, Changes, IMFields
  <2>2. c \in Clis /\ c.pc = "mark" /\ c.began = im.cli.began /\ c.unsynced = im.cli.unsynced
    BY VolumeFacts DEF Clis
  <2>3. B \in SUBSET Volumes
    BY VolumeFacts, VolumesAre
  <2> HIDE DEF c, B
  <2>4. im.acked = {}
    BY <2>1, VolumeFacts DEF ReportedOK, PresentImages, InPlace
  <2>5. ~Holds(im.img)
    BY <2>1, VolumeAssumption DEF PresentImages, InPlace, Holds
  <2>6. /\ im'.dir = im.dir /\ im'.marker = im.marker /\ im'.dmarker = im.dmarker /\ im'.faults = im.faults
        /\ im'.acked = im.acked /\ im'.cli = c
        /\ Changes({"img", "dimg", "dir", "behind", "marker", "dmarker", "cli", "faults"})
        /\ \/ im'.img = im.img /\ im'.dimg = im.dimg /\ im'.behind = im.behind
           \/ im'.img = Empty /\ im'.dimg = Empty /\ im'.behind = B
    BY <2>1 DEF Changes, IMFields
  <2>7. ~Holds(im'.img)
    BY <2>5, <2>6, VolumesAre
  <2>8. RestoreOK(im')
    BY <1>0, <2>1, <2>2, <2>4, <2>5, <2>6, <2>7, VolumeFacts DEF RestoreOK
  <2>9. im'.img \in Volumes /\ im'.dimg \in Volumes /\ im'.behind \in SUBSET Volumes /\ Flat(im'.img)
    BY <2>1, <2>3, <2>6, VolumeFacts, VolumesAre DEF DirectoryOK
  <2> QED BY <1>0, <2>1, <2>2, <2>4, <2>6, <2>8, <2>9, VolumeFacts, ToolKeeps
<1> QED BY <1>1, <1>2

\* The marker is made, or perhaps not (Mark).
LEMMA MarkKeeps == ASSUME IMInv, Mark PROVE IMInv'
<1>1. im.cli.pc = "mark" /\ im.gw = "off" /\ im.acked = {} /\ im.dir = "none" /\ ~Holds(im.img) /\ im.gw \in {"on", "off"}
  BY VolumeFacts DEF Mark, TurnsOK, RestoreOK, IMInv, IMTypes
<1> DEFINE c == [im.cli EXCEPT !.pc = "copy", !.began = TRUE, !.unsynced = FALSE]
           d == [im.cli EXCEPT !.pc = "idle"]
<1>2. /\ c \in Clis /\ c.pc = "copy" /\ c.began = TRUE /\ c.unsynced = FALSE
      /\ d \in Clis /\ d.pc = "idle" /\ d.began = im.cli.began /\ d.unsynced = im.cli.unsynced
  BY VolumeFacts DEF Clis
<1>3. CASE im' = [im EXCEPT !.marker = TRUE, !.dmarker = TRUE, !.behind = {}, !.cli.pc = "copy", !.cli.began = TRUE,
                          !.cli.unsynced = FALSE]
  <2>1. /\ Changes({"marker", "dmarker", "behind", "cli"}) /\ im'.cli = c /\ im'.marker = TRUE /\ im'.dmarker = TRUE
        /\ im'.behind = {}
    BY <1>3, VolumeFacts DEF Changes, IMFields
  <2> HIDE DEF c, d
  <2>2. /\ im'.img = im.img /\ im'.dimg = im.dimg /\ im'.dir = im.dir /\ im'.faults = im.faults /\ im'.acked = im.acked
        /\ Changes({"img", "dimg", "dir", "behind", "marker", "dmarker", "cli", "faults"})
    BY <2>1 DEF Changes, IMFields
  <2>3. RestoreOK(im')
    BY <1>1, <1>2, <2>1, <2>2 DEF RestoreOK
  <2>4. im'.marker \in BOOLEAN /\ im'.dmarker \in BOOLEAN /\ im'.behind \in SUBSET Volumes
    BY <2>1
  <2> QED BY <1>1, <1>2, <2>1, <2>2, <2>3, <2>4, VolumeFacts, ToolKeeps
<1>4. ASSUME NEW seen \in BOOLEAN, im' = Faulted([im EXCEPT !.marker = @ \/ seen, !.cli.pc = "idle"]) PROVE IMInv'
  <2> DEFINE m == im.marker \/ seen
  <2>1. Changes({"marker", "cli", "faults"}) /\ im'.cli = d /\ im'.marker = m /\ im'.faults = im.faults + 1
    BY <1>4, VolumeFacts DEF Faulted, Changes, IMFields
  <2>2. m \in BOOLEAN /\ (im.marker => m)
    BY VolumeFacts
  <2> HIDE DEF c, d, m
  <2>3. /\ im'.img = im.img /\ im'.dimg = im.dimg /\ im'.dir = im.dir /\ im'.acked = im.acked /\ im'.behind = im.behind
        /\ im'.dmarker = im.dmarker
        /\ Changes({"img", "dimg", "dir", "behind", "marker", "dmarker", "cli", "faults"})
    BY <2>1 DEF Changes, IMFields
  <2>4. RestoreOK(im')
    BY <1>1, <1>2, <2>1, <2>2, <2>3, VolumeFacts DEF RestoreOK
  <2> QED BY <1>1, <1>2, <2>1, <2>2, <2>3, <2>4, VolumeFacts, ToolKeeps
<1> QED BY <1>3, <1>4 DEF Mark

\* The copies are made and looked at, or a step fails (Copy, Verify, RestoreFails).
LEMMA StagesKeep == ASSUME IMInv, Copy \/ Verify \/ RestoreFails PROVE IMInv'
<1>1. PICK c \in Clis, m \in Nat :
        /\ Changes({"cli", "faults"}) /\ im'.cli = c /\ im'.faults = m /\ c.began = im.cli.began /\ c.unsynced = im.cli.unsynced
        /\ \/ c.pc \in {"copy", "rmdir"} /\ im.cli.pc = "copy"
           \/ c.pc = "idle" /\ im.cli.pc \in {"copy", "rmdir", "rename"}
  <2>1. CASE Copy
    <3>1. PICK n \in Backup : im' = [im EXCEPT !.cli.copied = @ \cup {n}] /\ im.cli.pc = "copy"
      BY <2>1 DEF Copy
    <3> DEFINE c == [im.cli EXCEPT !.copied = @ \cup {n}]
    <3>2. c \in Clis /\ c.pc = "copy" /\ c.began = im.cli.began /\ c.unsynced = im.cli.unsynced
      BY <3>1, VolumeFacts, VolumeAssumption DEF Clis
    <3>3. Changes({"cli", "faults"}) /\ im'.cli = c /\ im'.faults = im.faults
      BY <3>1, VolumeFacts DEF Changes, IMFields
    <3> HIDE DEF c
    <3> QED BY <3>1, <3>2, <3>3, VolumeFacts
  <2>2. CASE Verify
    <3> DEFINE c == [im.cli EXCEPT !.pc = "rmdir", !.copied = {}]
    <3>1. Changes({"cli", "faults"}) /\ im'.cli = c /\ im'.faults = im.faults /\ im.cli.pc = "copy"
      BY <2>2, VolumeFacts DEF Verify, Changes, IMFields
    <3>2. c \in Clis /\ c.pc = "rmdir" /\ c.began = im.cli.began /\ c.unsynced = im.cli.unsynced
      BY VolumeFacts DEF Clis
    <3> HIDE DEF c
    <3> QED BY <3>1, <3>2, VolumeFacts
  <2>3. CASE RestoreFails
    <3> DEFINE c == [im.cli EXCEPT !.pc = "idle", !.copied = {}]
    <3>1. Changes({"cli", "faults"}) /\ im'.cli = c /\ im'.faults = im.faults + 1 /\ im.cli.pc \in {"copy", "rmdir", "rename"}
      BY <2>3, VolumeFacts DEF RestoreFails, Faulted, Changes, IMFields
    <3>2. c \in Clis /\ c.pc = "idle" /\ c.began = im.cli.began /\ c.unsynced = im.cli.unsynced
      BY VolumeFacts DEF Clis
    <3> HIDE DEF c
    <3> QED BY <3>1, <3>2, VolumeFacts
  <2> QED BY <2>1, <2>2, <2>3
<1>2. /\ im'.img = im.img /\ im'.dimg = im.dimg /\ im'.dir = im.dir /\ im'.acked = im.acked /\ im'.behind = im.behind
      /\ im'.marker = im.marker /\ im'.dmarker = im.dmarker
      /\ Changes({"img", "dimg", "dir", "behind", "marker", "dmarker", "cli", "faults"})
  BY <1>1 DEF Changes, IMFields
<1>3. RestoreOK(im')
  BY <1>1, <1>2, VolumeFacts DEF RestoreOK
<1>4. im.gw = "off"
  BY <1>1, VolumeFacts DEF TurnsOK, IMInv, IMTypes
<1> QED BY <1>1, <1>2, <1>3, <1>4, VolumeFacts, ToolKeeps

\* The staging directory takes the place of the empty one (RemoveEmpty, Rename).
LEMMA ExchangeKeeps == ASSUME IMInv, RemoveEmpty \/ Rename PROVE IMInv'
<1>0. im.cli.pc \in {"rmdir", "rename"} /\ im.gw = "off" /\ im.acked = {} /\ im.dir = "none" /\ im.marker /\ im.dmarker
  BY VolumeFacts DEF RemoveEmpty, Rename, TurnsOK, RestoreOK, IMInv, IMTypes
<1>1. CASE RemoveEmpty
  <2> DEFINE c == [im.cli EXCEPT !.pc = "rename"]
             B == im.behind \cup Kept
  <2>1. Changes({"img", "dimg", "behind", "cli"}) /\ im'.cli = c /\ im'.img = Gone /\ im'.dimg = Gone /\ im'.behind = B
    BY <1>1, VolumeFacts DEF RemoveEmpty, Changes, IMFields
  <2>2. c \in Clis /\ c.pc = "rename" /\ c.began = im.cli.began /\ c.unsynced = im.cli.unsynced
    BY VolumeFacts DEF Clis
  <2>3. B \in SUBSET Volumes
    BY VolumeFacts DEF Kept, Volumes, Marks
  <2> HIDE DEF c, B
  <2>4. /\ im'.dir = im.dir /\ im'.acked = im.acked /\ im'.marker = im.marker /\ im'.dmarker = im.dmarker /\ im'.faults = im.faults
        /\ Changes({"img", "dimg", "dir", "behind", "marker", "dmarker", "cli", "faults"})
    BY <2>1 DEF Changes, IMFields
  <2>5. RestoreOK(im')
    BY <1>0, <2>1, <2>2, <2>4, VolumesAre DEF RestoreOK
  <2> QED BY <1>0, <2>1, <2>2, <2>3, <2>4, <2>5, VolumeFacts, VolumesAre, ToolKeeps
<1>2. CASE Rename
  <2> DEFINE c == [im.cli EXCEPT !.pc = "sync"]
             B == im.behind \cup {Gone}
             d == IF Backup \cap Nested = {} THEN "none" ELSE "durable"
  <2>1. /\ Changes({"img", "dimg", "dir", "behind", "cli"}) /\ im'.cli = c /\ im'.img = Whole /\ im'.dimg = Whole
        /\ im'.behind = B /\ im'.dir = d
    BY <1>2, VolumeFacts DEF Rename, Changes, IMFields
  <2>2. c \in Clis /\ c.pc = "sync" /\ c.began = im.cli.began /\ c.unsynced = im.cli.unsynced
    BY VolumeFacts DEF Clis
  <2>3. B \in SUBSET Volumes /\ d \in {"none", "durable"} /\ (d = "none" => Flat(Whole))
    BY VolumeFacts, VolumesAre
  <2> HIDE DEF c, B, d
  <2>4. /\ im'.acked = im.acked /\ im'.marker = im.marker /\ im'.dmarker = im.dmarker /\ im'.faults = im.faults
        /\ Changes({"img", "dimg", "dir", "behind", "marker", "dmarker", "cli", "faults"})
    BY <2>1 DEF Changes, IMFields
  <2>5. RestoreOK(im')
    BY <1>0, <2>1, <2>2, <2>3, <2>4, VolumesAre DEF RestoreOK
  <2>6. d \in Dirs
    BY <2>3 DEF Dirs
  <2> QED BY <1>0, <2>1, <2>2, <2>3, <2>4, <2>5, <2>6, VolumeFacts, VolumesAre, ToolKeeps
<1> QED BY <1>1, <1>2

\* The rename is synced, then the marker goes, and then that is synced (SyncOutputs,
\* ClearMarker, SyncMarker). The volume itself stays as it is.
LEMMA ClearKeeps == ASSUME IMInv, SyncOutputs \/ ClearMarker \/ SyncMarker PROVE IMInv'
<1>0. im.cli.pc \in {"sync", "clear", "swept"} /\ im.gw = "off" /\ Holds(im.img)
  BY VolumeFacts DEF SyncOutputs, ClearMarker, SyncMarker, TurnsOK, RestoreOK, IMInv, IMTypes
<1>1. ASSUME Changes({"marker", "dmarker", "behind", "cli", "faults"}), im'.cli \in Clis, im'.faults \in Nat,
             im'.marker \in BOOLEAN, im'.dmarker \in BOOLEAN, im'.behind \in {im.behind, {}},
             im'.cli.began = im.cli.began, im'.cli.pc \in {"idle", "clear", "swept"},
             \/ im'.behind = {}
             \/ /\ im'.cli.unsynced = im.cli.unsynced
                /\ \/ im.cli.pc \in {"clear", "swept"}
                   \/ im'.marker = im.marker /\ im'.dmarker = im.dmarker /\ im'.cli.pc = "idle"
      PROVE  IMInv'
  <2>1. /\ im'.img = im.img /\ im'.dimg = im.dimg /\ im'.dir = im.dir /\ im'.acked = im.acked
        /\ Changes({"img", "dimg", "dir", "behind", "marker", "dmarker", "cli", "faults"})
    BY <1>1 DEF Changes, IMFields
  <2>2. RestoreOK(im')
    BY <1>0, <1>1, <2>1, VolumeFacts DEF RestoreOK
  <2>3. im'.behind \in SUBSET Volumes
    BY <1>1, VolumeFacts
  <2> QED BY <1>0, <1>1, <2>1, <2>2, <2>3, VolumeFacts, ToolKeeps
<1> DEFINE clear == [im.cli EXCEPT !.pc = "clear"]
           idle == [im.cli EXCEPT !.pc = "idle"]
           swept == [im.cli EXCEPT !.pc = "swept"]
           done == [im.cli EXCEPT !.pc = "idle", !.unsynced = FALSE]
<1>2. /\ clear \in Clis /\ clear.pc = "clear" /\ clear.began = im.cli.began /\ clear.unsynced = im.cli.unsynced
      /\ idle \in Clis /\ idle.pc = "idle" /\ idle.began = im.cli.began /\ idle.unsynced = im.cli.unsynced
      /\ swept \in Clis /\ swept.pc = "swept" /\ swept.began = im.cli.began /\ swept.unsynced = im.cli.unsynced
      /\ done \in Clis /\ done.pc = "idle" /\ done.began = im.cli.began /\ done.unsynced = FALSE
      /\ im.cli.unsynced \in BOOLEAN
  BY VolumeFacts DEF Clis
<1>3. CASE SyncOutputs
  <2>1. /\ Changes({"marker", "dmarker", "behind", "cli", "faults"}) /\ im'.marker = im.marker /\ im'.dmarker = im.dmarker
        /\ \/ im'.behind = {} /\ im'.cli = clear /\ im'.faults = im.faults
           \/ im'.behind = im.behind /\ im'.cli = idle /\ im'.faults = im.faults + 1
    BY <1>3, VolumeFacts DEF SyncOutputs, Faulted, Changes, IMFields
  <2> HIDE DEF clear, idle, swept, done
  <2>2. CASE im'.behind = {} /\ im'.cli = clear /\ im'.faults = im.faults
    BY <1>1, <1>2, <2>1, <2>2, VolumeFacts
  <2>3. CASE im'.behind = im.behind /\ im'.cli = idle /\ im'.faults = im.faults + 1
    BY <1>1, <1>2, <2>1, <2>3, VolumeFacts
  <2> QED BY <2>1, <2>2, <2>3
<1>4. CASE ClearMarker
  <2>1. /\ Changes({"marker", "dmarker", "behind", "cli", "faults"}) /\ im'.behind = im.behind /\ im'.dmarker = im.dmarker
        /\ \/ im'.marker = FALSE /\ im'.cli = swept /\ im'.faults = im.faults
           \/ im'.marker = im.marker /\ im'.cli = idle /\ im'.faults = im.faults + 1
    BY <1>4, VolumeFacts DEF ClearMarker, Faulted, Changes, IMFields
  <2>2. im.cli.pc = "clear"
    BY <1>4 DEF ClearMarker
  <2> HIDE DEF clear, idle, swept, done
  <2>3. im'.marker \in BOOLEAN /\ im'.dmarker \in BOOLEAN /\ im'.faults \in Nat /\ im'.behind \in {im.behind, {}}
    BY <2>1, VolumeFacts
  <2>4. /\ im'.cli \in Clis /\ im'.cli.began = im.cli.began /\ im'.cli.unsynced = im.cli.unsynced
        /\ im'.cli.pc \in {"idle", "clear", "swept"}
    BY <1>2, <2>1
  <2> QED BY <1>1, <2>1, <2>2, <2>3, <2>4
<1>5. CASE SyncMarker
  <2>1. im.cli.pc = "swept"
    BY <1>5 DEF SyncMarker
  <2>2. ASSUME NEW mk \in BOOLEAN, NEW f \in Nat, Changes({"marker", "dmarker", "behind", "cli", "faults"}),
               im'.marker = mk, im'.dmarker = mk, im'.behind = {}, im'.cli = done, im'.faults = f
        PROVE  IMInv'
    <3> HIDE DEF clear, idle, swept, done
    <3> QED BY <1>1, <1>2, <2>2, VolumeFacts
  <2>3. CASE im' = Synced(FALSE)
    <3>1. /\ Changes({"marker", "dmarker", "behind", "cli", "faults"}) /\ im'.marker = FALSE /\ im'.dmarker = FALSE
          /\ im'.behind = {} /\ im'.cli = done /\ im'.faults = im.faults
      BY <2>3, VolumeFacts DEF Synced, Changes, IMFields
    <3> HIDE DEF done
    <3> QED BY <2>2, <3>1, VolumeFacts
  <2>4. CASE im' = Faulted(Synced(TRUE))
    <3>1. /\ Changes({"marker", "dmarker", "behind", "cli", "faults"}) /\ im'.marker = TRUE /\ im'.dmarker = TRUE
          /\ im'.behind = {} /\ im'.cli = done /\ im'.faults = im.faults + 1
      BY <2>4, VolumeFacts DEF Synced, Faulted, Changes, IMFields
    <3> HIDE DEF done
    <3> QED BY <2>2, <3>1, VolumeFacts
  <2>5. ASSUME NEW back \in BOOLEAN, im' = Faulted([im EXCEPT !.marker = back, !.cli.pc = "idle"]) PROVE IMInv'
    <3>1. /\ Changes({"marker", "dmarker", "behind", "cli", "faults"}) /\ im'.marker = back /\ im'.dmarker = im.dmarker
          /\ im'.behind = im.behind /\ im'.cli = idle /\ im'.faults = im.faults + 1
      BY <2>5, VolumeFacts DEF Faulted, Changes, IMFields
    <3> HIDE DEF clear, idle, swept, done
    <3>2. im'.marker \in BOOLEAN /\ im'.dmarker \in BOOLEAN /\ im'.faults \in Nat
      BY <2>5, <3>1, VolumeFacts
    <3> QED BY <1>1, <1>2, <2>1, <3>1, <3>2
  <2> QED BY <1>5, <2>3, <2>4, <2>5 DEF SyncMarker
<1> QED BY <1>3, <1>4, <1>5

\* A backup goes on, is published, or takes back what it linked (Inventory, Archive, PublishPair).
LEMMA BackupKeeps ==
  ASSUME IMInv, NEW b \in Backups, NEW x \in Bks, NEW p \in Pairs, NEW d \in BOOLEAN, Changes({"bk", "pair", "dirty", "faults"}),
         im'.bk = [im.bk EXCEPT ![b] = x], im'.pair = p, im'.dirty = d, im'.faults \in Nat, im.dirty => d,
         \/ x.pc = "idle" /\ im.bk[b].pc # "manifest" /\ p = im.pair
         \/ /\ x.pc = "idle"
            /\ p.archive # im.pair.archive => im.pair.archive = b /\ p.archive = "none"
            /\ p.manifest # im.pair.manifest => im.pair.manifest = b /\ p.manifest = "none"
            /\ d \/ (p.archive # b /\ p.manifest # b)
         \/ x.pc = "write" /\ im.bk[b].pc = "idle" /\ im.pair.archive = "none" /\ im.pair.manifest = "none" /\ p = im.pair
         \/ x.pc = "archive" /\ im.bk[b].pc = "write" /\ p = im.pair
         \/ x.pc = "manifest" /\ im.bk[b].pc = "archive" /\ im.pair.archive = "none" /\ p.archive = b /\ p.manifest = im.pair.manifest
         \/ /\ x.pc = "done" /\ im.bk[b].pc = "manifest" /\ im.pair.manifest = "none"
            /\ p.archive = im.pair.archive /\ p.manifest = b
  PROVE  IMInv'
<1>0. im.bk \in [Backups -> Bks] /\ im.pair \in Pairs /\ PairOK(im) /\ "none" \notin Backups
  BY VolumeFacts, VolumeAssumption DEF IMInv
<1>1. im'.bk \in [Backups -> Bks] /\ im'.bk[b] = x /\ \A o \in Backups \ {b} : im'.bk[o] = im.bk[o]
  BY <1>0
<1>2. IMTypes(im')
  BY <1>1 DEF IMInv, IMTypes, Changes, IMFields
<1>3. VolumeOK(im')
  BY DEF IMInv, VolumeOK, TurnsOK, EntriesOK, ReportedOK, DirectoryOK, NamesOK, RestoreOK, Changes, IMFields
<1>4. PairOK(im')
  BY <1>0, <1>1 DEF PairOK
<1> QED BY <1>2, <1>3, <1>4 DEF IMInv

\* What a backup that gives up takes away, and what it has to leave (Roll).
LEMMA RollIs ==
  ASSUME IMInv, NEW b \in Backups, NEW left, left \subseteq {f \in {"archive", "manifest"} : im.pair[f] = b},
         NEW r, r = Roll(b, left), NEW e \in Nat, Changes({"bk", "pair", "dirty", "faults"}),
         im'.bk = r.bk, im'.pair = r.pair, im'.dirty = r.dirty, im'.faults = e
  PROVE  IMInv'
<1> DEFINE x == IF im.pair.archive = b /\ "archive" \notin left THEN "none" ELSE im.pair.archive
           y == IF im.pair.manifest = b /\ "manifest" \notin left THEN "none" ELSE im.pair.manifest
           p == [im.pair EXCEPT !.archive = x, !.manifest = y]
           d == im.dirty \/ left # {}
<1>1. im'.bk = [im.bk EXCEPT ![b] = NoBackup] /\ im'.pair = p /\ im'.dirty = d
  BY VolumeFacts DEF Roll, IMFields
<1>2. x \in Ends /\ y \in Ends
  BY VolumeFacts DEF Pairs, Ends
<1>3. d \in BOOLEAN /\ (im.dirty => d) /\ (d \/ left = {})
  BY VolumeFacts
<1>4. /\ x # im.pair.archive => im.pair.archive = b /\ x = "none"
      /\ y # im.pair.manifest => im.pair.manifest = b /\ y = "none"
      /\ left = {} => x # b /\ y # b
  BY VolumeAssumption
<1> HIDE DEF x, y, d
<1>5. p \in Pairs /\ p.archive = x /\ p.manifest = y
  BY <1>2, VolumeFacts DEF Pairs
<1> HIDE DEF p
<1>6. d \/ (p.archive # b /\ p.manifest # b)
  BY <1>3, <1>4, <1>5
<1>7. NoBackup \in Bks /\ NoBackup.pc = "idle"
  BY VolumesAre
<1> QED BY <1>1, <1>3, <1>4, <1>5, <1>6, <1>7, BackupKeeps

\* The steps of one backup, and its failures (build_inventory, publish_artifact_pair).
LEMMA BackupsKeep == ASSUME IMInv, NEW b \in Backups, Inventory(b) \/ Archive(b) \/ PublishPair(b) PROVE IMInv'
<1>0. /\ im.bk \in [Backups -> Bks] /\ im.bk[b] \in Bks /\ im.pair \in Pairs /\ im.faults \in Nat
      /\ im.faults + 1 \in Nat /\ im.dirty \in BOOLEAN /\ DOMAIN im = IMFields
  BY VolumeFacts
<1>1. CASE Inventory(b)
  <2> DEFINE x == [pc |-> "write", seen |-> PresentImages]
  <2>1. x \in Bks /\ x.pc = "write"
    BY DEF Bks, PresentImages, InPlace
  <2>2. /\ Changes({"bk", "pair", "dirty", "faults"}) /\ im'.bk = [im.bk EXCEPT ![b] = x] /\ im'.pair = im.pair
        /\ im'.faults = im.faults /\ im'.dirty = im.dirty
        /\ im.bk[b].pc = "idle" /\ im.pair.archive = "none" /\ im.pair.manifest = "none"
    BY <1>0, <1>1 DEF Inventory, Changes, IMFields
  <2> HIDE DEF x
  <2> QED BY <1>0, <2>1, <2>2, BackupKeeps
<1>2. CASE Archive(b)
  <2> DEFINE x == IF im.bk[b].seen \subseteq PresentImages THEN [pc |-> "archive", seen |-> {}] ELSE NoBackup
  <2>1. x \in Bks /\ x.pc \in {"archive", "idle"}
    BY VolumesAre DEF Bks
  <2>2. /\ Changes({"bk", "pair", "dirty", "faults"}) /\ im'.bk = [im.bk EXCEPT ![b] = x] /\ im'.pair = im.pair
        /\ im'.faults = im.faults /\ im'.dirty = im.dirty /\ im.bk[b].pc = "write"
    BY <1>0, <1>2 DEF Archive, Changes, IMFields
  <2> HIDE DEF x
  <2> QED BY <1>0, <2>1, <2>2, BackupKeeps
<1>3. ASSUME NEW left, left \subseteq {f \in {"archive", "manifest"} : im.pair[f] = b},
             im' = Roll(b, left) \/ im' = Faulted(Roll(b, left))
      PROVE  IMInv'
  <2> DEFINE r == Roll(b, left)
  <2>1. DOMAIN r = IMFields /\ \A f \in IMFields \ {"bk", "pair", "dirty"} : r[f] = im[f]
    BY <1>0 DEF Roll, IMFields
  <2>2. im' = r \/ im' = Faulted(r)
    BY <1>3
  <2> HIDE DEF r
  <2>3. /\ Changes({"bk", "pair", "dirty", "faults"}) /\ im'.bk = r.bk /\ im'.pair = r.pair /\ im'.dirty = r.dirty
        /\ im'.faults \in Nat
    BY <1>0, <2>1, <2>2 DEF Faulted, Changes, IMFields
  <2> QED BY <1>3, <2>3, RollIs DEF r
<1>4. ASSUME RollFails(b) PROVE IMInv'
  BY <1>3, <1>4 DEF RollFails
<1>5. CASE im.bk[b].pc = "archive" /\ Link(b, "archive")
  <2> DEFINE x == [im.bk[b] EXCEPT !.pc = "manifest"]
             p == [im.pair EXCEPT !.archive = b]
  <2>1. x \in Bks /\ x.pc = "manifest"
    BY <1>0 DEF Bks
  <2>2. p \in Pairs /\ p.archive = b /\ p.manifest = im.pair.manifest
    BY <1>0 DEF Pairs, Ends
  <2>3. CASE im.pair.archive = "none" /\ im' = [im EXCEPT !.pair["archive"] = b, !.bk[b].pc = "manifest"]
    <3>1. /\ Changes({"bk", "pair", "dirty", "faults"}) /\ im'.bk = [im.bk EXCEPT ![b] = x] /\ im'.pair = p
          /\ im'.faults = im.faults /\ im'.dirty = im.dirty
      BY <1>0, <2>3 DEF Changes, IMFields
    <3> HIDE DEF x, p
    <3> QED BY <1>0, <1>5, <2>1, <2>2, <2>3, <3>1, BackupKeeps
  <2>4. CASE im' = Roll(b, {})
    BY <1>3, <2>4
  <2> QED BY <1>4, <1>5, <2>3, <2>4 DEF Link
<1>6. CASE im.bk[b].pc = "manifest" /\ Link(b, "manifest")
  <2> DEFINE x == [im.bk[b] EXCEPT !.pc = "done"]
             p == [im.pair EXCEPT !.manifest = b]
  <2>1. x \in Bks /\ x.pc = "done"
    BY <1>0 DEF Bks
  <2>2. p \in Pairs /\ p.archive = im.pair.archive /\ p.manifest = b
    BY <1>0 DEF Pairs, Ends
  <2>3. CASE im.pair.manifest = "none" /\ im' = [im EXCEPT !.pair["manifest"] = b, !.bk[b].pc = "done"]
    <3>1. /\ Changes({"bk", "pair", "dirty", "faults"}) /\ im'.bk = [im.bk EXCEPT ![b] = x] /\ im'.pair = p
          /\ im'.faults = im.faults /\ im'.dirty = im.dirty
      BY <1>0, <2>3 DEF Changes, IMFields
    <3> HIDE DEF x, p
    <3> QED BY <1>0, <1>6, <2>1, <2>2, <2>3, <3>1, BackupKeeps
  <2>4. CASE im' = Roll(b, {})
    BY <1>3, <2>4
  <2> QED BY <1>4, <1>6, <2>3, <2>4 DEF Link
<1>7. CASE im.bk[b].pc = "done" /\ im' = [im EXCEPT !.bk[b] = NoBackup]
  <2>1. /\ Changes({"bk", "pair", "dirty", "faults"}) /\ im'.bk = [im.bk EXCEPT ![b] = NoBackup] /\ im'.pair = im.pair
        /\ im'.faults = im.faults /\ im'.dirty = im.dirty
    BY <1>0, <1>7 DEF Changes, IMFields
  <2>2. NoBackup \in Bks /\ NoBackup.pc = "idle" /\ im.bk[b].pc # "manifest"
    BY <1>7, VolumesAre
  <2> QED BY <1>0, <2>1, <2>2, BackupKeeps
<1> QED BY <1>1, <1>2, <1>4, <1>5, <1>6, <1>7 DEF PublishPair

\* What a crash leaves of the volume: of each entry what was seen or what was
\* durable, unless an entry above it was lost.
LEMMA RemainsIs ==
  ASSUME IMInv, NEW v \in Remains
  PROVE  /\ v \in Volumes
         /\ \A n \in im.acked : n \notin im.shaky => v[n] = "fresh"
         /\ im.cli.began /\ ~im.cli.unsynced => Holds(v) \/ (im.marker /\ im.dmarker)
<1>1. ASSUME NEW w \in Kept PROVE w \in Volumes /\ \A n \in Images : w[n] \in {im.img[n], im.dimg[n]}
  <2>1. PICK seen \in SUBSET Images : w = [n \in Images |-> IF n \in seen THEN im.img[n] ELSE im.dimg[n]]
    BY <1>1 DEF Kept
  <2> QED BY <2>1, VolumeFacts DEF Volumes, Marks
<1>2. CASE v \in Kept
  <2>1. v \in Volumes /\ \A n \in Images : v[n] \in {im.img[n], im.dimg[n]}
    BY <1>1, <1>2
  <2>2. \A n \in im.acked : v[n] = "fresh"
    BY <2>1, VolumeFacts DEF ReportedOK
  <2>3. Holds(im.img) /\ Holds(im.dimg) => Holds(v)
    BY <2>1, VolumeAssumption DEF Holds
  <2> QED BY <2>1, <2>2, <2>3, VolumeFacts DEF RestoreOK
<1>3. CASE v \in im.behind
  BY <1>3, VolumeFacts DEF ReportedOK, RestoreOK
<1>4. CASE im.dir \in {"made", "unsure"} /\ \E w \in Kept : v = Lost(w)
  <2>1. PICK w \in Kept : v = Lost(w)
    BY <1>4
  <2>2. w \in Volumes /\ \A n \in Images : w[n] \in {im.img[n], im.dimg[n]}
    BY <1>1
  <2>3. v \in Volumes /\ \A n \in Images : n \notin Nested => v[n] = w[n]
    BY <2>1, <2>2 DEF Lost, Volumes, Marks
  <2>4. ~im.cli.began
    BY <1>4, VolumeFacts DEF RestoreOK
  <2>5. \A n \in im.acked : n \notin im.shaky => v[n] = "fresh"
    BY <1>4, <2>2, <2>3, VolumeFacts DEF ReportedOK
  <2> QED BY <2>3, <2>4, <2>5
<1> QED BY <1>2, <1>3, <1>4 DEF Remains

\* The machine stops (MachineCrash).
LEMMA CrashKeeps == ASSUME IMInv, MachineCrash PROVE IMInv'
<1> DEFINE dirty == im.dirty \/ \E b \in Backups : Unfinished(b)
           p == [NoPub EXCEPT !.temp = im.pub.temp]
           r == [pc |-> "idle", todo |-> {}, stale |-> {}]
           c == [im.cli EXCEPT !.pc = "idle", !.copied = {}]
           k == [b \in Backups |-> NoBackup]
           Dir(v) == IF InPlace(v) \cap Nested # {} \/ (im.dir = "durable" /\ im.behind = {}) THEN "durable" ELSE "none"
           A(v) == {n \in im.acked : n \in im.shaky => v[n] = "fresh"}
           X(lost) == IF "archive" \in lost /\ Unfinished(im.pair.archive) THEN "none" ELSE im.pair.archive
           Y(lost) == IF "manifest" \in lost /\ Unfinished(im.pair.manifest) THEN "none" ELSE im.pair.manifest
           E(lost) == [im.pair EXCEPT !.archive = X(lost), !.manifest = Y(lost)]
<1>1. PICK v \in Remains, marker \in {im.marker, im.dmarker}, lost \in SUBSET {"archive", "manifest"} :
          im' = Faulted([im EXCEPT
            !.img = v, !.dimg = v, !.behind = {}, !.marker = marker, !.dmarker = marker, !.gw = "off", !.lock = "free",
            !.dir = IF InPlace(v) \cap Nested # {} \/ (@ = "durable" /\ im.behind = {}) THEN "durable" ELSE "none",
            !.acked = {n \in @ : n \in im.shaky => v[n] = "fresh"}, !.shaky = {},
            !.pub = [NoPub EXCEPT !.temp = im.pub.temp], !.ret = [pc |-> "idle", todo |-> {}, stale |-> {}],
            !.cli = [@ EXCEPT !.pc = "idle", !.copied = {}], !.bk = [b \in Backups |-> NoBackup],
            !.dirty = @ \/ \E b \in Backups : Unfinished(b),
            !.pair.archive = IF "archive" \in lost /\ Unfinished(@) THEN "none" ELSE @,
            !.pair.manifest = IF "manifest" \in lost /\ Unfinished(@) THEN "none" ELSE @])
  BY DEF MachineCrash
<1> DEFINE dir == Dir(v)
           a == A(v)
           x == X(lost)
           y == Y(lost)
           e == E(lost)
<1>2. p \in Pubs /\ p.pc = "idle" /\ p.out = "none"
  BY VolumeFacts, VolumesAre DEF Pubs
<1>3. /\ r \in Rets /\ r.pc = "idle" /\ r.stale = {}
      /\ c \in Clis /\ c.pc = "idle" /\ c.began = im.cli.began /\ c.unsynced = im.cli.unsynced
  BY VolumeFacts DEF Rets, Clis
<1>4. k \in [Backups -> Bks] /\ \A b \in Backups : k[b].pc = "idle"
  BY VolumesAre
<1>5. dirty \in BOOLEAN /\ (~dirty => ~im.dirty /\ \A b \in Backups : ~Unfinished(b))
  BY VolumeFacts
<1>6. /\ DOMAIN im' = IMFields /\ im'.img = v /\ im'.dimg = v /\ im'.behind = {} /\ im'.marker = marker /\ im'.dmarker = marker
      /\ im'.gw = "off" /\ im'.lock = "free" /\ im'.dir = dir /\ im'.acked = a /\ im'.shaky = {} /\ im'.pub = p /\ im'.ret = r
      /\ im'.cli = c /\ im'.bk = k /\ im'.dirty = dirty /\ im'.pair = e /\ im'.faults = im.faults + 1
  <2>1. DOMAIN im' = IMFields /\ im'.img = v /\ im'.dimg = v /\ im'.behind = {} /\ im'.marker = marker /\ im'.dmarker = marker
    BY <1>1, VolumeFacts DEF Faulted, IMFields
  <2>2. im'.gw = "off" /\ im'.lock = "free" /\ im'.shaky = {} /\ im'.faults = im.faults + 1
    BY <1>1, VolumeFacts DEF Faulted, IMFields
  <2>3. im'.pub = p /\ im'.ret = r /\ im'.cli = c /\ im'.bk = k
    BY <1>1, VolumeFacts DEF Faulted, IMFields
  <2>4. im'.dir = dir /\ im'.acked = a
    BY <1>1, VolumeFacts DEF Faulted, IMFields
  <2>5. im'.dirty = dirty
    BY <1>1, VolumeFacts DEF Faulted, IMFields
  <2>6. im'.pair = e
    BY <1>1, VolumeFacts DEF Faulted, IMFields
  <2> QED BY <2>1, <2>2, <2>3, <2>4, <2>5, <2>6
<1>7. /\ v \in Volumes /\ \A n \in im.acked : n \notin im.shaky => v[n] = "fresh"
      /\ im.cli.began /\ ~im.cli.unsynced => Holds(v) \/ (im.marker /\ im.dmarker)
  BY RemainsIs
<1>8. a \in SUBSET Images /\ \A n \in a : v[n] = "fresh"
  BY <1>7, VolumeFacts
<1>9. /\ dir \in {"none", "durable"} /\ (dir = "none" => Flat(v))
      /\ \A n \in Nested : v[n] = "fresh" => dir = "durable"
  BY VolumeAssumption DEF InPlace, Flat
<1>10. x \in Ends /\ y \in Ends
  BY VolumeFacts DEF Pairs, Ends
<1>11. (\A b \in Backups : ~Unfinished(b)) => x = im.pair.archive /\ y = im.pair.manifest
  BY DEF Unfinished
<1> HIDE DEF dir, a, x, y, p, r, c, k, dirty, Dir, A, X, Y
<1>12. e \in Pairs /\ e.archive = x /\ e.manifest = y
  BY <1>10, VolumeFacts DEF Pairs, x, y
<1> HIDE DEF e, E
<1>13. IMTypes(im')
  <2>1. marker \in BOOLEAN /\ dir \in Dirs
    BY <1>9, VolumeFacts DEF Dirs
  <2> QED BY <1>2, <1>3, <1>4, <1>5, <1>6, <1>7, <1>8, <1>12, <2>1, VolumeFacts DEF IMTypes
<1>14. TurnsOK(im') /\ NamesOK(im')
  BY <1>2, <1>3, <1>6 DEF TurnsOK, NamesOK
<1>15. ReportedOK(im') /\ DirectoryOK(im')
  BY <1>2, <1>6, <1>8, <1>9 DEF ReportedOK, DirectoryOK
<1>16. RestoreOK(im')
  BY <1>3, <1>6, <1>7, <1>9, VolumeFacts DEF RestoreOK
<1>17. PairOK(im')
  <2>1. PairOK(im)
    BY DEF IMInv
  <2>2. \A b \in Backups : im'.bk[b].pc = "idle"
    BY <1>4, <1>6
  <2>3. ASSUME ~dirty PROVE e.archive = e.manifest
    BY <1>5, <1>11, <1>12, <2>1, <2>3 DEF PairOK, Unfinished
  <2> QED BY <1>6, <2>2, <2>3 DEF PairOK
<1> QED BY <1>13, <1>14, <1>15, <1>16, <1>17 DEF IMInv, VolumeOK, EntriesOK

\* The volume starts empty.
LEMMA VolumeStarts == IMInit => IMInv
<1> SUFFICES ASSUME IMInit PROVE IMInv
  OBVIOUS
<1> DEFINE r == [pc |-> "idle", todo |-> {}, stale |-> {}]
           c == [pc |-> "idle", copied |-> {}, began |-> FALSE, unsynced |-> FALSE]
           k == [b \in Backups |-> NoBackup]
           p == [archive |-> "none", manifest |-> "none"]
<1>1. /\ DOMAIN im = IMFields /\ im.img = Empty /\ im.dimg = Empty /\ im.dir = "none" /\ im.behind = {}
      /\ im.marker = FALSE /\ im.dmarker = FALSE /\ im.gw = "off"
      /\ im.lock = "free" /\ im.pub = NoPub /\ im.ret = r /\ im.cli = c /\ im.bk = k /\ im.dirty = FALSE
      /\ im.pair = p /\ im.acked = {} /\ im.shaky = {} /\ im.faults = 0
  BY DEF IMInit, IMFields
<1>2. r \in Rets /\ r.pc = "idle" /\ r.stale = {} /\ c \in Clis /\ c.pc = "idle" /\ c.began = FALSE
  BY DEF Rets, Clis
<1>3. k \in [Backups -> Bks] /\ (\A b \in Backups : k[b].pc = "idle") /\ p \in Pairs /\ p.archive = "none" /\ p.manifest = "none"
  BY VolumesAre DEF Pairs, Ends
<1> HIDE DEF r, c, k, p
<1>4. IMTypes(im)
  <2>1. im.marker \in BOOLEAN /\ im.dmarker \in BOOLEAN /\ im.dirty \in BOOLEAN
    BY <1>1
  <2>2. im.img \in Volumes /\ im.dimg \in Volumes /\ im.pub \in Pubs /\ im.ret \in Rets /\ im.cli \in Clis /\ im.dir \in Dirs
    BY <1>1, <1>2, VolumesAre DEF Dirs
  <2> QED BY <1>1, <1>3, <2>1, <2>2 DEF IMTypes
<1>5. VolumeOK(im) /\ PairOK(im)
  BY <1>1, <1>2, <1>3, VolumesAre
     DEF VolumeOK, TurnsOK, EntriesOK, ReportedOK, DirectoryOK, NamesOK, RestoreOK, PairOK
<1> QED BY <1>4, <1>5 DEF IMInv

\* Every step of the gateway, the tool, the backups and the machine keeps the invariant.
LEMMA VolumeSteps == IMInv /\ [IMNext]_im => IMInv'
<1> SUFFICES ASSUME IMInv, [IMNext]_im PROVE IMInv'
  OBVIOUS
<1>1. CASE UNCHANGED im
  BY <1>1 DEF IMInv, IMTypes, VolumeOK, TurnsOK, EntriesOK, ReportedOK, DirectoryOK, NamesOK, RestoreOK, PairOK
<1>2. CASE GatewayStep
  BY <1>2, GatewayKeeps, BeginKeeps, ParentKeeps, TempKeeps, ReplaceKeeps, ReportKeeps, RetentionKeeps, RetentionEndKeeps, DeleteKeeps,
     AgeKeeps DEF GatewayStep
<1>3. CASE RestoreStep
  BY <1>3, RestoreKeeps, MarkKeeps, StagesKeep, ExchangeKeeps, ClearKeeps DEF RestoreStep
<1>4. CASE \E b \in Backups : Inventory(b) \/ Archive(b) \/ PublishPair(b)
  BY <1>4, BackupsKeep
<1>5. CASE MachineCrash
  BY <1>5, CrashKeeps
<1> QED BY <1>1, <1>2, <1>3, <1>4, <1>5 DEF IMNext

\* What a publication or a backup reported stays true, through the retention,
\* restores, failed syncs, failed clean-ups and crashes (publish_png,
\* ImageRetentionService.run, publish_artifact_pair).
THEOREM ImagesAlwaysKept == IMSpec => []ImagesKept
<1>1. IMInv => ImagesKept
  <2> SUFFICES ASSUME IMInv PROVE ImagesKept
    OBVIOUS
  <2>1. \A n \in im.acked : im.img[n] = "fresh" /\ im.dimg[n] = "fresh"
    BY VolumeFacts DEF ReportedOK
  <2>2. im.pub.out = "error" /\ im.pub.pc = "idle" => im.img[im.pub.name] = "none"
    BY VolumeFacts DEF NamesOK
  <2>3. ~im.dirty /\ (\A b \in Backups : im.bk[b].pc = "idle") => im.pair.archive = im.pair.manifest
    BY DEF IMInv, PairOK
  <2> QED BY <2>1, <2>2, <2>3 DEF ImagesKept
<1> QED BY <1>1, VolumeStarts, VolumeSteps, PTL DEF IMSpec

\* No gateway starts on part of a restore, wherever the tool failed or the machine
\* stopped, unless a second call of the tool cleared the marker of a rename nobody
\* synced (_create_incomplete_marker, _verify_and_publish, _clear_incomplete_marker).
THEOREM RestoreAlwaysWhole == IMSpec => RestoreWhole
<1>1. IMInv /\ [IMNext]_im => [StartGateway /\ im.cli.began /\ ~im.cli.unsynced => Backup \subseteq PresentImages]_im
  <2> SUFFICES ASSUME IMInv, StartGateway, im.cli.began, ~im.cli.unsynced PROVE Backup \subseteq PresentImages
    OBVIOUS
  <2>1. Holds(im.img)
    BY VolumeFacts DEF StartGateway, RestoreOK
  <2> QED BY <2>1, VolumeAssumption DEF Holds, PresentImages, InPlace
<1> QED BY <1>1, VolumeStarts, VolumeSteps, PTL DEF IMSpec, RestoreWhole

-----------------------------------------------------------------------------
(***************************************************************************)
(* The lifespans of the gateway's processes.  What a lifespan holds is the  *)
(* first part of one list of resources, and what it has closed is the part  *)
(* after it, the last one first; a lock has one holder, and a lease keeps   *)
(* the name on the locked file.                                             *)
(***************************************************************************)

\* What the stack of cleanups holds when all is open, the first pushed first.
Resources == << "lease", "http", "batcher", "accounting", "runtime", "models", "evals", "drained", "supervisor", "capacity",
                "coordinator", "state", "runner" >>
\* How much of it is there before each step of the startup, and after the last.
Depth == << 1, 1, 2, 3, 4, 5, 6, 7, 10, 11, 11, 11, 13 >>
Held(n) == [i \in 1..n |-> Resources[i]]
Shut(n, m) == [j \in 1..m |-> Resources[n + m + 1 - j]]
OpenTo(n) == {Resources[i] : i \in 1..n} \ {"drained"}

Claiming == {"new", "open", "check", "validate", "lock", "lock_unsafe", "replace", "release", "reopen", "named", "secret"}
Places == Claiming \cup {"steps", "running", "draining", "over"}
Fresh == {"new", "open", "reopen", "over"}
SpanFields == {"pc", "fd", "step", "stack", "open", "closed", "lease", "health", "worker", "update", "cancelled", "debt", "failed",
               "over"}
SpanTypes(s) ==
  /\ DOMAIN s = SpanFields /\ s.pc \in Places /\ s.fd \in 0..MaxInodes /\ s.step \in 1..12
  /\ s.lease \in BOOLEAN /\ s.update \in BOOLEAN /\ s.cancelled \in BOOLEAN /\ s.debt \in BOOLEAN /\ s.failed \in BOOLEAN
InodeTypes(f) == DOMAIN f = {"made", "safe", "linked", "holder"} /\ f.holder \in Lifespans \cup {"none"}
LFFields == {"name", "inode", "secret", "issued", "chmods", "cached", "span"}
LFTypes(c) ==
  /\ DOMAIN c = LFFields /\ c.name \in 0..MaxInodes
  /\ DOMAIN c.inode = 1..MaxInodes /\ \A i \in 1..MaxInodes : InodeTypes(c.inode[i])
  /\ c.secret \in Nat /\ c.issued \in Nat /\ c.chmods \in Nat
  /\ c.cached \in [Range(ProcessOf) -> Nat]
  /\ DOMAIN c.span = Lifespans /\ \A l \in Lifespans : SpanTypes(c.span[l])

\* A lifespan has the first n resources and has closed the m after them, the last one first.
Stands(s, n, m) ==
  /\ s.stack = Held(n) /\ s.open = OpenTo(n) /\ s.closed = Shut(n, m) /\ n + m <= 13 /\ (s.lease <=> n > 0)
  /\ s.pc # "draining" => m = 0
  /\ s.pc \in (Claiming \ {"secret"}) \cup {"over"} => n = 0
  /\ s.pc \in Claiming => s.step = 1
  /\ s.pc = "secret" => n = 1
  /\ s.pc = "steps" => n = Depth[s.step]
  /\ s.pc = "running" => n = 13
  /\ s.worker # "none" => n >= 9
  /\ s.update => n >= 11
Reports(s) ==
  /\ s.health = "ready" => s.pc = "running"
  /\ s.over \in {"raised", "drain", "clean"} => s.pc = "over"
  /\ s.over = "clean" => ~s.debt
SpanOK(s) == (\E n, m \in 0..13 : Stands(s, n, m)) /\ Reports(s)
\* A lifespan with the lock, and one that looked at it under its name.
Locking(s) == s.pc \in {"named", "replace", "release", "secret", "steps", "running"} \/ s.lease
LockOK(c, l) ==
  /\ c.span[l].pc \in {"check", "validate", "lock", "lock_unsafe"} \/ Locking(c.span[l]) => c.span[l].fd # 0
  /\ Locking(c.span[l]) => c.inode[c.span[l].fd].holder = l
  /\ c.span[l].lease => c.name = c.span[l].fd
SecretOK(c) == \A p \in Range(ProcessOf) : c.cached[p] # 0 => c.cached[p] = c.secret
LFInv == LFTypes(lf) /\ SecretOK(lf) /\ \A l \in Lifespans : SpanOK(lf.span[l]) /\ LockOK(lf, l)

ResourceNames ==
              /\ Resources[1] = "lease" /\ Resources[2] = "http" /\ Resources[3] = "batcher" /\ Resources[4] = "accounting"
              /\ Resources[5] = "runtime" /\ Resources[6] = "models" /\ Resources[7] = "evals" /\ Resources[8] = "drained"
              /\ Resources[9] = "supervisor" /\ Resources[10] = "capacity" /\ Resources[11] = "coordinator" /\ Resources[12] = "state"
              /\ Resources[13] = "runner"
\* The resources in their order.
LEMMA ResourcesAre == ResourceNames
BY DEF ResourceNames, Resources

DepthNumbers ==
              /\ Depth[1] = 1 /\ Depth[2] = 1 /\ Depth[3] = 2 /\ Depth[4] = 3 /\ Depth[5] = 4
              /\ Depth[6] = 5 /\ Depth[7] = 6 /\ Depth[8] = 7 /\ Depth[9] = 10 /\ Depth[10] = 11
              /\ Depth[11] = 11 /\ Depth[12] = 11 /\ Depth[13] = 13
\* The depths before the steps.
LEMMA DepthsAre == DepthNumbers
BY DEF DepthNumbers, Depth

StepNames ==
              /\ Steps[1] = "images" /\ Steps[2] = "http" /\ Steps[3] = "batcher" /\ Steps[4] = "accounting"
              /\ Steps[5] = "runtime" /\ Steps[6] = "models" /\ Steps[7] = "evals" /\ Steps[8] = "supervisor"
              /\ Steps[9] = "coordinator" /\ Steps[10] = "verify" /\ Steps[11] = "tasks" /\ Steps[12] = "runner"
\* The steps in their order.
LEMMA StepsAre == StepNames /\ Len(Steps) = 12
BY DEF StepNames, Steps

ResourceSet == {Resources[i] : i \in 1..13}
\* No resource is twice in the list.
LEMMA ResourcesDiffer ==
  /\ \A i \in 1..13 : Resources[i] \in ResourceSet
  /\ \A i, j \in 1..13 : Resources[i] = Resources[j] => i = j
<1>1. \A i \in 1..13 : Resources[i] \in ResourceSet
  BY DEF ResourceSet
<1>2. SUFFICES ASSUME NEW i \in 1..13, NEW j \in 1..13, i < j, Resources[i] = Resources[j]
               PROVE FALSE
  BY <1>1
<1>3. j \in {1, 2, 3, 4, 5, 6, 7, 8, 9, 10, 11, 12, 13}
  OBVIOUS
<1>4. CASE i = 1
  BY <1>2, <1>3, <1>4, ResourcesAre DEF ResourceNames
<1>5. CASE i = 2
  BY <1>2, <1>3, <1>5, ResourcesAre DEF ResourceNames
<1>6. CASE i = 3
  BY <1>2, <1>3, <1>6, ResourcesAre DEF ResourceNames
<1>7. CASE i = 4
  BY <1>2, <1>3, <1>7, ResourcesAre DEF ResourceNames
<1>8. CASE i = 5
  BY <1>2, <1>3, <1>8, ResourcesAre DEF ResourceNames
<1>9. CASE i = 6
  BY <1>2, <1>3, <1>9, ResourcesAre DEF ResourceNames
<1>10. CASE i = 7
  BY <1>2, <1>3, <1>10, ResourcesAre DEF ResourceNames
<1>11. CASE i = 8
  BY <1>2, <1>3, <1>11, ResourcesAre DEF ResourceNames
<1>12. CASE i = 9
  BY <1>2, <1>3, <1>12, ResourcesAre DEF ResourceNames
<1>13. CASE i = 10
  BY <1>2, <1>3, <1>13, ResourcesAre DEF ResourceNames
<1>14. CASE i = 11
  BY <1>2, <1>3, <1>14, ResourcesAre DEF ResourceNames
<1>15. CASE i = 12
  BY <1>2, <1>3, <1>15, ResourcesAre DEF ResourceNames
<1>16. CASE i = 13
  BY <1>2, <1>3, <1>16, ResourcesAre DEF ResourceNames
<1> QED BY <1>4, <1>5, <1>6, <1>7, <1>8, <1>9, <1>10, <1>11, <1>12, <1>13, <1>14, <1>15, <1>16

\* A resource uses only what was opened before it, but for the one that refuses.
LEMMA UsesEarlier == \A i, j \in 1..13 : Resources[j] \in Uses(Resources[i]) \ Refusing => j < i
<1> SUFFICES ASSUME NEW i \in 1..13, NEW j \in 1..13, Resources[j] \in Uses(Resources[i]) \ Refusing, i <= j
             PROVE FALSE
  OBVIOUS
<1>1. CASE i = 1
  BY <1>1, ResourcesAre, ResourcesDiffer DEF ResourceNames, Uses, Refusing
<1>2. CASE i = 2
  BY <1>2, ResourcesAre, ResourcesDiffer DEF ResourceNames, Uses, Refusing
<1>3. CASE i = 3
  BY <1>3, ResourcesAre, ResourcesDiffer DEF ResourceNames, Uses, Refusing
<1>4. CASE i = 4
  BY <1>4, ResourcesAre, ResourcesDiffer DEF ResourceNames, Uses, Refusing
<1>5. CASE i = 5
  BY <1>5, ResourcesAre, ResourcesDiffer DEF ResourceNames, Uses, Refusing
<1>6. CASE i = 6
  BY <1>6, ResourcesAre, ResourcesDiffer DEF ResourceNames, Uses, Refusing
<1>7. CASE i = 7
  BY <1>7, ResourcesAre, ResourcesDiffer DEF ResourceNames, Uses, Refusing
<1>8. CASE i = 8
  BY <1>8, ResourcesAre, ResourcesDiffer DEF ResourceNames, Uses, Refusing
<1>9. CASE i = 9
  BY <1>9, ResourcesAre, ResourcesDiffer DEF ResourceNames, Uses, Refusing
<1>10. CASE i = 10
  BY <1>10, ResourcesAre, ResourcesDiffer DEF ResourceNames, Uses, Refusing
<1>11. CASE i = 11
  BY <1>11, ResourcesAre, ResourcesDiffer DEF ResourceNames, Uses, Refusing
<1>12. CASE i = 12
  BY <1>12, ResourcesAre, ResourcesDiffer DEF ResourceNames, Uses, Refusing
<1>13. CASE i = 13
  BY <1>13, ResourcesAre, ResourcesDiffer DEF ResourceNames, Uses, Refusing
<1>14. i \in {1, 2, 3, 4, 5, 6, 7, 8, 9, 10, 11, 12, 13}
  OBVIOUS
<1> QED BY <1>1, <1>2, <1>3, <1>4, <1>5, <1>6, <1>7, <1>8, <1>9, <1>10, <1>11, <1>12, <1>13, <1>14

\* What a stack of n resources is.
LEMMA HeldIs ==
  ASSUME NEW n \in 0..13
  PROVE  /\ Held(n) \in Seq(ResourceSet) /\ Len(Held(n)) = n /\ \A i \in 1..n : Held(n)[i] = Resources[i]
         /\ Held(n) = << >> <=> n = 0
         /\ n > 0 => Last(Held(n)) = Resources[n] /\ Front(Held(n)) = Held(n - 1)
<1>1. Held(n) \in [1..n -> ResourceSet] /\ \A i \in 1..n : Held(n)[i] = Resources[i]
  BY ResourcesDiffer DEF Held
<1>2. Held(n) \in Seq(ResourceSet) /\ Len(Held(n)) = n
  BY <1>1
<1>3. ASSUME n > 0 PROVE Last(Held(n)) = Resources[n] /\ Front(Held(n)) = Held(n - 1)
  <2>1. Last(Held(n)) = Resources[n]
    BY <1>1, <1>2, <1>3 DEF Last
  <2>2. Front(Held(n)) = [i \in 1..(n - 1) |-> Held(n)[i]]
    BY <1>2, <1>3 DEF Front
  <2>3. [i \in 1..(n - 1) |-> Held(n)[i]] = [i \in 1..(n - 1) |-> Resources[i]]
    BY <1>1
  <2> QED BY <2>1, <2>2, <2>3 DEF Held
<1> QED BY <1>1, <1>2, <1>3

\* What the list of the closed is, and the next to be closed.
LEMMA ShutIs ==
  ASSUME NEW n \in 0..13, NEW m \in 0..13, n + m <= 13
  PROVE  /\ Shut(n, m) \in Seq(ResourceSet) /\ Len(Shut(n, m)) = m /\ \A j \in 1..m : Shut(n, m)[j] = Resources[n + m + 1 - j]
         /\ Shut(n, 0) = << >>
         /\ n > 0 => Append(Shut(n, m), Resources[n]) = Shut(n - 1, m + 1)
<1>1. Shut(n, m) \in [1..m -> ResourceSet] /\ \A j \in 1..m : Shut(n, m)[j] = Resources[n + m + 1 - j]
  BY ResourcesDiffer DEF Shut
<1>2. Shut(n, m) \in Seq(ResourceSet) /\ Len(Shut(n, m)) = m
  BY <1>1
<1>3. Shut(n, 0) = << >>
  BY DEF Shut
<1>4. ASSUME n > 0 PROVE Append(Shut(n, m), Resources[n]) = Shut(n - 1, m + 1)
  <2>1. Resources[n] \in ResourceSet
    BY <1>4, ResourcesDiffer
  <2>2. Append(Shut(n, m), Resources[n]) = [j \in 1..(m + 1) |-> IF j = m + 1 THEN Resources[n] ELSE Shut(n, m)[j]]
    BY <1>2, <2>1
  <2>3. \A j \in 1..(m + 1) : (IF j = m + 1 THEN Resources[n] ELSE Shut(n, m)[j]) = Resources[(n - 1) + (m + 1) + 1 - j]
    BY <1>1
  <2> QED BY <2>2, <2>3 DEF Shut
<1> QED BY <1>1, <1>2, <1>3, <1>4

\* What is open while the stack has n resources.
LEMMA OpenIs ==
  ASSUME NEW n \in 0..13
  PROVE  /\ OpenTo(0) = {} /\ OpenTo(1) = {"lease"}
         /\ OpenTo(n) # {} <=> n > 0
         /\ n > 0 => OpenTo(n) \ {Resources[n]} = OpenTo(n - 1)
<1>1. Resources[1] = "lease" /\ Resources[8] = "drained"
  BY ResourcesAre DEF ResourceNames
<1>2. OpenTo(0) = {} /\ OpenTo(1) = {"lease"}
  BY <1>1 DEF OpenTo
<1>3. n > 0 => "lease" \in OpenTo(n)
  BY <1>1 DEF OpenTo
<1>4. ASSUME n > 0 PROVE OpenTo(n) \ {Resources[n]} = OpenTo(n - 1)
  <2>1. ASSUME NEW x \in OpenTo(n) \ {Resources[n]} PROVE x \in OpenTo(n - 1)
    <3>1. PICK i \in 1..n : x = Resources[i] /\ x # "drained"
      BY <2>1 DEF OpenTo
    <3>2. i \in 1..(n - 1)
      BY <2>1, <3>1
    <3> QED BY <3>1, <3>2 DEF OpenTo
  <2>2. ASSUME NEW x \in OpenTo(n - 1) PROVE x \in OpenTo(n) \ {Resources[n]}
    <3>1. PICK i \in 1..(n - 1) : x = Resources[i] /\ x # "drained"
      BY <2>2 DEF OpenTo
    <3>2. i \in 1..n /\ i # n
      BY <3>1
    <3> QED BY <3>1, <3>2, ResourcesDiffer DEF OpenTo
  <2> QED BY <2>1, <2>2
<1> QED BY <1>2, <1>3, <1>4

\* What a step pushes and opens is the next part of the list.
LEMMA StepIs ==
  ASSUME NEW k \in 1..12
  PROVE  /\ Depth[k] \in 1..13 /\ Depth[k + 1] \in Depth[k]..13
         /\ Pushed(Steps[k]) \in Seq(ResourceSet) /\ Len(Pushed(Steps[k])) = Depth[k + 1] - Depth[k]
         /\ \A i \in 1..(Depth[k + 1] - Depth[k]) : Pushed(Steps[k])[i] = Resources[Depth[k] + i]
<1>1. CASE k = 1
  <2>1. Depth[k] = 1 /\ Depth[k + 1] = 1
    BY <1>1, DepthsAre DEF DepthNumbers
  <2>2. Pushed(Steps[k]) = << >>
    BY <1>1, StepsAre DEF StepNames, Pushed, OpensNothing
  <2> QED BY <2>1, <2>2
<1>2. CASE k = 2
  <2>1. Depth[k] = 1 /\ Depth[k + 1] = 2
    BY <1>2, DepthsAre DEF DepthNumbers
  <2>2. Pushed(Steps[k]) = << "http" >>
    BY <1>2, StepsAre DEF StepNames, Pushed, OpensNothing
  <2>3. k + 1 = 3 /\ Depth[k + 1] - Depth[k] = 1
    BY <1>2, <2>1
  <2>4. Resources[Depth[k] + 1] = Pushed(Steps[k])[1]
    BY <2>1, <2>2, ResourcesAre DEF ResourceNames
  <2>5. Len(Pushed(Steps[k])) = 1
    BY <2>2
  <2>6. \A i \in 1..1 : i = 1
    OBVIOUS
  <2>7. Pushed(Steps[k]) \in Seq(ResourceSet)
    BY <2>1, <2>2, <2>4 DEF ResourceSet
  <2> QED BY <2>1, <2>3, <2>4, <2>5, <2>6, <2>7
<1>3. CASE k = 3
  <2>1. Depth[k] = 2 /\ Depth[k + 1] = 3
    BY <1>3, DepthsAre DEF DepthNumbers
  <2>2. Pushed(Steps[k]) = << "batcher" >>
    BY <1>3, StepsAre DEF StepNames, Pushed, OpensNothing
  <2>3. k + 1 = 4 /\ Depth[k + 1] - Depth[k] = 1
    BY <1>3, <2>1
  <2>4. Resources[Depth[k] + 1] = Pushed(Steps[k])[1]
    BY <2>1, <2>2, ResourcesAre DEF ResourceNames
  <2>5. Len(Pushed(Steps[k])) = 1
    BY <2>2
  <2>6. \A i \in 1..1 : i = 1
    OBVIOUS
  <2>7. Pushed(Steps[k]) \in Seq(ResourceSet)
    BY <2>1, <2>2, <2>4 DEF ResourceSet
  <2> QED BY <2>1, <2>3, <2>4, <2>5, <2>6, <2>7
<1>4. CASE k = 4
  <2>1. Depth[k] = 3 /\ Depth[k + 1] = 4
    BY <1>4, DepthsAre DEF DepthNumbers
  <2>2. Pushed(Steps[k]) = << "accounting" >>
    BY <1>4, StepsAre DEF StepNames, Pushed, OpensNothing
  <2>3. k + 1 = 5 /\ Depth[k + 1] - Depth[k] = 1
    BY <1>4, <2>1
  <2>4. Resources[Depth[k] + 1] = Pushed(Steps[k])[1]
    BY <2>1, <2>2, ResourcesAre DEF ResourceNames
  <2>5. Len(Pushed(Steps[k])) = 1
    BY <2>2
  <2>6. \A i \in 1..1 : i = 1
    OBVIOUS
  <2>7. Pushed(Steps[k]) \in Seq(ResourceSet)
    BY <2>1, <2>2, <2>4 DEF ResourceSet
  <2> QED BY <2>1, <2>3, <2>4, <2>5, <2>6, <2>7
<1>5. CASE k = 5
  <2>1. Depth[k] = 4 /\ Depth[k + 1] = 5
    BY <1>5, DepthsAre DEF DepthNumbers
  <2>2. Pushed(Steps[k]) = << "runtime" >>
    BY <1>5, StepsAre DEF StepNames, Pushed, OpensNothing
  <2>3. k + 1 = 6 /\ Depth[k + 1] - Depth[k] = 1
    BY <1>5, <2>1
  <2>4. Resources[Depth[k] + 1] = Pushed(Steps[k])[1]
    BY <2>1, <2>2, ResourcesAre DEF ResourceNames
  <2>5. Len(Pushed(Steps[k])) = 1
    BY <2>2
  <2>6. \A i \in 1..1 : i = 1
    OBVIOUS
  <2>7. Pushed(Steps[k]) \in Seq(ResourceSet)
    BY <2>1, <2>2, <2>4 DEF ResourceSet
  <2> QED BY <2>1, <2>3, <2>4, <2>5, <2>6, <2>7
<1>6. CASE k = 6
  <2>1. Depth[k] = 5 /\ Depth[k + 1] = 6
    BY <1>6, DepthsAre DEF DepthNumbers
  <2>2. Pushed(Steps[k]) = << "models" >>
    BY <1>6, StepsAre DEF StepNames, Pushed, OpensNothing
  <2>3. k + 1 = 7 /\ Depth[k + 1] - Depth[k] = 1
    BY <1>6, <2>1
  <2>4. Resources[Depth[k] + 1] = Pushed(Steps[k])[1]
    BY <2>1, <2>2, ResourcesAre DEF ResourceNames
  <2>5. Len(Pushed(Steps[k])) = 1
    BY <2>2
  <2>6. \A i \in 1..1 : i = 1
    OBVIOUS
  <2>7. Pushed(Steps[k]) \in Seq(ResourceSet)
    BY <2>1, <2>2, <2>4 DEF ResourceSet
  <2> QED BY <2>1, <2>3, <2>4, <2>5, <2>6, <2>7
<1>7. CASE k = 7
  <2>1. Depth[k] = 6 /\ Depth[k + 1] = 7
    BY <1>7, DepthsAre DEF DepthNumbers
  <2>2. Pushed(Steps[k]) = << "evals" >>
    BY <1>7, StepsAre DEF StepNames, Pushed, OpensNothing
  <2>3. k + 1 = 8 /\ Depth[k + 1] - Depth[k] = 1
    BY <1>7, <2>1
  <2>4. Resources[Depth[k] + 1] = Pushed(Steps[k])[1]
    BY <2>1, <2>2, ResourcesAre DEF ResourceNames
  <2>5. Len(Pushed(Steps[k])) = 1
    BY <2>2
  <2>6. \A i \in 1..1 : i = 1
    OBVIOUS
  <2>7. Pushed(Steps[k]) \in Seq(ResourceSet)
    BY <2>1, <2>2, <2>4 DEF ResourceSet
  <2> QED BY <2>1, <2>3, <2>4, <2>5, <2>6, <2>7
<1>8. CASE k = 8
  <2>1. Depth[k] = 7 /\ Depth[k + 1] = 10
    BY <1>8, DepthsAre DEF DepthNumbers
  <2>2. Pushed(Steps[k]) = << "drained", "supervisor", "capacity" >>
    BY <1>8, StepsAre DEF StepNames, Pushed, OpensNothing
  <2>3. k + 1 = 9 /\ Depth[k + 1] - Depth[k] = 3
    BY <1>8, <2>1
  <2>4. Resources[Depth[k] + 1] = Pushed(Steps[k])[1] /\ Resources[Depth[k] + 2] = Pushed(Steps[k])[2] /\ Resources[Depth[k] + 3] = Pushed(Steps[k])[3]
    BY <2>1, <2>2, ResourcesAre DEF ResourceNames
  <2>5. Len(Pushed(Steps[k])) = 3
    BY <2>2
  <2>6. \A i \in 1..3 : i = 1 \/ i = 2 \/ i = 3
    OBVIOUS
  <2>7. Pushed(Steps[k]) \in Seq(ResourceSet)
    BY <2>1, <2>2, <2>4 DEF ResourceSet
  <2> QED BY <2>1, <2>3, <2>4, <2>5, <2>6, <2>7
<1>9. CASE k = 9
  <2>1. Depth[k] = 10 /\ Depth[k + 1] = 11
    BY <1>9, DepthsAre DEF DepthNumbers
  <2>2. Pushed(Steps[k]) = << "coordinator" >>
    BY <1>9, StepsAre DEF StepNames, Pushed, OpensNothing
  <2>3. k + 1 = 10 /\ Depth[k + 1] - Depth[k] = 1
    BY <1>9, <2>1
  <2>4. Resources[Depth[k] + 1] = Pushed(Steps[k])[1]
    BY <2>1, <2>2, ResourcesAre DEF ResourceNames
  <2>5. Len(Pushed(Steps[k])) = 1
    BY <2>2
  <2>6. \A i \in 1..1 : i = 1
    OBVIOUS
  <2>7. Pushed(Steps[k]) \in Seq(ResourceSet)
    BY <2>1, <2>2, <2>4 DEF ResourceSet
  <2> QED BY <2>1, <2>3, <2>4, <2>5, <2>6, <2>7
<1>10. CASE k = 10
  <2>1. Depth[k] = 11 /\ Depth[k + 1] = 11
    BY <1>10, DepthsAre DEF DepthNumbers
  <2>2. Pushed(Steps[k]) = << >>
    BY <1>10, StepsAre DEF StepNames, Pushed, OpensNothing
  <2> QED BY <2>1, <2>2
<1>11. CASE k = 11
  <2>1. Depth[k] = 11 /\ Depth[k + 1] = 11
    BY <1>11, DepthsAre DEF DepthNumbers
  <2>2. Pushed(Steps[k]) = << >>
    BY <1>11, StepsAre DEF StepNames, Pushed, OpensNothing
  <2> QED BY <2>1, <2>2
<1>12. CASE k = 12
  <2>1. Depth[k] = 11 /\ Depth[k + 1] = 13
    BY <1>12, DepthsAre DEF DepthNumbers
  <2>2. Pushed(Steps[k]) = << "state", "runner" >>
    BY <1>12, StepsAre DEF StepNames, Pushed, OpensNothing
  <2>3. k + 1 = 13 /\ Depth[k + 1] - Depth[k] = 2
    BY <1>12, <2>1
  <2>4. Resources[Depth[k] + 1] = Pushed(Steps[k])[1] /\ Resources[Depth[k] + 2] = Pushed(Steps[k])[2]
    BY <2>1, <2>2, ResourcesAre DEF ResourceNames
  <2>5. Len(Pushed(Steps[k])) = 2
    BY <2>2
  <2>6. \A i \in 1..2 : i = 1 \/ i = 2
    OBVIOUS
  <2>7. Pushed(Steps[k]) \in Seq(ResourceSet)
    BY <2>1, <2>2, <2>4 DEF ResourceSet
  <2> QED BY <2>1, <2>3, <2>4, <2>5, <2>6, <2>7
<1>13. k \in {1, 2, 3, 4, 5, 6, 7, 8, 9, 10, 11, 12}
  OBVIOUS
<1> QED BY <1>1, <1>2, <1>3, <1>4, <1>5, <1>6, <1>7, <1>8, <1>9, <1>10, <1>11, <1>12, <1>13

\* The stack and the open resources after a step.
LEMMA StepPushes ==
  ASSUME NEW k \in 1..12
  PROVE  /\ Held(Depth[k]) \o Pushed(Steps[k]) = Held(Depth[k + 1])
         /\ OpenTo(Depth[k]) \cup Opened(Steps[k]) = OpenTo(Depth[k + 1])
<1> DEFINE n == Depth[k]  d == Depth[k + 1] - Depth[k]  p == Pushed(Steps[k])
<1>0. n \in 1..13 /\ Depth[k + 1] \in n..13 /\ p \in Seq(ResourceSet) /\ Len(p) = d /\ \A i \in 1..d : p[i] = Resources[n + i]
  BY StepIs
<1>1. n \in 1..13 /\ d \in Nat /\ n + d \in 1..13 /\ n + d = Depth[k + 1] /\ p \in Seq(ResourceSet) /\ Len(p) = d
      /\ \A i \in 1..d : p[i] = Resources[n + i]
  <2> DEFINE e == Depth[k + 1]
  <2>1. d = e - n
    OBVIOUS
  <2>2. n \in 1..13 /\ e \in n..13
    BY <1>0
  <2> HIDE DEF n, d, e, p
  <2>3. d \in Nat /\ n + d \in 1..13 /\ n + d = e
    BY <2>1, <2>2
  <2> QED BY <1>0, <2>3 DEF e
<1>2. Opened(Steps[k]) = {p[i] : i \in 1..d} \ {"drained"}
  BY <1>1 DEF Opened, Range
<1> HIDE DEF n, d, p
<1>3. Held(n) \in Seq(ResourceSet) /\ Len(Held(n)) = n /\ \A i \in 1..n : Held(n)[i] = Resources[i]
  <2>1. n \in 0..13
    BY <1>1
  <2> QED BY <2>1, HeldIs
<1>4. Held(n) \o p = Held(n + d)
  <2>1. Held(n) \o p = [i \in 1..(n + d) |-> IF i <= n THEN Held(n)[i] ELSE p[i - n]]
    <3> DEFINE h == Held(n)  q == h \o p
    <3>0. h \in Seq(ResourceSet) /\ Len(h) = n
      BY <1>3
    <3> HIDE DEF h
    <3>1. q \in Seq(ResourceSet) /\ Len(q) = n + d
      BY <1>1, <3>0 DEF q
    <3>3. \A i \in 1..(n + d) : q[i] = IF i <= n THEN h[i] ELSE p[i - n]
      BY <1>1, <3>0 DEF q
    <3> HIDE DEF q
    <3>2. q = [i \in 1..(n + d) |-> q[i]]
      BY <3>1
    <3> QED BY <3>2, <3>3 DEF q, h
  <2>2. \A i \in 1..(n + d) : (IF i <= n THEN Held(n)[i] ELSE p[i - n]) = Resources[i]
    BY <1>1, <1>3
  <2> QED BY <2>1, <2>2 DEF Held
<1>5. OpenTo(n) \cup Opened(Steps[k]) = OpenTo(n + d)
  <2>1. ASSUME NEW x \in OpenTo(n + d) PROVE x \in OpenTo(n) \cup Opened(Steps[k])
    <3>1. PICK i \in 1..(n + d) : x = Resources[i] /\ x # "drained"
      BY <2>1 DEF OpenTo
    <3>2. CASE i <= n
      BY <3>1, <3>2, <1>1 DEF OpenTo
    <3>3. CASE i > n
      <4>1. i - n \in 1..d /\ n + (i - n) = i
        BY <3>3, <1>1
      <4> QED BY <4>1, <3>1, <1>1, <1>2
    <3> QED BY <3>2, <3>3, <1>1
  <2>2. ASSUME NEW x \in OpenTo(n) PROVE x \in OpenTo(n + d)
    BY <2>2, <1>1 DEF OpenTo
  <2>3. ASSUME NEW x \in Opened(Steps[k]) PROVE x \in OpenTo(n + d)
    <3>1. PICK i \in 1..d : x = Resources[n + i] /\ x # "drained"
      BY <2>3, <1>1, <1>2
    <3>2. n + i \in 1..(n + d)
      BY <1>1, <3>1
    <3> QED BY <3>1, <3>2 DEF OpenTo
  <2> QED BY <2>1, <2>2, <2>3
<1> QED BY <1>1, <1>4, <1>5 DEF n, d, p

\* The fields of one lifespan and of the directory a step may change.
Turns(l, F) ==
  /\ DOMAIN lf'.span = Lifespans /\ \A m \in Lifespans \ {l} : lf'.span[m] = lf.span[m]
  /\ DOMAIN lf'.span[l] = SpanFields /\ \A f \in SpanFields \ F : lf'.span[l][f] = lf.span[l][f]
Alters(G) == DOMAIN lf' = LFFields /\ \A g \in LFFields \ G : lf'[g] = lf[g]

\* What the invariant says of one lifespan.
LEMMA SpanFacts ==
  ASSUME LFInv, NEW l \in Lifespans
  PROVE  /\ SpanTypes(lf.span[l]) /\ SpanOK(lf.span[l]) /\ LockOK(lf, l)
         /\ DOMAIN lf = LFFields /\ DOMAIN lf.span = Lifespans /\ DOMAIN lf.span[l] = SpanFields
         /\ DOMAIN lf.inode = 1..MaxInodes /\ \A i \in 1..MaxInodes : InodeTypes(lf.inode[i])
         /\ lf.name \in 0..MaxInodes /\ ProcessOf[l] \in Range(ProcessOf)
<1>1. ProcessOf[l] \in Range(ProcessOf)
  BY LifespanAssumption DEF Range
<1> QED BY <1>1 DEF LFInv, LFTypes, SpanTypes

\* A lifespan is not disturbed by a step of another one that leaves it its lock and its name.
LEMMA OthersKept ==
  ASSUME LFInv, NEW l \in Lifespans,
         \A m \in Lifespans \ {l} : lf'.span[m] = lf.span[m],
         lf'.name = lf.name \/ \A m \in Lifespans \ {l} : ~lf.span[m].lease,
         \A i \in 1..MaxInodes : lf'.inode[i].holder = lf.inode[i].holder \/ lf.inode[i].holder \in {l, "none"}
  PROVE  \A m \in Lifespans \ {l} : SpanOK(lf'.span[m]) /\ LockOK(lf', m)
<1> SUFFICES ASSUME NEW m \in Lifespans \ {l} PROVE SpanOK(lf'.span[m]) /\ LockOK(lf', m)
  OBVIOUS
<1>1. lf'.span[m] = lf.span[m] /\ SpanTypes(lf.span[m]) /\ SpanOK(lf.span[m]) /\ LockOK(lf, m) /\ m # "none" /\ m # l
  BY SpanFacts, LifespanAssumption
<1>2. ASSUME Locking(lf.span[m]) PROVE lf'.inode[lf.span[m].fd].holder = m
  <2>1. lf.span[m].fd \in 1..MaxInodes /\ lf.inode[lf.span[m].fd].holder = m
    BY <1>1, <1>2 DEF SpanTypes, LockOK
  <2> QED BY <2>1, <1>1
<1> QED BY <1>1, <1>2 DEF LockOK

\* A step of one lifespan keeps the invariant if it keeps it for that lifespan, and
\* takes nobody else's lock or name.
LEMMA TurnKeeps ==
  ASSUME LFInv, NEW l \in Lifespans, Turns(l, SpanFields), Alters({"span", "inode", "name"}),
         DOMAIN lf'.inode = 1..MaxInodes, \A i \in 1..MaxInodes : InodeTypes(lf'.inode[i]), lf'.name \in 0..MaxInodes,
         lf'.name = lf.name \/ \A m \in Lifespans \ {l} : ~lf.span[m].lease,
         \A i \in 1..MaxInodes : lf'.inode[i].holder = lf.inode[i].holder \/ lf.inode[i].holder \in {l, "none"},
         SpanTypes(lf'.span[l]), SpanOK(lf'.span[l]), LockOK(lf', l)
  PROVE  LFInv'
<1>1. \A m \in Lifespans \ {l} : SpanOK(lf'.span[m]) /\ LockOK(lf', m)
  BY OthersKept DEF Turns
<1>2. LFTypes(lf')
  BY DEF LFInv, LFTypes, Turns, Alters, LFFields
<1>3. SecretOK(lf')
  BY DEF LFInv, SecretOK, Alters, LFFields
<1> QED BY <1>1, <1>2, <1>3 DEF LFInv

\* The same for a step that leaves the lock files alone.
LEMMA SpanKeeps ==
  ASSUME LFInv, NEW l \in Lifespans, Turns(l, SpanFields), Alters({"span"}),
         SpanTypes(lf'.span[l]), SpanOK(lf'.span[l]), LockOK(lf', l)
  PROVE  LFInv'
<1>1. lf'.inode = lf.inode /\ lf'.name = lf.name /\ Alters({"span", "inode", "name"})
  BY DEF Alters, LFFields
<1> QED BY <1>1, SpanFacts, TurnKeeps

-----------------------------------------------------------------------------
(* The lease.                                                              *)

\* One lifespan at a time in a process.
LEMMA ClaimKeeps ==
  ASSUME LFInv, NEW l \in Lifespans, ClaimOwner(l)
  PROVE  LFInv'
<1> DEFINE s == lf.span[l]  t == lf'.span[l]
<1>1. /\ s.pc = "new" /\ Turns(l, {"pc", "over"}) /\ Alters({"span"})
      /\ (t.pc = "over" /\ t.over = "refused") \/ (t.pc = "open" /\ t.over = s.over)
  BY SpanFacts DEF ClaimOwner, Turns, Alters, SpanFields, LFFields
<1>2. SpanTypes(s) /\ SpanOK(s) /\ LockOK(lf, l)
  BY SpanFacts
<1> HIDE DEF s, t
<1>3. /\ DOMAIN t = SpanFields /\ \A f \in SpanFields \ {"pc", "over"} : t[f] = s[f]
  BY <1>1 DEF Turns, s, t
<1>4. SpanTypes(t)
  BY <1>1, <1>2, <1>3 DEF SpanTypes, SpanFields, Places, Claiming
<1>5. PICK n, m \in 0..13 : Stands(s, n, m)
  BY <1>2 DEF SpanOK
<1>6. Stands(t, n, m)
  BY <1>1, <1>3, <1>5 DEF Stands, SpanFields, Claiming
<1>7. SpanOK(t)
  BY <1>1, <1>2, <1>3, <1>6 DEF SpanOK, Reports, SpanFields
<1>8. LockOK(lf', l)
  BY <1>1, <1>3, <1>5 DEF LockOK, Locking, Stands, SpanFields, Claiming, t
<1>9. Turns(l, SpanFields)
  BY <1>1 DEF Turns
<1> QED BY <1>1, <1>4, <1>7, <1>8, <1>9, SpanKeeps DEF t

\* What a step that raises leaves, field by field.
LEMMA RaiseEffect ==
  ASSUME NEW l \in Lifespans, NEW c, DOMAIN c = LFFields, DOMAIN c.span = Lifespans, DOMAIN c.span[l] = SpanFields,
         NEW r, r = Raise(c, l)
  PROVE  /\ DOMAIN r = LFFields /\ \A g \in LFFields \ {"span"} : r[g] = c[g]
         /\ DOMAIN r.span = Lifespans /\ \A m \in Lifespans \ {l} : r.span[m] = c.span[m]
         /\ DOMAIN r.span[l] = SpanFields /\ \A f \in SpanFields \ {"pc", "failed", "health"} : r.span[l][f] = c.span[l][f]
         /\ r.span[l].pc = "draining" /\ r.span[l].failed \in BOOLEAN /\ r.span[l].health \in {"none", "failed"}
BY DEF Raise, SpanFields, LFFields

\* What closing the descriptor leaves: its locks are free.
LEMMA CloseEffect ==
  ASSUME NEW l \in Lifespans, NEW c, DOMAIN c = LFFields, DOMAIN c.span = Lifespans, DOMAIN c.span[l] = SpanFields,
         \A i \in 1..MaxInodes : InodeTypes(c.inode[i]), NEW r, r = Close(c, l)
  PROVE  /\ DOMAIN r = LFFields /\ \A g \in LFFields \ {"span", "inode"} : r[g] = c[g]
         /\ DOMAIN r.span = Lifespans /\ \A m \in Lifespans \ {l} : r.span[m] = c.span[m]
         /\ DOMAIN r.span[l] = SpanFields /\ \A f \in SpanFields \ {"fd"} : r.span[l][f] = c.span[l][f]
         /\ r.span[l].fd = 0 /\ DOMAIN r.inode = 1..MaxInodes
         /\ \A i \in 1..MaxInodes : /\ InodeTypes(r.inode[i])
                                    /\ r.inode[i].holder = c.inode[i].holder \/ c.inode[i].holder = l
<1>1. \A i \in 1..MaxInodes : r.inode[i] = [c.inode[i] EXCEPT !.holder = IF c.inode[i].holder = l THEN "none" ELSE c.inode[i].holder]
  BY DEF Close, LFFields
<1>2. \A i \in 1..MaxInodes : InodeTypes(r.inode[i]) /\ (r.inode[i].holder = c.inode[i].holder \/ c.inode[i].holder = l)
  <2> SUFFICES ASSUME NEW i \in 1..MaxInodes
               PROVE InodeTypes(r.inode[i]) /\ (r.inode[i].holder = c.inode[i].holder \/ c.inode[i].holder = l)
    OBVIOUS
  <2> DEFINE f == c.inode[i]  h == IF f.holder = l THEN "none" ELSE f.holder
  <2>1. r.inode[i] = [f EXCEPT !.holder = h] /\ InodeTypes(f)
    BY <1>1
  <2>2. h \in Lifespans \cup {"none"} /\ (h = f.holder \/ f.holder = l)
    BY <2>1 DEF InodeTypes
  <2> HIDE DEF f, h
  <2>3. r.inode[i].holder = h /\ InodeTypes(r.inode[i])
    BY <2>1, <2>2 DEF InodeTypes
  <2> QED BY <2>2, <2>3 DEF f
<1>3. /\ DOMAIN r = LFFields /\ \A g \in LFFields \ {"span", "inode"} : r[g] = c[g]
      /\ DOMAIN r.span = Lifespans /\ \A m \in Lifespans \ {l} : r.span[m] = c.span[m]
      /\ DOMAIN r.span[l] = SpanFields /\ \A f \in SpanFields \ {"fd"} : r.span[l][f] = c.span[l][f]
      /\ r.span[l].fd = 0 /\ DOMAIN r.inode = 1..MaxInodes
  BY DEF Close, NoInode, SpanFields, LFFields
<1> QED BY <1>2, <1>3

\* A claim that is refused: the descriptor is closed, and with it the lock.
LEMMA RefuseKeeps ==
  ASSUME LFInv, NEW l \in Lifespans, lf.span[l].pc \in Claiming \ {"secret"}, lf' = Refuse(lf, l)
  PROVE  LFInv'
<1> DEFINE s == lf.span[l]  t == lf'.span[l]
<1> DEFINE c == Close(lf, l)
<1>a. /\ DOMAIN c = LFFields /\ \A g \in LFFields \ {"span", "inode"} : c[g] = lf[g]
      /\ DOMAIN c.span = Lifespans /\ \A m \in Lifespans \ {l} : c.span[m] = lf.span[m]
      /\ DOMAIN c.span[l] = SpanFields /\ \A f \in SpanFields \ {"fd"} : c.span[l][f] = lf.span[l][f]
      /\ c.span[l].fd = 0 /\ DOMAIN c.inode = 1..MaxInodes
      /\ \A i \in 1..MaxInodes : /\ InodeTypes(c.inode[i])
                                 /\ c.inode[i].holder = lf.inode[i].holder \/ lf.inode[i].holder = l
  BY SpanFacts, CloseEffect
<1>b. lf' = Raise(c, l)
  BY DEF Refuse
<1> HIDE DEF c
<1>c. /\ DOMAIN lf' = LFFields /\ \A g \in LFFields \ {"span"} : lf'[g] = c[g]
      /\ DOMAIN lf'.span = Lifespans /\ \A m \in Lifespans \ {l} : lf'.span[m] = c.span[m]
      /\ DOMAIN t = SpanFields /\ \A f \in SpanFields \ {"pc", "failed", "health"} : t[f] = c.span[l][f]
      /\ t.pc = "draining" /\ t.failed \in BOOLEAN /\ t.health \in {"none", "failed"}
  BY <1>a, <1>b, RaiseEffect
<1>1. /\ Turns(l, {"pc", "failed", "health", "fd"}) /\ Alters({"span", "inode"}) /\ t.pc = "draining" /\ t.failed \in BOOLEAN /\ t.fd = 0
      /\ t.health \in {"none", "failed"}
  BY <1>a, <1>c DEF Turns, Alters, SpanFields, LFFields
<1>2. SpanTypes(s) /\ SpanOK(s)
  BY SpanFacts
<1>3. DOMAIN lf'.inode = 1..MaxInodes
  BY <1>a, <1>c DEF LFFields
<1>4. \A i \in 1..MaxInodes : /\ InodeTypes(lf'.inode[i])
                              /\ lf'.inode[i].holder = lf.inode[i].holder \/ lf.inode[i].holder \in {l, "none"}
  BY <1>a, <1>c DEF LFFields
<1> HIDE DEF s, t
<1>5. /\ DOMAIN t = SpanFields /\ \A f \in SpanFields \ {"pc", "failed", "health", "fd"} : t[f] = s[f]
  BY <1>1 DEF Turns, s, t
<1>6. SpanTypes(t)
  BY <1>1, <1>2, <1>5, LifespanAssumption DEF SpanTypes, SpanFields, Places, Claiming
<1>7. PICK n, m \in 0..13 : Stands(s, n, m)
  BY <1>2 DEF SpanOK
<1>8. n = 0 /\ m = 0 /\ Stands(t, n, m)
  BY <1>1, <1>5, <1>7 DEF Stands, SpanFields, Claiming, s
<1>9. SpanOK(t)
  BY <1>1, <1>2, <1>5, <1>8 DEF SpanOK, Reports, SpanFields, Claiming, s
<1>10. LockOK(lf', l)
  BY <1>1, <1>8 DEF LockOK, Locking, Stands, t
<1>11. Turns(l, SpanFields) /\ Alters({"span", "inode", "name"}) /\ lf'.name = lf.name /\ lf.name \in 0..MaxInodes
  BY <1>1, SpanFacts DEF Turns, Alters, LFFields
<1> QED BY <1>3, <1>4, <1>6, <1>9, <1>10, <1>11, TurnKeeps DEF t

\* The named file is opened, or one is made where there is none; then nobody has a lease.
LEMMA OpenKeeps ==
  ASSUME LFInv, NEW l \in Lifespans, OpenLockFile(l)
  PROVE  LFInv'
<1> DEFINE s == lf.span[l]  t == lf'.span[l]
<1>1. /\ s.pc \in {"open", "reopen"} /\ Turns(l, {"fd", "pc"}) /\ t.pc \in {"check", "validate"} /\ t.fd \in 1..MaxInodes
      /\ \/ Alters({"span"})
         \/ /\ lf.name = 0 /\ lf'.name \in 1..MaxInodes /\ Alters({"span", "inode", "name"}) /\ DOMAIN lf'.inode = 1..MaxInodes
            /\ \A i \in 1..MaxInodes : InodeTypes(lf'.inode[i]) /\ lf'.inode[i].holder = lf.inode[i].holder
  <2>1. s.pc \in {"open", "reopen"}
    BY DEF OpenLockFile
  <2>2. CASE lf.name # NoInode /\ lf' = [lf EXCEPT !.span[l].fd = lf.name, !.span[l].pc = IF @ = "open" THEN "check" ELSE "validate"]
    <3>1. lf.name \in 1..MaxInodes
      BY <2>2, SpanFacts DEF NoInode
    <3> QED BY <2>1, <2>2, <3>1, SpanFacts DEF Turns, Alters, SpanFields, LFFields
  <2>3. ASSUME NEW i \in 1..MaxInodes, lf.name = NoInode,
               lf' = [lf EXCEPT !.name = i, !.inode[i] = [@ EXCEPT !.made = TRUE, !.linked = TRUE], !.span[l].fd = i,
                                !.span[l].pc = IF @ = "open" THEN "check" ELSE "validate"]
        PROVE  /\ Turns(l, {"fd", "pc"}) /\ t.pc \in {"check", "validate"} /\ t.fd \in 1..MaxInodes
               /\ lf.name = 0 /\ lf'.name \in 1..MaxInodes /\ Alters({"span", "inode", "name"}) /\ DOMAIN lf'.inode = 1..MaxInodes
               /\ \A j \in 1..MaxInodes : InodeTypes(lf'.inode[j]) /\ lf'.inode[j].holder = lf.inode[j].holder
    <3>1. /\ Turns(l, {"fd", "pc"}) /\ t.pc \in {"check", "validate"} /\ t.fd \in 1..MaxInodes
          /\ lf.name = 0 /\ lf'.name \in 1..MaxInodes /\ Alters({"span", "inode", "name"}) /\ DOMAIN lf'.inode = 1..MaxInodes
      BY <2>1, <2>3, SpanFacts DEF Turns, Alters, SpanFields, LFFields, NoInode
    <3>2. /\ \A j \in 1..MaxInodes \ {i} : lf'.inode[j] = lf.inode[j]
          /\ DOMAIN lf'.inode[i] = DOMAIN lf.inode[i] /\ lf'.inode[i].holder = lf.inode[i].holder
      BY <2>3, SpanFacts DEF LFFields, InodeTypes
    <3> QED BY <3>1, <3>2, SpanFacts DEF InodeTypes
  <2> QED BY <2>1, <2>2, <2>3 DEF OpenLockFile
<1>2. SpanTypes(s) /\ SpanOK(s) /\ LockOK(lf, l)
  BY SpanFacts
<1> HIDE DEF s, t
<1>3. /\ DOMAIN t = SpanFields /\ \A f \in SpanFields \ {"fd", "pc"} : t[f] = s[f]
  BY <1>1 DEF Turns, s, t
<1>4. SpanTypes(t)
  BY <1>1, <1>2, <1>3, LifespanAssumption DEF SpanTypes, SpanFields, Places, Claiming
<1>5. PICK n, m \in 0..13 : Stands(s, n, m)
  BY <1>2 DEF SpanOK
<1>6. Stands(t, n, m) /\ ~t.lease
  BY <1>1, <1>3, <1>5 DEF Stands, SpanFields, Claiming
<1>7. SpanOK(t)
  BY <1>1, <1>2, <1>3, <1>6 DEF SpanOK, Reports, SpanFields
<1>8. LockOK(lf', l)
  BY <1>1, <1>6 DEF LockOK, Locking, t
<1>9. Turns(l, SpanFields)
  BY <1>1 DEF Turns
<1>10. CASE Alters({"span"})
  BY <1>4, <1>7, <1>8, <1>9, <1>10, SpanKeeps DEF t
<1>11. CASE ~Alters({"span"})
  <2>1. \A m1 \in Lifespans : ~lf.span[m1].lease
    BY <1>1, <1>11, SpanFacts DEF LockOK, Locking
  <2> QED BY <1>1, <1>4, <1>7, <1>8, <1>9, <1>11, <2>1, SpanFacts, TurnKeeps DEF t
<1> QED BY <1>10, <1>11

\* A place of the claim is followed by another one, with the same descriptor.
LEMMA ClaimMoves ==
  ASSUME LFInv, NEW l \in Lifespans, Turns(l, {"pc"}), Alters({"span"}),
         lf.span[l].pc \in {"check", "validate"}, lf'.span[l].pc \in {"validate", "lock", "lock_unsafe"}
  PROVE  LFInv'
<1> DEFINE s == lf.span[l]  t == lf'.span[l]
<1>1. SpanTypes(s) /\ SpanOK(s) /\ LockOK(lf, l)
  BY SpanFacts
<1>2. /\ s.pc \in {"check", "validate"} /\ t.pc \in {"validate", "lock", "lock_unsafe"}
      /\ DOMAIN t = SpanFields /\ \A f \in SpanFields \ {"pc"} : t[f] = s[f]
  BY DEF Turns
<1> HIDE DEF s, t
<1>3. SpanTypes(t)
  BY <1>1, <1>2 DEF SpanTypes, SpanFields, Places, Claiming
<1>4. PICK n, m \in 0..13 : Stands(s, n, m)
  BY <1>1 DEF SpanOK
<1>5. Stands(t, n, m) /\ ~t.lease
  BY <1>2, <1>4 DEF Stands, SpanFields, Claiming
<1>6. SpanOK(t)
  BY <1>1, <1>2, <1>5 DEF SpanOK, Reports, SpanFields
<1>7. LockOK(lf', l)
  BY <1>1, <1>2, <1>5 DEF LockOK, Locking, SpanFields, s, t
<1>8. Turns(l, SpanFields)
  BY DEF Turns
<1> QED BY <1>3, <1>6, <1>7, <1>8, SpanKeeps DEF t

\* The two looks at the open file.
LEMMA LooksKeep ==
  ASSUME LFInv, NEW l \in Lifespans, CheckMode(l) \/ ValidateLockFile(l)
  PROVE  LFInv'
<1> DEFINE s == lf.span[l]  t == lf'.span[l]
<1>1. CASE lf' = Refuse(lf, l) /\ s.pc = "validate"
  BY <1>1, RefuseKeeps DEF Claiming
<1>2. CASE CheckMode(l)
  <2>1. Turns(l, {"pc"}) /\ Alters({"span"}) /\ s.pc = "check" /\ t.pc \in {"validate", "lock_unsafe"}
    BY <1>2, SpanFacts DEF CheckMode, Turns, Alters, SpanFields, LFFields
  <2> QED BY <2>1, ClaimMoves
<1>3. CASE s.pc = "validate" /\ lf' = [lf EXCEPT !.span[l].pc = "lock"]
  <2>1. Turns(l, {"pc"}) /\ Alters({"span"}) /\ s.pc = "validate" /\ t.pc = "lock"
    BY <1>3, SpanFacts DEF Turns, Alters, SpanFields, LFFields
  <2> QED BY <2>1, ClaimMoves
<1> QED BY <1>1, <1>2, <1>3 DEF ValidateLockFile

\* The lock is taken only if it is free.
LEMMA AcquireKeeps ==
  ASSUME LFInv, NEW l \in Lifespans, AcquireDescriptorLock(l)
  PROVE  LFInv'
<1> DEFINE s == lf.span[l]  t == lf'.span[l]
<1>1. s.pc \in {"lock", "lock_unsafe"}
  BY DEF AcquireDescriptorLock
<1>2. CASE lf' = Refuse(lf, l)
  BY <1>1, <1>2, RefuseKeeps DEF Claiming
<1>3. CASE lf' # Refuse(lf, l)
  <2>1. SpanTypes(s) /\ SpanOK(s) /\ LockOK(lf, l) /\ s.fd \in 1..MaxInodes
    BY <1>1, SpanFacts DEF SpanTypes, LockOK
  <2>2. /\ lf.inode[s.fd].holder = "none"
        /\ lf' = [lf EXCEPT !.inode[s.fd].holder = l, !.span[l].pc = IF @ = "lock" THEN "named" ELSE "replace"]
    BY <1>3 DEF AcquireDescriptorLock
  <2>3. /\ Turns(l, {"pc"}) /\ Alters({"span", "inode"}) /\ t.pc \in {"named", "replace"} /\ DOMAIN lf'.inode = 1..MaxInodes
    BY <2>1, <2>2, SpanFacts DEF Turns, Alters, SpanFields, LFFields
  <2>4. /\ \A i \in 1..MaxInodes \ {s.fd} : lf'.inode[i] = lf.inode[i]
        /\ DOMAIN lf'.inode[s.fd] = DOMAIN lf.inode[s.fd] /\ lf'.inode[s.fd].holder = l
    BY <2>1, <2>2, SpanFacts DEF LFFields, InodeTypes
  <2>5. \A i \in 1..MaxInodes : /\ InodeTypes(lf'.inode[i])
                                /\ lf'.inode[i].holder = lf.inode[i].holder \/ lf.inode[i].holder \in {l, "none"}
    BY <2>2, <2>4, SpanFacts DEF InodeTypes
  <2> HIDE DEF s, t
  <2>6. /\ DOMAIN t = SpanFields /\ \A f \in SpanFields \ {"pc"} : t[f] = s[f]
    BY <2>3 DEF Turns, s, t
  <2>7. SpanTypes(t)
    BY <2>1, <2>3, <2>6 DEF SpanTypes, SpanFields, Places, Claiming
  <2>8. PICK n, m \in 0..13 : Stands(s, n, m)
    BY <2>1 DEF SpanOK
  <2>9. Stands(t, n, m) /\ ~t.lease
    BY <1>1, <2>3, <2>6, <2>8 DEF Stands, SpanFields, Claiming, s
  <2>10. SpanOK(t)
    BY <2>1, <2>3, <2>6, <2>9, <1>1 DEF SpanOK, Reports, SpanFields, s
  <2>11. LockOK(lf', l)
    BY <2>1, <2>4, <2>6, <2>9 DEF LockOK, SpanFields, s, t
  <2>12. Turns(l, SpanFields) /\ Alters({"span", "inode", "name"}) /\ lf'.name = lf.name /\ lf.name \in 0..MaxInodes
    BY <2>3, SpanFacts DEF Turns, Alters, LFFields
  <2> QED BY <2>3, <2>5, <2>7, <2>10, <2>11, <2>12, TurnKeeps DEF t
<1> QED BY <1>2, <1>3

\* The name is removed by the holder of the file it names: nobody has a lease by that name.
LEMMA ReplacedKeeps ==
  ASSUME LFInv, NEW l \in Lifespans, ReplaceUnsafeLockFile(l)
  PROVE  LFInv'
<1> DEFINE s == lf.span[l]  t == lf'.span[l]
<1>1. s.pc = "replace"
  BY DEF ReplaceUnsafeLockFile
<1>2. CASE lf' = Refuse(lf, l)
  BY <1>1, <1>2, RefuseKeeps DEF Claiming
<1>3. CASE lf' # Refuse(lf, l)
  <2>1. SpanTypes(s) /\ SpanOK(s) /\ LockOK(lf, l) /\ s.fd \in 1..MaxInodes /\ lf.inode[s.fd].holder = l
    BY <1>1, SpanFacts DEF SpanTypes, LockOK, Locking
  <2>2. lf.name = s.fd /\ lf' = [lf EXCEPT !.inode[s.fd].linked = FALSE, !.name = NoInode, !.span[l].pc = "release"]
    BY <1>3 DEF ReplaceUnsafeLockFile
  <2>3. /\ Turns(l, {"pc"}) /\ Alters({"span", "inode", "name"}) /\ t.pc = "release" /\ DOMAIN lf'.inode = 1..MaxInodes
        /\ lf'.name = 0
    BY <2>1, <2>2, SpanFacts DEF Turns, Alters, SpanFields, LFFields, NoInode
  <2>4. /\ \A i \in 1..MaxInodes \ {s.fd} : lf'.inode[i] = lf.inode[i]
        /\ DOMAIN lf'.inode[s.fd] = DOMAIN lf.inode[s.fd] /\ lf'.inode[s.fd].holder = lf.inode[s.fd].holder
    BY <2>1, <2>2, SpanFacts DEF LFFields, InodeTypes
  <2>5. \A i \in 1..MaxInodes : InodeTypes(lf'.inode[i]) /\ lf'.inode[i].holder = lf.inode[i].holder
    BY <2>4, SpanFacts DEF InodeTypes
  <2>6. \A k \in Lifespans \ {l} : ~lf.span[k].lease
    BY <2>1, <2>2, SpanFacts DEF LockOK, Locking
  <2> HIDE DEF s, t
  <2>7. /\ DOMAIN t = SpanFields /\ \A f \in SpanFields \ {"pc"} : t[f] = s[f]
    BY <2>3 DEF Turns, s, t
  <2>8. SpanTypes(t)
    BY <2>1, <2>3, <2>7 DEF SpanTypes, SpanFields, Places, Claiming
  <2>9. PICK n, m \in 0..13 : Stands(s, n, m)
    BY <2>1 DEF SpanOK
  <2>10. Stands(t, n, m) /\ ~t.lease
    BY <1>1, <2>3, <2>7, <2>9 DEF Stands, SpanFields, Claiming, s
  <2>11. SpanOK(t)
    BY <2>1, <2>3, <2>7, <2>10, <1>1 DEF SpanOK, Reports, SpanFields, s
  <2>12. LockOK(lf', l)
    BY <2>1, <2>5, <2>7, <2>10 DEF LockOK, SpanFields, s, t
  <2>13. Turns(l, SpanFields) /\ lf'.name \in 0..MaxInodes
    BY <2>3, LifespanAssumption DEF Turns
  <2> QED BY <2>3, <2>5, <2>6, <2>8, <2>11, <2>12, <2>13, TurnKeeps DEF t
<1> QED BY <1>2, <1>3

\* The replaced file is closed, and the claim begins again.
LEMMA ReleaseKeeps ==
  ASSUME LFInv, NEW l \in Lifespans, ReleaseReplaced(l)
  PROVE  LFInv'
<1> DEFINE s == lf.span[l]  t == lf'.span[l]  c == Close(lf, l)
<1>1. s.pc = "release" /\ lf' = [c EXCEPT !.span[l].pc = "reopen"]
  BY DEF ReleaseReplaced
<1>2. /\ DOMAIN c = LFFields /\ \A g \in LFFields \ {"span", "inode"} : c[g] = lf[g]
      /\ DOMAIN c.span = Lifespans /\ \A m \in Lifespans \ {l} : c.span[m] = lf.span[m]
      /\ DOMAIN c.span[l] = SpanFields /\ \A f \in SpanFields \ {"fd"} : c.span[l][f] = s[f]
      /\ c.span[l].fd = 0 /\ DOMAIN c.inode = 1..MaxInodes
      /\ \A i \in 1..MaxInodes : /\ InodeTypes(c.inode[i])
                                 /\ c.inode[i].holder = lf.inode[i].holder \/ lf.inode[i].holder = l
  BY SpanFacts, CloseEffect
<1> HIDE DEF c
<1>3. /\ Turns(l, {"pc", "fd"}) /\ Alters({"span", "inode"}) /\ t.pc = "reopen" /\ t.fd = 0
      /\ DOMAIN lf'.inode = 1..MaxInodes /\ lf'.inode = c.inode
  BY <1>1, <1>2 DEF Turns, Alters, SpanFields, LFFields
<1>4. SpanTypes(s) /\ SpanOK(s)
  BY SpanFacts
<1> HIDE DEF s, t
<1>5. /\ DOMAIN t = SpanFields /\ \A f \in SpanFields \ {"pc", "fd"} : t[f] = s[f]
  BY <1>3 DEF Turns, s, t
<1>6. SpanTypes(t)
  BY <1>3, <1>4, <1>5, LifespanAssumption DEF SpanTypes, SpanFields, Places, Claiming
<1>7. PICK n, m \in 0..13 : Stands(s, n, m)
  BY <1>4 DEF SpanOK
<1>8. Stands(t, n, m) /\ ~t.lease
  BY <1>1, <1>3, <1>5, <1>7 DEF Stands, SpanFields, Claiming
<1>9. SpanOK(t)
  BY <1>1, <1>3, <1>4, <1>5, <1>8 DEF SpanOK, Reports, SpanFields
<1>10. LockOK(lf', l)
  BY <1>3, <1>8 DEF LockOK, Locking, t
<1>11. Turns(l, SpanFields) /\ Alters({"span", "inode", "name"}) /\ lf'.name = lf.name /\ lf.name \in 0..MaxInodes
  BY <1>3, SpanFacts DEF Turns, Alters, LFFields
<1> QED BY <1>2, <1>3, <1>6, <1>9, <1>10, <1>11, TurnKeeps DEF t

\* The lease is there: it is the first of the stack, and the name is that of the locked file.
LEMMA LeaseKeeps ==
  ASSUME LFInv, NEW l \in Lifespans, ValidateNamedLock(l)
  PROVE  LFInv'
<1> DEFINE s == lf.span[l]  t == lf'.span[l]
<1>1. s.pc = "named"
  BY DEF ValidateNamedLock
<1>2. CASE lf' = Refuse(lf, l)
  BY <1>1, <1>2, RefuseKeeps DEF Claiming
<1>3. CASE lf' # Refuse(lf, l)
  <2>1. SpanTypes(s) /\ SpanOK(s) /\ LockOK(lf, l)
    BY SpanFacts
  <2>2. /\ lf.name = s.fd
        /\ lf' = [lf EXCEPT !.span[l].pc = "secret", !.span[l].lease = TRUE, !.span[l].stack = << "lease" >>, !.span[l].open = {"lease"}]
    BY <1>3 DEF ValidateNamedLock
  <2>3. /\ Turns(l, {"pc", "lease", "stack", "open"}) /\ Alters({"span"}) /\ t.pc = "secret" /\ t.lease
        /\ t.lease \in BOOLEAN /\ t.stack = << "lease" >> /\ t.open = {"lease"}
    <3>1. Turns(l, {"pc", "lease", "stack", "open"}) /\ Alters({"span"})
      BY <2>2, SpanFacts DEF Turns, Alters, SpanFields, LFFields
    <3>2. t.pc = "secret" /\ t.stack = << "lease" >> /\ t.open = {"lease"}
      BY <2>2, SpanFacts DEF SpanFields, LFFields
    <3>3. t.lease = TRUE
      BY <2>2, SpanFacts DEF SpanFields, LFFields
    <3> QED BY <3>1, <3>2, <3>3
  <2> HIDE DEF s, t
  <2>4. /\ DOMAIN t = SpanFields /\ \A f \in SpanFields \ {"pc", "lease", "stack", "open"} : t[f] = s[f]
    BY <2>3 DEF Turns, s, t
  <2>5. SpanTypes(t)
    BY <2>1, <2>3, <2>4 DEF SpanTypes, SpanFields, Places, Claiming
  <2>6. PICK n, m \in 0..13 : Stands(s, n, m)
    BY <2>1 DEF SpanOK
  <2>7. n = 0 /\ m = 0 /\ s.closed = Shut(0, 0) /\ s.worker = "none" /\ ~s.update /\ s.step = 1
    BY <1>1, <2>6 DEF Stands, Claiming, s
  <2>8. Held(1) = << "lease" >> /\ OpenTo(1) = {"lease"} /\ Shut(0, 0) = Shut(1, 0)
    <3>1. Held(1) = << Resources[1] >>
      <4>1. Len(Held(1)) = 1 /\ Held(1)[1] = Resources[1] /\ Held(1) \in Seq(ResourceSet)
        BY HeldIs
      <4> QED BY <4>1
    <3>2. Shut(0, 0) = << >> /\ Shut(1, 0) = << >>
      BY DEF Shut
    <3> QED BY <3>1, <3>2, OpenIs, ResourcesAre DEF ResourceNames
  <2>9. Stands(t, 1, 0)
    BY <2>3, <2>4, <2>7, <2>8 DEF Stands, SpanFields, Claiming
  <2>10. SpanOK(t)
    BY <1>1, <2>1, <2>3, <2>4, <2>9 DEF SpanOK, Reports, SpanFields, s
  <2>11. LockOK(lf', l)
    <3>1. lf'.inode = lf.inode /\ lf'.name = lf.name /\ t.fd = s.fd
      BY <2>3, <2>4 DEF Alters, LFFields, SpanFields
    <3>2. s.fd # 0 /\ lf.inode[s.fd].holder = l
      BY <1>1, <2>1 DEF LockOK, Locking, s
    <3> QED BY <2>2, <3>1, <3>2 DEF LockOK, s, t
  <2>12. Turns(l, SpanFields)
    BY <2>3 DEF Turns
  <2> QED BY <2>3, <2>5, <2>10, <2>11, <2>12, SpanKeeps DEF t
<1> QED BY <1>2, <1>3

\* A step that raises after the lease: the drain begins with the stack as it is.
LEMMA RaiseKeeps ==
  ASSUME LFInv, NEW l \in Lifespans, lf.span[l].pc \in {"secret", "steps", "running"}, lf' = Raise(lf, l)
  PROVE  LFInv'
<1> DEFINE s == lf.span[l]  t == lf'.span[l]
<1>1. /\ Turns(l, {"pc", "failed", "health"}) /\ Alters({"span"})
      /\ t.pc = "draining" /\ t.failed \in BOOLEAN /\ t.health \in {"none", "failed"}
  BY SpanFacts, RaiseEffect DEF Turns, Alters
<1>2. SpanTypes(s) /\ SpanOK(s) /\ LockOK(lf, l)
  BY SpanFacts
<1>3. s.pc \in {"secret", "steps", "running"}
  OBVIOUS
<1> HIDE DEF s, t
<1>4. /\ DOMAIN t = SpanFields /\ \A f \in SpanFields \ {"pc", "failed", "health"} : t[f] = s[f]
  BY <1>1 DEF Turns, s, t
<1>5. SpanTypes(t)
  BY <1>1, <1>2, <1>4 DEF SpanTypes, SpanFields, Places, Claiming
<1>6. PICK n, m \in 0..13 : Stands(s, n, m)
  BY <1>2 DEF SpanOK
<1>7. Stands(t, n, m)
  BY <1>1, <1>4, <1>6 DEF Stands, SpanFields, Claiming
<1>8. SpanOK(t)
  BY <1>1, <1>2, <1>3, <1>4, <1>7 DEF SpanOK, Reports, SpanFields
<1>9. LockOK(lf', l)
  <2>1. lf'.inode = lf.inode /\ lf'.name = lf.name /\ t.fd = s.fd /\ t.lease = s.lease
    BY <1>1, <1>4 DEF Alters, LFFields, SpanFields
  <2> QED BY <1>1, <1>2, <2>1 DEF LockOK, Locking, s, t
<1>10. Turns(l, SpanFields)
  BY <1>1 DEF Turns
<1> QED BY <1>1, <1>5, <1>8, <1>9, <1>10, SpanKeeps DEF t

\* The session secret: what is cached is what is stored.
LEMMA SecretKeeps ==
  ASSUME LFInv, NEW l \in Lifespans, LoadSecret(l)
  PROVE  LFInv'
<1> DEFINE s == lf.span[l]  t == lf'.span[l]  p == ProcessOf[l]
<1>1. s.pc = "secret" /\ SpanTypes(s) /\ SpanOK(s) /\ LockOK(lf, l) /\ p \in Range(ProcessOf)
  BY SpanFacts DEF LoadSecret
<1>2. CASE lf' = Raise(lf, l)
  BY <1>1, <1>2, RaiseKeeps
<1>3. CASE lf' # Raise(lf, l)
  <2>1. /\ Turns(l, {"pc"}) /\ t.pc = "steps" /\ Alters({"span", "secret", "issued", "cached"})
        /\ lf'.secret \in Nat /\ lf'.issued \in Nat /\ lf'.cached \in [Range(ProcessOf) -> Nat] /\ SecretOK(lf')
    <3>1. lf.secret \in Nat /\ lf.issued \in Nat /\ lf.cached \in [Range(ProcessOf) -> Nat] /\ SecretOK(lf)
      BY DEF LFInv, LFTypes
    <3>2. CASE lf' = [lf EXCEPT !.span[l].pc = "steps"]
      <4>1. Turns(l, {"pc"}) /\ t.pc = "steps" /\ Alters({"span"})
        BY <3>2, SpanFacts DEF Turns, Alters, SpanFields, LFFields
      <4> QED BY <3>1, <4>1 DEF Alters, LFFields, SecretOK
    <3>3. CASE lf' = [lf EXCEPT !.cached[p] = lf.secret, !.span[l].pc = "steps"]
      <4>1. Turns(l, {"pc"}) /\ t.pc = "steps" /\ Alters({"span", "cached"}) /\ lf'.cached = [lf.cached EXCEPT ![p] = lf.secret]
        BY <3>3, SpanFacts DEF Turns, Alters, SpanFields, LFFields
      <4> QED BY <1>1, <3>1, <4>1 DEF Alters, LFFields, SecretOK
    <3>4. CASE /\ lf.secret = 0
               /\ lf' = [lf EXCEPT !.issued = @ + 1, !.secret = lf.issued + 1, !.cached[p] = lf.issued + 1, !.span[l].pc = "steps"]
      <4>1. /\ Turns(l, {"pc"}) /\ t.pc = "steps" /\ Alters({"span", "secret", "issued", "cached"})
            /\ lf'.issued = lf.issued + 1 /\ lf'.secret = lf.issued + 1 /\ lf'.cached = [lf.cached EXCEPT ![p] = lf.issued + 1]
        BY <3>4, SpanFacts DEF Turns, Alters, SpanFields, LFFields
      <4>2. \A q \in Range(ProcessOf) : lf.cached[q] = 0
        BY <3>1, <3>4 DEF SecretOK
      <4> QED BY <1>1, <3>1, <4>1, <4>2 DEF SecretOK
    <3> QED BY <1>3, <3>2, <3>3, <3>4 DEF LoadSecret
  <2> HIDE DEF s, t, p
  <2>2. /\ DOMAIN t = SpanFields /\ \A f \in SpanFields \ {"pc"} : t[f] = s[f]
    BY <2>1 DEF Turns, s, t
  <2>3. SpanTypes(t)
    BY <1>1, <2>1, <2>2 DEF SpanTypes, SpanFields, Places, Claiming
  <2>4. PICK n, m \in 0..13 : Stands(s, n, m)
    BY <1>1 DEF SpanOK
  <2>5. Depth[1] = 1
    BY DepthsAre DEF DepthNumbers
  <2>6. Stands(t, n, m)
    BY <1>1, <2>1, <2>2, <2>4, <2>5 DEF Stands, SpanFields, Claiming
  <2>7. SpanOK(t)
    BY <1>1, <2>1, <2>2, <2>6 DEF SpanOK, Reports, SpanFields
  <2>8. lf'.inode = lf.inode /\ lf'.name = lf.name /\ lf'.chmods = lf.chmods /\ DOMAIN lf' = LFFields
    BY <2>1 DEF Alters, LFFields
  <2>9. LockOK(lf', l)
    BY <1>1, <2>1, <2>2, <2>8 DEF LockOK, Locking, SpanFields, s, t
  <2>10. \A m1 \in Lifespans \ {l} : SpanOK(lf'.span[m1]) /\ LockOK(lf', m1)
    BY <2>1, <2>8, OthersKept DEF Turns
  <2>11. LFTypes(lf')
    BY <2>1, <2>3, <2>8 DEF LFInv, LFTypes, Turns, t
  <2> QED BY <2>1, <2>7, <2>9, <2>10, <2>11 DEF LFInv, t
<1> QED BY <1>2, <1>3

-----------------------------------------------------------------------------
(* The startup, the run and the drain.                                     *)

\* What a step of the startup pushes and opens, field by field.
LEMMA StartEffect ==
  ASSUME NEW l \in Lifespans, LFInv, NEW step, NEW r, r = Start(lf, l, step)
  PROVE  /\ DOMAIN r = LFFields /\ \A g \in LFFields \ {"span"} : r[g] = lf[g]
         /\ DOMAIN r.span = Lifespans /\ \A m \in Lifespans \ {l} : r.span[m] = lf.span[m]
         /\ DOMAIN r.span[l] = SpanFields
         /\ \A f \in SpanFields \ {"stack", "open", "health", "worker"} : r.span[l][f] = lf.span[l][f]
         /\ r.span[l].stack = lf.span[l].stack \o Pushed(step) /\ r.span[l].open = lf.span[l].open \cup Opened(step)
         /\ r.span[l].health \in {lf.span[l].health, "starting"}
         /\ r.span[l].worker = lf.span[l].worker \/ step = "tasks"
<1>1. DOMAIN lf = LFFields /\ DOMAIN lf.span = Lifespans /\ DOMAIN lf.span[l] = SpanFields
  BY SpanFacts
<1>2. /\ DOMAIN r = LFFields /\ \A g \in LFFields \ {"span"} : r[g] = lf[g]
      /\ DOMAIN r.span = Lifespans /\ \A m \in Lifespans \ {l} : r.span[m] = lf.span[m]
      /\ DOMAIN r.span[l] = SpanFields
      /\ \A f \in SpanFields \ {"stack", "open", "health", "worker"} : r.span[l][f] = lf.span[l][f]
  BY <1>1 DEF Start, SpanFields, LFFields
<1>3. r.span[l].stack = lf.span[l].stack \o Pushed(step) /\ r.span[l].open = lf.span[l].open \cup Opened(step)
  BY <1>1 DEF Start, SpanFields, LFFields
<1>4. r.span[l].health \in {lf.span[l].health, "starting"} /\ (r.span[l].worker = lf.span[l].worker \/ step = "tasks")
  BY <1>1 DEF Start, SpanFields, LFFields
<1> QED BY <1>2, <1>3, <1>4

\* The tasks begin when the supervisor's cleanup is on the stack.
LEMMA TasksLate == \A k \in 1..12 : Steps[k] = "tasks" => Depth[k] >= 9
<1>1. \A k \in 1..12 : k \in {1, 2, 3, 4, 5, 6, 7, 8, 9, 10, 11, 12}
  OBVIOUS
<1> QED BY <1>1, StepsAre, DepthsAre DEF StepNames, DepthNumbers

\* A step of the startup that opened its resource, whether it went on or raised.
LEMMA PushKeeps ==
  ASSUME LFInv, NEW l \in Lifespans, NEW k \in 1..12, lf.span[l].pc = "steps", lf.span[l].step = k, Alters({"span"}),
         Turns(l, {"pc", "step", "stack", "open", "health", "worker", "failed"}),
         lf'.span[l].stack = lf.span[l].stack \o Pushed(Steps[k]), lf'.span[l].open = lf.span[l].open \cup Opened(Steps[k]),
         lf'.span[l].worker = lf.span[l].worker \/ Steps[k] = "tasks", lf'.span[l].failed \in BOOLEAN,
         \/ k < 12 /\ lf'.span[l].pc = "steps" /\ lf'.span[l].step = k + 1 /\ lf'.span[l].health \in {lf.span[l].health, "starting"}
         \/ k = 12 /\ lf'.span[l].pc = "running" /\ lf'.span[l].step = k
         \/ lf'.span[l].pc = "draining" /\ lf'.span[l].step = k /\ lf'.span[l].health \in {"none", "failed"}
  PROVE  LFInv'
<1> DEFINE s == lf.span[l]  t == lf'.span[l]  d == Depth[k + 1]
<1>1. /\ DOMAIN t = SpanFields /\ \A f \in SpanFields \ {"pc", "step", "stack", "open", "health", "worker", "failed"} : t[f] = s[f]
  BY DEF Turns
<1>2. SpanTypes(s) /\ SpanOK(s) /\ LockOK(lf, l)
  BY SpanFacts
<1>3. /\ s.pc = "steps" /\ s.step = k /\ t.stack = s.stack \o Pushed(Steps[k]) /\ t.open = s.open \cup Opened(Steps[k])
      /\ t.worker = s.worker \/ Steps[k] = "tasks"
      /\ \/ k < 12 /\ t.pc = "steps" /\ t.step = k + 1 /\ t.health \in {s.health, "starting"}
         \/ k = 12 /\ t.pc = "running" /\ t.step = k
         \/ t.pc = "draining" /\ t.step = k /\ t.health \in {"none", "failed"}
      /\ t.failed \in BOOLEAN
  OBVIOUS
<1>4. d \in Depth[k]..13 /\ Depth[k] \in 1..13 /\ Depth[13] = 13
  BY StepIs, DepthsAre DEF DepthNumbers
<1>5. Held(Depth[k]) \o Pushed(Steps[k]) = Held(d) /\ OpenTo(Depth[k]) \cup Opened(Steps[k]) = OpenTo(d)
  BY StepPushes
<1>6. Steps[k] = "tasks" => Depth[k] >= 9
  BY TasksLate
<1> DEFINE b == Depth[k]
<1> HIDE DEF s, t
<1>7. t.step = k + 1 => Depth[t.step] = d
  OBVIOUS
<1>8. k = 12 => d = 13
  BY <1>4
<1> HIDE DEF d
<1>9. SpanTypes(t)
  BY <1>1, <1>2, <1>3 DEF SpanTypes, SpanFields, Places, Claiming
<1>10. PICK n, m \in 0..13 : Stands(s, n, m)
  BY <1>2 DEF SpanOK
<1>11. n = Depth[k] /\ m = 0
  BY <1>3, <1>10 DEF Stands
<1>12. Shut(d, 0) = << >> /\ Shut(n, 0) = << >>
  BY DEF Shut
<1>13. t.stack = Held(d) /\ t.open = OpenTo(d) /\ t.closed = Shut(d, 0) /\ d + 0 <= 13 /\ (t.lease <=> d > 0)
  <2>1. s.stack = Held(n) /\ s.open = OpenTo(n) /\ s.closed = << >> /\ (s.lease <=> n > 0)
    BY <1>10, <1>11, <1>12 DEF Stands
  <2>2. t.stack = Held(d) /\ t.open = OpenTo(d)
    BY <1>3, <1>5, <1>11, <2>1
  <2>3. t.closed = s.closed /\ t.lease = s.lease
    BY <1>1 DEF SpanFields
  <2>4. n > 0 /\ d > 0 /\ d + 0 <= 13
    BY <1>4, <1>11
  <2> QED BY <1>12, <2>1, <2>2, <2>3, <2>4
<1>14. t.worker # "none" => d >= 9
  BY <1>3, <1>4, <1>6, <1>10, <1>11 DEF Stands
<1>15. t.update => d >= 11
  <2>1. (t.update <=> s.update) /\ (s.update => n >= 11)
    BY <1>1, <1>10 DEF Stands, SpanFields
  <2> QED BY <1>4, <1>11, <2>1
<1>19. Stands(t, d, 0)
  BY <1>3, <1>7, <1>8, <1>13, <1>14, <1>15 DEF Stands, Claiming
<1>16. SpanOK(t)
  <2>1. d \in 0..13 /\ 0 \in 0..13
    BY <1>4
  <2>2. t.over = s.over /\ t.debt = s.debt /\ s.over \notin {"raised", "drain", "clean"} /\ s.health # "ready"
    BY <1>1, <1>2, <1>3 DEF SpanOK, Reports, SpanFields
  <2>3. Reports(t)
    BY <1>3, <2>2 DEF Reports
  <2> QED BY <1>19, <2>1, <2>3 DEF SpanOK
<1>17. LockOK(lf', l)
  <2>1. lf'.inode = lf.inode /\ lf'.name = lf.name /\ t.fd = s.fd /\ t.lease = s.lease
    BY <1>1 DEF Alters, LFFields, SpanFields
  <2> QED BY <1>2, <1>3, <2>1 DEF LockOK, Locking, s, t
<1>18. Turns(l, SpanFields)
  BY DEF Turns
<1> QED BY <1>9, <1>16, <1>17, <1>18, SpanKeeps DEF t

\* A step of the startup.
LEMMA StartupKeeps ==
  ASSUME LFInv, NEW l \in Lifespans, StartupStep(l)
  PROVE  LFInv'
<1> DEFINE s == lf.span[l]  t == lf'.span[l]  k == s.step  c == Start(lf, l, Steps[k])
<1>1. s.pc = "steps" /\ k \in 1..12 /\ Len(Steps) = 12 /\ SpanTypes(s)
  BY SpanFacts, StepsAre DEF StartupStep, SpanTypes
<1>2. CASE lf' = Raise(lf, l)
  BY <1>1, <1>2, RaiseKeeps
<1>3. /\ DOMAIN c = LFFields /\ \A g \in LFFields \ {"span"} : c[g] = lf[g]
      /\ DOMAIN c.span = Lifespans /\ \A m \in Lifespans \ {l} : c.span[m] = lf.span[m]
      /\ DOMAIN c.span[l] = SpanFields
      /\ \A f \in SpanFields \ {"stack", "open", "health", "worker"} : c.span[l][f] = s[f]
      /\ c.span[l].stack = s.stack \o Pushed(Steps[k]) /\ c.span[l].open = s.open \cup Opened(Steps[k])
      /\ c.span[l].health \in {s.health, "starting"} /\ (c.span[l].worker = s.worker \/ Steps[k] = "tasks")
  <2> DEFINE e == Steps[k]
  <2>1. c = Start(lf, l, e)
    OBVIOUS
  <2> HIDE DEF c, e
  <2>2. /\ DOMAIN c = LFFields /\ \A g \in LFFields \ {"span"} : c[g] = lf[g]
        /\ DOMAIN c.span = Lifespans /\ \A m \in Lifespans \ {l} : c.span[m] = lf.span[m]
        /\ DOMAIN c.span[l] = SpanFields
        /\ \A f \in SpanFields \ {"stack", "open", "health", "worker"} : c.span[l][f] = lf.span[l][f]
        /\ c.span[l].stack = lf.span[l].stack \o Pushed(e) /\ c.span[l].open = lf.span[l].open \cup Opened(e)
        /\ c.span[l].health \in {lf.span[l].health, "starting"}
        /\ c.span[l].worker = lf.span[l].worker \/ e = "tasks"
    BY <2>1, StartEffect
  <2> QED BY <2>2 DEF e
<1>4. s.failed \in BOOLEAN
  BY <1>1 DEF SpanTypes
<1>5. CASE k < 12 /\ lf' = [c EXCEPT !.span[l].step = @ + 1]
  <2> HIDE DEF c
  <2>1. /\ Turns(l, {"step", "stack", "open", "health", "worker"}) /\ Alters({"span"}) /\ t.step = c.span[l].step + 1
        /\ \A f \in SpanFields \ {"step"} : t[f] = c.span[l][f]
    BY <1>3, <1>5 DEF Turns, Alters, SpanFields, LFFields
  <2>2. Turns(l, {"pc", "step", "stack", "open", "health", "worker", "failed"})
    BY <2>1 DEF Turns
  <2>3. /\ t.stack = s.stack \o Pushed(Steps[k]) /\ t.open = s.open \cup Opened(Steps[k])
        /\ t.health \in {s.health, "starting"} /\ (t.worker = s.worker \/ Steps[k] = "tasks")
        /\ t.pc = "steps" /\ t.step = k + 1 /\ t.failed \in BOOLEAN
    BY <1>1, <1>3, <1>4, <2>1 DEF SpanFields
  <2> QED BY <1>1, <1>5, <2>1, <2>2, <2>3, PushKeeps
<1>6. CASE k = 12 /\ lf' = [c EXCEPT !.span[l].pc = "running", !.span[l].health = "ready"]
  <2> HIDE DEF c
  <2>1. /\ Turns(l, {"pc", "stack", "open", "health", "worker"}) /\ Alters({"span"}) /\ t.pc = "running"
        /\ \A f \in SpanFields \ {"pc", "health"} : t[f] = c.span[l][f]
    BY <1>3, <1>6 DEF Turns, Alters, SpanFields, LFFields
  <2>2. Turns(l, {"pc", "step", "stack", "open", "health", "worker", "failed"})
    BY <2>1 DEF Turns
  <2>3. /\ t.stack = s.stack \o Pushed(Steps[k]) /\ t.open = s.open \cup Opened(Steps[k])
        /\ (t.worker = s.worker \/ Steps[k] = "tasks") /\ t.step = k /\ t.failed \in BOOLEAN
    <3>1. t.stack = c.span[l].stack /\ t.open = c.span[l].open /\ t.worker = c.span[l].worker
          /\ t.step = c.span[l].step /\ t.failed = c.span[l].failed
      BY <2>1 DEF SpanFields
    <3>2. c.span[l].step = k /\ c.span[l].failed = s.failed
      BY <1>3 DEF SpanFields
    <3> QED BY <1>3, <1>4, <3>1, <3>2
  <2> QED BY <1>1, <1>6, <2>1, <2>2, <2>3, PushKeeps
<1>7. CASE lf' = Raise(c, l)
  <2> HIDE DEF c
  <2>1. /\ DOMAIN lf' = LFFields /\ \A g \in LFFields \ {"span"} : lf'[g] = c[g]
        /\ DOMAIN lf'.span = Lifespans /\ \A m \in Lifespans \ {l} : lf'.span[m] = c.span[m]
        /\ DOMAIN t = SpanFields /\ \A f \in SpanFields \ {"pc", "failed", "health"} : t[f] = c.span[l][f]
        /\ t.pc = "draining" /\ t.failed \in BOOLEAN /\ t.health \in {"none", "failed"}
    BY <1>3, <1>7, RaiseEffect
  <2>2. Turns(l, {"pc", "step", "stack", "open", "health", "worker", "failed"}) /\ Alters({"span"})
    BY <1>3, <2>1 DEF Turns, Alters, SpanFields
  <2>3. /\ t.stack = s.stack \o Pushed(Steps[k]) /\ t.open = s.open \cup Opened(Steps[k])
        /\ (t.worker = s.worker \/ Steps[k] = "tasks") /\ t.step = k
    <3>1. t.stack = c.span[l].stack /\ t.open = c.span[l].open /\ t.worker = c.span[l].worker /\ t.step = c.span[l].step
      BY <2>1 DEF SpanFields
    <3>2. c.span[l].step = k
      BY <1>3 DEF SpanFields
    <3> QED BY <1>3, <3>1, <3>2
  <2> QED BY <1>1, <2>1, <2>2, <2>3, PushKeeps
<1> QED BY <1>1, <1>2, <1>5, <1>6, <1>7 DEF StartupStep

\* The coordinator is open when the stack is long enough, and then so is what it uses.
LEMMA CoordinatorLate ==
  ASSUME NEW n \in 0..13
  PROVE  /\ "coordinator" \in OpenTo(n) => n >= 11
         /\ n >= 11 => {"supervisor", "coordinator"} \cup Uses("coordinator") \subseteq OpenTo(n)
<1>1. /\ Resources[2] = "http" /\ Resources[5] = "runtime" /\ Resources[9] = "supervisor" /\ Resources[11] = "coordinator"
      /\ 11 \in 1..13
  BY ResourcesAre DEF ResourceNames
<1>2. ASSUME "coordinator" \in OpenTo(n) PROVE n >= 11
  <2>1. PICK i \in 1..n : Resources[i] = Resources[11]
    BY <1>1, <1>2 DEF OpenTo
  <2>2. i \in 1..13
    OBVIOUS
  <2>3. i = 11
    BY <1>1, <2>1, <2>2, ResourcesDiffer
  <2> QED BY <2>3
<1>3. ASSUME n >= 11 PROVE {"supervisor", "coordinator"} \cup Uses("coordinator") \subseteq OpenTo(n)
  <2>1. 2 \in 1..n /\ 5 \in 1..n /\ 9 \in 1..n /\ 11 \in 1..n
    BY <1>3
  <2>2. "http" \in OpenTo(n) /\ "runtime" \in OpenTo(n) /\ "supervisor" \in OpenTo(n) /\ "coordinator" \in OpenTo(n)
    BY <1>1, <2>1 DEF OpenTo
  <2>3. Uses("coordinator") = {"runtime", "http"}
    BY DEF Uses
  <2> QED BY <2>2, <2>3
<1> QED BY <1>2, <1>3

\* A worker's thread begins and ends, an update begins and ends in an open coordinator,
\* and a drain is cancelled, with the stack as it is.
LEMMA RunKeeps ==
  ASSUME LFInv, NEW l \in Lifespans, Alters({"span"}), Turns(l, {"worker", "update", "cancelled"}),
         lf'.span[l].worker = "none" \/ lf.span[l].worker # "none", lf'.span[l].cancelled \in BOOLEAN,
         lf'.span[l].update \in BOOLEAN, lf'.span[l].update => lf.span[l].update \/ "coordinator" \in lf.span[l].open
  PROVE  LFInv'
<1> DEFINE s == lf.span[l]  t == lf'.span[l]
<1>1. /\ DOMAIN t = SpanFields /\ \A f \in SpanFields \ {"worker", "update", "cancelled"} : t[f] = s[f]
      /\ (t.worker = "none" \/ s.worker # "none") /\ t.cancelled \in BOOLEAN /\ t.update \in BOOLEAN
      /\ (t.update => s.update \/ "coordinator" \in s.open)
  BY DEF Turns
<1>2. SpanTypes(s) /\ SpanOK(s) /\ LockOK(lf, l)
  BY SpanFacts
<1> HIDE DEF s, t
<1>3. SpanTypes(t)
  BY <1>1, <1>2 DEF SpanTypes, SpanFields
<1>4. PICK n, m \in 0..13 : Stands(s, n, m)
  BY <1>2 DEF SpanOK
<1>9. t.update => n >= 11
  <2>1. "coordinator" \in OpenTo(n) => n >= 11
    BY CoordinatorLate
  <2>2. s.open = OpenTo(n) /\ (s.update => n >= 11)
    BY <1>4 DEF Stands
  <2> QED BY <1>1, <2>1, <2>2
<1>5. Stands(t, n, m)
  BY <1>1, <1>4, <1>9 DEF Stands, SpanFields
<1>6. SpanOK(t)
  BY <1>1, <1>2, <1>5 DEF SpanOK, Reports, SpanFields
<1>7. LockOK(lf', l)
  <2>1. lf'.inode = lf.inode /\ lf'.name = lf.name /\ t.fd = s.fd /\ t.lease = s.lease /\ t.pc = s.pc
    BY <1>1 DEF Alters, LFFields, SpanFields
  <2> QED BY <1>2, <2>1 DEF LockOK, Locking, s, t
<1>8. Turns(l, SpanFields)
  BY DEF Turns
<1> QED BY <1>3, <1>6, <1>7, <1>8, SpanKeeps DEF t

\* The threads of the workers, the updates of the autofill task, and a cancelled drain.
LEMMA WorkersKeep ==
  ASSUME LFInv, NEW l \in Lifespans, StartWorker(l) \/ EndWorker(l) \/ BeginUpdate(l) \/ EndUpdate(l) \/ CancelDrain(l)
  PROVE  LFInv'
<1> DEFINE s == lf.span[l]  t == lf'.span[l]
<1>1. s.update \in BOOLEAN /\ s.cancelled \in BOOLEAN
  BY SpanFacts DEF SpanTypes
<1>2. CASE StartWorker(l) \/ EndWorker(l)
  <2>1. Alters({"span"}) /\ Turns(l, {"worker"}) /\ s.worker # "none"
    BY <1>2, SpanFacts DEF StartWorker, EndWorker, Alters, Turns, SpanFields, LFFields
  <2>2. Turns(l, {"worker", "update", "cancelled"}) /\ t.cancelled = s.cancelled /\ t.update = s.update
    BY <2>1 DEF Turns, SpanFields
  <2> QED BY <1>1, <2>1, <2>2, RunKeeps
<1>4. CASE BeginUpdate(l) \/ EndUpdate(l)
  <2>1. Alters({"span"}) /\ Turns(l, {"update"})
    BY <1>4, SpanFacts DEF BeginUpdate, EndUpdate, Alters, Turns, SpanFields, LFFields
  <2>2. \/ t.update = TRUE /\ "coordinator" \in s.open
        \/ t.update = FALSE
    BY <1>4, SpanFacts DEF BeginUpdate, EndUpdate, SpanFields, LFFields
  <2>3. t.update \in BOOLEAN /\ (t.update => s.update \/ "coordinator" \in s.open)
    BY <2>2
  <2>4. Turns(l, {"worker", "update", "cancelled"}) /\ t.worker = s.worker /\ t.cancelled = s.cancelled
    BY <2>1 DEF Turns, SpanFields
  <2> QED BY <1>1, <2>1, <2>3, <2>4, RunKeeps
<1>3. CASE CancelDrain(l)
  <2>1. Alters({"span"}) /\ Turns(l, {"cancelled"}) /\ t.cancelled = TRUE
    BY <1>3, SpanFacts DEF CancelDrain, Alters, Turns, SpanFields, LFFields
  <2>2. Turns(l, {"worker", "update", "cancelled"}) /\ t.worker = s.worker /\ t.update = s.update
    BY <2>1 DEF Turns, SpanFields
  <2> QED BY <1>1, <2>1, <2>2, RunKeeps
<1> QED BY <1>2, <1>3, <1>4

\* The server stops.
LEMMA ShutdownKeeps ==
  ASSUME LFInv, NEW l \in Lifespans, Shutdown(l)
  PROVE  LFInv'
<1> DEFINE s == lf.span[l]  t == lf'.span[l]
<1>1. s.pc = "running" /\ SpanTypes(s) /\ SpanOK(s) /\ LockOK(lf, l)
  BY SpanFacts DEF Shutdown
<1>2. CASE lf' = Raise(lf, l)
  BY <1>1, <1>2, RaiseKeeps
<1>3. CASE lf' = [lf EXCEPT !.span[l].pc = "draining", !.span[l].health = "stopping"]
  <2>1. Alters({"span"}) /\ Turns(l, {"pc", "health"}) /\ t.pc = "draining" /\ t.health = "stopping"
    BY <1>3, SpanFacts DEF Alters, Turns, SpanFields, LFFields
  <2> HIDE DEF s, t
  <2>2. /\ DOMAIN t = SpanFields /\ \A f \in SpanFields \ {"pc", "health"} : t[f] = s[f]
    BY <2>1 DEF Turns, s, t
  <2>3. SpanTypes(t)
    BY <1>1, <2>1, <2>2 DEF SpanTypes, SpanFields, Places
  <2>4. PICK n, m \in 0..13 : Stands(s, n, m)
    BY <1>1 DEF SpanOK
  <2>5. Stands(t, n, m)
    BY <1>1, <2>1, <2>2, <2>4 DEF Stands, SpanFields, Claiming
  <2>6. SpanOK(t)
    BY <1>1, <2>1, <2>2, <2>5 DEF SpanOK, Reports, SpanFields
  <2>7. LockOK(lf', l)
    <3>1. lf'.inode = lf.inode /\ lf'.name = lf.name /\ t.fd = s.fd /\ t.lease = s.lease
      BY <2>1, <2>2 DEF Alters, LFFields, SpanFields
    <3> QED BY <1>1, <2>1, <3>1 DEF LockOK, Locking, s, t
  <2>8. Turns(l, SpanFields)
    BY <2>1 DEF Turns
  <2> QED BY <2>1, <2>3, <2>6, <2>7, <2>8, SpanKeeps DEF t
<1> QED BY <1>2, <1>3 DEF Shutdown

\* A cleanup takes the last resource from the stack; the lease's frees the lock.
LEMMA CloseTopEffect ==
  ASSUME LFInv, NEW l \in Lifespans, NEW r, NEW ok \in BOOLEAN, lf' = CloseTop(l, r, ok)
  PROVE  /\ Turns(l, {"stack", "open", "closed", "lease", "fd", "debt", "worker"}) /\ Alters({"span", "inode"})
         /\ lf'.span[l].stack = Front(lf.span[l].stack) /\ lf'.span[l].open = lf.span[l].open \ {r}
         /\ lf'.span[l].closed = Append(lf.span[l].closed, r)
         /\ lf'.span[l].lease \in BOOLEAN /\ (lf'.span[l].lease <=> lf.span[l].lease /\ r # "lease")
         /\ lf'.span[l].fd = (IF r = "lease" THEN 0 ELSE lf.span[l].fd)
         /\ lf'.span[l].debt \in BOOLEAN
         /\ lf'.span[l].worker = (IF r = "supervisor" THEN "none" ELSE lf.span[l].worker)
         /\ DOMAIN lf'.inode = 1..MaxInodes
         /\ \A i \in 1..MaxInodes : /\ InodeTypes(lf'.inode[i])
                                    /\ lf'.inode[i].holder = lf.inode[i].holder \/ (r = "lease" /\ lf.inode[i].holder = l)
<1> DEFINE s == lf.span[l]  t == lf'.span[l]
           c == [lf EXCEPT !.span[l].stack = Front(@), !.span[l].open = @ \ {r}, !.span[l].closed = Append(@, r)]
<1>1. /\ DOMAIN lf = LFFields /\ DOMAIN lf.span = Lifespans /\ DOMAIN s = SpanFields /\ SpanTypes(s)
      /\ DOMAIN lf.inode = 1..MaxInodes /\ \A i \in 1..MaxInodes : InodeTypes(lf.inode[i])
  BY SpanFacts
<1>2. /\ DOMAIN c = LFFields /\ \A g \in LFFields \ {"span"} : c[g] = lf[g]
      /\ DOMAIN c.span = Lifespans /\ \A m \in Lifespans \ {l} : c.span[m] = lf.span[m]
      /\ DOMAIN c.span[l] = SpanFields /\ \A f \in SpanFields \ {"stack", "open", "closed"} : c.span[l][f] = s[f]
      /\ c.span[l].stack = Front(s.stack) /\ c.span[l].open = s.open \ {r} /\ c.span[l].closed = Append(s.closed, r)
  BY <1>1 DEF SpanFields, LFFields
<1>3. \/ r = "lease" /\ lf' = [Close(c, l) EXCEPT !.span[l].lease = FALSE]
      \/ r = "accounting" /\ lf' = [c EXCEPT !.span[l].debt = ~ok]
      \/ r = "supervisor" /\ lf' = [c EXCEPT !.span[l].worker = "none"]
      \/ r \notin {"lease", "accounting", "supervisor"} /\ lf' = c
  BY DEF CloseTop
<1>4. s.lease \in BOOLEAN /\ s.debt \in BOOLEAN
  BY <1>1 DEF SpanTypes
<1> HIDE DEF c
<1>5. c.span[l].lease = s.lease /\ c.span[l].debt = s.debt /\ c.span[l].worker = s.worker /\ c.span[l].fd = s.fd /\ c.inode = lf.inode
  BY <1>2 DEF SpanFields, LFFields
<1>6. CASE r = "lease" /\ lf' = [Close(c, l) EXCEPT !.span[l].lease = FALSE]
  <2> DEFINE e == Close(c, l)
  <2>1. /\ DOMAIN e = LFFields /\ \A g \in LFFields \ {"span", "inode"} : e[g] = c[g]
        /\ DOMAIN e.span = Lifespans /\ \A m \in Lifespans \ {l} : e.span[m] = c.span[m]
        /\ DOMAIN e.span[l] = SpanFields /\ \A f \in SpanFields \ {"fd"} : e.span[l][f] = c.span[l][f]
        /\ e.span[l].fd = 0 /\ DOMAIN e.inode = 1..MaxInodes
        /\ \A i \in 1..MaxInodes : /\ InodeTypes(e.inode[i])
                                   /\ e.inode[i].holder = c.inode[i].holder \/ c.inode[i].holder = l
    BY <1>1, <1>2, <1>5, CloseEffect
  <2> HIDE DEF e
  <2>2. lf' = [e EXCEPT !.span[l].lease = FALSE]
    BY <1>6 DEF e
  <2>3. /\ DOMAIN lf' = LFFields /\ \A g \in LFFields \ {"span"} : lf'[g] = e[g]
        /\ DOMAIN lf'.span = Lifespans /\ \A m \in Lifespans \ {l} : lf'.span[m] = e.span[m]
        /\ DOMAIN t = SpanFields /\ \A f \in SpanFields \ {"lease"} : t[f] = e.span[l][f]
    BY <2>1, <2>2 DEF SpanFields, LFFields
  <2>4. t.lease = FALSE
    BY <2>1, <2>2 DEF SpanFields, LFFields
  <2>5. Turns(l, {"stack", "open", "closed", "lease", "fd"}) /\ Alters({"span", "inode"})
    BY <1>2, <2>1, <2>3 DEF Turns, Alters, SpanFields, LFFields
  <2>6. t.stack = Front(s.stack) /\ t.open = s.open \ {r} /\ t.closed = Append(s.closed, r) /\ t.fd = 0
        /\ t.debt = s.debt /\ t.worker = s.worker
    BY <1>2, <1>5, <2>1, <2>3 DEF SpanFields
  <2>7. lf'.inode = e.inode
    BY <2>3 DEF LFFields
  <2>8. Turns(l, {"stack", "open", "closed", "lease", "fd", "debt", "worker"})
    BY <2>5 DEF Turns
  <2> QED BY <1>4, <1>5, <1>6, <2>1, <2>4, <2>5, <2>6, <2>7, <2>8
<1>7. CASE r # "lease" /\ Alters({"span"}) /\ Turns(l, {"stack", "open", "closed", "debt", "worker"})
           /\ \A f \in {"stack", "open", "closed"} : t[f] = c.span[l][f]
           /\ t.debt \in BOOLEAN /\ t.worker = (IF r = "supervisor" THEN "none" ELSE s.worker)
  <2>1. Turns(l, {"stack", "open", "closed", "lease", "fd", "debt", "worker"}) /\ Alters({"span", "inode"}) /\ lf'.inode = lf.inode
        /\ t.lease = s.lease /\ t.fd = s.fd
    BY <1>7 DEF Turns, Alters, SpanFields, LFFields
  <2> QED BY <1>1, <1>2, <1>4, <1>7, <2>1
<1>8. CASE r = "accounting" /\ lf' = [c EXCEPT !.span[l].debt = ~ok]
  <2>1. Alters({"span"}) /\ Turns(l, {"stack", "open", "closed", "debt"}) /\ \A f \in SpanFields \ {"debt"} : t[f] = c.span[l][f]
    BY <1>2, <1>8 DEF Turns, Alters, SpanFields, LFFields
  <2>2. t.debt = ~ok
    BY <1>2, <1>8 DEF SpanFields, LFFields
  <2>3. Turns(l, {"stack", "open", "closed", "debt", "worker"}) /\ t.worker = s.worker
    BY <1>5, <2>1 DEF Turns, SpanFields
  <2>4. \A f \in {"stack", "open", "closed"} : t[f] = c.span[l][f]
    BY <2>1 DEF SpanFields
  <2>5. t.debt \in BOOLEAN
    BY <2>2
  <2> QED BY <1>7, <1>8, <2>1, <2>3, <2>4, <2>5
<1>9. CASE r = "supervisor" /\ lf' = [c EXCEPT !.span[l].worker = "none"]
  <2>1. /\ Alters({"span"}) /\ Turns(l, {"stack", "open", "closed", "worker"}) /\ t.worker = "none"
        /\ \A f \in SpanFields \ {"worker"} : t[f] = c.span[l][f]
    BY <1>2, <1>9 DEF Turns, Alters, SpanFields, LFFields
  <2>2. Turns(l, {"stack", "open", "closed", "debt", "worker"}) /\ t.debt = s.debt
    BY <1>5, <2>1 DEF Turns, SpanFields
  <2>3. \A f \in {"stack", "open", "closed"} : t[f] = c.span[l][f]
    BY <2>1 DEF SpanFields
  <2>4. t.debt \in BOOLEAN
    BY <1>4, <2>2
  <2>5. r # "lease"
    BY <1>9
  <2>6. t.worker = (IF r = "supervisor" THEN "none" ELSE s.worker)
    <3>1. r = "supervisor"
      BY <1>9
    <3>2. t.worker = "none"
      BY <2>1
    <3> HIDE DEF s, t
    <3> QED BY <3>1, <3>2
  <2> QED BY <1>7, <2>1, <2>2, <2>3, <2>4, <2>5, <2>6
<1>10. CASE r \notin {"lease", "accounting", "supervisor"} /\ lf' = c
  <2>1. Alters({"span"}) /\ Turns(l, {"stack", "open", "closed"}) /\ \A f \in SpanFields : t[f] = c.span[l][f]
    BY <1>2, <1>10 DEF Turns, Alters, SpanFields, LFFields
  <2>2. Turns(l, {"stack", "open", "closed", "debt", "worker"}) /\ t.debt = s.debt /\ t.worker = s.worker
    BY <1>5, <2>1 DEF Turns, SpanFields
  <2>3. \A f \in {"stack", "open", "closed"} : t[f] = c.span[l][f]
    BY <2>1 DEF SpanFields
  <2> QED BY <1>4, <1>7, <1>10, <2>1, <2>2, <2>3
<1> QED BY <1>3, <1>6, <1>8, <1>9, <1>10

\* The drain closes the last resource of the stack, or waits for the thread of a worker.
LEMMA DrainKeeps ==
  ASSUME LFInv, NEW l \in Lifespans, DrainStep(l)
  PROVE  LFInv'
<1> DEFINE s == lf.span[l]  t == lf'.span[l]  r == Last(s.stack)
<1>1. s.pc = "draining" /\ s.stack # << >> /\ SpanTypes(s) /\ SpanOK(s) /\ LockOK(lf, l)
  BY SpanFacts DEF DrainStep
<1>2. CASE s.worker = "thread" /\ lf' = [lf EXCEPT !.span[l].worker = "ending"]
  <2>1. Alters({"span"}) /\ Turns(l, {"worker"}) /\ s.worker # "none"
    BY <1>2, SpanFacts DEF Alters, Turns, SpanFields, LFFields
  <2>2. Turns(l, {"worker", "update", "cancelled"}) /\ t.cancelled = s.cancelled /\ t.update = s.update
    BY <2>1 DEF Turns, SpanFields
  <2>3. s.update \in BOOLEAN /\ s.cancelled \in BOOLEAN
    BY <1>1 DEF SpanTypes
  <2> QED BY <2>1, <2>2, <2>3, RunKeeps
<1>4. r = "coordinator" => ~s.update
  BY DEF DrainStep
<1>3. ASSUME NEW ok \in BOOLEAN, lf' = CloseTop(l, r, ok) PROVE LFInv'
  <2>1. /\ Turns(l, {"stack", "open", "closed", "lease", "fd", "debt", "worker"}) /\ Alters({"span", "inode"})
        /\ t.stack = Front(s.stack) /\ t.open = s.open \ {r} /\ t.closed = Append(s.closed, r)
        /\ t.lease \in BOOLEAN /\ (t.lease <=> s.lease /\ r # "lease") /\ t.fd = (IF r = "lease" THEN 0 ELSE s.fd)
        /\ t.debt \in BOOLEAN /\ t.worker = (IF r = "supervisor" THEN "none" ELSE s.worker)
        /\ DOMAIN lf'.inode = 1..MaxInodes
        /\ \A i \in 1..MaxInodes : /\ InodeTypes(lf'.inode[i])
                                   /\ lf'.inode[i].holder = lf.inode[i].holder \/ (r = "lease" /\ lf.inode[i].holder = l)
    <3>1. lf' = CloseTop(l, r, ok)
      BY <1>3
    <3> HIDE DEF r
    <3> QED BY <3>1, CloseTopEffect
  <2> HIDE DEF s, t, r
  <2>2. PICK n, m \in 0..13 : Stands(s, n, m)
    BY <1>1 DEF SpanOK
  <2>3. n > 0 /\ n + m <= 13 /\ s.stack = Held(n) /\ s.open = OpenTo(n) /\ s.closed = Shut(n, m)
        /\ (s.lease <=> n > 0) /\ (s.worker # "none" => n >= 9)
    <3>1. n # 0
      BY <1>1, <2>2, HeldIs DEF Stands
    <3>2. n > 0
      BY <3>1
    <3> QED BY <2>2, <3>2 DEF Stands
  <2>4. /\ r = Resources[n] /\ Front(s.stack) = Held(n - 1) /\ OpenTo(n) \ {Resources[n]} = OpenTo(n - 1)
        /\ Append(Shut(n, m), Resources[n]) = Shut(n - 1, m + 1)
    BY <2>3, HeldIs, OpenIs, ShutIs DEF r
  <2>5. (r = "lease" <=> n = 1) /\ (r = "supervisor" <=> n = 9) /\ (r = "coordinator" <=> n = 11)
    <3>1. /\ Resources[1] = "lease" /\ Resources[9] = "supervisor" /\ Resources[11] = "coordinator"
          /\ 1 \in 1..13 /\ 9 \in 1..13 /\ 11 \in 1..13 /\ n \in 1..13
      BY <2>3, ResourcesAre DEF ResourceNames
    <3>2. (Resources[n] = Resources[1] <=> n = 1) /\ (Resources[n] = Resources[9] <=> n = 9) /\ (Resources[n] = Resources[11] <=> n = 11)
      BY <3>1, ResourcesDiffer
    <3> QED BY <2>4, <3>1, <3>2
  <2>6. /\ DOMAIN t = SpanFields
        /\ \A f \in SpanFields \ {"stack", "open", "closed", "lease", "fd", "debt", "worker"} : t[f] = s[f]
    BY <2>1 DEF Turns, s, t
  <2>7. t.fd \in 0..MaxInodes
    BY <1>1, <2>1, LifespanAssumption DEF SpanTypes
  <2>8. SpanTypes(t)
    BY <1>1, <2>1, <2>6, <2>7 DEF SpanTypes, SpanFields
  <2>9. n - 1 \in 0..13 /\ m + 1 \in 0..13 /\ (n - 1) + (m + 1) <= 13
    BY <2>3
  <2>10. t.stack = Held(n - 1) /\ t.open = OpenTo(n - 1) /\ t.closed = Shut(n - 1, m + 1)
    BY <2>1, <2>3, <2>4
  <2>11. (t.lease <=> n - 1 > 0) /\ (t.worker # "none" => n - 1 >= 9)
    BY <2>1, <2>3, <2>5
  <2>12. t.pc = "draining"
    BY <1>1, <2>6 DEF SpanFields
  <2>18. t.update => n - 1 >= 11
    <3>1. (t.update <=> s.update) /\ (s.update => n >= 11)
      BY <2>2, <2>6 DEF Stands, SpanFields
    <3>2. s.update => n # 11
      BY <1>4, <2>5
    <3> QED BY <3>1, <3>2
  <2>13. Stands(t, n - 1, m + 1)
    BY <2>9, <2>10, <2>11, <2>12, <2>18 DEF Stands, Claiming
  <2>14. Reports(t)
    BY <1>1, <2>6 DEF SpanOK, Reports, SpanFields
  <2>15. SpanOK(t)
    BY <2>9, <2>13, <2>14 DEF SpanOK
  <2>16. LockOK(lf', l)
    <3>1. CASE r = "lease"
      BY <2>1, <2>12, <3>1 DEF LockOK, Locking, t
    <3>2. CASE r # "lease"
      <4>1. lf'.name = lf.name /\ t.fd = s.fd /\ (t.lease <=> s.lease)
        BY <2>1, <3>2 DEF Alters, LFFields
      <4>2. ASSUME t.lease PROVE t.fd # 0 /\ lf'.inode[t.fd].holder = l /\ lf'.name = t.fd
        <5>1. s.fd # 0 /\ lf.inode[s.fd].holder = l /\ lf.name = s.fd /\ s.fd \in 1..MaxInodes
          BY <1>1, <4>1, <4>2 DEF LockOK, Locking, SpanTypes, s
        <5> QED BY <2>1, <3>2, <4>1, <5>1
      <4> QED BY <2>12, <4>2 DEF LockOK, Locking, t
    <3> QED BY <3>1, <3>2
  <2>17. Turns(l, SpanFields) /\ Alters({"span", "inode", "name"}) /\ lf'.name = lf.name /\ lf.name \in 0..MaxInodes
    BY <2>1, SpanFacts DEF Turns, Alters, LFFields
  <2> QED BY <2>1, <2>8, <2>15, <2>16, <2>17, TurnKeeps DEF t
<1> QED BY <1>2, <1>3 DEF DrainStep

\* The end of lifespan(): nothing is left of what it opened.
LEMMA EndKeeps ==
  ASSUME LFInv, NEW l \in Lifespans, EndLifespan(l)
  PROVE  LFInv'
<1> DEFINE s == lf.span[l]  t == lf'.span[l]
           o == IF s.failed THEN "raised" ELSE IF s.debt \/ s.cancelled THEN "drain" ELSE "clean"
<1>1. s.pc = "draining" /\ s.stack = << >> /\ SpanTypes(s) /\ SpanOK(s) /\ LockOK(lf, l)
  BY SpanFacts DEF EndLifespan
<1>2. t = [NewSpan EXCEPT !.pc = "over", !.open = s.open, !.lease = s.lease, !.worker = s.worker, !.update = s.update,
                         !.debt = s.debt, !.over = o]
      /\ Alters({"span"}) /\ DOMAIN lf'.span = Lifespans /\ \A m \in Lifespans \ {l} : lf'.span[m] = lf.span[m]
  BY SpanFacts DEF EndLifespan, Alters, LFFields
<1>3. o = "clean" => ~s.debt
  OBVIOUS
<1>4. o \in {"raised", "drain", "clean"}
  OBVIOUS
<1> HIDE DEF s, t, o
<1>5. PICK n, m \in 0..13 : Stands(s, n, m)
  BY <1>1 DEF SpanOK
<1>6. n = 0 /\ s.open = OpenTo(0) /\ s.worker = "none" /\ (s.lease <=> FALSE) /\ (s.update <=> FALSE)
  <2>1. n = 0
    BY <1>1, <1>5, HeldIs DEF Stands
  <2>2. s.worker = "none" /\ ~s.lease /\ ~s.update /\ s.open = OpenTo(0)
    BY <1>5, <2>1 DEF Stands
  <2> QED BY <2>1, <2>2
<1>7. /\ DOMAIN t = SpanFields /\ t.pc = "over" /\ t.open = s.open /\ t.lease = s.lease /\ t.worker = s.worker /\ t.update = s.update
      /\ t.debt = s.debt /\ t.over = o /\ t.fd = 0 /\ t.step = 1 /\ t.stack = << >> /\ t.closed = << >> /\ t.health = "none"
  BY <1>2 DEF NewSpan, SpanFields, NoInode
<1>8. t.cancelled = FALSE /\ t.failed = FALSE
  BY <1>2 DEF NewSpan
<1>9. t.cancelled \in BOOLEAN /\ t.failed \in BOOLEAN
  BY <1>8
<1>10. SpanTypes(t)
  BY <1>1, <1>7, <1>9, LifespanAssumption DEF SpanTypes, Places
<1>11. Held(0) = << >> /\ Shut(0, 0) = << >>
  BY HeldIs DEF Shut
<1>12. Stands(t, 0, 0)
  BY <1>6, <1>7, <1>11 DEF Stands, Claiming
<1>13. SpanOK(t)
  BY <1>3, <1>7, <1>12 DEF SpanOK, Reports
<1>14. LockOK(lf', l)
  BY <1>6, <1>7 DEF LockOK, Locking, t
<1>15. Turns(l, SpanFields)
  BY <1>2, <1>7 DEF Turns, t
<1> QED BY <1>2, <1>10, <1>13, <1>14, <1>15, SpanKeeps DEF t

\* A process is killed: its lifespans hold nothing any more, the others what they held.
LEMMA KillKeeps ==
  ASSUME LFInv, NEW p \in Range(ProcessOf), Kill(p)
  PROVE  LFInv'
<1> DEFINE dead == {l \in Lifespans : ProcessOf[l] = p /\ lf.span[l].pc # "new"}
           gone == [NewSpan EXCEPT !.pc = "over", !.over = "killed"]
<1>1. lf' = [lf EXCEPT !.inode = [i \in 1..MaxInodes |-> [lf.inode[i] EXCEPT !.holder = IF @ \in dead THEN "none" ELSE @]],
                       !.cached[p] = 0,
                       !.span = [l \in Lifespans |-> IF l \notin dead THEN lf.span[l] ELSE gone]]
  BY DEF Kill
<1>2. LFTypes(lf) /\ SecretOK(lf) /\ \A l \in Lifespans : SpanOK(lf.span[l]) /\ LockOK(lf, l)
  BY DEF LFInv
<1>3. /\ DOMAIN gone = SpanFields /\ gone.pc = "over" /\ gone.over = "killed" /\ gone.fd = 0 /\ gone.step = 1
      /\ gone.stack = << >> /\ gone.closed = << >> /\ gone.open = {} /\ gone.health = "none" /\ gone.worker = "none"
  BY DEF NewSpan, SpanFields, NoInode
<1>4. gone.lease = FALSE /\ gone.update = FALSE /\ gone.cancelled = FALSE /\ gone.failed = FALSE /\ gone.debt = FALSE
  BY DEF NewSpan
<1>5. dead \subseteq Lifespans
  OBVIOUS
<1> HIDE DEF dead, gone
<1>6. /\ Alters({"inode", "cached", "span"}) /\ lf'.cached = [lf.cached EXCEPT ![p] = 0]
      /\ lf'.span = [l \in Lifespans |-> IF l \notin dead THEN lf.span[l] ELSE gone]
      /\ lf'.inode = [i \in 1..MaxInodes |-> [lf.inode[i] EXCEPT !.holder = IF lf.inode[i].holder \in dead THEN "none" ELSE lf.inode[i].holder]]
  BY <1>1, <1>2 DEF LFTypes, Alters, LFFields
<1>7. \A i \in 1..MaxInodes : /\ InodeTypes(lf'.inode[i])
                              /\ lf.inode[i].holder \notin dead => lf'.inode[i].holder = lf.inode[i].holder
  <2> SUFFICES ASSUME NEW i \in 1..MaxInodes
               PROVE  /\ InodeTypes(lf'.inode[i])
                      /\ lf.inode[i].holder \notin dead => lf'.inode[i].holder = lf.inode[i].holder
    OBVIOUS
  <2> DEFINE f == lf.inode[i]  h == IF f.holder \in dead THEN "none" ELSE f.holder
  <2>1. lf'.inode[i] = [f EXCEPT !.holder = h] /\ InodeTypes(f)
    BY <1>2, <1>6 DEF LFTypes
  <2>2. h \in Lifespans \cup {"none"} /\ (f.holder \notin dead => h = f.holder)
    BY <2>1 DEF InodeTypes
  <2> HIDE DEF f, h
  <2>3. lf'.inode[i].holder = h /\ InodeTypes(lf'.inode[i])
    BY <2>1, <2>2 DEF InodeTypes
  <2> QED BY <2>2, <2>3 DEF f
<1>8. SpanTypes(gone)
  <2>1. gone.lease \in BOOLEAN /\ gone.update \in BOOLEAN /\ gone.cancelled \in BOOLEAN /\ gone.failed \in BOOLEAN /\ gone.debt \in BOOLEAN
    BY <1>4
  <2> QED BY <1>3, <2>1, LifespanAssumption DEF SpanTypes, Places
<1>9. SpanOK(gone)
  <2>1. Held(0) = << >> /\ Shut(0, 0) = << >> /\ OpenTo(0) = {}
    BY HeldIs, OpenIs DEF Shut
  <2>2. Stands(gone, 0, 0)
    BY <1>3, <1>4, <2>1 DEF Stands, Claiming
  <2>3. Reports(gone)
    BY <1>3 DEF Reports
  <2> QED BY <2>2, <2>3 DEF SpanOK
<1>10. ASSUME NEW l \in Lifespans PROVE SpanTypes(lf'.span[l]) /\ SpanOK(lf'.span[l]) /\ LockOK(lf', l)
  <2>1. CASE l \in dead
    <3>1. lf'.span[l] = gone
      BY <1>6, <2>1
    <3>2. LockOK(lf', l)
      BY <1>3, <1>4, <3>1 DEF LockOK, Locking
    <3> QED BY <1>8, <1>9, <3>1, <3>2
  <2>2. CASE l \notin dead
    <3>1. lf'.span[l] = lf.span[l] /\ lf'.name = lf.name
      BY <1>6, <2>2 DEF Alters, LFFields
    <3>2. ASSUME Locking(lf.span[l]) PROVE lf'.inode[lf.span[l].fd].holder = l
      <4>1. lf.span[l].fd \in 1..MaxInodes /\ lf.inode[lf.span[l].fd].holder = l
        BY <1>2, <3>2 DEF LFTypes, SpanTypes, LockOK
      <4> QED BY <1>7, <2>2, <4>1
    <3>3. LockOK(lf', l)
      BY <1>2, <3>1, <3>2 DEF LockOK
    <3> QED BY <1>2, <3>1, <3>3 DEF LFTypes
  <2> QED BY <2>1, <2>2
<1>11. SecretOK(lf')
  BY <1>2, <1>6 DEF SecretOK, LFTypes, Alters, LFFields
<1>12. DOMAIN lf' = LFFields /\ lf'.name = lf.name /\ lf'.secret = lf.secret /\ lf'.issued = lf.issued /\ lf'.chmods = lf.chmods
  BY <1>6 DEF Alters, LFFields
<1>13. lf'.cached \in [Range(ProcessOf) -> Nat] /\ DOMAIN lf'.span = Lifespans /\ DOMAIN lf'.inode = 1..MaxInodes
  BY <1>2, <1>6 DEF LFTypes
<1>14. LFTypes(lf')
  BY <1>2, <1>7, <1>10, <1>12, <1>13 DEF LFTypes
<1> QED BY <1>10, <1>11, <1>14 DEF LFInv

\* An operator changes the mode of the lock file: nobody loses anything.
LEMMA ChmodKeeps ==
  ASSUME LFInv, Chmod
  PROVE  LFInv'
<1>1. LFTypes(lf) /\ SecretOK(lf) /\ \A l \in Lifespans : SpanOK(lf.span[l]) /\ LockOK(lf, l)
  BY DEF LFInv
<1>2. lf.name \in 1..MaxInodes
  BY <1>1 DEF Chmod, LFTypes, NoInode
<1>3. /\ Alters({"inode", "chmods"}) /\ lf'.chmods = lf.chmods + 1 /\ DOMAIN lf'.inode = 1..MaxInodes
      /\ \A i \in 1..MaxInodes : DOMAIN lf'.inode[i] = DOMAIN lf.inode[i] /\ lf'.inode[i].holder = lf.inode[i].holder
  <2>1. Alters({"inode", "chmods"}) /\ lf'.chmods = lf.chmods + 1 /\ DOMAIN lf'.inode = 1..MaxInodes
    BY <1>1, <1>2 DEF Chmod, LFTypes, Alters, LFFields
  <2>2. \A i \in 1..MaxInodes \ {lf.name} : lf'.inode[i] = lf.inode[i]
    BY <1>1, <1>2 DEF Chmod, LFTypes, LFFields
  <2>3. DOMAIN lf'.inode[lf.name] = DOMAIN lf.inode[lf.name] /\ lf'.inode[lf.name].holder = lf.inode[lf.name].holder
    BY <1>1, <1>2 DEF Chmod, LFTypes, LFFields, InodeTypes
  <2> QED BY <1>2, <2>1, <2>2, <2>3
<1>4. /\ DOMAIN lf' = LFFields /\ lf'.name = lf.name /\ lf'.secret = lf.secret /\ lf'.issued = lf.issued
      /\ lf'.cached = lf.cached /\ lf'.span = lf.span
  BY <1>3 DEF Alters, LFFields
<1>5. \A i \in 1..MaxInodes : InodeTypes(lf'.inode[i])
  BY <1>1, <1>3 DEF LFTypes, InodeTypes
<1>6. LFTypes(lf') /\ SecretOK(lf')
  BY <1>1, <1>3, <1>4, <1>5 DEF LFTypes, SecretOK
<1>7. ASSUME NEW l \in Lifespans PROVE LockOK(lf', l)
  <2>1. ASSUME Locking(lf.span[l]) PROVE lf'.inode[lf.span[l].fd].holder = l
    <3>1. lf.span[l].fd \in 1..MaxInodes /\ lf.inode[lf.span[l].fd].holder = l
      BY <1>1, <2>1 DEF LFTypes, SpanTypes, LockOK
    <3> QED BY <1>3, <3>1
  <2> QED BY <1>1, <1>4, <2>1 DEF LockOK
<1> QED BY <1>1, <1>4, <1>6, <1>7 DEF LFInv

\* The first state.
LEMMA LifespanStarts == LFInit => LFInv
<1> SUFFICES ASSUME LFInit PROVE LFInv
  OBVIOUS
<1>1. /\ DOMAIN lf = LFFields /\ lf.name = 0 /\ lf.secret = 0 /\ lf.issued = 0 /\ lf.chmods = 0
      /\ lf.cached = [p \in Range(ProcessOf) |-> 0] /\ lf.span = [l \in Lifespans |-> NewSpan]
      /\ lf.inode = [i \in 1..MaxInodes |-> [made |-> FALSE, safe |-> TRUE, linked |-> FALSE, holder |-> "none"]]
  BY DEF LFInit, LFFields, NoInode
<1>2. /\ DOMAIN NewSpan = SpanFields /\ NewSpan.pc = "new" /\ NewSpan.over = "no" /\ NewSpan.fd = 0 /\ NewSpan.step = 1
      /\ NewSpan.stack = << >> /\ NewSpan.closed = << >> /\ NewSpan.open = {} /\ NewSpan.health = "none" /\ NewSpan.worker = "none"
  BY DEF NewSpan, SpanFields, NoInode
<1>3. NewSpan.lease = FALSE /\ NewSpan.update = FALSE /\ NewSpan.cancelled = FALSE /\ NewSpan.failed = FALSE /\ NewSpan.debt = FALSE
  BY DEF NewSpan
<1>4. SpanTypes(NewSpan)
  <2>1. NewSpan.lease \in BOOLEAN /\ NewSpan.update \in BOOLEAN /\ NewSpan.cancelled \in BOOLEAN /\ NewSpan.failed \in BOOLEAN /\ NewSpan.debt \in BOOLEAN
    BY <1>3
  <2> QED BY <1>2, <2>1, LifespanAssumption DEF SpanTypes, Places, Claiming
<1>5. SpanOK(NewSpan)
  <2>1. Held(0) = << >> /\ Shut(0, 0) = << >> /\ OpenTo(0) = {}
    BY HeldIs, OpenIs DEF Shut
  <2>2. Stands(NewSpan, 0, 0)
    BY <1>2, <1>3, <2>1 DEF Stands, Claiming
  <2>3. Reports(NewSpan)
    BY <1>2 DEF Reports
  <2> QED BY <2>2, <2>3 DEF SpanOK
<1>6. LFTypes(lf)
  BY <1>1, <1>4, LifespanAssumption DEF LFTypes, InodeTypes
<1>7. SecretOK(lf) /\ \A l \in Lifespans : SpanOK(lf.span[l]) /\ LockOK(lf, l)
  BY <1>1, <1>2, <1>3, <1>5 DEF SecretOK, LockOK, Locking
<1> QED BY <1>6, <1>7 DEF LFInv

\* Every step.
LEMMA LifespanSteps == LFInv /\ [LFNext]_lf => LFInv'
<1> SUFFICES ASSUME LFInv, [LFNext]_lf PROVE LFInv'
  OBVIOUS
<1>1. CASE UNCHANGED lf
  BY <1>1 DEF LFInv, LFTypes, SecretOK, LockOK
<1>2. ASSUME NEW l \in Lifespans, LifespanStep(l) PROVE LFInv'
  BY <1>2, ClaimKeeps, OpenKeeps, LooksKeep, AcquireKeeps, ReplacedKeeps, ReleaseKeeps, LeaseKeeps, SecretKeeps, StartupKeeps,
     DrainKeeps, EndKeeps DEF LifespanStep
<1>3. ASSUME NEW l \in Lifespans, StartWorker(l) \/ EndWorker(l) \/ BeginUpdate(l) \/ EndUpdate(l) \/ Shutdown(l) \/ CancelDrain(l) PROVE LFInv'
  BY <1>3, WorkersKeep, ShutdownKeeps
<1>4. ASSUME NEW p \in Range(ProcessOf), Kill(p) PROVE LFInv'
  BY <1>4, KillKeeps
<1>5. CASE Chmod
  BY <1>5, ChmodKeeps
<1> QED BY <1>1, <1>2, <1>3, <1>4, <1>5 DEF LFNext

-----------------------------------------------------------------------------
(* The theorems.                                                           *)

\* Two lifespans with anything in use would have one lock.
LEMMA AtMostOne == LFInv => OneGateway
<1> SUFFICES ASSUME LFInv PROVE OneGateway
  OBVIOUS
<1> DEFINE Active(l) == lf.span[l].lease \/ lf.span[l].open # {} \/ lf.span[l].worker \in {"thread", "ending"}
<1>1. ASSUME NEW l \in Lifespans, Active(l) PROVE lf.span[l].lease /\ lf.inode[lf.name].holder = l
  <2> DEFINE s == lf.span[l]
  <2>1. SpanOK(s) /\ LockOK(lf, l)
    BY SpanFacts
  <2>2. PICK n, m \in 0..13 : Stands(s, n, m)
    BY <2>1 DEF SpanOK
  <2>3. n > 0
    BY <1>1, <2>2, OpenIs DEF Stands
  <2>4. s.lease
    BY <2>2, <2>3 DEF Stands
  <2> QED BY <2>1, <2>4 DEF LockOK, Locking
<1>2. \A l, m \in Lifespans : Active(l) /\ Active(m) => l = m
  <2> HIDE DEF Active
  <2> QED BY <1>1
<1>3. \A l \in Lifespans : lf.cached[ProcessOf[l]] # 0 => lf.cached[ProcessOf[l]] = lf.secret
  BY SpanFacts DEF LFInv, SecretOK
<1> QED BY <1>2, <1>3 DEF OneGateway

\* What is closed, and in which order.
LEMMA ShutInOrder ==
  ASSUME NEW n \in 0..13, NEW m \in 0..13, n + m <= 13
  PROVE  /\ Cardinality(Range(Shut(n, m))) = Len(Shut(n, m))
         /\ \A j \in 1..Len(Shut(n, m)) : Uses(Shut(n, m)[j]) \cap {Shut(n, m)[i] : i \in 1..j} \subseteq Refusing
<1> DEFINE c == Shut(n, m)  At(j) == n + m + 1 - j
<1>1. c \in Seq(ResourceSet) /\ Len(c) = m /\ \A j \in 1..m : c[j] = Resources[At(j)] /\ At(j) \in 1..13
  <2>1. \A j \in 1..m : At(j) \in 1..13
    OBVIOUS
  <2> QED BY <2>1, ShutIs
<1>2. \A i, j \in 1..m : At(i) = At(j) => i = j
  OBVIOUS
<1>3. \A i, j \in 1..m : i <= j => At(j) <= At(i)
  OBVIOUS
<1> HIDE DEF c, At
<1>4. Cardinality(Range(c)) = m
  <2>1. c \in Surjection(1..m, Range(c))
    BY <1>1 DEF Surjection, Range
  <2>2. c \in Injection(1..m, Range(c))
    <3>1. \A i, j \in 1..m : c[i] = c[j] => i = j
      BY <1>1, <1>2, ResourcesDiffer
    <3> QED BY <1>1, <3>1, <2>1 DEF Injection, IsInjective, Surjection
  <2>3. IsFiniteSet(1..m) /\ Cardinality(1..m) = m
    <3>1. 1 \in Int /\ m \in Int /\ (1 > m => m = 0)
      OBVIOUS
    <3>2. Cardinality(1..m) = IF 1 > m THEN 0 ELSE m - 1 + 1
      BY <3>1, FS_Interval
    <3> QED BY <3>1, <3>2, FS_Interval
  <2> QED BY <2>1, <2>2, <2>3, FS_Surjection
<1>5. ASSUME NEW j \in 1..m PROVE Uses(c[j]) \cap {c[i] : i \in 1..j} \subseteq Refusing
  <2> SUFFICES ASSUME NEW i \in 1..j, c[i] \in Uses(c[j]) \ Refusing PROVE FALSE
    OBVIOUS
  <2>1. i \in 1..m /\ i <= j
    OBVIOUS
  <2>2. At(i) < At(j)
    BY <1>1, <2>1, UsesEarlier
  <2>3. At(j) <= At(i) /\ At(i) \in 1..13 /\ At(j) \in 1..13
    BY <1>1, <1>3, <2>1
  <2> QED BY <2>2, <2>3
<1> QED BY <1>1, <1>4, <1>5 DEF c

\* All resources are what the lease and the steps open.
LEMMA AllOpen == OpenTo(13) = {"lease"} \cup UNION {Opened(Steps[j]) : j \in 1..Len(Steps)}
<1> DEFINE U(k) == {"lease"} \cup UNION {Opened(Steps[j]) : j \in 1..k}
<1>1. OpenTo(Depth[1]) = U(0)
  BY OpenIs, DepthsAre DEF DepthNumbers
<1>2. \A k \in 1..12 : U(k) = U(k - 1) \cup Opened(Steps[k])
  <2> SUFFICES ASSUME NEW k \in 1..12 PROVE U(k) = U(k - 1) \cup Opened(Steps[k])
    OBVIOUS
  <2>1. 1..k = (1..(k - 1)) \cup {k}
    OBVIOUS
  <2> QED BY <2>1
<1> HIDE DEF U
<1>3. \A k \in 1..12 : OpenTo(Depth[k]) = U(k - 1) => OpenTo(Depth[k + 1]) = U(k)
  BY <1>2, StepPushes
<1>4. OpenTo(Depth[13]) = U(12)
  BY <1>1, <1>3
<1> QED BY <1>4, StepsAre, DepthsAre DEF U, DepthNumbers

\* What ended has closed all it opened, in order; what is ready has all open.
LEMMA EndsClean == LFInv => LifespanClean
<1> SUFFICES ASSUME LFInv, NEW l \in Lifespans
             PROVE  LET s == lf.span[l] IN
                    /\ s.over \in {"raised", "drain", "clean"} => s.open = {} /\ ~s.lease /\ s.worker = "none" /\ ~s.update
                    /\ s.over = "clean" => ~s.debt
                    /\ Cardinality(Range(s.closed)) = Len(s.closed)
                    /\ \A j \in 1..Len(s.closed) : Uses(s.closed[j]) \cap {s.closed[i] : i \in 1..j} \subseteq Refusing
                    /\ s.update => {"supervisor", "coordinator"} \cup Uses("coordinator") \subseteq s.open
                    /\ s.health = "ready" => s.pc = "running" /\ s.open = {"lease"} \cup UNION {Opened(Steps[j]) : j \in 1..Len(Steps)}
  BY DEF LifespanClean
<1> DEFINE s == lf.span[l]
<1>1. SpanOK(s)
  BY SpanFacts
<1>2. PICK n, m \in 0..13 : Stands(s, n, m)
  BY <1>1 DEF SpanOK
<1>3. Reports(s)
  BY <1>1 DEF SpanOK
<1> HIDE DEF s
<1>4. ASSUME s.over \in {"raised", "drain", "clean"} PROVE s.open = {} /\ ~s.lease /\ s.worker = "none" /\ ~s.update
  <2>1. n = 0
    BY <1>2, <1>3, <1>4 DEF Stands, Reports
  <2> QED BY <1>2, <2>1, OpenIs DEF Stands
<1>5. s.over = "clean" => ~s.debt
  BY <1>3 DEF Reports
<1>6. /\ Cardinality(Range(s.closed)) = Len(s.closed)
      /\ \A j \in 1..Len(s.closed) : Uses(s.closed[j]) \cap {s.closed[i] : i \in 1..j} \subseteq Refusing
  <2>1. s.closed = Shut(n, m) /\ n + m <= 13
    BY <1>2 DEF Stands
  <2>2. /\ Cardinality(Range(Shut(n, m))) = Len(Shut(n, m))
        /\ \A j \in 1..Len(Shut(n, m)) : Uses(Shut(n, m)[j]) \cap {Shut(n, m)[i] : i \in 1..j} \subseteq Refusing
    BY <2>1, ShutInOrder
  <2> QED BY <2>1, <2>2
<1>7. s.health = "ready" => s.pc = "running" /\ s.open = {"lease"} \cup UNION {Opened(Steps[j]) : j \in 1..Len(Steps)}
  BY <1>2, <1>3, AllOpen DEF Stands, Reports
<1>8. s.update => {"supervisor", "coordinator"} \cup Uses("coordinator") \subseteq s.open
  <2>1. s.open = OpenTo(n) /\ (s.update => n >= 11)
    BY <1>2 DEF Stands
  <2>2. n >= 11 => {"supervisor", "coordinator"} \cup Uses("coordinator") \subseteq OpenTo(n)
    BY CoordinatorLate
  <2> QED BY <2>1, <2>2
<1> QED BY <1>4, <1>5, <1>6, <1>7, <1>8 DEF s

\* At most one gateway uses the state directory, whatever becomes of the lock file
\* and of the processes; and however a lifespan ended it has closed all it opened,
\* each thing before the things it uses, the coordinator excepted, which refuses
\* from then on and which no update is in when it goes (SingleProcessLease.acquire,
\* lifespan and _drain_resource_stack in main.py, ConfigUpdateCoordinator.close).
THEOREM LifespanAlwaysSafe == LFSpec => []LifespanSafe
<1>1. LFInv => LifespanSafe
  BY AtMostOne, EndsClean DEF LifespanSafe
<1> QED BY <1>1, LifespanStarts, LifespanSteps, PTL DEF LFSpec

=============================================================================
