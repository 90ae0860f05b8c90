----------------------------- MODULE ImageVolume -----------------------------
(***************************************************************************)
(* The volume of generated images.  The gateway publishes images into it    *)
(* and its retention removes old ones (services/image_storage.py,           *)
(* image_retention.py); the offline tool fills an empty volume from a       *)
(* backup or an old tree and writes backups (image_storage_cli.py with its  *)
(* archive, copy and inventory parts).  The machine may stop at any moment; *)
(* what was not synced is then kept or lost, each directory entry by itself. *)
(***************************************************************************)
EXTENDS Naturals, FiniteSets

CONSTANTS Images,          \* the names images may have
          Nested,          \* those of a research, in a directory of their own
          Backup,          \* the images of the backup that is restored
          Backups,         \* the backup processes that write to one destination
          VolumeFaults        \* bound: failed operations and crashes

ASSUME VolumeAssumption == /\ Nested \subseteq Images /\ Backup \subseteq Images /\ Backup # {}
                           /\ "none" \notin Backups /\ VolumeFaults \in Nat

VARIABLE im    \* img, dimg: the images as seen and as durable; dir: the research directory; behind: the volumes that may
               \* be there after a crash while the entry "images" is not synced; marker, dmarker: the restore marker;
               \* gw: the gateway; lock: of the storage; pub, ret, cli, bk: the publisher, the retention, the restore, the
               \* backups; pair: what is at the backup's destination, dirty: a backup that left it was reported or stopped;
               \* acked: images whose publication was reported, shaky: those below an entry that could not be synced

Gone == [n \in Images |-> "gone"]                          \* the images directory does not exist
Empty == [n \in Images |-> "none"]
Whole == [n \in Images |-> IF n \in Backup THEN "fresh" ELSE "none"]
NoPub == [pc |-> "idle", name |-> CHOOSE n \in Images : TRUE, temp |-> FALSE, out |-> "none"]
NoBackup == [pc |-> "idle", seen |-> {}]
IMInit == im = [img |-> Empty, dimg |-> Empty, dir |-> "none", behind |-> {}, marker |-> FALSE, dmarker |-> FALSE,
                gw |-> "off", lock |-> "free", pub |-> NoPub, ret |-> [pc |-> "idle", todo |-> {}, stale |-> {}],
                cli |-> [pc |-> "idle", copied |-> {}, began |-> FALSE, unsynced |-> FALSE],
                bk |-> [b \in Backups |-> NoBackup], pair |-> [archive |-> "none", manifest |-> "none"], dirty |-> FALSE,
                acked |-> {}, shaky |-> {}, faults |-> 0]
InPlace(v) == {n \in Images : v[n] \in {"fresh", "stale"}}
PresentImages == InPlace(im.img)
Faulty == im.faults < VolumeFaults
Faulted(c) == [c EXCEPT !.faults = @ + 1]
\* os.fsync of the images directory: its own entries, and whether the research directory is one of them.
SyncRoot(c) ==
  [c EXCEPT !.dimg = [n \in Images |-> IF n \in Nested /\ c.dir # "none" THEN @[n] ELSE c.img[n]],
            !.dir = IF @ = "none" THEN @ ELSE "durable", !.shaky = IF c.behind = {} THEN {} ELSE @]

-----------------------------------------------------------------------------
(* The gateway.                                                            *)

\* The start refuses a volume whose restore is not complete, and its probe syncs the images directory.
StartGateway ==
  /\ im.gw = "off" /\ im.cli.pc = "idle" /\ ~im.marker /\ im.img # Gone
  /\ im' = [SyncRoot(im) EXCEPT !.gw = "on", !.cli.began = FALSE, !.cli.unsynced = FALSE]
StopGateway == im.gw = "on" /\ im.pub.pc = "idle" /\ im.ret.pc = "idle" /\
  im' = [im EXCEPT !.gw = "off", !.pub = [NoPub EXCEPT !.temp = im.pub.temp]]

PublishEnds(c, out) == [c EXCEPT !.lock = "free", !.pub.pc = "idle", !.pub.out = out]
OpenTemp(c) == [c EXCEPT !.pub.pc = "temp", !.pub.temp = TRUE]
\* publish_png under the lock; the directory of a research is made for its first image.
PublishBegins(n) ==
  /\ im.gw = "on" /\ im.pub.pc = "idle" /\ im.lock = "free" /\ im.img[n] = "none"        \* names are random
  /\ LET c == [im EXCEPT !.lock = "pub", !.pub = [pc |-> "mkdir", name |-> n, temp |-> @.temp, out |-> "none"]] IN
     IF n \in Nested /\ im.dir = "none" THEN im' = [c EXCEPT !.dir = "made"]
     ELSE im' = OpenTemp(c)

\* mutant: the new directory is not synced into the images directory
MakeUnsynced == im.pub.pc = "mkdir" /\ im' = OpenTemp(im)

\* The new directory is synced into the images directory. When that fails, or mkdir
\* itself, the caller gets an error; the next one finds the directory and goes on.
SyncParent ==
  /\ im.pub.pc = "mkdir"
  /\ \/ im' = OpenTemp(SyncRoot(im))
     \/ Faulty /\ \E dir \in {"none", "unsure"} : im' = Faulted(PublishEnds([im EXCEPT !.dir = dir], "error"))
\* A step before the rename fails: the temporary file is removed (_cleanup_names).
TempFails ==
  /\ im.pub.pc = "temp" /\ Faulty
  /\ \E cleaned \in BOOLEAN : im' = Faulted(PublishEnds([im EXCEPT !.pub.temp = ~cleaned], "error"))

\* mutant: the image is reported before its directory entry is durable
ReplaceUnsynced ==
  /\ im.pub.pc = "temp"
  /\ LET c == [im EXCEPT !.img[im.pub.name] = "fresh", !.pub.temp = FALSE, !.acked = @ \cup {im.pub.name}] IN im' = PublishEnds(c, "ok")

\* os.replace; an error of it is looked into: the target may be in place all the same.
Replace ==
  /\ im.pub.pc = "temp"
  /\ LET c == [im EXCEPT !.img[im.pub.name] = "fresh", !.pub.temp = FALSE] IN
     \/ im' = [c EXCEPT !.pub.pc = "sync"]
     \/ Faulty /\ im' = Faulted(PublishEnds(c, "uncertain"))
\* The directory is synced, and only then the image is reported; the entry of the
\* directory itself is not looked at again.
Firm(n) == im.behind = {} /\ (n \in Nested => im.dir # "unsure")
SyncDirectory ==
  /\ im.pub.pc = "sync"
  /\ LET n == im.pub.name
         c == IF n \notin Nested THEN SyncRoot(im)
              ELSE [im EXCEPT !.dimg = [m \in Images |-> IF m \in Nested THEN im.img[m] ELSE @[m]]] IN
     \/ im' = PublishEnds([c EXCEPT !.acked = @ \cup {n}, !.shaky = IF Firm(n) THEN @ ELSE @ \cup {n}], "ok")
     \/ Faulty /\ im' = Faulted(PublishEnds(im, "uncertain"))

\* ImageRetentionService.run: under the lock, each file looked at and then removed.
RetentionBegins ==
  /\ im.gw = "on" /\ im.ret.pc = "idle" /\ im.lock = "free"
  /\ im' = [im EXCEPT !.lock = "ret", !.ret = [pc |-> "run", todo |-> Images, stale |-> {}]]
Look(n) == im.ret.pc = "run" /\ n \in im.ret.todo /\
  im' = [im EXCEPT !.ret.todo = @ \ {n}, !.ret.stale = IF im.img[n] = "stale" THEN {n} ELSE {}, !.ret.pc = "delete"]
Delete ==
  /\ im.ret.pc = "delete"
  /\ LET c == [im EXCEPT !.ret = [@ EXCEPT !.pc = IF im.ret.todo = {} THEN "end" ELSE "run", !.stale = {}]] IN
     \/ im' = [c EXCEPT !.img = [n \in Images |-> IF n \in im.ret.stale THEN "none" ELSE @[n]]]
     \/ Faulty /\ im.ret.stale # {} /\ im' = Faulted(c)
\* A left temporary file is removed once it is old, and an empty research directory, unless that fails.
RetentionEnds ==
  /\ im.ret.pc = "end"
  /\ \E old, removed \in BOOLEAN :
       /\ removed => im.dir # "none" /\ PresentImages \cap Nested = {} /\ (im.pub.temp => old)
       /\ im' = [im EXCEPT !.ret.pc = "idle", !.lock = "free", !.pub.temp = @ /\ ~old, !.dir = IF removed THEN "none" ELSE @]
\* Time passes: what was published is past its retention.
Age(n) ==
  /\ im.img[n] = "fresh" /\ im.pub.pc = "idle"
  /\ im' = [im EXCEPT !.img[n] = "stale", !.dimg[n] = IF @ = "fresh" THEN "stale" ELSE @, !.acked = @ \ {n}, !.shaky = @ \ {n}]

-----------------------------------------------------------------------------
(* restore and migrate, the gateway being stopped.                         *)

ToolIdle == im.gw = "off" /\ im.cli.pc = "idle"
\* _recover_completed_publication: the marker of a restore that was finished is cleared;
\* whether its rename was ever synced is not known.
RecoverPublication ==
  /\ ToolIdle /\ im.marker /\ PresentImages = Backup
  /\ im' = [im EXCEPT !.cli.pc = "clear", !.cli.unsynced = im.behind # {}]
\* Otherwise the target must be empty, and anything else is refused; a missing one is made, and not synced.
TargetEmpty == PresentImages = {} /\ ~im.pub.temp /\ im.dir = "none"
Restore ==
  /\ ToolIdle /\ TargetEmpty
  /\ LET c == [im EXCEPT !.cli.pc = "mark", !.cli.copied = {}] IN
     im' = IF im.img = Gone THEN [c EXCEPT !.img = Empty, !.dimg = Empty, !.behind = @ \cup {Gone}] ELSE c
\* _create_incomplete_marker, durable before anything is written; it may fail with the marker in sight.
Mark ==
  /\ im.cli.pc = "mark"
  /\ \/ im' = [im EXCEPT !.marker = TRUE, !.dmarker = TRUE, !.behind = {}, !.cli.pc = "copy", !.cli.began = TRUE,
                         !.cli.unsynced = FALSE]
     \/ Faulty /\ \E seen \in BOOLEAN : im' = Faulted([im EXCEPT !.marker = @ \/ seen, !.cli.pc = "idle"])
\* _copy_stream into the staging directory.
Copy == im.cli.pc = "copy" /\ \E n \in Backup \ im.cli.copied : im' = [im EXCEPT !.cli.copied = @ \cup {n}]
\* _verify_and_publish: the staging directory takes the place of the empty one.
Verify == im.cli.pc = "copy" /\ im.cli.copied = Backup /\ im' = [im EXCEPT !.cli.pc = "rmdir", !.cli.copied = {}]
\* What a crash may show of the entries below the images directory.
Kept == {[n \in Images |-> IF n \in seen THEN im.img[n] ELSE im.dimg[n]] : seen \in SUBSET Images}
RemoveEmpty == im.cli.pc = "rmdir" /\ im' = [im EXCEPT !.img = Gone, !.dimg = Gone, !.behind = @ \cup Kept, !.cli.pc = "rename"]
\* os.replace; what it put there is synced, the entry itself is not.
Rename == im.cli.pc = "rename" /\
  im' = [im EXCEPT !.img = Whole, !.dimg = Whole, !.dir = IF Backup \cap Nested = {} THEN "none" ELSE "durable",
                   !.behind = @ \cup {Gone}, !.cli.pc = "sync"]

\* mutant: the marker is cleared though the rename could not be synced
SyncLoosely == im.cli.pc = "sync" /\
  (im' = [im EXCEPT !.behind = {}, !.cli.pc = "clear"] \/ (Faulty /\ im' = Faulted([im EXCEPT !.cli.pc = "clear"])))

\* The rename is synced before the marker is cleared; when that fails the marker stays.
SyncOutputs ==
  /\ im.cli.pc = "sync"
  /\ \/ im' = [im EXCEPT !.behind = {}, !.cli.pc = "clear"]
     \/ Faulty /\ im' = Faulted([im EXCEPT !.cli.pc = "idle"])
\* _clear_incomplete_marker: the marker is removed, and then that is synced; when the
\* sync fails the marker is put back, which may fail as well.
ClearMarker ==
  /\ im.cli.pc = "clear"
  /\ \/ im' = [im EXCEPT !.marker = FALSE, !.cli.pc = "swept"]
     \/ Faulty /\ im' = Faulted([im EXCEPT !.cli.pc = "idle"])
Synced(marker) == [im EXCEPT !.marker = marker, !.dmarker = marker, !.behind = {}, !.cli.pc = "idle", !.cli.unsynced = FALSE]
SyncMarker ==
  /\ im.cli.pc = "swept"
  /\ \/ im' = Synced(FALSE)
     \/ Faulty /\ im' = Faulted(Synced(TRUE))
     \/ Faulty /\ \E back \in BOOLEAN : im' = Faulted([im EXCEPT !.marker = back, !.cli.pc = "idle"])
\* A step before that fails: the staging directory is removed, the marker stays.
RestoreFails == im.cli.pc \in {"copy", "rmdir", "rename"} /\ Faulty /\ im' = Faulted([im EXCEPT !.cli.pc = "idle", !.cli.copied = {}])

-----------------------------------------------------------------------------
(* backup, beside a running gateway and beside other backups.              *)

\* build_inventory of a volume without a marker, for new destinations.
Inventory(b) ==
  /\ im.bk[b].pc = "idle" /\ im.cli.pc = "idle" /\ ~im.marker /\ im.img # Gone /\ im.pair = [archive |-> "none", manifest |-> "none"]
  /\ im' = [im EXCEPT !.bk[b] = [pc |-> "write", seen |-> PresentImages]]
\* _write_archive: a file that changed since is noticed.
Archive(b) ==
  /\ im.bk[b].pc = "write"
  /\ im' = [im EXCEPT !.bk[b] = IF @.seen \subseteq PresentImages THEN [pc |-> "archive", seen |-> {}]
                                ELSE NoBackup]
\* What was linked is unlinked again; an unlink that fails leaves its name there, and is reported.
Roll(b, left) ==
  [im EXCEPT !.bk[b] = NoBackup, !.dirty = @ \/ left # {},
             !.pair.archive = IF @ = b /\ "archive" \notin left THEN "none" ELSE @,
             !.pair.manifest = IF @ = b /\ "manifest" \notin left THEN "none" ELSE @]
RollFails(b) == Faulty /\ \E left \in SUBSET {f \in {"archive", "manifest"} : im.pair[f] = b} : im' = Faulted(Roll(b, left))

\* _link_staged_artifact never replaces.
Link(b, field) ==
  \/ im.pair[field] = "none" /\ im' = [im EXCEPT !.pair[field] = b, !.bk[b].pc = IF field = "archive" THEN "manifest" ELSE "done"]
  \/ im.pair[field] # "none" /\ im' = Roll(b, {})
  \/ RollFails(b)
\* The staged names are removed last, and a failure of that takes the pair back too.
PublishPair(b) ==
  \/ im.bk[b].pc = "archive" /\ Link(b, "archive")
  \/ im.bk[b].pc = "manifest" /\ Link(b, "manifest")
  \/ im.bk[b].pc = "done" /\ (im' = [im EXCEPT !.bk[b] = NoBackup] \/ RollFails(b))

-----------------------------------------------------------------------------
\* A directory that was not synced may be lost with its files.
Lost(v) == [n \in Images |-> IF n \in Nested /\ im.img[n] # "none" THEN "none" ELSE v[n]]
Remains == Kept \cup im.behind \cup (IF im.dir \in {"made", "unsure"} THEN {Lost(v) : v \in Kept} ELSE {})
Unfinished(b) == b \in Backups /\ im.bk[b].pc \in {"manifest", "done"}
\* The machine stops: each of the entries is as it was seen or as it was durable.
MachineCrash ==
  /\ Faulty
  /\ \E img \in Remains, marker \in {im.marker, im.dmarker}, lost \in SUBSET {"archive", "manifest"} :
       im' = Faulted([im EXCEPT
         !.img = img, !.dimg = img, !.behind = {}, !.marker = marker, !.dmarker = marker, !.gw = "off", !.lock = "free",
         !.dir = IF InPlace(img) \cap Nested # {} \/ (@ = "durable" /\ im.behind = {}) THEN "durable" ELSE "none",
         !.acked = {n \in @ : n \in im.shaky => img[n] = "fresh"}, !.shaky = {},
         !.pub = [NoPub EXCEPT !.temp = im.pub.temp], !.ret = [pc |-> "idle", todo |-> {}, stale |-> {}],
         !.cli = [@ EXCEPT !.pc = "idle", !.copied = {}], !.bk = [b \in Backups |-> NoBackup],
         !.dirty = @ \/ \E b \in Backups : Unfinished(b),
         !.pair.archive = IF "archive" \in lost /\ Unfinished(@) THEN "none" ELSE @,
         !.pair.manifest = IF "manifest" \in lost /\ Unfinished(@) THEN "none" ELSE @])

GatewayStep ==
  \/ StartGateway \/ StopGateway \/ SyncParent \/ TempFails \/ Replace \/ SyncDirectory \/ RetentionBegins \/ Delete \/ RetentionEnds
  \/ \E n \in Images : PublishBegins(n) \/ Look(n) \/ Age(n)
RestoreStep ==
  \/ RecoverPublication \/ Restore \/ Mark \/ Copy \/ Verify \/ RemoveEmpty \/ Rename \/ SyncOutputs \/ ClearMarker \/ SyncMarker
  \/ RestoreFails
IMNext == GatewayStep \/ RestoreStep \/ (\E b \in Backups : Inventory(b) \/ Archive(b) \/ PublishPair(b)) \/ MachineCrash
IMSpec == IMInit /\ [][IMNext]_im

-----------------------------------------------------------------------------
\* An image whose publication was reported is in place and durable until its
\* retention is over, whatever the retention removes and wherever the machine
\* stops (publish_png); only a crash while the entry of its directory is one that
\* an earlier call was told could not be synced may take it. A publication that
\* failed without doubt left no image; and the archive and the manifest at a
\* backup's destination come from one backup (publish_artifact_pair), unless the
\* machine stopped or a failed clean-up was reported in between.
ImagesKept ==
  /\ \A n \in im.acked : im.img[n] = "fresh" /\ im.dimg[n] = "fresh"
  /\ im.pub.out = "error" /\ im.pub.pc = "idle" => im.img[im.pub.name] = "none"
  /\ ~im.dirty /\ (\A b \in Backups : im.bk[b].pc = "idle") => im.pair.archive = im.pair.manifest

\* A gateway starts on a volume into which a restore began only when it has every
\* image of the backup, wherever the restore failed or the machine stopped
\* (_verify_and_publish, _clear_incomplete_marker). The code has one exception,
\* cli.unsynced: a second call found the publication finished, cleared the marker
\* of a rename that was never synced, and the machine stopped before the next sync.
RestoreWhole == [][StartGateway /\ im.cli.began /\ ~im.cli.unsynced => Backup \subseteq PresentImages]_im
=============================================================================
