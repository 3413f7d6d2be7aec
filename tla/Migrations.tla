------------------------------ MODULE Migrations ------------------------------
(***************************************************************************)
(* The start of a relay on an SQLite database: upgrade_db reads             *)
(* user_version and runs the scripts that lead from it to DB_VERSION.  A    *)
(* script given to execute_batch commits statement by statement, and a      *)
(* crash between two of them leaves what was done; 5 -> 6, 11 -> 12 and     *)
(* 15 -> 16 are transactions and one statement here.                       *)
(*                                                                         *)
(* A database has a past: earlier releases of the relay brought it to their *)
(* own versions with the same scripts and served from it, hiding events     *)
(* that were deleted, before this release was installed.                   *)
(*                                                                         *)
(* A statement is a record [do, on, version]: what it does, the schema      *)
(* items (tables, added columns, indexes) that it is about, and the         *)
(* user_version that it sets, or 0.                                        *)
(***************************************************************************)
EXTENDS Integers, Sequences, FiniteSets

CONSTANTS
  Rows,        \* events in the old database: [id, slot, created_at]; the events of
               \* one author and replaceable kind share a slot, slot 0 is no slot
  Releases,    \* the DB_VERSIONs of the releases that are run on a database
  MaxCrashes

DB_VERSION == 19

ASSUME MigrationsAssumption ==
  MaxCrashes \in Nat /\ DB_VERSION \in Releases /\ Releases \subseteq 1..DB_VERSION

-------------------------------------------------------------------------------
(* The scripts *)

Create(items)     == [do |-> "create", on |-> items, version |-> 0] \* IF NOT EXISTS
CreateNew(item)   == [do |-> "add", on |-> {item}, version |-> 0]   \* fails if it exists
AddColumn(column) == [do |-> "add", on |-> {column}, version |-> 0]
Drop(items)       == [do |-> "drop", on |-> items, version |-> 0]   \* IF EXISTS
Version(n)        == [do |-> "version", on |-> {}, version |-> n]
Data(work)        == [do |-> work, on |-> {}, version |-> 0]
Atomically(work, n) == [do |-> work, on |-> {}, version |-> n]

\* INIT_SQL: the version is set before anything is created.
INIT_SQL == <<
  Version(DB_VERSION),
  Create({"event", "hidden", "delegated_by", "expires_at"}),
  Create({"event_hash_index"}), Create({"author_index"}), Create({"kind_index"}),
  Create({"created_at_index"}), Create({"delegated_by_index"}),
  Create({"event_composite_index"}), Create({"kind_author_index"}),
  Create({"kind_created_at_index"}), Create({"author_created_at_index"}),
  Create({"author_kind_index"}), Create({"event_expiration"}),
  Create({"tag", "tag.value_hex", "tag.kind"}),
  Create({"tag_val_index"}), Create({"tag_composite_index"}),
  Create({"tag_name_eid_index"}), Create({"tag_covering_index"}),
  Create({"user_verification"}), Create({"user_verification_name_index"}),
  Create({"user_verification_event_index"}),
  Create({"account"}), Create({"user_pubkey_index"}),
  Create({"invoice"}), Create({"invoice_pubkey_index"}),
  Create({"name_claims"}), Create({"name_claims_pubkey_index"}),
  Create({"name_claims_active_pubkey"}) >>

mig_1_to_2 == << AddColumn("hidden"), Data("show_all"), Version(2) >>
mig_2_to_3 == << Create({"tag", "tag.value_hex"}), Version(3), Data("copy_refs") >>
mig_3_to_4 == << Create({"user_verification"}), Create({"user_verification_name_index"}),
                 Create({"user_verification_event_index"}), Version(4) >>
mig_4_to_5 == << Drop({"event_ref"}), Drop({"pubkey_ref"}), Version(5) >>
mig_5_to_6 == << Atomically("split_tags", 6) >>
mig_6_to_7 == << AddColumn("delegated_by"), Create({"delegated_by_index"}), Version(7) >>
mig_7_to_8 == << Drop({"created_at_index"}), Drop({"kind_index"}),
                 Create({"event_composite_index"}), Version(8) >>
mig_8_to_9 == << Create({"created_at_index"}), Create({"event_composite_index"}),
                 Version(9) >>
mig_9_to_10  == << Create({"tag_composite_index"}), Version(10) >>
mig_10_to_11 == << Create({"tag_name_eid_index"}), Version(11) >>
mig_11_to_12 == << Atomically("hide_superseded", 12) >>
mig_12_to_13 == << Create({"kind_author_index"}), Version(13) >>
mig_13_to_14 == << Create({"kind_index"}), Create({"kind_created_at_index"}), Version(14) >>
mig_14_to_15 == << Create({"author_created_at_index"}), Create({"author_kind_index"}),
                   Version(15), Data("delete_hidden") >>
mig_15_to_16 == << Atomically("text_tags", 16) >>
mig_16_to_17 == << AddColumn("expires_at"), Create({"event_expiration"}), Version(17) >>

\* Mutant: the tables are created without IF NOT EXISTS.
mig_17_to_18_notIdempotent ==
  << CreateNew("invoice"), Create({"invoice_pubkey_index"}), CreateNew("account"),
     Create({"account_pubkey_index"}), Version(18) >>

mig_17_to_18 == << Create({"invoice"}), Create({"invoice_pubkey_index"}),
                   Create({"account"}), Create({"account_pubkey_index"}), Version(18) >>

\* Mutant: the version is set first, as INIT_SQL does.
mig_18_to_19_versionFirst ==
  << Version(19), Create({"name_claims"}), Create({"name_claims_pubkey_index"}),
     Create({"name_claims_active_pubkey"}) >>

mig_18_to_19 == << Create({"name_claims"}), Create({"name_claims_pubkey_index"}),
                   Create({"name_claims_active_pubkey"}), Version(19) >>

Upgrades == << mig_1_to_2, mig_2_to_3, mig_3_to_4, mig_4_to_5, mig_5_to_6, mig_6_to_7,
               mig_7_to_8, mig_8_to_9, mig_9_to_10, mig_10_to_11, mig_11_to_12,
               mig_12_to_13, mig_13_to_14, mig_14_to_15, mig_15_to_16, mig_16_to_17,
               mig_17_to_18, mig_18_to_19 >>

Script(v) == IF v = 0 THEN INIT_SQL ELSE Upgrades[v]

\* mig_init returns DB_VERSION, mig_v_to_w returns w.
Reached(v) == IF v = 0 THEN DB_VERSION ELSE v + 1

-------------------------------------------------------------------------------
(* What a statement does to a database [version, items, tags, rows]: tags says  *)
(* how the tag table was filled, rows[r] is the column hidden of event r.        *)

\* Mutant: the oldest version of a replaceable event is kept.
Kept_oldest(slot, rows) ==
  CHOOSE r \in DOMAIN rows : /\ r.slot = slot
                             /\ \A q \in DOMAIN rows :
                                  q.slot = slot => q.created_at >= r.created_at

\* ORDER BY created_at DESC LIMIT 1, among the hidden events too.
Kept(slot, rows) ==
  CHOOSE r \in DOMAIN rows : /\ r.slot = slot
                             /\ \A q \in DOMAIN rows :
                                  q.slot = slot => q.created_at <= r.created_at

RowsAfter(s, rows) ==
  CASE s.do = "show_all" -> [r \in DOMAIN rows |-> "false"]
    [] s.do = "hide_superseded" ->
         [r \in DOMAIN rows |->
            IF rows[r] = "false" /\ r.slot # 0 /\ r # Kept(r.slot, rows)
            THEN "true" ELSE rows[r]]
    [] s.do = "delete_hidden" ->
         [r \in {q \in DOMAIN rows : rows[q] # "true"} |-> rows[r]]
    [] OTHER -> rows

\* 15 -> 16 drops the tag table, and its indexes with it, and makes it anew.
NewTagTable == {"tag", "tag.kind", "tag_val_index", "tag_composite_index",
                "tag_name_eid_index", "tag_covering_index"}
OldTagTable == {"tag.value_hex"}

ItemsAfter(s, items) ==
  CASE s.do \in {"create", "add"} -> items \cup s.on
    [] s.do = "drop"              -> items \ s.on
    [] s.do = "text_tags"         -> (items \ OldTagTable) \cup NewTagTable
    [] OTHER                      -> items

TagsAfter(s, tags) ==
  CASE s.do = "copy_refs"  -> "refs"
    [] s.do = "split_tags" -> "split"
    [] s.do = "text_tags"  -> "text"
    [] OTHER               -> tags

Fails(s, db) == s.do = "add" /\ s.on \subseteq db.items

After(s, db) ==
  [version |-> IF s.version = 0 THEN db.version ELSE s.version,
   items |-> ItemsAfter(s, db.items),
   tags |-> TagsAfter(s, db.tags),
   rows |-> RowsAfter(s, db.rows)]

-------------------------------------------------------------------------------
VARIABLES
  db,           \* on disk
  pc,           \* "down", "migrating", "serving" or "panicked"
  curr_version, \* upgrade_db's variable
  next,         \* the next statement of the script for curr_version
  release,      \* DB_VERSION of the release that is installed
  crashes,
  interrupted,  \* history: versions whose scripts a crash cut in two
  original,     \* history: the events of the database before any upgrade
  hiddenBefore  \* history: the events that an earlier release hid while it served

upgradeVars ==
  <<db, pc, curr_version, next, release, crashes, interrupted, original, hiddenBefore>>

\* A file that has just been created, one of the first release, whose schema is
\* known from what the scripts take for granted, and one of a later release.
NewDb   == [version |-> 0, items |-> {}, tags |-> "text", rows |-> << >>]
FirstDb(rows) ==
  [version |-> 1, tags |-> "none", rows |-> [r \in rows |-> "null"],
   items |-> {"event", "event_hash_index", "author_index", "created_at_index",
              "kind_index", "event_ref", "pubkey_ref"}]
LaterDb == [NewDb EXCEPT !.version = DB_VERSION + 1]

UpgradeInit ==
  /\ \/ db \in {NewDb, LaterDb} /\ release = DB_VERSION
     \/ db \in {FirstDb(rows) : rows \in SUBSET Rows} /\ release \in Releases
  /\ hiddenBefore = {}
  /\ pc = "down" /\ curr_version = 0 /\ next = 1
  /\ crashes = 0 /\ interrupted = {}
  /\ original = DOMAIN db.rows

\* curr_db_version, and the comparison with the release's DB_VERSION.
start ==
  /\ pc = "down"
  /\ curr_version' = db.version
  /\ next' = 1
  /\ pc' = CASE db.version < release -> "migrating"
             [] db.version = release -> "serving"
             [] OTHER                -> "panicked"
  /\ UNCHANGED <<db, release, crashes, interrupted, original, hiddenBefore>>

\* One statement; after the last one of a script the next script begins.
migrate ==
  LET script == Script(curr_version)
      s      == script[next]
  IN  /\ pc = "migrating"
      /\ ~Fails(s, db)
      /\ db' = After(s, db)
      /\ IF next < Len(script)
         THEN next' = next + 1 /\ UNCHANGED <<curr_version, pc>>
         ELSE /\ next' = 1
              /\ curr_version' = Reached(curr_version)
              /\ pc' = IF Reached(curr_version) = release THEN "serving" ELSE pc
      /\ UNCHANGED <<release, crashes, interrupted, original, hiddenBefore>>

\* "database could not be upgraded"
panic ==
  /\ pc = "migrating"
  /\ Fails(Script(curr_version)[next], db)
  /\ pc' = "panicked"
  /\ UNCHANGED <<db, curr_version, next, release, crashes, interrupted, original, hiddenBefore>>

\* The process is killed, or ends on its own.
crash ==
  /\ pc \in {"migrating", "serving"} /\ crashes < MaxCrashes
  /\ pc' = "down"
  /\ crashes' = crashes + 1
  /\ interrupted' = interrupted \cup (IF pc = "migrating" /\ next > 1
                                      THEN {curr_version} ELSE {})
  /\ UNCHANGED <<db, curr_version, next, release, original, hiddenBefore>>

restart ==
  /\ pc = "panicked"
  /\ pc' = "down"
  /\ UNCHANGED <<db, curr_version, next, release, crashes, interrupted, original, hiddenBefore>>

\* An earlier release, with the column hidden, is asked to delete event r, or gets a
\* newer version of it, and hides its row.
hide_event(r) ==
  /\ pc = "serving" /\ db.version \in 2..(DB_VERSION - 1)
  /\ r \in DOMAIN db.rows /\ db.rows[r] = "false"
  /\ db' = [db EXCEPT !.rows[r] = "true"]
  /\ hiddenBefore' = hiddenBefore \cup {r}
  /\ UNCHANGED <<pc, curr_version, next, release, crashes, interrupted, original>>

\* The relay is stopped, and started again with the program of a later release.
install(n) ==
  /\ pc \in {"down", "serving"} /\ n > release
  /\ release' = n
  /\ pc' = "down"
  /\ UNCHANGED <<db, curr_version, next, crashes, interrupted, original, hiddenBefore>>

UpgradeNext ==
  \/ start \/ migrate \/ panic \/ crash \/ restart
  \/ \E r \in Rows : hide_event(r)
  \/ \E n \in Releases : install(n)

UpgradeSpec == UpgradeInit /\ [][UpgradeNext]_upgradeVars

-------------------------------------------------------------------------------
(* Properties. *)

\* What the relay's statements name: tables, columns, and the indexes that
\* override_index forces on queries.
Required ==
  {"event", "hidden", "delegated_by", "expires_at", "tag", "tag.kind",
   "user_verification", "account", "invoice", "name_claims",
   "name_claims_active_pubkey", "event_hash_index", "kind_created_at_index",
   "author_index", "author_kind_index", "author_created_at_index"}

\* The scripts are run in order, and the version on disk is the one whose script
\* upgrade_db is running or the one that this script leads to.
UpgradeOK ==
  /\ db.version \in 0..(DB_VERSION + 1)
  /\ pc \in {"down", "migrating", "serving", "panicked"}
  /\ release \in Releases
  /\ pc = "migrating" => /\ curr_version \in 0..(release - 1)
                         /\ next \in 1..Len(Script(curr_version))
                         /\ db.version \in {curr_version, Reached(curr_version)}
  /\ crashes \in 0..MaxCrashes

\* This release serves only from a database with everything that its statements name
\* and with a tag table in the current form, however often the upgrade was cut
\* short on the way; the one exception is the creation of a new database, which
\* is not resumed once INIT_SQL has set the version.
ServesComplete ==
  /\ UpgradeOK
  /\ pc = "serving" /\ release = DB_VERSION /\ 0 \notin interrupted
       => Required \subseteq db.items /\ db.tags = "text"

\* 14 -> 15 deletes the hidden events, and 11 -> 12 hides the old versions of
\* replaceable ones: what an upgrade takes from a database is what a release had
\* hidden while it served and, of each slot, events that one at least as new
\* supersedes, which is shown or was itself hidden by a release.  (11 -> 12 counts
\* the hidden events too: when the newest version was deleted, the one before it,
\* still shown, is hidden and then deleted.)
OnlySupersededLost ==
  \A r \in original :
    (r \notin DOMAIN db.rows \/ db.rows[r] = "true") =>
      \/ r \in hiddenBefore
      \/ \E q \in original :
           /\ q.slot = r.slot /\ q.slot # 0 /\ q.created_at >= r.created_at
           /\ q \in hiddenBefore \/ (q \in DOMAIN db.rows /\ db.rows[q] # "true")

\* Start-up fails for good only on a database of a later release, or where a crash
\* came between an ALTER TABLE ADD and the version that records it (1 -> 2, 6 -> 7,
\* 16 -> 17): every other script can be cut anywhere and run again.
PanicJustified ==
  pc = "panicked" => db.version > DB_VERSION \/ interrupted \cap {1, 6, 16} # {}

===============================================================================
