------------------------------ MODULE DeviceDb ------------------------------
(***************************************************************************)
(* The XML slave database of ethercat_master.c: a table in memory, the     *)
(* file slaves.csv, and the import of ESI/ENI documents.  Every operation  *)
(* holds db_lock; saving first truncates the file and then writes it, so   *)
(* that the end of the process in between leaves a part of it.             *)
(*                                                                         *)
(* A document is its path, the vendor that stands before its devices (0:   *)
(* none) and the devices, each with the fields its own element has (0 or   *)
(* NoRevision: missing); one without such elements counts as one device.   *)
(***************************************************************************)
EXTENDS Integers, Sequences

CONSTANTS
  Documents,   \* the documents that may be imported
  MaxEntries,  \* ECAT_MAX_DB_ENTRIES
  MaxCrashes   \* bound: ends of the process while it saves

ASSUME DbAssumption ==
  /\ \A d \in Documents :
       d \in [path : STRING, vendor : Nat,
             devices : Seq([vendor : Nat, product : Nat, revision : Nat \cup {-1}])]
  /\ MaxEntries \in Nat /\ MaxCrashes \in Nat

NoRevision == -1
NoFile == [exists |-> FALSE, rows |-> <<>>]
IndexFile(rows) == [exists |-> TRUE, rows |-> rows]

VARIABLES
  table,   \* G_core.db_entries
  file,    \* slaves.csv
  saving,  \* db_lock is held in db_save_locked, fopen is done
  dbOk,    \* the result of the last operation
  last,    \* history: the document of the last import, or NoDocument
  crashes
dbvars == <<table, file, saving, dbOk, last, crashes>>

NoDocument == [path |-> "none", vendor |-> 0, devices |-> <<>>]
Key(e) == <<e.vendor, e.product, e.revision>>

DbInit ==
  /\ table = <<>> /\ file = IndexFile(<<>>) /\ saving = FALSE /\ dbOk = TRUE
  /\ last = NoDocument /\ crashes = 0

-----------------------------------------------------------------------------
(* copy_attr_value and copy_tag_text_from read on from the start of the    *)
(* device to the end of the document: a field the device does not have is  *)
(* that of the next device which has it.                                   *)
FieldFrom(doc, i, f, none) ==
  LET has == {j \in i..Len(doc.devices) : doc.devices[j][f] # none}
  IN  IF has = {} THEN 0 ELSE doc.devices[CHOOSE j \in has : \A k \in has : j <= k][f]

(* copy_vendor_id, from the device on and else from the beginning.         *)
VendorId(doc, i) ==
  LET own == FieldFrom(doc, i, "vendor", 0)
  IN  IF own # 0 THEN own
      ELSE IF doc.vendor # 0 THEN doc.vendor ELSE FieldFrom(doc, 1, "vendor", 0)

ParseXmlDeviceFrom(doc, i) ==
  [vendor   |-> VendorId(doc, i),
   product  |-> FieldFrom(doc, i, "product", 0),
   revision |-> FieldFrom(doc, i, "revision", NoRevision),
   from     |-> doc.path]

Accepted(e) == e.vendor # 0 /\ e.product # 0

SameKey(a, b) == Key(a) = Key(b)

(* db_upsert_locked on [table, ok].  A full table refuses a new device.    *)
DbUpsert(r, e) ==
  LET at == {k \in 1..Len(r.table) : SameKey(r.table[k], e)}
  IN  IF ~r.ok \/ ~Accepted(e) \/ r.count >= MaxEntries THEN r
      ELSE IF at # {}
      THEN [r EXCEPT !.table[CHOOSE k \in at : \A l \in at : k <= l] = e, !.count = @ + 1]
      ELSE IF Len(r.table) >= MaxEntries THEN [r EXCEPT !.ok = FALSE]
      ELSE [r EXCEPT !.table = Append(@, e), !.count = @ + 1]

(* db_upsert_xml_entries_locked: device after device until one fails, or   *)
(* as many are in as the table has places.                                 *)
Upserts(t, doc) ==
  LET r[i \in 0..Len(doc.devices)] ==
        IF i = 0 THEN [table |-> t, ok |-> TRUE, count |-> 0]
        ELSE DbUpsert(r[i - 1], ParseXmlDeviceFrom(doc, i))
  IN  r
UpsertXmlEntries(t, doc) ==
  LET r == Upserts(t, doc)[Len(doc.devices)]
  IN  [table |-> r.table, ok |-> r.ok /\ r.count > 0]

(* db_load_line_locked for every line: rows without vendor or product and  *)
(* rows past the end of the table are left out; the same key may come in   *)
(* twice.                                                                  *)
LoadLine(t, e) == IF Accepted(e) /\ Len(t) < MaxEntries THEN Append(t, e) ELSE t
Loaded(rows) ==
  LET t[i \in 0..Len(rows)] == IF i = 0 THEN <<>> ELSE LoadLine(t[i - 1], rows[i]) IN t
Load(f) == Loaded(f.rows)[Len(f.rows)]

(* db_find_match_locked: the same revision, else the last entry of         *)
(* revision 0, else the first of the device.                               *)
(* Faulty variant: the first entry of the device is as good as any.        *)
FirstOfDevice(t, k) ==
  LET same == {i \in 1..Len(t) : t[i].vendor = k[1] /\ t[i].product = k[2]}
  IN  IF same = {} THEN 0 ELSE CHOOSE i \in same : \A j \in same : i <= j

DbFindMatch(t, k) ==
  LET same  == {i \in 1..Len(t) : t[i].vendor = k[1] /\ t[i].product = k[2]}
      exact == {i \in same : t[i].revision = k[3]}
      zero  == {i \in same : t[i].revision = 0}
      First(S) == CHOOSE i \in S : \A j \in S : i <= j
      Latest(S) == CHOOSE i \in S : \A j \in S : j <= i
  IN  CASE exact # {} -> First(exact)
        [] exact = {} /\ zero # {} -> Latest(zero)
        [] exact = {} /\ zero = {} /\ same # {} -> First(same)
        [] OTHER -> 0

-----------------------------------------------------------------------------
(* The file could not be opened, or a directory not be made.               *)
DbFails(t) == table' = t /\ dbOk' = FALSE /\ UNCHANGED <<file, saving>>

(* db_save_locked up to fopen(..., "wb").                                  *)
SaveBegin(t) ==
  /\ table' = t /\ file' = IndexFile(<<>>) /\ saving' = TRUE
  /\ UNCHANGED dbOk

(* ECAT_DbImportXml: the table is read again before the document is put    *)
(* in; when that fails midway, the table keeps what it has got so far.     *)
DbImportXml(doc) ==
  /\ ~saving
  /\ last' = doc /\ UNCHANGED crashes
  /\ IF Len(doc.devices) = 0 \/ ~Accepted(ParseXmlDeviceFrom(doc, 1))
     THEN DbFails(table)   \* parse_xml_device, before the lock
     ELSE LET r == UpsertXmlEntries(Load(file), doc)
          IN  IF r.ok THEN SaveBegin(r.table) ELSE DbFails(r.table)

(* An import that cannot copy the document.                                *)
DbImportFails ==
  /\ ~saving /\ DbFails(table)
  /\ last' = NoDocument /\ UNCHANGED crashes

(* The rows and fclose.                                                    *)
SaveEnd ==
  /\ saving
  /\ file' = IndexFile(table) /\ saving' = FALSE /\ dbOk' = TRUE
  /\ UNCHANGED <<table, last, crashes>>

(* ECAT_DbReload, and ECAT_DbSetRoot to the same directory; a missing file *)
(* is written.                                                             *)
DbReload ==
  /\ ~saving
  /\ last' = NoDocument /\ UNCHANGED crashes
  /\ IF file.exists
     THEN table' = Load(file) /\ dbOk' = TRUE /\ UNCHANGED <<file, saving>>
     ELSE SaveBegin(<<>>)

(* What is left of a row whose end was not written: its revision is a      *)
(* shorter number, or it is no row.                                        *)
Torn(e) == {[e EXCEPT !.revision = @ \div 16], [e EXCEPT !.product = 0]}

(* The process ends while it saves, and a new one makes its first call:    *)
(* init_once_callback reads what is left.                                  *)
CrashInSave ==
  /\ saving /\ crashes < MaxCrashes
  /\ crashes' = crashes + 1 /\ saving' = FALSE /\ dbOk' = TRUE /\ last' = NoDocument
  /\ \E n \in 0..Len(table) :
       \/ file' = IndexFile(SubSeq(table, 1, n))
       \/ /\ n < Len(table)
          /\ \E e \in Torn(table[n + 1]) : file' = IndexFile(Append(SubSeq(table, 1, n), e))
  /\ table' = Load(file')

(* Someone removes the file.                                               *)
FileRemoved ==
  /\ ~saving /\ file.exists /\ crashes < MaxCrashes
  /\ file' = NoFile /\ crashes' = crashes + 1 /\ dbOk' = FALSE
  /\ UNCHANGED <<table, saving, last>>

DbNext ==
  \/ \E d \in Documents : DbImportXml(d)
  \/ DbImportFails \/ SaveEnd \/ DbReload \/ CrashInSave \/ FileRemoved

-----------------------------------------------------------------------------
(* db_upsert_locked keeps one entry for each vendor, product and revision, *)
(* over every sequence of imports, also of documents that fail midway.     *)
(* Only a row torn by the end of the process may come in twice.            *)
KeysUnique ==
  crashes = 0 => \A i, j \in 1..Len(table) : SameKey(table[i], table[j]) => i = j

(* After every operation that reports success the file holds what the      *)
(* table holds: reading it again, in this process or in the next, changes  *)
(* nothing.                                                                *)
TableIsFile == ~saving /\ dbOk => file.exists /\ Load(file) = table

(* docs/DLL_SDK_API.md: "Matching is performed by Vendor ID + Product Code *)
(* + Revision."  After a successful import each device that has its own    *)
(* fields is found, and what is found comes from that document, whatever   *)
(* was imported before.  (Of a document with more devices than the table   *)
(* has places the last ones may be left out without an error.)             *)
ImportedIsFound ==
  ~saving /\ dbOk /\ Len(last.devices) <= MaxEntries =>
    \A i \in 1..Len(last.devices) :
      LET d == last.devices[i]
          k == DbFindMatch(table, <<d.vendor, d.product, d.revision>>)
      IN  d.vendor # 0 /\ d.product # 0 /\ d.revision # NoRevision =>
            k # 0 /\ table[k].revision = d.revision /\ table[k].from = last.path

(* The database through imports, reloads, failures and crashes: one entry  *)
(* for each key, the file like the table, and a lookup that finds what was *)
(* imported.                                                               *)
DatabaseIsSound == KeysUnique /\ TableIsFile /\ ImportedIsFound
=============================================================================
