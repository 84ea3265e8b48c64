------------------------------- MODULE DbProof -------------------------------
(***************************************************************************)
(* The XML slave database is sound for any documents, any size of the      *)
(* table and any crashes.  An import and a reload go device by device and  *)
(* line by line; what they leave is found by induction over the document   *)
(* and over the file.                                                      *)
(***************************************************************************)
EXTENDS DllLinux, WellFoundedInduction, TLAPS

(***************************************************************************)
(* Induction, over a set in place of a predicate: the least number that is *)
(* missing has a predecessor that is not.                                  *)
(***************************************************************************)

(* A set of natural numbers has a least one.                               *)
LEMMA LeastNat ==
  ASSUME NEW T \in SUBSET Nat, T # {}
  PROVE  \E x \in T : \A y \in T : x <= y
<1>1. PICK x \in T : \A y \in T : ~(<<y, x>> \in OpToRel(<, Nat))
  BY NatLessThanWellFounded, WFMin
<1>2. \A y \in T : ~(y < x)
  BY <1>1 DEF OpToRel
<1> QED BY <1>2

(* Induction up to n.                                                      *)
LEMMA Upto ==
  ASSUME NEW n \in Nat, NEW S, 0 \in S, \A i \in 0..(n - 1) : i \in S => i + 1 \in S
  PROVE  0..n \subseteq S
<1> DEFINE T == (0..n) \ S
<1>1. SUFFICES ASSUME T # {} PROVE FALSE
  OBVIOUS
<1>2. T \in SUBSET Nat
  OBVIOUS
<1>3. PICK x \in T : \A y \in T : x <= y
  <2> HIDE DEF T
  <2> QED BY <1>1, <1>2, LeastNat
<1> QED BY <1>3

(* f computes n steps from s on.                                           *)
IsRun(f, S, s, n, step) ==
  f \in [0..n -> S] /\ f[0] = s /\ \A i \in 1..n : f[i] = step[f[i - 1]][i]

(* There is such an f, so that a recursive function has its values.        *)
LEMMA RunExists ==
  ASSUME NEW S, NEW s \in S, NEW n \in Nat, NEW step \in [S -> [1..n -> S]]
  PROVE  \E f : IsRun(f, S, s, n, step)
<1> DEFINE Good == {m \in 0..n : \E f : IsRun(f, S, s, m, step)}
<1>1. 0 \in Good
  <2> DEFINE g == [i \in 0..0 |-> s]
  <2>1. IsRun(g, S, s, 0, step)
    BY DEF IsRun
  <2> QED BY <2>1
<1>2. ASSUME NEW m \in 0..(n - 1), m \in Good PROVE m + 1 \in Good
  <2>1. PICK f : IsRun(f, S, s, m, step)
    BY <1>2
  <2> DEFINE g == [i \in 0..(m + 1) |-> IF i = m + 1 THEN step[f[m]][m + 1] ELSE f[i]]
  <2>2. step[f[m]][m + 1] \in S
    BY <2>1 DEF IsRun
  <2>3. IsRun(g, S, s, m + 1, step)
    BY <2>1, <2>2 DEF IsRun
  <2> QED BY <2>3
<1>3. n \in Good
  <2> HIDE DEF Good
  <2>1. 0..n \subseteq Good
    BY <1>1, <1>2, Upto
  <2> QED BY <2>1
<1> QED BY <1>3
-----------------------------------------------------------------------------
(* The table: devices with vendor and product, not more than it has        *)
(* places.                                                                 *)
Paths == {d.path : d \in Documents \cup {NoDocument}}
Entries == [vendor : Nat, product : Nat, revision : Nat, from : Paths]
Tables == {t \in Seq(Entries) : Len(t) <= MaxEntries /\ \A k \in 1..Len(t) : Accepted(t[k])}
Distinct(t) == \A i, j \in 1..Len(t) : SameKey(t[i], t[j]) => i = j

(* One line more.                                                          *)
LEMMA LoadLineTable ==
  ASSUME NEW t \in Tables, NEW e \in Entries
  PROVE  LoadLine(t, e) \in Tables
<1>1. CASE Accepted(e) /\ Len(t) < MaxEntries
  <2> DEFINE u == Append(t, e)
  <2>1. u \in Seq(Entries) /\ Len(u) = Len(t) + 1 /\ Len(t) \in Nat
    BY DEF Tables
  <2>2. \A k \in 1..Len(u) : u[k] = t[k] \/ u[k] = e
    BY DEF Tables
  <2>3. \A k \in 1..Len(u) : Accepted(u[k])
    <3> TAKE k \in 1..Len(u)
    <3>1. k \in 1..Len(t) => u[k] = t[k] /\ Accepted(t[k])
      BY DEF Tables
    <3>2. k \notin 1..Len(t) => u[k] = e
      BY DEF Tables
    <3> QED BY <1>1, <3>1, <3>2
  <2>4. LoadLine(t, e) = u
    BY <1>1 DEF LoadLine
  <2> HIDE DEF u
  <2> QED BY <1>1, <2>1, <2>3, <2>4, DbAssumption DEF Tables
<1> QED BY <1>1 DEF LoadLine

(* The recursion of Loaded.                                                *)
LEMMA LoadedIs ==
  ASSUME NEW rows \in Seq(Entries)
  PROVE  /\ Loaded(rows) \in [0..Len(rows) -> Tables] /\ Loaded(rows)[0] = <<>>
         /\ \A i \in 1..Len(rows) : Loaded(rows)[i] = LoadLine(Loaded(rows)[i - 1], rows[i])
<1> DEFINE n == Len(rows)
           step == [t \in Tables |-> [i \in 1..n |-> LoadLine(t, rows[i])]]
<1>0. n \in Nat /\ \A i \in 1..n : rows[i] \in Entries
  OBVIOUS
<1>1. <<>> \in Tables
  BY DbAssumption DEF Tables
<1>2. step \in [Tables -> [1..n -> Tables]]
  BY <1>0, LoadLineTable
<1>3. PICK f : IsRun(f, Tables, <<>>, n, step)
  <2> HIDE DEF n, step
  <2>1. \E f : IsRun(f, Tables, <<>>, n, step)
    BY <1>0, <1>1, <1>2, RunExists
  <2> QED BY <2>1
<1>4. \A i \in 1..n : f[i] = LoadLine(f[i - 1], rows[i])
  <2> TAKE i \in 1..n
  <2>1. f[i - 1] \in Tables /\ f[i] = step[f[i - 1]][i]
    BY <1>0, <1>3 DEF IsRun
  <2> QED BY <2>1
<1>5. f = [i \in 0..n |-> IF i = 0 THEN <<>> ELSE LoadLine(f[i - 1], rows[i])]
  BY <1>0, <1>3, <1>4 DEF IsRun
<1>6. Loaded(rows) = [i \in 0..n |-> IF i = 0 THEN <<>> ELSE LoadLine(Loaded(rows)[i - 1], rows[i])]
  BY <1>5, Zenon DEF Loaded
<1>7. /\ Loaded(rows)[0] = <<>>
      /\ \A i \in 1..n : Loaded(rows)[i] = LoadLine(Loaded(rows)[i - 1], rows[i])
  BY <1>0, <1>6
<1> DEFINE Good == {i \in 0..n : Loaded(rows)[i] \in Tables}
<1>8. 0..n \subseteq Good
  <2>1. 0 \in Good
    BY <1>1, <1>7
  <2>2. \A i \in 0..(n - 1) : i \in Good => i + 1 \in Good
    BY <1>0, <1>7, LoadLineTable
  <2> HIDE DEF Good
  <2> QED BY <1>0, <2>1, <2>2, Upto
<1> QED BY <1>6, <1>7, <1>8

(* What is loaded is a table,                                              *)
LEMMA LoadTable ==
  ASSUME NEW f, f.rows \in Seq(Entries)
  PROVE  Load(f) \in Tables
BY LoadedIs DEF Load

(* a table comes back as it is,                                            *)
LEMMA LoadSame ==
  ASSUME NEW f, f.rows \in Tables
  PROVE  Load(f) = f.rows
<1> DEFINE rows == f.rows
           n == Len(rows)
           L == Loaded(rows)
           Good == {i \in 0..n : Len(L[i]) = i /\ \A k \in 1..i : L[i][k] = rows[k]}
<1>0. rows \in Seq(Entries) /\ n \in Nat /\ n <= MaxEntries /\ \A k \in 1..n : Accepted(rows[k])
  BY DEF Tables
<1>1. /\ L \in [0..n -> Tables] /\ L[0] = <<>>
      /\ \A i \in 1..n : L[i] = LoadLine(L[i - 1], rows[i])
  BY <1>0, LoadedIs
<1>2. 0 \in Good
  BY <1>0, <1>1
<1>3. ASSUME NEW i \in 0..(n - 1), i \in Good PROVE i + 1 \in Good
  <2> DEFINE t == L[i]
             e == rows[i + 1]
             u == Append(t, e)
  <2>0. t \in Tables /\ i + 1 \in 1..n /\ (i + 1) - 1 = i
    BY <1>0, <1>1
  <2>1. t \in Seq(Entries) /\ L[i + 1] = LoadLine(t, e)
    BY <1>0, <1>1, <2>0 DEF Tables
  <2>2. Len(t) = i /\ \A k \in 1..i : t[k] = rows[k]
    BY <1>3
  <2>3. L[i + 1] = u
    BY <1>0, <2>1, <2>2, DbAssumption DEF LoadLine
  <2>4. Len(u) = i + 1 /\ u[i + 1] = e /\ \A k \in 1..i : u[k] = t[k]
    BY <2>1, <2>2
  <2> HIDE DEF L, t, u
  <2>5. \A k \in 1..(i + 1) : u[k] = rows[k]
    BY <2>2, <2>4
  <2> QED BY <2>1, <2>3, <2>4, <2>5
<1>4. n \in Good
  <2> HIDE DEF Good, n
  <2>1. 0..n \subseteq Good
    BY <1>0, <1>2, <1>3, Upto
  <2> QED BY <1>0, <2>1
<1>5. L[n] \in Seq(Entries)
  BY <1>0, <1>1 DEF Tables
<1>6. L[n] = rows
  <2> HIDE DEF L
  <2> QED BY <1>0, <1>4, <1>5
<1> QED BY <1>6 DEF Load

(* and keys that are different in the file are so in the table.            *)
LEMMA LoadDistinct ==
  ASSUME NEW f, f.rows \in Seq(Entries), Distinct(f.rows)
  PROVE  Distinct(Load(f))
<1> DEFINE rows == f.rows
           n == Len(rows)
           L == Loaded(rows)
           From(i) == \A k \in 1..Len(L[i]) : \E j \in 1..i : L[i][k] = rows[j]
           Good == {i \in 0..n : Distinct(L[i]) /\ From(i)}
<1>0. rows \in Seq(Entries) /\ n \in Nat
  OBVIOUS
<1>1. /\ L \in [0..n -> Tables] /\ L[0] = <<>>
      /\ \A i \in 1..n : L[i] = LoadLine(L[i - 1], rows[i])
  BY <1>0, LoadedIs
<1>2. 0 \in Good
  BY <1>0, <1>1 DEF Distinct
<1>3. ASSUME NEW i \in 0..(n - 1), i \in Good PROVE i + 1 \in Good
  <2> DEFINE t == L[i]
             e == rows[i + 1]
  <2>0. t \in Tables /\ (i + 1) - 1 = i
    <3>1. i \in 0..n /\ (i + 1) - 1 = i
      BY <1>0
    <3> QED BY <1>1, <3>1
  <2>1. t \in Seq(Entries) /\ L[i + 1] = LoadLine(t, e) /\ i + 1 \in 1..n /\ e \in Entries
    BY <1>0, <1>1, <2>0 DEF Tables
  <2>2. CASE L[i + 1] = t
    BY <1>3, <2>1, <2>2
  <2>3. CASE L[i + 1] = Append(t, e)
    <3> DEFINE u == Append(t, e)
    <3> HIDE DEF L
    <3>1. Len(u) = Len(t) + 1 /\ Len(t) \in Nat /\ u[Len(t) + 1] = e /\ \A k \in 1..Len(t) : u[k] = t[k]
      BY <2>1
    <3> HIDE DEF u
    <3>2. \A k \in 1..Len(t) : \E j \in 1..i : t[k] = rows[j]
      BY <1>3
    <3>3. \A k \in 1..Len(t) : ~SameKey(t[k], e)
      <4> TAKE k \in 1..Len(t)
      <4>1. PICK j \in 1..i : t[k] = rows[j]
        BY <3>2
      <4> QED BY <1>0, <2>1, <4>1 DEF Distinct
    <3>4. \A k \in 1..Len(t) : ~SameKey(e, t[k])
      BY <3>3 DEF SameKey
    <3>5. Distinct(u)
      <4>1. \A a, b \in 1..Len(t) : SameKey(t[a], t[b]) => a = b
        BY <1>3 DEF Distinct
      <4>2. ASSUME NEW a \in 1..Len(u), NEW b \in 1..Len(u), SameKey(u[a], u[b]) PROVE a = b
        <5>1. (a \in 1..Len(t) /\ u[a] = t[a]) \/ (a = Len(t) + 1 /\ u[a] = e)
          BY <3>1
        <5>2. (b \in 1..Len(t) /\ u[b] = t[b]) \/ (b = Len(t) + 1 /\ u[b] = e)
          BY <3>1
        <5> HIDE DEF t, e
        <5> QED BY <3>3, <3>4, <4>1, <4>2, <5>1, <5>2
      <4> QED BY <4>2 DEF Distinct
    <3>6. \A k \in 1..Len(u) : \E j \in 1..(i + 1) : u[k] = rows[j]
      BY <2>1, <3>1, <3>2
    <3>7. L[i + 1] = u
      BY <2>3 DEF u
    <3>8. Distinct(L[i + 1]) /\ From(i + 1) /\ i + 1 \in 0..n
      BY <2>1, <3>5, <3>6, <3>7
    <3> QED BY <3>8
  <2> QED BY <2>1, <2>2, <2>3 DEF LoadLine
<1>4. 0..n \subseteq Good
  <2> HIDE DEF Good, n
  <2> QED BY <1>0, <1>2, <1>3, Upto
<1> QED BY <1>0, <1>4 DEF Load
-----------------------------------------------------------------------------
(* The devices of a document.                                              *)
Devices == [vendor : Nat, product : Nat, revision : Nat \cup {-1}]
Good(doc) == doc \in Documents \cup {NoDocument}

(* A document has its types.                                               *)
LEMMA DocumentType ==
  ASSUME NEW doc, Good(doc)
  PROVE  /\ doc.path \in Paths /\ doc.vendor \in Nat /\ Len(doc.devices) \in Nat
         /\ doc.devices \in Seq(Devices) /\ \A j \in 1..Len(doc.devices) : doc.devices[j] \in Devices
<1>0. doc.path \in Paths
  BY DEF Good, Paths
<1>1. doc.vendor \in Nat /\ doc.devices \in Seq(Devices)
  <2>1. CASE doc \in Documents
    <3>1. doc \in [path : STRING, vendor : Nat, devices : Seq(Devices)]
      BY <2>1, DbAssumption DEF Devices
    <3> QED BY <3>1
  <2>2. CASE doc = NoDocument
    <3>1. doc.vendor = 0 /\ doc.devices = <<>>
      BY <2>2 DEF NoDocument
    <3>2. <<>> \in Seq(Devices)
      OBVIOUS
    <3> QED BY <3>1, <3>2
  <2> QED BY <2>1, <2>2 DEF Good
<1> HIDE DEF Devices
<1> QED BY <1>0, <1>1

(* The first of a set of places.                                           *)
LEMMA FirstPlace ==
  ASSUME NEW T \in SUBSET Nat, T # {}
  PROVE  /\ (CHOOSE j \in T : \A k \in T : j <= k) \in T
         /\ \A k \in T : (CHOOSE j \in T : \A k1 \in T : j <= k1) <= k
BY LeastNat

(* A field is a number,                                                    *)
LEMMA FieldType ==
  ASSUME NEW doc, Good(doc), NEW i \in 1..Len(doc.devices)
  PROVE  /\ FieldFrom(doc, i, "vendor", 0) \in Nat /\ FieldFrom(doc, i, "product", 0) \in Nat
         /\ FieldFrom(doc, i, "revision", NoRevision) \in Nat
<1>0. Len(doc.devices) \in Nat /\ \A j \in i..Len(doc.devices) : doc.devices[j] \in Devices
  BY DocumentType
<1>1. ASSUME NEW f, NEW none
      PROVE  FieldFrom(doc, i, f, none) = 0 \/ \E j \in i..Len(doc.devices) :
               FieldFrom(doc, i, f, none) = doc.devices[j][f] /\ doc.devices[j][f] # none
  <2> DEFINE has == {j \in i..Len(doc.devices) : doc.devices[j][f] # none}
             c == CHOOSE j \in has : \A k \in has : j <= k
  <2>1. CASE has = {}
    BY <2>1 DEF FieldFrom
  <2>2. CASE has # {}
    <3>1. has \in SUBSET Nat
      BY <1>0
    <3>2. c \in has
      <4> HIDE DEF has
      <4> QED BY <2>2, <3>1, FirstPlace
    <3>3. FieldFrom(doc, i, f, none) = doc.devices[c][f]
      BY <2>2 DEF FieldFrom
    <3> HIDE DEF c
    <3> QED BY <3>2, <3>3
  <2> QED BY <2>1, <2>2
<1>2. FieldFrom(doc, i, "vendor", 0) \in Nat
  BY <1>0, <1>1 DEF Devices
<1>3. FieldFrom(doc, i, "product", 0) \in Nat
  BY <1>0, <1>1 DEF Devices
<1>4. FieldFrom(doc, i, "revision", NoRevision) \in Nat
  BY <1>0, <1>1 DEF NoRevision, Devices
<1> QED BY <1>2, <1>3, <1>4

(* and the device's own where it has one.                                  *)
LEMMA FieldOwn ==
  ASSUME NEW doc, Good(doc), NEW i \in 1..Len(doc.devices), NEW f, NEW none,
         doc.devices[i][f] # none
  PROVE  FieldFrom(doc, i, f, none) = doc.devices[i][f]
<1> DEFINE has == {j \in i..Len(doc.devices) : doc.devices[j][f] # none}
           c == CHOOSE j \in has : \A k \in has : j <= k
<1>0. Len(doc.devices) \in Nat
  BY DocumentType
<1>1. has \in SUBSET Nat /\ i \in has /\ \A k \in has : i <= k
  BY <1>0
<1>2. c \in has /\ c <= i
  <2> HIDE DEF has
  <2> QED BY <1>1, FirstPlace
<1>3. c = i
  <2> HIDE DEF has, c
  <2> QED BY <1>1, <1>2
<1> QED BY <1>1, <1>3 DEF FieldFrom

(* What is parsed is an entry.                                             *)
LEMMA ParsedType ==
  ASSUME NEW doc, Good(doc), NEW i \in 1..Len(doc.devices)
  PROVE  ParseXmlDeviceFrom(doc, i) \in Entries
<1>1. 1 \in 1..Len(doc.devices)
  BY DocumentType
<1>2. VendorId(doc, i) \in Nat
  BY <1>1, DocumentType, FieldType DEF VendorId
<1> QED BY <1>2, DocumentType, FieldType DEF ParseXmlDeviceFrom, Entries
-----------------------------------------------------------------------------
(* What one device does to the table: nothing, when the import has failed, *)
(* the device has no identity or enough are in; it takes the first place   *)
(* with its key; it finds no place; or it is added.                        *)
Results == [table : Tables, ok : BOOLEAN, count : Nat]
Kept(r, e, u) == u = r /\ (~r.ok \/ ~Accepted(e) \/ r.count >= MaxEntries)
Replaced(r, e, u, k) ==
  /\ r.ok /\ u.ok /\ Accepted(e) /\ u.count = r.count + 1 /\ k \in 1..Len(r.table)
  /\ SameKey(r.table[k], e) /\ \A l \in 1..Len(r.table) : SameKey(r.table[l], e) => k <= l
  /\ u.table = [r.table EXCEPT ![k] = e]
Full(r, u) == ~u.ok /\ u.table = r.table /\ u.count = r.count
Added(r, e, u) ==
  /\ r.ok /\ u.ok /\ Accepted(e) /\ u.count = r.count + 1 /\ Len(r.table) < MaxEntries
  /\ \A l \in 1..Len(r.table) : ~SameKey(r.table[l], e)
  /\ u.table = Append(r.table, e)

(* db_upsert_locked does one of the four.                                  *)
LEMMA UpsertCases ==
  ASSUME NEW r \in Results, NEW e \in Entries, NEW u, u = DbUpsert(r, e)
  PROVE  Kept(r, e, u) \/ (\E k \in 1..Len(r.table) : Replaced(r, e, u, k)) \/ Full(r, u) \/ Added(r, e, u)
<1> DEFINE at == {k \in 1..Len(r.table) : SameKey(r.table[k], e)}
           c == CHOOSE k \in at : \A l \in at : k <= l
<1>0. /\ r.table \in Tables /\ r.table \in Seq(Entries) /\ Len(r.table) \in Nat /\ r.count \in Nat
      /\ r.ok \in BOOLEAN /\ MaxEntries \in Nat
  BY DbAssumption DEF Results, Tables
<1>1. CASE ~r.ok \/ ~Accepted(e) \/ r.count >= MaxEntries
  BY <1>1 DEF DbUpsert, Kept
<1>2. CASE ~(~r.ok \/ ~Accepted(e) \/ r.count >= MaxEntries) /\ at # {}
  <2>1. u = [r EXCEPT !.table[c] = e, !.count = @ + 1]
    BY <1>2 DEF DbUpsert
  <2>2. c \in at /\ \A l \in at : c <= l
    <3>1. at \in SUBSET Nat
      BY <1>0
    <3> HIDE DEF at
    <3> QED BY <1>2, <3>1, FirstPlace
  <2> HIDE DEF c
  <2>3. u.ok = r.ok /\ u.count = r.count + 1 /\ u.table = [r.table EXCEPT ![c] = e]
    BY <2>1, <1>0 DEF Results
  <2>4. Replaced(r, e, u, c)
    BY <1>2, <2>2, <2>3 DEF Replaced
  <2> QED BY <2>2, <2>4
<1>3. CASE ~(~r.ok \/ ~Accepted(e) \/ r.count >= MaxEntries) /\ at = {}
  <2>1. \A l \in 1..Len(r.table) : ~SameKey(r.table[l], e)
    BY <1>3
  <2>2. CASE Len(r.table) >= MaxEntries
    <3>1. u = [r EXCEPT !.ok = FALSE]
      BY <1>3, <2>2 DEF DbUpsert
    <3> QED BY <3>1 DEF Full, Results
  <2>3. CASE ~(Len(r.table) >= MaxEntries)
    <3>1. u = [r EXCEPT !.table = Append(@, e), !.count = @ + 1]
      BY <1>3, <2>3 DEF DbUpsert
    <3> QED BY <1>0, <1>3, <2>1, <2>3, <3>1 DEF Added, Results
  <2> QED BY <2>2, <2>3
<1> QED BY <1>1, <1>2, <1>3

(* It is a table again.                                                    *)
LEMMA UpsertType ==
  ASSUME NEW r \in Results, NEW e \in Entries
  PROVE  DbUpsert(r, e) \in Results
<1> DEFINE u == DbUpsert(r, e)
<1>0. /\ r.table \in Tables /\ r.table \in Seq(Entries) /\ Len(r.table) \in Nat /\ r.count \in Nat
      /\ MaxEntries \in Nat
  BY DbAssumption DEF Results, Tables
<1>1. DOMAIN u = DOMAIN r /\ u = [table |-> u.table, ok |-> u.ok, count |-> u.count] /\ u.ok \in BOOLEAN
  BY DEF DbUpsert, Results
<1>2. u.count \in Nat
  BY <1>0 DEF DbUpsert, Results
<1>3. u.table \in Tables
  <2>0. Kept(r, e, u) \/ (\E k \in 1..Len(r.table) : Replaced(r, e, u, k)) \/ Full(r, u) \/ Added(r, e, u)
    BY UpsertCases
  <2> HIDE DEF u
  <2>1. CASE Kept(r, e, u) \/ Full(r, u)
    BY <1>0, <2>1 DEF Kept, Full
  <2>2. ASSUME NEW k \in 1..Len(r.table), Replaced(r, e, u, k) PROVE u.table \in Tables
    <3> DEFINE t == u.table
    <3>1. t = [r.table EXCEPT ![k] = e] /\ Accepted(e)
      BY <2>2 DEF Replaced
    <3>2. t \in Seq(Entries) /\ Len(t) = Len(r.table) /\ \A l \in 1..Len(t) : t[l] = IF l = k THEN e ELSE r.table[l]
      BY <1>0, <3>1
    <3> HIDE DEF t
    <3>3. t \in Tables
      BY <1>0, <3>1, <3>2 DEF Tables
    <3> QED BY <3>3 DEF t
  <2>3. CASE Added(r, e, u)
    <3>1. u.table = LoadLine(r.table, e)
      BY <2>3 DEF Added, LoadLine
    <3> QED BY <1>0, <3>1, LoadLineTable
  <2> QED BY <2>0, <2>1, <2>2, <2>3
<1> HIDE DEF u
<1>4. u \in Results
  BY <1>1, <1>2, <1>3 DEF Results
<1> QED BY <1>4 DEF u

(* One key, one entry.                                                     *)
LEMMA UpsertDistinct ==
  ASSUME NEW r \in Results, NEW e \in Entries, Distinct(r.table)
  PROVE  Distinct(DbUpsert(r, e).table)
<1> DEFINE u == DbUpsert(r, e)
<1>0. r.table \in Seq(Entries) /\ Len(r.table) \in Nat
  BY DEF Results, Tables
<1>1. Kept(r, e, u) \/ (\E k \in 1..Len(r.table) : Replaced(r, e, u, k)) \/ Full(r, u) \/ Added(r, e, u)
  BY UpsertCases
<1> SUFFICES Distinct(u.table)
  OBVIOUS
<1> HIDE DEF u
<1>2. CASE Kept(r, e, u) \/ Full(r, u)
  BY <1>2 DEF Kept, Full
<1>3. ASSUME NEW k \in 1..Len(r.table), Replaced(r, e, u, k) PROVE Distinct(u.table)
  <2> DEFINE t == u.table
  <2>1. t = [r.table EXCEPT ![k] = e] /\ SameKey(r.table[k], e)
    BY <1>3 DEF Replaced
  <2>2. Len(t) = Len(r.table) /\ \A l \in 1..Len(t) : t[l] = IF l = k THEN e ELSE r.table[l]
    BY <1>0, <2>1
  <2> HIDE DEF t
  <2>3. \A i, j \in 1..Len(t) : SameKey(t[i], t[j]) => SameKey(r.table[i], r.table[j])
    BY <2>1, <2>2 DEF SameKey
  <2>4. Distinct(t)
    BY <2>2, <2>3 DEF Distinct
  <2> QED BY <2>4 DEF t
<1>4. CASE Added(r, e, u)
  <2> DEFINE t == u.table
  <2>1. t = Append(r.table, e) /\ \A l \in 1..Len(r.table) : ~SameKey(r.table[l], e)
    BY <1>4 DEF Added
  <2>2. Len(t) = Len(r.table) + 1 /\ t[Len(r.table) + 1] = e /\ \A l \in 1..Len(r.table) : t[l] = r.table[l]
    BY <1>0, <2>1
  <2> HIDE DEF t
  <2>3. \A l \in 1..Len(r.table) : ~SameKey(e, r.table[l])
    BY <2>1 DEF SameKey
  <2>4. Distinct(t)
    BY <1>0, <2>1, <2>2, <2>3 DEF Distinct
  <2> QED BY <2>4 DEF t
<1> QED BY <1>1, <1>2, <1>3, <1>4

(* The first entry with the key of a comes from p.                         *)
FoundIn(t, a, p) ==
  \E k \in 1..Len(t) :
    /\ SameKey(t[k], a) /\ t[k].from = p
    /\ \A l \in 1..Len(t) : SameKey(t[l], a) => k <= l

(* A device that is taken is found, with what was found before if it       *)
(* comes from there as well.                                               *)
LEMMA UpsertFound ==
  ASSUME NEW r \in Results, NEW e \in Entries, NEW a, DbUpsert(r, e).ok,
         \/ a = e /\ Accepted(e) /\ r.count < MaxEntries
         \/ FoundIn(r.table, a, e.from)
  PROVE  FoundIn(DbUpsert(r, e).table, a, e.from)
<1> DEFINE u == DbUpsert(r, e)
           s == r.table
<1>0. s \in Seq(Entries) /\ Len(s) \in Nat /\ r.count \in Nat /\ MaxEntries \in Nat
  BY DbAssumption DEF Results, Tables
<1>1. Kept(r, e, u) \/ (\E k \in 1..Len(s) : Replaced(r, e, u, k)) \/ Full(r, u) \/ Added(r, e, u)
  BY UpsertCases
<1>2. u.ok
  OBVIOUS
<1> SUFFICES FoundIn(u.table, a, e.from)
  OBVIOUS
<1> HIDE DEF u
<1>3. CASE Kept(r, e, u)
  BY <1>0, <1>2, <1>3 DEF Kept
<1>4. ASSUME NEW k \in 1..Len(s), Replaced(r, e, u, k) PROVE FoundIn(u.table, a, e.from)
  <2> DEFINE t == u.table
  <2>1. /\ t = [s EXCEPT ![k] = e] /\ SameKey(s[k], e)
        /\ \A l \in 1..Len(s) : SameKey(s[l], e) => k <= l
    BY <1>4 DEF Replaced
  <2>2. Len(t) = Len(s) /\ \A l \in 1..Len(t) : t[l] = IF l = k THEN e ELSE s[l]
    BY <1>0, <2>1
  <2> HIDE DEF t, s
  <2>3. \A l \in 1..Len(t) : SameKey(t[l], a) <=> SameKey(s[l], a)
    BY <2>1, <2>2 DEF SameKey
  <2>4. CASE a = e
    <3>1. \A l \in 1..Len(t) : SameKey(t[l], a) => k <= l
      BY <2>1, <2>2, <2>3, <2>4
    <3>2. t[k] = e /\ SameKey(t[k], a) /\ k \in 1..Len(t)
      BY <2>2, <2>4 DEF SameKey
    <3> QED BY <3>1, <3>2 DEF FoundIn, t
  <2>5. CASE FoundIn(s, a, e.from)
    <3>1. PICK j \in 1..Len(s) : /\ SameKey(s[j], a) /\ s[j].from = e.from
                                 /\ \A l \in 1..Len(s) : SameKey(s[l], a) => j <= l
      BY <2>5 DEF FoundIn
    <3>2. SameKey(t[j], a) /\ t[j].from = e.from /\ \A l \in 1..Len(t) : SameKey(t[l], a) => j <= l
      BY <2>2, <2>3, <3>1
    <3> QED BY <2>2, <3>2 DEF FoundIn, t
  <2> QED BY <2>4, <2>5 DEF s
<1>5. CASE Added(r, e, u)
  <2> DEFINE t == u.table
  <2>1. t = Append(s, e) /\ \A l \in 1..Len(s) : ~SameKey(s[l], e)
    BY <1>5 DEF Added
  <2>2. Len(t) = Len(s) + 1 /\ t[Len(s) + 1] = e /\ \A l \in 1..Len(s) : t[l] = s[l]
    BY <1>0, <2>1
  <2> HIDE DEF t, s
  <2>3. CASE a = e
    <3>1. SameKey(t[Len(s) + 1], a) /\ t[Len(s) + 1].from = e.from /\ Len(s) + 1 \in 1..Len(t)
      BY <1>0, <2>2, <2>3 DEF SameKey
    <3>2. \A l \in 1..Len(t) : SameKey(t[l], a) => Len(s) + 1 <= l
      BY <1>0, <2>1, <2>2, <2>3
    <3> QED BY <3>1, <3>2 DEF FoundIn, t
  <2>4. CASE FoundIn(s, a, e.from)
    <3>1. PICK j \in 1..Len(s) : /\ SameKey(s[j], a) /\ s[j].from = e.from
                                 /\ \A l \in 1..Len(s) : SameKey(s[l], a) => j <= l
      BY <2>4 DEF FoundIn
    <3>2. /\ j \in 1..Len(t) /\ SameKey(t[j], a) /\ t[j].from = e.from
          /\ \A l \in 1..Len(t) : SameKey(t[l], a) => j <= l
      BY <1>0, <2>2, <3>1
    <3> QED BY <3>2 DEF FoundIn, t
  <2> QED BY <2>3, <2>4 DEF s
<1> QED BY <1>1, <1>2, <1>3, <1>4, <1>5 DEF Full

(* The recursion of Upserts.                                               *)
LEMMA UpsertsIs ==
  ASSUME NEW t \in Tables, NEW doc, Good(doc)
  PROVE  /\ Upserts(t, doc) \in [0..Len(doc.devices) -> Results]
         /\ Upserts(t, doc)[0] = [table |-> t, ok |-> TRUE, count |-> 0]
         /\ \A i \in 1..Len(doc.devices) :
              Upserts(t, doc)[i] = DbUpsert(Upserts(t, doc)[i - 1], ParseXmlDeviceFrom(doc, i))
<1> DEFINE n == Len(doc.devices)
           s == [table |-> t, ok |-> TRUE, count |-> 0]
           P(i) == ParseXmlDeviceFrom(doc, i)
           step == [r \in Results |-> [i \in 1..n |-> DbUpsert(r, P(i))]]
<1>0. n \in Nat /\ \A i \in 1..n : P(i) \in Entries
  BY DocumentType, ParsedType
<1>1. s \in Results
  BY DEF Results
<1> HIDE DEF P
<1>2. step \in [Results -> [1..n -> Results]]
  BY <1>0, UpsertType
<1>3. PICK f : IsRun(f, Results, s, n, step)
  <2> HIDE DEF n, step, s
  <2>1. \E f : IsRun(f, Results, s, n, step)
    BY <1>0, <1>1, <1>2, RunExists
  <2> QED BY <2>1
<1>4. \A i \in 1..n : f[i] = DbUpsert(f[i - 1], P(i))
  <2> TAKE i \in 1..n
  <2>1. f[i - 1] \in Results /\ f[i] = step[f[i - 1]][i]
    <3> HIDE DEF step, s
    <3> QED BY <1>0, <1>3 DEF IsRun
  <2> QED BY <2>1
<1>5. f = [i \in 0..n |-> IF i = 0 THEN s ELSE DbUpsert(f[i - 1], P(i))]
  BY <1>0, <1>3, <1>4 DEF IsRun
<1>6. Upserts(t, doc) = [i \in 0..n |-> IF i = 0 THEN s ELSE DbUpsert(Upserts(t, doc)[i - 1], P(i))]
  BY <1>5, Zenon DEF Upserts, P
<1>7. /\ Upserts(t, doc)[0] = s
      /\ \A i \in 1..n : Upserts(t, doc)[i] = DbUpsert(Upserts(t, doc)[i - 1], P(i))
  <2> HIDE DEF s, n
  <2> QED BY <1>0, <1>6
<1> DEFINE Fine == {i \in 0..n : Upserts(t, doc)[i] \in Results}
<1>8. 0..n \subseteq Fine
  <2>1. 0 \in Fine
    BY <1>1, <1>7
  <2>2. \A i \in 0..(n - 1) : i \in Fine => i + 1 \in Fine
    BY <1>0, <1>7, UpsertType
  <2> HIDE DEF Fine
  <2> QED BY <1>0, <2>1, <2>2, Upto
<1> QED BY <1>6, <1>7, <1>8 DEF P

(* An import: a table, with one entry for each key if there was one        *)
(* before, and, if it went well and the document is not too long, every    *)
(* device in it.                                                           *)
LEMMA ImportIs ==
  ASSUME NEW t \in Tables, NEW doc, Good(doc), NEW r, r = UpsertXmlEntries(t, doc)
  PROVE  /\ r.table \in Tables /\ r.ok \in BOOLEAN
         /\ Distinct(t) => Distinct(r.table)
         /\ r.ok /\ Len(doc.devices) <= MaxEntries =>
              \A i \in 1..Len(doc.devices) : Accepted(ParseXmlDeviceFrom(doc, i)) =>
                FoundIn(r.table, ParseXmlDeviceFrom(doc, i), doc.path)
<1> DEFINE n == Len(doc.devices)
           U == Upserts(t, doc)
           P(i) == ParseXmlDeviceFrom(doc, i)
           Fine == {i \in 0..n : /\ Distinct(t) => Distinct(U[i].table)
                                 /\ U[i].count <= i
                                 /\ U[i].ok /\ n <= MaxEntries =>
                                      \A j \in 1..i : Accepted(P(j)) => FoundIn(U[i].table, P(j), doc.path)}
<1>0. n \in Nat /\ MaxEntries \in Nat /\ \A i \in 1..n : P(i) \in Entries /\ P(i).from = doc.path
  <2>1. \A i \in 1..n : P(i).from = doc.path
    BY DEF ParseXmlDeviceFrom
  <2> HIDE DEF P
  <2> QED BY <2>1, DocumentType, ParsedType, DbAssumption DEF P
<1> HIDE DEF P
<1>1. /\ U \in [0..n -> Results] /\ U[0] = [table |-> t, ok |-> TRUE, count |-> 0]
      /\ \A i \in 1..n : U[i] = DbUpsert(U[i - 1], P(i))
  BY UpsertsIs DEF P
<1> HIDE DEF U
<1>2. 0 \in Fine
  BY <1>0, <1>1
<1>3. ASSUME NEW i \in 0..(n - 1), i \in Fine PROVE i + 1 \in Fine
  <2> DEFINE r0 == U[i]
             r1 == U[i + 1]
             e == P(i + 1)
  <2>1. r0 \in Results /\ e \in Entries /\ r1 = DbUpsert(r0, e) /\ e.from = doc.path /\ i + 1 \in 0..n
    <3>1. i \in 0..n /\ i + 1 \in 1..n /\ (i + 1) - 1 = i
      BY <1>0
    <3> QED BY <1>0, <1>1, <3>1
  <2>2. /\ Distinct(t) => Distinct(r0.table) /\ r0.count <= i
        /\ r0.ok /\ n <= MaxEntries => \A j \in 1..i : Accepted(P(j)) => FoundIn(r0.table, P(j), doc.path)
    BY <1>3
  <2>2a. (Distinct(t) => Distinct(r0.table)) /\ r0.count <= i
    BY <1>3
  <2> HIDE DEF r0, r1, e
  <2>3. Distinct(t) => Distinct(r1.table)
    BY <2>1, <2>2a, UpsertDistinct
  <2>4. r1.count <= i + 1 /\ (r1.ok => r0.ok) /\ r0.count \in Nat
    <3>1. Kept(r0, e, r1) \/ (\E k \in 1..Len(r0.table) : Replaced(r0, e, r1, k)) \/ Full(r0, r1) \/ Added(r0, e, r1)
      BY <2>1, UpsertCases
    <3>2. r0.count \in Nat
      BY <2>1 DEF Results
    <3>3. CASE Kept(r0, e, r1)
      BY <2>2a, <3>2, <3>3 DEF Kept
    <3>4. ASSUME NEW k, Replaced(r0, e, r1, k) PROVE r1.count <= i + 1 /\ r0.ok
      BY <2>2a, <3>2, <3>4 DEF Replaced
    <3>5. CASE Full(r0, r1)
      BY <2>2a, <3>2, <3>5 DEF Full
    <3>6. CASE Added(r0, e, r1)
      BY <2>2a, <3>2, <3>6 DEF Added
    <3> QED BY <3>1, <3>2, <3>3, <3>4, <3>5, <3>6
  <2>5. ASSUME r1.ok, n <= MaxEntries, NEW j \in 1..(i + 1), Accepted(P(j))
        PROVE  FoundIn(r1.table, P(j), doc.path)
    <3>1. CASE j = i + 1
      <4>1. r0.count < MaxEntries
        BY <1>0, <2>2a, <2>4, <2>5
      <4>2. P(j) = e
        BY <3>1 DEF e
      <4> QED BY <2>1, <2>5, <4>1, <4>2, UpsertFound
    <3>2. CASE j \in 1..i
      <4>1. FoundIn(r0.table, P(j), e.from)
        BY <2>1, <2>2, <2>4, <2>5, <3>2
      <4> QED BY <2>1, <2>5, <4>1, UpsertFound
    <3> QED BY <1>0, <3>1, <3>2
  <2> QED BY <2>1, <2>3, <2>4, <2>5 DEF r1
<1>4. n \in Fine
  <2> HIDE DEF Fine, n
  <2>1. 0..n \subseteq Fine
    BY <1>0, <1>2, <1>3, Upto
  <2> QED BY <1>0, <2>1
<1>5. r.table = U[n].table /\ r.ok = (U[n].ok /\ U[n].count > 0) /\ U[n] \in Results
  BY <1>0, <1>1 DEF UpsertXmlEntries, U
<1>6. r.table \in Tables /\ r.ok \in BOOLEAN
  BY <1>5 DEF Results
<1> QED BY <1>0, <1>4, <1>5, <1>6 DEF P
-----------------------------------------------------------------------------
(* The inductive invariant: what the table and the file hold, the two      *)
(* alike, and the last document in the table from its import on.           *)
DbTypeOK ==
  /\ table \in Tables /\ file \in [exists : BOOLEAN, rows : Seq(Entries)]
  /\ saving \in BOOLEAN /\ dbOk \in BOOLEAN /\ crashes \in Nat /\ Good(last)
Unique == crashes = 0 => Distinct(table) /\ Distinct(file.rows)
Imported ==
  (saving \/ dbOk) /\ Len(last.devices) <= MaxEntries =>
    \A i \in 1..Len(last.devices) : Accepted(ParseXmlDeviceFrom(last, i)) =>
      FoundIn(table, ParseXmlDeviceFrom(last, i), last.path)
DbInv == DbTypeOK /\ Unique /\ TableIsFile /\ Imported

(* It holds of an empty database,                                          *)
LEMMA DbInitInv == DbInit => DbInv
<1> SUFFICES ASSUME DbInit PROVE DbInv
  OBVIOUS
<1>1. /\ <<>> \in Tables /\ Distinct(<<>>) /\ file.rows = <<>> /\ file.exists
      /\ file \in [exists : BOOLEAN, rows : Seq(Entries)]
  BY DbAssumption DEF DbInit, Tables, Distinct, IndexFile
<1>2. Load(file) = <<>>
  BY <1>1, LoadSame
<1>3. Len(last.devices) = 0
  BY DEF DbInit, NoDocument
<1>4. DbTypeOK
  BY <1>1 DEF DbInit, DbTypeOK, Good
<1>5. Unique /\ TableIsFile
  BY <1>1, <1>2 DEF DbInit, Unique, TableIsFile
<1>6. Imported
  BY <1>3 DEF Imported
<1> QED BY <1>4, <1>5, <1>6 DEF DbInv

(* A step that fails or that begins to save.                               *)
LEMMA NothingImported ==
  ASSUME last' = NoDocument \/ (~saving' /\ ~dbOk')
  PROVE  Imported'
BY DEF Imported, NoDocument

(* and every step keeps it.                                                *)
LEMMA DbStepInv == DbInv /\ DbNext => DbInv'
<1> SUFFICES ASSUME DbInv, DbNext PROVE DbInv'
  OBVIOUS
<1>0. /\ table \in Tables /\ file \in [exists : BOOLEAN, rows : Seq(Entries)] /\ crashes \in Nat
      /\ Good(last) /\ Good(NoDocument) /\ <<>> \in Tables /\ <<>> \in Seq(Entries) /\ Distinct(<<>>)
      /\ saving \in BOOLEAN /\ dbOk \in BOOLEAN
  BY DbAssumption DEF DbInv, DbTypeOK, Good, Tables, Distinct
<1>1. Load(file) \in Tables /\ (crashes = 0 => Distinct(Load(file)))
  BY <1>0, LoadTable, LoadDistinct DEF DbInv, Unique
<1>2. ASSUME NEW t \in Tables, crashes = 0 => Distinct(t), DbFails(t), crashes' = crashes, Good(last'), ~saving
      PROVE  DbInv'
  BY <1>0, <1>2, NothingImported DEF DbFails, DbInv, DbTypeOK, Unique, TableIsFile
<1>3. ASSUME NEW t \in Tables, crashes = 0 => Distinct(t), SaveBegin(t), crashes' = crashes, Good(last'),
             Imported'
      PROVE  DbInv'
  BY <1>0, <1>3 DEF SaveBegin, DbInv, DbTypeOK, Unique, TableIsFile, IndexFile
<1>4. ASSUME NEW d \in Documents, DbImportXml(d) PROVE DbInv'
  <2> DEFINE r == UpsertXmlEntries(Load(file), d)
  <2>1. last' = d /\ crashes' = crashes /\ ~saving /\ Good(d) /\ Good(last')
    BY <1>4 DEF DbImportXml, Good
  <2>2. /\ r.table \in Tables /\ r.ok \in BOOLEAN
        /\ crashes = 0 => Distinct(r.table)
        /\ r.ok /\ Len(d.devices) <= MaxEntries =>
              \A i \in 1..Len(d.devices) : Accepted(ParseXmlDeviceFrom(d, i)) =>
                FoundIn(r.table, ParseXmlDeviceFrom(d, i), d.path)
    BY <1>1, <2>1, ImportIs
  <2>3. DbFails(table) \/ (r.ok /\ SaveBegin(r.table)) \/ DbFails(r.table)
    BY <1>4 DEF DbImportXml
  <2> HIDE DEF r
  <2>4. CASE DbFails(table)
    BY <1>0, <1>2, <2>1, <2>4 DEF DbInv, Unique
  <2>5. CASE DbFails(r.table)
    BY <1>2, <2>1, <2>2, <2>5
  <2>6. CASE r.ok /\ SaveBegin(r.table)
    <3>1. table' = r.table
      BY <2>6 DEF SaveBegin
    <3>2. Imported'
      BY <2>1, <2>2, <2>6, <3>1 DEF Imported
    <3> QED BY <1>3, <2>1, <2>2, <2>6, <3>2
  <2> QED BY <2>3, <2>4, <2>5, <2>6
<1>5. CASE DbImportFails
  BY <1>0, <1>2, <1>5 DEF DbImportFails, DbInv, Unique
<1>6. CASE SaveEnd
  <2>1. file' = IndexFile(table) /\ table' = table /\ last' = last /\ crashes' = crashes /\ ~saving' /\ dbOk' /\ saving
    BY <1>6 DEF SaveEnd
  <2>2. file'.rows = table /\ file'.exists /\ file' \in [exists : BOOLEAN, rows : Seq(Entries)]
    BY <1>0, <2>1 DEF IndexFile, Tables
  <2>3. Load(file') = table
    BY <1>0, <2>2, LoadSame
  <2>4. TableIsFile'
    BY <2>1, <2>2, <2>3 DEF TableIsFile
  <2>5. Imported'
    BY <2>1 DEF DbInv, Imported
  <2>6. Unique'
    BY <2>1, <2>2 DEF DbInv, Unique
  <2> QED BY <1>0, <1>6, <2>1, <2>2, <2>4, <2>5, <2>6 DEF DbInv, DbTypeOK, SaveEnd
<1>7. CASE DbReload
  <2>1. last' = NoDocument /\ crashes' = crashes /\ ~saving /\ Imported'
    BY <1>7, NothingImported DEF DbReload
  <2>2. CASE file.exists
    <3>1. table' = Load(file) /\ file' = file /\ saving' = saving /\ dbOk' = TRUE
      BY <1>7, <2>2 DEF DbReload
    <3>2. Unique' /\ TableIsFile'
      BY <1>1, <2>1, <2>2, <3>1 DEF DbInv, Unique, TableIsFile
    <3> QED BY <1>0, <1>1, <2>1, <3>1, <3>2 DEF DbInv, DbTypeOK
  <2>3. CASE ~file.exists
    BY <1>0, <1>3, <1>7, <2>1, <2>3 DEF DbReload
  <2> QED BY <2>2, <2>3
<1>8. CASE CrashInSave
  <2>1. last' = NoDocument /\ crashes' = crashes + 1 /\ saving' = FALSE /\ dbOk' = TRUE /\ Imported'
    BY <1>8, NothingImported DEF CrashInSave
  <2>2. file'.rows \in Seq(Entries) /\ file'.exists /\ file' \in [exists : BOOLEAN, rows : Seq(Entries)]
    <3>0. table \in Seq(Entries) /\ Len(table) \in Nat
      BY <1>0 DEF Tables
    <3>1. PICK n \in 0..Len(table) :
            \/ file' = IndexFile(SubSeq(table, 1, n))
            \/ n < Len(table) /\ \E e \in Torn(table[n + 1]) : file' = IndexFile(Append(SubSeq(table, 1, n), e))
      BY <1>8 DEF CrashInSave
    <3>2. SubSeq(table, 1, n) \in Seq(Entries)
      BY <3>0
    <3>3. ASSUME n < Len(table), NEW e \in Torn(table[n + 1]) PROVE e \in Entries
      <4>1. table[n + 1] \in Entries
        BY <3>0, <3>3
      <4> QED BY <3>3, <4>1 DEF Torn, Entries
    <3>4. \E rows \in Seq(Entries) : file' = IndexFile(rows)
      <4>1. CASE file' = IndexFile(SubSeq(table, 1, n))
        BY <3>2, <4>1
      <4>2. ASSUME n < Len(table), NEW e \in Torn(table[n + 1]), file' = IndexFile(Append(SubSeq(table, 1, n), e))
            PROVE  \E rows \in Seq(Entries) : file' = IndexFile(rows)
        <5>1. e \in Entries
          BY <3>3, <4>2
        <5>2. Append(SubSeq(table, 1, n), e) \in Seq(Entries)
          BY <3>2, <5>1
        <5> QED BY <4>2, <5>2
      <4> QED BY <3>1, <4>1, <4>2
    <3> QED BY <3>4 DEF IndexFile
  <2>3. table' = Load(file')
    BY <1>8 DEF CrashInSave
  <2>4. table' \in Tables
    BY <2>2, <2>3, LoadTable
  <2>4a. crashes' \in Nat
    BY <1>0, <2>1
  <2>5. DbTypeOK'
    BY <1>0, <2>1, <2>2, <2>4, <2>4a, Zenon DEF DbTypeOK, Good
  <2>6. Unique' /\ TableIsFile'
    BY <1>0, <2>1, <2>2, <2>3 DEF Unique, TableIsFile
  <2> QED BY <2>1, <2>5, <2>6 DEF DbInv
<1>9. CASE FileRemoved
  <2>1. Imported'
    BY <1>9, NothingImported DEF FileRemoved
  <2>2. /\ table' = table /\ saving' = saving /\ last' = last /\ dbOk' = FALSE /\ crashes' = crashes + 1
        /\ file' = [exists |-> FALSE, rows |-> <<>>]
    BY <1>9 DEF FileRemoved, NoFile
  <2>3. file' \in [exists : BOOLEAN, rows : Seq(Entries)]
    BY <1>0, <2>2
  <2>3a. crashes' \in Nat
    BY <1>0, <2>2
  <2>4. DbTypeOK'
    BY <1>0, <2>2, <2>3, <2>3a, Zenon DEF DbTypeOK, Good
  <2>5. Unique' /\ TableIsFile'
    BY <1>0, <2>2 DEF Unique, TableIsFile
  <2> QED BY <2>1, <2>4, <2>5 DEF DbInv
<1> QED BY <1>4, <1>5, <1>6, <1>7, <1>8, <1>9 DEF DbNext

(* db_find_match_locked finds what is found.                               *)
LEMMA MatchFinds ==
  ASSUME NEW t \in Tables, NEW a \in Entries, NEW p, FoundIn(t, a, p),
         NEW k, k = DbFindMatch(t, <<a.vendor, a.product, a.revision>>)
  PROVE  k # 0 /\ t[k].revision = a.revision /\ t[k].from = p
<1> DEFINE same == {i \in 1..Len(t) : t[i].vendor = a.vendor /\ t[i].product = a.product}
           exact == {i \in same : t[i].revision = a.revision}
           c == CHOOSE i \in exact : \A j \in exact : i <= j
<1>0. t \in Seq(Entries) /\ Len(t) \in Nat
  BY DEF Tables
<1>1. \A i \in 1..Len(t) : i \in exact <=> SameKey(t[i], a)
  BY DEF SameKey, Key
<1>2. PICK j \in 1..Len(t) : /\ SameKey(t[j], a) /\ t[j].from = p
                             /\ \A l \in 1..Len(t) : SameKey(t[l], a) => j <= l
  BY DEF FoundIn
<1>3. exact \in SUBSET Nat /\ j \in exact /\ exact \subseteq 1..Len(t)
  BY <1>0, <1>1, <1>2
<1>4. c \in exact /\ c <= j
  <2> HIDE DEF exact
  <2> QED BY <1>3, FirstPlace
<1>5. c = j
  <2> HIDE DEF exact, c
  <2> QED BY <1>0, <1>1, <1>2, <1>3, <1>4
<1>6. k = c
  BY <1>3 DEF DbFindMatch
<1>7. t[c].revision = a.revision
  BY <1>4
<1>8. c # 0
  <2> HIDE DEF c
  <2> QED BY <1>0, <1>5
<1> HIDE DEF c
<1> QED BY <1>2, <1>5, <1>6, <1>7, <1>8

(* The invariant gives the property.                                       *)
LEMMA DbInvGivesSound == DbInv => DatabaseIsSound
<1> SUFFICES ASSUME DbInv PROVE DatabaseIsSound
  OBVIOUS
<1>1. KeysUnique
  BY DEF DbInv, Unique, Distinct, KeysUnique
<1>2. ASSUME ~saving, dbOk, Len(last.devices) <= MaxEntries, NEW i \in 1..Len(last.devices), NEW d,
             d = last.devices[i], d.vendor # 0, d.product # 0, d.revision # NoRevision
      PROVE  LET k == DbFindMatch(table, <<d.vendor, d.product, d.revision>>)
             IN  k # 0 /\ table[k].revision = d.revision /\ table[k].from = last.path
  <2> DEFINE a == ParseXmlDeviceFrom(last, i)
  <2>0. table \in Tables /\ Good(last)
    BY DEF DbInv, DbTypeOK
  <2>1. FieldFrom(last, i, "vendor", 0) = d.vendor /\ FieldFrom(last, i, "product", 0) = d.product
    BY <1>2, <2>0, FieldOwn
  <2>2. FieldFrom(last, i, "revision", NoRevision) = d.revision
    BY <1>2, <2>0, FieldOwn
  <2>3. a.vendor = d.vendor /\ a.product = d.product /\ a.revision = d.revision
    BY <1>2, <2>1, <2>2 DEF ParseXmlDeviceFrom, VendorId
  <2>4. a \in Entries
    BY <2>0, ParsedType
  <2> HIDE DEF a
  <2>5. Accepted(a)
    BY <1>2, <2>3 DEF Accepted
  <2>6. FoundIn(table, a, last.path)
    BY <1>2, <2>5 DEF DbInv, Imported, a
  <2> QED BY <2>0, <2>3, <2>4, <2>6, MatchFinds
<1>3. ImportedIsFound
  BY <1>2 DEF ImportedIsFound
<1> QED BY <1>1, <1>3 DEF DatabaseIsSound, DbInv

(* For any documents, any size of the table and any number of crashes,     *)
(* through imports that fail midway and reloads: db_upsert_locked leaves   *)
(* one entry for each key, slaves.csv holds what the table holds after     *)
(* every call that reports success, and db_find_match_locked finds the     *)
(* devices of the document that was imported last.                         *)
THEOREM DatabaseStaysSound == Spec => []DatabaseIsSound
<1>1. Init => DbInv
  BY DbInitInv DEF Init
<1>2. DbInv /\ [Next]_vars => DbInv'
  <2> SUFFICES ASSUME DbInv, [Next]_vars PROVE DbInv'
    OBVIOUS
  <2>1. CASE DbNext
    BY <2>1, DbStepInv
  <2>2. CASE UNCHANGED dbvars
    BY <2>2 DEF dbvars, DbInv, DbTypeOK, Unique, TableIsFile, Imported
  <2> QED BY <2>1, <2>2 DEF Next, ClientStep, DatabaseStep, vars
<1> QED BY <1>1, <1>2, DbInvGivesSound, PTL DEF Spec
=============================================================================
