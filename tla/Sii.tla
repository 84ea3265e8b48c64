--------------------------------- MODULE Sii --------------------------------
(***************************************************************************)
(* The sections of a slave's EEPROM (SII) as ec_main.c reads them byte by  *)
(* byte: ecx_siifind, ecx_siistring, ecx_siiFMMU, ecx_siiSM with           *)
(* ecx_siiSMnext, and ecx_siiPDO.                                          *)
(*                                                                         *)
(* Contents is what the vendor wrote: a sequence of sections [cat, val];   *)
(* Image is its layout in bytes (external), which the functions parse.     *)
(***************************************************************************)
EXTENDS Integers, Sequences, SequencesExt

CONSTANTS
  SiiContents,  \* the contents to try
  SiiStart,     \* ECT_SII_START, in bytes
  MaxEepBuf,    \* EC_MAXEEPBUF: addresses from here on read as 0xff
  MaxName,      \* EC_MAXNAME
  MaxSm,        \* EC_MAXSM
  MaxEepdo      \* EC_MAXEEPDO

VARIABLES
  contents,  \* the contents of the slave's EEPROM (external)
  answer     \* the last call and what it returned
siivars == <<contents, answer>>

StringCat == 10
FmmuCat == 40
SmCat == 41
PdoCat(t) == 50 + t

Bytes2(w) == <<w % 256, w \div 256>>
Flat(seqs) == FoldLeft(LAMBDA x, y : x \o y, <<>>, seqs)
Even(s) == IF Len(s) % 2 = 0 THEN s ELSE Append(s, 0)
Times(n, f(_)) == [i \in 1..n |-> f(i)]

(* The layout of a section's value (external).                             *)
StringData(ss) == <<Len(ss)>> \o Flat(Times(Len(ss), LAMBDA i : <<Len(ss[i])>> \o ss[i]))
SmData(sms) ==
  Flat(Times(Len(sms), LAMBDA i : Bytes2(sms[i].start) \o Bytes2(sms[i].len) \o <<38, 0, 1, 0>>))
PdoData(pdos) ==
  Flat(Times(Len(pdos), LAMBDA i :
         Bytes2(6656 + i) \o <<Len(pdos[i].entries), pdos[i].sm, 0, 0, 0, 0>>
           \o Flat(Times(Len(pdos[i].entries), LAMBDA k : <<0, 96, 0, 0, 0, pdos[i].entries[k], 0, 0>>))))
Data(sec) ==
  CASE sec.cat = StringCat -> StringData(sec.val)
    [] sec.cat = FmmuCat -> sec.val
    [] sec.cat = SmCat -> SmData(sec.val)
    [] sec.cat \in {PdoCat(0), PdoCat(1)} -> PdoData(sec.val)
    [] OTHER -> sec.val
Section(sec) == Bytes2(sec.cat) \o Bytes2(Len(Even(Data(sec))) \div 2) \o Even(Data(sec))
Image == Flat(Times(Len(contents), LAMBDA i : Section(contents[i]))) \o <<255, 255>>

-----------------------------------------------------------------------------
(* ecx_siigetbyte, the image being im.                                     *)
Byte(im, a) ==
  IF a < MaxEepBuf /\ a - SiiStart + 1 \in DOMAIN im THEN im[a - SiiStart + 1] ELSE 255
Pair(im, a) == Byte(im, a) + 256 * Byte(im, a + 1)

(* From section to section until the category is found or the end.         *)
RECURSIVE FindFrom(_, _, _)
FindFrom(im, a, cat) ==
  IF Pair(im, a) = cat THEN a + 2
  ELSE IF Pair(im, a) = 65535 THEN 0
  ELSE FindFrom(im, a + 4 + 2 * Pair(im, a + 2), cat)
SiiFind(im, cat) == FindFrom(im, SiiStart, cat)

(* The strings before the one that is wanted are skipped; a long one is    *)
(* cut off.                                                                *)
RECURSIVE StringAt(_, _)
StringAt(im, ba_n) ==
  LET ba == ba_n[1] IN
  IF ba_n[2] = 1 THEN [j \in 1..(IF Byte(im, ba) < MaxName THEN Byte(im, ba) ELSE MaxName) |-> Byte(im, ba + j)]
  ELSE StringAt(im, <<ba + 1 + Byte(im, ba), ba_n[2] - 1>>)

SiiString(im, n) ==
  LET a == SiiFind(im, StringCat)
  IN  IF a = 0 \/ n = 0 \/ n > Byte(im, a + 2) THEN <<>> ELSE StringAt(im, <<a + 3, n>>)

SiiFmmu(im) ==
  LET a == SiiFind(im, FmmuCat)
      n == 2 * Pair(im, a)
  IN  IF a = 0 THEN <<0, 0, 0, 0>>
      ELSE Times(4, LAMBDA i : IF i <= 2 \/ n > 2 THEN Byte(im, a + 1 + i) ELSE 0)

SiiSm(im) ==
  LET a == SiiFind(im, SmCat)
  IN  IF a = 0 THEN <<>>
      ELSE Times((Pair(im, a) \div 4) % 256,
                 LAMBDA i : [start |-> Pair(im, a + 2 + 8 * (i - 1)), len |-> Pair(im, a + 4 + 8 * (i - 1))])

(***************************************************************************)
(* ecx_siiPDO: r is [a, c: words counted, n: nPDO, bits: SMbitsize].  A    *)
(* PDO without a sync manager is skipped.                                 *)
(***************************************************************************)
EntryBits(im, a, e) == FoldLeft(LAMBDA x, k : x + Byte(im, a + 8 * (k - 1) + 5), 0, Times(e, LAMBDA i : i))

PdoStep(im, r) ==
  LET e == Byte(im, r.a + 2)
      sm == Byte(im, r.a + 3)
  IN  [a |-> r.a + 8 + 8 * e, c |-> r.c + 4 + 4 * e, n |-> r.n + 1,
       bits |-> IF sm < MaxSm THEN [r.bits EXCEPT ![sm] = @ + EntryBits(im, r.a + 8, e)] ELSE r.bits]

RECURSIVE PdoLoop(_, _, _)
PdoLoop(im, length, r) ==
  LET next == PdoStep(im, r)
  IN  IF next.n < MaxEepdo - 1 /\ next.c < length THEN PdoLoop(im, length, next) ELSE next.bits

SiiPdo(im, t) ==
  LET a == SiiFind(im, PdoCat(t))
      none == [s \in 0..(MaxSm - 1) |-> 0]
  IN  IF a = 0 THEN none ELSE PdoLoop(im, Pair(im, a), [a |-> a + 2, c |-> 1, n |-> 0, bits |-> none])

-----------------------------------------------------------------------------
StartSii(c) == contents = c /\ answer = [op |-> "none"]
SiiInit == \E c \in SiiContents : StartSii(c)

SiiNext ==
  /\ answer.op = "none" /\ UNCHANGED contents
  /\ \/ \E n \in 0..3 : answer' = [op |-> "string", n |-> n, val |-> SiiString(Image, n)]
     \/ answer' = [op |-> "fmmu", val |-> SiiFmmu(Image)]
     \/ answer' = [op |-> "sm", val |-> SiiSm(Image)]
     \/ \E t \in {0, 1} : answer' = [op |-> "pdo", t |-> t, val |-> SiiPdo(Image, t)]

(* The first section of a category, or nothing.                            *)
Val(cat) ==
  LET at == {i \in 1..Len(contents) : contents[i].cat = cat}
  IN  IF at = {} THEN <<>> ELSE contents[CHOOSE i \in at : \A j \in at : i <= j].val
Take(s, n) == SubSeq(s, 1, IF Len(s) < n THEN Len(s) ELSE n)
SumSeq(s) == FoldLeft(LAMBDA x, y : x + y, 0, s)

(* What the functions return is what the vendor wrote, wherever in the     *)
(* EEPROM its section is, whatever others there are: names up to their     *)
(* longest, the four FMMUs, all sync managers, ...                         *)
SectionsAreRead ==
  /\ answer.op = "string" =>
       answer.val = IF answer.n \in 1..Len(Val(StringCat)) THEN Take(Val(StringCat)[answer.n], MaxName) ELSE <<>>
  /\ answer.op = "fmmu" =>
       \A i \in 1..4 : answer.val[i] = IF i <= Len(Val(FmmuCat)) THEN Val(FmmuCat)[i] ELSE 0
  /\ answer.op = "sm" => answer.val = Val(SmCat)

(* ... and for every sync manager the bits of its PDOs, as many PDOs as    *)
(* there is room for.  (An empty PDO section is left out: ecx_siiPDO looks *)
(* at the length after the first PDO.)                                     *)
PdoSizesAreRight ==
  answer.op = "pdo" /\ (\A i \in 1..Len(contents) : contents[i].cat = PdoCat(answer.t) => contents[i].val # <<>>) =>
    LET pdos == Take(Val(PdoCat(answer.t)), MaxEepdo - 1)
    IN  \A s \in 0..(MaxSm - 1) :
          answer.val[s] = SumSeq(Times(Len(pdos), LAMBDA i : IF pdos[i].sm = s THEN SumSeq(pdos[i].entries) ELSE 0))
=============================================================================
