-------------------------------- MODULE MCBus -------------------------------
(* An instance of MasterBus: the buses, networks, devices and EEPROMs that *)
(* its parts are tried on.                                                 *)
EXTENDS MasterBus

(* Process data: no, a few or many bits each way, with and without a       *)
(* mailbox; two sync managers of a direction, adjoining or apart; slaves   *)
(* that must not be sent LRW.                                              *)
Sm(start, n) == IF n = 0 THEN <<>> ELSE <<[start |-> start, len |-> n]>>
Io(o, i, m, b) ==
  [out |-> o, in |-> i, osm |-> Sm(0, Bytes(o)), ism |-> Sm(100, Bytes(i)), mbx |-> m, block |-> b]
IoKinds == {Io(o, i, m, FALSE) : o \in {0, 3, 16}, i \in {0, 5, 48}, m \in BOOLEAN}
IoTwoSm(gap) ==
  [Io(16, 16, TRUE, FALSE) EXCEPT
     !.osm = <<[start |-> 0, len |-> 1], [start |-> 1 + gap, len |-> 1]>>,
     !.ism = <<[start |-> 8, len |-> 1], [start |-> 9 + gap, len |-> 1]>>]
IoBlocks == {Io(o, i, m, TRUE) : o \in {0, 16}, i \in {5, 48}, m \in BOOLEAN}
MCBuses ==
  {[slaves |-> s, mode |-> m, dc |-> TRUE] :
     s \in UNION {[1..n -> IoKinds] : n \in 1..2}, m \in {"plain", "overlap", "packed"}}
  \cup
  {[slaves |-> <<a, b>>, mode |-> "plain", dc |-> FALSE] :
     a \in IoBlocks \cup {IoTwoSm(0), IoTwoSm(3)}, b \in IoKinds}

(* Every tree of up to four slaves, in the order of the frame.             *)
PortRank(p) == CASE p = 3 -> 1 [] p = 1 -> 2 [] p = 2 -> 3
RECURSIVE UpFrom(_, _)
UpFrom(t, i) == IF i = 0 THEN {} ELSE {i} \cup UpFrom(t, t[i].up)
IsTree(t) ==
  /\ t[1].up = 0 /\ t[1].port = 3
  /\ \A i \in 2..Len(t) :
       /\ t[i].up \in UpFrom(t, i - 1)
       /\ \A j \in 2..(i - 1) : t[j].up = t[i].up => PortRank(t[j].port) < PortRank(t[i].port)
Trees(n) ==
  {t \in [1..n -> [up : 0..(n - 1), port : {3, 1, 2}]] : (\A i \in 1..n : t[i].up < i) /\ IsTree(t)}
Nets(n) ==
  {[i \in 1..n |-> [up |-> t[i].up, port |-> t[i].port, dc |-> d[i], link |-> IF i = l THEN 2 ELSE 1]] :
     t \in Trees(n), d \in [1..n -> BOOLEAN], l \in {1, n}}
MCNetworks == UNION {Nets(n) : n \in 1..4}

MCIdentity == <<"a", "b">>
MCChunk == <<2, 3>>

(* Devices with CoE, SoE and without, without a mailbox, of two revisions. *)
Box(id, rev, rx, tx, proto, pdo, coe, soe) ==
  [man |-> 10, id |-> 20 + id, rev |-> 30 + rev, ser |-> 40, rx |-> rx, tx |-> tx, proto |-> proto,
   sm |-> 10 * id + rev, pdo |-> pdo, coe |-> coe, soe |-> soe]
Boxes == {Box(1, 1, 50, 60, 1, 3, 4, 0), Box(1, 2, 50, 0, 3, 5, 0, 8), Box(2, 1, 0, 0, 0, 6, 0, 0),
          Box(3, 1, 51, 61, 2, 7, 0, 0)}
MCLines ==
  UNION {[1..n -> Boxes] : n \in 0..2} \cup [1..3 -> {b \in Boxes : b.id = 21}]
    \cup {[i \in 1..4 |-> Box(1, 1, 50, 60, 1, 3, 4, 0)]}

(* EEPROMs of up to three sections, in any order and twice, too.           *)
Sec(cat, val) == [cat |-> cat, val |-> val]
Pdo(sm, e) == [sm |-> sm, entries |-> e]
Sections ==
  {Sec(StringCat, <<<<65>>, <<66, 67, 68, 69>>, <<70, 71>>>>), Sec(StringCat, <<<<65, 66>>>>),
   Sec(FmmuCat, <<1, 2>>), Sec(FmmuCat, <<1, 2, 3, 255>>),
   Sec(SmCat, <<[start |-> 4096, len |-> 128], [start |-> 4224, len |-> 128], [start |-> 4352, len |-> 0]>>),
   Sec(SmCat, <<>>), Sec(30, <<10, 0, 41, 0>>), Sec(0, <<>>)}
  \cup {Sec(PdoCat(t), p) : t \in {0, 1},
          p \in {<<Pdo(2, <<16, 32>>)>>,
                 <<Pdo(255, <<8, 8>>), Pdo(2, <<1, 7>>), Pdo(3, <<>>), Pdo(2, <<9>>)>>}}
MCContents == UNION {[1..n -> Sections] : n \in 0..3}

(* Slaves with and without Complete Access, with right, shifted and        *)
(* missing types, up to a sync manager more than there is room for.        *)
MCPdoBits == <<<<16, 8>>, <<1, 7, 255>>, <<>>, <<32>>>>
Assigns == {<<>>, <<1>>, <<4, 0, 2>>, <<3, 1>>}
Dictionary(o, i, t, c) ==
  [types |-> t, use |-> SubSeq(<<"no", "no", "out", "in", "no", "in">>, 1, Len(t)),
   assign |-> SubSeq(<<<<>>, <<>>, o, i, <<>>, <<1>>>>, 1, Len(t)), ca |-> c]
MCDictionaries ==
  {Dictionary(o, i, t, c) : o \in Assigns, i \in Assigns, c \in BOOLEAN,
     t \in {<<1, 2>>, <<1, 2, 3>>, <<1, 2, 3, 4>>, <<0, 1, 2, 3>>, <<1, 2, 0, 0>>, <<1, 2, 0, 4>>,
            <<1, 2, 3, 4, 0, 4>>}}

(* Tracks that adjoin, in any order, with a gap, with an overlap, with a   *)
(* slave that is not there, with too many stators, and a long one; journeys *)
(* both ways, to a target off the track, at speed, with an acceleration    *)
(* that the braking turns round, and without a motion.                     *)
Stator(s, a, b) ==
  [line |-> "stator", slave |-> s, from |-> a, to |-> b, pitch |-> 1, counts |-> 2, outs |-> TRUE, ins |-> TRUE]
Other(l) == [Stator(0, 0, 0) EXCEPT !.line = l]
MCTracks ==
  {<<Other("skip"), Stator(1, 0, 4), Stator(2, 4, 9), Stator(3, 9, 12)>>,
   <<Stator(2, 4, 9), [Stator(1, 0, 4) EXCEPT !.ins = FALSE], [Stator(3, 9, 12) EXCEPT !.outs = FALSE]>>,
   <<Stator(1, 0, 5), Stator(4, 5, 8), Stator(1, 8, 12)>>, <<Stator(1, 0, 4), Stator(2, 6, 12)>>,
   <<Stator(1, 0, 6), Stator(2, 8, 12), Stator(3, 4, 7)>>, <<Stator(1, 0, 4), Other("bad")>>, <<Other("skip")>>,
   <<Stator(1, 0, 3), Stator(2, 3, 6), Stator(3, 6, 9), Stator(1, 9, 12)>>,
   <<Stator(1, 0, 9), Stator(2, 9, 18), Stator(3, 18, 27)>>}
MCJourneys ==
  {[motion |-> TRUE, start |-> s, target |-> t, vmax |-> v, acc |-> a, cycles |-> c, drives |-> d, op |-> TRUE] :
     s \in {0, 3, 11}, t \in {0, 5, 11, 12}, v \in {1, 3, 4}, a \in {1, 2}, c \in {-1, 3}, d \in BOOLEAN}
  \cup {[motion |-> TRUE, start |-> s, target |-> 26 - s, vmax |-> v, acc |-> 1, cycles |-> -1, drives |-> TRUE,
          op |-> TRUE] : s \in {0, 1, 25}, v \in {6, 7}}
  \cup {[motion |-> TRUE, start |-> s, target |-> 26 - s, vmax |-> v, acc |-> a, cycles |-> c, drives |-> TRUE,
          op |-> TRUE] : s \in {0, 1, 26}, v \in {5, 12}, a \in {8, 11}, c \in {-1, 3}}
  \cup {[NoJourney EXCEPT !.cycles = c, !.drives = TRUE] : c \in {-1, 2}}
=============================================================================
