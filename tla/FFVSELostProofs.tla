-------------------------- MODULE FFVSELostProofs --------------------------
(***************************************************************************)
(* No document that is not attached is ever accepted, whatever messages    *)
(* have been lost: proved of FFVSELost for every value of the constants.   *)
(*                                                                         *)
(* M and L are the messages of the epoch and the sets of documents they    *)
(* lead to, as in FFVSEProofs; of M the server has what it has, and the    *)
(* entries of earlier epochs that no search deleted.  The walk stands at   *)
(* the label of entry srv.i and everything it may still add is attached,   *)
(* or it has left the chain.  It leaves it at a gap, where the entry of    *)
(* the turn before does not open, or through an older entry stored under   *)
(* the same label.  Labels of an older epoch are made with a shift that is *)
(* no longer, so an older chain stays above the labels of this one turn by *)
(* turn, never reaches this epoch's snapshot, and ends in junk.            *)
(***************************************************************************)
EXTENDS FFVSELost, FFVSEProofs

\* L ends in documents that are attached; after the compaction of a chain with
\* gaps they need not be all of them.
Accounts(w, L, M) ==
  /\ L[0] = {} /\ L[WC1[w]] \subseteq live[w]
  /\ \A i \in 1..WC1[w] : EntryAt(w, WC2[w], L, M, i)

\* The label a cell was made for, and the label a link leads to.
Made(cell, j, c) ==
  /\ cell.at = St(j, c)
  /\ IF IsSnapshot(j, c) THEN cell.tag = "snap"
     ELSE cell.tag = "link" /\ cell.prev = Prev(j, c)
MadeBy(cell, c2) == \E c \in 0..c2, j \in 1..MaxC1 : Made(cell, j, c)

IndexMade(w) == \A l \in DOMAIN es[w] : es[w][l].at = l /\ MadeBy(es[w][l], WC2[w])

\* Under the label of an entry that has been sent is that entry, an older one,
\* or nothing.
StoreKeeps(w, M) ==
  \A i \in 1..Stored(w) : St(i, WC2[w]) \in DOMAIN es[w] =>
    \/ es[w][St(i, WC2[w])] = M[i].e
    \/ MadeBy(es[w][St(i, WC2[w])], WC2[w] - 1)

\* The entry left over from the turn before does not open here.
LeftOver == srv.e # None => srv.e.at # srv.st

OnChain(w, L) ==
  /\ srv.st = St(srv.i, WC2[w])
  /\ srv.R \subseteq live[w] /\ L[srv.i] \ srv.Del \subseteq live[w]
  /\ LeftOver
OffChain(w) ==
  /\ srv.st = NoSt \/ (WC2[w] > 0 /\ srv.st > St(srv.i, WC2[w]))
  /\ WC2[w] = 0 => srv.R \subseteq live[w]

WalkKeeps(w, L) ==
  srv # None /\ w = kw /\ WC1[w] > 0 =>
    /\ srv.i \in 1..WC1[w]
    /\ srv.e # None => MadeBy(srv.e, WC2[w]) /\ srv.e.tag = "link"
    /\ OnChain(w, L) \/ OffChain(w)

ReplyKeeps(w) ==
  pc = "search" /\ reply # None /\ w = kw => reply.junk \/ reply.R \subseteq live[w]

Accounted(w, L, M) ==
  /\ Accounts(w, L, M) /\ IndexMade(w) /\ StoreKeeps(w, M) /\ NetHolds(w, M)
  /\ WalkKeeps(w, L) /\ ReplyKeeps(w)

LostInv == /\ TypeInv /\ Phase
           /\ \A w \in Keyword : \E L \in Histories, M \in Chains : Accounted(w, L, M)

-----------------------------------------------------------------------------
(* Labels of different epochs.                                             *)

\* Entry j of an epoch that is not later: if its label is above that of entry
\* i, or equal to it by coincidence, the entry it is linked to is above the
\* entry i is linked to.  First entries have the lowest labels.
LEMMA LabelOrder ==
  ASSUME NEW c2 \in 0..MaxC2, NEW c \in 0..c2, NEW i \in 1..MaxC1, NEW j \in 1..MaxC1
  PROVE  /\ St(j, c) \in Nat /\ St(i, c2) \in Nat
         /\ i > 1 /\ j > 1 /\ St(j, c) > St(i, c2) => St(j - 1, c) > St(i - 1, c2)
         /\ i > 1 /\ c < c2 /\ St(j, c) = St(i, c2) => j > 1 /\ St(j - 1, c) > St(i - 1, c2)
         /\ St(1, c) <= St(1, c2)
         /\ c < c2 => St(1, c) < St(1, c2)
         /\ i > 1 => St(1, c2) < St(i, c2)
<1> DEFINE S == Shift(c2)
           T == Shift(c)
<1>1. /\ c \in 0..MaxC2 /\ c \in Nat /\ c2 \in Nat /\ c <= c2 /\ i \in Nat /\ j \in Nat
      /\ 1 \in 1..MaxC1 /\ (i > 1 => i - 1 \in 1..MaxC1) /\ (j > 1 => j - 1 \in 1..MaxC1)
      /\ i >= 1 /\ j >= 1
  BY BoundsAssumption
<1>2. S \in Nat /\ T \in Nat /\ T <= S /\ c2 < S /\ c < T
  BY <1>1, ConcatAssumption
<1>3. \A k \in 1..MaxC1 : St(k, c2) = k * S + c2 /\ St(k, c) = k * T + c
  BY <1>1, ConcatAssumption
<1> HIDE DEF S, T
<1>4. /\ St(i, c2) = i * S + c2 /\ St(j, c) = j * T + c
      /\ St(1, c2) = 1 * S + c2 /\ St(1, c) = 1 * T + c
      /\ i > 1 => St(i - 1, c2) = (i - 1) * S + c2
      /\ j > 1 => St(j - 1, c) = (j - 1) * T + c
  BY <1>1, <1>3
<1>5. i * S \in Nat /\ j * T \in Nat /\ j * S \in Nat /\ 1 * S = S /\ 1 * T = T
  BY <1>1, <1>2
<1>6. (i - 1) * S = i * S - S /\ (j - 1) * T = j * T - T
  BY <1>1, <1>2
<1>7. i > 1 => i * S > S
  <2>1. \A a, b \in Nat : a > 1 /\ b > 0 => a * b > b
    OBVIOUS
  <2>2. QED
    BY <1>1, <1>2, <2>1
<1>8. i > 1 /\ c < c2 /\ St(j, c) = St(i, c2) => j > 1 /\ St(j - 1, c) > St(i - 1, c2)
  <2> SUFFICES ASSUME i > 1, c < c2, St(j, c) = St(i, c2)
               PROVE  j > 1 /\ St(j - 1, c) > St(i - 1, c2)
    OBVIOUS
  <2>1. j * T + c = i * S + c2
    BY <1>4
  <2>2. T # S
    <3> SUFFICES ASSUME T = S PROVE FALSE
      OBVIOUS
    <3>1. CASE j <= i
      <4>1. j * S <= i * S
        BY <1>1, <1>2, <3>1
      <4>2. QED
        BY <1>1, <1>2, <1>5, <2>1, <4>1
    <3>2. CASE j >= i + 1
      <4>1. j * S >= (i + 1) * S /\ (i + 1) * S = i * S + S
        BY <1>1, <1>2, <3>2
      <4>2. QED
        BY <1>1, <1>2, <1>5, <2>1, <4>1
    <3>3. QED
      BY <1>1, <3>1, <3>2
  <2>3. j # 1
    BY <1>1, <1>2, <1>5, <1>7, <2>1
  <2>4. QED
    BY <1>1, <1>2, <1>4, <1>5, <1>6, <2>1, <2>2, <2>3
<1>9. i > 1 /\ j > 1 /\ St(j, c) > St(i, c2) => St(j - 1, c) > St(i - 1, c2)
  BY <1>1, <1>2, <1>4, <1>5, <1>6
<1>10. QED
  BY <1>1, <1>2, <1>4, <1>5, <1>7, <1>8, <1>9

\* An entry made for a label above the one of entry i, i > 1, or coinciding with
\* it from an older epoch, is a link further up.
LEMMA MadeAbove ==
  ASSUME NEW c2 \in 0..MaxC2, NEW i \in 1..MaxC1, NEW cell,
         \/ MadeBy(cell, c2) /\ cell.at > St(i, c2)
         \/ MadeBy(cell, c2 - 1) /\ cell.at = St(i, c2)
  PROVE  /\ cell.tag = "link"
         /\ i > 1 => cell.prev > St(i - 1, c2)
<1>1. PICK c \in 0..c2, j \in 1..MaxC1 :
        /\ Made(cell, j, c)
        /\ cell.at > St(i, c2) \/ (c < c2 /\ cell.at = St(i, c2))
  <2>1. CASE MadeBy(cell, c2) /\ cell.at > St(i, c2)
    BY <2>1 DEF MadeBy
  <2>2. CASE MadeBy(cell, c2 - 1) /\ cell.at = St(i, c2)
    <3>1. PICK c \in 0..(c2 - 1), j \in 1..MaxC1 : Made(cell, j, c)
      BY <2>2 DEF MadeBy
    <3>2. c \in 0..c2 /\ c < c2
      BY BoundsAssumption
    <3>3. QED
      BY <2>2, <3>1, <3>2
  <2>3. QED
    BY <2>1, <2>2
<1>2. cell.at = St(j, c)
  BY <1>1 DEF Made
<1>3. /\ St(j, c) \in Nat /\ St(i, c2) \in Nat
      /\ i > 1 /\ j > 1 /\ St(j, c) > St(i, c2) => St(j - 1, c) > St(i - 1, c2)
      /\ i > 1 /\ c < c2 /\ St(j, c) = St(i, c2) => j > 1 /\ St(j - 1, c) > St(i - 1, c2)
      /\ St(1, c) <= St(1, c2) /\ (c < c2 => St(1, c) < St(1, c2))
      /\ i > 1 => St(1, c2) < St(i, c2)
  BY LabelOrder
<1>4. 1 \in 1..MaxC1 /\ St(1, c) \in Nat /\ St(1, c2) \in Nat
  <2>1. 1 \in 1..MaxC1
    BY BoundsAssumption
  <2>2. QED
    BY <2>1, LabelOrder
<1>5. j # 1
  <2> SUFFICES ASSUME j = 1 PROVE FALSE
    OBVIOUS
  <2>1. CASE i = 1
    BY <1>1, <1>2, <1>3, <1>4, <2>1
  <2>2. CASE i > 1
    BY <1>1, <1>2, <1>3, <1>4, <2>2
  <2>3. QED
    BY <2>1, <2>2, BoundsAssumption
<1>6. cell.tag = "link" /\ cell.prev = St(j - 1, c)
  BY <1>1, <1>5 DEF Made, IsSnapshot, Prev
<1>7. j > 1
  BY <1>5, BoundsAssumption
<1>8. QED
  BY <1>1, <1>2, <1>3, <1>6, <1>7

-----------------------------------------------------------------------------
(* The initial states.                                                     *)

\* Within one epoch a label names one entry.
LEMMA LabelNames ==
  ASSUME NEW n \in 1..MaxC1, NEW c2 \in 0..MaxC2, NEW i \in 1..n
  PROVE  (CHOOSE j \in 1..n : St(j, c2) = St(i, c2)) = i
<1> DEFINE j == CHOOSE k \in 1..n : St(k, c2) = St(i, c2)
<1>1. j \in 1..n /\ St(j, c2) = St(i, c2)
  OBVIOUS
<1>2. j \in 1..MaxC1 /\ i \in 1..MaxC1
  BY <1>1, BoundsAssumption
<1>3. QED
  BY <1>1, <1>2, StAssumption

\* What there is of the entries the jobs of the epoch and of those before it
\* generated.
PartOf(index, c2, n, run) ==
  /\ index.c1 = n /\ index.c2 = c2
  /\ run.after[n] \subseteq index.live /\ index.live \in SUBSET Id
  /\ \A l \in DOMAIN index.es :
       \/ \E i \in 1..n : l = St(i, c2) /\ index.es[l] = GeneratedE(run, c2, i)
       \/ \E i \in 1..MaxC1, c \in 0..(c2 - 1) : l = St(i, c) /\ index.es[l] \in AnyE(i, c)
  /\ \A l \in DOMAIN index.ps :
       \/ \E i \in 1..n : l = St(i, c2) /\ index.ps[l] = GeneratedP(run, c2, i)
       \/ \E i \in 1..MaxC1, c \in 0..(c2 - 1) : l = St(i, c) /\ index.ps[l] \in AnyP(i, c)

\* A leftover is a cell of an entry of an earlier epoch.
LEMMA OldCells ==
  ASSUME NEW c2 \in 0..MaxC2
  PROVE  /\ \A f \in OldEs(c2) : \A l \in DOMAIN f :
              \E i \in 1..MaxC1, c \in 0..(c2 - 1) : l = St(i, c) /\ f[l] \in AnyE(i, c)
         /\ \A f \in OldPs(c2) : \A l \in DOMAIN f :
              \E i \in 1..MaxC1, c \in 0..(c2 - 1) : l = St(i, c) /\ f[l] \in AnyP(i, c)
<1>1. ASSUME NEW f \in OldEs(c2), NEW l \in DOMAIN f
      PROVE  \E i \in 1..MaxC1, c \in 0..(c2 - 1) : l = St(i, c) /\ f[l] \in AnyE(i, c)
  <2>1. PICK D \in SUBSET OldLabels(c2) :
          f \in {g \in [D -> UNION {OldE(c2, k) : k \in D}] : \A k \in D : g[k] \in OldE(c2, k)}
    BY DEF OldEs
  <2>2. f[l] \in OldE(c2, l)
    BY <2>1
  <2>3. PICK ic \in (1..MaxC1) \X (0..(c2 - 1)) : St(ic[1], ic[2]) = l /\ f[l] \in AnyE(ic[1], ic[2])
    BY <2>2 DEF OldE
  <2>4. ic[1] \in 1..MaxC1 /\ ic[2] \in 0..(c2 - 1)
    OBVIOUS
  <2>5. QED
    BY <2>3, <2>4
<1>2. ASSUME NEW f \in OldPs(c2), NEW l \in DOMAIN f
      PROVE  \E i \in 1..MaxC1, c \in 0..(c2 - 1) : l = St(i, c) /\ f[l] \in AnyP(i, c)
  <2>1. PICK D \in SUBSET OldLabels(c2) :
          f \in {g \in [D -> UNION {OldP(c2, k) : k \in D}] : \A k \in D : g[k] \in OldP(c2, k)}
    BY DEF OldPs
  <2>2. f[l] \in OldP(c2, l)
    BY <2>1
  <2>3. PICK ic \in (1..MaxC1) \X (0..(c2 - 1)) : St(ic[1], ic[2]) = l /\ f[l] \in AnyP(ic[1], ic[2])
    BY <2>2 DEF OldP
  <2>4. ic[1] \in 1..MaxC1 /\ ic[2] \in 0..(c2 - 1)
    OBVIOUS
  <2>5. QED
    BY <2>3, <2>4
<1>3. QED
  BY <1>1, <1>2

LEMMA LostFields ==
  ASSUME NEW n \in 1..MaxC1, NEW c2 \in 0..MaxC2, NEW loss \in Losses(c2, n)
  PROVE  /\ loss.run \in JobRuns(c2, n)
         /\ PartOf(LostFrom(loss), c2, n, loss.run)
<1> DEFINE index == LostFrom(loss)
           At(fates) == {St(i, c2) : i \in {j \in 1..n : loss.fate[j] \in fates}}
           Number(l) == CHOOSE i \in 1..n : St(i, c2) = l
           newE == [l \in At({"stored", "half stored"}) |-> GeneratedE(loss.run, c2, Number(l))]
           newP == [l \in At({"stored"}) |-> GeneratedP(loss.run, c2, Number(l))]
<1>1. /\ loss.c2 = c2 /\ loss.n = n /\ loss.run \in JobRuns(c2, n)
      /\ loss.oldE \in OldEs(c2) /\ loss.oldP \in OldPs(c2) /\ loss.hidden \in SUBSET Id
  BY DEF Losses
<1>2. /\ index.c1 = n /\ index.c2 = c2 /\ index.live = loss.run.after[n] \cup loss.hidden
      /\ index.es = Over(newE, loss.oldE) /\ index.ps = Over(newP, loss.oldP)
  BY <1>1 DEF LostFrom
<1>3. \A i \in 1..n : Number(St(i, c2)) = i
  BY LabelNames
<1>4. loss.run.after[n] \in SUBSET Id
  <2>1. loss.run.after \in [0..n -> SUBSET Id] /\ n \in 0..n
    BY <1>1, BoundsAssumption DEF JobRuns
  <2>2. QED
    BY <2>1
<1> HIDE DEF Number, index
<1>5. ASSUME NEW l \in DOMAIN index.es
      PROVE  \/ \E i \in 1..n : l = St(i, c2) /\ index.es[l] = GeneratedE(loss.run, c2, i)
             \/ \E i \in 1..MaxC1, c \in 0..(c2 - 1) : l = St(i, c) /\ index.es[l] \in AnyE(i, c)
  <2>1. CASE l \in DOMAIN newE
    <3>1. index.es[l] = newE[l] /\ l \in At({"stored", "half stored"})
      BY <1>2, <2>1 DEF Over
    <3>2. PICK i \in 1..n : l = St(i, c2)
      BY <3>1
    <3>3. index.es[l] = GeneratedE(loss.run, c2, i)
      BY <1>3, <3>1, <3>2
    <3>4. QED
      BY <3>2, <3>3
  <2>2. CASE l \notin DOMAIN newE
    <3>1. index.es[l] = loss.oldE[l] /\ l \in DOMAIN loss.oldE
      BY <1>2, <2>2 DEF Over
    <3>2. QED
      BY <1>1, <3>1, OldCells
  <2>3. QED
    BY <2>1, <2>2
<1>6. ASSUME NEW l \in DOMAIN index.ps
      PROVE  \/ \E i \in 1..n : l = St(i, c2) /\ index.ps[l] = GeneratedP(loss.run, c2, i)
             \/ \E i \in 1..MaxC1, c \in 0..(c2 - 1) : l = St(i, c) /\ index.ps[l] \in AnyP(i, c)
  <2>1. CASE l \in DOMAIN newP
    <3>1. index.ps[l] = newP[l] /\ l \in At({"stored"})
      BY <1>2, <2>1 DEF Over
    <3>2. PICK i \in 1..n : l = St(i, c2)
      BY <3>1
    <3>3. index.ps[l] = GeneratedP(loss.run, c2, i)
      BY <1>3, <3>1, <3>2
    <3>4. QED
      BY <3>2, <3>3
  <2>2. CASE l \notin DOMAIN newP
    <3>1. index.ps[l] = loss.oldP[l] /\ l \in DOMAIN loss.oldP
      BY <1>2, <2>2 DEF Over
    <3>2. QED
      BY <1>1, <3>1, OldCells
  <2>3. QED
    BY <2>1, <2>2
<1>7. PartOf(index, c2, n, loss.run)
  BY <1>1, <1>2, <1>4, <1>5, <1>6 DEF PartOf
<1>8. QED
  BY <1>1, <1>7 DEF index

\* The cells of a generated entry.
LEMMA GeneratedCells ==
  ASSUME NEW n \in 1..MaxC1, NEW c2 \in 0..MaxC2, NEW run \in JobRuns(c2, n), NEW i \in 1..n
  PROVE  /\ GeneratedE(run, c2, i) \in ECell /\ GeneratedP(run, c2, i) \in PCell
         /\ St(i, c2) \in Label
         /\ run.after[i] \in SUBSET Id /\ run.after[i - 1] \in SUBSET Id
         /\ run.ups[i].op \in Op /\ run.ups[i].id \in Id
<1>1. i \in 1..MaxC1 /\ i \in 0..n /\ i - 1 \in 0..n /\ (i # 1 => i - 1 \in 1..MaxC1)
  BY BoundsAssumption
<1>2. run.ups \in [1..n -> [op : Op, id : Id]] /\ run.after \in [0..n -> SUBSET Id]
  BY DEF JobRuns
<1>3. /\ run.after[i] \in SUBSET Id /\ run.after[i - 1] \in SUBSET Id
      /\ run.ups[i].op \in Op /\ run.ups[i].id \in Id
  BY <1>1, <1>2
<1>4. Prev(i, c2) \in Label \cup {NoSt} /\ St(i, c2) \in Label
  BY <1>1, CellTypes DEF Prev
<1>5. GeneratedE(run, c2, i) \in ECell
  BY <1>1, <1>3, <1>4, CellTypes DEF GeneratedE
<1>6. GeneratedP(run, c2, i) \in PCell
  BY <1>1, <1>3, CellTypes DEF GeneratedP
<1>7. QED
  BY <1>3, <1>4, <1>5, <1>6

\* An index of LostIndexes is empty, or generated and partly lost.
LEMMA LostCases ==
  ASSUME NEW index \in LostIndexes, index # Empty
  PROVE  \E n \in 1..MaxC1, c2 \in 0..MaxC2 : \E run \in JobRuns(c2, n) :
           PartOf(index, c2, n, run)
<1>1. PICK n \in 1..MaxC1, c2 \in 0..(MaxC2 - 1) : \E loss \in Losses(c2, n) : index = LostFrom(loss)
  BY DEF LostIndexes
<1> PICK loss \in Losses(c2, n) : index = LostFrom(loss)
  BY <1>1
<1>2. c2 \in 0..MaxC2
  BY BoundsAssumption
<1>3. loss.run \in JobRuns(c2, n) /\ PartOf(index, c2, n, loss.run)
  BY <1>1, <1>2, LostFields
<1>4. QED
  BY <1>2, <1>3

\* The cells that may be left, and what they are made for.
LEMMA AnyCells ==
  ASSUME NEW i \in 1..MaxC1, NEW c \in 0..MaxC2
  PROVE  /\ St(i, c) \in Label
         /\ \A cell \in AnyE(i, c) : cell \in ECell /\ Made(cell, i, c)
         /\ \A cell \in AnyP(i, c) : cell \in PCell
<1>1. St(i, c) \in Label /\ Prev(i, c) \in Label \cup {NoSt}
  <2>1. i # 1 => i - 1 \in 1..MaxC1
    BY BoundsAssumption
  <2>2. QED
    BY <2>1, CellTypes DEF Prev
<1>2. ASSUME NEW cell \in AnyE(i, c) PROVE cell \in ECell /\ Made(cell, i, c)
  <2>1. CASE IsSnapshot(i, c)
    <3>1. PICK ids \in SUBSET Id : cell = ESnap(St(i, c), ids)
      BY <2>1 DEF AnyE
    <3>2. cell \in ECell
      BY <3>1, CellTypes
    <3>3. cell.at = St(i, c) /\ cell.tag = "snap"
      BY <3>1 DEF ESnap
    <3>4. QED
      BY <2>1, <3>2, <3>3 DEF Made
  <2>2. CASE ~IsSnapshot(i, c)
    <3>1. PICK op \in Op, id \in Id : cell = ELink(St(i, c), Prev(i, c), op, id)
      BY <2>2 DEF AnyE
    <3>2. cell \in ECell
      BY <1>1, <3>1, CellTypes
    <3>3. cell.at = St(i, c) /\ cell.tag = "link" /\ cell.prev = Prev(i, c)
      BY <3>1 DEF ELink
    <3>4. QED
      BY <2>2, <3>2, <3>3 DEF Made
  <2>3. QED
    BY <2>1, <2>2
<1>3. ASSUME NEW cell \in AnyP(i, c) PROVE cell \in PCell
  BY CellTypes DEF AnyP
<1>4. QED
  BY <1>1, <1>2, <1>3

\* A generated cell is one of them.
LEMMA GeneratedMade ==
  ASSUME NEW n \in 1..MaxC1, NEW c2 \in 0..MaxC2, NEW run \in JobRuns(c2, n), NEW i \in 1..n
  PROVE  Made(GeneratedE(run, c2, i), i, c2)
  BY DEF GeneratedE, Made, ESnap, ELink

\* What an index holds is of the right types, made for its label, and no newer
\* than the index.
LEMMA LostTypes ==
  ASSUME NEW index \in LostIndexes
  PROVE  /\ index.c1 \in 0..MaxC1 /\ index.c2 \in 0..MaxC2 /\ index.live \in SUBSET Id
         /\ DOMAIN index.es \subseteq Label /\ \A l \in DOMAIN index.es : index.es[l] \in ECell
         /\ DOMAIN index.ps \subseteq Label /\ \A l \in DOMAIN index.ps : index.ps[l] \in PCell
         /\ index.c2 > 0 => index.c1 > 0
         /\ \A l \in DOMAIN index.es : index.es[l].at = l /\ MadeBy(index.es[l], index.c2)
<1>1. CASE index = Empty
  <2>1. /\ index.c1 = 0 /\ index.c2 = 0 /\ index.live = {}
        /\ DOMAIN index.es = {} /\ DOMAIN index.ps = {}
    BY <1>1 DEF Empty
  <2>2. QED
    BY <2>1, BoundsAssumption
<1>2. CASE index # Empty
  <2>1. PICK n \in 1..MaxC1, c2 \in 0..MaxC2 : \E run \in JobRuns(c2, n) : PartOf(index, c2, n, run)
    BY <1>2, LostCases
  <2>2. PICK run \in JobRuns(c2, n) : PartOf(index, c2, n, run)
    BY <2>1
  <2>3. n \in 0..MaxC1 /\ n > 0 /\ c2 \in 0..c2
    BY BoundsAssumption
  <2>4. ASSUME NEW l \in DOMAIN index.es
        PROVE  /\ l \in Label /\ index.es[l] \in ECell
               /\ index.es[l].at = l /\ MadeBy(index.es[l], c2)
    <3>1. CASE \E i \in 1..n : l = St(i, c2) /\ index.es[l] = GeneratedE(run, c2, i)
      <4>1. PICK i \in 1..n : l = St(i, c2) /\ index.es[l] = GeneratedE(run, c2, i)
        BY <3>1
      <4>2. l \in Label /\ index.es[l] \in ECell /\ Made(index.es[l], i, c2) /\ i \in 1..MaxC1
        BY <4>1, GeneratedCells, GeneratedMade, BoundsAssumption
      <4>3. QED
        BY <2>3, <4>1, <4>2 DEF Made, MadeBy
    <3>2. CASE \E i \in 1..MaxC1, c \in 0..(c2 - 1) : l = St(i, c) /\ index.es[l] \in AnyE(i, c)
      <4>1. PICK i \in 1..MaxC1, c \in 0..(c2 - 1) : l = St(i, c) /\ index.es[l] \in AnyE(i, c)
        BY <3>2
      <4>2. c \in 0..MaxC2 /\ c \in 0..c2
        BY BoundsAssumption
      <4>3. l \in Label /\ index.es[l] \in ECell /\ Made(index.es[l], i, c)
        BY <4>1, <4>2, AnyCells
      <4>4. QED
        BY <4>1, <4>2, <4>3 DEF Made, MadeBy
    <3>3. QED
      BY <2>2, <3>1, <3>2 DEF PartOf
  <2>5. ASSUME NEW l \in DOMAIN index.ps
        PROVE  l \in Label /\ index.ps[l] \in PCell
    <3>1. CASE \E i \in 1..n : l = St(i, c2) /\ index.ps[l] = GeneratedP(run, c2, i)
      BY <3>1, GeneratedCells
    <3>2. CASE \E i \in 1..MaxC1, c \in 0..(c2 - 1) : l = St(i, c) /\ index.ps[l] \in AnyP(i, c)
      <4>1. PICK i \in 1..MaxC1, c \in 0..(c2 - 1) : l = St(i, c) /\ index.ps[l] \in AnyP(i, c)
        BY <3>2
      <4>2. c \in 0..MaxC2
        BY BoundsAssumption
      <4>3. QED
        BY <4>1, <4>2, AnyCells
    <3>3. QED
      BY <2>2, <3>1, <3>2 DEF PartOf
  <2>6. index.c1 = n /\ index.c2 = c2 /\ index.live \in SUBSET Id
    BY <2>2 DEF PartOf
  <2>7. QED
    BY <2>3, <2>4, <2>5, <2>6
<1>3. QED
  BY <1>1, <1>2

\* The messages the jobs generated, lost or not, and the documents they led to.
LEMMA LostAccounts ==
  ASSUME NEW w \in Keyword, NEW index \in LostIndexes
  PROVE  \E L \in Histories, M \in Chains :
           /\ L[0] = {} /\ L[index.c1] \subseteq index.live
           /\ \A i \in 1..index.c1 : EntryAt(w, index.c2, L, M, i)
           /\ \A i \in 1..index.c1 : St(i, index.c2) \in DOMAIN index.es =>
                \/ index.es[St(i, index.c2)] = M[i].e
                \/ MadeBy(index.es[St(i, index.c2)], index.c2 - 1)
<1>1. CASE index = Empty
  <2> DEFINE L == [i \in 0..MaxC1 |-> {}]
             M == [i \in 1..MaxC1 |-> None]
  <2>1. L \in Histories /\ M \in Chains /\ L[0] = {}
    BY BoundsAssumption DEF Histories, Chains
  <2>2. index.c1 = 0 /\ index.live = {} /\ 1..0 = {}
    BY <1>1 DEF Empty
  <2> HIDE DEF L, M
  <2>3. QED
    BY <2>1, <2>2
<1>2. CASE index # Empty
  <2>1. PICK n \in 1..MaxC1, c2 \in 0..MaxC2 : \E run \in JobRuns(c2, n) : PartOf(index, c2, n, run)
    BY <1>2, LostCases
  <2>2. PICK run \in JobRuns(c2, n) : PartOf(index, c2, n, run)
    BY <2>1
  <2>4. index.c1 = n /\ index.c2 = c2 /\ run.after[n] \subseteq index.live
    BY <2>2 DEF PartOf
  <2> DEFINE L == [i \in 0..MaxC1 |-> IF i \in 0..n THEN run.after[i] ELSE {}]
             m(i) == [w |-> w, ut |-> St(i, c2), e |-> GeneratedE(run, c2, i),
                      p |-> GeneratedP(run, c2, i)]
             M == [i \in 1..MaxC1 |-> IF i \in 1..n THEN m(i) ELSE None]
  <2>5. \A i \in 1..n : m(i) \in Message
    BY GeneratedCells DEF Message
  <2>6. run.after \in [0..n -> SUBSET Id] /\ run.after[0] = {}
    BY DEF JobRuns
  <2>7. /\ L \in Histories /\ M \in Chains
        /\ \A i \in 0..n : L[i] = run.after[i]
        /\ \A i \in 1..n : M[i] = m(i) /\ M[i].e = GeneratedE(run, c2, i)
    BY <2>5, <2>6, BoundsAssumption DEF Histories, Chains
  <2> HIDE DEF L, M
  <2>8. ASSUME NEW i \in 1..n PROVE EntryAt(w, c2, L, M, i)
    <3>1. i \in 0..n /\ i - 1 \in 0..n
      OBVIOUS
    <3>2. L[i] = run.after[i] /\ L[i - 1] = run.after[i - 1] /\ M[i] = m(i)
      BY <2>7, <3>1
    <3>3. CASE IsSnapshot(i, c2)
      <4>1. i = 1 /\ c2 > 0
        BY <3>3 DEF IsSnapshot
      <4>2. M[1] = [w |-> w, ut |-> St(1, c2), e |-> ESnap(St(1, c2), L[1]), p |-> PSnap(c2, L[1])]
        BY <3>2, <3>3, <4>1 DEF GeneratedE, GeneratedP
      <4>3. QED
        BY <4>1, <4>2 DEF EntryAt, SnapAt
    <3>4. CASE ~IsSnapshot(i, c2)
      <4> DEFINE op == run.ups[i].op
                 id == run.ups[i].id
      <4>1. ~(i = 1 /\ c2 > 0) /\ op \in Op /\ id \in Id
        BY <3>4, GeneratedCells DEF IsSnapshot
      <4>2. run.after[i] = Apply(run.after[i - 1], op, id)
        BY <3>4 DEF JobRuns
      <4>3. M[i] = [w |-> w, ut |-> St(i, c2), e |-> ELink(St(i, c2), Prev(i, c2), op, id),
                    p |-> PLink(c2, op, id)]
        BY <3>2, <3>4 DEF GeneratedE, GeneratedP
      <4>4. LinkAt(w, c2, L, M, i, op, id)
        BY <3>2, <4>2, <4>3 DEF LinkAt
      <4>5. QED
        BY <4>1, <4>4 DEF EntryAt
    <3>5. QED
      BY <3>3, <3>4
  <2>9. ASSUME NEW i \in 1..n, St(i, c2) \in DOMAIN index.es
        PROVE  \/ index.es[St(i, c2)] = M[i].e
               \/ MadeBy(index.es[St(i, c2)], c2 - 1)
    <3> DEFINE l == St(i, c2)
    <3>1. CASE \E k \in 1..n : l = St(k, c2) /\ index.es[l] = GeneratedE(run, c2, k)
      <4>1. PICK k \in 1..n : l = St(k, c2) /\ index.es[l] = GeneratedE(run, c2, k)
        BY <3>1
      <4>2. i \in 1..MaxC1 /\ k \in 1..MaxC1
        BY BoundsAssumption
      <4>3. i = k
        BY <4>1, <4>2, StAssumption
      <4>4. QED
        BY <2>7, <4>1, <4>3
    <3>2. CASE \E k \in 1..MaxC1, c \in 0..(c2 - 1) : l = St(k, c) /\ index.es[l] \in AnyE(k, c)
      <4>1. PICK k \in 1..MaxC1, c \in 0..(c2 - 1) : index.es[l] \in AnyE(k, c)
        BY <3>2
      <4>2. c \in 0..MaxC2
        BY BoundsAssumption
      <4>3. Made(index.es[l], k, c)
        BY <4>1, <4>2, AnyCells
      <4>4. QED
        BY <4>3 DEF MadeBy
    <3>3. QED
      BY <2>2, <2>9, <3>1, <3>2 DEF PartOf
  <2>10. L[0] = {} /\ L[n] \subseteq index.live
    <3>1. 0 \in 0..n /\ n \in 0..n
      OBVIOUS
    <3>2. QED
      BY <2>4, <2>6, <2>7, <3>1
  <2>11. QED
    BY <2>4, <2>7, <2>8, <2>9, <2>10
<1>3. QED
  BY <1>1, <1>2

LEMMA InitLost == LostInit => LostInv
<1> SUFFICES ASSUME LostInit PROVE LostInv
  OBVIOUS
<1>1. PICK index \in [Keyword -> LostIndexes] :
        /\ db = [w \in Keyword |-> [c1 |-> index[w].c1, c2 |-> index[w].c2]]
        /\ WC1 = [w \in Keyword |-> index[w].c1] /\ WC2 = [w \in Keyword |-> index[w].c2]
        /\ es = [w \in Keyword |-> index[w].es] /\ ps = [w \in Keyword |-> index[w].ps]
        /\ live = [w \in Keyword |-> index[w].live]
  BY DEF LostInit
<1>2. /\ pc = "off" /\ kw = None /\ net = <<>>
      /\ srv = None /\ reply = None /\ vi = 0 /\ Rp = {} /\ result = None
  BY DEF LostInit
<1>3. ASSUME NEW w \in Keyword
      PROVE  /\ index[w].c1 \in 0..MaxC1 /\ index[w].c2 \in 0..MaxC2 /\ index[w].live \in SUBSET Id
             /\ DOMAIN index[w].es \subseteq Label
             /\ \A l \in DOMAIN index[w].es : index[w].es[l] \in ECell
             /\ DOMAIN index[w].ps \subseteq Label
             /\ \A l \in DOMAIN index[w].ps : index[w].ps[l] \in PCell
             /\ index[w].c2 > 0 => index[w].c1 > 0
             /\ \A l \in DOMAIN index[w].es :
                  index[w].es[l].at = l /\ MadeBy(index[w].es[l], index[w].c2)
  <2>1. index[w] \in LostIndexes
    OBVIOUS
  <2>2. QED
    BY <2>1, LostTypes
<1>4. TypeInv
  <2>1. /\ db \in [Keyword -> [c1 : 0..MaxC1, c2 : 0..MaxC2]]
        /\ WC1 \in [Keyword -> 0..MaxC1] /\ WC2 \in [Keyword -> 0..MaxC2]
        /\ live \in [Keyword -> SUBSET Id]
    BY <1>1, <1>3
  <2>2. /\ DOMAIN es = Keyword /\ DOMAIN ps = Keyword
        /\ \A w \in Keyword : /\ DOMAIN es[w] \subseteq Label
                              /\ \A l \in DOMAIN es[w] : es[w][l] \in ECell
                              /\ DOMAIN ps[w] \subseteq Label
                              /\ \A l \in DOMAIN ps[w] : ps[w][l] \in PCell
    BY <1>1, <1>3
  <2>3. net \in Seq(Message) /\ vi \in 0..MaxC1
    BY <1>2, BoundsAssumption
  <2>4. TypeOK
    BY <1>2, <2>1, <2>2, <2>3 DEF TypeOK
  <2>5. QED
    BY <1>2, <2>4 DEF TypeInv, Guarded
<1>5. Phase
  <2>1. \A w \in Keyword : db[w] = [c1 |-> WC1[w], c2 |-> WC2[w]] /\ (WC2[w] > 0 => WC1[w] > 0)
    BY <1>1, <1>3
  <2>2. kw \notin Keyword \/ Len(net) <= WC1[kw]
    BY <1>1, <1>2, <1>3, BoundsAssumption
  <2>3. QED
    BY <1>2, <2>1, <2>2 DEF Phase
<1>6. ASSUME NEW w \in Keyword
      PROVE  \E L \in Histories, M \in Chains : Accounted(w, L, M)
  <2>1. index[w] \in LostIndexes
    OBVIOUS
  <2>2. PICK L \in Histories, M \in Chains :
          /\ L[0] = {} /\ L[index[w].c1] \subseteq index[w].live
          /\ \A i \in 1..index[w].c1 : EntryAt(w, index[w].c2, L, M, i)
          /\ \A i \in 1..index[w].c1 : St(i, index[w].c2) \in DOMAIN index[w].es =>
               \/ index[w].es[St(i, index[w].c2)] = M[i].e
               \/ MadeBy(index[w].es[St(i, index[w].c2)], index[w].c2 - 1)
    BY <2>1, LostAccounts
  <2>3. /\ WC1[w] = index[w].c1 /\ WC2[w] = index[w].c2 /\ live[w] = index[w].live
        /\ es[w] = index[w].es /\ WC1[w] \in Nat
    BY <1>1, <1>3, BoundsAssumption
  <2>4. Stored(w) = WC1[w] /\ Len(net) = 0
    BY <1>2, <2>3 DEF Stored
  <2>5. Accounts(w, L, M) /\ StoreKeeps(w, M) /\ IndexMade(w)
    BY <1>3, <2>2, <2>3, <2>4 DEF Accounts, StoreKeeps, IndexMade
  <2>6. NetHolds(w, M) /\ WalkKeeps(w, L) /\ ReplyKeeps(w)
    BY <1>2, <2>4 DEF NetHolds, WalkKeeps, ReplyKeeps
  <2>7. QED
    BY <2>5, <2>6 DEF Accounted
<1>7. QED
  BY <1>4, <1>5, <1>6 DEF LostInv

-----------------------------------------------------------------------------
(* What each action does to M and L.                                       *)

\* Deleting entries, or touching none, loses nothing that is known.
LEMMA AccountKept ==
  ASSUME NEW w \in Keyword, NEW L \in Histories, NEW M \in Chains, Accounted(w, L, M),
         WC1'[w] = WC1[w], WC2'[w] = WC2[w], live'[w] = live[w], Stored(w)' = Stored(w),
         \A l \in DOMAIN es'[w] : l \in DOMAIN es[w] /\ es'[w][l] = es[w][l]
  PROVE  Accounts(w, L, M)' /\ IndexMade(w)' /\ StoreKeeps(w, M)'
<1>1. Accounts(w, L, M)'
  BY DEF Accounted, Accounts, EntryAt, SnapAt, LinkAt
<1>2. StoreKeeps(w, M)'
  BY DEF Accounted, StoreKeeps, MadeBy, Made
<1>3. IndexMade(w)'
  BY DEF Accounted, IndexMade, MadeBy, Made
<1>4. QED
  BY <1>1, <1>2, <1>3

\* Nor does an action of another keyword's command.
LEMMA LostElsewhere ==
  ASSUME NEW w \in Keyword, NEW L \in Histories, NEW M \in Chains, Accounted(w, L, M),
         w # kw, w # kw',
         WC1'[w] = WC1[w], WC2'[w] = WC2[w], live'[w] = live[w], es'[w] = es[w]
  PROVE  Accounted(w, L, M)'
<1>1. Stored(w)' = Stored(w)
  BY DEF Stored
<1>2. Accounts(w, L, M)' /\ IndexMade(w)' /\ StoreKeeps(w, M)'
  BY <1>1, AccountKept
<1>3. NetHolds(w, M)' /\ WalkKeeps(w, L)' /\ ReplyKeeps(w)'
  BY DEF NetHolds, WalkKeeps, ReplyKeeps
<1>4. QED
  BY <1>2, <1>3 DEF Accounted

\* A command starts or ends; nothing is under way.
LEMMA LostStartOrEnd ==
  ASSUME LostInv, NEW w \in Keyword, NEW L \in Histories, NEW M \in Chains, Accounted(w, L, M),
         \/ \E v \in Keyword : StartUpdate(v) \/ StartSearch(v)
         \/ FinishUpdate \/ FinishReProof \/ Exit
  PROVE  Accounted(w, L, M)'
<1>1. TypeInv /\ Phase
  BY DEF LostInv
<1>2. CASE FinishUpdate \/ FinishReProof \/ Exit
  <2>1. /\ net = <<>> /\ net' = net /\ srv' = None /\ pc' # "search"
        /\ WC1' = WC1 /\ WC2' = WC2 /\ live' = live /\ es' = es
    BY <1>1, <1>2 DEF FinishUpdate, FinishReProof, Exit, Phase, TypeInv, Guarded
  <2>2. Stored(w)' = Stored(w)
    BY <1>1, <2>1, Shapes DEF Stored
  <2>3. Accounts(w, L, M)' /\ IndexMade(w)' /\ StoreKeeps(w, M)'
    BY <2>1, <2>2, AccountKept
  <2>4. NetHolds(w, M)' /\ WalkKeeps(w, L)' /\ ReplyKeeps(w)'
    BY <2>1 DEF NetHolds, WalkKeeps, ReplyKeeps
  <2>5. QED
    BY <2>3, <2>4 DEF Accounted
<1>3. CASE \E v \in Keyword : StartUpdate(v) \/ StartSearch(v)
  <2>1. PICK v \in Keyword : StartUpdate(v) \/ StartSearch(v)
    BY <1>3
  <2>2. /\ pc = "off" /\ net = <<>> /\ net' = net /\ kw' = v
        /\ live' = live /\ es' = es
    BY <1>1, <2>1 DEF StartUpdate, StartSearch, Phase
  <2>3. WC1' = WC1 /\ WC2' = WC2
    BY <1>1, <2>1, Shapes DEF StartUpdate, StartSearch, Load, Phase
  <2>4. pc' = "search" => reply' = None
    BY <2>1 DEF StartUpdate, StartSearch
  <2>5. Stored(w)' = Stored(w)
    <3>1. WC1[w] \in Nat /\ Len(net) = 0
      BY <1>1, <2>2, Shapes
    <3>2. QED
      BY <2>2, <2>3, <3>1 DEF Stored
  <2>6. Accounts(w, L, M)' /\ IndexMade(w)' /\ StoreKeeps(w, M)'
    BY <2>2, <2>3, <2>5, AccountKept
  <2>7. NetHolds(w, M)' /\ ReplyKeeps(w)'
    BY <2>2, <2>4 DEF NetHolds, ReplyKeeps
  <2>8. WalkKeeps(w, L)'
    <3>1. CASE StartUpdate(v)
      BY <1>1, <2>2, <3>1 DEF StartUpdate, WalkKeeps, TypeInv, Guarded
    <3>2. CASE StartSearch(v) /\ w = v /\ WC1[w] > 0
      <4>1. db[w].c1 = WC1[w] /\ db[w].c2 = WC2[w] /\ WC1[w] \in 1..MaxC1
        BY <1>1, <2>2, <3>2, Shapes, BoundsAssumption DEF Phase
      <4>2. /\ srv'.i = WC1[w] /\ srv'.st = St(WC1[w], WC2[w])
            /\ srv'.R = {} /\ srv'.Del = {} /\ srv'.e = None
        BY <3>2, <4>1 DEF StartSearch
      <4>3. L[WC1[w]] \subseteq live[w]
        BY DEF Accounted, Accounts
      <4>4. QED
        BY <2>2, <2>3, <4>1, <4>2, <4>3, BoundsAssumption DEF WalkKeeps, OnChain, LeftOver
    <3>3. QED
      BY <2>1, <2>2, <2>3, <3>1, <3>2 DEF WalkKeeps
  <2>9. QED
    BY <2>6, <2>7, <2>8 DEF Accounted
<1>4. QED
  BY <1>2, <1>3

\* One more update: M and L grow by one, and the last of L is attached.
LEMMA LostWritten ==
  ASSUME LostInv, NEW L \in Histories, NEW M \in Chains, Accounted(kw, L, M),
         NEW op \in Op, NEW id \in Id, WriteUpdate(op, id)
  PROVE  \E L2 \in Histories, M2 \in Chains : Accounted(kw, L2, M2)'
<1> DEFINE n == WC1[kw]
           c2 == WC2[kw]
           m == UpdateEntry(n + 1, c2, op, id)
<1>1. TypeInv /\ Phase
  BY DEF LostInv
<1>2. /\ pc = "update" /\ pc' = "update" /\ kw' = kw /\ kw \in Keyword
      /\ n \in Nat /\ n + 1 \in 1..MaxC1 /\ Len(net) \in 0..n
  BY <1>1, Shapes, BoundsAssumption DEF WriteUpdate, Phase
<1>3. /\ WC1'[kw] = n + 1 /\ WC2'[kw] = c2 /\ live'[kw] = Apply(live[kw], op, id)
      /\ es' = es /\ ps' = ps /\ net' = Append(net, m)
  BY <1>1, <1>2, Shapes DEF WriteUpdate
<1>4. /\ Len(net') = Len(net) + 1 /\ net'[Len(net) + 1] = m
      /\ \A k \in 1..Len(net) : net'[k] = net[k]
  BY <1>1, <1>3, Shapes
<1>5. PICK L2 \in Histories, M2 \in Chains :
        /\ L2 = [L EXCEPT ![n + 1] = Apply(L[n], op, id)]
        /\ M2 = [M EXCEPT ![n + 1] = m]
  <2>1. m \in Message
    <3>1. net' \in Seq(Message)
      BY WriteType, <1>1 DEF TypeInv, TypeOK
    <3>2. QED
      BY <1>2, <1>4, <3>1
  <2>2. L[n] \in SUBSET Id
    BY <1>2, BoundsAssumption DEF Histories
  <2>3. Apply(L[n], op, id) \in SUBSET Id
    BY <2>2, ApplyType
  <2>4. QED
    BY <1>2, <2>1, <2>3 DEF Histories, Chains
<1>6. /\ \A i \in 0..n : L2[i] = L[i]
      /\ \A i \in 1..n : M2[i] = M[i]
      /\ L2[n + 1] = Apply(L[n], op, id) /\ M2[n + 1] = m
  BY <1>2, <1>5, BoundsAssumption DEF Histories, Chains
<1>7. Stored(kw)' = Stored(kw) /\ Stored(kw) = n - Len(net)
  BY <1>2, <1>3, <1>4 DEF Stored
<1>8. Accounts(kw, L2, M2)'
  <2>1. \A i \in 1..n : EntryAt(kw, c2, L2, M2, i)
    <3>1. \A i \in 1..n : EntryAt(kw, c2, L, M, i)
      BY DEF Accounted, Accounts
    <3>2. \A i \in 1..n : i - 1 \in 0..n /\ i \in 0..n
      BY <1>2
    <3>3. QED
      BY <1>6, <3>1, <3>2 DEF EntryAt, SnapAt, LinkAt
  <2>2. EntryAt(kw, c2, L2, M2, n + 1)
    <3>1. L2[(n + 1) - 1] = L[n]
      BY <1>2, <1>6
    <3>2. M2[n + 1] = [w |-> kw, ut |-> St(n + 1, c2),
                       e |-> ELink(St(n + 1, c2), Prev(n + 1, c2), op, id), p |-> PLink(c2, op, id)]
      BY <1>6 DEF UpdateEntry
    <3>3. LinkAt(kw, c2, L2, M2, n + 1, op, id)
      BY <1>6, <3>1, <3>2 DEF LinkAt
    <3>4. ~(n + 1 = 1 /\ c2 > 0)
      BY <1>1, <1>2 DEF Phase
    <3>5. QED
      BY <3>3, <3>4 DEF EntryAt
  <2>3. \A i \in 1..(n + 1) : EntryAt(kw, c2, L2, M2, i)'
    <3>1. \A i \in 1..(n + 1) : i \in 1..n \/ i = n + 1
      BY <1>2
    <3>2. \A i \in 1..(n + 1) : EntryAt(kw, c2, L2, M2, i)
      BY <2>1, <2>2, <3>1
    <3>3. QED
      BY <1>2, <1>3, <3>2 DEF EntryAt, SnapAt, LinkAt
  <2>4. L2[0] = {} /\ L2[n + 1] \subseteq live'[kw]
    <3>1. L[0] = {} /\ L[n] \subseteq live[kw]
      BY DEF Accounted, Accounts
    <3>2. Apply(L[n], op, id) \subseteq Apply(live[kw], op, id)
      BY <3>1 DEF Apply
    <3>3. QED
      BY <1>2, <1>3, <1>6, <3>1, <3>2
  <2>5. QED
    BY <1>2, <1>3, <2>3, <2>4 DEF Accounts
<1>9. StoreKeeps(kw, M2)'
  <2>1. Stored(kw) \in 0..n
    BY <1>2, <1>7
  <2>2. \A i \in 1..Stored(kw) : M2[i] = M[i]
    BY <1>2, <1>6, <2>1
  <2>3. QED
    BY <1>2, <1>3, <1>7, <2>2 DEF Accounted, StoreKeeps, MadeBy, Made
<1>13. IndexMade(kw)'
  BY <1>2, <1>3 DEF Accounted, IndexMade, MadeBy, Made
<1>10. NetHolds(kw, M2)'
  <2>1. \A k \in 1..Len(net) : net[k] = M[Stored(kw) + k] /\ Stored(kw) + k \in 1..n
    BY <1>2, <1>7 DEF Accounted, NetHolds
  <2>2. Stored(kw) + (Len(net) + 1) = n + 1
    BY <1>2, <1>7
  <2>3. ASSUME NEW k \in 1..(Len(net) + 1)
        PROVE  net'[k] = M2[Stored(kw) + k]
    <3>1. CASE k \in 1..Len(net)
      BY <1>4, <1>6, <2>1, <3>1
    <3>2. CASE k = Len(net) + 1
      BY <1>4, <1>6, <2>2, <3>2
    <3>3. QED
      BY <1>2, <3>1, <3>2
  <2>4. QED
    BY <1>4, <1>7, <2>3 DEF NetHolds
<1>11. WalkKeeps(kw, L2)' /\ ReplyKeeps(kw)'
  BY <1>1, <1>2 DEF WriteUpdate, WalkKeeps, ReplyKeeps, TypeInv, Guarded
<1>12. QED
  BY <1>5, <1>8, <1>9, <1>10, <1>11, <1>13 DEF Accounted

\* An entry of the chain is made for its label.
LEMMA EntryMade ==
  ASSUME NEW w, NEW L, NEW M, NEW c2, NEW i, EntryAt(w, c2, L, M, i)
  PROVE  Made(M[i].e, i, c2)
<1>1. CASE i = 1 /\ c2 > 0
  <2>1. M[i].e = ESnap(St(i, c2), L[1])
    BY <1>1 DEF EntryAt, SnapAt
  <2>2. QED
    BY <1>1, <2>1 DEF Made, IsSnapshot, ESnap
<1>2. CASE ~(i = 1 /\ c2 > 0)
  <2>1. PICK op \in Op, id \in Id : LinkAt(w, c2, L, M, i, op, id)
    BY <1>2 DEF EntryAt
  <2>2. M[i].e = ELink(St(i, c2), Prev(i, c2), op, id)
    BY <2>1 DEF LinkAt
  <2>3. QED
    BY <1>2, <2>2 DEF Made, IsSnapshot, ELink
<1>3. QED
  BY <1>1, <1>2

\* The server stores the next entry of the chain, at its own label.
LEMMA LostDelivered ==
  ASSUME LostInv, NEW L \in Histories, NEW M \in Chains, Accounted(kw, L, M), ServerStore
  PROVE  /\ Accounted(kw, L, M)'
         /\ \A w \in Keyword \ {kw} : es'[w] = es[w]
<1> DEFINE n == WC1[kw]
           c2 == WC2[kw]
           s == Stored(kw)
           at == St(s + 1, c2)
<1>1. TypeInv /\ Phase
  BY DEF LostInv
<1>2. /\ pc \in {"update", "reproof"} /\ kw \in Keyword /\ net # <<>> /\ net \in Seq(Message)
      /\ n \in 0..MaxC1 /\ Len(net) \in 1..n /\ c2 \in 0..MaxC2
      /\ DOMAIN es = Keyword
  BY <1>1, Shapes, BoundsAssumption DEF ServerStore, Phase
<1>3. s = n - Len(net) /\ s \in 0..(n - 1) /\ s + 1 \in 1..n
  BY <1>2, BoundsAssumption DEF Stored
<1>4. Head(net) = M[s + 1] /\ M[s + 1].w = kw /\ M[s + 1].ut = at
  <2>1. Head(net) = net[1] /\ net[1] = M[s + 1]
    BY <1>2 DEF Accounted, NetHolds
  <2>2. EntryAt(kw, c2, L, M, s + 1)
    BY <1>3 DEF Accounted, Accounts
  <2>3. QED
    BY <2>1, <2>2, Fields
<1>5. /\ es' = [es EXCEPT ![kw] = Put(es[kw], at, M[s + 1].e)]
      /\ net' = Tail(net)
  BY <1>4 DEF ServerStore
<1>6. /\ UNCHANGED <<pc, kw, WC1, WC2, live, srv, reply>>
      /\ Len(net') = Len(net) - 1 /\ \A k \in 1..(Len(net) - 1) : net'[k] = net[k + 1]
  BY <1>2, <1>5 DEF ServerStore
<1>7. Stored(kw)' = s + 1
  BY <1>2, <1>3, <1>6, BoundsAssumption DEF Stored
<1>8. \A i \in 1..s : St(i, c2) # at
  <2>1. \A i \in 1..s : i \in 1..MaxC1 /\ i # s + 1
    BY <1>2, <1>3, BoundsAssumption
  <2>2. s + 1 \in 1..MaxC1
    BY <1>2, <1>3, BoundsAssumption
  <2>3. QED
    BY <1>2, <2>1, <2>2, StAssumption
<1>9. Accounts(kw, L, M)'
  BY <1>6 DEF Accounted, Accounts, EntryAt, SnapAt, LinkAt
<1>10. StoreKeeps(kw, M)'
  <2>1. es'[kw] = Put(es[kw], at, M[s + 1].e)
    BY <1>2, <1>5
  <2>2. ASSUME NEW i \in 1..s, St(i, c2) \in DOMAIN es'[kw]
        PROVE  es'[kw][St(i, c2)] = M[i].e \/ MadeBy(es'[kw][St(i, c2)], c2 - 1)
    <3>1. St(i, c2) \in DOMAIN es[kw] /\ es'[kw][St(i, c2)] = es[kw][St(i, c2)]
      BY <1>8, <2>1, <2>2 DEF Put
    <3>2. QED
      BY <3>1 DEF Accounted, StoreKeeps
  <2>3. es'[kw][at] = M[s + 1].e
    BY <2>1 DEF Put
  <2>4. \A i \in 1..(s + 1) : i \in 1..s \/ i = s + 1
    BY <1>3
  <2>5. QED
    BY <1>6, <1>7, <2>2, <2>3, <2>4 DEF StoreKeeps, MadeBy, Made
<1>11. NetHolds(kw, M)'
  <2>1. ASSUME NEW k \in 1..(Len(net) - 1)
        PROVE  net'[k] = M[(s + 1) + k]
    <3>1. k + 1 \in 1..Len(net) /\ s + (k + 1) = (s + 1) + k
      <4>1. Len(net) \in Nat /\ s \in Nat
        BY <1>2, <1>3, BoundsAssumption
      <4>2. QED
        BY <4>1
    <3>2. net[k + 1] = M[s + (k + 1)]
      BY <3>1 DEF Accounted, NetHolds
    <3>3. QED
      BY <1>6, <3>1, <3>2
  <2>2. QED
    BY <1>6, <1>7, <2>1 DEF NetHolds
<1>12. WalkKeeps(kw, L)' /\ ReplyKeeps(kw)'
  BY <1>1, <1>2, <1>6 DEF WalkKeeps, ReplyKeeps, TypeInv, Guarded
<1>13. \A w \in Keyword \ {kw} : es'[w] = es[w]
  BY <1>2, <1>5
<1>14. IndexMade(kw)'
  <2>1. es'[kw] = Put(es[kw], at, M[s + 1].e)
    BY <1>2, <1>5
  <2>2. EntryAt(kw, c2, L, M, s + 1)
    BY <1>3 DEF Accounted, Accounts
  <2>3. M[s + 1].e.at = at /\ MadeBy(M[s + 1].e, c2)
    <3>1. s + 1 \in 1..MaxC1 /\ c2 \in 0..c2
      BY <1>2, <1>3, BoundsAssumption
    <3>2. Made(M[s + 1].e, s + 1, c2)
      BY <2>2, EntryMade
    <3>3. QED
      BY <3>1, <3>2 DEF MadeBy, Made
  <2>4. ASSUME NEW l \in DOMAIN es'[kw]
        PROVE  es'[kw][l].at = l /\ MadeBy(es'[kw][l], c2)
    <3>1. CASE l = at
      <4>1. es'[kw][l] = M[s + 1].e
        BY <2>1, <2>4, <3>1 DEF Put
      <4>2. QED
        BY <2>3, <3>1, <4>1
    <3>2. CASE l # at
      <4>1. l \in DOMAIN es[kw] /\ es'[kw][l] = es[kw][l]
        BY <2>1, <2>4, <3>2 DEF Put
      <4>2. QED
        BY <4>1 DEF Accounted, IndexMade
    <3>3. QED
      BY <3>1, <3>2
  <2>5. QED
    BY <1>6, <2>4 DEF IndexMade, MadeBy, Made
<1>15. QED
  BY <1>9, <1>10, <1>11, <1>12, <1>13, <1>14 DEF Accounted

\* What a turn has found under "e": the entry it looked for, an older one stored
\* under the same label, or one that was made for another label; off the chain,
\* a link.
Found(w, L, M) ==
  \/ /\ srv.st = St(srv.i, WC2[w]) /\ LookE = M[srv.i].e
     /\ EntryAt(w, WC2[w], L, M, srv.i)
     /\ srv.R \subseteq live[w] /\ L[srv.i] \ srv.Del \subseteq live[w]
  \/ /\ srv.st = St(srv.i, WC2[w]) /\ srv.R \subseteq live[w]
     /\ LookE.at = srv.st => MadeBy(LookE, WC2[w] - 1)
     /\ srv.i > 1 => LookE.tag = "link"
  \/ /\ OffChain(w) /\ LookE.tag = "link"

LEMMA LostLookup ==
  ASSUME LostInv, NEW L \in Histories, NEW M \in Chains, Accounted(kw, L, M),
         srv # None, LookE # None
  PROVE  /\ pc = "search" /\ kw \in Keyword /\ net = <<>> /\ reply = None
         /\ srv \in SrvType /\ srv.w = kw /\ srv.c2 = WC2[kw]
         /\ WC1[kw] \in 1..MaxC1 /\ WC2[kw] \in 0..MaxC2 /\ Stored(kw) = WC1[kw]
         /\ srv.i \in 1..WC1[kw] /\ srv.i \in 1..MaxC1
         /\ LookE \in ECell /\ MadeBy(LookE, WC2[kw])
         /\ Found(kw, L, M)
<1> DEFINE c2 == WC2[kw]
           i == srv.i
<1>1. TypeInv /\ Phase
  BY DEF LostInv
<1>2. WC1[kw] > 0
  BY <1>1, NoRows
<1>3. /\ pc = "search" /\ kw \in Keyword /\ net = <<>> /\ reply = None
      /\ srv \in SrvType /\ srv.w = kw /\ srv.c2 = c2
  BY <1>1, Shapes, LookType DEF Phase, TypeInv, Guarded
<1>4. WC1[kw] \in 1..MaxC1 /\ c2 \in 0..MaxC2 /\ Len(net) = 0
  BY <1>1, <1>2, <1>3, Shapes, BoundsAssumption
<1>5. Stored(kw) = WC1[kw]
  BY <1>3, <1>4, BoundsAssumption DEF Stored
<1>6. /\ i \in 1..WC1[kw]
      /\ srv.e # None => MadeBy(srv.e, c2) /\ srv.e.tag = "link"
      /\ OnChain(kw, L) \/ OffChain(kw)
  BY <1>2 DEF Accounted, WalkKeeps
<1>7. LookE \in ECell /\ i \in 1..MaxC1
  BY <1>1, <1>4, <1>6, LookType, BoundsAssumption
<1>8. CASE srv.st \in DOMAIN es[kw]
  <2>1. LookE = es[kw][srv.st]
    BY <1>3, <1>8 DEF LookE, Get
  <2>2. LookE.at = srv.st /\ MadeBy(LookE, c2)
    BY <1>8, <2>1 DEF Accounted, IndexMade
  <2>3. srv.st # NoSt
    <3>1. DOMAIN es[kw] \subseteq Label /\ NoSt \notin Label
      BY <1>1, <1>3, StAssumption DEF TypeInv, TypeOK, Label
    <3>2. QED
      BY <1>8, <3>1
  <2>4. CASE OnChain(kw, L)
    <3>1. /\ srv.st = St(i, c2) /\ srv.R \subseteq live[kw]
          /\ L[i] \ srv.Del \subseteq live[kw]
      BY <2>4 DEF OnChain
    <3>2. LookE = M[i].e \/ MadeBy(LookE, c2 - 1)
      BY <1>5, <1>6, <1>8, <2>1, <3>1 DEF Accounted, StoreKeeps
    <3>3. CASE LookE = M[i].e
      <4>1. EntryAt(kw, c2, L, M, i)
        BY <1>6 DEF Accounted, Accounts
      <4>2. QED
        BY <1>3, <1>4, <1>5, <1>6, <1>7, <2>2, <3>1, <3>3, <4>1 DEF Found
    <3>4. CASE MadeBy(LookE, c2 - 1)
      <4>1. LookE.tag = "link"
        BY <1>4, <1>7, <2>2, <3>1, <3>4, MadeAbove
      <4>2. QED
        BY <1>3, <1>4, <1>5, <1>6, <1>7, <2>2, <3>1, <3>4, <4>1 DEF Found
    <3>5. QED
      BY <3>2, <3>3, <3>4
  <2>5. CASE OffChain(kw)
    <3>1. LookE.tag = "link"
      BY <1>4, <1>7, <2>2, <2>3, <2>5, MadeAbove DEF OffChain
    <3>2. QED
      BY <1>3, <1>4, <1>5, <1>6, <1>7, <2>2, <2>5, <3>1 DEF Found
  <2>6. QED
    BY <1>6, <2>4, <2>5
<1>9. CASE srv.st \notin DOMAIN es[kw]
  <2>1. LookE = srv.e /\ MadeBy(LookE, c2) /\ LookE.tag = "link"
    BY <1>3, <1>6, <1>9 DEF LookE, Get
  <2>2. CASE OnChain(kw, L)
    <3>1. srv.st = St(i, c2) /\ srv.R \subseteq live[kw] /\ LookE.at # srv.st
      BY <2>1, <2>2 DEF OnChain, LeftOver
    <3>2. QED
      BY <1>3, <1>4, <1>5, <1>6, <1>7, <2>1, <3>1 DEF Found
  <2>3. CASE OffChain(kw)
    BY <1>3, <1>4, <1>5, <1>6, <1>7, <2>1, <2>3 DEF Found
  <2>4. QED
    BY <1>6, <2>2, <2>3
<1>10. QED
  BY <1>8, <1>9

\* A turn of the walk moves from entry srv.i to entry srv.i - 1, or leaves the
\* chain, or stays off it.
LEMMA LostWalked ==
  ASSUME LostInv, NEW L \in Histories, NEW M \in Chains, Accounted(kw, L, M),
         ServerWalk \/ ServerWalkJunk
  PROVE  Accounted(kw, L, M)'
<1> DEFINE n == WC1[kw]
           c2 == WC2[kw]
           i == srv.i
<1>1. srv # None /\ LookE # None /\ srv.i > 1
  BY DEF ServerWalk, ServerWalkJunk
<1>2. /\ kw \in Keyword /\ reply = None /\ srv \in SrvType
      /\ n \in 1..MaxC1 /\ c2 \in 0..MaxC2 /\ i \in 1..n
      /\ LookE \in ECell /\ MadeBy(LookE, c2) /\ Found(kw, L, M)
  BY <1>1, LostLookup
<1>3. i - 1 \in 1..n /\ i - 1 \in 1..MaxC1 /\ i \in 1..MaxC1 /\ i # 1 /\ i - 1 # i
  BY <1>1, <1>2, BoundsAssumption
<1>4. UNCHANGED <<pc, kw, WC1, WC2, net, es, ps, reply, live>>
  BY DEF ServerWalk, ServerWalkJunk
<1>5. Stored(kw)' = Stored(kw)
  BY <1>4 DEF Stored
<1>6. Accounts(kw, L, M)' /\ IndexMade(kw)' /\ StoreKeeps(kw, M)' /\ NetHolds(kw, M)'
  BY <1>4, <1>5 DEF Accounted, Accounts, EntryAt, SnapAt, LinkAt, IndexMade, StoreKeeps,
                    MadeBy, Made, NetHolds
<1>7. ReplyKeeps(kw)'
  BY <1>2, <1>4 DEF ReplyKeeps
<1>8. srv'.i = i - 1 /\ srv'.e = LookE
  BY DEF ServerWalk, ServerWalkJunk, Turn
<1>9. LookE.tag = "link" /\ srv'.e.tag = "link" /\ MadeBy(srv'.e, WC2'[kw])
  <2>1. EntryAt(kw, c2, L, M, i) => M[i].e.tag = "link"
    BY <1>3, EntryMade DEF Made, IsSnapshot
  <2>2. LookE.tag = "link"
    BY <1>1, <1>2, <2>1 DEF Found
  <2>3. QED
    BY <1>2, <1>4, <1>8, <2>2
<1>10. CASE ServerWalk
  <2> SUFFICES WalkKeeps(kw, L)'
    BY <1>6, <1>7 DEF Accounted
  <2>1. LookE.at = srv.st
    BY <1>10 DEF ServerWalk, IsLink
  <2>2. CASE /\ srv.st = St(i, c2) /\ LookE = M[i].e /\ EntryAt(kw, c2, L, M, i)
             /\ srv.R \subseteq live[kw] /\ L[i] \ srv.Del \subseteq live[kw]
    <3>1. PICK op \in Op, id \in Id : LinkAt(kw, c2, L, M, i, op, id)
      BY <1>3, <2>2 DEF EntryAt
    <3>2. LookE = ELink(St(i, c2), Prev(i, c2), op, id) /\ L[i] = Apply(L[i - 1], op, id)
      BY <2>2, <3>1 DEF LinkAt
    <3>3. LookE.at = St(i, c2) /\ LookE.prev = St(i - 1, c2) /\ LookE.op = op /\ LookE.id = id
      BY <1>3, <3>2 DEF ELink, Prev
    <3>4. /\ srv'.st = St(i - 1, c2)
          /\ srv'.R = AddUnlessDeleted(srv.R, srv.Del, op, id)
          /\ srv'.Del = IF op = "0" THEN srv.Del \cup {id} ELSE srv.Del
      BY <1>10, <3>3 DEF ServerWalk, Turn
    <3>5. St(i, c2) # St(i - 1, c2)
      BY <1>2, <1>3, StAssumption
    <3>6. Apply(L[i - 1], op, id) \ srv.Del \subseteq live[kw]
      BY <2>2, <3>2
    <3>7. srv'.R \subseteq live[kw] /\ L[i - 1] \ srv'.Del \subseteq live[kw]
      BY <2>2, <3>1, <3>4, <3>6 DEF Apply, AddUnlessDeleted, Op
    <3>8. LeftOver'
      BY <1>8, <3>3, <3>4, <3>5 DEF LeftOver
    <3>9. OnChain(kw, L)'
      BY <1>4, <1>8, <3>4, <3>7, <3>8 DEF OnChain
    <3>10. QED
      BY <1>3, <1>4, <1>8, <1>9, <3>9 DEF WalkKeeps, MadeBy, Made
  <2>3. CASE /\ srv.st = St(i, c2) /\ srv.R \subseteq live[kw] /\ MadeBy(LookE, c2 - 1)
    <3>1. LookE.prev > St(i - 1, c2)
      BY <1>1, <1>2, <1>3, <2>1, <2>3, MadeAbove
    <3>2. c2 > 0
      BY <1>2, <2>3, BoundsAssumption DEF MadeBy
    <3>3. srv'.st = LookE.prev
      BY <1>10 DEF ServerWalk, Turn
    <3>4. OffChain(kw)'
      BY <1>4, <1>8, <3>1, <3>2, <3>3 DEF OffChain
    <3>5. QED
      BY <1>3, <1>4, <1>8, <1>9, <3>4 DEF WalkKeeps, MadeBy, Made
  <2>4. CASE OffChain(kw)
    <3>1. srv.st # NoSt
      <4>1. LookE.at \in Label /\ NoSt \notin Label
        BY <1>2, StAssumption DEF ECell, Label
      <4>2. QED
        BY <2>1, <4>1
    <3>2. c2 > 0 /\ srv.st > St(i, c2)
      BY <2>4, <3>1 DEF OffChain
    <3>3. LookE.prev > St(i - 1, c2)
      BY <1>1, <1>2, <1>3, <2>1, <3>2, MadeAbove
    <3>4. srv'.st = LookE.prev
      BY <1>10 DEF ServerWalk, Turn
    <3>5. OffChain(kw)'
      BY <1>4, <1>8, <3>2, <3>3, <3>4 DEF OffChain
    <3>6. QED
      BY <1>3, <1>4, <1>8, <1>9, <3>5 DEF WalkKeeps, MadeBy, Made
  <2>5. QED
    BY <1>2, <2>1, <2>2, <2>3, <2>4 DEF Found
<1>11. CASE ServerWalkJunk
  <2>1. srv'.st = NoSt /\ srv'.R = srv.R
    BY <1>11 DEF ServerWalkJunk, Turn
  <2>2. c2 = 0 => srv.R \subseteq live[kw]
    BY <1>2 DEF Found, OffChain
  <2>3. OffChain(kw)'
    BY <1>4, <2>1, <2>2 DEF OffChain
  <2>4. WalkKeeps(kw, L)'
    BY <1>3, <1>4, <1>8, <1>9, <2>3 DEF WalkKeeps, MadeBy, Made
  <2>5. QED
    BY <1>6, <1>7, <2>4 DEF Accounted
<1>12. QED
  BY <1>10, <1>11

\* The oldest entry adds what it leads to, if it is there; a walk that has left
\* the chain through an older one makes junk of it.
LEMMA LostAnswered ==
  ASSUME LostInv, NEW L \in Histories, NEW M \in Chains, Accounted(kw, L, M),
         srv # None, LookE # None, srv.i <= 1, NEW out \in Oldest(LookE)
  PROVE  out.junk \/ out.R \subseteq live[kw]
<1> DEFINE c2 == WC2[kw]
<1>1. /\ srv.i \in 1..WC1[kw] /\ WC1[kw] \in 1..MaxC1 /\ c2 \in 0..MaxC2 /\ srv.c2 = c2
      /\ srv \in SrvType /\ LookE \in ECell /\ MadeBy(LookE, c2) /\ Found(kw, L, M)
      /\ srv.i \in 1..MaxC1
  BY LostLookup
<1>2. srv.i = 1
  BY <1>1
<1>3. CASE srv.c2 = 0 /\ IsLink(LookE, srv.st)
  <2>1. /\ EntryAt(kw, c2, L, M, 1) /\ LookE = M[1].e /\ L[1] \ srv.Del \subseteq live[kw]
        /\ srv.R \subseteq live[kw]
    <3>1. ~MadeBy(LookE, c2 - 1)
      BY <1>1, <1>3 DEF MadeBy
    <3>2. ~OffChain(kw)
      <4>1. LookE.at \in Label /\ NoSt \notin Label
        BY <1>1, StAssumption DEF ECell, Label
      <4>2. QED
        BY <1>1, <1>3, <4>1 DEF OffChain, IsLink
    <3>3. QED
      BY <1>1, <1>2, <1>3, <3>1, <3>2 DEF Found, IsLink
  <2>2. PICK op \in Op, id \in Id : LinkAt(kw, c2, L, M, 1, op, id)
    BY <1>1, <1>3, <2>1 DEF EntryAt
  <2>3. LookE = ELink(St(1, c2), Prev(1, c2), op, id) /\ L[1] = Apply(L[0], op, id)
    BY <2>1, <2>2 DEF LinkAt
  <2>4. out = [R |-> AddUnlessDeleted(srv.R, srv.Del, op, id), junk |-> srv.junk]
    BY <1>3, <2>3 DEF Oldest, ELink
  <2>5. out.R = AddUnlessDeleted(srv.R, srv.Del, op, id)
    BY <2>4, Zenon
  <2>6. QED
    BY <1>1, <2>1, <2>3, <2>5 DEF Apply, AddUnlessDeleted
<1>4. CASE srv.c2 # 0 /\ IsSnap(LookE, srv.st)
  <2>1. /\ EntryAt(kw, c2, L, M, 1) /\ LookE = M[1].e /\ L[1] \ srv.Del \subseteq live[kw]
        /\ srv.R \subseteq live[kw]
    <3>1. LookE.tag # "link" /\ LookE.at = srv.st
      BY <1>4 DEF IsSnap
    <3>2. srv.st = St(1, c2) => ~MadeBy(LookE, c2 - 1)
      BY <1>1, <1>2, <3>1, MadeAbove
    <3>3. QED
      BY <1>1, <1>2, <3>1, <3>2 DEF Found
  <2>2. c2 > 0
    BY <1>1, <1>4, BoundsAssumption
  <2>3. LookE = ESnap(St(1, c2), L[1])
    BY <2>1, <2>2 DEF EntryAt, SnapAt
  <2>4. out = [R |-> srv.R \cup (L[1] \ srv.Del), junk |-> srv.junk]
    BY <1>4, <2>3 DEF Oldest, ESnap
  <2>5. out.R = srv.R \cup (L[1] \ srv.Del)
    BY <2>4, Zenon
  <2>6. QED
    BY <1>1, <2>1, <2>5
<1>5. CASE srv.c2 = 0 /\ ~IsLink(LookE, srv.st)
  <2>1. PICK j \in {srv.junk, TRUE} : out = [R |-> srv.R, junk |-> j]
    BY <1>5 DEF Oldest
  <2>2. out.R = srv.R
    BY <2>1, Zenon
  <2>3. srv.R \subseteq live[kw]
    BY <1>1, <1>5 DEF Found, OffChain
  <2>4. QED
    BY <2>2, <2>3
<1>6. CASE srv.c2 # 0 /\ ~IsSnap(LookE, srv.st)
  <2>1. out = [R |-> srv.R, junk |-> srv.junk \/ LookE # ESnap(LookE.at, {})]
    BY <1>6 DEF Oldest
  <2>2. out.R = srv.R
    BY <2>1, Zenon
  <2>3. CASE srv.R \subseteq live[kw]
    BY <2>2, <2>3
  <2>4. CASE LookE.tag = "link"
    <3>1. LookE # ESnap(LookE.at, {})
      BY <2>4 DEF ESnap
    <3>2. out.junk = TRUE
      BY <2>1, <3>1
    <3>3. QED
      BY <3>2
  <2>5. QED
    BY <1>1, <2>3, <2>4 DEF Found
<1>7. QED
  BY <1>3, <1>4, <1>5, <1>6

\* The handler ends: nothing it streams back is not attached.
LEMMA LostReplied ==
  ASSUME LostInv, NEW L \in Histories, NEW M \in Chains, Accounted(kw, L, M),
         ServerThrow \/ ServerLast
  PROVE  /\ Accounted(kw, L, M)'
         /\ \A w \in Keyword \ {kw} : es'[w] = es[w]
<1>1. TypeInv /\ Phase /\ kw \in Keyword /\ srv.w = kw /\ DOMAIN es = Keyword
  BY Shapes DEF LostInv, TypeInv, Guarded, ServerThrow, ServerLast
<1>2. /\ UNCHANGED <<pc, kw, WC1, WC2, net, ps, live>> /\ srv' = None
  BY DEF ServerThrow, ServerLast
<1>3. Stored(kw)' = Stored(kw)
  BY <1>2 DEF Stored
<1>4. /\ reply'.junk \/ reply'.R \subseteq live[kw]
      /\ \A l \in DOMAIN es'[kw] : l \in DOMAIN es[kw] /\ es'[kw][l] = es[kw][l]
      /\ \A w \in Keyword \ {kw} : es'[w] = es[w]
  <2>1. CASE ServerThrow
    <3>1. es' = es /\ reply'.R = {}
      BY <2>1 DEF ServerThrow
    <3>2. QED
      BY <3>1
  <2>2. CASE ServerLast
    <3>1. srv # None /\ LookE # None /\ srv.i <= 1
      BY <2>2 DEF ServerLast
    <3>2. PICK out \in Oldest(LookE), wipe \in BOOLEAN :
            /\ es' = IF wipe THEN [es EXCEPT ![srv.w] = Delete(@, LookedUts)] ELSE es
            /\ reply' = [ok |-> TRUE, R |-> out.R, junk |-> out.junk, P |-> LookedP]
      BY <2>2 DEF ServerLast
    <3>3. out.junk \/ out.R \subseteq live[kw]
      BY <3>1, <3>2, LostAnswered
    <3>4. reply'.R = out.R /\ reply'.junk = out.junk
      BY <3>2, Zenon
    <3>5. QED
      BY <1>1, <3>2, <3>3, <3>4 DEF Delete
  <2>3. QED
    BY <2>1, <2>2
<1>5. Accounts(kw, L, M)' /\ IndexMade(kw)' /\ StoreKeeps(kw, M)'
  BY <1>1, <1>2, <1>3, <1>4, AccountKept
<1>6. NetHolds(kw, M)' /\ WalkKeeps(kw, L)' /\ ReplyKeeps(kw)'
  BY <1>2, <1>3, <1>4 DEF Accounted, NetHolds, WalkKeeps, ReplyKeeps
<1>7. QED
  BY <1>4, <1>5, <1>6 DEF Accounted

\* The client's turns leave the index and the reply alone, until it compacts.
LEMMA LostVerified ==
  ASSUME LostInv, NEW L \in Histories, NEW M \in Chains, Accounted(kw, L, M),
         RejectCount \/ VerifyFirst \/ VerifyNext \/ RejectResult \/ AcceptResult
  PROVE  Accounted(kw, L, M)'
<1>1. /\ UNCHANGED <<kw, WC1, WC2, net, es, srv, reply, live>> /\ pc = "search"
  BY DEF RejectCount, VerifyFirst, VerifyNext, RejectResult, AcceptResult
<1>2. Stored(kw)' = Stored(kw)
  BY <1>1 DEF Stored
<1>3. Accounts(kw, L, M)' /\ IndexMade(kw)' /\ StoreKeeps(kw, M)' /\ NetHolds(kw, M)'
  BY <1>1, <1>2 DEF Accounted, Accounts, EntryAt, SnapAt, LinkAt, IndexMade, StoreKeeps,
                    MadeBy, Made, NetHolds
<1>4. WalkKeeps(kw, L)' /\ ReplyKeeps(kw)'
  BY <1>1 DEF Accounted, WalkKeeps, OnChain, OffChain, LeftOver, MadeBy, Made, ReplyKeeps
<1>5. QED
  BY <1>3, <1>4 DEF Accounted

\* The next epoch begins with a snapshot of the reply, all of it attached.
LEMMA LostCompacted ==
  ASSUME LostInv, NEW L \in Histories, NEW M \in Chains, Accounted(kw, L, M), AcceptAndReProof
  PROVE  \E L2 \in Histories, M2 \in Chains : Accounted(kw, L2, M2)'
<1> DEFINE c2 == WC2[kw] + 1
           m == ReProofEntry(c2, reply.R)
<1>1. TypeInv /\ Phase
  BY DEF LostInv
<1>2. /\ pc = "search" /\ pc' = "reproof" /\ vi > 0 /\ UNCHANGED <<kw, es, ps, srv, live>>
  BY DEF AcceptAndReProof
<1>3. /\ kw \in Keyword /\ srv = None /\ net = <<>> /\ reply # None /\ reply \in ReplyType
      /\ WC2[kw] \in Nat /\ c2 > 0 /\ reply.R \in SUBSET Id
  <2>1. reply # None /\ kw \in Keyword
    BY <1>1, <1>2, Shapes DEF TypeInv, Guarded
  <2>2. reply \in ReplyType /\ srv = None /\ net = <<>>
    BY <1>1, <1>2, <2>1 DEF TypeInv, TypeOK, Guarded, Phase
  <2>3. WC2[kw] \in Nat
    BY <1>1, <2>1, Shapes
  <2>4. QED
    BY <2>1, <2>2, <2>3 DEF ReplyType
<1>4. reply.R \subseteq live[kw]
  BY <1>2, <1>3 DEF Accounted, ReplyKeeps, AcceptAndReProof, SetEqual
<1>5. /\ WC1'[kw] = 1 /\ WC2'[kw] = c2 /\ net' = Append(net, m)
  BY <1>1, <1>3, Shapes DEF AcceptAndReProof
<1>6. Len(net') = 1 /\ net'[1] = m
  BY <1>3, <1>5
<1>7. PICK L2 \in Histories, M2 \in Chains :
        L2 = [L EXCEPT ![1] = reply.R] /\ M2 = [M EXCEPT ![1] = m]
  <2>1. m \in Message
    <3>1. net' \in Seq(Message)
      BY <1>1, ClientType DEF ClientSearch, TypeInv, TypeOK
    <3>2. QED
      BY <1>6, <3>1
  <2>2. 1 \in 0..MaxC1 /\ 1 \in 1..MaxC1
    BY BoundsAssumption
  <2>3. QED
    BY <1>3, <2>1, <2>2 DEF Histories, Chains
<1>8. L2[0] = {} /\ L2[1] = reply.R /\ M2[1] = m
  BY <1>7, BoundsAssumption DEF Histories, Chains, Accounted, Accounts
<1>9. Stored(kw)' = 0
  BY <1>2, <1>5, <1>6 DEF Stored
<1>10. Accounts(kw, L2, M2)'
  <2>1. M2[1] = [w |-> kw, ut |-> St(1, c2), e |-> ESnap(St(1, c2), L2[1]), p |-> PSnap(c2, L2[1])]
    BY <1>8 DEF ReProofEntry
  <2>2. SnapAt(kw, c2, L2, M2)
    BY <2>1 DEF SnapAt
  <2>3. SnapAt(kw, WC2[kw], L2, M2)'
    BY <1>2, <1>5, <2>2 DEF SnapAt
  <2>4. EntryAt(kw, WC2[kw], L2, M2, 1)'
    BY <1>2, <1>3, <1>5, <2>3 DEF EntryAt
  <2>5. ASSUME NEW i \in 1..1 PROVE EntryAt(kw, WC2[kw], L2, M2, i)'
    <3>1. i = 1
      OBVIOUS
    <3>2. QED
      BY <2>4, <3>1
  <2>6. QED
    BY <1>2, <1>4, <1>5, <1>8, <2>5 DEF Accounts
<1>11. StoreKeeps(kw, M2)'
  <2>1. 1..0 = {}
    OBVIOUS
  <2>2. QED
    BY <1>2, <1>9, <2>1 DEF StoreKeeps
<1>12. NetHolds(kw, M2)'
  <2>1. ASSUME NEW k \in 1..1 PROVE net'[k] = M2[0 + k]
    <3>1. k = 1 /\ 0 + k = 1
      OBVIOUS
    <3>2. QED
      BY <1>6, <1>8, <3>1
  <2>2. QED
    BY <1>6, <1>9, <2>1 DEF NetHolds
<1>13. WalkKeeps(kw, L2)' /\ ReplyKeeps(kw)'
  BY <1>2, <1>3 DEF WalkKeeps, ReplyKeeps
<1>14. IndexMade(kw)'
  <2>1. \A cell : MadeBy(cell, WC2[kw]) => MadeBy(cell, c2)
    <3>1. 0..WC2[kw] \subseteq 0..c2
      BY <1>3
    <3>2. QED
      BY <3>1 DEF MadeBy
  <2>2. \A l \in DOMAIN es[kw] : es[kw][l].at = l /\ MadeBy(es[kw][l], c2)
    BY <2>1 DEF Accounted, IndexMade
  <2>3. QED
    BY <1>2, <1>5, <2>2 DEF IndexMade, MadeBy, Made
<1>15. QED
  BY <1>7, <1>10, <1>11, <1>12, <1>13, <1>14 DEF Accounted

-----------------------------------------------------------------------------
(* The invariant holds.                                                    *)

\* No action changes the index of a keyword that is not the command's.
LEMMA LostOthersKept ==
  ASSUME LostInv, NEW w \in Keyword, NEW L \in Histories, NEW M \in Chains, Accounted(w, L, M),
         w # kw, pc # "off", Next
  PROVE  Accounted(w, L, M)'
<1>1. TypeInv /\ Phase /\ kw \in Keyword
  BY Shapes DEF LostInv
<1>2. CASE FinishUpdate \/ FinishReProof \/ Exit
  BY <1>2, LostStartOrEnd
<1>3. CASE ~(FinishUpdate \/ FinishReProof \/ Exit)
  <2>1. kw' = kw /\ w # kw'
    BY <1>3 DEF Next, StartUpdate, StartSearch, WriteUpdate, ClientSearch, RejectCount,
                RejectResult, AcceptResult, VerifyFirst, VerifyNext, AcceptAndReProof,
                ServerHandler, ServerStore, ServerWalk, ServerWalkJunk, ServerThrow, ServerLast
  <2>2. WC1'[w] = WC1[w] /\ WC2'[w] = WC2[w] /\ live'[w] = live[w]
    BY <1>1, <1>3, Shapes DEF Next, StartUpdate, StartSearch, WriteUpdate, ClientSearch, RejectCount,
                RejectResult, AcceptResult, VerifyFirst, VerifyNext, AcceptAndReProof,
                ServerHandler, ServerStore, ServerWalk, ServerWalkJunk, ServerThrow, ServerLast
  <2>3. es'[w] = es[w]
    <3>1. PICK Lk \in Histories, Mk \in Chains : Accounted(kw, Lk, Mk)
      BY <1>1 DEF LostInv
    <3>2. CASE ServerStore
      BY <3>1, <3>2, LostDelivered
    <3>3. CASE ServerLast
      BY <3>1, <3>3, LostReplied
    <3>4. CASE ~(ServerStore \/ ServerLast)
      BY <1>3, <3>4 DEF Next, StartUpdate, StartSearch, WriteUpdate, ClientSearch, RejectCount,
                RejectResult, AcceptResult, VerifyFirst, VerifyNext, AcceptAndReProof,
                ServerHandler, ServerWalk, ServerWalkJunk, ServerThrow
    <3>5. QED
      BY <3>2, <3>3, <3>4
  <2>4. QED
    BY <2>1, <2>2, <2>3, LostElsewhere
<1>4. QED
  BY <1>2, <1>3

\* The same fact of the command's keyword, whichever way it is named.
LEMMA LostRenamed ==
  ASSUME NEW w, NEW L, NEW M, w = kw', Accounted(kw, L, M)'
  PROVE  Accounted(w, L, M)'
<1>1. Accounts(w, L, M)'
  BY DEF Accounted, Accounts, EntryAt, SnapAt, LinkAt
<1>2. IndexMade(w)' /\ StoreKeeps(w, M)'
  BY DEF Accounted, IndexMade, StoreKeeps, Stored, MadeBy, Made
<1>3. NetHolds(w, M)'
  BY DEF Accounted, NetHolds, Stored
<1>4. WalkKeeps(w, L)' /\ ReplyKeeps(w)'
  BY DEF Accounted, WalkKeeps, OnChain, OffChain, MadeBy, Made, ReplyKeeps
<1>5. QED
  BY <1>1, <1>2, <1>3, <1>4 DEF Accounted

LEMMA NextLost == LostInv /\ [Next]_vars => LostInv'
<1> SUFFICES ASSUME LostInv, [Next]_vars PROVE LostInv'
  OBVIOUS
<1>1. CASE UNCHANGED vars
  <2>1. TypeInv' /\ Phase'
    BY <1>1, NextType DEF vars, LostInv, Phase
  <2>2. ASSUME NEW w \in Keyword, NEW L \in Histories, NEW M \in Chains, Accounted(w, L, M)
        PROVE  Accounted(w, L, M)'
    <3>1. Stored(w)' = Stored(w)
      BY <1>1 DEF vars, Stored
    <3>2. Accounts(w, L, M)' /\ IndexMade(w)' /\ StoreKeeps(w, M)'
      BY <1>1, <2>2, <3>1, AccountKept DEF vars
    <3>3. NetHolds(w, M)' /\ WalkKeeps(w, L)' /\ ReplyKeeps(w)'
      BY <1>1, <2>2, <3>1 DEF vars, Accounted, NetHolds, WalkKeeps, OnChain, OffChain,
                                     MadeBy, Made, LeftOver, ReplyKeeps
    <3>4. QED
      BY <3>2, <3>3 DEF Accounted
  <2>3. Histories' = Histories /\ Chains' = Chains
    BY DEF Histories, Chains
  <2>4. QED
    BY <2>1, <2>2, <2>3 DEF LostInv
<1>2. CASE Next
  <2>1. TypeInv' /\ Phase'
    BY <1>2, NextType, PhaseNext DEF LostInv
  <2>2. ASSUME NEW w \in Keyword
        PROVE  (\E L \in Histories, M \in Chains : Accounted(w, L, M))'
    <3>1. PICK L \in Histories, M \in Chains : Accounted(w, L, M)
      BY DEF LostInv
    <3>2. Histories' = Histories /\ Chains' = Chains
      BY DEF Histories, Chains
    <3>3. SUFFICES \E L2 \in Histories, M2 \in Chains : Accounted(w, L2, M2)'
      BY <3>2
    <3>4. CASE \/ \E v \in Keyword : StartUpdate(v) \/ StartSearch(v)
               \/ FinishUpdate \/ FinishReProof \/ Exit
      BY <3>1, <3>4, LostStartOrEnd
    <3>5. CASE pc # "off" /\ w # kw
      BY <1>2, <3>1, <3>5, LostOthersKept
    <3>6. CASE w = kw /\ \E op \in Op, id \in Id : WriteUpdate(op, id)
      <4>1. \E L2 \in Histories, M2 \in Chains : Accounted(kw, L2, M2)'
        BY <3>1, <3>6, LostWritten
      <4>2. kw' = kw
        BY <3>6 DEF WriteUpdate
      <4>3. QED
        BY <3>6, <4>1, <4>2, LostRenamed
    <3>7. CASE w = kw /\ ServerHandler
      <4>1. Accounted(kw, L, M)'
        BY <3>1, <3>7, LostDelivered, LostWalked, LostReplied DEF ServerHandler
      <4>2. kw' = kw
        BY <3>7 DEF ServerHandler, ServerStore, ServerWalk, ServerWalkJunk, ServerThrow, ServerLast
      <4>3. QED
        BY <3>7, <4>1, <4>2, LostRenamed
    <3>8. CASE w = kw /\ (RejectCount \/ VerifyFirst \/ VerifyNext \/ RejectResult \/ AcceptResult)
      <4>1. Accounted(kw, L, M)'
        BY <3>1, <3>8, LostVerified
      <4>2. kw' = kw
        BY <3>8 DEF RejectCount, RejectResult, AcceptResult, VerifyFirst, VerifyNext
      <4>3. QED
        BY <3>8, <4>1, <4>2, LostRenamed
    <3>9. CASE w = kw /\ AcceptAndReProof
      <4>1. \E L2 \in Histories, M2 \in Chains : Accounted(kw, L2, M2)'
        BY <3>1, <3>9, LostCompacted
      <4>2. kw' = kw
        BY <3>9 DEF AcceptAndReProof
      <4>3. QED
        BY <3>9, <4>1, <4>2, LostRenamed
    <3>10. CASE pc = "off"
      <4>1. net = <<>> /\ srv = None
        BY <3>10 DEF LostInv, Phase, TypeInv, Guarded
      <4>2. \E v \in Keyword : StartUpdate(v) \/ StartSearch(v)
        BY <1>2, <3>10, <4>1 DEF Next, WriteUpdate, FinishUpdate, Exit, ClientSearch, RejectCount,
                RejectResult, AcceptResult, VerifyFirst, VerifyNext, AcceptAndReProof, FinishReProof,
                ServerHandler, ServerStore, ServerWalk, ServerWalkJunk, ServerThrow, ServerLast
      <4>3. QED
        BY <3>4, <4>2
    <3>11. QED
      BY <1>2, <3>4, <3>5, <3>6, <3>7, <3>8, <3>9, <3>10 DEF Next, ClientSearch
  <2>3. QED
    BY <2>1, <2>2 DEF LostInv
<1>3. QED
  BY <1>1, <1>2

\* Whatever messages were lost on the way to the server, or by it between the
\* two stores of an entry, in this epoch and in those before, no later search
\* makes the client accept a document that is not attached.
THEOREM LossesHideOnly == LostSpec => []AcceptedIsLive
<1>1. ASSUME LostInv PROVE AcceptedIsLive
  <2> SUFFICES ASSUME Accepting PROVE reply.R \subseteq live[kw]
    BY DEF AcceptedIsLive
  <2>1. pc = "search" /\ reply # None /\ kw \in Keyword
    BY <1>1, Shapes DEF LostInv, Accepting, TypeInv, Guarded
  <2>2. PICK L \in Histories, M \in Chains : Accounted(kw, L, M)
    BY <1>1, <2>1 DEF LostInv
  <2>3. QED
    BY <2>1, <2>2 DEF Accounted, ReplyKeeps, Accepting, SetEqual
<1>2. QED
  BY <1>1, InitLost, NextLost, PTL DEF LostSpec
=============================================================================
