----------------------------- MODULE FFVSELost -----------------------------
(***************************************************************************)
(* FFVSE from every state lost messages can leave behind.  No job looks at *)
(* the status of its stream and the counters move whether a message        *)
(* arrives or not, so any number of failed jobs leaves any subset of the   *)
(* chain's entries at the server; a server that dies between its two       *)
(* stores leaves an "e" entry without its "p" entry.                       *)
(*                                                                         *)
(* A search deletes the "e" entries it walked and never a "p" entry.  Of   *)
(* the epochs before, any "p" entries are left and any "e" entries that a  *)
(* walk did not come by or that arrived after it; some of them under       *)
(* labels of this epoch, for a label is two numbers written one after the  *)
(* other.                                                                  *)
(***************************************************************************)
EXTENDS FFVSE

CONSTANT Shift(_)   \* 10 to the number of digits of a counter
ASSUME ConcatAssumption ==
  /\ \A c2 \in 0..MaxC2 : Shift(c2) \in Nat /\ c2 < Shift(c2)
  /\ \A c2 \in 0..MaxC2 : \A c \in 0..c2 : Shift(c) <= Shift(c2)
  /\ \A c1 \in 1..MaxC1, c2 \in 0..MaxC2 : St(c1, c2) = c1 * Shift(c2) + c2

\* Entry 1 of an epoch is a snapshot if the epoch is not the first.
IsSnapshot(i, c2) == i = 1 /\ c2 > 0

\* What the jobs of an epoch with n entries generate: the updates, and the
\* documents attached after each entry.  A snapshot may hold any.
JobRuns(c2, n) ==
  {run \in [ups : [1..n -> [op : Op, id : Id]], after : [0..n -> SUBSET Id]] :
     /\ run.after[0] = {}
     /\ \A i \in 1..n : ~IsSnapshot(i, c2) =>
          run.after[i] = Apply(run.after[i - 1], run.ups[i].op, run.ups[i].id)}

\* The two cells of entry i.
GeneratedE(run, c2, i) ==
  IF IsSnapshot(i, c2) THEN ESnap(St(i, c2), run.after[i])
                       ELSE ELink(St(i, c2), Prev(i, c2), run.ups[i].op, run.ups[i].id)
GeneratedP(run, c2, i) ==
  IF IsSnapshot(i, c2) THEN PSnap(c2, run.after[i])
                       ELSE PLink(c2, run.ups[i].op, run.ups[i].id)

\* All cells that entry i of an epoch can have been.
AnyE(i, c2) == IF IsSnapshot(i, c2) THEN {ESnap(St(i, c2), ids) : ids \in SUBSET Id}
               ELSE {ELink(St(i, c2), Prev(i, c2), op, id) : op \in Op, id \in Id}
AnyP(i, c2) == IF IsSnapshot(i, c2) THEN {PSnap(c2, ids) : ids \in SUBSET Id}
               ELSE {PLink(c2, op, id) : op \in Op, id \in Id}

\* What is left of the epochs before c2, by label.
OldLabels(c2) == {St(i, c) : i \in 1..MaxC1, c \in 0..(c2 - 1)}
OldE(c2, l) == UNION {AnyE(ic[1], ic[2]) :
                        ic \in {k \in (1..MaxC1) \X (0..(c2 - 1)) : St(k[1], k[2]) = l}}
OldP(c2, l) == UNION {AnyP(ic[1], ic[2]) :
                        ic \in {k \in (1..MaxC1) \X (0..(c2 - 1)) : St(k[1], k[2]) = l}}
OldEs(c2) == UNION {{f \in [D -> UNION {OldE(c2, l) : l \in D}] : \A l \in D : f[l] \in OldE(c2, l)} :
                      D \in SUBSET OldLabels(c2)}
OldPs(c2) == UNION {{f \in [D -> UNION {OldP(c2, l) : l \in D}] : \A l \in D : f[l] \in OldP(c2, l)} :
                      D \in SUBSET OldLabels(c2)}

\* What has become of the n entries of epoch c2, what is left of the epochs
\* before, and the documents their losses hid from the snapshot.
Losses(c2, n) == [c2 : {c2}, n : {n}, run : JobRuns(c2, n),
                  fate : [1..n -> {"stored", "half stored", "lost"}],
                  oldE : OldEs(c2), oldP : OldPs(c2),
                  hidden : IF c2 = 0 THEN {{}} ELSE SUBSET Id]

\* Newer entries over older ones.
Over(new, old) == [l \in DOMAIN new \cup DOMAIN old |-> IF l \in DOMAIN new THEN new[l] ELSE old[l]]

\* The index of a keyword after a loss; the counters have moved n times.
LostFrom(loss) ==
  LET At(fates)  == {St(i, loss.c2) : i \in {j \in 1..loss.n : loss.fate[j] \in fates}}
      Number(l)  == CHOOSE i \in 1..loss.n : St(i, loss.c2) = l
  IN  [c1 |-> loss.n, c2 |-> loss.c2, live |-> loss.run.after[loss.n] \cup loss.hidden,
       es |-> Over([l \in At({"stored", "half stored"}) |->
                      GeneratedE(loss.run, loss.c2, Number(l))], loss.oldE),
       ps |-> Over([l \in At({"stored"}) |->
                      GeneratedP(loss.run, loss.c2, Number(l))], loss.oldP)]

\* A keyword without updates has no epoch but the first.  No search is made in
\* epoch MaxC2.
Empty == [c1 |-> 0, c2 |-> 0, live |-> {}, es |-> <<>>, ps |-> <<>>]
LostIndexes == {Empty} \cup {LostFrom(loss) : loss \in
                               UNION {Losses(c2, n) : c2 \in 0..(MaxC2 - 1), n \in 1..MaxC1}}

LostInit ==
  /\ pc = "off" /\ kw = None /\ net = <<>>
  /\ srv = None /\ reply = None /\ vi = 0 /\ Rp = {} /\ result = None
  /\ \E index \in [Keyword -> LostIndexes] :
       /\ db = [w \in Keyword |-> [c1 |-> index[w].c1, c2 |-> index[w].c2]]
       /\ WC1 = [w \in Keyword |-> index[w].c1] /\ WC2 = [w \in Keyword |-> index[w].c2]
       /\ es = [w \in Keyword |-> index[w].es] /\ ps = [w \in Keyword |-> index[w].ps]
       /\ live = [w \in Keyword |-> index[w].live]

LostSpec == LostInit /\ [][Next]_vars
=============================================================================
