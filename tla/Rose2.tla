------------------------------- MODULE Rose2 -------------------------------
(***************************************************************************)
(* Rose^2 (src/ROSE-2), for one keyword: the client's Update_Rose_2 and    *)
(* search_Rose_2, the server's handlers and search loop, and the sessions  *)
(* of rpc_client that load ST from the client's database and save it only  *)
(* when they end.                                                          *)
(*                                                                         *)
(* The server keeps an encrypted entry per label.  A label is the PRF      *)
(* under the keyword's key of a tree node and a counter: <<node, num, key>>*)
(* Leaves hold documents, under counter 1, and a link to the leaf before   *)
(* them; nodes hold the numbers and counters of their children, one entry  *)
(* per deletion below them.  The two oblivious maps are plain maps here.   *)
(***************************************************************************)
EXTENDS Rose2Tree, FiniteSets

CONSTANTS MaxIds,        \* documents ever added
          MaxKeys,       \* KUPRF keys ever generated
          MaxDeletes,    \* deletions ever requested
          MaxKills       \* client processes killed before they save
ASSUME BoundsAssumption ==
  /\ MaxIds \in 1..N
  /\ {MaxKeys, MaxDeletes, MaxKills} \subseteq Nat

VARIABLES
  pc, id,    \* the step the client process is at, and the document it handles
  ST, db,    \* the keyword's entry of ST in memory, and in the database
  ins, sent, \* the nodes a deletion writes; how many of each stream arrived
  OD_del,    \* server: document |-> its leaf
  OD_tree,   \* server: node |-> its children, -1 for a removed node
  EDB,       \* server: label |-> [c, d], the entries "L" and "dL"
  srv,       \* the token a search sent, and the locals of its loop
  hist       \* what was asked for: documents by leaf, deletions, accidents
vars == <<pc, id, ST, db, ins, sent, OD_del, OD_tree, EDB, srv, hist>>
server == <<OD_del, OD_tree, EDB>>

Doc(i) == [id |-> i]     \* Enc(id); Doc(0) is the empty string
NoLabel == <<0, 0, 0>>   \* a label under which nothing is stored
NewST == [K |-> 0, cnt_i |-> 0, cnt_d |-> 0, sn |-> 0, lastL |-> NoLabel]
Known == ST # <<>>       \* ST.find(w) != ST.end()
STw == IF Known THEN ST ELSE NewST

Leaf(i, K) == <<i, 1, K>>
Node(n, num, K) == <<n, num, K>>
Put(f, k, v) == [x \in DOMAIN f \cup {k} |-> IF x = k THEN v ELSE f[x]]

NoSearch == [q |-> <<>>, K |-> 0, cnt_i |-> 0, cnt_d |-> 0, k |-> 0, lln |-> 1,
             L |-> NoLabel, C |-> Doc(0), D |-> [h |-> 0, to |-> NoLabel], R |-> <<>>]

Init ==
  /\ pc = "off" /\ id = 0
  /\ ST = <<>> /\ db = <<>>
  /\ ins = <<>> /\ sent = [tree |-> 0, entry |-> 0]
  /\ OD_del = <<>> /\ OD_tree = <<>> /\ EDB = <<>>
  /\ srv = NoSearch
  /\ hist = [docs |-> <<>>, deleted |-> {}, dels |-> 0, mixed |-> FALSE,
             again |-> FALSE, torn |-> FALSE, reused |-> FALSE, keys |-> 0, kills |-> 0]

-----------------------------------------------------------------------------
\* A session: Client::Client loads ST, ~Client saves it.
Start == /\ pc = "off"
         /\ pc' = "ready" /\ ST' = db
         /\ UNCHANGED <<id, db, ins, sent, server, srv, hist>>

Exit == /\ pc = "ready"
        /\ pc' = "off" /\ db' = ST
        /\ UNCHANGED <<id, ST, ins, sent, server, srv, hist>>

\* The process ends without ~Client; what its streams had not delivered is gone.
Lose(h) == /\ pc' = "off" /\ ST' = db
           /\ ins' = <<>> /\ sent' = [tree |-> 0, entry |-> 0]
           /\ srv' = NoSearch /\ hist' = h
           /\ UNCHANGED <<id, db, server>>

Torn == pc = "del" /\ sent # [tree |-> 0, entry |-> 0]

Kill == /\ pc # "off" /\ hist.kills < MaxKills
        /\ Lose([hist EXCEPT !.kills = @ + 1, !.torn = @ \/ Torn])

-----------------------------------------------------------------------------
\* Update_Rose_2, op 1.  A document OD_del knows is left alone.
AddFind ==
  /\ pc = "ready" /\ Cardinality(DOMAIN OD_del) < MaxIds
  /\ Known \/ hist.keys < MaxKeys
  /\ pc' = "addInsert" /\ id' = Cardinality(DOMAIN OD_del) + 1
  /\ UNCHANGED <<ST, db, ins, sent, server, srv, hist>>

AddInsert ==
  /\ pc = "addInsert"
  /\ pc' = "addSend" /\ OD_del' = Put(OD_del, id, STw.cnt_i + 1)
  /\ UNCHANGED <<id, ST, db, ins, sent, OD_tree, EDB, srv, hist>>

AddSend ==
  /\ pc = "addSend" /\ pc' = "ready"
  /\ LET K == IF Known THEN ST.K ELSE hist.keys + 1
         cnt_i == STw.cnt_i + 1
     IN  /\ ST' = [K |-> K, cnt_i |-> cnt_i, cnt_d |-> STw.cnt_d, sn |-> getSn(cnt_i),
                   lastL |-> Leaf(cnt_i, K)]
         /\ EDB' = Put(EDB, Leaf(cnt_i, K),
                       [c |-> Doc(id), d |-> [h |-> cnt_i, to |-> STw.lastL]])
         /\ hist' = [hist EXCEPT !.keys = IF Known THEN @ ELSE K,
                                 !.docs = Append(SubSeq(@, 1, cnt_i - 1), id),
                                 !.mixed = @ \/ hist.deleted # {},
                                 !.reused = @ \/ \E i \in hist.deleted : OD_del[i] = cnt_i]
  /\ UNCHANGED <<id, db, ins, sent, OD_del, OD_tree, srv>>

-----------------------------------------------------------------------------
\* The documents of the updates ST counts, and those of them not deleted.
Docs(s) == {s[i] : i \in DOMAIN s}
Live(cnt_i) == Docs(SubSeq(hist.docs, 1, cnt_i)) \ hist.deleted

\* Update_Rose_2, op 0.  A document OD_del does not know is left alone.
DelFind(i) ==
  /\ pc = "ready" /\ hist.dels < MaxDeletes
  /\ i \in DOMAIN OD_del
  /\ pc' = "delRead" /\ id' = i
  /\ hist' = [hist EXCEPT !.deleted = @ \cup {i}, !.dels = @ + 1,
                          !.again = @ \/ i \notin Live(STw.cnt_i)]
  /\ UNCHANGED <<ST, db, ins, sent, server, srv>>

\* Mutation: the children are taken one level too high.
FreshHigh(leaf, d) ==
  LET NN == InternalNodes(leaf)
  IN  [Node |-> NN[d], Num |-> 0, l |-> LeftOf(NN[d]), lNum |-> 0, r |-> RightOf(NN[d]), rNum |-> 0]

\* An ancestor no deletion has touched, d steps below the root.
Fresh(leaf, d) ==
  LET NN == InternalNodes(leaf)
      child == IF d = Depth THEN leaf ELSE NN[d + 1]
  IN  [Node |-> NN[d], Num |-> 0, l |-> LeftOf(child), lNum |-> 0, r |-> RightOf(child), rNum |-> 0]

\* Ins: the ancestors of a leaf that are not removed, from the root down.
Ancestors(leaf) ==
  LET NN == InternalNodes(leaf)
      In == [d \in 1..Depth |-> IF NN[d] \in DOMAIN OD_tree THEN OD_tree[NN[d]] ELSE Fresh(leaf, d)]
      Kept == {d \in 1..Depth : In[d].Num # -1}
  IN  [j \in 1..Cardinality(Kept) |-> In[CHOOSE d \in Kept : Cardinality(Kept \cap 1..d) = j]]

\* The child of p that stays when the leaf goes, with its counter.
Sibling(p, leaf) ==
  LET sib == IF p.l = leaf THEN [n |-> p.r, num |-> p.rNum] ELSE [n |-> p.l, num |-> p.lNum]
  IN  IF sib.n <= N THEN [sib EXCEPT !.num = 0] ELSE sib

\* Mutation: the sibling always becomes the left child.
RelinkLeft(gp, p, sib) == [gp EXCEPT !.l = sib.n, !.lNum = sib.num]

\* gp gets the sibling in p's place; its counter goes to lNum on either side.
Relink(gp, p, sib) ==
  IF gp.l = p.Node THEN [gp EXCEPT !.l = sib.n, !.lNum = sib.num]
  ELSE [gp EXCEPT !.r = sib.n, !.lNum = sib.num]

\* Mutation: the counters of the children are not touched.
BumpAlone(n, x) == [n EXCEPT !.Num = @ + 1]

\* The loop's update of a node above the last one, whose next one is x.
Bump(n, x) == [n EXCEPT !.Num  = @ + 1,
                        !.lNum = IF n.l = x.Node THEN @ + 1 ELSE @,
                        !.rNum = IF n.l # x.Node /\ n.r = x.Node THEN @ + 1 ELSE @]

\* What the two streams of a deletion carry.
Written(anc, leaf) ==
  LET k == Len(anc)
      linked == IF k < 2 THEN anc
                ELSE [anc EXCEPT ![k - 1] = Relink(@, anc[k], Sibling(anc[k], leaf))]
  IN  [j \in 1..k |-> IF j = k THEN [linked[k] EXCEPT !.Num = -1] ELSE Bump(linked[j], anc[j + 1])]

\* batchOMAPFind and the computation of Ins.
DelRead ==
  /\ pc = "delRead" /\ Ancestors(OD_del[id]) # <<>>
  /\ pc' = "del"
  /\ LET anc == Ancestors(OD_del[id])
         k == Len(anc)
     IN  /\ ins' = Written(anc, OD_del[id])
         /\ ST' = IF k < 2 THEN STw
                  ELSE [STw EXCEPT !.cnt_d = @ + 1,
                                   !.sn = IF anc[k - 1].Node > @ THEN anc[k - 1].Node ELSE @]
  /\ UNCHANGED <<id, db, sent, server, srv, hist>>

\* With no ancestor left Ins[Ins.size() - 1] is out of bounds: the process dies.
DelCrash ==
  /\ pc = "delRead" /\ Ancestors(OD_del[id]) = <<>>
  /\ Lose(hist)

\* batch_update_Rose_2 stores the entry of the next node above the last.
DelEntry ==
  /\ pc = "del" /\ sent.entry < Len(ins) - 1
  /\ sent' = [sent EXCEPT !.entry = @ + 1]
  /\ LET x == ins[sent.entry + 1]
     IN  EDB' = Put(EDB, Node(x.Node, x.Num, ST.K), [c |-> x, d |-> [h |-> 0, to |-> NoLabel]])
  /\ UNCHANGED <<pc, id, ST, db, ins, OD_del, OD_tree, srv, hist>>

\* batchOMAPInsert; the last node is written once the entries have arrived.
DelTree ==
  /\ pc = "del" /\ sent.tree < Len(ins)
  /\ sent.tree = Len(ins) - 1 => sent.entry = Len(ins) - 1
  /\ sent' = [sent EXCEPT !.tree = @ + 1]
  /\ OD_tree' = Put(OD_tree, ins[sent.tree + 1].Node, ins[sent.tree + 1])
  /\ UNCHANGED <<pc, id, ST, db, ins, OD_del, EDB, srv, hist>>

DelEnd ==
  /\ pc = "del" /\ sent.tree = Len(ins)
  /\ pc' = "ready" /\ ins' = <<>> /\ sent' = [tree |-> 0, entry |-> 0]
  /\ UNCHANGED <<id, ST, db, server, srv, hist>>

-----------------------------------------------------------------------------
\* trapdoor_Rose_2: the token carries the key so far, ST a new one.
StartSearch ==
  /\ pc = "ready" /\ hist.keys < MaxKeys
  /\ pc' = "search"
  /\ ST' = [STw EXCEPT !.K = hist.keys + 1]
  /\ hist' = [hist EXCEPT !.keys = @ + 1]
  /\ srv' = [NoSearch EXCEPT !.q = <<<<STw.sn, STw.cnt_d>>>>, !.K = STw.K,
                             !.cnt_i = STw.cnt_i, !.cnt_d = STw.cnt_d]
  /\ UNCHANGED <<id, db, ins, sent, server>>

Walking == srv.k >= srv.lln
Turn == pc = "search" /\ ~Walking /\ srv.q # <<>>
HeadLabel == Node(srv.q[1][1], srv.q[1][2], srv.K)
Read(l, old) == IF l \in DOMAIN EDB THEN EDB[l] ELSE old   \* get() leaves its target on a miss

\* A node with an entry: its children, the right one if it has updates.
Expand ==
  /\ Turn /\ srv.q[1][1] > N /\ HeadLabel \in DOMAIN EDB
  /\ LET C == EDB[HeadLabel].c
         right == IF lln(C.r) <= srv.cnt_i THEN <<<<C.r, C.rNum>>>> ELSE <<>>
     IN  srv' = [srv EXCEPT !.q = Tail(@) \o <<<<C.l, C.lNum>>>> \o right, !.C = C]
  /\ UNCHANGED <<pc, id, ST, db, ins, sent, server, hist>>

\* A leaf.
TakeLeaf ==
  /\ Turn /\ srv.q[1][1] <= N
  /\ LET C == Read(Leaf(srv.q[1][1], srv.K), [c |-> srv.C]).c
     IN  srv' = [srv EXCEPT !.q = Tail(@), !.C = C, !.R = Append(@, C)]
  /\ UNCHANGED <<pc, id, ST, db, ins, sent, server, hist>>

\* A node with no entry: every leaf under it, by the chain from its last one.
WalkNode ==
  /\ Turn /\ srv.q[1][1] > N /\ HeadLabel \notin DOMAIN EDB
  /\ LET n == srv.q[1][1]
         k == IF srv.cnt_i < rln(n) THEN srv.cnt_i ELSE rln(n)
     IN  srv' = [srv EXCEPT !.q = Tail(@), !.k = k, !.lln = lln(n), !.L = Leaf(k, srv.K)]
  /\ UNCHANGED <<pc, id, ST, db, ins, sent, server, hist>>

\* Util::Xor(D, H(k) + "0"): the link, if D is the one of leaf k.
Follow(D, k) == IF D.h = k THEN D.to ELSE NoLabel

\* Mutation: the labels of the other leaves are computed like the first's.
WalkByKey ==
  /\ pc = "search" /\ Walking
  /\ LET e == Read(srv.L, [c |-> srv.C, d |-> srv.D])
     IN  srv' = [srv EXCEPT !.C = e.c, !.D = e.d, !.R = Append(@, e.c),
                            !.k = @ - 1, !.L = Leaf(srv.k - 1, srv.K)]
  /\ UNCHANGED <<pc, id, ST, db, ins, sent, server, hist>>

WalkLeaf ==
  /\ pc = "search" /\ Walking
  /\ LET e == Read(srv.L, [c |-> srv.C, d |-> srv.D])
     IN  srv' = [srv EXCEPT !.C = e.c, !.D = e.d, !.R = Append(@, e.c),
                            !.k = @ - 1, !.L = Follow(e.d, srv.k)]
  /\ UNCHANGED <<pc, id, ST, db, ins, sent, server, hist>>

\* The stream of R ends and the client counts what it read.
Answered == pc = "search" /\ ~Walking /\ srv.q = <<>>
SearchEnd ==
  /\ Answered
  /\ pc' = "ready" /\ srv' = NoSearch
  /\ UNCHANGED <<id, ST, db, ins, sent, server, hist>>

-----------------------------------------------------------------------------
Add == AddFind \/ AddInsert \/ AddSend
Del == (\E i \in 1..MaxIds : DelFind(i)) \/ DelRead \/ DelCrash \/ DelEntry \/ DelTree \/ DelEnd
Search == Expand \/ TakeLeaf \/ WalkNode \/ WalkLeaf \/ SearchEnd
Next == Start \/ Exit \/ Kill \/ Add \/ Del \/ StartSearch \/ Search

Spec == Init /\ [][Next]_vars
-----------------------------------------------------------------------------
Links == [Node : (N + 1)..(2 * N - 1), Num : -1..MaxDeletes,
          l : 1..(2 * N - 2), lNum : 0..MaxDeletes, r : 1..(2 * N - 2), rNum : 0..MaxDeletes]
Cells == [id : 0..MaxIds] \cup Links
Labels == (0..(2 * N)) \X (0..MaxDeletes + 1) \X (0..MaxKeys)
STs == [K : 0..MaxKeys, cnt_i : 0..MaxIds, cnt_d : 0..MaxDeletes, sn : 0..(2 * N), lastL : Labels]

\* The shape of every piece of state; an OD_tree entry is filed under its node.
TypeOK ==
  /\ pc \in {"off", "ready", "addInsert", "addSend", "delRead", "del", "search"}
  /\ id \in 0..MaxIds
  /\ {ST, db} \subseteq STs \cup {<<>>}
  /\ \A j \in DOMAIN ins : ins[j] \in Links
  /\ DOMAIN OD_del \subseteq 1..MaxIds /\ \A i \in DOMAIN OD_del : OD_del[i] \in 1..MaxIds
  /\ \A n \in DOMAIN OD_tree : OD_tree[n] \in Links /\ OD_tree[n].Node = n
  /\ \A l \in DOMAIN EDB : l \in Labels /\ EDB[l].c \in Cells /\ EDB[l].d.to \in Labels

\* What a search returned that is a document.
Found(R) == {R[j].id : j \in {j \in DOMAIN R : "id" \in DOMAIN R[j]}} \ {0}
\* The updates the token counts are stored under the token's key.
SameKey == \A i \in 1..srv.cnt_i : Leaf(i, srv.K) \in DOMAIN EDB

\* Before the key of its updates changes, a search loses no document that was
\* added and not deleted, whatever deletions, sessions and killed processes
\* came before (unless one was killed in the middle of writing a deletion, a
\* document was deleted that was not there, or the leaf of a deleted document
\* whose addition a killed process lost went to another document).
LiveReturned ==
  Answered /\ SameKey /\ ~hist.torn /\ ~hist.again /\ ~hist.reused => Live(srv.cnt_i) \subseteq Found(srv.R)

\* The same when documents are deleted again.
LiveReturnedAfterAll == Answered /\ SameKey => Live(srv.cnt_i) \subseteq Found(srv.R)

\* Without deletions a search returns every update once, the newest first, as
\* long as the newest was stored under the token's key: the links lead across
\* the keys of earlier searches, and past what killed processes left behind.
ExactWithoutDeletes ==
  Answered /\ srv.cnt_d = 0 /\ srv.cnt_i > 0 /\ Leaf(srv.cnt_i, srv.K) \in DOMAIN EDB
    => srv.R = [j \in 1..srv.cnt_i |-> Doc(hist.docs[srv.cnt_i + 1 - j])]

\* The first two deletions of a keyword to which nothing is added afterwards
\* take effect: the search returns exactly what is left.  A third may not: Relink
\* puts the sibling's counter in place of the left child's, and a search that
\* finds no entry under it walks the deleted leaves.
FewDeletesHold ==
  Answered /\ ~hist.mixed /\ ~hist.again /\ hist.kills = 0 /\ srv.cnt_d = Cardinality(hist.deleted) /\ srv.cnt_d <= 2
  /\ (\A l \in DOMAIN EDB : l[3] = srv.K)
    => Found(srv.R) = Live(srv.cnt_i)

\* A document that was deleted is not returned any more.
DeletedNotReturned == Answered => hist.deleted \cap Found(srv.R) = {}

\* A search finds what is there, however many searches came before it.
SearchRepeats == Answered => Live(srv.cnt_i) \subseteq Found(srv.R)

\* The children of a node lie below it, in OD_tree and in every entry, however
\* often nodes were relinked by deletions of the same document: a search, which
\* follows them with no record of where it has been, cannot run in circles.
Descends ==
  /\ \A n \in DOMAIN OD_tree : OD_tree[n].l < n /\ OD_tree[n].r < n
  /\ \A l \in DOMAIN EDB : l[1] > N => EDB[l].c.l < l[1] /\ EDB[l].c.r < l[1]
=============================================================================
