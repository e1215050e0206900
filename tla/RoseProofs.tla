----------------------------- MODULE RoseProofs -----------------------------
(***************************************************************************)
(* Proof, for any documents and any number of updates, searches, killed    *)
(* clients, broken streams and failed searches, that the nodes of ROSE     *)
(* keep their shape, that links lead back in time, that the deletion       *)
(* tokens of a walk are under the key of the node it reads, that every     *)
(* answer is exactly what was added and not deleted, and that a walk goes  *)
(* astray only for a cause.                                                *)
(***************************************************************************)
EXTENDS Rose, SequenceTheorems, TLAPS

Tokens == (Ids \cup {0} \cup Numbers) \X (Numbers \cup {0})

\* The node a search asks the server to store.
Requested == IF srv.st = "request" THEN {srv.req} ELSE {}

\* Wherever node n is, it is under key k.
KeyIs(n, k) ==
  /\ n \in DOMAIN EDB => EDB[n].key = k
  /\ \A j \in 1..Len(net) : net[j].n = n => net[j].node.key = k
  /\ n \in Requested => srv.Delta[1] = k

\* The key a node's link leads to: a search leads from a new key to the old one.
Older(e) == IF e.op = "srh" THEN e.x[2] ELSE e.key

\* What a node of each kind carries.
Tokened(e) == /\ e.op = "add" => e.x = NoToken
              /\ e.op = "del" => e.x = NoToken \/ e.x[2] = e.key
              /\ e.op = "srh" => e.x[1] = e.key

Shaped(n, e) == e \in Nodes /\ e.prev < n /\ Tokened(e)

Known(r) ==
  /\ r \in [n : {Nowhere} \cup 1..hist.n, key : 0..hist.n]
  /\ r.n # Nowhere => r.key # 0
  /\ KeyIs(r.n, r.key)

Counting ==
  /\ hist.n = hist.updates + hist.searches
  /\ hist.updates \in 0..MaxUpdates /\ hist.searches \in 0..MaxSearches

Remembered == Known(LastNode) /\ Known(db)

Stored == /\ DOMAIN EDB \subseteq 1..hist.n
          /\ \A n \in DOMAIN EDB : Shaped(n, EDB[n]) /\ KeyIs(EDB[n].prev, Older(EDB[n]))

Streamed ==
  /\ net \in Seq([n : 1..hist.n, node : Nodes])
  /\ \A j \in 1..Len(net) : /\ Shaped(net[j].n, net[j].node)
                            /\ KeyIs(net[j].node.prev, Older(net[j].node))

\* The node a walk is at is the one before the last it kept.
Walking ==
  srv.st = "walk" =>
    /\ srv.Lt \in DOMAIN EDB /\ EDB[srv.Lt].prev = srv.L1
    /\ srv.opt = "srh" => EDB[srv.Lt].op = "srh"
    /\ srv.opt = "srh" /\ srv.Delta # NoToken => srv.Delta = EDB[srv.Lt].x
    /\ srv.D \in Seq(Tokens)
    /\ \A j \in 1..Len(srv.D) : srv.D[j] = NoToken \/ KeyIs(srv.L1, srv.D[j][2])

Asked ==
  srv.st = "request" =>
    /\ srv.req \in 1..hist.n /\ srv.Lt = srv.req
    /\ srv.L1 \in {Nowhere} \cup 1..hist.n /\ srv.L1 < srv.req
    /\ srv.opt = "srh" /\ srv.D = <<>>
    /\ srv.Delta \in {srv.req} \X (0..hist.n)
    /\ KeyIs(srv.L1, srv.Delta[2])

\* A walk has the index to itself.
Alone == srv.st # "idle" => net = <<>> /\ pc # "ready"

\* The fields of the two records.
Fields ==
  /\ srv \in [st : {srv.st}, req : {srv.req}, Lt : {srv.Lt}, opt : {srv.opt}, Delta : {srv.Delta},
              L1 : {srv.L1}, D : {srv.D}, cache : {srv.cache}, result : {srv.result}]
  /\ hist \in [n : {hist.n}, log : {hist.log}, saved : {hist.saved}, updates : {hist.updates},
               searches : {hist.searches}, faults : {hist.faults}, forgot : {hist.forgot}]

IInv == /\ Fields /\ Counting /\ Remembered /\ Stored /\ Streamed /\ Walking /\ Asked /\ Alone

LEMMA InitInv == Init => IInv
<1> SUFFICES ASSUME Init PROVE IInv
  OBVIOUS
<1> USE DEF Init
<1>1. Fields /\ Counting
  BY RoseAssumption DEF Fields, Counting, Idle
<1>2. Remembered
  BY DEF Remembered, Known, Unknown, Nowhere, KeyIs, Requested, Idle
<1>3. Stored /\ Streamed /\ Walking /\ Asked /\ Alone
  BY DEF Stored, Streamed, Walking, Asked, Alone, Idle
<1> QED
  BY <1>1, <1>2, <1>3 DEF IInv

\* A step that leaves the keys of all the nodes there were, and makes no new one.
Steady == \A n, k : KeyIs(n, k) => KeyIs(n, k)'

\* The same of the nodes there were, when one is made.
SteadyBut(m) == \A n, k : n # m /\ KeyIs(n, k) => KeyIs(n, k)'

LEMMA SteadyStore ==
  ASSUME \A n \in DOMAIN EDB' : n \in DOMAIN EDB /\ EDB'[n].key = EDB[n].key,
         net' = net, srv'.st # "request"
  PROVE  Steady
BY DEF Steady, KeyIs, Requested

LEMMA KnownKept ==
  ASSUME NEW r, Known(r), Counting, hist'.n >= hist.n, hist'.n \in Int,
         \A k : KeyIs(r.n, k) => KeyIs(r.n, k)'
  PROVE  Known(r)'
<1>1. hist.n \in Nat
  BY RoseAssumption DEF Counting
<1>2. r \in [n : {Nowhere} \cup 1..hist'.n, key : 0..hist'.n]
  BY <1>1 DEF Known
<1>3. KeyIs(r.n, r.key)'
  BY DEF Known
<1> QED
  BY <1>2, <1>3 DEF Known

\* What a step has to show that leaves the stored nodes and the stream alone.
LEMMA SameNodes ==
  ASSUME Stored, Streamed, Steady, EDB' = EDB, net' = net, hist'.n = hist.n
  PROVE  Stored' /\ Streamed'
<1>1. \A n \in DOMAIN EDB : KeyIs(EDB[n].prev, Older(EDB[n]))'
  <2> SUFFICES ASSUME NEW n \in DOMAIN EDB, NEW p, NEW k, p = EDB[n].prev, k = Older(EDB[n])
               PROVE  KeyIs(p, k)'
    BY DEF Older, KeyIs
  <2> QED
    BY DEF Stored, Steady
<1>2. \A j \in 1..Len(net) : KeyIs(net[j].node.prev, Older(net[j].node))'
  <2> SUFFICES ASSUME NEW j \in 1..Len(net), NEW p, NEW k,
                      p = net[j].node.prev, k = Older(net[j].node)
               PROVE  KeyIs(p, k)'
    BY DEF Older, KeyIs
  <2> QED
    BY DEF Streamed, Steady
<1>3. Stored'
  BY <1>1 DEF Stored, Shaped, Tokened
<1>4. Streamed'
  BY <1>2 DEF Streamed, Shaped, Tokened
<1> QED
  BY <1>3, <1>4

LEMMA RememberedKept ==
  ASSUME Remembered, Counting, Steady, hist'.n = hist.n,
         LastNode' \in {LastNode, db}, db' \in {LastNode, db}
  PROVE  Remembered'
<1>1. ASSUME NEW r, Known(r) PROVE Known(r)'
  BY <1>1 DEF Known, Steady
<1>2. PICK r, s : r = LastNode /\ s = db
  OBVIOUS
<1>3. Known(r)' /\ Known(s)'
  BY <1>1, <1>2 DEF Remembered
<1>4. LastNode' \in {r, s} /\ db' \in {r, s}
  BY <1>2
<1> QED
  BY <1>3, <1>4 DEF Remembered, Known, KeyIs, Requested

\* A step outside the walk that makes no node; the stream may break.
LEMMA Quiet ==
  ASSUME IInv, EDB' = EDB, net' \in {net, <<>>}, hist'.n = hist.n,
         hist'.updates = hist.updates, hist'.searches = hist.searches,
         LastNode' \in {LastNode, db}, db' \in {LastNode, db},
         srv' = srv \/ srv'.st \notin {"request", "walk"}, Fields', Alone'
  PROVE  IInv'
<1>1. Steady
  BY DEF Steady, KeyIs, Requested
<1>2. Counting'
  BY DEF IInv, Counting
<1>3. Remembered'
  BY <1>1, RememberedKept DEF IInv
<1>4. Stored'
  <2>1. \A n \in DOMAIN EDB : KeyIs(EDB[n].prev, Older(EDB[n]))'
    <3> SUFFICES ASSUME NEW n \in DOMAIN EDB, NEW p, NEW k, p = EDB[n].prev, k = Older(EDB[n])
                 PROVE  KeyIs(p, k)'
      BY DEF Older, KeyIs
    <3> QED
      BY <1>1 DEF IInv, Stored, Steady
  <2> QED
    BY <2>1 DEF IInv, Stored, Shaped, Tokened
<1>5. Streamed'
  <2>1. CASE net' = <<>>
    BY <2>1 DEF Streamed
  <2>2. CASE net' = net
    BY <1>1, <2>2, SameNodes DEF IInv
  <2> QED
    BY <2>1, <2>2
<1>6. Walking'
  <2>1. CASE srv' = srv
    <3>1. ASSUME srv.st = "walk", NEW j \in 1..Len(srv.D), srv.D[j] # NoToken,
                 NEW p, NEW k, p = srv.L1, k = srv.D[j][2]
          PROVE  KeyIs(p, k)'
      BY <1>1, <3>1 DEF IInv, Walking, Steady
    <3> QED
      BY <2>1, <3>1 DEF IInv, Walking, KeyIs
  <2>2. CASE srv'.st \notin {"request", "walk"}
    BY <2>2 DEF Walking
  <2> QED
    BY <2>1, <2>2
<1>7. Asked'
  <2>1. CASE srv' = srv
    <3>1. ASSUME srv.st = "request", NEW p, NEW k, p = srv.L1, k = srv.Delta[2]
          PROVE  KeyIs(p, k)'
      BY <1>1, <3>1 DEF IInv, Asked, Steady
    <3> QED
      BY <2>1, <3>1 DEF IInv, Asked, KeyIs
  <2>2. CASE srv'.st \notin {"request", "walk"}
    BY <2>2 DEF Asked
  <2> QED
    BY <2>1, <2>2
<1> QED
  BY <1>2, <1>3, <1>4, <1>5, <1>6, <1>7 DEF IInv

\* Sessions, and the end of a search.
LEMMA SessionInv ==
  ASSUME IInv, Start \/ Exit \/ ExitBroken \/ FailSearch \/ Kill \/ GoAstray \/ SearchEnd
  PROVE  IInv'
<1>1. Fields /\ Alone
  BY DEF IInv
<1>2. CASE Start
  BY <1>1, <1>2, Quiet DEF Start, Fields, Alone, Idle
<1>3. CASE Exit
  BY <1>1, <1>3, Quiet DEF Exit, Fields, Alone
<1>4. CASE Kill
  BY <1>1, <1>4, Quiet DEF Kill, Fields, Alone, Idle
<1>5. CASE GoAstray
  BY <1>1, <1>5, Quiet DEF GoAstray, Fields, Alone
<1>6. CASE SearchEnd
  BY <1>1, <1>6, Quiet DEF SearchEnd, Fields, Alone, Idle
<1>7. CASE ExitBroken
  BY <1>1, <1>7, Quiet DEF ExitBroken, Fields, Alone
<1>8. CASE FailSearch
  BY <1>1, <1>8, Quiet DEF FailSearch, Fields, Alone, Idle
<1> QED
  BY <1>2, <1>3, <1>4, <1>5, <1>6, <1>7, <1>8

\* A step of a walk or its end, by what it does to the nodes and the locals.
LEMMA WalkStep ==
  ASSUME IInv, srv.st # "idle", srv'.st # "request", Fields',
         net' = net, LastNode' = LastNode, db' = db, hist' = hist, pc' = pc,
         \A n \in DOMAIN EDB' :
           /\ n \in DOMAIN EDB /\ EDB'[n].key = EDB[n].key
           /\ Shaped(n, EDB'[n]) /\ KeyIs(EDB'[n].prev, Older(EDB'[n])),
         srv'.st = "walk" =>
           /\ srv'.Lt \in DOMAIN EDB' /\ EDB'[srv'.Lt].prev = srv'.L1
           /\ srv'.opt = "srh" => EDB'[srv'.Lt].op = "srh"
           /\ srv'.opt = "srh" /\ srv'.Delta # NoToken => srv'.Delta = EDB'[srv'.Lt].x
           /\ srv'.D \in Seq(Tokens)
           /\ \A j \in 1..Len(srv'.D) : srv'.D[j] = NoToken \/ KeyIs(srv'.L1, srv'.D[j][2])
  PROVE  IInv'
<1>1. Steady
  BY SteadyStore
<1>2. Counting' /\ Asked' /\ Alone'
  BY DEF IInv, Counting, Asked, Alone
<1>3. Remembered'
  BY <1>1, RememberedKept DEF IInv
<1>4. Stored'
  <2>1. \A n \in DOMAIN EDB' : KeyIs(EDB[n].prev, Older(EDB[n]))'
    <3> SUFFICES ASSUME NEW n \in DOMAIN EDB', NEW p, NEW k, p = EDB'[n].prev, k = Older(EDB'[n])
                 PROVE  KeyIs(p, k)'
      BY DEF Older, KeyIs
    <3> QED
      BY <1>1 DEF Steady
  <2> QED
    BY <2>1 DEF IInv, Stored, Shaped, Tokened
<1>5. Streamed'
  <2>1. \A j \in 1..Len(net) : KeyIs(net[j].node.prev, Older(net[j].node))'
    <3> SUFFICES ASSUME NEW j \in 1..Len(net), NEW p, NEW k,
                        p = net[j].node.prev, k = Older(net[j].node)
                 PROVE  KeyIs(p, k)'
      BY DEF Older, KeyIs
    <3> QED
      BY <1>1 DEF IInv, Streamed, Steady
  <2> QED
    BY <2>1 DEF IInv, Streamed, Shaped, Tokened
<1>6. Walking'
  <2>1. ASSUME srv'.st = "walk", NEW j \in 1..Len(srv'.D), srv'.D[j] # NoToken,
               NEW p, NEW k, p = srv'.L1, k = srv'.D[j][2]
        PROVE  KeyIs(p, k)'
    BY <1>1, <2>1 DEF Steady
  <2> QED
    BY <2>1 DEF Walking, KeyIs
<1> QED
  BY <1>2, <1>3, <1>4, <1>5, <1>6 DEF IInv

\* What a walk knows of the node it reads.
LEMMA ReadNode ==
  ASSUME IInv, Reading
  PROVE  /\ srv.L1 \in DOMAIN EDB /\ srv.L1 \in Int /\ node \in Nodes /\ node.prev \in Int
         /\ node.prev < srv.L1 /\ Tokened(node) /\ KeyIs(node.prev, Older(node))
         /\ srv.Lt \in DOMAIN EDB /\ srv.Lt # srv.L1 /\ srv.Lt \in Int /\ srv.L1 < srv.Lt
         /\ EDB[srv.Lt] \in Nodes /\ Tokened(EDB[srv.Lt]) /\ Older(EDB[srv.Lt]) = node.key
         /\ srv.D \in Seq(Tokens)
         /\ \A j \in 1..Len(srv.D) : srv.D[j] = NoToken \/ srv.D[j][2] = node.key
<1>1. srv.st = "walk" /\ srv.L1 \in DOMAIN EDB
  BY DEF Reading
<1>2. srv.Lt \in DOMAIN EDB /\ EDB[srv.Lt].prev = srv.L1 /\ srv.D \in Seq(Tokens)
  BY <1>1 DEF IInv, Walking
<1>3. hist.n \in Nat
  BY RoseAssumption DEF IInv, Counting
<1>4. srv.L1 \in Int /\ srv.Lt \in Int
  BY <1>1, <1>2, <1>3 DEF IInv, Stored
<1>5. /\ Shaped(srv.L1, node) /\ KeyIs(node.prev, Older(node))
      /\ Shaped(srv.Lt, EDB[srv.Lt]) /\ KeyIs(srv.L1, Older(EDB[srv.Lt]))
  BY <1>1, <1>2 DEF IInv, Stored, node
<1>6. Older(EDB[srv.Lt]) = node.key
  BY <1>1, <1>5 DEF KeyIs, node
<1>7. node.prev \in Int
  BY <1>5, RoseAssumption DEF Shaped, Nodes, Numbers, End, Nowhere
<1>8. \A j \in 1..Len(srv.D) : srv.D[j] = NoToken \/ srv.D[j][2] = node.key
  BY <1>1 DEF IInv, Walking, KeyIs, node
<1> QED
  BY <1>1, <1>2, <1>4, <1>5, <1>6, <1>7, <1>8 DEF Shaped

LEMMA OneMore ==
  ASSUME NEW D \in Seq(Tokens), NEW x \in Tokens, NEW k, x = NoToken \/ x[2] = k,
         \A j \in 1..Len(D) : D[j] = NoToken \/ D[j][2] = k
  PROVE  /\ Append(D, x) \in Seq(Tokens)
         /\ \A j \in 1..Len(Append(D, x)) : Append(D, x)[j] = NoToken \/ Append(D, x)[j][2] = k
<1>1. /\ Append(D, x) \in Seq(Tokens) /\ Len(Append(D, x)) = Len(D) + 1
      /\ \A j \in 1..Len(D) + 1 : Append(D, x)[j] = IF j = Len(D) + 1 THEN x ELSE D[j]
  OBVIOUS
<1> QED
  BY <1>1

\* The last node kept, linked past the one removed.
LEMMA DropKeeps ==
  ASSUME IInv, Reading, NEW x \in Tokens, NEW r \in BOOLEAN, EDB' = Drop(x, r),
         \/ node.op # "srh" /\ x = EDB[srv.Lt].x
         \/ /\ node.op = "srh" /\ EDB[srv.Lt].op = "srh"
            /\ x[1] = EDB[srv.Lt].key /\ x[2] = node.x[2]
  PROVE  /\ \A n \in DOMAIN EDB' :
              /\ n \in DOMAIN EDB /\ EDB'[n].key = EDB[n].key
              /\ Shaped(n, EDB'[n]) /\ KeyIs(EDB'[n].prev, Older(EDB'[n]))
         /\ srv.Lt \in DOMAIN EDB' /\ EDB'[srv.Lt].prev = node.prev /\ EDB'[srv.Lt].x = x
         /\ EDB'[srv.Lt].op = EDB[srv.Lt].op
<1>1. DOMAIN EDB' = DOMAIN EDB \ {srv.L1}
  BY DEF Drop
<1>2. /\ \A n \in DOMAIN EDB' : n # srv.Lt => EDB'[n] = EDB[n]
      /\ EDB'[srv.Lt] = [EDB[srv.Lt] EXCEPT !.prev = node.prev, !.x = x, !.ok = @ /\ r]
  BY <1>1, ReadNode DEF Drop
<1>3. \A n \in DOMAIN EDB : Shaped(n, EDB[n]) /\ KeyIs(EDB[n].prev, Older(EDB[n]))
  BY DEF IInv, Stored
<1> DEFINE e == EDB'[srv.Lt]
<1>4. e \in Nodes
  <2>1. EDB[srv.Lt] \in Nodes /\ node \in Nodes
    BY ReadNode
  <2>2. (EDB[srv.Lt].ok /\ r) \in BOOLEAN
    OBVIOUS
  <2> QED
    BY <1>2, <2>1, <2>2 DEF Nodes, Tokens
<1>5. /\ e.op = EDB[srv.Lt].op /\ e.key = EDB[srv.Lt].key /\ e.x = x /\ e.prev = node.prev
  BY <1>2, ReadNode DEF Nodes
<1>6. Tokened(e)
  BY <1>5, ReadNode DEF Tokened
<1>7. Older(e) = Older(node)
  BY <1>5, ReadNode DEF Older
<1>8. Shaped(srv.Lt, e)
  BY <1>4, <1>5, <1>6, ReadNode DEF Shaped
<1>9. KeyIs(e.prev, Older(e))
  BY <1>5, <1>7, ReadNode
<1> QED
  BY <1>1, <1>2, <1>3, <1>5, <1>8, <1>9, ReadNode

LEMMA ReadableIsBoolean == Readable \subseteq BOOLEAN
BY DEF Readable

\* A deletion is taken along and removed.
LEMMA VisitDelInv == ASSUME IInv, VisitDel PROVE IInv'
<1> USE DEF VisitDel
<1>1. Reading /\ node.op = "del"
  OBVIOUS
<1>2. PICK r \in BOOLEAN : EDB' = Drop(EDB[srv.Lt].x, r)
  BY ReadableIsBoolean
<1>3. EDB[srv.Lt].x \in Tokens
  BY <1>1, ReadNode DEF Nodes, Tokens
<1>4. /\ srv'.st # "request" /\ srv'.Lt = srv.Lt /\ srv'.L1 = node.prev /\ srv'.opt = srv.opt
      /\ srv'.Delta = srv.Delta /\ srv'.D = Append(srv.D, node.x) /\ Fields'
  BY DEF IInv, Fields, Advance
<1>5. KeyIs(node.prev, node.key) /\ node.x \in Tokens /\ (node.x = NoToken \/ node.x[2] = node.key)
  BY <1>1, ReadNode DEF Older, Tokened, Nodes, Tokens
<1>6. /\ srv'.D \in Seq(Tokens)
      /\ \A j \in 1..Len(srv'.D) : srv'.D[j] = NoToken \/ srv'.D[j][2] = node.key
  <2>1. srv.D \in Seq(Tokens) /\ \A j \in 1..Len(srv.D) : srv.D[j] = NoToken \/ srv.D[j][2] = node.key
    BY <1>1, ReadNode
  <2> HIDE DEF VisitDel
  <2>2. LET D == Append(srv.D, node.x)
        IN  D \in Seq(Tokens) /\ \A j \in 1..Len(D) : D[j] = NoToken \/ D[j][2] = node.key
    BY <1>5, <2>1, OneMore
  <2> QED
    BY <1>4, <2>2
<1>7. \A j \in 1..Len(srv'.D) : srv'.D[j] = NoToken \/ KeyIs(srv'.L1, srv'.D[j][2])
  BY <1>4, <1>5, <1>6
<1>8. srv.st = "walk"
  BY <1>1 DEF Reading
<1>9. /\ srv'.Lt \in DOMAIN EDB' /\ EDB'[srv'.Lt].prev = srv'.L1
      /\ EDB'[srv'.Lt].op = EDB[srv.Lt].op /\ EDB'[srv'.Lt].x = EDB[srv.Lt].x
      /\ \A n \in DOMAIN EDB' :
              /\ n \in DOMAIN EDB /\ EDB'[n].key = EDB[n].key
              /\ Shaped(n, EDB'[n]) /\ KeyIs(EDB'[n].prev, Older(EDB'[n]))
  BY <1>1, <1>2, <1>3, <1>4, DropKeeps
<1>10. /\ srv'.opt = "srh" => EDB'[srv'.Lt].op = "srh"
       /\ srv'.opt = "srh" /\ srv'.Delta # NoToken => srv'.Delta = EDB'[srv'.Lt].x
  BY <1>4, <1>8, <1>9 DEF IInv, Walking
<1> QED
  BY <1>4, <1>6, <1>7, <1>8, <1>9, <1>10, WalkStep

\* An addition that is cancelled is removed.
LEMMA VisitCancelledInv == ASSUME IInv, VisitCancelled PROVE IInv'
<1> USE DEF VisitCancelled
<1>1. Reading /\ node.op = "add"
  OBVIOUS
<1>2. PICK r \in BOOLEAN : EDB' = Drop(EDB[srv.Lt].x, r)
  BY ReadableIsBoolean
<1>3. EDB[srv.Lt].x \in Tokens
  BY <1>1, ReadNode DEF Nodes, Tokens
<1>4. /\ srv'.st # "request" /\ srv'.Lt = srv.Lt /\ srv'.L1 = node.prev /\ srv'.opt = srv.opt
      /\ srv'.Delta = srv.Delta /\ srv'.D = srv.D /\ Fields'
  BY DEF IInv, Fields, Advance
<1>5. KeyIs(node.prev, node.key)
  BY <1>1, ReadNode DEF Older
<1>6. \A j \in 1..Len(srv'.D) : srv'.D[j] = NoToken \/ KeyIs(srv'.L1, srv'.D[j][2])
  BY <1>1, <1>4, <1>5, ReadNode
<1>7. srv'.D \in Seq(Tokens)
  BY <1>1, <1>4, ReadNode
<1>8. srv.st = "walk"
  BY <1>1 DEF Reading
<1>9. /\ srv'.Lt \in DOMAIN EDB' /\ EDB'[srv'.Lt].prev = srv'.L1
      /\ EDB'[srv'.Lt].op = EDB[srv.Lt].op /\ EDB'[srv'.Lt].x = EDB[srv.Lt].x
      /\ \A n \in DOMAIN EDB' :
              /\ n \in DOMAIN EDB /\ EDB'[n].key = EDB[n].key
              /\ Shaped(n, EDB'[n]) /\ KeyIs(EDB'[n].prev, Older(EDB'[n]))
  BY <1>1, <1>2, <1>3, <1>4, DropKeeps
<1>10. /\ srv'.opt = "srh" => EDB'[srv'.Lt].op = "srh"
       /\ srv'.opt = "srh" /\ srv'.Delta # NoToken => srv'.Delta = EDB'[srv'.Lt].x
  BY <1>4, <1>8, <1>9 DEF IInv, Walking
<1> QED
  BY <1>4, <1>6, <1>7, <1>8, <1>9, <1>10, WalkStep

\* An addition that is not cancelled is kept.
LEMMA VisitAddInv == ASSUME IInv, VisitAdd PROVE IInv'
<1> USE DEF VisitAdd
<1>1. Reading /\ node.op = "add"
  OBVIOUS
<1>2. /\ srv'.st # "request" /\ srv'.Lt = srv.L1 /\ srv'.L1 = node.prev /\ srv'.opt = "add"
      /\ srv'.D = srv.D /\ Fields'
  BY DEF IInv, Fields, Advance
<1>3. KeyIs(node.prev, node.key)
  BY <1>1, ReadNode DEF Older
<1>4. \A j \in 1..Len(srv'.D) : srv'.D[j] = NoToken \/ KeyIs(srv'.L1, srv'.D[j][2])
  BY <1>1, <1>2, <1>3, ReadNode
<1>5. srv'.D \in Seq(Tokens)
  BY <1>1, <1>2, ReadNode
<1>6. srv.st # "idle" /\ srv'.Lt \in DOMAIN EDB' /\ EDB'[srv'.Lt].prev = srv'.L1
  BY <1>1, <1>2, ReadNode DEF Reading, node
<1>7. \A n \in DOMAIN EDB' :
        /\ n \in DOMAIN EDB /\ EDB'[n].key = EDB[n].key
        /\ Shaped(n, EDB'[n]) /\ KeyIs(EDB'[n].prev, Older(EDB'[n]))
  BY DEF IInv, Stored
<1> QED
  BY <1>2, <1>4, <1>5, <1>6, <1>7, WalkStep

LEMMA Stepped ==
  ASSUME IInv, Reading, node.op = "srh"
  PROVE  LET D == StepTokens(srv.D)
         IN  D \in Seq(Tokens) /\ \A j \in 1..Len(D) : D[j] = NoToken \/ D[j][2] = node.x[2]
<1> DEFINE D == StepTokens(srv.D)
<1>1. srv.D \in Seq(Tokens) /\ node.x \in Tokens
  BY ReadNode DEF Nodes, Tokens
<1>2. DOMAIN D = 1..Len(srv.D) /\ Len(srv.D) \in Nat
  BY <1>1 DEF StepTokens
<1>3. ASSUME NEW j \in 1..Len(srv.D)
      PROVE  D[j] \in Tokens /\ (D[j] = NoToken \/ D[j][2] = node.x[2])
  <2>1. srv.D[j] \in Tokens
    BY <1>1
  <2>2. D[j] = IF srv.D[j][2] = node.x[1] THEN <<srv.D[j][1], node.x[2]>> ELSE NoToken
    BY <1>2 DEF StepTokens
  <2> QED
    BY <1>1, <2>1, <2>2 DEF Tokens, NoToken
<1>4. D = [j \in 1..Len(srv.D) |-> D[j]]
  BY <1>1 DEF StepTokens
<1>5. D \in Seq(Tokens) /\ Len(D) = Len(srv.D)
  <2> HIDE DEF D
  <2> QED
    BY <1>2, <1>3, <1>4, IsASeq, LenProperties
<1> QED
  BY <1>3, <1>5

\* A search node is kept, and the tokens step to the older key.
LEMMA VisitSearchInv == ASSUME IInv, VisitSearch PROVE IInv'
<1> USE DEF VisitSearch
<1>1. Reading /\ node.op = "srh"
  OBVIOUS
<1>2. /\ srv'.st # "request" /\ srv'.Lt = srv.L1 /\ srv'.L1 = node.prev /\ srv'.Delta = node.x
      /\ srv'.D = StepTokens(srv.D) /\ Fields'
  BY DEF IInv, Fields, Advance
<1>3. KeyIs(node.prev, node.x[2])
  BY <1>1, ReadNode DEF Older
<1>4. /\ srv'.D \in Seq(Tokens)
      /\ \A j \in 1..Len(srv'.D) : srv'.D[j] = NoToken \/ srv'.D[j][2] = node.x[2]
  BY <1>1, <1>2, Stepped
<1>5. \A j \in 1..Len(srv'.D) : srv'.D[j] = NoToken \/ KeyIs(srv'.L1, srv'.D[j][2])
  BY <1>2, <1>3, <1>4
<1>6. /\ srv.st # "idle" /\ srv'.Lt \in DOMAIN EDB' /\ EDB'[srv'.Lt].prev = srv'.L1
      /\ EDB'[srv'.Lt].op = "srh" /\ EDB'[srv'.Lt].x = srv'.Delta
  BY <1>1, <1>2, ReadNode DEF Reading, node
<1>7. \A n \in DOMAIN EDB' :
        /\ n \in DOMAIN EDB /\ EDB'[n].key = EDB[n].key
        /\ Shaped(n, EDB'[n]) /\ KeyIs(EDB'[n].prev, Older(EDB'[n]))
  BY DEF IInv, Stored
<1> QED
  BY <1>2, <1>4, <1>5, <1>6, <1>7, WalkStep

\* A search node right after another: the two steps become one.
LEMMA VisitMergedInv == ASSUME IInv, VisitMerged PROVE IInv'
<1> USE DEF VisitMerged
<1>1. Reading /\ node.op = "srh" /\ srv.st = "walk"
  BY DEF Reading
<1>2. EDB[srv.Lt].op = "srh" /\ srv.Delta = EDB[srv.Lt].x
  BY <1>1 DEF IInv, Walking
<1>3. /\ srv.Delta \in Tokens /\ srv.Delta[1] = EDB[srv.Lt].key /\ srv.Delta[2] = node.key
      /\ node.x \in Tokens /\ node.x[1] = node.key
  BY <1>1, <1>2, ReadNode DEF Tokened, Older, Nodes, Tokens
<1> DEFINE x == Mul(srv.Delta, node.x)
<1>4. x = <<srv.Delta[1], node.x[2]>>
  BY <1>3 DEF Mul
<1>5. x \in Tokens /\ x[1] = EDB[srv.Lt].key /\ x[2] = node.x[2]
  BY <1>3, <1>4 DEF Tokens
<1>6. PICK r \in BOOLEAN : EDB' = Drop(x, r)
  BY ReadableIsBoolean
<1>7. /\ srv'.st # "request" /\ srv'.Lt = srv.Lt /\ srv'.L1 = node.prev /\ srv'.Delta = x
      /\ srv'.D = StepTokens(srv.D) /\ Fields'
  BY DEF IInv, Fields, Advance
<1> HIDE DEF VisitMerged, x
<1>8. KeyIs(node.prev, node.x[2])
  BY <1>1, ReadNode DEF Older
<1>9. /\ srv'.D \in Seq(Tokens)
      /\ \A j \in 1..Len(srv'.D) : srv'.D[j] = NoToken \/ srv'.D[j][2] = node.x[2]
  BY <1>1, <1>7, Stepped
<1>10. \A j \in 1..Len(srv'.D) : srv'.D[j] = NoToken \/ KeyIs(srv'.L1, srv'.D[j][2])
  BY <1>7, <1>8, <1>9
<1>11. /\ srv'.Lt \in DOMAIN EDB' /\ EDB'[srv'.Lt].prev = srv'.L1
       /\ EDB'[srv'.Lt].op = "srh" /\ EDB'[srv'.Lt].x = srv'.Delta
       /\ \A n \in DOMAIN EDB' :
              /\ n \in DOMAIN EDB /\ EDB'[n].key = EDB[n].key
              /\ Shaped(n, EDB'[n]) /\ KeyIs(EDB'[n].prev, Older(EDB'[n]))
  BY <1>1, <1>2, <1>5, <1>6, <1>7, DropKeeps
<1>12. net' = net /\ LastNode' = LastNode /\ db' = db /\ hist' = hist /\ pc' = pc
  BY DEF VisitMerged
<1> QED
  BY <1>1, <1>7, <1>9, <1>10, <1>11, <1>12, WalkStep

\* The end of a walk.
LEMMA ServerEndInv == ASSUME IInv, ServerEnd PROVE IInv'
<1> USE DEF ServerEnd
<1>1. srv.st # "idle" /\ srv'.st \notin {"request", "walk"} /\ Fields'
  BY DEF IInv, Fields, Idle
<1>2. \A n \in DOMAIN EDB' : n \in DOMAIN EDB /\ EDB'[n] = EDB[n]
  OBVIOUS
<1>3. \A n \in DOMAIN EDB' :
        /\ n \in DOMAIN EDB /\ EDB'[n].key = EDB[n].key
        /\ Shaped(n, EDB'[n]) /\ KeyIs(EDB'[n].prev, Older(EDB'[n]))
  BY <1>2 DEF IInv, Stored
<1> QED
  BY <1>1, <1>3, WalkStep

LEMMA StreamedNode ==
  ASSUME Streamed, NEW j \in 1..Len(net)
  PROVE  net[j].n \in 1..hist.n /\ net[j].node \in Nodes /\ Shaped(net[j].n, net[j].node)
<1>1. net \in Seq([n : 1..hist.n, node : Nodes])
  BY DEF Streamed
<1>2. net[j] \in [n : 1..hist.n, node : Nodes]
  BY <1>1, ElementOfSeq
<1>3. net[j].n \in 1..hist.n /\ net[j].node \in Nodes
  BY <1>2
<1> QED
  BY <1>3 DEF Streamed

\* The links of the nodes there were, when only new nodes change the keys.
LEMMA LinksKept ==
  ASSUME Counting, Stored, Streamed, SteadyBut(hist.n + 1)
  PROVE  /\ \A n \in DOMAIN EDB : \A p, k : p = EDB[n].prev /\ k = Older(EDB[n]) => KeyIs(p, k)'
         /\ \A j \in 1..Len(net) : \A p, k :
              p = net[j].node.prev /\ k = Older(net[j].node) => KeyIs(p, k)'
<1>1. hist.n \in Nat
  BY RoseAssumption DEF Counting
<1>2. \A n \in DOMAIN EDB : EDB[n].prev # hist.n + 1
  BY <1>1, RoseAssumption DEF Stored, Shaped, Nodes, Numbers, End, Nowhere
<1>3. \A j \in 1..Len(net) : net[j].node.prev # hist.n + 1
  <2> TAKE j \in 1..Len(net)
  <2>1. net[j].n \in 1..hist.n /\ net[j].node \in Nodes /\ net[j].node.prev < net[j].n
    BY StreamedNode DEF Shaped
  <2>2. net[j].node.prev \in Int
    BY <2>1, RoseAssumption DEF Nodes, Numbers, End, Nowhere
  <2> QED
    BY <1>1, <2>1, <2>2
<1>4. ASSUME NEW n \in DOMAIN EDB, NEW p, NEW k, p = EDB[n].prev, k = Older(EDB[n])
      PROVE  KeyIs(p, k)'
  BY <1>2, <1>4 DEF Stored, SteadyBut
<1>5. ASSUME NEW j \in 1..Len(net), NEW p, NEW k, p = net[j].node.prev, k = Older(net[j].node)
      PROVE  KeyIs(p, k)'
  BY <1>3, <1>5 DEF Streamed, SteadyBut
<1> QED
  BY <1>4, <1>5

\* The stream hands a node over to the server.
LEMMA ServerStoreInv == ASSUME IInv, ServerStore PROVE IInv'
<1> USE DEF ServerStore
<1> DEFINE m == net[1].n  nd == net[1].node
<1>1. srv.st = "idle" /\ net # <<>> /\ net \in Seq([n : 1..hist.n, node : Nodes])
  BY DEF IInv, Alone, Streamed
<1>2. Len(net) \in Nat /\ Len(net) >= 1 /\ Head(net) = net[1] /\ Tail(net) \in Seq([n : 1..hist.n, node : Nodes])
  BY <1>1, EmptySeq, HeadTailProperties
<1>3. Len(net') = Len(net) - 1 /\ \A j \in 1..Len(net') : net'[j] = net[j + 1] /\ j + 1 \in 1..Len(net)
  BY <1>1, <1>2, HeadTailProperties
<1>4. /\ DOMAIN EDB' = DOMAIN EDB \cup {m} /\ EDB'[m] = nd
      /\ \A n \in DOMAIN EDB : n # m => EDB'[n] = EDB[n]
  BY <1>2 DEF Put
<1>5. m \in 1..hist.n /\ Shaped(m, nd) /\ 1 \in 1..Len(net)
  <2>1. Streamed /\ 1 \in 1..Len(net)
    BY <1>2 DEF IInv
  <2> QED
    BY <2>1, StreamedNode
<1> HIDE DEF m, nd
<1>6. Steady
  <2> SUFFICES ASSUME NEW n, NEW k, KeyIs(n, k) PROVE KeyIs(n, k)'
    BY DEF Steady
  <2>1. n \in DOMAIN EDB' => EDB'[n].key = k
    BY <1>4, <1>5 DEF KeyIs, m, nd
  <2>2. \A j \in 1..Len(net') : net'[j].n = n => net'[j].node.key = k
    BY <1>3 DEF KeyIs
  <2>3. n \notin Requested'
    BY <1>1 DEF Requested
  <2> QED
    BY <2>1, <2>2, <2>3 DEF KeyIs
<1>7. Fields' /\ Counting' /\ Walking' /\ Asked' /\ Alone'
  BY <1>1 DEF IInv, Fields, Counting, Walking, Asked, Alone
<1>8. Remembered'
  BY <1>6, RememberedKept DEF IInv
<1>9. SteadyBut(hist.n + 1)
  BY <1>6 DEF Steady, SteadyBut
<1>10. Stored'
  <2>1. DOMAIN EDB' \subseteq 1..hist'.n
    BY <1>4, <1>5 DEF IInv, Stored
  <2>2. \A n \in DOMAIN EDB' : Shaped(n, EDB'[n])
    BY <1>4, <1>5 DEF IInv, Stored
  <2>3. \A n \in DOMAIN EDB' : KeyIs(EDB[n].prev, Older(EDB[n]))'
    <3> SUFFICES ASSUME NEW n \in DOMAIN EDB', NEW p, NEW k, p = EDB'[n].prev, k = Older(EDB'[n])
                 PROVE  KeyIs(p, k)'
      BY DEF Older, KeyIs
    <3>1. CASE n = m
      BY <1>4, <1>5, <1>6, <3>1 DEF IInv, Streamed, Steady, m, nd
    <3>2. CASE n # m
      BY <1>4, <1>6, <3>2 DEF IInv, Stored, Steady
    <3> QED
      BY <3>1, <3>2
  <2> QED
    BY <2>1, <2>2, <2>3 DEF Stored, Shaped, Tokened
<1>11. Streamed'
  <2>1. net' \in Seq([n : 1..hist'.n, node : Nodes])
    BY <1>2
  <2>2. \A j \in 1..Len(net') : Shaped(net'[j].n, net'[j].node)
    BY <1>3 DEF IInv, Streamed
  <2>3. \A j \in 1..Len(net') : KeyIs(net[j].node.prev, Older(net[j].node))'
    <3> SUFFICES ASSUME NEW j \in 1..Len(net'), NEW p, NEW k,
                        p = net'[j].node.prev, k = Older(net'[j].node)
                 PROVE  KeyIs(p, k)'
      BY DEF Older, KeyIs
    <3> QED
      BY <1>3, <1>6 DEF IInv, Streamed, Steady
  <2> QED
    BY <2>1, <2>2, <2>3 DEF Streamed, Shaped, Tokened
<1> QED
  BY <1>7, <1>8, <1>10, <1>11 DEF IInv

\* The server stores the node of a search, and starts to walk from it.
LEMMA ServerBeginInv == ASSUME IInv, ServerBegin PROVE IInv'
<1> USE DEF ServerBegin
<1>1. srv.st = "request" /\ net = <<>>
  BY DEF IInv, Alone
<1>2. PICK r \in BOOLEAN :
        EDB' = Put(EDB, srv.req, [op |-> "srh", id |-> 0, key |-> srv.Delta[1], prev |-> srv.L1,
                                  ok |-> r, x |-> srv.Delta])
  BY ReadableIsBoolean
<1> DEFINE m == srv.req
           e == [op |-> "srh", id |-> 0, key |-> srv.Delta[1], prev |-> srv.L1, ok |-> r, x |-> srv.Delta]
<1>3. /\ DOMAIN EDB' = DOMAIN EDB \cup {m} /\ EDB'[m] = e
      /\ \A n \in DOMAIN EDB : n # m => EDB'[n] = EDB[n]
  BY <1>2 DEF Put
<1>4. /\ srv'.st = "walk" /\ srv'.Lt = srv.Lt /\ srv'.L1 = srv.L1 /\ srv'.opt = srv.opt
      /\ srv'.Delta = NoToken /\ srv'.D = srv.D /\ Fields'
  BY DEF IInv, Fields
<1>5. /\ m \in 1..hist.n /\ srv.Lt = m /\ srv.L1 \in {Nowhere} \cup 1..hist.n /\ srv.L1 < m
      /\ srv.opt = "srh" /\ srv.D = <<>> /\ srv.Delta \in {m} \X (0..hist.n)
      /\ KeyIs(srv.L1, srv.Delta[2])
  BY <1>1 DEF IInv, Asked
<1>6. hist.n \in Nat /\ hist.n <= MaxUpdates + MaxSearches /\ MaxUpdates + MaxSearches \in Nat
  BY RoseAssumption DEF IInv, Counting
<1>7. /\ e.op = "srh" /\ e.id = 0 /\ e.key = m /\ e.prev = srv.L1 /\ e.ok = r /\ e.x = srv.Delta
      /\ e.x[1] = m /\ e.x[2] = srv.Delta[2]
  BY <1>5
<1>8. Shaped(m, e)
  <2>1. m \in Numbers /\ srv.Delta \in Tokens /\ srv.L1 \in Numbers \cup {End, Nowhere}
    BY <1>5, <1>6 DEF Numbers, Tokens
  <2>2. e \in Nodes
    BY <1>5, <2>1 DEF Nodes, Tokens
  <2> HIDE DEF e
  <2> QED
    BY <1>5, <1>7, <2>2 DEF Shaped, Tokened
<1> HIDE DEF e
<1>9. Steady
  <2> SUFFICES ASSUME NEW n, NEW k, KeyIs(n, k) PROVE KeyIs(n, k)'
    BY DEF Steady
  <2>1. n \in DOMAIN EDB' => EDB'[n].key = k
    BY <1>1, <1>3, <1>5, <1>7 DEF KeyIs, Requested
  <2>2. net' = net /\ n \notin Requested'
    BY <1>4 DEF Requested
  <2> QED
    BY <2>1, <2>2 DEF KeyIs
<1>10. Counting' /\ Streamed' /\ Asked' /\ Alone'
  BY <1>1, <1>4 DEF IInv, Counting, Streamed, Asked, Alone
<1>11. Remembered'
  BY <1>9, RememberedKept DEF IInv
<1>12. Stored'
  <2>1. DOMAIN EDB' \subseteq 1..hist'.n
    BY <1>3, <1>5 DEF IInv, Stored
  <2>2. \A n \in DOMAIN EDB' : Shaped(n, EDB'[n])
    BY <1>3, <1>8 DEF IInv, Stored
  <2>3. \A n \in DOMAIN EDB' : KeyIs(EDB[n].prev, Older(EDB[n]))'
    <3> SUFFICES ASSUME NEW n \in DOMAIN EDB', NEW p, NEW k, p = EDB'[n].prev, k = Older(EDB'[n])
                 PROVE  KeyIs(p, k)'
      BY DEF Older, KeyIs
    <3>1. CASE n = m
      BY <1>3, <1>5, <1>7, <1>9, <3>1 DEF Steady, Older
    <3>2. CASE n # m
      BY <1>3, <1>9, <3>2 DEF IInv, Stored, Steady
    <3> QED
      BY <3>1, <3>2
  <2> QED
    BY <2>1, <2>2, <2>3 DEF Stored, Shaped, Tokened
<1>13. Walking'
  <2>1. /\ srv'.Lt \in DOMAIN EDB' /\ EDB'[srv'.Lt].prev = srv'.L1 /\ EDB'[srv'.Lt].op = "srh"
        /\ srv'.Delta = NoToken
    BY <1>3, <1>4, <1>5, <1>7
  <2>2. srv'.D = <<>>
    BY <1>4, <1>5
  <2> HIDE DEF ServerBegin
  <2>3. <<>> \in Seq(Tokens) /\ Len(<<>>) = 0
    OBVIOUS
  <2>4. srv'.D \in Seq(Tokens) /\ \A j \in 1..Len(srv'.D) : FALSE
    BY <2>2, <2>3
  <2> QED
    BY <2>1, <2>4 DEF Walking, Tokens
<1> QED
  BY <1>4, <1>10, <1>11, <1>12, <1>13 DEF IInv

\* What a ready client may rely on.
LEMMA Ready ==
  ASSUME IInv, pc = "ready"
  PROVE  /\ srv.st = "idle" /\ hist.n \in Nat /\ DOMAIN EDB \subseteq 1..hist.n
         /\ hist.n = hist.updates + hist.searches
         /\ LastNode.n \in {Nowhere} \cup 1..hist.n /\ LastNode.key \in 0..hist.n
         /\ LastNode.n # Nowhere => LastNode.key # 0
         /\ KeyIs(LastNode.n, LastNode.key)
         /\ db.n \in {Nowhere} \cup 1..hist.n
BY RoseAssumption DEF IInv, Alone, Counting, Stored, Remembered, Known

\* A search makes a node with the step from the new key to the old one.
LEMMA StartSearchInv == ASSUME IInv, StartSearch PROVE IInv'
<1> USE DEF StartSearch
<1> DEFINE m == hist.n + 1
<1>1. pc = "ready" /\ net = <<>> /\ srv.st = "idle" /\ hist.n \in Nat
  BY Ready
<1>2. /\ srv' = [Idle EXCEPT !.st = "request", !.req = m, !.Lt = m, !.L1 = LastNode.n,
                             !.Delta = <<m, LastNode.key>>]
      /\ LastNode' = [n |-> m, key |-> m] /\ EDB' = EDB /\ net' = net /\ db' = db
  OBVIOUS
<1>3. /\ srv'.st = "request" /\ srv'.req = m /\ srv'.Lt = m /\ srv'.L1 = LastNode.n
      /\ srv'.Delta = <<m, LastNode.key>> /\ srv'.D = <<>> /\ srv'.opt = "srh"
  BY DEF Idle
<1>4. Fields' /\ hist'.n = m /\ hist'.updates = hist.updates /\ hist'.searches = hist.searches + 1
  BY DEF IInv, Fields, Idle
<1>5. Counting'
  BY <1>1, <1>4, RoseAssumption DEF IInv, Counting
<1>6. SteadyBut(m)
  BY <1>1, <1>2, <1>3 DEF SteadyBut, KeyIs, Requested
<1>7. Known(LastNode)'
  BY <1>1, <1>2, <1>3, <1>4, Ready DEF Known, KeyIs, Requested, Nowhere
<1>8. Known(db)'
  <2>1. PICK r : r = db
    OBVIOUS
  <2>2. Known(r) /\ r.n # m
    BY <1>1, <2>1, Ready DEF IInv, Remembered, Nowhere
  <2>3. \A k : KeyIs(r.n, k) => KeyIs(r.n, k)'
    BY <1>6, <2>2 DEF SteadyBut
  <2>4. Known(r)'
    BY <1>1, <1>4, <2>2, <2>3, KnownKept DEF IInv
  <2> QED
    BY <1>2, <2>1, <2>4 DEF Known, KeyIs, Requested
<1>9. Stored'
  <2>1. \A n \in DOMAIN EDB : KeyIs(EDB[n].prev, Older(EDB[n]))'
    <3> SUFFICES ASSUME NEW n \in DOMAIN EDB, NEW p, NEW k, p = EDB[n].prev, k = Older(EDB[n])
                 PROVE  KeyIs(p, k)'
      BY DEF Older, KeyIs
    <3> QED
      BY <1>6, LinksKept DEF IInv
  <2>2. DOMAIN EDB \subseteq 1..m
    BY <1>1, Ready
  <2> QED
    BY <1>2, <1>4, <2>1, <2>2 DEF IInv, Stored, Shaped, Tokened
<1>10. Streamed' /\ Walking' /\ Alone'
  BY <1>1, <1>2, <1>3 DEF Streamed, Walking, Alone
<1>11. Asked'
  <2>1. \A p, k : p = LastNode.n /\ k = LastNode.key => KeyIs(p, k)'
    BY <1>1, <1>6, Ready DEF SteadyBut, Nowhere
  <2>2. KeyIs(srv.L1, srv.Delta[2])'
    BY <1>3, <2>1 DEF KeyIs
  <2> QED
    BY <1>1, <1>3, <1>4, <2>2, Ready DEF Asked, Nowhere
<1> QED
  BY <1>4, <1>5, <1>7, <1>8, <1>9, <1>10, <1>11 DEF IInv, Remembered

\* An update makes a node, linked to the last one, under the key of the keyword.
LEMMA UpdateInv ==
  ASSUME IInv, NEW op \in {"add", "del"}, NEW i \in Ids, Update(op, i)
  PROVE  IInv'
<1> USE DEF Update
<1> DEFINE m == hist.n + 1  nd == Node(op, i)  K == IF LastNode.key = 0 THEN m ELSE LastNode.key
<1>1. pc = "ready" /\ srv.st = "idle" /\ srv' = srv /\ hist.n \in Nat
  BY Ready
<1>2. /\ LastNode' = [n |-> m, key |-> nd.key] /\ net' = Append(net, [n |-> m, node |-> nd])
      /\ EDB' = EDB /\ db' = db /\ pc' = pc
  OBVIOUS
<1>3. Fields' /\ hist'.n = m /\ hist'.updates = hist.updates + 1 /\ hist'.searches = hist.searches
  BY DEF IInv, Fields
<1>4. Counting'
  BY <1>1, <1>3, RoseAssumption DEF IInv, Counting
<1>5. /\ nd = [op |-> op, id |-> i, key |-> K, prev |-> Prev, ok |-> TRUE,
               x |-> IF op = "del" /\ LastNode.n # Nowhere THEN <<i, K>> ELSE NoToken]
  BY DEF Node
<1>6. K \in 1..m /\ m \in Numbers /\ 1..m \subseteq Numbers
  <2>1. m <= MaxUpdates + MaxSearches /\ MaxUpdates + MaxSearches \in Nat
    BY <1>3, <1>4, RoseAssumption DEF Counting
  <2>2. K \in 1..m
    BY <1>1, Ready
  <2> QED
    BY <1>1, <2>1, <2>2 DEF Numbers
<1>7. Prev \in {End} \cup 1..hist.n /\ Prev < m
  BY <1>1, Ready DEF Prev, End
<1>8. nd.key = K /\ nd.prev = Prev /\ Shaped(m, nd) /\ Older(nd) = K
  <2> HIDE DEF m, K
  <2>1. nd \in Nodes
    <3>1. <<i, K>> \in Tokens /\ NoToken \in Tokens
      BY <1>6 DEF Tokens, NoToken
    <3>2. Prev \in Numbers \cup {End, Nowhere} /\ K \in Numbers
      BY <1>1, <1>6, <1>7 DEF m
    <3> HIDE DEF nd
    <3> QED
      BY <1>5, <3>1, <3>2 DEF Nodes, Tokens
  <2>2. nd.op = op /\ nd.key = K /\ nd.prev = Prev /\ nd.x \in {<<i, K>>, NoToken} /\ (op = "add" => nd.x = NoToken)
    BY <1>5
  <2> HIDE DEF nd
  <2> QED
    BY <1>7, <2>1, <2>2 DEF Shaped, Tokened, Older
<1> HIDE DEF nd
<1>9. /\ Len(net) \in Nat /\ Len(net') = Len(net) + 1 /\ net'[Len(net) + 1] = [n |-> m, node |-> nd]
      /\ \A j \in 1..Len(net) : net'[j] = net[j] /\ net[j].n \in 1..hist.n
  <2>1. Streamed /\ net \in Seq([n : 1..hist.n, node : Nodes])
    BY DEF IInv, Streamed
  <2> QED
    BY <1>2, <2>1, StreamedNode, AppendProperties
<1>10. SteadyBut(m)
  <2> SUFFICES ASSUME NEW n, NEW k, n # m, KeyIs(n, k) PROVE KeyIs(n, k)'
    BY DEF SteadyBut
  <2>1. \A j \in 1..Len(net') : net'[j].n = n => net'[j].node.key = k
    BY <1>9 DEF KeyIs
  <2> QED
    BY <1>1, <1>2, <2>1 DEF KeyIs, Requested
<1>11. Known(LastNode)'
  <2>1. m \notin DOMAIN EDB' /\ m \notin Requested'
    BY <1>1, <1>2, Ready DEF Requested
  <2>2. \A j \in 1..Len(net') : net'[j].n = m => net'[j].node.key = nd.key
    BY <1>1, <1>9
  <2> QED
    BY <1>1, <1>2, <1>3, <1>6, <1>8, <2>1, <2>2 DEF Known, KeyIs, Nowhere
<1>12. Known(db)'
  <2>1. PICK r : r = db
    OBVIOUS
  <2>2. Known(r) /\ r.n # m
    BY <1>1, <2>1, Ready DEF IInv, Remembered, Nowhere
  <2>3. \A k : KeyIs(r.n, k) => KeyIs(r.n, k)'
    BY <1>10, <2>2 DEF SteadyBut
  <2>4. Known(r)'
    BY <1>1, <1>3, <2>2, <2>3, KnownKept DEF IInv
  <2> QED
    BY <1>2, <2>1, <2>4 DEF Known, KeyIs, Requested
<1>13. Stored'
  <2>1. \A n \in DOMAIN EDB : KeyIs(EDB[n].prev, Older(EDB[n]))'
    <3> SUFFICES ASSUME NEW n \in DOMAIN EDB, NEW p, NEW k, p = EDB[n].prev, k = Older(EDB[n])
                 PROVE  KeyIs(p, k)'
      BY DEF Older, KeyIs
    <3> QED
      BY <1>10, LinksKept DEF IInv
  <2>2. DOMAIN EDB \subseteq 1..m
    BY <1>1, Ready
  <2> QED
    BY <1>2, <1>3, <2>1, <2>2 DEF IInv, Stored, Shaped, Tokened
<1>14. ASSUME NEW p, NEW k, p = Prev, k = K PROVE KeyIs(p, k)'
  <2>1. CASE LastNode.n = Nowhere
    <3>1. p = 0
      BY <1>14, <2>1 DEF Prev, End
    <3>2. 0 \notin DOMAIN EDB' /\ 0 \notin Requested' /\ \A j \in 1..Len(net') : net'[j].n # 0
      BY <1>1, <1>2, <1>9, Ready DEF Requested
    <3> QED
      BY <3>1, <3>2 DEF KeyIs
  <2>2. CASE LastNode.n # Nowhere
    BY <1>1, <1>7, <1>10, <1>14, <2>2, Ready DEF Prev, SteadyBut
  <2> QED
    BY <2>1, <2>2
<1>15. Streamed'
  <2>1. net' \in Seq([n : 1..hist'.n, node : Nodes])
    <3>1. net \in Seq([n : 1..m, node : Nodes])
      <4>1. /\ net \in Seq([n : 1..hist.n, node : Nodes])
            /\ [n : 1..hist.n, node : Nodes] \subseteq [n : 1..m, node : Nodes]
        BY <1>1 DEF IInv, Streamed
      <4> QED
        BY <4>1, SeqMonotonic
    <3>2. [n |-> m, node |-> nd] \in [n : 1..m, node : Nodes]
      BY <1>1, <1>8 DEF Shaped
    <3> QED
      BY <1>2, <1>3, <3>1, <3>2, AppendProperties
  <2>2. \A j \in 1..Len(net') : Shaped(net'[j].n, net'[j].node)
    BY <1>8, <1>9 DEF IInv, Streamed
  <2>3. \A j \in 1..Len(net') : KeyIs(net[j].node.prev, Older(net[j].node))'
    <3> SUFFICES ASSUME NEW j \in 1..Len(net'), NEW p, NEW k,
                        p = net'[j].node.prev, k = Older(net'[j].node)
                 PROVE  KeyIs(p, k)'
      BY DEF Older, KeyIs
    <3>1. CASE j = Len(net) + 1
      BY <1>8, <1>9, <1>14, <3>1
    <3>2. CASE j # Len(net) + 1
      BY <1>9, <1>10, <3>2, LinksKept DEF IInv
    <3> QED
      BY <3>1, <3>2
  <2> QED
    BY <2>1, <2>2, <2>3 DEF Streamed, Shaped, Tokened
<1>16. Walking' /\ Asked' /\ Alone'
  BY <1>1 DEF Walking, Asked, Alone
<1> QED
  BY <1>3, <1>4, <1>11, <1>12, <1>13, <1>15, <1>16 DEF IInv, Remembered

LEMMA NextInv == IInv /\ [Next]_vars => IInv'
<1> SUFFICES ASSUME IInv, [Next]_vars PROVE IInv'
  OBVIOUS
<1>1. CASE Start \/ Exit \/ ExitBroken \/ FailSearch \/ Kill \/ GoAstray \/ SearchEnd
  BY <1>1, SessionInv
<1>2. CASE \E i \in Ids : Update("add", i) \/ Update("del", i)
  BY <1>2, UpdateInv
<1>3. CASE StartSearch
  BY <1>3, StartSearchInv
<1>4. CASE ServerStore
  BY <1>4, ServerStoreInv
<1>5. CASE ServerBegin
  BY <1>5, ServerBeginInv
<1>6. CASE VisitDel
  BY <1>6, VisitDelInv
<1>7. CASE VisitCancelled
  BY <1>7, VisitCancelledInv
<1>8. CASE VisitAdd
  BY <1>8, VisitAddInv
<1>9. CASE VisitSearch
  BY <1>9, VisitSearchInv
<1>10. CASE VisitMerged
  BY <1>10, VisitMergedInv
<1>11. CASE ServerEnd
  BY <1>11, ServerEndInv
<1>12. CASE UNCHANGED vars
  BY <1>12, Quiet DEF vars, IInv, Fields, Alone
<1> QED
  BY <1>1, <1>2, <1>3, <1>4, <1>5, <1>6, <1>7, <1>8, <1>9, <1>10, <1>11, <1>12
     DEF Next, Client, Walk

-----------------------------------------------------------------------------
\* The nodes on the server are nodes, and every link leads to an older one: no
\* walk of search_rose goes in a circle, whatever was merged, cancelled or
\* removed by the walks before and whatever a killed client left behind.
THEOREM NodesLeadBack == Spec => []TypeOK
<1>1. IInv => TypeOK
  BY DEF IInv, Stored, Shaped, TypeOK
<1> QED
  BY <1>1, InitInv, NextInv, PTL DEF Spec

\* The deletion tokens search_rose carries along are, at every node it reads,
\* under the key of that node (or spoilt): a label is compared to tokens of its
\* own key only, over any number of searches and merged search nodes.
THEOREM TokensAreUnderTheKeyRead == Spec => []TokensFollowKeys
<1>1. IInv => TokensFollowKeys
  <2> SUFFICES ASSUME IInv, Reading, NEW j \in DOMAIN srv.D, srv.D[j] # NoToken
               PROVE  srv.D[j] = <<srv.D[j][1], node.key>>
    BY DEF TokensFollowKeys
  <2>1. srv.D \in Seq(Tokens) /\ j \in 1..Len(srv.D)
    BY ReadNode
  <2>2. srv.D[j] \in Tokens
    BY <2>1, ElementOfSeq
  <2>3. srv.D[j][2] = node.key
    BY <2>1, ReadNode
  <2> QED
    BY <2>2, <2>3 DEF Tokens
<1> QED
  BY <1>1, InitInv, NextInv, PTL DEF Spec

-----------------------------------------------------------------------------
(* Every answer is exact.  The nodes behind the newest one, those that were  *)
(* removed included, are a line of numbers; a link may only jump over nodes  *)
(* whose absence changes no answer: additions that are cancelled, and        *)
(* deletions with nothing left to cancel.  A walk that has not ended may     *)
(* have removed a deletion and not yet what it cancels; if it then goes      *)
(* astray, every later walk that would notice ends up at the same node.      *)

Line == DOMAIN hist.log
Op(k) == hist.log[k][1]
Doc(k) == hist.log[k][2]

\* The number a session knows is that of the last node of its line.
LastIn(log, n) == IF DOMAIN log = {} THEN n = Nowhere
                  ELSE n \in DOMAIN log /\ \A k \in DOMAIN log : k <= n

\* The saved line is the part of the line up to the saved node; what a killed
\* process deleted beyond it is known.
Lined ==
  /\ Line \subseteq 1..hist.n
  /\ \A k \in Line : hist.log[k] \in ({"add", "del"} \X Ids) \cup {<<"srh", 0>>}
  /\ DOMAIN hist.saved = {k \in Line : k <= db.n}
  /\ \A k \in DOMAIN hist.saved : hist.saved[k] = hist.log[k]
  /\ LastIn(hist.saved, db.n)
  /\ pc # "off" => LastIn(hist.log, LastNode.n)
  /\ pc = "off" => net = <<>> /\ \A k \in Line : k > db.n /\ Op(k) = "del" => Doc(k) \in hist.forgot

\* A node is for the operation of its number; a deletion has a token for its
\* document, unless nothing came before it.
Fits(k, e) == /\ e.op = Op(k) /\ e.id = Doc(k)
              /\ e.op = "del" => \/ e.x # NoToken /\ e.x[1] = Doc(k)
                                 \/ e.x = NoToken /\ \A i \in Line : i >= k

\* Nodes still to be stored follow the stored ones, each linked to the one before.
Fresh(k, prev) == /\ k \in Line /\ prev \in Line \cup {End, Nowhere}
                  /\ \A i \in Line : i <= prev \/ i >= k
                  /\ \A i \in Line \cap DOMAIN EDB : i < k
Coming ==
  /\ \A j \in 1..Len(net) : /\ Fresh(net[j].n, net[j].node.prev) /\ Fits(net[j].n, net[j].node)
                            /\ \A i \in 1..Len(net) : i < j => net[i].n < net[j].n
  /\ srv.st = "request" => /\ Fresh(srv.req, srv.L1) /\ Op(srv.req) = "srh" /\ Doc(srv.req) = 0
                           /\ srv.result = <<>> /\ \A i \in Line : i <= srv.req

\* A node no walk passes, to which the links from beyond it lead.
Lost(b) == /\ b \in Line /\ ~(b \in DOMAIN EDB /\ EDB[b].ok) /\ b \notin Requested
           /\ \A j \in 1..Len(net) : net[j].n # b
           /\ \A k \in Line \cap DOMAIN EDB : k > b => EDB[k].prev >= b
Doomed(k) == \E b \in Line : b < k /\ Lost(b)

Gone(k) == Doc(k) \in hist.forgot \/ \E y \in Line : y > k /\ Op(y) = "del" /\ Doc(y) = Doc(k)

\* Deletion y could cancel addition x.
Cancels(y, x) == /\ x \in Line /\ y \in Line /\ x < y
                 /\ Op(y) = "del" /\ Op(x) = "add" /\ Doc(x) = Doc(y)

\* The walk is between node k and addition x.
Inside(k, x) == srv.st = "walk" /\ k >= srv.Lt /\ x <= srv.L1

\* What the link of a stored node jumps over.
Jumps(k) ==
  LET prev == EDB[k].prev
  IN  /\ Fits(k, EDB[k]) /\ prev \in Line \cup {End, Nowhere}
      /\ \A i \in Line : prev < i /\ i < k => i \notin DOMAIN EDB /\ (Op(i) = "add" => Gone(i))
      /\ \A y, x \in Line : Cancels(y, x) /\ prev < y /\ y < k /\ x \in DOMAIN EDB
                              => Doomed(k) \/ Inside(k, x)
Jumped == \A k \in Line \cap DOMAIN EDB : Jumps(k)

Ahead == \E b \in Line : b <= srv.L1 /\ Lost(b)
Carried(i) == \E j \in 1..Len(srv.D) : srv.D[j][1] = i /\ KeyIs(srv.L1, srv.D[j][2])

\* What a walk returns so far are the additions it has passed that no deletion
\* cancels; it carries a token of every deletion it has passed that cancels one
\* it has ahead, and no other token.
Exact(at) ==
  /\ \A j, k \in DOMAIN at : j < k => at[j] > at[k]
  /\ \A j \in DOMAIN at : /\ at[j] > srv.L1 /\ Op(at[j]) = "add" /\ Doc(at[j]) = srv.result[j]
                          /\ Ahead \/ \A y \in Line : ~Cancels(y, at[j])
  /\ \A k \in Line : k > srv.L1 /\ Op(k) = "add" => Gone(k) \/ \E j \in DOMAIN at : at[j] = k
Returning ==
  srv.st \in {"walk", "walked", "answer"} =>
    /\ srv.result \in Seq(Ids \cup {0})
    /\ \E at \in [DOMAIN srv.result -> Line] : Exact(at)
Carrying ==
  srv.st = "walk" =>
    /\ srv.Lt \in Line /\ srv.L1 \in Line \cup {End, Nowhere}
    /\ \A y, x \in Line : Cancels(y, x) /\ x <= srv.L1 /\ srv.L1 < y /\ x \in DOMAIN EDB
                            => Carried(Doc(y)) \/ Ahead
    /\ \A j \in 1..Len(srv.D) : srv.D[j] # NoToken =>
         \E y \in Line : y > srv.L1 /\ Op(y) = "del" /\ Doc(y) = srv.D[j][1]
Ended == /\ srv.st \in {"walked", "answer"} => srv.L1 = End
         /\ srv.st = "answer" => pc = "wait"
         /\ pc = "wait" => srv.st # "idle"

AInv == Lined /\ Coming /\ Jumped /\ Returning /\ Carrying /\ Ended

\* The numbers in what is known so far.
LEMMA Numbered ==
  ASSUME IInv, Lined
  PROVE  /\ hist.n \in Nat /\ db.n \in Int /\ LastNode.n \in Int
         /\ db.n <= hist.n /\ LastNode.n <= hist.n
         /\ \A k \in Line : k \in Nat /\ k >= 1 /\ k <= hist.n
         /\ \A k \in DOMAIN EDB : /\ k \in Nat /\ k >= 1 /\ k <= hist.n
                                  /\ EDB[k] \in Nodes /\ EDB[k].prev \in Int /\ EDB[k].prev < k
         /\ Len(net) \in Nat /\ \A j \in 1..Len(net) : net[j].n \in 1..hist.n
<1>1. hist.n \in Nat
  BY RoseAssumption DEF IInv, Counting
<1>2. db.n \in Int /\ LastNode.n \in Int /\ db.n <= hist.n /\ LastNode.n <= hist.n
  BY <1>1 DEF IInv, Remembered, Known, Nowhere
<1>3. \A k \in Line : k \in Nat /\ k >= 1 /\ k <= hist.n
  BY <1>1 DEF Lined
<1>4. ASSUME NEW k \in DOMAIN EDB
      PROVE  k \in Nat /\ k >= 1 /\ k <= hist.n /\ EDB[k] \in Nodes /\ EDB[k].prev \in Int /\ EDB[k].prev < k
  <2>1. k \in 1..hist.n /\ EDB[k] \in Nodes /\ EDB[k].prev < k
    BY DEF IInv, Stored, Shaped
  <2>2. EDB[k].prev \in Int
    BY <2>1, RoseAssumption DEF Nodes, Numbers, End, Nowhere
  <2> QED  BY <1>1, <2>1, <2>2
<1>5. Len(net) \in Nat /\ \A j \in 1..Len(net) : net[j].n \in 1..hist.n
  <2> DEFINE Sent == [n : 1..hist.n, node : Nodes]
  <2>1. net \in Seq(Sent)
    BY DEF IInv, Streamed
  <2>2. \A m \in Sent : m.n \in 1..hist.n
    OBVIOUS
  <2> HIDE DEF Sent
  <2>3. Len(net) \in Nat /\ \A j \in 1..Len(net) : net[j] \in Sent
    BY <2>1
  <2> QED  BY <2>2, <2>3
<1> QED  BY <1>1, <1>2, <1>3, <1>4, <1>5

\* What an operation of the line is.
LEMMA OnLine ==
  ASSUME Lined, NEW k \in Line
  PROVE  /\ Op(k) \in {"add", "del", "srh"} /\ hist.log[k] = <<Op(k), Doc(k)>>
         /\ Op(k) = "srh" => Doc(k) = 0
         /\ Op(k) # "srh" => Doc(k) \in Ids
<1>1. CASE hist.log[k] \in {"add", "del"} \X Ids
  BY <1>1 DEF Op, Doc
<1>2. CASE hist.log[k] = <<"srh", 0>>
  BY <1>2 DEF Op, Doc
<1> QED  BY <1>1, <1>2 DEF Lined

\* The link of a node is kept by a step that changes nothing under it.
LEMMA JumpsKept ==
  ASSUME IInv, Lined, NEW k \in Line, k \in DOMAIN EDB, Jumps(k), Fits(k, EDB[k])',
         \A i \in Line' : i \in Int,
         EDB'[k].prev = EDB[k].prev,
         \A i \in Line' : i < k => i \in Line,
         \A i \in Line : i < k => i \in Line',
         \A i \in Line' : i \in Line => hist'.log[i] = hist.log[i],
         \A i \in Line : i < k /\ i \in DOMAIN EDB' => i \in DOMAIN EDB,
         \A i \in Line : i < k /\ Gone(i) => Gone(i)',
         \A i \in Line : i < k /\ Lost(i) => Lost(i)',
         \A i \in Line : Inside(k, i) /\ i \in DOMAIN EDB' => Inside(k, i)' \/ Doomed(k)'
  PROVE  Jumps(k)'
<1>1. EDB[k].prev \in Int /\ EDB[k].prev < k /\ k \in Int
  BY Numbered
<1>2. \A i \in Line' : i \in Line => Op(i)' = Op(i) /\ Doc(i)' = Doc(i)
  BY DEF Op, Doc
<1>3. Doomed(k) => Doomed(k)'
  BY DEF Doomed
<1>4. EDB[k].prev \in Line' \cup {End, Nowhere}
  BY <1>1 DEF Jumps
<1>5. ASSUME NEW i \in Line', EDB[k].prev < i, i < k
      PROVE  i \notin DOMAIN EDB' /\ (Op(i)' = "add" => Gone(i)')
  BY <1>2, <1>5 DEF Jumps
<1>6. ASSUME NEW y \in Line', NEW x \in Line', Cancels(y, x)', EDB[k].prev < y, y < k, x \in DOMAIN EDB'
      PROVE  Doomed(k)' \/ Inside(k, x)'
  <2>1. x < y /\ x < k
    <3>1. x \in Int /\ y \in Int
      OBVIOUS
    <3> QED  BY <1>1, <1>6, <3>1 DEF Cancels
  <2>2. y \in Line /\ x \in Line /\ x \in DOMAIN EDB /\ Cancels(y, x)
    BY <1>2, <1>6, <2>1 DEF Cancels
  <2>3. Doomed(k) \/ Inside(k, x)
    BY <1>6, <2>2 DEF Jumps
  <2> QED  BY <1>3, <1>6, <2>2, <2>3
<1> QED  BY <1>4, <1>5, <1>6 DEF Jumps

\* A session starts on the saved line.
LEMMA StartAInv == ASSUME IInv, IInv', AInv, Start PROVE AInv'
<1> USE DEF AInv
<1>1. /\ pc = "off" /\ pc' = "ready" /\ LastNode' = db /\ srv'.st = "idle" /\ net = <<>>
      /\ srv.st \in {"idle", "astray"} /\ UNCHANGED <<db, net, EDB>>
  BY DEF Start, Idle, Lined
<1>2. /\ hist'.log = hist.saved /\ hist'.saved = hist.saved /\ hist'.n = hist.n
      /\ hist'.forgot = hist.forgot
  BY DEF Start, IInv, Fields
<1>3. /\ Line' = {k \in Line : k <= db.n} /\ \A k \in Line' : hist'.log[k] = hist.log[k]
      /\ \A k \in Line' : Op(k)' = Op(k) /\ Doc(k)' = Doc(k)
  BY <1>2 DEF Lined, Line, Op, Doc
<1>4. Lined'
  BY <1>1, <1>2, <1>3 DEF Lined, Line
<1>5. db.n \in Int /\ \A k \in Line : k \in Int
  BY Numbered
<1>6. ASSUME NEW i \in Line', Gone(i) PROVE Gone(i)'
  <2>1. CASE Doc(i) \in hist.forgot
    BY <1>2, <1>3, <2>1 DEF Gone
  <2>2. ASSUME NEW y \in Line, y > i, Op(y) = "del", Doc(y) = Doc(i) PROVE Gone(i)'
    <3>1. CASE y \in Line'
      BY <1>3, <2>2, <3>1 DEF Gone
    <3>2. CASE y > db.n
      BY <1>1, <1>2, <1>3, <2>2, <3>2 DEF Gone, Lined
    <3> QED  BY <1>3, <1>5, <3>1, <3>2
  <2> QED  BY <1>6, <2>1, <2>2 DEF Gone
<1>7. ASSUME NEW i \in Line', Lost(i) PROVE Lost(i)'
  BY <1>1, <1>3, <1>7 DEF Lost, Requested
<1>8. ASSUME NEW k \in Line', k \in DOMAIN EDB' PROVE Jumps(k)'
  <2>1. k \in Line /\ k \in DOMAIN EDB /\ Jumps(k) /\ EDB' = EDB
    BY <1>1, <1>3, <1>8 DEF Jumped
  <2>2. Fits(k, EDB[k])'
    BY <1>1, <1>3, <2>1 DEF Jumps, Fits
  <2>3. \A i \in Line : i < k => i \in Line'
    BY <1>3, <1>5
  <2>5. \A i \in Line : ~Inside(k, i)
    BY <1>1 DEF Inside
  <2> QED  BY <1>3, <1>5, <1>6, <1>7, <2>1, <2>2, <2>3, <2>5, JumpsKept
<1>9. Coming' /\ Returning' /\ Carrying' /\ Ended'
  BY <1>1 DEF Coming, Returning, Carrying, Ended
<1> QED  BY <1>4, <1>8, <1>9 DEF Jumped

\* A session ends, and the line is saved, with what a broken stream or call lost.
LEMMA ExitAInv == ASSUME IInv, IInv', AInv, Exit \/ ExitBroken \/ FailSearch PROVE AInv'
<1> USE DEF AInv
<1>1. /\ pc # "off" /\ pc' = "off" /\ net' = <<>> /\ db' = LastNode /\ UNCHANGED <<LastNode, EDB>>
      /\ \/ srv' = srv /\ srv.st \notin {"request", "answer"}
         \/ srv'.st = "idle" /\ srv.st # "walk"
  BY DEF Exit, ExitBroken, FailSearch, IInv, Alone, Idle, AInv, Ended
<1>2. /\ hist'.log = hist.log /\ hist'.saved = hist.log /\ hist'.n = hist.n
      /\ hist'.forgot = hist.forgot
  BY DEF Exit, ExitBroken, FailSearch, IInv, Fields
<1>3. Line' = Line /\ \A k : Op(k)' = Op(k) /\ Doc(k)' = Doc(k)
  BY <1>2 DEF Line, Op, Doc
<1>4. Lined'
  <2>1. \A k \in Line : k <= LastNode.n
    BY <1>1 DEF Lined, LastIn, Line
  <2>2. \A k \in Line : ~(k > LastNode.n)
    BY <2>1, Numbered
  <2> QED  BY <1>1, <1>2, <2>1, <2>2 DEF Lined, Line, LastIn, Op, Doc
<1>5. ASSUME NEW i \in Line, Gone(i) PROVE Gone(i)'
  BY <1>2, <1>3, <1>5 DEF Gone
<1>6. ASSUME NEW i \in Line, Lost(i) PROVE Lost(i)'
  BY <1>1, <1>3, <1>6 DEF Lost, Requested
<1>7. ASSUME NEW k \in Line', k \in DOMAIN EDB' PROVE Jumps(k)'
  <2>1. k \in Line /\ k \in DOMAIN EDB /\ Jumps(k) /\ EDB' = EDB
    BY <1>1, <1>3, <1>7 DEF Jumped
  <2>2. Fits(k, EDB[k])'
    BY <1>1, <1>3, <2>1 DEF Jumps, Fits
  <2>3. \A i \in Line : Inside(k, i) => Inside(k, i)'
    BY <1>1 DEF Inside
  <2>4. \A i \in Line' : i \in Int
    BY <1>3, Numbered
  <2> QED  BY <1>2, <1>3, <1>5, <1>6, <2>1, <2>2, <2>3, <2>4, JumpsKept
<1>8. CASE srv' = srv /\ srv.st \notin {"request", "answer"}
  <2>1. Ahead => Ahead'
    BY <1>3, <1>6, <1>8 DEF Ahead
  <2>2. \A at : Exact(at) => Exact(at)'
    BY <1>3, <1>5, <1>8, <2>1 DEF Exact, Cancels
  <2>3. Returning'
    BY <1>3, <1>8, <2>2 DEF Returning
  <2>4. \A i : Carried(i) => Carried(i)'
    BY <1>1, <1>8 DEF Carried, KeyIs, Requested
  <2>5. Carrying'
    BY <1>1, <1>3, <1>8, <2>1, <2>4 DEF Carrying, Cancels
  <2>6. Coming' /\ Ended'
    BY <1>1, <1>8 DEF Coming, Ended
  <2> QED  BY <1>4, <1>7, <2>3, <2>5, <2>6 DEF Jumped
<1>9. CASE srv'.st = "idle"
  BY <1>1, <1>4, <1>7, <1>9 DEF Coming, Returning, Carrying, Ended, Jumped
<1> QED  BY <1>1, <1>8, <1>9

\* A killed process leaves the line as it is until the next one starts.
LEMMA KillAInv == ASSUME IInv, IInv', AInv, Kill PROVE AInv'
<1> USE DEF AInv
<1>1. /\ pc' = "off" /\ net' = <<>> /\ UNCHANGED <<db, EDB>>
      /\ \/ srv' = srv /\ srv.st \notin {"request", "answer"}
         \/ srv'.st = "idle" /\ srv.st # "walk"
  BY DEF Kill, Idle
<1>2. /\ hist'.log = hist.log /\ hist'.saved = hist.saved /\ hist'.n = hist.n
      /\ hist'.forgot = hist.forgot \cup Deleted(hist.log)
  BY DEF Kill, IInv, Fields
<1>3. Line' = Line /\ \A k : Op(k)' = Op(k) /\ Doc(k)' = Doc(k)
  BY <1>2 DEF Line, Op, Doc
<1>4. Lined'
  <2>1. ASSUME NEW k \in Line, Op(k) = "del" PROVE Doc(k) \in hist'.forgot
    <3>1. hist.log[k] = <<"del", Doc(k)>> /\ Doc(k) \in Ids
      BY <2>1, OnLine
    <3> QED  BY <1>2, <3>1 DEF Deleted, Line
  <2> QED  BY <1>1, <1>2, <1>3, <2>1 DEF Lined
<1>5. ASSUME NEW i \in Line, Gone(i) PROVE Gone(i)'
  BY <1>2, <1>3, <1>5 DEF Gone
<1>6. ASSUME NEW i \in Line, Lost(i) PROVE Lost(i)'
  BY <1>1, <1>3, <1>6 DEF Lost, Requested
<1>7. ASSUME NEW k \in Line', k \in DOMAIN EDB' PROVE Jumps(k)'
  <2>1. k \in Line /\ k \in DOMAIN EDB /\ Jumps(k) /\ EDB' = EDB
    BY <1>1, <1>3, <1>7 DEF Jumped
  <2>2. Fits(k, EDB[k])'
    BY <1>1, <1>3, <2>1 DEF Jumps, Fits
  <2>3. \A i \in Line : Inside(k, i) => Inside(k, i)'
    BY <1>1 DEF Inside
  <2>4. \A i \in Line' : i \in Int
    BY <1>3, Numbered
  <2> QED  BY <1>2, <1>3, <1>5, <1>6, <2>1, <2>2, <2>3, <2>4, JumpsKept
<1>8. CASE srv' = srv /\ srv.st \notin {"request", "answer"}
  <2>1. Ahead => Ahead'
    BY <1>3, <1>6, <1>8 DEF Ahead
  <2>2. \A at : Exact(at) => Exact(at)'
    BY <1>3, <1>5, <1>8, <2>1 DEF Exact, Cancels
  <2>3. Returning'
    BY <1>3, <1>8, <2>2 DEF Returning
  <2>4. \A i : Carried(i) => Carried(i)'
    BY <1>1, <1>8 DEF Carried, KeyIs, Requested
  <2>5. Carrying'
    BY <1>1, <1>3, <1>8, <2>1, <2>4 DEF Carrying, Cancels
  <2>6. Coming' /\ Ended'
    BY <1>1, <1>8 DEF Coming, Ended
  <2> QED  BY <1>4, <1>7, <2>3, <2>5, <2>6 DEF Jumped
<1>9. CASE srv'.st = "idle"
  BY <1>1, <1>4, <1>7, <1>9 DEF Coming, Returning, Carrying, Ended, Jumped
<1> QED  BY <1>1, <1>8, <1>9

\* The line with a new node.
LEMMA Grown ==
  ASSUME IInv, Lined, Jumped, hist'.n = hist.n + 1, hist'.forgot = hist.forgot,
         NEW v \in ({"add", "del"} \X Ids) \cup {<<"srh", 0>>}, hist'.log = Put(hist.log, hist.n + 1, v),
         EDB' = EDB, srv.st = "idle", hist'.n \notin DOMAIN EDB,
         \A i \in Line : Lost(i) => Lost(i)'
  PROVE  /\ Line' = Line \cup {hist'.n} /\ hist'.log[hist'.n] = v
         /\ \A k \in Line : k < hist'.n /\ hist'.log[k] = hist.log[k]
         /\ Jumped'
<1>1. hist.n \in Nat /\ \A k \in Line : k \in Int /\ k <= hist.n
  BY Numbered
<1>2. /\ Line' = Line \cup {hist'.n} /\ hist'.log[hist'.n] = v
      /\ \A k \in Line : k < hist'.n /\ hist'.log[k] = hist.log[k]
  BY <1>1 DEF Put, Line
<1>3. \A k \in Line : Op(k)' = Op(k) /\ Doc(k)' = Doc(k)
  BY <1>2 DEF Op, Doc
<1>4. \A i \in Line : Gone(i) => Gone(i)'
  BY <1>2, <1>3 DEF Gone
<1>5. ASSUME NEW k \in Line', k \in DOMAIN EDB' PROVE Jumps(k)'
  <2>1. k \in Line /\ k \in DOMAIN EDB /\ Jumps(k)
    BY <1>2, <1>5 DEF Jumped
  <2>2. Fits(k, EDB[k])'
    <3>1. Fits(k, EDB[k]) /\ k <= hist'.n
      BY <1>1, <2>1 DEF Jumps
    <3>2. (\A i \in Line : i >= k) => \A i \in Line' : i >= k
      BY <1>2, <3>1
    <3> QED  BY <1>3, <2>1, <3>1, <3>2 DEF Fits
  <2>3. \A i \in Line : ~Inside(k, i)
    BY DEF Inside
  <2>4. /\ \A i \in Line' : i \in Int
        /\ \A i \in Line' : i < k => i \in Line
    BY <1>1, <1>2, <2>1
  <2> QED  BY <1>2, <1>4, <2>1, <2>2, <2>3, <2>4, JumpsKept
<1> QED  BY <1>2, <1>5 DEF Jumped

\* An operation makes the next node of the line.
LEMMA UpdateAInv ==
  ASSUME IInv, IInv', AInv, NEW op \in {"add", "del"}, NEW i \in Ids, Update(op, i)
  PROVE  AInv'
<1> USE DEF AInv
<1> DEFINE e == Node(op, i)
           new == [n |-> hist.n + 1, node |-> e]
<1>1. /\ pc = "ready" /\ LastNode' = [n |-> hist.n + 1, key |-> e.key] /\ net' = Append(net, new)
      /\ UNCHANGED <<pc, db, EDB, srv>> /\ srv.st = "idle"
  BY DEF Update, IInv, Alone
<1>2. /\ hist'.n = hist.n + 1 /\ hist'.log = Put(hist.log, hist.n + 1, <<op, i>>)
      /\ hist'.saved = hist.saved /\ hist'.forgot = hist.forgot
  BY DEF Update, IInv, Fields
<1>3. /\ e.op = op /\ e.id = i /\ e.prev = Prev /\ e.ok
      /\ op = "del" /\ LastNode.n # Nowhere => e.x[1] = i /\ e.x # NoToken
      /\ LastNode.n = Nowhere => e.x = NoToken
  <2>1. hist.n + 1 # 0 /\ LastNode.key = 0 => LastNode.n = Nowhere
    BY Numbered DEF IInv, Remembered, Known
  <2>2. op = "del" /\ LastNode.n # Nowhere => e.x = <<i, LastNode.key>>
    BY <2>1, Numbered DEF Node
  <2>3. LastNode.n # Nowhere => LastNode.key # 0
    BY DEF IInv, Remembered, Known
  <2> QED  BY <2>2, <2>3 DEF Node, NoToken
<1> HIDE DEF e
<1>4. /\ hist.n \in Nat /\ db.n \in Int /\ db.n <= hist.n /\ LastNode.n \in Int /\ LastNode.n <= hist.n
      /\ \A k \in Line : k \in Nat /\ k >= 1 /\ k <= hist.n
      /\ \A k \in DOMAIN EDB : k \in Nat /\ k <= hist.n
      /\ Len(net) \in Nat /\ \A j \in 1..Len(net) : net[j].n \in 1..hist.n
  BY Numbered
<1>5. /\ Len(net') = Len(net) + 1 /\ net'[Len(net) + 1] = new
      /\ \A j \in 1..Len(net) : net'[j] = net[j]
      /\ \A j \in 1..Len(net') : j \in 1..Len(net) \/ j = Len(net) + 1
  <2>1. net \in Seq([n : 1..hist.n, node : Nodes])
    BY DEF IInv, Streamed
  <2> QED  BY <1>1, <2>1
<1>6. \A b \in Line : Lost(b) => Lost(b)'
  <2> SUFFICES ASSUME NEW b \in Line, Lost(b) PROVE Lost(b)'
    OBVIOUS
  <2>1. DOMAIN EDB \cap Line' \subseteq Line /\ b \in Line'
    BY <1>2, <1>4 DEF Line, Put
  <2>2. \A j \in 1..Len(net') : net'[j].n # b
    BY <1>4, <1>5 DEF Lost
  <2> QED  BY <1>1, <2>1, <2>2 DEF Lost, Requested
<1>7. /\ Line' = Line \cup {hist'.n} /\ hist'.log[hist'.n] = <<op, i>>
      /\ \A k \in Line : k < hist'.n /\ hist'.log[k] = hist.log[k]
      /\ Jumped'
  <2>1. <<op, i>> \in ({"add", "del"} \X Ids) \cup {<<"srh", 0>>}
    OBVIOUS
  <2>2. hist'.n \notin DOMAIN EDB
    BY <1>2, <1>4
  <2> QED  BY <1>1, <1>2, <1>6, <2>1, <2>2, Grown
<1>8. Lined'
  <2>1. DOMAIN hist'.saved = {k \in Line' : k <= db'.n}
    BY <1>1, <1>2, <1>4, <1>7 DEF Lined
  <2>2. LastIn(hist.log, LastNode.n)'
    <3>1. LastNode'.n = hist'.n /\ hist'.n \in Line'
      BY <1>1, <1>2, <1>7
    <3>2. \A k \in Line' : k <= LastNode'.n
      BY <1>2, <1>4, <1>7, <3>1
    <3> QED  BY <3>1, <3>2 DEF LastIn, Line
  <2>3. Line' \subseteq 1..hist'.n
    BY <1>2, <1>4, <1>7
  <2>4. \A k \in Line' : hist'.log[k] \in ({"add", "del"} \X Ids) \cup {<<"srh", 0>>}
    <3> DEFINE Ops == ({"add", "del"} \X Ids) \cup {<<"srh", 0>>}
    <3>1. <<op, i>> \in Ops
      OBVIOUS
    <3>2. \A k \in Line : hist.log[k] \in Ops
      BY DEF Lined
    <3> HIDE DEF Ops
    <3>3. \A k \in Line' : hist'.log[k] \in Ops
      BY <1>7, <3>1, <3>2
    <3> QED  BY <3>3 DEF Ops
  <2>5. \A k \in DOMAIN hist'.saved : hist'.saved[k] = hist'.log[k]
    BY <1>2, <1>7 DEF Lined
  <2>6. LastIn(hist.saved, db.n)' /\ pc' # "off"
    BY <1>1, <1>2 DEF Lined, LastIn
  <2> QED  BY <2>1, <2>2, <2>3, <2>4, <2>5, <2>6 DEF Lined
<1>9. Coming'
  <2>1. \A k, p : Fresh(k, p) /\ k < hist'.n => Fresh(k, p)'
    BY <1>1, <1>2, <1>4, <1>7 DEF Fresh
  <2>2. \A k, f : k \in Line /\ Fits(k, f) => Fits(k, f)'
    <3> TAKE k, f
    <3> HAVE k \in Line /\ Fits(k, f)
    <3>1. Op(k)' = Op(k) /\ Doc(k)' = Doc(k)
      BY <1>7 DEF Op, Doc
    <3>2. (\A l \in Line : l >= k) => \A l \in Line' : l >= k
      BY <1>2, <1>4, <1>7
    <3> QED  BY <3>1, <3>2 DEF Fits
  <2>3. \A k, p : k = hist'.n /\ p = e.prev => Fresh(k, p)'
    <3>1. e.prev \in Line \cup {End, Nowhere} /\ \A l \in Line : l <= e.prev
      <4>1. CASE Line = {}
        BY <1>1, <1>3, <4>1 DEF Prev, LastIn, Lined, Line
      <4>2. CASE Line # {}
        <5>1. LastNode.n \in Line /\ \A l \in Line : l <= LastNode.n
          BY <1>1, <4>2 DEF LastIn, Lined, Line
        <5>2. LastNode.n # Nowhere
          BY <1>4, <5>1 DEF Nowhere
        <5> QED  BY <1>3, <5>1, <5>2 DEF Prev
      <4> QED  BY <4>1, <4>2
    <3>2. hist'.n >= hist'.n /\ \A l \in DOMAIN EDB : l < hist'.n
      BY <1>2, <1>4
    <3> QED  BY <1>1, <1>7, <3>1, <3>2 DEF Fresh
  <2>4. \A k, f : k = hist'.n /\ f = e => Fits(k, f)'
    <3>1. \A k : k = hist'.n => Op(k)' = op /\ Doc(k)' = i
      BY <1>7 DEF Op, Doc
    <3>2. LastNode.n = Nowhere => \A l \in Line' : l >= hist'.n
      <4>1. LastNode.n = Nowhere => Line = {}
        BY <1>1, <1>4 DEF LastIn, Lined, Line, Nowhere
      <4> QED  BY <1>2, <1>4, <1>7, <4>1
    <3>3. op = "del" /\ LastNode.n # Nowhere => e.x # NoToken /\ e.x[1] = i
      BY <1>3 DEF NoToken
    <3>4. op = "del" /\ LastNode.n = Nowhere => e.x = NoToken
      BY <1>3
    <3>5. e.op = op /\ e.id = i
      BY <1>3
    <3> QED  BY <3>1, <3>2, <3>3, <3>4, <3>5 DEF Fits
  <2>5. ASSUME NEW j \in 1..Len(net')
        PROVE  /\ Fresh(net[j].n, net[j].node.prev)' /\ Fits(net[j].n, net[j].node)'
               /\ \A k \in 1..Len(net') : k < j => net'[k].n < net'[j].n
    <3>1. PICK m : m = net'[j]
      OBVIOUS
    <3>2. Fresh(m.n, m.node.prev)' /\ Fits(m.n, m.node)' /\ \A k \in 1..Len(net') : k < j => net'[k].n < m.n
      <4>1. CASE j \in 1..Len(net)
        <5>1. m = net[j] /\ m.n < hist'.n
          BY <1>2, <1>4, <1>5, <3>1, <4>1
        <5>2. Fresh(m.n, m.node.prev) /\ Fits(m.n, m.node) /\ \A k \in 1..Len(net) : k < j => net[k].n < m.n
          BY <4>1, <5>1 DEF Coming
        <5>3. m.n \in Line
          BY <5>2 DEF Fresh
        <5>4. \A k \in 1..Len(net') : k < j => net'[k].n < m.n
          BY <1>4, <1>5, <4>1, <5>2
        <5> QED  BY <2>1, <2>2, <5>1, <5>2, <5>3, <5>4
      <4>2. CASE j = Len(net) + 1
        <5>1. m.n = hist'.n /\ m.node = e
          BY <1>2, <1>5, <3>1, <4>2
        <5>2. \A k \in 1..Len(net') : k < j => net'[k].n < m.n
          BY <1>2, <1>4, <1>5, <4>2, <5>1
        <5> QED  BY <2>3, <2>4, <5>1, <5>2
      <4> QED  BY <1>5, <4>1, <4>2
    <3> QED  BY <3>1, <3>2 DEF Fresh, Fits, Op, Doc
  <2> QED  BY <1>1, <2>5 DEF Coming
<1>10. Returning' /\ Carrying' /\ Ended'
  BY <1>1 DEF Returning, Carrying, Ended
<1> QED  BY <1>7, <1>8, <1>9, <1>10

\* A search makes the next node of the line, and asks the server to store it.
LEMMA StartSearchAInv == ASSUME IInv, IInv', AInv, StartSearch PROVE AInv'
<1> USE DEF AInv
<1>1. /\ pc = "ready" /\ pc' = "wait" /\ net = <<>> /\ LastNode'.n = hist.n + 1
      /\ UNCHANGED <<db, net, EDB>> /\ srv.st = "idle"
      /\ srv'.st = "request" /\ srv'.req = hist.n + 1 /\ srv'.L1 = LastNode.n /\ srv'.result = <<>>
  BY DEF StartSearch, IInv, Alone, Idle
<1>2. /\ hist'.n = hist.n + 1 /\ hist'.log = Put(hist.log, hist.n + 1, <<"srh", 0>>)
      /\ hist'.saved = hist.saved /\ hist'.forgot = hist.forgot
  BY DEF StartSearch, IInv, Fields
<1>4. /\ hist.n \in Nat /\ db.n \in Int /\ db.n <= hist.n /\ LastNode.n \in Int /\ LastNode.n <= hist.n
      /\ \A k \in Line : k \in Nat /\ k >= 1 /\ k <= hist.n
      /\ \A k \in DOMAIN EDB : k \in Nat /\ k <= hist.n
  BY Numbered
<1>5. hist'.n \notin DOMAIN EDB
  BY <1>2, <1>4
<1>6. \A b \in Line : Lost(b) => Lost(b)'
  <2> SUFFICES ASSUME NEW b \in Line, Lost(b) PROVE Lost(b)'
    OBVIOUS
  <2>1. DOMAIN EDB \cap Line' \subseteq Line /\ b \in Line' /\ b # srv'.req
    BY <1>1, <1>2, <1>4 DEF Line, Put
  <2> QED  BY <1>1, <2>1 DEF Lost, Requested
<1>7. /\ Line' = Line \cup {hist'.n} /\ hist'.log[hist'.n] = <<"srh", 0>>
      /\ \A k \in Line : k < hist'.n /\ hist'.log[k] = hist.log[k]
      /\ Jumped'
  <2>1. <<"srh", 0>> \in ({"add", "del"} \X Ids) \cup {<<"srh", 0>>}
    OBVIOUS
  <2> QED  BY <1>1, <1>2, <1>5, <1>6, <2>1, Grown
<1>8. Lined'
  <2>1. DOMAIN hist'.saved = {k \in Line' : k <= db'.n}
    BY <1>1, <1>2, <1>4, <1>7 DEF Lined
  <2>2. LastIn(hist.log, LastNode.n)'
    <3>1. LastNode'.n = hist'.n /\ hist'.n \in Line'
      BY <1>1, <1>2, <1>7
    <3>2. \A k \in Line' : k <= LastNode'.n
      BY <1>2, <1>4, <1>7, <3>1
    <3> QED  BY <3>1, <3>2 DEF LastIn, Line
  <2>3. Line' \subseteq 1..hist'.n
    BY <1>2, <1>4, <1>7
  <2>4. \A k \in Line' : hist'.log[k] \in ({"add", "del"} \X Ids) \cup {<<"srh", 0>>}
    <3> DEFINE Ops == ({"add", "del"} \X Ids) \cup {<<"srh", 0>>}
    <3>1. <<"srh", 0>> \in Ops
      OBVIOUS
    <3>2. \A k \in Line : hist.log[k] \in Ops
      BY DEF Lined
    <3> HIDE DEF Ops
    <3>3. \A k \in Line' : hist'.log[k] \in Ops
      BY <1>7, <3>1, <3>2
    <3> QED  BY <3>3 DEF Ops
  <2>5. \A k \in DOMAIN hist'.saved : hist'.saved[k] = hist'.log[k]
    BY <1>2, <1>7 DEF Lined
  <2>6. LastIn(hist.saved, db.n)' /\ pc' # "off"
    BY <1>1, <1>2 DEF Lined, LastIn
  <2> QED  BY <2>1, <2>2, <2>3, <2>4, <2>5, <2>6 DEF Lined
<1>9. Coming'
  <2>1. \A k, p : k = hist'.n /\ p = LastNode.n => Fresh(k, p)'
    <3>1. LastNode.n \in Line \cup {Nowhere} /\ \A l \in Line : l <= LastNode.n
      BY <1>1 DEF LastIn, Lined, Line
    <3>2. hist'.n >= hist'.n /\ \A l \in DOMAIN EDB : l < hist'.n
      BY <1>2, <1>4
    <3> QED  BY <1>1, <1>7, <3>1, <3>2 DEF Fresh
  <2>2. Fresh(srv.req, srv.L1)'
    <3>1. PICK k, p : k = hist'.n /\ p = LastNode.n
      OBVIOUS
    <3>2. srv'.req = k /\ srv'.L1 = p /\ Fresh(k, p)'
      BY <1>1, <1>2, <2>1, <3>1
    <3> QED  BY <3>2 DEF Fresh
  <2>3. (Op(srv.req) = "srh" /\ Doc(srv.req) = 0)'
    BY <1>1, <1>2, <1>7 DEF Op, Doc
  <2>4. \A k \in Line' : k <= srv'.req
    BY <1>1, <1>2, <1>4, <1>7
  <2> QED  BY <1>1, <2>2, <2>3, <2>4 DEF Coming
<1>10. Returning' /\ Carrying' /\ Ended'
  BY <1>1 DEF Returning, Carrying, Ended
<1> QED  BY <1>7, <1>8, <1>9, <1>10

\* The next node of the stream is stored.
LEMMA StoreAInv == ASSUME IInv, IInv', AInv, ServerStore PROVE AInv'
<1> USE DEF AInv
<1> DEFINE m == net[1]
<1>1. /\ net # <<>> /\ net' = Tail(net) /\ EDB' = Put(EDB, Head(net).n, Head(net).node)
      /\ UNCHANGED <<pc, LastNode, db, srv, hist>> /\ srv.st = "idle"
  BY DEF ServerStore, IInv, Alone
<1>2. /\ Len(net) >= 1 /\ Len(net) \in Nat /\ Head(net) = m /\ Len(net') = Len(net) - 1
      /\ \A j \in 1..Len(net') : j + 1 \in 1..Len(net) /\ net'[j] = net[j + 1]
  <2>1. net \in Seq([n : 1..hist.n, node : Nodes])
    BY DEF IInv, Streamed
  <2> QED  BY <1>1, <2>1
<1>3. /\ \A k \in Line : k \in Nat /\ k >= 1 /\ k <= hist.n
      /\ \A k \in DOMAIN EDB : k \in Nat /\ EDB[k].prev \in Int
      /\ \A j \in 1..Len(net) : net[j].n \in 1..hist.n
  BY Numbered
<1>4. /\ Fresh(m.n, m.node.prev) /\ Fits(m.n, m.node) /\ m.n \in Line /\ m.n \in Int
      /\ \A j \in 1..Len(net) : j # 1 => m.n < net[j].n
  <2>1. 1 \in 1..Len(net) /\ \A j \in 1..Len(net) : j # 1 => 1 < j
    BY <1>2
  <2> QED  BY <1>3, <2>1 DEF Coming, Fresh
<1>5. /\ DOMAIN EDB' = DOMAIN EDB \cup {m.n} /\ EDB'[m.n] = m.node
      /\ \A k \in DOMAIN EDB : k # m.n => EDB'[k] = EDB[k]
      /\ \A k \in Line \cap DOMAIN EDB : k < m.n
  BY <1>1, <1>2, <1>4 DEF Put, Fresh
<1> HIDE DEF m
<1>6. \A b \in Line : Lost(b) => Lost(b)'
  <2> SUFFICES ASSUME NEW b \in Line, Lost(b) PROVE Lost(b)'
    OBVIOUS
  <2>1. b # m.n /\ \A j \in 1..Len(net') : net'[j].n # b
    BY <1>2 DEF Lost, m
  <2>2. b < m.n => m.node.prev >= b
    <3>1. m.node.prev \in Int
      BY <1>3, <1>4 DEF Fresh, End, Nowhere
    <3> QED  BY <1>3, <1>4, <3>1 DEF Fresh
  <2>3. \A k \in Line \cap DOMAIN EDB' : k > b => EDB'[k].prev >= b
    BY <1>3, <1>4, <1>5, <2>2 DEF Lost
  <2>4. b \in DOMAIN EDB' => b \in DOMAIN EDB /\ EDB'[b] = EDB[b]
    BY <1>5, <2>1
  <2> QED  BY <1>1, <2>1, <2>3, <2>4 DEF Lost, Requested, Line
<1>7. ASSUME NEW k \in Line', k \in DOMAIN EDB' PROVE Jumps(k)'
  <2>1. CASE k \in DOMAIN EDB /\ k # m.n
    <3>1. Jumps(k) /\ k < m.n /\ EDB'[k] = EDB[k] /\ k \in Line
      BY <1>1, <1>5, <1>7, <2>1 DEF Jumped, Line
    <3>2. Fits(k, EDB[k])' /\ \A i \in Line : Gone(i) => Gone(i)'
      BY <1>1, <3>1 DEF Jumps, Fits, Op, Doc, Line, Gone
    <3>3. \A i \in Line : ~Inside(k, i)
      BY <1>1 DEF Inside
    <3>4. Line' = Line /\ hist' = hist /\ \A i \in Line : i \in Int
      BY <1>1, <1>3 DEF Line
    <3>5. \A i \in Line : i < k /\ i \in DOMAIN EDB' => i \in DOMAIN EDB
      BY <1>3, <1>4, <1>5, <3>1
    <3> QED  BY <1>6, <2>1, <3>1, <3>2, <3>3, <3>4, <3>5, JumpsKept
  <2>2. CASE k = m.n
    <3>1. Fits(k, EDB[k])'
      BY <1>1, <1>4, <1>5, <2>2 DEF Fits, Op, Doc, Line
    <3>2. EDB'[k].prev \in Line' \cup {End, Nowhere} /\ \A i \in Line' : i <= EDB'[k].prev \/ i >= k
      BY <1>1, <1>4, <1>5, <2>2 DEF Fresh, Line
    <3>3. EDB'[k].prev \in Int /\ k \in Int /\ \A i \in Line' : i \in Int
      BY <1>1, <1>3, <2>2, <3>2 DEF Line, End, Nowhere
    <3>4. ASSUME NEW i \in Line' PROVE ~(EDB'[k].prev < i /\ i < k)
      <4>1. i \in Int /\ (i <= EDB'[k].prev \/ i >= k)
        BY <3>2, <3>3
      <4> QED  BY <3>3, <4>1
    <3> QED  BY <3>1, <3>2, <3>4 DEF Jumps
  <2> QED  BY <1>5, <1>7, <2>1, <2>2
<1>8. Coming'
  <2>1. \A k, p : Fresh(k, p) /\ m.n < k => Fresh(k, p)'
    BY <1>1, <1>5 DEF Fresh, Line
  <2>2. \A k, f : Fits(k, f) => Fits(k, f)'
    BY <1>1 DEF Fits, Op, Doc, Line
  <2>3. ASSUME NEW j \in 1..Len(net')
        PROVE  /\ Fresh(net[j].n, net[j].node.prev)' /\ Fits(net[j].n, net[j].node)'
               /\ \A k \in 1..Len(net') : k < j => net'[k].n < net'[j].n
    <3>1. PICK f : f = net'[j]
      OBVIOUS
    <3>2. f = net[j + 1] /\ j + 1 \in 1..Len(net) /\ j + 1 # 1
      BY <1>2, <3>1
    <3>3. Fresh(f.n, f.node.prev) /\ Fits(f.n, f.node) /\ m.n < f.n
      BY <1>4, <3>2 DEF Coming
    <3>4. Fresh(f.n, f.node.prev)' /\ Fits(f.n, f.node)'
      BY <2>1, <2>2, <3>3
    <3>5. \A k \in 1..Len(net') : k < j => net'[k].n < f.n
      <4> TAKE k \in 1..Len(net')
      <4>1. net'[k] = net[k + 1] /\ k + 1 \in 1..Len(net) /\ (k < j => k + 1 < j + 1)
        BY <1>2
      <4> QED  BY <3>2, <4>1 DEF Coming
    <3> QED  BY <3>1, <3>4, <3>5 DEF Fresh, Fits, Op, Doc
  <2> QED  BY <1>1, <2>3 DEF Coming
<1>9. Lined'
  BY <1>1 DEF Lined, Line, LastIn, Op, Doc
<1>10. Returning' /\ Carrying' /\ Ended'
  BY <1>1 DEF Returning, Carrying, Ended
<1> QED  BY <1>7, <1>8, <1>9, <1>10 DEF Jumped

\* The search's node is stored, and the walk begins below it.
LEMMA BeginAInv == ASSUME IInv, IInv', AInv, ServerBegin PROVE AInv'
<1> USE DEF AInv
<1>1. /\ srv.st = "request" /\ srv'.st = "walk" /\ net = <<>> /\ UNCHANGED <<pc, LastNode, db, net, hist>>
      /\ srv'.L1 = srv.L1 /\ srv'.Lt = srv.req /\ srv'.result = <<>> /\ srv'.D = <<>>
  BY DEF ServerBegin, IInv, Alone, Fields, Asked, Coming
<1>2. PICK e : /\ EDB' = Put(EDB, srv.req, e)
               /\ e.op = "srh" /\ e.id = 0 /\ e.prev = srv.L1
  BY DEF ServerBegin
<1>3. /\ \A k \in Line : k \in Nat /\ k >= 1
      /\ \A k \in DOMAIN EDB : k \in Nat /\ EDB[k].prev \in Int
  BY Numbered
<1>4. /\ srv.req \in Line /\ srv.L1 \in Line \cup {End, Nowhere} /\ srv.L1 \in Int
      /\ \A i \in Line : (i <= srv.L1 \/ i = srv.req) /\ i <= srv.req
      /\ \A i \in Line \cap DOMAIN EDB : i < srv.req
      /\ Op(srv.req) = "srh" /\ Doc(srv.req) = 0
  BY <1>1, <1>3 DEF Coming, Fresh, End, Nowhere
<1>5. /\ DOMAIN EDB' = DOMAIN EDB \cup {srv.req} /\ EDB'[srv.req] = e
      /\ \A k \in DOMAIN EDB : k # srv.req => EDB'[k] = EDB[k]
  BY <1>2 DEF Put
<1>6. \A b \in Line : Lost(b) => Lost(b)'
  <2> SUFFICES ASSUME NEW b \in Line, Lost(b) PROVE Lost(b)'
    OBVIOUS
  <2>1. b # srv.req /\ b <= srv.L1
    BY <1>1, <1>4 DEF Lost, Requested
  <2>2. \A k \in Line \cap DOMAIN EDB' : k > b => EDB'[k].prev >= b
    BY <1>2, <1>3, <1>4, <1>5, <2>1 DEF Lost
  <2> QED  BY <1>1, <1>5, <2>1, <2>2 DEF Lost, Requested, Line
<1>7. Line' = Line /\ hist' = hist /\ \A i : Op(i)' = Op(i) /\ Doc(i)' = Doc(i)
  BY <1>1 DEF Line, Op, Doc
<1>8. ASSUME NEW k \in Line', k \in DOMAIN EDB' PROVE Jumps(k)'
  <2>1. CASE k \in DOMAIN EDB /\ k # srv.req
    <3>1. Jumps(k) /\ k < srv.req /\ EDB'[k] = EDB[k] /\ k \in Line
      BY <1>4, <1>5, <1>7, <1>8, <2>1 DEF Jumped
    <3>2. Fits(k, EDB[k])' /\ \A i \in Line : Gone(i) => Gone(i)'
      BY <1>7, <3>1 DEF Jumps, Fits, Gone
    <3>3. \A i \in Line : ~Inside(k, i)
      BY <1>1 DEF Inside
    <3>4. \A i \in Line : i < k /\ i \in DOMAIN EDB' => i \in DOMAIN EDB
      BY <1>3, <1>4, <1>5, <3>1
    <3> QED  BY <1>3, <1>6, <1>7, <2>1, <3>1, <3>2, <3>3, <3>4, JumpsKept
  <2>2. CASE k = srv.req
    <3>1. Fits(k, EDB[k])'
      BY <1>2, <1>4, <1>5, <1>7, <2>2 DEF Fits
    <3>2. \A i \in Line' : ~(EDB'[k].prev < i /\ i < k)
      BY <1>2, <1>3, <1>4, <1>5, <1>7, <2>2
    <3>3. EDB'[k].prev \in Line' \cup {End, Nowhere}
      BY <1>2, <1>4, <1>5, <1>7, <2>2
    <3> QED  BY <3>1, <3>2, <3>3 DEF Jumps
  <2> QED  BY <1>5, <1>8, <2>1, <2>2
<1>9. Returning'
  <2> DEFINE at == <<>>
  <2>1. DOMAIN srv'.result = {} /\ at \in [DOMAIN srv'.result -> Line'] /\ DOMAIN at = {}
        /\ srv'.result \in Seq(Ids \cup {0})
    BY <1>1
  <2>2. \A k \in Line' : ~(k > srv'.L1 /\ Op(k)' = "add")
    BY <1>1, <1>3, <1>4, <1>7
  <2>3. Exact(at)'
    BY <2>1, <2>2 DEF Exact
  <2> QED  BY <2>1, <2>3 DEF Returning
<1>10. Carrying'
  <2>1. \A y, x \in Line' : ~(Cancels(y, x)' /\ srv'.L1 < y)
    BY <1>1, <1>3, <1>4, <1>7 DEF Cancels
  <2> QED  BY <1>1, <1>4, <1>7, <2>1 DEF Carrying
<1>11. Lined' /\ Coming' /\ Ended'
  BY <1>1 DEF Lined, Line, LastIn, Op, Doc, Coming, Ended
<1> QED  BY <1>8, <1>9, <1>10, <1>11 DEF Jumped

\* A walk goes astray: every later one that comes from beyond does so too.
LEMMA AstrayAInv == ASSUME IInv, IInv', AInv, GoAstray PROVE AInv'
<1> USE DEF AInv
<1>1. /\ srv.st = "walk" /\ ~(srv.L1 \in DOMAIN EDB /\ EDB[srv.L1].ok) /\ net = <<>>
      /\ UNCHANGED <<pc, LastNode, db, net, EDB, hist>> /\ srv'.st = "astray"
  BY DEF GoAstray, IInv, Alone, Fields
<1>2. Line' = Line /\ hist' = hist /\ \A i : Op(i)' = Op(i) /\ Doc(i)' = Doc(i)
  BY <1>1 DEF Line, Op, Doc
<1>3. /\ \A k \in Line : k \in Nat /\ k >= 1
      /\ \A k \in DOMAIN EDB : k \in Nat /\ EDB[k].prev \in Int
  BY Numbered
<1>4. \A b \in Line : Lost(b) => Lost(b)'
  BY <1>1, <1>2 DEF Lost, Requested
<1>5. /\ srv.Lt \in Line /\ srv.Lt \in DOMAIN EDB /\ EDB[srv.Lt].prev = srv.L1
      /\ srv.L1 \in Line \cup {End, Nowhere} /\ srv.L1 < srv.Lt
  BY <1>1, Numbered DEF Carrying, IInv, Walking
<1>6. ASSUME NEW x \in Line, x <= srv.L1 PROVE srv.L1 \in Line /\ Lost(srv.L1)
  <2>1. srv.L1 \in Line
    BY <1>3, <1>5, <1>6 DEF End, Nowhere
  <2>2. ASSUME NEW k \in Line, k \in DOMAIN EDB, k > srv.L1 PROVE EDB[k].prev >= srv.L1
    <3>1. k \in Int /\ srv.Lt \in Int /\ srv.L1 \in Int /\ EDB[k].prev \in Int
      BY <1>3, <1>5, <2>1, <2>2
    <3>2. ~(srv.L1 < k /\ k < srv.Lt)
      BY <1>5, <2>2 DEF Jumped, Jumps
    <3>3. ~(EDB[k].prev < srv.Lt /\ srv.Lt < k)
      BY <1>5, <2>2 DEF Jumped, Jumps
    <3> QED  BY <1>5, <2>2, <3>1, <3>2, <3>3
  <2>3. srv.L1 \notin Requested
    BY <1>1 DEF Requested
  <2> QED  BY <1>1, <2>1, <2>2, <2>3 DEF Lost
<1>7. ASSUME NEW k \in Line', k \in DOMAIN EDB' PROVE Jumps(k)'
  <2>1. k \in Line /\ k \in DOMAIN EDB /\ Jumps(k) /\ EDB' = EDB
    BY <1>1, <1>2, <1>7 DEF Jumped
  <2>2. Fits(k, EDB[k])' /\ \A i \in Line : Gone(i) => Gone(i)'
    BY <1>1, <1>2, <2>1 DEF Jumps, Fits, Gone
  <2>3. ASSUME NEW i \in Line, Inside(k, i) PROVE Doomed(k)'
    <3>1. srv.L1 \in Line /\ Lost(srv.L1) /\ k >= srv.Lt
      BY <1>6, <2>3 DEF Inside
    <3>2. srv.L1 < k
      BY <1>3, <1>5, <2>1, <3>1
    <3>3. Doomed(k)
      BY <3>1, <3>2 DEF Doomed
    <3> QED  BY <1>2, <1>4, <3>3 DEF Doomed
  <2> QED  BY <1>2, <1>3, <1>4, <2>1, <2>2, <2>3, JumpsKept
<1>8. Lined' /\ Coming' /\ Returning' /\ Carrying' /\ Ended'
  BY <1>1 DEF Lined, Line, LastIn, Op, Doc, Coming, Returning, Carrying, Ended
<1> QED  BY <1>7, <1>8 DEF Jumped

\* A walk ends, and may remove what it kept.
LEMMA EndAInv == ASSUME IInv, IInv', AInv, ServerEnd PROVE AInv'
<1> USE DEF AInv
<1>1. /\ srv.st = "walked" /\ net = <<>> /\ UNCHANGED <<pc, LastNode, db, net, hist>>
      /\ DOMAIN EDB' \subseteq DOMAIN EDB /\ \A k \in DOMAIN EDB' : EDB'[k] = EDB[k]
      /\ \/ srv'.st = "answer" /\ srv'.L1 = srv.L1 /\ srv'.result = srv.result /\ pc = "wait"
         \/ srv'.st = "idle" /\ pc # "wait"
  BY DEF ServerEnd, IInv, Alone, Fields, Idle
<1>2. Line' = Line /\ hist' = hist /\ \A i : Op(i)' = Op(i) /\ Doc(i)' = Doc(i)
  BY <1>1 DEF Line, Op, Doc
<1>3. \A k \in Line : k \in Nat /\ k >= 1
  BY Numbered
<1>4. \A b \in Line : Lost(b) => Lost(b)'
  BY <1>1, <1>2 DEF Lost, Requested
<1>5. \A i \in Line : Gone(i) => Gone(i)'
  BY <1>1, <1>2 DEF Gone
<1>6. ASSUME NEW k \in Line', k \in DOMAIN EDB' PROVE Jumps(k)'
  <2>1. k \in Line /\ k \in DOMAIN EDB /\ Jumps(k) /\ EDB'[k] = EDB[k]
    BY <1>1, <1>2, <1>6 DEF Jumped
  <2>2. Fits(k, EDB[k])'
    BY <1>1, <1>2, <2>1 DEF Jumps, Fits
  <2>3. \A i \in Line : ~Inside(k, i)
    BY <1>1 DEF Inside
  <2> QED  BY <1>1, <1>2, <1>3, <1>4, <1>5, <2>1, <2>2, <2>3, JumpsKept
<1>7. Returning'
  <2>1. CASE srv'.st = "answer" /\ srv'.L1 = srv.L1 /\ srv'.result = srv.result
    <3>1. ~Ahead
      BY <1>1, <1>3 DEF Ahead, Ended, End
    <3>2. \A at : Exact(at) => Exact(at)'
      BY <1>2, <1>5, <2>1, <3>1 DEF Exact, Cancels
    <3> QED  BY <1>1, <1>2, <2>1, <3>2 DEF Returning
  <2>2. CASE srv'.st = "idle"
    BY <2>2 DEF Returning
  <2> QED  BY <1>1, <2>1, <2>2
<1>8. Lined' /\ Coming' /\ Carrying' /\ Ended'
  BY <1>1 DEF Lined, Line, LastIn, Op, Doc, Coming, Carrying, Ended
<1> QED  BY <1>6, <1>7, <1>8 DEF Jumped

\* The client has the answer.
LEMMA SearchEndAInv == ASSUME IInv, IInv', AInv, SearchEnd PROVE AInv'
<1> USE DEF AInv
<1>1. /\ srv.st = "answer" /\ pc = "wait" /\ pc' = "ready" /\ srv'.st = "idle" /\ net = <<>>
      /\ UNCHANGED <<LastNode, db, net, EDB, hist>>
  BY DEF SearchEnd, IInv, Alone, Idle, Ended
<1>2. Jumped'
  BY <1>1 DEF Jumped, Jumps, Fits, Gone, Doomed, Lost, Requested, Inside, Cancels, Line, Op, Doc
<1>3. Lined' /\ Coming' /\ Returning' /\ Carrying' /\ Ended'
  BY <1>1 DEF Lined, Line, LastIn, Op, Doc, Coming, Returning, Carrying, Ended
<1> QED  BY <1>2, <1>3

\* What a walk knows of the line around the node it reads.
LEMMA AtNode ==
  ASSUME IInv, AInv, Reading
  PROVE  /\ srv.L1 \in Line /\ srv.Lt \in Line /\ srv.L1 \in Int /\ srv.Lt \in Int /\ srv.L1 < srv.Lt
         /\ node.prev \in Line \cup {End, Nowhere} /\ node.prev \in Int /\ node.prev < srv.L1
         /\ Jumps(srv.L1) /\ Jumps(srv.Lt) /\ EDB[srv.Lt].prev = srv.L1
         /\ Fits(srv.L1, node) /\ node.key # 0
         /\ \A i \in Line : i \in Int /\ i >= 1
         /\ \A i \in Line : node.prev < i /\ i < srv.L1 => i \notin DOMAIN EDB /\ (Op(i) = "add" => Gone(i))
         /\ \A i \in Line : Lost(i) /\ i <= srv.L1 => i <= node.prev
         /\ \A y, x \in Line : Cancels(y, x) /\ node.prev < y /\ y < srv.L1 /\ x \in DOMAIN EDB => Ahead
         /\ \A i : Carried(i) <=> \E j \in 1..Len(srv.D) : srv.D[j] = <<i, node.key>>
         /\ net = <<>> /\ srv.st = "walk" /\ srv.st # "idle"
<1> USE DEF AInv
<1>1. /\ srv.st = "walk" /\ srv.L1 \in DOMAIN EDB /\ EDB[srv.L1].ok /\ net = <<>>
  BY DEF Reading, IInv, Alone
<1>2. /\ srv.L1 \in Int /\ srv.Lt \in Int /\ srv.L1 < srv.Lt /\ srv.Lt \in DOMAIN EDB
      /\ node.prev \in Int /\ node.prev < srv.L1 /\ node \in Nodes /\ srv.D \in Seq(Tokens)
  BY ReadNode
<1>3. /\ \A k \in Line : k \in Nat /\ k >= 1
      /\ \A k \in DOMAIN EDB : k \in Nat /\ k >= 1 /\ EDB[k].prev \in Int
  BY Numbered
<1>4. srv.L1 \in Line /\ srv.Lt \in Line /\ EDB[srv.Lt].prev = srv.L1
  BY <1>1, <1>3 DEF Carrying, End, Nowhere, IInv, Walking
<1>5. Jumps(srv.L1) /\ Jumps(srv.Lt)
  BY <1>1, <1>2, <1>4 DEF Jumped
<1>6. /\ node.prev \in Line \cup {End, Nowhere} /\ Fits(srv.L1, node)
      /\ \A i \in Line : node.prev < i /\ i < srv.L1 => i \notin DOMAIN EDB /\ (Op(i) = "add" => Gone(i))
  BY <1>5 DEF Jumps, node
<1>7. ASSUME NEW i \in Line, Lost(i), i <= srv.L1 PROVE i <= node.prev
  <2>1. i # srv.L1
    BY <1>1, <1>7 DEF Lost
  <2>2. srv.L1 > i
    BY <1>2, <1>3, <1>7, <2>1
  <2> QED  BY <1>1, <1>2, <1>3, <1>4, <1>7, <2>2 DEF Lost, node
<1>8. ASSUME NEW y \in Line, NEW x \in Line, Cancels(y, x), node.prev < y, y < srv.L1, x \in DOMAIN EDB
      PROVE  Ahead
  <2>1. Doomed(srv.L1) \/ Inside(srv.L1, x)
    BY <1>5, <1>8 DEF Jumps, node
  <2>2. ~Inside(srv.L1, x)
    BY <1>2 DEF Inside
  <2>3. PICK b \in Line : b < srv.L1 /\ Lost(b)
    BY <2>1, <2>2 DEF Doomed
  <2>4. b <= srv.L1
    BY <1>2, <1>3, <2>3
  <2> QED  BY <2>3, <2>4 DEF Ahead
<1>9. node.key # 0
  BY <1>2, RoseAssumption DEF Nodes, Numbers
<1>10. \A i : Carried(i) <=> \E j \in 1..Len(srv.D) : srv.D[j] = <<i, node.key>>
  <2>1. \A k : KeyIs(srv.L1, k) <=> node.key = k
    <3>1. Requested = {} /\ \A j \in 1..Len(net) : FALSE
      BY <1>1 DEF Requested
    <3> QED  BY <1>1, <3>1 DEF KeyIs, node
  <2>2. \A j \in 1..Len(srv.D) : srv.D[j] \in Tokens
    BY <1>2
  <2>3. \A t \in Tokens : t = <<t[1], t[2]>>
    BY DEF Tokens
  <2> QED  BY <2>1, <2>2, <2>3 DEF Carried
<1>11. \A i \in Line : Lost(i) /\ i <= srv.L1 => i <= node.prev
  BY <1>7
<1>12. \A y, x \in Line : Cancels(y, x) /\ node.prev < y /\ y < srv.L1 /\ x \in DOMAIN EDB => Ahead
  BY <1>8
<1>13. \A i \in Line : i \in Int /\ i >= 1
  BY <1>3
<1> QED  BY <1>1, <1>2, <1>4, <1>5, <1>6, <1>9, <1>10, <1>11, <1>12, <1>13

\* A walk goes on from a node: what it carries is enough for the nodes ahead.
LEMMA Passing ==
  ASSUME IInv, AInv, Reading,
         UNCHANGED <<pc, LastNode, db, net, hist>>,
         srv'.L1 = node.prev, srv'.st = (IF node.prev = End THEN "walked" ELSE "walk"),
         srv'.Lt \in {srv.Lt, srv.L1}, DOMAIN EDB' \subseteq DOMAIN EDB,
         \A i \in Line : Lost(i) => Lost(i)',
         \A i : Carried(i) => Carried(i)',
         \A i : i = Doc(srv.L1) /\ (\E x \in Line : Cancels(srv.L1, x)) => Carried(i)',
         \A j \in 1..Len(srv'.D) : srv'.D[j] # NoToken =>
           \E y \in Line : y >= srv.L1 /\ Op(y) = "del" /\ Doc(y) = srv'.D[j][1]
  PROVE  /\ Lined' /\ Coming' /\ Carrying' /\ Ended' /\ Line' = Line /\ hist' = hist
         /\ \A i : Op(i)' = Op(i) /\ Doc(i)' = Doc(i) /\ (Gone(i) => Gone(i)')
         /\ Ahead => Ahead'
<1> USE DEF AInv
<1>1. Line' = Line /\ hist' = hist /\ \A i : Op(i)' = Op(i) /\ Doc(i)' = Doc(i)
  BY DEF Line, Op, Doc
<1>2. \A i : Gone(i) => Gone(i)'
  BY <1>1 DEF Gone
<1>3. Ahead => Ahead'
  BY <1>1, AtNode DEF Ahead
<1>4. ASSUME NEW y \in Line', NEW x \in Line', Cancels(y, x)', x <= srv'.L1, srv'.L1 < y, x \in DOMAIN EDB'
      PROVE  Carried(Doc(y))' \/ Ahead'
  <2>1. y \in Line /\ x \in Line /\ Cancels(y, x) /\ x \in DOMAIN EDB
    BY <1>1, <1>4 DEF Cancels
  <2>2. /\ y \in Int /\ x \in Int /\ srv.L1 \in Int /\ node.prev \in Int /\ node.prev < srv.L1
        /\ x <= node.prev /\ node.prev < y
    BY <1>4, <2>1, AtNode
  <2>3. PICK i : i = Doc(y)
    OBVIOUS
  <2>4. Carried(i)' => Carried(Doc(y))'
    BY <1>1, <2>3 DEF Carried
  <2>5. CASE y > srv.L1
    <3>1. Carried(i) \/ Ahead
      BY <2>1, <2>2, <2>3, <2>5, AtNode DEF Carrying
    <3> QED  BY <1>3, <2>4, <3>1
  <2>6. CASE y = srv.L1
    BY <2>1, <2>3, <2>4, <2>6
  <2>7. CASE y < srv.L1
    BY <1>3, <2>1, <2>2, <2>7, AtNode
  <2> QED  BY <2>2, <2>5, <2>6, <2>7
<1>5. ASSUME NEW j \in 1..Len(srv'.D), srv'.D[j] # NoToken
      PROVE  \E y \in Line' : y > srv'.L1 /\ Op(y)' = "del" /\ Doc(y)' = srv'.D[j][1]
  <2>1. PICK y \in Line : y >= srv.L1 /\ Op(y) = "del" /\ Doc(y) = srv'.D[j][1]
    BY <1>5
  <2>2. y > node.prev
    BY <2>1, AtNode
  <2> QED  BY <1>1, <2>1, <2>2
<1>6. Carrying'
  <2>1. srv'.Lt \in Line' /\ srv'.L1 \in Line' \cup {End, Nowhere}
    BY <1>1, AtNode
  <2> QED  BY <1>4, <1>5, <2>1 DEF Carrying
<1>7. Lined' /\ Coming' /\ Ended'
  <2>1. srv'.st # "request" /\ srv'.st # "answer" /\ (srv'.st = "walked" => srv'.L1 = End)
    OBVIOUS
  <2>2. net' = <<>>
    BY AtNode
  <2> QED  BY <1>1, <2>1, <2>2 DEF Lined, LastIn, Coming, Ended
<1> QED  BY <1>1, <1>2, <1>3, <1>6, <1>7

\* The last node kept is linked past the one removed, which no answer misses.
LEMMA Dropping ==
  ASSUME IInv, IInv', AInv, Reading, NEW x, NEW r \in BOOLEAN, EDB' = Drop(x, r),
         x = EDB[srv.Lt].x \/ EDB[srv.Lt].op # "del",
         UNCHANGED <<pc, LastNode, db, net, hist>>,
         srv'.L1 = node.prev, srv'.st = (IF node.prev = End THEN "walked" ELSE "walk"),
         srv'.Lt = srv.Lt, srv'.result = srv.result,
         Op(srv.L1) = "add" => Gone(srv.L1),
         \A i : Carried(i) => Carried(i)',
         \A i : i = Doc(srv.L1) /\ (\E z \in Line : Cancels(srv.L1, z)) => Carried(i)',
         \A j \in 1..Len(srv'.D) : srv'.D[j] # NoToken =>
           \E y \in Line : y >= srv.L1 /\ Op(y) = "del" /\ Doc(y) = srv'.D[j][1]
  PROVE  AInv'
<1> USE DEF AInv
<1> DEFINE m == node.prev
<1>1. /\ srv.L1 \in Line /\ srv.Lt \in Line /\ srv.L1 \in Int /\ srv.Lt \in Int /\ srv.L1 < srv.Lt
      /\ m \in Line \cup {End, Nowhere} /\ m \in Int /\ m < srv.L1
      /\ Jumps(srv.Lt) /\ EDB[srv.Lt].prev = srv.L1
      /\ \A i \in Line : i \in Int /\ i >= 1
      /\ \A i \in Line : m < i /\ i < srv.L1 => i \notin DOMAIN EDB /\ (Op(i) = "add" => Gone(i))
      /\ \A i \in Line : Lost(i) /\ i <= srv.L1 => i <= m
  BY AtNode
<1>2. /\ srv.L1 \in DOMAIN EDB /\ EDB[srv.L1].ok /\ srv.Lt \in DOMAIN EDB /\ node = EDB[srv.L1]
      /\ \A k \in DOMAIN EDB : k \in Int /\ EDB[k] \in Nodes /\ EDB[k].prev \in Int
  BY ReadNode, Numbered DEF Reading, node
<1>3. /\ DOMAIN EDB' = DOMAIN EDB \ {srv.L1}
      /\ \A k \in DOMAIN EDB' : k # srv.Lt => EDB'[k] = EDB[k]
  BY DEF Drop
<1>4. /\ srv.Lt \in DOMAIN EDB' /\ EDB'[srv.Lt].prev = m /\ EDB'[srv.Lt].op = EDB[srv.Lt].op
      /\ EDB'[srv.Lt].id = EDB[srv.Lt].id /\ EDB'[srv.Lt].x = x
      /\ EDB'[srv.Lt].ok => EDB[srv.Lt].ok
  <2>1. srv.Lt \in DOMAIN EDB \ {srv.L1}
    BY <1>1, <1>2
  <2>2. EDB'[srv.Lt] = [EDB[srv.Lt] EXCEPT !.prev = m, !.x = x, !.ok = @ /\ r]
    BY <2>1 DEF Drop
  <2>3. PICK e \in Nodes : e = EDB[srv.Lt]
    BY <1>2
  <2>4. EDB'[srv.Lt] = [e EXCEPT !.prev = m, !.x = x, !.ok = e.ok /\ r]
    BY <2>2, <2>3
  <2>5. /\ EDB'[srv.Lt].prev = m /\ EDB'[srv.Lt].op = e.op /\ EDB'[srv.Lt].id = e.id
        /\ EDB'[srv.Lt].x = x
    BY <2>4 DEF Nodes
  <2>6. EDB'[srv.Lt].ok = (e.ok /\ r)
    BY <2>4 DEF Nodes
  <2> QED  BY <1>3, <2>1, <2>3, <2>5, <2>6
<1> HIDE DEF m
<1>5. \A b \in Line : Lost(b) => Lost(b)'
  <2> SUFFICES ASSUME NEW b \in Line, Lost(b) PROVE Lost(b)'
    OBVIOUS
  <2>1. b # srv.L1 /\ b \in Int
    BY <1>1, <1>2 DEF Lost
  <2>2. b \in DOMAIN EDB' => ~EDB'[b].ok
    BY <1>3, <1>4 DEF Lost
  <2>3. ASSUME NEW k \in Line, k \in DOMAIN EDB', k > b PROVE EDB'[k].prev >= b
    <3>1. EDB[k].prev >= b /\ k \in DOMAIN EDB
      BY <1>3, <2>3 DEF Lost
    <3>2. CASE k = srv.Lt
      BY <1>1, <1>4, <3>1, <3>2
    <3> QED  BY <1>3, <2>3, <3>1, <3>2
  <2>4. srv'.st # "request" /\ Line' = Line
    BY DEF Line
  <2> QED  BY <2>2, <2>3, <2>4 DEF Lost, Requested
<1>6. /\ Lined' /\ Coming' /\ Carrying' /\ Ended' /\ Line' = Line /\ hist' = hist
      /\ \A i : Op(i)' = Op(i) /\ Doc(i)' = Doc(i) /\ (Gone(i) => Gone(i)')
      /\ Ahead => Ahead'
  BY <1>3, <1>5, Passing
<1>7. \A k \in Line, i \in Line : k >= srv.Lt /\ i <= m => Inside(k, i)'
  BY <1>1 DEF Inside, End, m
<1>8. \A i \in Line : i < srv.Lt /\ i \in DOMAIN EDB' => i <= m
  <2> SUFFICES ASSUME NEW i \in Line, i < srv.Lt, i \in DOMAIN EDB' PROVE i <= m
    OBVIOUS
  <2>1. i \in DOMAIN EDB /\ i # srv.L1 /\ i \in Int
    BY <1>1, <1>3
  <2>2. ~(srv.L1 < i)
    BY <1>1, <2>1 DEF Jumps
  <2> QED  BY <1>1, <2>1, <2>2
<1>9. ASSUME NEW k \in Line', k \in DOMAIN EDB' PROVE Jumps(k)'
  <2>1. CASE k = srv.Lt
    <3>1. Fits(k, EDB[k])'
      BY <1>1, <1>4, <1>6, <2>1 DEF Jumps, Fits
    <3>2. ASSUME NEW i \in Line', m < i, i < k PROVE i \notin DOMAIN EDB' /\ (Op(i)' = "add" => Gone(i)')
      <4>1. i \notin DOMAIN EDB'
        BY <1>1, <1>6, <1>8, <2>1, <3>2
      <4>2. Op(i) = "add" => Gone(i)
        <5>1. CASE i < srv.L1
          BY <1>1, <1>6, <3>2, <5>1
        <5>2. CASE srv.L1 < i
          BY <1>1, <1>6, <2>1, <3>2, <5>2 DEF Jumps
        <5> QED  BY <1>1, <1>6, <3>2, <5>1, <5>2
      <4> QED  BY <1>6, <4>1, <4>2
    <3>3. ASSUME NEW y \in Line', NEW z \in Line', Cancels(y, z)', y < k, z \in DOMAIN EDB'
          PROVE  Inside(k, z)'
      <4>1. y \in Line /\ z \in Line /\ z < srv.Lt
        BY <1>1, <1>6, <2>1, <3>3 DEF Cancels
      <4> QED  BY <1>1, <1>7, <1>8, <2>1, <3>3, <4>1
    <3>4. EDB'[k].prev = m /\ m \in Line' \cup {End, Nowhere}
      BY <1>1, <1>4, <1>6, <2>1
    <3> QED  BY <3>1, <3>2, <3>3, <3>4 DEF Jumps
  <2>2. CASE k # srv.Lt
    <3>1. k \in Line /\ k \in DOMAIN EDB /\ Jumps(k) /\ EDB'[k] = EDB[k]
      BY <1>3, <1>6, <1>9, <2>2 DEF Jumped
    <3>2. Fits(k, EDB[k])'
      BY <1>6, <3>1 DEF Jumps, Fits
    <3>3. ASSUME NEW i \in Line, Inside(k, i), i \in DOMAIN EDB' PROVE Inside(k, i)'
      <4>1. k >= srv.Lt /\ i <= srv.L1
        BY <3>3 DEF Inside
      <4>2. i <= m
        BY <1>1, <1>8, <3>3, <4>1
      <4> QED  BY <1>7, <3>1, <4>1, <4>2
    <3>4. \A i \in Line : i \in DOMAIN EDB' => i \in DOMAIN EDB
      BY <1>3
    <3> QED  BY <1>1, <1>5, <1>6, <3>1, <3>2, <3>3, <3>4, JumpsKept
  <2> QED  BY <2>1, <2>2
<1>10. Returning'
  <2>1. srv.result \in Seq(Ids \cup {0}) /\ \E at \in [DOMAIN srv.result -> Line] : Exact(at)
    BY AtNode DEF Returning
  <2>2. ASSUME NEW at \in [DOMAIN srv.result -> Line], Exact(at) PROVE Exact(at)'
    <3>1. \A j \in DOMAIN at : at[j] > m
      <4> TAKE j \in DOMAIN at
      <4>1. at[j] > srv.L1 /\ at[j] \in Int
        BY <1>1, <2>2 DEF Exact
      <4> QED  BY <1>1, <4>1
    <3>2. ASSUME NEW k \in Line', k > m, Op(k)' = "add" PROVE Gone(k)' \/ \E j \in DOMAIN at : at[j] = k
      <4>1. CASE k > srv.L1
        BY <1>6, <2>2, <3>2, <4>1 DEF Exact
      <4>2. CASE k = srv.L1
        BY <1>6, <3>2, <4>2
      <4>3. CASE k < srv.L1
        BY <1>1, <1>6, <3>2, <4>3
      <4> QED  BY <1>1, <1>6, <4>1, <4>2, <4>3
    <3>3. \A j \in DOMAIN at : /\ Op(at[j])' = "add" /\ Doc(at[j])' = srv'.result[j]
                               /\ Ahead' \/ \A y \in Line' : ~Cancels(y, at[j])'
      BY <1>6, <2>2 DEF Exact, Cancels
    <3>4. srv'.L1 = m
      BY DEF m
    <3>5. \A j, k \in DOMAIN at : j < k => at[j] > at[k]
      BY <2>2 DEF Exact
    <3> QED  BY <3>1, <3>2, <3>3, <3>4, <3>5 DEF Exact
  <2> QED  BY <1>6, <2>1, <2>2 DEF Returning
<1> QED  BY <1>6, <1>9, <1>10 DEF Jumped

\* A token under the key of the next node is carried there.
LEMMA Onward ==
  ASSUME IInv, Reading, net' = net, srv'.st # "request", srv'.L1 = node.prev,
         DOMAIN EDB' \subseteq DOMAIN EDB, \A n \in DOMAIN EDB' : EDB'[n].key = EDB[n].key
  PROVE  \A i : (\E j \in 1..Len(srv'.D) : srv'.D[j] = <<i, Older(node)>>) => Carried(i)'
<1>1. PICK p, k : p = node.prev /\ k = Older(node)
  OBVIOUS
<1>2. KeyIs(p, k)
  BY <1>1, ReadNode
<1>3. KeyIs(p, k)'
  BY <1>2, SteadyStore DEF Steady
<1>4. KeyIs(srv.L1, k)'
  BY <1>1, <1>3 DEF KeyIs
<1>5. \A t : t = k => (KeyIs(srv.L1, t)' <=> KeyIs(srv.L1, k)')
  OBVIOUS
<1>6. ASSUME NEW i, NEW j \in 1..Len(srv'.D), srv'.D[j] = <<i, k>> PROVE Carried(i)'
  <2>1. srv'.D[j][1] = i /\ srv'.D[j][2] = k
    BY <1>6
  <2>2. KeyIs(srv.L1, srv.D[j][2])'
    BY <1>4, <2>1 DEF KeyIs
  <2> QED  BY <2>1, <2>2 DEF Carried
<1> QED  BY <1>1, <1>6

\* A deletion is removed, and its token carried to what it cancels.
LEMMA VisitDelAInv == ASSUME IInv, IInv', AInv, VisitDel PROVE AInv'
<1> USE DEF AInv
<1>1. /\ Reading /\ node.op = "del" /\ UNCHANGED <<pc, LastNode, db, net, hist>>
      /\ srv'.L1 = node.prev /\ srv'.st = (IF node.prev = End THEN "walked" ELSE "walk")
      /\ srv'.Lt = srv.Lt /\ srv'.result = srv.result /\ srv'.D = Append(srv.D, node.x)
  BY DEF VisitDel, Advance, IInv, Fields
<1>2. PICK r \in BOOLEAN : EDB' = Drop(EDB[srv.Lt].x, r)
  BY ReadableIsBoolean DEF VisitDel
<1>3. /\ srv.L1 \in Line /\ Fits(srv.L1, node) /\ node.key # 0 /\ \A i \in Line : i \in Int
      /\ \A i : Carried(i) <=> \E j \in 1..Len(srv.D) : srv.D[j] = <<i, node.key>>
  BY <1>1, AtNode
<1>4. /\ node \in Nodes /\ Tokened(node) /\ KeyIs(node.prev, node.key) /\ srv.D \in Seq(Tokens)
      /\ node.x \in Tokens
  BY <1>1, ReadNode DEF Nodes, Older, Tokens
<1>5. /\ Len(srv'.D) = Len(srv.D) + 1 /\ srv'.D[Len(srv.D) + 1] = node.x /\ Len(srv.D) \in Nat
      /\ \A j \in 1..Len(srv.D) : srv'.D[j] = srv.D[j]
  BY <1>1, <1>4
<1>6. \A i : (\E j \in 1..Len(srv'.D) : srv'.D[j] = <<i, node.key>>) => Carried(i)'
  <2>1. /\ DOMAIN EDB' \subseteq DOMAIN EDB /\ \A n \in DOMAIN EDB' : EDB'[n].key = EDB[n].key
    BY <1>2, ReadNode, Numbered, <1>1 DEF Drop, Nodes
  <2> QED  BY <1>1, <2>1, Onward DEF Older
<1>7. \A i : Carried(i) => Carried(i)'
  <2>1. \A j \in 1..Len(srv.D) : j \in 1..Len(srv'.D)
    BY <1>5
  <2> QED  BY <1>3, <1>5, <1>6, <2>1
<1>8. \A i : i = Doc(srv.L1) /\ (\E z \in Line : Cancels(srv.L1, z)) => Carried(i)'
  <2>1. (\E z \in Line : Cancels(srv.L1, z)) => node.x # NoToken /\ node.x[1] = Doc(srv.L1)
    BY <1>1, <1>3 DEF Fits, Cancels
  <2>2. node.x # NoToken => node.x = <<node.x[1], node.key>>
    BY <1>1, <1>4 DEF Tokened, Tokens
  <2> QED  BY <1>5, <1>6, <2>1, <2>2
<1>9. \A j \in 1..Len(srv'.D) : srv'.D[j] # NoToken =>
        \E y \in Line : y >= srv.L1 /\ Op(y) = "del" /\ Doc(y) = srv'.D[j][1]
  <2> SUFFICES ASSUME NEW j \in 1..Len(srv'.D), srv'.D[j] # NoToken
               PROVE  \E y \in Line : y >= srv.L1 /\ Op(y) = "del" /\ Doc(y) = srv'.D[j][1]
    OBVIOUS
  <2>1. CASE j = Len(srv.D) + 1
    <3>1. Op(srv.L1) = "del" /\ Doc(srv.L1) = srv'.D[j][1]
      BY <1>1, <1>3, <1>5, <2>1 DEF Fits
    <3> QED  BY <1>3, <3>1
  <2>2. CASE j \in 1..Len(srv.D)
    <3>1. PICK y \in Line : y > srv.L1 /\ Op(y) = "del" /\ Doc(y) = srv.D[j][1]
      BY <1>1, <1>5, <2>2 DEF Carrying, Reading
    <3> QED  BY <1>3, <1>5, <2>2, <3>1
  <2> QED  BY <1>5, <2>1, <2>2
<1>10. Op(srv.L1) # "add"
  BY <1>1, <1>3 DEF Fits
<1> QED  BY <1>1, <1>2, <1>7, <1>8, <1>9, <1>10, Dropping

\* The tokens a search's node leads to the older key.
LEMMA SteppedTokens ==
  ASSUME IInv, AInv, Reading, node.op = "srh", net' = net, srv'.st # "request",
         srv'.L1 = node.prev, srv'.D = StepTokens(srv.D),
         DOMAIN EDB' \subseteq DOMAIN EDB, \A n \in DOMAIN EDB' : EDB'[n].key = EDB[n].key
  PROVE  /\ \A i : Carried(i) => Carried(i)'
         /\ \A j \in 1..Len(srv'.D) : srv'.D[j] # NoToken =>
              \E y \in Line : y >= srv.L1 /\ Op(y) = "del" /\ Doc(y) = srv'.D[j][1]
<1> USE DEF AInv
<1>1. /\ srv.D \in Seq(Tokens) /\ node.x[1] = node.key /\ Older(node) = node.x[2]
      /\ \A j \in 1..Len(srv.D) : srv.D[j] = NoToken \/ srv.D[j][2] = node.key
  BY ReadNode DEF Tokened, Older
<1>2. /\ srv.L1 \in Int /\ node.key # 0 /\ \A i \in Line : i \in Int
      /\ \A i : Carried(i) <=> \E j \in 1..Len(srv.D) : srv.D[j] = <<i, node.key>>
  BY AtNode
<1>3. /\ DOMAIN srv'.D = 1..Len(srv.D) /\ Len(srv'.D) = Len(srv.D)
      /\ \A j \in 1..Len(srv.D) :
           srv'.D[j] = IF srv.D[j][2] = node.x[1] THEN <<srv.D[j][1], node.x[2]>> ELSE NoToken
  <2>1. DOMAIN srv.D = 1..Len(srv.D) /\ Len(srv.D) \in Nat
    BY <1>1
  <2>2. DOMAIN srv'.D = 1..Len(srv.D)
    BY <2>1 DEF StepTokens
  <2>3. Len(srv'.D) = Len(srv.D)
    BY <2>1, <2>2, LenProperties, <1>1 DEF StepTokens
  <2> QED  BY <2>1, <2>2, <2>3 DEF StepTokens
<1>4. ASSUME NEW j \in 1..Len(srv.D)
      PROVE  srv'.D[j] = IF srv.D[j] = NoToken THEN NoToken ELSE <<srv.D[j][1], Older(node)>>
  <2>1. CASE srv.D[j] = NoToken
    <3>1. srv.D[j][2] = 0
      BY <2>1 DEF NoToken
    <3>2. srv.D[j][2] # node.x[1]
      BY <1>1, <1>2, <3>1
    <3> QED  BY <1>3, <2>1, <3>2
  <2>2. CASE srv.D[j] # NoToken
    <3>1. srv.D[j][2] = node.x[1]
      BY <1>1, <2>2
    <3> QED  BY <1>1, <1>3, <2>2, <3>1
  <2> QED  BY <2>1, <2>2
<1>5. ASSUME NEW i, Carried(i) PROVE Carried(i)'
  <2>1. PICK j \in 1..Len(srv.D) : srv.D[j] = <<i, node.key>>
    BY <1>2, <1>5
  <2>2. srv.D[j] # NoToken /\ srv.D[j][1] = i
    BY <1>2, <2>1 DEF NoToken
  <2>3. srv'.D[j] = <<i, Older(node)>>
    BY <1>4, <2>2
  <2> QED  BY <1>3, <2>3, Onward
<1>6. ASSUME NEW j \in 1..Len(srv'.D), srv'.D[j] # NoToken
      PROVE  \E y \in Line : y >= srv.L1 /\ Op(y) = "del" /\ Doc(y) = srv'.D[j][1]
  <2>1. j \in 1..Len(srv.D)
    BY <1>3
  <2>2. srv.D[j] # NoToken
    BY <1>4, <1>6, <2>1
  <2>3. srv'.D[j] = <<srv.D[j][1], Older(node)>>
    BY <1>4, <2>1, <2>2
  <2>4. PICK y \in Line : y > srv.L1 /\ Op(y) = "del" /\ Doc(y) = srv.D[j][1]
    BY <2>1, <2>2 DEF Carrying, Reading
  <2>5. srv'.D[j][1] = srv.D[j][1]
    BY <2>3
  <2> QED  BY <1>2, <2>4, <2>5
<1> QED  BY <1>5, <1>6

\* A cancelled addition is removed.
LEMMA VisitCancelledAInv == ASSUME IInv, IInv', AInv, VisitCancelled PROVE AInv'
<1> USE DEF AInv
<1>1. /\ Reading /\ node.op = "add" /\ Cancelled /\ UNCHANGED <<pc, LastNode, db, net, hist>>
      /\ srv'.L1 = node.prev /\ srv'.st = (IF node.prev = End THEN "walked" ELSE "walk")
      /\ srv'.Lt = srv.Lt /\ srv'.result = srv.result /\ srv'.D = srv.D
  BY DEF VisitCancelled, Advance, IInv, Fields
<1>2. PICK r \in BOOLEAN : EDB' = Drop(EDB[srv.Lt].x, r)
  BY ReadableIsBoolean DEF VisitCancelled
<1>3. /\ srv.L1 \in Line /\ Fits(srv.L1, node) /\ node.key # 0 /\ \A i \in Line : i \in Int
      /\ \A i : Carried(i) <=> \E j \in 1..Len(srv.D) : srv.D[j] = <<i, node.key>>
  BY <1>1, AtNode
<1>4. \A j \in 1..Len(srv.D) : srv.D[j] # NoToken =>
        \E y \in Line : y > srv.L1 /\ Op(y) = "del" /\ Doc(y) = srv.D[j][1]
  BY <1>1 DEF Carrying, Reading
<1>5. \A i : Carried(i) => Carried(i)'
  <2>1. /\ DOMAIN EDB' \subseteq DOMAIN EDB /\ \A n \in DOMAIN EDB' : EDB'[n].key = EDB[n].key
    BY <1>1, <1>2, ReadNode, Numbered DEF Drop, Nodes
  <2>2. srv'.st # "request"
    BY <1>1
  <2> QED  BY <1>1, <1>3, <2>1, <2>2, Onward DEF Older
<1>6. Gone(srv.L1)
  <2>1. PICK j \in 1..Len(srv.D) : srv.D[j] = <<node.id, node.key>>
    <3>1. DOMAIN srv.D = 1..Len(srv.D)
      BY <1>1, ReadNode
    <3> QED  BY <1>1, <3>1 DEF Cancelled
  <2>2. srv.D[j] # NoToken /\ srv.D[j][1] = Doc(srv.L1)
    BY <1>3, <2>1 DEF NoToken, Fits
  <2> QED  BY <1>4, <2>2 DEF Gone
<1>7. \A i : i = Doc(srv.L1) /\ (\E z \in Line : Cancels(srv.L1, z)) => Carried(i)'
  BY <1>1, <1>3 DEF Fits, Cancels
<1>8. \A j \in 1..Len(srv'.D) : srv'.D[j] # NoToken =>
        \E y \in Line : y >= srv.L1 /\ Op(y) = "del" /\ Doc(y) = srv'.D[j][1]
  BY <1>1, <1>3, <1>4
<1> QED  BY <1>1, <1>2, <1>5, <1>6, <1>7, <1>8, Dropping

\* A second search's node is merged into the first.
LEMMA VisitMergedAInv == ASSUME IInv, IInv', AInv, VisitMerged PROVE AInv'
<1> USE DEF AInv
<1>1. /\ Reading /\ node.op = "srh" /\ srv.opt = "srh" /\ UNCHANGED <<pc, LastNode, db, net, hist>>
      /\ srv'.L1 = node.prev /\ srv'.st = (IF node.prev = End THEN "walked" ELSE "walk")
      /\ srv'.Lt = srv.Lt /\ srv'.result = srv.result /\ srv'.D = StepTokens(srv.D)
  BY DEF VisitMerged, Advance, IInv, Fields
<1>2. PICK r \in BOOLEAN : EDB' = Drop(Mul(srv.Delta, node.x), r)
  BY ReadableIsBoolean DEF VisitMerged
<1>3. EDB[srv.Lt].op # "del"
  BY <1>1 DEF IInv, Walking, Reading
<1>4. Fits(srv.L1, node) /\ srv.L1 \in Line
  BY <1>1, AtNode
<1>5. /\ \A i : Carried(i) => Carried(i)'
      /\ \A j \in 1..Len(srv'.D) : srv'.D[j] # NoToken =>
           \E y \in Line : y >= srv.L1 /\ Op(y) = "del" /\ Doc(y) = srv'.D[j][1]
  <2>1. /\ DOMAIN EDB' \subseteq DOMAIN EDB /\ \A n \in DOMAIN EDB' : EDB'[n].key = EDB[n].key
    BY <1>1, <1>2, ReadNode, Numbered DEF Drop, Nodes
  <2>2. srv'.st # "request"
    BY <1>1
  <2> QED  BY <1>1, <2>1, <2>2, SteppedTokens
<1>6. Op(srv.L1) # "add" /\ \A i : i = Doc(srv.L1) /\ (\E z \in Line : Cancels(srv.L1, z)) => Carried(i)'
  BY <1>1, <1>4 DEF Fits, Cancels
<1> QED  BY <1>1, <1>2, <1>3, <1>5, <1>6, Dropping

\* A node is kept: no deletion cancels it, or no walk from beyond comes this far.
LEMMA Keeping ==
  ASSUME IInv, IInv', AInv, Reading, EDB' = EDB,
         UNCHANGED <<pc, LastNode, db, net, hist>>,
         srv'.L1 = node.prev, srv'.st = (IF node.prev = End THEN "walked" ELSE "walk"),
         srv'.Lt = srv.L1, node.op # "del", node.op = "add" => ~Cancelled,
         srv'.result = IF node.op = "add" THEN Append(srv.result, node.id) ELSE srv.result,
         \A i : Carried(i) => Carried(i)',
         \A j \in 1..Len(srv'.D) : srv'.D[j] # NoToken =>
           \E y \in Line : y >= srv.L1 /\ Op(y) = "del" /\ Doc(y) = srv'.D[j][1]
  PROVE  AInv'
<1> USE DEF AInv
<1> DEFINE m == node.prev
<1>1. /\ srv.L1 \in Line /\ srv.Lt \in Line /\ srv.L1 \in Int /\ srv.Lt \in Int /\ srv.L1 < srv.Lt
      /\ m \in Line \cup {End, Nowhere} /\ m \in Int /\ m < srv.L1
      /\ Fits(srv.L1, node)
      /\ \A i \in Line : i \in Int /\ i >= 1
      /\ \A i \in Line : m < i /\ i < srv.L1 => i \notin DOMAIN EDB /\ (Op(i) = "add" => Gone(i))
      /\ \A i \in Line : Lost(i) /\ i <= srv.L1 => i <= m
  BY AtNode
<1> HIDE DEF m
<1>2. Line' = Line /\ hist' = hist
  BY DEF Line
<1>3. \A b \in Line : Lost(b) => Lost(b)'
  <2>1. srv'.st # "request"
    OBVIOUS
  <2> QED  BY <1>2, <2>1 DEF Lost, Requested
<1>4. /\ Lined' /\ Coming' /\ Carrying' /\ Ended'
      /\ \A i : Op(i)' = Op(i) /\ Doc(i)' = Doc(i) /\ (Gone(i) => Gone(i)')
      /\ Ahead => Ahead'
  <2>1. ~(\E z \in Line : Cancels(srv.L1, z))
    BY <1>1 DEF Fits, Cancels
  <2> QED  BY <1>3, <2>1, Passing
<1>5. ASSUME NEW y \in Line, Cancels(y, srv.L1) PROVE Ahead
  <2>1. Carried(Doc(y)) \/ Ahead
    BY <1>1, <1>5 DEF Carrying, Reading, Cancels
  <2>2. ASSUME Carried(Doc(y)) PROVE FALSE
    <3>1. PICK j \in 1..Len(srv.D) : srv.D[j] = <<Doc(y), node.key>>
      BY <2>2, AtNode
    <3>2. node.op = "add" /\ node.id = Doc(y)
      BY <1>1, <1>5 DEF Fits, Cancels
    <3>3. DOMAIN srv.D = 1..Len(srv.D)
      BY ReadNode
    <3> QED  BY <3>1, <3>2, <3>3 DEF Cancelled
  <2> QED  BY <2>1, <2>2
<1>6. Ahead => \E b \in Line : b < srv.L1 /\ Lost(b)
  <2> SUFFICES ASSUME NEW b \in Line, b <= srv.L1, Lost(b) PROVE b < srv.L1
    BY DEF Ahead
  <2> QED  BY <1>1
<1>7. ASSUME NEW k \in Line', k \in DOMAIN EDB' PROVE Jumps(k)'
  <2>1. k \in Line /\ k \in DOMAIN EDB /\ Jumps(k) /\ k \in Int
    BY <1>1, <1>2, <1>7 DEF Jumped
  <2>2. Fits(k, EDB[k])' /\ EDB[k].prev \in Line' \cup {End, Nowhere}
    BY <1>2, <1>4, <2>1 DEF Jumps, Fits
  <2>3. \A i \in Line' : EDB[k].prev < i /\ i < k => i \notin DOMAIN EDB /\ (Op(i)' = "add" => Gone(i)')
    BY <1>2, <1>4, <2>1 DEF Jumps
  <2>4. ASSUME NEW y \in Line', NEW z \in Line', Cancels(y, z)', EDB[k].prev < y, y < k, z \in DOMAIN EDB
        PROVE  Doomed(k)' \/ Inside(k, z)'
    <3>1. y \in Line /\ z \in Line /\ Cancels(y, z)
      BY <1>2, <1>4, <2>4 DEF Cancels
    <3>2. Doomed(k) \/ Inside(k, z)
      BY <2>1, <2>4, <3>1 DEF Jumps
    <3>3. Doomed(k) => Doomed(k)'
      BY <1>2, <1>3 DEF Doomed
    <3>4. ASSUME Inside(k, z) PROVE Doomed(k) \/ Inside(k, z)'
      <4>1. k >= srv.Lt /\ z <= srv.L1 /\ z \in Int
        BY <1>1, <3>1, <3>4 DEF Inside
      <4>2. CASE z = srv.L1
        <5>1. PICK b \in Line : b < srv.L1 /\ Lost(b)
          BY <1>5, <1>6, <3>1, <4>2
        <5>2. b < k
          BY <1>1, <2>1, <4>1, <5>1
        <5> QED  BY <5>1, <5>2 DEF Doomed
      <4>3. CASE z # srv.L1
        <5>1. z <= m
          BY <1>1, <2>4, <3>1, <4>1, <4>3
        <5>2. m # End /\ k >= srv.L1
          BY <1>1, <2>1, <3>1, <4>1, <5>1 DEF End
        <5>3. srv'.st = "walk" /\ srv'.L1 = m /\ srv'.Lt = srv.L1
          BY <5>2 DEF m
        <5> QED  BY <5>1, <5>2, <5>3 DEF Inside
      <4> QED  BY <4>2, <4>3
    <3> QED  BY <3>2, <3>3, <3>4
  <2> QED  BY <2>2, <2>3, <2>4 DEF Jumps
<1>8. PICK at \in [DOMAIN srv.result -> Line] : srv.result \in Seq(Ids \cup {0}) /\ Exact(at)
  BY DEF Reading, Returning
<1>9. \A j \in DOMAIN at : at[j] > m
  <2> TAKE j \in DOMAIN at
  <2>1. at[j] > srv.L1 /\ at[j] \in Int
    BY <1>1, <1>8 DEF Exact
  <2> QED  BY <1>1, <2>1
<1>10. \A i \in Line : m < i /\ i < srv.L1 /\ Op(i) = "add" => Gone(i)
  BY <1>1
<1>11. CASE node.op # "add"
  <2>1. ASSUME NEW k \in Line', k > m, Op(k)' = "add" PROVE Gone(k)' \/ \E j \in DOMAIN at : at[j] = k
    <3>1. k # srv.L1 /\ k \in Line /\ k \in Int
      BY <1>1, <1>2, <1>4, <1>11, <2>1 DEF Fits
    <3>2. CASE k > srv.L1
      BY <1>4, <1>8, <2>1, <3>1, <3>2 DEF Exact
    <3>3. CASE k < srv.L1
      BY <1>4, <1>10, <2>1, <3>1, <3>3
    <3> QED  BY <1>1, <3>1, <3>2, <3>3
  <2>2. \A j \in DOMAIN at : /\ Op(at[j])' = "add" /\ Doc(at[j])' = srv'.result[j]
                             /\ Ahead' \/ \A y \in Line' : ~Cancels(y, at[j])'
    BY <1>2, <1>4, <1>8, <1>11 DEF Exact, Cancels
  <2>3. srv'.L1 = m /\ srv'.result = srv.result
    BY <1>11 DEF m
  <2>4. Exact(at)'
    <3>1. \A j, k \in DOMAIN at : j < k => at[j] > at[k]
      BY <1>8 DEF Exact
    <3> QED  BY <1>9, <2>1, <2>2, <2>3, <3>1 DEF Exact
  <2>5. Returning'
    BY <1>2, <1>8, <2>3, <2>4 DEF Returning
  <2> QED  BY <1>4, <1>7, <2>5 DEF Jumped
<1>12. CASE node.op = "add"
  <2>1. PICK N \in Nat : /\ N = Len(srv.result) /\ DOMAIN srv.result = 1..N /\ DOMAIN at = 1..N
                         /\ srv'.result = Append(srv.result, node.id)
    BY <1>8, <1>12
  <2>2. node.id \in Ids \cup {0}
    BY ReadNode DEF Nodes
  <2>3. /\ srv'.result \in Seq(Ids \cup {0}) /\ DOMAIN srv'.result = 1..N + 1
        /\ \A j \in 1..N + 1 : srv'.result[j] = IF j = N + 1 THEN node.id ELSE srv.result[j]
    BY <1>8, <2>1, <2>2
  <2>4. PICK more \in [1..N + 1 -> Line] :
          /\ DOMAIN more = 1..N + 1 /\ more[N + 1] = srv.L1
          /\ \A j \in 1..N : more[j] = at[j] /\ j \in 1..N + 1
    <3> DEFINE f == [j \in 1..N + 1 |-> IF j = N + 1 THEN srv.L1 ELSE at[j]]
    <3>1. f \in [1..N + 1 -> Line] /\ \A j \in 1..N : f[j] = at[j] /\ j \in 1..N + 1
      BY <1>1, <1>8, <2>1
    <3>2. N + 1 \in 1..N + 1 /\ f[N + 1] = srv.L1
      BY <2>1
    <3> HIDE DEF f
    <3> QED  BY <3>1, <3>2
  <2>5. \A j, k \in DOMAIN more : j < k => more[j] > more[k]
    <3> SUFFICES ASSUME NEW j \in 1..N + 1, NEW k \in 1..N + 1, j < k PROVE more[j] > more[k]
      BY <2>4
    <3>1. j \in 1..N
      BY <2>1
    <3>2. CASE k = N + 1
      BY <1>8, <2>1, <2>4, <3>1, <3>2 DEF Exact
    <3>3. CASE k \in 1..N
      BY <1>8, <2>1, <2>4, <3>1, <3>3 DEF Exact
    <3> QED  BY <2>1, <3>2, <3>3
  <2>6. ASSUME NEW j \in 1..N + 1
        PROVE  /\ more[j] > m /\ Op(more[j])' = "add" /\ Doc(more[j])' = srv'.result[j]
               /\ Ahead' \/ \A y \in Line' : ~Cancels(y, more[j])'
    <3>1. CASE j = N + 1
      <4>1. more[j] = srv.L1 /\ srv'.result[j] = node.id /\ Op(srv.L1) = "add" /\ Doc(srv.L1) = node.id
        BY <1>1, <1>12, <2>3, <2>4, <3>1 DEF Fits
      <4>2. Ahead' \/ \A y \in Line' : ~Cancels(y, more[j])'
        BY <1>2, <1>4, <1>5, <4>1 DEF Cancels
      <4> QED  BY <1>1, <1>4, <4>1, <4>2
    <3>2. CASE j \in 1..N
      <4>1. more[j] = at[j] /\ srv'.result[j] = srv.result[j] /\ j \in DOMAIN at
        BY <2>1, <2>3, <2>4, <3>2
      <4>2. /\ Op(at[j]) = "add" /\ Doc(at[j]) = srv.result[j]
            /\ Ahead \/ \A y \in Line : ~Cancels(y, at[j])
        BY <1>8, <4>1 DEF Exact
      <4>3. Ahead' \/ \A y \in Line' : ~Cancels(y, more[j])'
        BY <1>2, <1>4, <4>1, <4>2 DEF Cancels
      <4> QED  BY <1>4, <1>9, <4>1, <4>2, <4>3
    <3> QED  BY <2>1, <3>1, <3>2
  <2>7. ASSUME NEW k \in Line', k > m, Op(k)' = "add" PROVE Gone(k)' \/ \E j \in DOMAIN more : more[j] = k
    <3>1. k \in Line /\ k \in Int
      BY <1>1, <1>2
    <3>2. CASE k > srv.L1
      <4>1. Gone(k) \/ \E j \in DOMAIN at : at[j] = k
        BY <1>4, <1>8, <2>7, <3>1, <3>2 DEF Exact
      <4> QED  BY <1>4, <2>1, <2>4, <4>1
    <3>3. CASE k = srv.L1
      BY <2>1, <2>4, <3>3
    <3>4. CASE k < srv.L1
      BY <1>4, <1>10, <2>7, <3>1, <3>4
    <3> QED  BY <1>1, <3>1, <3>2, <3>3, <3>4
  <2>8. Exact(more)'
    <3>1. srv'.L1 = m
      BY DEF m
    <3> QED  BY <2>4, <2>5, <2>6, <2>7, <3>1 DEF Exact
  <2>9. Returning'
    BY <1>2, <2>3, <2>4, <2>8 DEF Returning
  <2> QED  BY <1>4, <1>7, <2>9 DEF Jumped
<1> QED  BY <1>11, <1>12

LEMMA VisitAddAInv == ASSUME IInv, IInv', AInv, VisitAdd PROVE AInv'
<1> USE DEF AInv
<1>1. /\ Reading /\ node.op = "add" /\ ~Cancelled /\ UNCHANGED <<pc, LastNode, db, net, EDB, hist>>
      /\ srv'.L1 = node.prev /\ srv'.st = (IF node.prev = End THEN "walked" ELSE "walk")
      /\ srv'.Lt = srv.L1 /\ srv'.result = Append(srv.result, node.id) /\ srv'.D = srv.D
  BY DEF VisitAdd, Advance, IInv, Fields
<1>2. /\ \A i : Carried(i) <=> \E j \in 1..Len(srv.D) : srv.D[j] = <<i, node.key>>
      /\ \A i \in Line : i \in Int
      /\ srv.L1 \in Int
  BY <1>1, AtNode
<1>3. \A i : Carried(i) => Carried(i)'
  <2>1. srv'.st # "request"
    BY <1>1
  <2> QED  BY <1>1, <1>2, <2>1, Onward DEF Older
<1>4. \A j \in 1..Len(srv'.D) : srv'.D[j] # NoToken =>
        \E y \in Line : y >= srv.L1 /\ Op(y) = "del" /\ Doc(y) = srv'.D[j][1]
  BY <1>1, <1>2 DEF Carrying, Reading
<1> QED  BY <1>1, <1>3, <1>4, Keeping

LEMMA VisitSearchAInv == ASSUME IInv, IInv', AInv, VisitSearch PROVE AInv'
<1> USE DEF AInv
<1>1. /\ Reading /\ node.op = "srh" /\ UNCHANGED <<pc, LastNode, db, net, EDB, hist>>
      /\ srv'.L1 = node.prev /\ srv'.st = (IF node.prev = End THEN "walked" ELSE "walk")
      /\ srv'.Lt = srv.L1 /\ srv'.result = srv.result /\ srv'.D = StepTokens(srv.D)
  BY DEF VisitSearch, Advance, IInv, Fields
<1>2. /\ \A i : Carried(i) => Carried(i)'
      /\ \A j \in 1..Len(srv'.D) : srv'.D[j] # NoToken =>
           \E y \in Line : y >= srv.L1 /\ Op(y) = "del" /\ Doc(y) = srv'.D[j][1]
  <2>1. srv'.st # "request"
    BY <1>1
  <2> QED  BY <1>1, <2>1, SteppedTokens
<1> QED  BY <1>1, <1>2, Keeping

LEMMA InitAInv == Init => AInv
<1> SUFFICES ASSUME Init PROVE AInv
  OBVIOUS
<1> USE DEF Init
<1>1. Line = {} /\ hist.saved = <<>> /\ DOMAIN hist.saved = {} /\ EDB = <<>> /\ DOMAIN EDB = {}
      /\ net = <<>> /\ srv.st = "idle" /\ pc = "off" /\ db.n = Nowhere /\ hist.n = 0
  BY DEF Line, Idle, Unknown
<1>2. Lined
  BY <1>1 DEF Lined, LastIn
<1>3. Coming /\ Jumped
  BY <1>1 DEF Coming, Jumped
<1>4. Returning /\ Carrying /\ Ended
  BY <1>1 DEF Returning, Carrying, Ended
<1> QED  BY <1>2, <1>3, <1>4 DEF AInv

LEMMA NextAInv == IInv /\ IInv' /\ AInv /\ [Next]_vars => AInv'
<1> SUFFICES ASSUME IInv, IInv', AInv, [Next]_vars PROVE AInv'
  OBVIOUS
<1>1. CASE Client
  <2>1. CASE Start
    BY <2>1, StartAInv
  <2>2. CASE Exit
    BY <2>2, ExitAInv
  <2>3. CASE Kill
    BY <2>3, KillAInv
  <2>4. ASSUME NEW i \in Ids, Update("add", i) \/ Update("del", i) PROVE AInv'
    BY <2>4, UpdateAInv
  <2>5. CASE StartSearch
    BY <2>5, StartSearchAInv
  <2>6. CASE ExitBroken \/ FailSearch
    BY <2>6, ExitAInv
  <2> QED  BY <1>1, <2>1, <2>2, <2>3, <2>4, <2>5, <2>6 DEF Client
<1>2. CASE Walk
  BY <1>2, VisitDelAInv, VisitCancelledAInv, VisitAddAInv, VisitSearchAInv, VisitMergedAInv, AstrayAInv
     DEF Walk
<1>3. CASE ServerStore
  BY <1>3, StoreAInv
<1>4. CASE ServerBegin
  BY <1>4, BeginAInv
<1>5. CASE ServerEnd
  BY <1>5, EndAInv
<1>6. CASE SearchEnd
  BY <1>6, SearchEndAInv
<1>7. CASE UNCHANGED vars
  <2>1. UNCHANGED <<pc, LastNode, db, net, EDB, srv, hist>>
    BY <1>7 DEF vars
  <2>2. Lined' /\ Coming' /\ Ended'
    BY <2>1 DEF AInv, Lined, Line, LastIn, Op, Doc, Coming, Fresh, Fits, Ended
  <2>3. Jumped'
    BY <2>1 DEF AInv, Jumped, Jumps, Fits, Gone, Doomed, Lost, Requested, Inside, Cancels, Line, Op, Doc
  <2>4. Returning'
    BY <2>1 DEF AInv, Returning, Exact, Ahead, Gone, Lost, Requested, Cancels, Line, Op, Doc
  <2>5. Carrying'
    BY <2>1 DEF AInv, Carrying, Carried, KeyIs, Ahead, Lost, Requested, Cancels, Line, Op, Doc
  <2> QED  BY <2>2, <2>3, <2>4, <2>5 DEF AInv
<1> QED  BY <1>1, <1>2, <1>3, <1>4, <1>5, <1>6, <1>7 DEF Next

\* Whatever is looked for from the last node of the line on is what was not cancelled.
LEMMA ExactAnswers == IInv /\ AInv => AnswersLive
<1> SUFFICES ASSUME IInv, AInv, srv.st = "answer" PROVE AnswersLive
  BY DEF AnswersLive
<1> USE DEF AInv
<1>1. srv.L1 = End /\ \A k \in Line : k \in Int /\ k >= 1
  BY Numbered DEF Ended
<1>2. ~Ahead
  BY <1>1 DEF Ahead, End
<1>3. PICK at \in [DOMAIN srv.result -> Line] : Exact(at)
  BY DEF Returning
<1>4. \A k \in Line : /\ hist.log[k] = <<Op(k), Doc(k)>>
                      /\ \A i : hist.log[k] = <<"del", i>> <=> Op(k) = "del" /\ Doc(k) = i
  BY OnLine
<1>5. \A n \in Line : n \in Live(hist.log) <=>
        Op(n) = "add" /\ \A k \in Line : k > n => ~(Op(k) = "del" /\ Doc(k) = Doc(n))
  BY <1>4 DEF Live, Line, Op, Doc
<1>6. \A j \in DOMAIN at : at[j] \in Live(hist.log)
  <2> TAKE j \in DOMAIN at
  <2>1. at[j] \in Line /\ Op(at[j]) = "add" /\ \A y \in Line : ~Cancels(y, at[j])
    BY <1>2, <1>3 DEF Exact
  <2> QED  BY <1>5, <2>1 DEF Cancels
<1>7. at \in [DOMAIN srv.result -> Live(hist.log)]
  BY <1>6
<1>8. ASSUME NEW n \in Live(hist.log), hist.log[n][2] \notin hist.forgot PROVE \E j \in DOMAIN at : at[j] = n
  <2>1. n \in Line /\ Op(n) = "add" /\ Doc(n) \notin hist.forgot /\ n > srv.L1
    BY <1>1, <1>5, <1>8 DEF Live, Line, Op, Doc, End
  <2>2. ~Gone(n)
    BY <1>5, <1>8, <2>1 DEF Gone
  <2> QED  BY <1>3, <2>1, <2>2 DEF Exact
<1>9. /\ \A j, k \in DOMAIN at : j < k => at[j] > at[k]
      /\ \A j \in DOMAIN at : hist.log[at[j]][2] = srv.result[j]
  BY <1>3 DEF Exact, Doc
<1> QED  BY <1>7, <1>8, <1>9 DEF AnswersLive

\* Every search that answers returns exactly the additions not cancelled, the
\* newest first, for any history of updates, searches, faults and cut nodes.
THEOREM AnswersAreExact == Spec => []AnswersLive
<1>1. IInv /\ [Next]_vars => IInv'
  BY NextInv
<1>2. IInv /\ IInv' /\ AInv /\ [Next]_vars => AInv'
  BY NextAInv
<1>3. IInv /\ AInv => AnswersLive
  BY ExactAnswers
<1> QED  BY InitInv, InitAInv, <1>1, <1>2, <1>3, PTL DEF Spec

-----------------------------------------------------------------------------
(* A walk goes astray for a cause.  Where a link of the line leads, and the  *)
(* node a session starts from, is stored, or was lost or removed; but a walk *)
(* the line knows of has linked past what it removed.                        *)

\* Node n was lost, or removed, and the line knows no walk that linked past it.
Excused(n) == \/ n \in fate.lost \cup fate.swept
              \/ n \in DOMAIN fate.dropped /\ fate.dropped[n] \notin Line
Found(n) == n \in {End, Nowhere} \/ n \in DOMAIN EDB \/ Excused(n)
InNet(n, m) == \E i \in 1..Len(net) : i < m /\ net[i].n = n

\* The saved node, for the session that starts from it: its line is the saved one.
FoundSaved == LET n == db.n
              IN  \/ n \in {End, Nowhere} \/ n \in DOMAIN EDB \/ n \in fate.lost \cup fate.swept
                  \/ n \in DOMAIN fate.dropped /\ fate.dropped[n] \notin DOMAIN hist.saved

Fates == /\ fate \in [lost : {fate.lost}, swept : {fate.swept}, dropped : {fate.dropped}]
         /\ \A n \in DOMAIN fate.dropped : fate.dropped[n] \in 1..hist.n
Links == /\ \A k \in Line \cap DOMAIN EDB : Found(EDB[k].prev)
         /\ \A j \in 1..Len(net) : Found(net[j].node.prev) \/ InNet(net[j].node.prev, j)
Newest == pc # "off" => \/ Found(LastNode.n) \/ InNet(LastNode.n, Len(net) + 1)
                        \/ srv.st = "request" /\ LastNode.n = srv.req
Onto == /\ srv.st = "request" => pc = "wait" /\ LastNode.n = srv.req /\ Found(srv.L1)
        /\ srv.st = "walk" => srv.req \in 1..hist.n /\ srv.Lt <= srv.req /\ srv.L1 # End

FInv == Fates /\ Links /\ Newest /\ FoundSaved /\ Onto /\ AstrayHasACause

LEMMA InitFInv == Init => FInv
BY DEF Init, FInv, Fates, Links, Newest, FoundSaved, Onto, AstrayHasACause, Idle, Unknown, Line, End, Nowhere

\* A session begins on the saved line.
LEMMA StartFInv == ASSUME IInv, IInv', AInv, FInv, Start PROVE FInv'
<1>1. /\ pc = "off" /\ LastNode' = db /\ srv'.st = "idle" /\ net = <<>> /\ UNCHANGED <<db, net, EDB, fate>>
  BY DEF Start, Idle, AInv, Lined
<1>2. hist'.log = hist.saved /\ hist'.saved = hist.saved /\ hist'.n = hist.n
  BY DEF Start, IInv, Fields
<1>3. Line' = DOMAIN hist.saved /\ Line' \subseteq Line
  BY <1>2 DEF AInv, Lined, Line
<1>4. \A n : Found(n) => Found(n)'
  BY <1>1, <1>3 DEF Found, Excused
<1>5. Found(LastNode.n)'
  BY <1>1, <1>3 DEF FInv, FoundSaved, Found, Excused
<1>6. \A k \in Line' \cap DOMAIN EDB' : Found(EDB[k].prev)'
  BY <1>1, <1>3, <1>4 DEF FInv, Links, Found, Excused
<1> QED  BY <1>1, <1>2, <1>5, <1>6 DEF FInv, Fates, Links, Newest, FoundSaved, Onto, AstrayHasACause

\* A session ends: what it started from next is what it has saved.
LEMMA ExitFInv == ASSUME IInv, IInv', AInv, FInv, Exit \/ ExitBroken \/ FailSearch PROVE FInv'
<1>1. /\ pc # "off" /\ pc' = "off" /\ net' = <<>> /\ db' = LastNode /\ UNCHANGED <<LastNode, EDB>>
      /\ (srv' = srv /\ srv.st # "request") \/ srv'.st = "idle"
  BY DEF Exit, ExitBroken, FailSearch, IInv, Alone, Idle, AInv, Ended
<1>2. hist'.log = hist.log /\ hist'.saved = hist.log /\ hist'.n = hist.n /\ Line' = Line
  BY DEF Exit, ExitBroken, FailSearch, IInv, Fields, Line
<1>3. /\ fate'.swept = fate.swept /\ fate'.dropped = fate.dropped /\ fate.lost \subseteq fate'.lost
      /\ Fates'
  BY <1>2 DEF Exit, ExitBroken, FailSearch, FInv, Fates
<1>4. \A n : Found(n) => Found(n)'
  BY <1>1, <1>2, <1>3 DEF Found, Excused
<1>5. Found(LastNode.n)'
  <2>1. CASE Found(LastNode.n)
    BY <1>1, <1>4, <2>1 DEF Found, Excused
  <2>2. CASE InNet(LastNode.n, Len(net) + 1)
    <3>1. PICK i \in 1..Len(net) : net[i].n = LastNode.n
      BY <2>2 DEF InNet
    <3>2. net # <<>>
      BY <3>1
    <3>3. ExitBroken
      BY <3>2 DEF Exit, FailSearch, IInv, Alone, AInv, Ended
    <3>4. LastNode.n \in fate'.lost
      BY <3>1, <3>3 DEF ExitBroken, FInv, Fates
    <3> QED  BY <1>1, <3>4 DEF Found, Excused
  <2>3. CASE srv.st = "request" /\ LastNode.n = srv.req
    <3>1. FailSearch
      BY <2>3 DEF Exit, ExitBroken, IInv, Alone
    <3>2. LastNode.n \in fate'.lost
      BY <2>3, <3>1 DEF FailSearch, FInv, Fates
    <3> QED  BY <1>1, <3>2 DEF Found, Excused
  <2> QED  BY <1>1, <2>1, <2>2, <2>3 DEF FInv, Newest
<1>6. FoundSaved'
  BY <1>1, <1>2, <1>5 DEF FoundSaved, Found, Excused, Line
<1>7. \A k \in Line' \cap DOMAIN EDB' : Found(EDB[k].prev)'
  BY <1>1, <1>2, <1>4 DEF FInv, Links, Found, Excused
<1>8. Links' /\ Newest' /\ Onto'
  BY <1>1, <1>2, <1>7 DEF FInv, Links, Newest, Onto
<1>9. AstrayHasACause'
  BY <1>1, <1>2, <1>3 DEF FInv, AstrayHasACause
<1> QED  BY <1>3, <1>6, <1>8, <1>9 DEF FInv

\* A killed process.
LEMMA KillFInv == ASSUME IInv, FInv, Kill PROVE FInv'
<1>1. /\ pc' = "off" /\ net' = <<>> /\ UNCHANGED <<db, EDB, fate>>
      /\ (srv' = srv /\ srv.st # "request") \/ srv'.st = "idle"
  BY DEF Kill, Idle
<1>2. hist'.log = hist.log /\ hist'.saved = hist.saved /\ hist'.n = hist.n
  BY DEF Kill, IInv, Fields
<1>3. \A n : Found(n)' <=> Found(n)
  BY <1>1, <1>2 DEF Found, Excused, Line
<1>4. \A k \in Line' \cap DOMAIN EDB' : Found(EDB[k].prev)'
  BY <1>1, <1>2, <1>3 DEF FInv, Links, Found, Excused, Line
<1> QED
  BY <1>1, <1>2, <1>4 DEF FInv, Fates, Links, Newest, FoundSaved, Onto, AstrayHasACause

\* The line grows by a node no walk has had.
LEMMA GrownFInv ==
  ASSUME IInv, FInv, hist'.n = hist.n + 1, Line' = Line \cup {hist'.n}, UNCHANGED <<EDB, fate>>
  PROVE  /\ \A n : Found(n) => Found(n)'
         /\ \A k \in Line' \cap DOMAIN EDB' : Found(EDB[k].prev)'
         /\ Fates'
<1>1. hist.n \in Nat /\ DOMAIN EDB \subseteq 1..hist.n
  BY RoseAssumption DEF IInv, Counting, Stored
<1>2. \A n \in DOMAIN fate.dropped : fate.dropped[n] # hist'.n /\ fate.dropped[n] \in 1..hist'.n
  BY <1>1 DEF FInv, Fates
<1>3. \A n : Found(n) => Found(n)'
  BY <1>2 DEF Found, Excused
<1>4. \A k \in Line' \cap DOMAIN EDB' : k \in Line \cap DOMAIN EDB
  BY <1>1
<1>5. \A k \in Line' \cap DOMAIN EDB' : Found(EDB[k].prev)'
  BY <1>3, <1>4 DEF FInv, Links, Found, Excused
<1> QED  BY <1>2, <1>3, <1>5 DEF FInv, Fates

LEMMA UpdateFInv ==
  ASSUME IInv, IInv', AInv, FInv, NEW op \in {"add", "del"}, NEW i \in Ids, Update(op, i)
  PROVE  FInv'
<1> DEFINE e == Node(op, i)
           new == [n |-> hist.n + 1, node |-> e]
<1>1. /\ pc = "ready" /\ LastNode'.n = hist.n + 1 /\ net' = Append(net, new) /\ e.prev = Prev
      /\ UNCHANGED <<pc, db, EDB, srv, fate>> /\ srv.st = "idle"
  BY DEF Update, IInv, Alone, Node
<1>2. hist'.n = hist.n + 1 /\ Line' = Line \cup {hist'.n} /\ hist'.saved = hist.saved
  BY DEF Update, IInv, Fields, Put, Line
<1> HIDE DEF e
<1>3. /\ Len(net) \in Nat /\ Len(net') = Len(net) + 1 /\ net'[Len(net) + 1] = new
      /\ \A j \in 1..Len(net) : net'[j] = net[j]
  <2>1. net \in Seq([n : 1..hist.n, node : Nodes])
    BY DEF IInv, Streamed
  <2> QED  BY <1>1, <2>1
<1>4. \A n : Found(n) => Found(n)'
  BY <1>1, <1>2, GrownFInv
<1>5. \A n, m : m <= Len(net) + 1 /\ InNet(n, m) => InNet(n, m)'
  BY <1>3 DEF InNet
<1>6. ASSUME NEW j \in 1..Len(net'), NEW p, p = net'[j].node.prev
      PROVE  Found(p)' \/ InNet(p, j)'
  <2>1. CASE j = Len(net) + 1
    <3>1. p = Prev
      BY <1>1, <1>3, <1>6, <2>1
    <3>2. Found(p) \/ InNet(p, Len(net) + 1)
      BY <1>1, <3>1 DEF Prev, FInv, Newest, Found
    <3> QED  BY <1>3, <1>4, <1>5, <2>1, <3>2
  <2>2. CASE j \in 1..Len(net)
    <3>1. p = net[j].node.prev
      BY <1>3, <1>6, <2>2
    <3>2. Found(p) \/ InNet(p, j)
      BY <2>2, <3>1 DEF FInv, Links
    <3> QED  BY <1>3, <1>4, <1>5, <2>2, <3>2
  <2> QED  BY <1>3, <2>1, <2>2
<1>7. Links'
  <2>1. \A k \in Line' \cap DOMAIN EDB' : Found(EDB[k].prev)'
    BY <1>1, <1>2, GrownFInv
  <2>2. \A j \in 1..Len(net') : Found(net[j].node.prev)' \/ InNet(net[j].node.prev, j)'
    BY <1>6 DEF Found, Excused, InNet
  <2> QED  BY <2>1, <2>2 DEF Links
<1>8. InNet(LastNode.n, Len(net) + 1)'
  BY <1>1, <1>3 DEF InNet
<1>9. Fates'
  BY <1>1, <1>2, GrownFInv
<1>10. FoundSaved' /\ Onto' /\ AstrayHasACause'
  BY <1>1, <1>2 DEF FInv, FoundSaved, Onto, AstrayHasACause
<1> QED  BY <1>7, <1>8, <1>9, <1>10 DEF FInv, Newest

LEMMA StartSearchFInv == ASSUME IInv, IInv', AInv, FInv, StartSearch PROVE FInv'
<1>1. /\ pc = "ready" /\ pc' = "wait" /\ net = <<>> /\ UNCHANGED <<db, net, EDB, fate>> /\ srv.st = "idle"
      /\ LastNode'.n = hist.n + 1 /\ srv'.st = "request" /\ srv'.req = hist.n + 1 /\ srv'.L1 = LastNode.n
  BY DEF StartSearch, IInv, Alone, Idle
<1>2. hist'.n = hist.n + 1 /\ Line' = Line \cup {hist'.n} /\ hist'.saved = hist.saved
  BY DEF StartSearch, IInv, Fields, Put, Line
<1>3. Found(LastNode.n)
  BY <1>1 DEF FInv, Newest, InNet
<1>4. Found(srv.L1)'
  <2>1. PICK n : n = LastNode.n
    OBVIOUS
  <2>2. Found(n)'
    BY <1>1, <1>2, <1>3, <2>1, GrownFInv
  <2> QED  BY <1>1, <2>1, <2>2 DEF Found, Excused
<1>5. \A k \in Line' \cap DOMAIN EDB' : Found(EDB[k].prev)'
  BY <1>1, <1>2, GrownFInv
<1>6. Fates'
  BY <1>1, <1>2, GrownFInv
<1> QED
  BY <1>1, <1>2, <1>4, <1>5, <1>6 DEF FInv, Links, Newest, FoundSaved, Onto, AstrayHasACause

LEMMA StoreFInv == ASSUME IInv, IInv', AInv, FInv, ServerStore PROVE FInv'
<1> DEFINE m == Head(net)
<1>1. /\ UNCHANGED <<pc, LastNode, db, srv, hist, fate>> /\ net # <<>> /\ srv.st = "idle"
      /\ net' = Tail(net) /\ EDB' = Put(EDB, m.n, m.node)
  BY DEF ServerStore, IInv, Alone
<1>2. /\ Len(net) \in Nat /\ Len(net) >= 1 /\ Len(net') = Len(net) - 1 /\ m = net[1]
      /\ \A j \in 1..Len(net') : j + 1 \in 1..Len(net) /\ net'[j] = net[j + 1]
  <2>1. net \in Seq([n : 1..hist.n, node : Nodes])
    BY DEF IInv, Streamed
  <2> QED  BY <1>1, <2>1
<1> HIDE DEF m
<1>3. /\ DOMAIN EDB' = DOMAIN EDB \cup {m.n} /\ EDB'[m.n] = m.node
      /\ \A k \in DOMAIN EDB : k # m.n => EDB'[k] = EDB[k]
  BY <1>1 DEF Put
<1>4. \A n : Found(n) => Found(n)'
  BY <1>1, <1>3 DEF Found, Excused, Line
<1>5. \A n, j : j \in 1..Len(net) + 1 /\ InNet(n, j) => Found(n)' \/ InNet(n, j - 1)'
  <2> SUFFICES ASSUME NEW n, NEW j \in 1..Len(net) + 1, InNet(n, j) PROVE Found(n)' \/ InNet(n, j - 1)'
    OBVIOUS
  <2>1. PICK i \in 1..Len(net) : i < j /\ net[i].n = n
    BY DEF InNet
  <2>2. CASE i = 1
    BY <1>2, <1>3, <2>1, <2>2 DEF Found
  <2>3. CASE i # 1
    <3>1. i - 1 \in 1..Len(net') /\ net'[i - 1].n = n /\ i - 1 < j - 1
      BY <1>2, <2>1, <2>3
    <3> QED  BY <3>1 DEF InNet
  <2> QED  BY <2>2, <2>3
<1>6. Found(m.node.prev)
  <2>1. 1 \in 1..Len(net) /\ ~InNet(m.node.prev, 1)
    BY <1>2 DEF InNet
  <2> QED  BY <1>2, <2>1 DEF FInv, Links
<1>7. Links'
  <2>1. ASSUME NEW k \in Line' \cap DOMAIN EDB', NEW p, p = EDB'[k].prev PROVE Found(p)'
    <3>1. CASE k = m.n
      BY <1>3, <1>4, <1>6, <2>1, <3>1
    <3>2. CASE k # m.n
      BY <1>1, <1>3, <1>4, <2>1, <3>2 DEF FInv, Links, Line
    <3> QED  BY <3>1, <3>2
  <2>2. ASSUME NEW j \in 1..Len(net'), NEW p, p = net'[j].node.prev PROVE Found(p)' \/ InNet(p, j)'
    <3>1. j + 1 \in 1..Len(net) /\ p = net[j + 1].node.prev /\ j + 1 \in 1..Len(net) + 1 /\ (j + 1) - 1 = j
      BY <1>2, <2>2
    <3>2. Found(p) \/ InNet(p, j + 1)
      BY <3>1 DEF FInv, Links
    <3> QED  BY <1>4, <1>5, <3>1, <3>2
  <2>3. \A k \in Line' \cap DOMAIN EDB' : Found(EDB[k].prev)'
    BY <2>1 DEF Found, Excused
  <2>4. \A j \in 1..Len(net') : Found(net[j].node.prev)' \/ InNet(net[j].node.prev, j)'
    BY <2>2 DEF Found, Excused, InNet
  <2> QED  BY <2>3, <2>4 DEF Links
<1>8. Newest'
  <2>1. PICK n : n = LastNode.n
    OBVIOUS
  <2>2. PICK l : l = Len(net) + 1
    OBVIOUS
  <2>3. l \in 1..Len(net) + 1 /\ l - 1 = Len(net') + 1
    BY <1>2, <2>2
  <2>4. pc # "off" => Found(n) \/ InNet(n, l)
    BY <1>1, <2>1, <2>2 DEF FInv, Newest
  <2>5. pc # "off" => Found(n)' \/ InNet(n, l - 1)'
    BY <1>4, <1>5, <2>3, <2>4
  <2> QED  BY <1>1, <2>1, <2>3, <2>5 DEF Newest, Found, Excused, InNet
<1>9. Fates' /\ FoundSaved' /\ Onto' /\ AstrayHasACause'
  BY <1>1, <1>3 DEF FInv, Fates, FoundSaved, Onto, AstrayHasACause
<1> QED  BY <1>7, <1>8, <1>9 DEF FInv

LEMMA BeginFInv == ASSUME IInv, IInv', AInv, FInv, ServerBegin PROVE FInv'
<1>1. /\ srv.st = "request" /\ srv'.st = "walk" /\ srv'.L1 = srv.L1 /\ srv'.Lt = srv.Lt /\ srv'.req = srv.req
      /\ UNCHANGED <<pc, LastNode, db, net, hist, fate>> /\ net = <<>>
  BY DEF ServerBegin, IInv, Fields, Alone
<1>2. /\ DOMAIN EDB' = DOMAIN EDB \cup {srv.req} /\ EDB'[srv.req].prev = srv.L1
      /\ \A k \in DOMAIN EDB : k # srv.req => EDB'[k] = EDB[k]
  BY DEF ServerBegin, Put
<1>3. \A n : Found(n) => Found(n)'
  BY <1>1, <1>2 DEF Found, Excused, Line
<1>4. /\ srv.req \in 1..hist.n /\ srv.Lt = srv.req /\ srv.L1 # End /\ hist.n \in Nat
      /\ LastNode.n = srv.req /\ Found(srv.L1)
  BY <1>1, RoseAssumption DEF IInv, Asked, Counting, Nowhere, End, FInv, Onto
<1>5. \A k \in Line' \cap DOMAIN EDB' : Found(EDB[k].prev)'
  <2> SUFFICES ASSUME NEW k \in Line' \cap DOMAIN EDB', NEW p, p = EDB'[k].prev PROVE Found(p)'
    BY DEF Found, Excused
  <2>1. CASE k = srv.req
    BY <1>2, <1>3, <1>4, <2>1
  <2>2. CASE k # srv.req
    BY <1>1, <1>2, <1>3, <2>2 DEF FInv, Links, Line
  <2> QED  BY <2>1, <2>2
<1>6. Found(LastNode.n)'
  BY <1>1, <1>2, <1>4 DEF Found
<1> QED
  BY <1>1, <1>2, <1>4, <1>5, <1>6 DEF FInv, Fates, Links, Newest, FoundSaved, Onto, AstrayHasACause

\* A node is removed on the way: only the last node kept led to it.
LEMMA DropFInv ==
  ASSUME IInv, IInv', AInv, FInv, Reading, NEW x, NEW r, EDB' = Drop(x, r), Removed,
         UNCHANGED <<pc, LastNode, db, net, hist>>, srv'.req = srv.req, srv'.Lt = srv.Lt,
         srv'.L1 = node.prev, srv'.st = IF node.prev = End THEN "walked" ELSE "walk"
  PROVE  FInv'
<1> DEFINE b == srv.L1
<1>1. /\ b \in Line /\ srv.Lt \in Line /\ b \in Int /\ srv.Lt \in Int /\ b < srv.Lt
      /\ node.prev \in Int /\ node.prev < b /\ EDB[srv.Lt].prev = b /\ net = <<>> /\ srv.st = "walk"
      /\ \A i \in Line : i \in Int
  BY AtNode
<1>2. b \in DOMAIN EDB /\ srv.Lt \in DOMAIN EDB
  BY ReadNode
<1>3. srv.req \in 1..hist.n /\ srv.Lt <= srv.req /\ hist.n \in Nat /\ db.n \in Int /\ LastNode.n \in Int
  BY <1>1, Numbered DEF FInv, Onto, AInv
<1>4. /\ fate'.lost = fate.lost /\ fate'.swept = fate.swept
      /\ DOMAIN fate'.dropped = DOMAIN fate.dropped \cup {b} /\ fate'.dropped[b] = srv.req
      /\ \A n \in DOMAIN fate.dropped : n # b => fate'.dropped[n] = fate.dropped[n]
      /\ Fates'
  <2>1. fate' = [lost |-> fate.lost, swept |-> fate.swept, dropped |-> Put(fate.dropped, b, srv.req)]
    BY DEF Removed, FInv, Fates
  <2>2. /\ DOMAIN fate'.dropped = DOMAIN fate.dropped \cup {b} /\ fate'.dropped[b] = srv.req
        /\ \A n \in DOMAIN fate.dropped : n # b => fate'.dropped[n] = fate.dropped[n]
    BY <2>1 DEF Put
  <2>3. \A n \in DOMAIN fate'.dropped : fate'.dropped[n] \in 1..hist'.n
    BY <1>3, <2>2 DEF FInv, Fates
  <2> QED  BY <2>1, <2>2, <2>3 DEF Fates
<1>5. /\ DOMAIN EDB' = DOMAIN EDB \ {b} /\ EDB'[srv.Lt].prev = node.prev
      /\ \A k \in DOMAIN EDB' : k # srv.Lt => EDB'[k] = EDB[k]
  <2>1. DOMAIN EDB' = DOMAIN EDB \ {b} /\ \A k \in DOMAIN EDB' : k # srv.Lt => EDB'[k] = EDB[k]
    BY DEF Drop
  <2>2. EDB'[srv.Lt] = [EDB[srv.Lt] EXCEPT !.prev = node.prev, !.x = x, !.ok = @ /\ r]
    <3>1. srv.Lt \in DOMAIN EDB \ {srv.L1}
      BY <1>1, <1>2
    <3> QED  BY <3>1 DEF Drop
  <2>3. EDB[srv.Lt] \in Nodes
    BY ReadNode
  <2> QED  BY <2>1, <2>2, <2>3 DEF Nodes
<1>6. Line' = Line /\ hist'.saved = hist.saved
  BY DEF Line
<1> HIDE DEF b
<1>7. \A n : n # b /\ Found(n) => Found(n)'
  BY <1>4, <1>5, <1>6 DEF Found, Excused
<1>8. ASSUME NEW k \in Line' \cap DOMAIN EDB', NEW p, p = EDB'[k].prev PROVE Found(p)'
  <2>1. CASE k = srv.Lt
    <3>1. Found(node.prev) /\ node.prev # b
      BY <1>1, <1>2 DEF FInv, Links, node, b
    <3> QED  BY <1>5, <1>7, <1>8, <2>1, <3>1
  <2>2. CASE k # srv.Lt
    <3>1. k \in Line \cap DOMAIN EDB /\ p = EDB[k].prev /\ k \in Int
      BY <1>1, <1>5, <1>6, <1>8, <2>2
    <3>2. p # b
      <4> SUFFICES ASSUME p = b PROVE FALSE
        OBVIOUS
      <4>1. Jumps(k) /\ Jumps(srv.Lt)
        BY <1>1, <1>2, <3>1 DEF AInv, Jumped
      <4>2. b < k
        BY <3>1, Numbered DEF AInv
      <4>3. CASE srv.Lt < k
        BY <1>1, <1>2, <3>1, <4>1, <4>3 DEF Jumps
      <4>4. CASE k < srv.Lt
        BY <1>1, <1>2, <3>1, <4>1, <4>2, <4>4 DEF Jumps
      <4> QED  BY <1>1, <2>2, <3>1, <4>3, <4>4
    <3> QED  BY <1>7, <3>1, <3>2 DEF FInv, Links
  <2> QED  BY <2>1, <2>2
<1>9. Links'
  <2>1. \A k \in Line' \cap DOMAIN EDB' : Found(EDB[k].prev)'
    BY <1>8 DEF Found, Excused
  <2> QED  BY <1>1, <2>1 DEF Links
<1>10. Newest'
  <2>1. ASSUME pc # "off" PROVE LastNode.n # b
    BY <1>1, <2>1 DEF AInv, Lined, LastIn, Line
  <2>2. ASSUME pc # "off" PROVE Found(LastNode.n)
    BY <1>1, <2>2 DEF FInv, Newest, InNet
  <2>3. PICK n : n = LastNode.n
    OBVIOUS
  <2>4. pc # "off" => Found(n)'
    BY <1>7, <2>1, <2>2, <2>3
  <2> QED  BY <2>3, <2>4 DEF Newest, Found, Excused
<1>11. FoundSaved'
  <2>1. CASE db.n = b
    <3>1. srv.req \notin DOMAIN hist.saved
      BY <1>1, <1>3, <2>1 DEF AInv, Lined
    <3> QED  BY <1>4, <1>6, <2>1, <3>1 DEF FoundSaved
  <2>2. CASE db.n # b
    BY <1>4, <1>5, <1>6, <2>2 DEF FInv, FoundSaved
  <2> QED  BY <2>1, <2>2
<1>12. Onto' /\ AstrayHasACause'
  BY <1>3 DEF Onto, AstrayHasACause
<1> QED  BY <1>4, <1>9, <1>10, <1>11, <1>12 DEF FInv

\* A node is kept: nothing is removed.
LEMMA KeepFInv ==
  ASSUME IInv, AInv, FInv, Reading, UNCHANGED <<pc, LastNode, db, net, EDB, hist, fate>>,
         srv'.req = srv.req, srv'.Lt = srv.L1, srv'.L1 = node.prev,
         srv'.st = IF node.prev = End THEN "walked" ELSE "walk"
  PROVE  FInv'
<1>1. srv.L1 < srv.Lt /\ srv.L1 \in Int /\ srv.Lt \in Int /\ net = <<>> /\ srv.st = "walk"
  BY AtNode
<1>2. srv.req \in 1..hist.n /\ srv.L1 <= srv.req
  BY <1>1 DEF FInv, Onto
<1>3. \A n : Found(n)' <=> Found(n)
  BY DEF Found, Excused, Line
<1>4. \A k \in Line' \cap DOMAIN EDB' : Found(EDB[k].prev)'
  BY <1>3 DEF FInv, Links, Found, Excused, Line
<1>5. pc # "off" => Found(LastNode.n)'
  BY <1>1 DEF FInv, Newest, InNet, Found, Excused, Line
<1> QED
  BY <1>1, <1>2, <1>4, <1>5 DEF FInv, Fates, Links, Newest, FoundSaved, Onto, AstrayHasACause

LEMMA WalkFInv == ASSUME IInv, IInv', AInv, FInv, Walk PROVE FInv'
<1>1. CASE VisitDel
  <2>1. PICK r : EDB' = Drop(EDB[srv.Lt].x, r)
    BY <1>1 DEF VisitDel
  <2>2. /\ srv'.req = srv.req /\ srv'.Lt = srv.Lt /\ srv'.L1 = node.prev
        /\ srv'.st = IF node.prev = End THEN "walked" ELSE "walk"
    BY <1>1 DEF VisitDel, Advance, IInv, Fields
  <2> QED  BY <1>1, <2>1, <2>2, DropFInv DEF VisitDel
<1>2. CASE VisitCancelled
  <2>1. PICK r : EDB' = Drop(EDB[srv.Lt].x, r)
    BY <1>2 DEF VisitCancelled
  <2>2. /\ srv'.req = srv.req /\ srv'.Lt = srv.Lt /\ srv'.L1 = node.prev
        /\ srv'.st = IF node.prev = End THEN "walked" ELSE "walk"
    BY <1>2 DEF VisitCancelled, Advance, IInv, Fields
  <2> QED  BY <1>2, <2>1, <2>2, DropFInv DEF VisitCancelled
<1>3. CASE VisitMerged
  <2>1. PICK r : EDB' = Drop(Mul(srv.Delta, node.x), r)
    BY <1>3 DEF VisitMerged
  <2>2. /\ srv'.req = srv.req /\ srv'.Lt = srv.Lt /\ srv'.L1 = node.prev
        /\ srv'.st = IF node.prev = End THEN "walked" ELSE "walk"
    BY <1>3 DEF VisitMerged, Advance, IInv, Fields
  <2> QED  BY <1>3, <2>1, <2>2, DropFInv DEF VisitMerged
<1>4. CASE VisitAdd
  <2>1. /\ srv'.req = srv.req /\ srv'.Lt = srv.L1 /\ srv'.L1 = node.prev
        /\ srv'.st = IF node.prev = End THEN "walked" ELSE "walk"
    BY <1>4 DEF VisitAdd, Advance, IInv, Fields
  <2> QED  BY <1>4, <2>1, KeepFInv DEF VisitAdd
<1>5. CASE VisitSearch
  <2>1. /\ srv'.req = srv.req /\ srv'.Lt = srv.L1 /\ srv'.L1 = node.prev
        /\ srv'.st = IF node.prev = End THEN "walked" ELSE "walk"
    BY <1>5 DEF VisitSearch, Advance, IInv, Fields
  <2> QED  BY <1>5, <2>1, KeepFInv DEF VisitSearch
<1>6. CASE GoAstray
  <2>1. /\ srv.st = "walk" /\ ~(srv.L1 \in DOMAIN EDB /\ EDB[srv.L1].ok) /\ srv'.st = "astray" /\ srv'.L1 = srv.L1
        /\ UNCHANGED <<pc, LastNode, db, net, EDB, hist, fate>>
    BY <1>6 DEF GoAstray, IInv, Fields
  <2>2. Found(srv.L1) /\ srv.L1 # End
    BY <2>1 DEF FInv, Links, Onto, AInv, Carrying, IInv, Walking
  <2>3. AstrayHasACause'
    BY <2>1, <2>2 DEF AstrayHasACause, Found, Excused, Line
  <2>4. \A k \in Line' \cap DOMAIN EDB' : Found(EDB[k].prev)'
    BY <2>1 DEF FInv, Links, Found, Excused, Line
  <2>5. net = <<>> /\ (pc # "off" => Found(LastNode.n)')
    BY <2>1 DEF FInv, Newest, InNet, Found, Excused, Line, IInv, Alone
  <2> QED  BY <2>1, <2>3, <2>4, <2>5 DEF FInv, Fates, Links, Newest, FoundSaved, Onto
<1> QED  BY <1>1, <1>2, <1>3, <1>4, <1>5, <1>6 DEF Walk

\* A walk ends, and what it removes then is known; or the client has the answer.
LEMMA EndFInv == ASSUME IInv, IInv', AInv, FInv, ServerEnd \/ SearchEnd PROVE FInv'
<1>1. /\ srv.st \in {"walked", "answer"} /\ srv'.st \in {"answer", "idle"} /\ net = <<>>
      /\ UNCHANGED <<LastNode, db, net, hist>> /\ (pc' # "off" => pc # "off")
  BY DEF ServerEnd, SearchEnd, IInv, Alone, Fields, Idle, AInv, Ended
<1>2. /\ DOMAIN EDB' \subseteq DOMAIN EDB /\ \A k \in DOMAIN EDB' : EDB'[k] = EDB[k]
      /\ DOMAIN EDB \ DOMAIN EDB' \subseteq fate'.swept
      /\ fate'.lost = fate.lost /\ fate.swept \subseteq fate'.swept /\ fate'.dropped = fate.dropped
      /\ Fates'
  BY <1>1 DEF ServerEnd, SearchEnd, FInv, Fates
<1>3. \A n : Found(n) => Found(n)'
  BY <1>1, <1>2 DEF Found, Excused, Line
<1>4. \A k \in Line' \cap DOMAIN EDB' : Found(EDB[k].prev)'
  <2> SUFFICES ASSUME NEW k \in Line' \cap DOMAIN EDB', NEW p, p = EDB'[k].prev PROVE Found(p)'
    BY DEF Found, Excused
  <2> QED  BY <1>1, <1>2, <1>3 DEF FInv, Links, Line
<1>5. Newest'
  <2>1. PICK n : n = LastNode.n
    OBVIOUS
  <2>2. pc' # "off" => Found(n)'
    BY <1>1, <1>3, <2>1 DEF FInv, Newest, InNet
  <2> QED  BY <1>1, <2>1, <2>2 DEF Newest, Found, Excused
<1>6. FoundSaved'
  BY <1>1, <1>2 DEF FInv, FoundSaved
<1>7. Links' /\ Onto' /\ AstrayHasACause'
  BY <1>1, <1>4 DEF Links, Onto, AstrayHasACause
<1> QED  BY <1>2, <1>5, <1>6, <1>7 DEF FInv

LEMMA NextFInv == IInv /\ IInv' /\ AInv /\ FInv /\ [Next]_vars => FInv'
<1> SUFFICES ASSUME IInv, IInv', AInv, FInv, [Next]_vars PROVE FInv'
  OBVIOUS
<1>1. CASE Client
  BY <1>1, StartFInv, ExitFInv, KillFInv, StartSearchFInv, UpdateFInv DEF Client
<1>2. CASE ServerStore
  BY <1>2, StoreFInv
<1>3. CASE ServerBegin
  BY <1>3, BeginFInv
<1>4. CASE Walk
  BY <1>4, WalkFInv
<1>5. CASE ServerEnd \/ SearchEnd
  BY <1>5, EndFInv
<1>6. CASE UNCHANGED vars
  BY <1>6 DEF vars, FInv, Fates, Links, Newest, FoundSaved, Onto, AstrayHasACause, Found, Excused, InNet, Line
<1> QED  BY <1>1, <1>2, <1>3, <1>4, <1>5, <1>6 DEF Next

\* A walk goes astray only where an entry was missing or cut short, a failed call
\* lost the node, an earlier walk that met no deletion removed it, or a search that
\* a killed process forgot: the nodes a walk removes on its way break no chain.
THEOREM AstrayOnlyForACause == Spec => []AstrayHasACause
<1>1. FInv => AstrayHasACause
  BY DEF FInv
<1> QED
  BY <1>1, InitInv, NextInv, InitAInv, NextAInv, InitFInv, NextFInv, PTL DEF Spec

=============================================================================
