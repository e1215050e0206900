-------------------------------- MODULE Rose --------------------------------
(***************************************************************************)
(* ROSE (src/ROSE), for one keyword.  The client keeps the last operation  *)
(* on the keyword (LastId, LastOp, LastR) and its key (LastK, LastS); the  *)
(* server keeps a chain of nodes, each of which opens the one before it.   *)
(* A deletion carries the token of the addition it cancels, a search adds  *)
(* a node with the step from the new key to the old one.  The server walks *)
(* the chain, removes the deletions and what they cancel, and links what   *)
(* is left.                                                                *)
(*                                                                         *)
(* A label L = Hash_G(P, R) is the number of its node, R being fresh.  A   *)
(* KUPRF value of (ind, op_add) under a key is <<ind, key>>, an update     *)
(* token <<new, old>>.  A read of garbage is not followed: the walk goes   *)
(* astray, since no garbage ends it.                                       *)
(***************************************************************************)
EXTENDS Integers, Sequences, FiniteSets

CONSTANTS Ids,         \* document identifiers
          MaxUpdates, MaxSearches, MaxFaults,
          Truncates    \* whether binary data stored as a C string may hold a zero
ASSUME RoseAssumption == {MaxUpdates, MaxSearches, MaxFaults} \subseteq Nat /\ Truncates \in BOOLEAN

VARIABLES pc,        \* the client process: "off", "ready", "wait"
          LastNode, db,  \* the Last* entries of the keyword, in memory and saved
          net,       \* nodes written to the batch_update_rose stream
          EDB,       \* server: the nodes stored
          srv,       \* server: the locals of search_rose
          hist,      \* nodes made, those behind the last one, accidents
          fate       \* nodes lost with a call, swept at the end of a walk, dropped by a search's walk
vars == <<pc, LastNode, db, net, EDB, srv, hist, fate>>

End == 0        \* 64 zero bytes in place of a label and its T
Nowhere == -1   \* a label computed from entries that are not there
NoToken == <<0, 0>>
Unknown == [n |-> Nowhere, key |-> 0]   \* find(keyword) == end()
Idle == [st |-> "idle", req |-> 0, Lt |-> 0, opt |-> "srh", Delta |-> NoToken, L1 |-> 0,
         D |-> <<>>, cache |-> {}, result |-> <<>>]

Init ==
  /\ pc = "off" /\ LastNode = Unknown /\ db = Unknown
  /\ net = <<>> /\ EDB = <<>> /\ srv = Idle
  /\ hist = [n |-> 0, log |-> <<>>, saved |-> <<>>, updates |-> 0, searches |-> 0,
             faults |-> 0, forgot |-> {}]
  /\ fate = [lost |-> {}, swept |-> {}, dropped |-> <<>>]

Readable == IF Truncates THEN BOOLEAN ELSE {TRUE}
Put(f, k, v) == [x \in DOMAIN f \cup {k} |-> IF x = k THEN v ELSE f[x]]

-----------------------------------------------------------------------------
\* A session; a handler a dead client has left runs on, and ends first.
Start == /\ pc = "off" /\ srv.st \in {"idle", "astray"}
         /\ pc' = "ready" /\ LastNode' = db /\ srv' = Idle
         /\ hist' = [hist EXCEPT !.log = hist.saved]
         /\ UNCHANGED <<db, net, EDB, fate>>

Exit == /\ pc = "ready" /\ net = <<>>
        /\ pc' = "off" /\ db' = LastNode
        /\ hist' = [hist EXCEPT !.saved = hist.log]
        /\ UNCHANGED <<LastNode, net, EDB, srv, fate>>

\* The stream has broken: what is not stored is lost.  The status of Finish is not
\* looked at, and ~Client saves the Last* entries all the same.
ExitBroken ==
  /\ pc = "ready" /\ net # <<>> /\ hist.faults < MaxFaults
  /\ pc' = "off" /\ db' = LastNode /\ net' = <<>>
  /\ hist' = [hist EXCEPT !.faults = @ + 1, !.saved = hist.log]
  /\ fate' = [fate EXCEPT !.lost = @ \cup {net[j].n : j \in 1..Len(net)}]
  /\ UNCHANGED <<LastNode, EDB, srv>>

\* The call of a search fails, the request arrived or not; a walk runs on.  The
\* client takes it for the end of the stream, and ~Client saves.
FailSearch ==
  /\ pc = "wait" /\ hist.faults < MaxFaults
  /\ pc' = "off" /\ db' = LastNode
  /\ srv' = IF srv.st \in {"request", "answer"} THEN Idle ELSE srv
  /\ hist' = [hist EXCEPT !.faults = @ + 1, !.saved = hist.log]
  /\ fate' = IF srv.st = "request" THEN [fate EXCEPT !.lost = @ \cup {srv.req}] ELSE fate
  /\ UNCHANGED <<LastNode, net, EDB>>

\* The history of the operations: for every node made, by its number, what for.
Deleted(log) == {i \in Ids : \E n \in DOMAIN log : log[n] = <<"del", i>>}

\* Killed before ~Client: the Last* entries go back, the stream breaks.
Kill == /\ pc # "off" /\ hist.faults < MaxFaults
        /\ pc' = "off" /\ LastNode' = db /\ net' = <<>>
        /\ srv' = IF srv.st \in {"request", "answer"} THEN Idle ELSE srv
        /\ hist' = [hist EXCEPT !.faults = @ + 1, !.forgot = @ \cup Deleted(hist.log)]
        /\ UNCHANGED <<db, EDB, fate>>

\* The link of a new node.
Prev == IF LastNode.n = Nowhere THEN End ELSE LastNode.n

\* encrypt: a node for one operation, linked to the last one.
Node(op, i) ==
  LET K == IF LastNode.key = 0 THEN hist.n + 1 ELSE LastNode.key   \* key_gen
  IN  [op |-> op, id |-> i, key |-> K, prev |-> Prev, ok |-> TRUE,
       x |-> IF op = "del" /\ LastNode.n # Nowhere THEN <<i, K>> ELSE NoToken]

\* encrypt, and the node written to the stream.
Update(op, i) ==
  /\ pc = "ready" /\ hist.updates < MaxUpdates
  /\ LET node == Node(op, i)
     IN  /\ LastNode' = [n |-> hist.n + 1, key |-> node.key]
         /\ net' = Append(net, [n |-> hist.n + 1, node |-> node])
  /\ hist' = [hist EXCEPT !.n = @ + 1, !.updates = @ + 1, !.log = Put(@, hist.n + 1, <<op, i>>)]
  /\ UNCHANGED <<pc, db, EDB, srv, fate>>

\* batch_update_rose: one node of the stream.
ServerStore ==
  /\ net # <<>>
  /\ net' = Tail(net) /\ EDB' = Put(EDB, Head(net).n, Head(net).node)
  /\ UNCHANGED <<pc, LastNode, db, srv, hist, fate>>

\* trapdoor and search: a new key, and a node that leads to the old one.
StartSearch ==
  /\ pc = "ready" /\ net = <<>> /\ hist.searches < MaxSearches
  /\ pc' = "wait"
  /\ LastNode' = [n |-> hist.n + 1, key |-> hist.n + 1]
  /\ srv' = [Idle EXCEPT !.st = "request", !.req = hist.n + 1, !.Lt = hist.n + 1, !.L1 = LastNode.n,
                         !.Delta = <<hist.n + 1, LastNode.key>>]
  /\ hist' = [hist EXCEPT !.n = @ + 1, !.searches = @ + 1,
                         !.log = Put(@, hist.n + 1, <<"srh", 0>>)]
  /\ UNCHANGED <<db, net, EDB, fate>>

-----------------------------------------------------------------------------
\* search_rose stores the search's node, through C strings.
ServerBegin ==
  /\ srv.st = "request"
  /\ srv' = [srv EXCEPT !.st = "walk", !.Delta = NoToken]
  /\ \E r \in Readable :
       EDB' = Put(EDB, srv.req, [op |-> "srh", id |-> 0, key |-> srv.Delta[1], prev |-> srv.L1,
                                 ok |-> r, x |-> srv.Delta])
  /\ UNCHANGED <<pc, LastNode, db, net, hist, fate>>

\* The node the walk is at, when it can be read.
Reading == srv.st = "walk" /\ srv.L1 \in DOMAIN EDB /\ EDB[srv.L1].ok
node == EDB[srv.L1]

\* The end of a turn: on to the node before, unless this was the first one.
Advance(s) == [s EXCEPT !.L1 = node.prev, !.st = IF node.prev = End THEN "walked" ELSE "walk"]

\* Mutation: the last one kept is linked to itself.
DropToLast(x, r) ==
  [n \in DOMAIN EDB \ {srv.L1} |-> IF n = srv.Lt THEN [EDB[n] EXCEPT !.prev = n] ELSE EDB[n]]

\* Mutation: the last one kept is not linked past it.
DropUnlinked(x, r) ==
  [n \in DOMAIN EDB \ {srv.L1} |-> IF n = srv.Lt THEN [EDB[n] EXCEPT !.x = x, !.ok = @ /\ r] ELSE EDB[n]]

\* The node is removed and the last one kept is linked past it.
Drop(x, r) ==
  [n \in DOMAIN EDB \ {srv.L1} |->
     IF n = srv.Lt THEN [EDB[n] EXCEPT !.prev = node.prev, !.x = x, !.ok = @ /\ r] ELSE EDB[n]]

\* The history: which search's walk has removed the node.
Removed == fate' = [fate EXCEPT !.dropped = Put(@, srv.L1, srv.req)]

VisitDel ==
  /\ Reading /\ node.op = "del"
  /\ \E r \in Readable : EDB' = Drop(EDB[srv.Lt].x, r)
  /\ Removed
  /\ srv' = Advance([srv EXCEPT !.D = Append(@, node.x)])
  /\ UNCHANGED <<pc, LastNode, db, net, hist>>

\* Mutation: only the token met last is tried.
CancelledByLast == srv.D # <<>> /\ srv.D[Len(srv.D)] = <<node.id, node.key>>

\* A token in D has the label of this addition: Hash_G(token, R) = L.
Cancelled == <<node.id, node.key>> \in {srv.D[j] : j \in DOMAIN srv.D}

VisitCancelled ==
  /\ Reading /\ node.op = "add" /\ Cancelled
  /\ \E r \in Readable : EDB' = Drop(EDB[srv.Lt].x, r)
  /\ Removed
  /\ srv' = Advance(srv)
  /\ UNCHANGED <<pc, LastNode, db, net, hist>>

VisitAdd ==
  /\ Reading /\ node.op = "add" /\ ~Cancelled
  /\ srv' = Advance([srv EXCEPT !.Lt = srv.L1, !.opt = "add", !.cache = @ \cup {srv.L1},
                                !.result = Append(@, node.id)])
  /\ UNCHANGED <<pc, LastNode, db, net, EDB, hist, fate>>

\* Mutation: the tokens are not brought to the older key.
StepKept(tokens) == tokens

\* kuprf.update of every token by the step of this node, from new to old.
StepTokens(tokens) ==
  [j \in DOMAIN tokens |-> IF tokens[j][2] = node.x[1] THEN <<tokens[j][1], node.x[2]>> ELSE NoToken]

VisitSearch ==
  /\ Reading /\ node.op = "srh" /\ (srv.opt # "srh" \/ srv.Delta = NoToken)
  /\ srv' = Advance([srv EXCEPT !.Lt = srv.L1, !.opt = "srh", !.cache = @ \cup {srv.L1},
                                !.Delta = node.x, !.D = StepTokens(@)])
  /\ UNCHANGED <<pc, LastNode, db, net, EDB, hist, fate>>

\* kuprf.mul: the step from the new key of the one to the old key of the other.
Mul(a, b) == IF a[2] = b[1] THEN <<a[1], b[2]>> ELSE NoToken

\* A second search node with no addition in between is merged into the first.
VisitMerged ==
  /\ Reading /\ node.op = "srh" /\ srv.opt = "srh" /\ srv.Delta # NoToken
  /\ \E r \in Readable : EDB' = Drop(Mul(srv.Delta, node.x), r)
  /\ Removed
  /\ srv' = Advance([srv EXCEPT !.Delta = Mul(@, node.x), !.D = StepTokens(@)])
  /\ UNCHANGED <<pc, LastNode, db, net, hist>>

\* No node, or one that was cut: from here on the walk reads garbage, for ever.
GoAstray ==
  /\ srv.st = "walk" /\ ~(srv.L1 \in DOMAIN EDB /\ EDB[srv.L1].ok)
  /\ srv' = [srv EXCEPT !.st = "astray"]
  /\ UNCHANGED <<pc, LastNode, db, net, EDB, hist, fate>>

\* A walk that met no deletion removes every node it kept.
ServerEnd ==
  /\ srv.st = "walked"
  /\ srv' = IF pc = "wait" THEN [srv EXCEPT !.st = "answer"] ELSE Idle
  /\ EDB' = IF srv.D = <<>> THEN [n \in DOMAIN EDB \ srv.cache |-> EDB[n]] ELSE EDB
  /\ fate' = IF srv.D = <<>> THEN [fate EXCEPT !.swept = @ \cup srv.cache] ELSE fate
  /\ UNCHANGED <<pc, LastNode, db, net, hist>>

\* The client reads the stream to its end.
SearchEnd ==
  /\ srv.st = "answer"
  /\ pc' = "ready" /\ srv' = Idle
  /\ UNCHANGED <<LastNode, db, net, EDB, hist, fate>>

Walk == VisitDel \/ VisitCancelled \/ VisitAdd \/ VisitSearch \/ VisitMerged \/ GoAstray
Client == \/ Start \/ Exit \/ ExitBroken \/ Kill \/ StartSearch \/ FailSearch
          \/ \E i \in Ids : Update("add", i) \/ Update("del", i)
Next == Client \/ ServerStore \/ ServerBegin \/ Walk \/ ServerEnd \/ SearchEnd
Spec == Init /\ [][Next]_vars

-----------------------------------------------------------------------------
Numbers == 1..(MaxUpdates + MaxSearches)
Nodes == [op : {"add", "del", "srh"}, id : Ids \cup {0}, key : Numbers, ok : BOOLEAN,
          prev : Numbers \cup {End, Nowhere}, x : (Ids \cup {0} \cup Numbers) \X (Numbers \cup {0})]

\* The shape of the stored nodes; links go back in time, so no walk is a circle.
TypeOK == \A n \in DOMAIN EDB : EDB[n] \in Nodes /\ EDB[n].prev < n

\* The additions that no later deletion cancels.
Live(log) == {n \in DOMAIN log : /\ log[n][1] = "add"
                                 /\ \A k \in DOMAIN log : k > n => log[k] # <<"del", log[n][2]>>}

\* A search that answers returns exactly the additions not cancelled, the newest
\* first, over any number of earlier searches, of processes killed, calls failed and
\* nodes merged.  (Of a document a killed process deleted the older additions may be
\* gone, although the deletion was forgotten with the process.)
AnswersLive ==
  srv.st = "answer" =>
    \E at \in [DOMAIN srv.result -> Live(hist.log)] :
      /\ \A j, k \in DOMAIN at : j < k => at[j] > at[k]
      /\ \A j \in DOMAIN at : hist.log[at[j]][2] = srv.result[j]
      /\ \A n \in Live(hist.log) :
           hist.log[n][2] \notin hist.forgot => \E j \in DOMAIN at : at[j] = n

\* A walk goes astray only for one of these reasons: it comes to an entry that was
\* not there, or to a node that was cut short; a call that failed lost the node; an
\* earlier walk that met no deletion had removed it; or a search that a killed
\* process forgot had removed it.  What a walk removes on its way breaks no chain.
AstrayHasACause ==
  srv.st = "astray" =>
    \/ srv.L1 = Nowhere
    \/ srv.L1 \in DOMAIN EDB /\ ~EDB[srv.L1].ok
    \/ srv.L1 \in fate.lost \cup fate.swept
    \/ srv.L1 \in DOMAIN fate.dropped /\ fate.dropped[srv.L1] \notin DOMAIN hist.log

\* The tokens a walk carries are under the key of the node it reads.
TokensFollowKeys ==
  Reading => \A j \in DOMAIN srv.D : srv.D[j] \in {NoToken, <<srv.D[j][1], node.key>>}
=============================================================================
