------------------------------- MODULE FFVSE -------------------------------
(***************************************************************************)
(* The verifiable scheme of src/EuroS&P22-FFVSE: one client process at a   *)
(* time (rpc_client runs one command and exits), one server over RocksDB.  *)
(*                                                                         *)
(* For each keyword the client counts the updates of the current epoch in  *)
(* WC1 and the epochs in WC2.  Update number c1 of epoch c2 is stored      *)
(* under the label St(c1, c2); its "e" entry is a link to the label of     *)
(* update c1 - 1 with the operation and the document, its "p" entry the    *)
(* same operation encrypted for the client.  A search walks the chain from *)
(* the newest label to the oldest, and the client recomputes the answer    *)
(* from the proofs.  When the chain is longer than its answer both sides   *)
(* compact it: the server deletes the "e" entries it walked, and the       *)
(* client opens epoch c2 + 1 whose first entry is a snapshot of the answer.*)
(*                                                                         *)
(* One disjunct of Next is one handler, or one turn of a handler's loop.   *)
(* An RPC blocks the client thread until the server's handler returns.     *)
(* Encryption is symbolic: an entry decodes only under the label or the    *)
(* epoch key it was made with; anything else decodes to junk, and a reply  *)
(* that contains junk is only remembered as such.                          *)
(***************************************************************************)
EXTENDS Integers, Sequences, FiniteSets

CONSTANTS Keyword,    \* keywords
          Id,         \* document identifiers
          None,       \* an empty std::string, an absent entry
          NoSt,       \* the label no entry is stored under: "000...0" or junk
          St(_, _),   \* H1(w . c1 . c2), its first 16 bytes, for a fixed w
          MaxC1,      \* bound: updates in one epoch of a keyword
          MaxC2       \* bound: epochs of a keyword

\* The two counters are concatenated in decimal, so labels of different epochs
\* may coincide ("1" . "11" and "11" . "1"); within one epoch they do not.
ASSUME BoundsAssumption == MaxC1 \in Nat \ {0} /\ MaxC2 \in Nat
ASSUME IdAssumption == IsFiniteSet(Id)
ASSUME StAssumption ==
  \A c2 \in 0..MaxC2 : \A i, j \in 1..MaxC1 :
     /\ St(i, c2) # NoSt
     /\ St(i, c2) = St(j, c2) => i = j

VARIABLES
  pc,         \* what the client process is doing ("off": no process)
  kw,         \* its keyword, argv[3]
  db,         \* db[w]: the counters in the client's RocksDB
  WC1, WC2,   \* the counters in the client's memory
  net,        \* entries sent by the client, not yet stored by the server
  es, ps,     \* the server's "e" and "p" entries of each keyword, by label
  srv,        \* the locals of the server's search handler, None if not running
  reply,      \* what the client has read of the SearchReply stream
  vi, Rp,     \* verify(): entries processed, and R_prime
  live,       \* history: the documents attached to each keyword
  result      \* history: the verdict of the last completed search

vars   == <<pc, kw, db, WC1, WC2, net, es, ps, srv, reply, vi, Rp, live, result>>

Op == {"0", "1"}
Label == {St(i, c2) : i \in 1..MaxC1, c2 \in 0..MaxC2}

\* "e" entries.  A link is Xor'ed with H2(s_w . st), a snapshot encrypted with
\* key st: both open only with the label `at' they were made for.
ELink(at, prev, op, id) == [tag |-> "link", at |-> at, prev |-> prev, op |-> op, id |-> id]
ESnap(at, ids)          == [tag |-> "snap", at |-> at, ids |-> ids]
ECell == [tag : {"link"}, at : Label, prev : Label \cup {NoSt}, op : Op, id : Id]
         \cup [tag : {"snap"}, at : Label, ids : SUBSET Id]

\* "p" entries, encrypted with the key of (w, c2).
PLink(c2, op, id) == [tag |-> "link", c2 |-> c2, op |-> op, id |-> id]
PSnap(c2, ids)    == [tag |-> "snap", c2 |-> c2, ids |-> ids]
PCell == [tag : {"link"}, c2 : 0..MaxC2, op : Op, id : Id]
         \cup [tag : {"snap"}, c2 : 0..MaxC2, ids : SUBSET Id]

\* One UpdateRequestMessage or ReProofRequestMessage.
Message == [w : Keyword, ut : Label, e : ECell, p : PCell]

\* The locals of the search handler, what the client reads of its replies, and
\* the verdict it reaches.
SrvType == [w : Keyword, c1 : 0..MaxC1, c2 : 0..MaxC2, i : 0..MaxC1,
            st : Label \cup {NoSt}, e : ECell \cup {None}, proof : PCell \cup {None},
            R : SUBSET Id, Del : SUBSET Id, Uts : SUBSET (Label \cup {NoSt}),
            P : [1..MaxC1 -> PCell \cup {None}], junk : BOOLEAN]
ReplyType == [ok : BOOLEAN, R : SUBSET Id, junk : BOOLEAN,
              P : [1..MaxC1 -> PCell \cup {None}]]
ResultType == [kw : Keyword, verdict : {"Accept", "Reject"}, ids : SUBSET Id]

\* The empty value is none of the others.
ASSUME NoneAssumption == /\ None \notin ECell /\ None \notin PCell
                         /\ None \notin SrvType /\ None \notin ReplyType
                         /\ \A ids \in SUBSET Id : ids # None

\* rocksdb Put, Delete and Get on one keyword's entries.
Put(f, k, v)  == [x \in DOMAIN f \cup {k} |-> IF x = k THEN v ELSE f[x]]
Delete(f, K)  == [x \in DOMAIN f \ K |-> f[x]]
Get(f, k, old) == IF k \in DOMAIN f THEN f[k] ELSE old

Apply(ids, op, id) == IF op = "1" THEN ids \cup {id} ELSE ids \ {id}

Init ==
  /\ pc = "off" /\ kw = None
  /\ db = [w \in Keyword |-> [c1 |-> 0, c2 |-> 0]]
  /\ WC1 = [w \in Keyword |-> 0] /\ WC2 = [w \in Keyword |-> 0]
  /\ net = <<>>
  /\ es = [w \in Keyword |-> <<>>] /\ ps = [w \in Keyword |-> <<>>]
  /\ srv = None /\ reply = None
  /\ vi = 0 /\ Rp = {}
  /\ live = [w \in Keyword |-> {}]
  /\ result = None

-----------------------------------------------------------------------------
(* The client process: load the counters, run one command, save them.      *)

\* Client(): the counters of every keyword are read from the client's store.
Load == /\ WC1' = [w \in Keyword |-> db[w].c1]
        /\ WC2' = [w \in Keyword |-> db[w].c2]

\* A generation or deletion job opens its batch_update stream.
StartUpdate(w) == /\ pc = "off"
                  /\ pc' = "update" /\ kw' = w
                  /\ Load
                  /\ UNCHANGED <<db, net, es, ps, srv, reply, vi, Rp, live, result>>

\* Mutation: entry 2 is linked to nothing, as the first one is.
PrevTooFew(c1, c2) == IF c1 <= 2 THEN NoSt ELSE St(c1 - 1, c2)

\* The label update c1 is linked to.
Prev(c1, c2) == IF c1 = 1 THEN NoSt ELSE St(c1 - 1, c2)

\* The message gen_update_request makes.
UpdateEntry(c1, c2, op, id) ==
  [w |-> kw, ut |-> St(c1, c2),
   e |-> ELink(St(c1, c2), Prev(c1, c2), op, id), p |-> PLink(c2, op, id)]

\* One turn of the job's loop: gen_update_request, then writer->Write.
WriteUpdate(op, id) ==
  LET c1 == WC1[kw] + 1
  IN  /\ pc = "update"
      /\ c1 <= MaxC1
      /\ WC1' = [WC1 EXCEPT ![kw] = c1]
      /\ net' = Append(net, UpdateEntry(c1, WC2[kw], op, id))
      /\ live' = [live EXCEPT ![kw] = Apply(@, op, id)]
      /\ UNCHANGED <<pc, kw, db, WC2, es, ps, srv, reply, vi, Rp, result>>

\* writer->Finish returns once the server has read the whole stream.
FinishUpdate == /\ pc = "update" /\ net = <<>>
                /\ pc' = "exit"
                /\ UNCHANGED <<kw, db, WC1, WC2, net, es, ps, srv, reply, vi, Rp, live, result>>

\* Mutation: store() does not replace an entry that is already there.
ExitKeepingOld ==
  /\ pc = "exit"
  /\ pc' = "off" /\ kw' = None
  /\ db' = [w \in Keyword |-> IF db[w].c1 = 0 THEN [c1 |-> WC1[w], c2 |-> WC2[w]]
                                              ELSE db[w]]
  /\ reply' = None /\ vi' = 0 /\ Rp' = {}
  /\ UNCHANGED <<WC1, WC2, net, es, ps, srv, live, result>>

\* ~Client(): every counter is stored, and the process ends.
Exit == /\ pc = "exit"
        /\ pc' = "off" /\ kw' = None
        /\ db' = [w \in Keyword |-> [c1 |-> WC1[w], c2 |-> WC2[w]]]
        /\ reply' = None /\ vi' = 0 /\ Rp' = {}
        /\ UNCHANGED <<WC1, WC2, net, es, ps, srv, live, result>>

\* search(): gen_search_token, and the server's handler starts on the request.
\* A keyword without counters sends an empty request (c1 = 0).  The bound on
\* the epoch leaves room for the ReProof the search may end in.
StartSearch(w) ==
  LET c1 == db[w].c1
      c2 == db[w].c2
  IN  /\ pc = "off" /\ srv = None
      /\ c2 < MaxC2
      /\ pc' = "search" /\ kw' = w
      /\ Load
      /\ srv' = [w |-> w, c1 |-> c1, c2 |-> c2, i |-> c1,
                 st |-> IF c1 = 0 THEN NoSt ELSE St(c1, c2),
                 e |-> None, proof |-> None, R |-> {}, Del |-> {}, Uts |-> {},
                 P |-> [j \in 1..MaxC1 |-> None], junk |-> FALSE]
      /\ reply' = None /\ vi' = 0 /\ Rp' = {}
      /\ UNCHANGED <<db, net, es, ps, live, result>>

-----------------------------------------------------------------------------
(* The server.                                                             *)

\* batch_update and ReProof: the next entry received is stored.
ServerStore ==
  /\ net # <<>>
  /\ LET m == Head(net) IN
       /\ es' = [es EXCEPT ![m.w] = Put(@, m.ut, m.e)]
       /\ ps' = [ps EXCEPT ![m.w] = Put(@, m.ut, m.p)]
  /\ net' = Tail(net)
  /\ UNCHANGED <<pc, kw, db, WC1, WC2, srv, reply, vi, Rp, live, result>>

\* The two lookups at the head of each turn.  A lookup that finds nothing
\* leaves `e' and `proof' as the previous turn left them.
LookE == Get(es[srv.w], srv.st, srv.e)
LookP == Get(ps[srv.w], srv.st, srv.proof)
LookedP == [srv.P EXCEPT ![srv.i] = LookP]
LookedUts == srv.Uts \cup {srv.st}

\* The locals after a turn: i-- and what the turn made of the others.
Turn(st, R, Del, junk) ==
  [w |-> srv.w, c1 |-> srv.c1, c2 |-> srv.c2, i |-> srv.i - 1, st |-> st,
   e |-> LookE, proof |-> LookP, R |-> R, Del |-> Del,
   Uts |-> LookedUts, P |-> LookedP, junk |-> junk]

\* M = Xor(e, H2(s_w . st)) is a link when e was made for this label.
IsLink(cell, st) == cell.tag = "link" /\ cell.at = st
IsSnap(cell, st) == cell.tag = "snap" /\ cell.at = st

\* Mutations: the document is cut out of M one byte early; deletions are
\* forgotten.
AddWithOp(R, Del, op, id) == IF op = "1" /\ id \notin Del THEN R \cup {<<op, id>>} ELSE R
AddAlways(R, Del, op, id) == IF op = "1" THEN R \cup {id} ELSE R

\* R gains an added document that no newer update deleted.
AddUnlessDeleted(R, Del, op, id) ==
  IF op = "1" /\ id \notin Del THEN R \cup {id} ELSE R

\* search(), one turn of while (i > 1).
ServerWalk ==
  /\ srv # None /\ srv.i > 1 /\ LookE # None
  /\ IsLink(LookE, srv.st)
  /\ srv' = Turn(LookE.prev,
                 AddUnlessDeleted(srv.R, srv.Del, LookE.op, LookE.id),
                 IF LookE.op = "0" THEN srv.Del \cup {LookE.id} ELSE srv.Del,
                 srv.junk)
  /\ UNCHANGED <<pc, kw, db, WC1, WC2, net, es, ps, reply, vi, Rp, live, result>>

\* The same turn when e is not the entry of this label (a stale e, another
\* epoch's entry): M is random bytes, whose op is "1" for some of them.
ServerWalkJunk ==
  /\ srv # None /\ srv.i > 1 /\ LookE # None
  /\ ~IsLink(LookE, srv.st)
  /\ \E j \in {srv.junk, TRUE} : srv' = Turn(NoSt, srv.R, srv.Del, j)
  /\ UNCHANGED <<pc, kw, db, WC1, WC2, net, es, ps, reply, vi, Rp, live, result>>

\* M is "", and M.substr or the decryption of the empty snapshot throws: the
\* call fails and the client reads no row.  An empty request ends here too.
ServerThrow ==
  /\ srv # None /\ LookE = None
  /\ srv' = None
  /\ reply' = [ok |-> FALSE, R |-> {}, junk |-> FALSE, P |-> srv.P]
  /\ UNCHANGED <<pc, kw, db, WC1, WC2, net, es, ps, vi, Rp, live, result>>

\* What the oldest entry of the chain adds to R: a link in epoch 0, the
\* snapshot of the previous epoch's answer afterwards.
Oldest(e) ==
  IF srv.c2 = 0
    THEN IF IsLink(e, srv.st)
           THEN {[R |-> AddUnlessDeleted(srv.R, srv.Del, e.op, e.id), junk |-> srv.junk]}
           ELSE {[R |-> srv.R, junk |-> j] : j \in {srv.junk, TRUE}}
    ELSE IF IsSnap(e, srv.st)
           THEN {[R |-> srv.R \cup (e.ids \ srv.Del), junk |-> srv.junk]}
           ELSE {[R |-> srv.R, junk |-> srv.junk \/ e # ESnap(e.at, {})]}

\* After the walk (i = 1): if the chain is longer than the answer the walked
\* "e" entries are deleted (the other delete names "l" entries, of which there
\* are none), then the answer and the proofs are streamed.  Junk documents
\* count in R.size(), in any number.
ServerLast ==
  /\ srv # None /\ srv.i <= 1 /\ LookE # None
  /\ \E out \in Oldest(LookE), wipe \in BOOLEAN :
       /\ wipe => srv.c1 > Cardinality(out.R)
       /\ ~wipe => srv.c1 <= Cardinality(out.R) \/ out.junk
       /\ es' = IF wipe THEN [es EXCEPT ![srv.w] = Delete(@, LookedUts)]
                        ELSE es
       /\ reply' = [ok |-> TRUE, R |-> out.R, junk |-> out.junk, P |-> LookedP]
  /\ srv' = None
  /\ UNCHANGED <<pc, kw, db, WC1, WC2, net, ps, vi, Rp, live, result>>

-----------------------------------------------------------------------------
(* The client's search(), once the stream has ended: verify(), one entry a *)
(* turn, then ReProof() if the chain was longer than the answer.           *)

Conclude(verdict, ids) == result' = [kw |-> kw, verdict |-> verdict, ids |-> ids]

\* P.size() - 1 # c1: P holds the non-empty proofs and the "#" of P[0]; with
\* no row at all P.size() - 1 wraps around.
Complete == reply.ok /\ \A j \in 1..WC1[kw] : reply.P[j] # None

\* Mutation: a reply without rows is not recognised.
RejectCountOfRows ==
  /\ pc = "search" /\ reply # None /\ vi = 0
  /\ reply.ok /\ ~Complete
  /\ Conclude("Reject", {})
  /\ pc' = "exit"
  /\ UNCHANGED <<kw, db, WC1, WC2, net, es, ps, srv, reply, vi, Rp, live>>

RejectCount ==
  /\ pc = "search" /\ reply # None /\ vi = 0
  /\ ~Complete
  /\ Conclude("Reject", {})
  /\ pc' = "exit"
  /\ UNCHANGED <<kw, db, WC1, WC2, net, es, ps, srv, reply, vi, Rp, live>>

\* What one decrypted proof does to R_prime.  Rp = None stands for an R_prime
\* with junk in it, which equals no answer.
Opens(cell, tag) == cell.tag = tag /\ cell.c2 = WC2[kw]
Step(cell, ids) == IF Opens(cell, "link") THEN {Apply(ids, cell.op, cell.id)}
                                          ELSE {ids, None}

VerifyFirst ==
  /\ pc = "search" /\ reply # None /\ vi = 0
  /\ Complete
  /\ LET cell == reply.P[1] IN
       Rp' \in IF WC2[kw] = 0 THEN Step(cell, {})
               ELSE IF Opens(cell, "snap") THEN {cell.ids}
               ELSE {IF cell = PSnap(cell.c2, {}) THEN {} ELSE None}
  /\ vi' = 1
  /\ UNCHANGED <<pc, kw, db, WC1, WC2, net, es, ps, srv, reply, live, result>>

VerifyNext ==
  /\ pc = "search" /\ vi \in 1..(WC1[kw] - 1)
  /\ Rp' \in IF Rp = None THEN {None} ELSE Step(reply.P[vi + 1], Rp)
  /\ vi' = vi + 1
  /\ UNCHANGED <<pc, kw, db, WC1, WC2, net, es, ps, srv, reply, live, result>>

\* set_equal(R, R_prime)
SetEqual == ~reply.junk /\ Rp # None /\ reply.R = Rp

RejectResult ==
  /\ pc = "search" /\ vi = WC1[kw] /\ vi > 0
  /\ ~SetEqual
  /\ Conclude("Reject", {})
  /\ pc' = "exit"
  /\ UNCHANGED <<kw, db, WC1, WC2, net, es, ps, srv, reply, vi, Rp, live>>

\* Mutation: the "#" of P[0] is counted as a proof.
LongerByTwo == WC1[kw] > Cardinality(reply.R) + 1

\* The client compacts on the same condition as the server.
Longer == WC1[kw] > Cardinality(reply.R)

AcceptResult ==
  /\ pc = "search" /\ vi = WC1[kw] /\ vi > 0
  /\ SetEqual /\ ~Longer
  /\ Conclude("Accept", reply.R)
  /\ pc' = "exit"
  /\ UNCHANGED <<kw, db, WC1, WC2, net, es, ps, srv, reply, vi, Rp, live>>

\* Mutations: the snapshot is stored under a label of the old epoch; the loop
\* over the answer ends one document early.
ReProofEntryOfOldEpoch(c2, ids) ==
  [w |-> kw, ut |-> St(1, c2 - 1), e |-> ESnap(St(1, c2), ids), p |-> PSnap(c2, ids)]
ReProofEntryTooShort(c2, ids) ==
  LET R == IF ids = {} THEN {} ELSE ids \ {CHOOSE id \in ids : TRUE}
  IN  [w |-> kw, ut |-> St(1, c2), e |-> ESnap(St(1, c2), R), p |-> PSnap(c2, R)]

\* The message ReProof() makes: entry 1 of epoch c2 is a snapshot of the answer.
ReProofEntry(c2, ids) ==
  [w |-> kw, ut |-> St(1, c2), e |-> ESnap(St(1, c2), ids), p |-> PSnap(c2, ids)]

\* ReProof(): the counters move to entry 1 of the next epoch before the call
\* is made.
AcceptAndReProof ==
  LET c2 == WC2[kw] + 1
  IN  /\ pc = "search" /\ vi = WC1[kw] /\ vi > 0
      /\ SetEqual /\ Longer
      /\ Conclude("Accept", reply.R)
      /\ WC1' = [WC1 EXCEPT ![kw] = 1]
      /\ WC2' = [WC2 EXCEPT ![kw] = c2]
      /\ net' = Append(net, ReProofEntry(c2, reply.R))
      /\ pc' = "reproof"
      /\ UNCHANGED <<kw, db, es, ps, srv, reply, vi, Rp, live>>

\* stub_->ReProof returns; its status is not looked at.
FinishReProof ==
  /\ pc = "reproof" /\ net = <<>>
  /\ pc' = "exit"
  /\ UNCHANGED <<kw, db, WC1, WC2, net, es, ps, srv, reply, vi, Rp, live, result>>

-----------------------------------------------------------------------------
ServerHandler == ServerStore \/ ServerWalk \/ ServerWalkJunk \/ ServerThrow \/ ServerLast
ClientSearch  == RejectCount \/ VerifyFirst \/ VerifyNext
                 \/ RejectResult \/ AcceptResult \/ AcceptAndReProof \/ FinishReProof

Next == \/ \E w \in Keyword : StartUpdate(w) \/ StartSearch(w)
        \/ \E op \in Op, id \in Id : WriteUpdate(op, id)
        \/ FinishUpdate \/ Exit
        \/ ClientSearch
        \/ ServerHandler

Spec == Init /\ [][Next]_vars

\* A handler that runs, and a client that is not waiting for the user, go on.
Fairness == /\ WF_vars(ServerHandler)
            /\ WF_vars(ClientSearch \/ FinishUpdate \/ Exit)

FairSpec == Spec /\ Fairness

-----------------------------------------------------------------------------
(* Properties.                                                             *)

\* Types of the client's counters and locals, the server's entries and the
\* messages between them; a command that runs has a keyword.
TypeOK ==
  /\ pc \in {"off", "update", "search", "reproof", "exit"}
  /\ kw \in Keyword \cup {None}
  /\ pc # "off" => kw \in Keyword
  /\ db \in [Keyword -> [c1 : 0..MaxC1, c2 : 0..MaxC2]]
  /\ WC1 \in [Keyword -> 0..MaxC1]
  /\ WC2 \in [Keyword -> 0..MaxC2]
  /\ net \in Seq(Message)
  /\ \A w \in Keyword : /\ DOMAIN es[w] \subseteq Label
                        /\ \A l \in DOMAIN es[w] : es[w][l] \in ECell
                        /\ DOMAIN ps[w] \subseteq Label
                        /\ \A l \in DOMAIN ps[w] : ps[w][l] \in PCell
  /\ DOMAIN es = Keyword /\ DOMAIN ps = Keyword
  /\ srv \in SrvType \cup {None}
  /\ reply \in ReplyType \cup {None}
  /\ vi \in 0..MaxC1
  /\ Rp \in (SUBSET Id) \cup {None}
  /\ live \in [Keyword -> SUBSET Id]
  /\ result \in ResultType \cup {None}

\* The labels of the entries the counters c1, c2 stand for.
Chain(c1, c2) == {St(i, c2) : i \in 1..c1}

\* Whenever no command runs, the server's index of a keyword is exactly the
\* chain the saved counters name: an entry too few (deleted by a search whose
\* ReProof was not made) would fail every later search, an entry too many
\* would be one the compaction forgot.
SearchableAtRest ==
  pc = "off" => \A w \in Keyword : DOMAIN es[w] = Chain(db[w].c1, db[w].c2)

\* The search handler reuses `e' and `proof' from turn to turn and ignores the
\* status of get(): it is right only because no lookup ever misses, whatever
\* labels of earlier epochs coincide with those of this one.
NoStaleRead ==
  srv # None /\ srv.c1 > 0 =>
    /\ srv.st \in DOMAIN es[srv.w] /\ srv.st \in DOMAIN ps[srv.w]
    /\ es[srv.w][srv.st].at = St(srv.i, srv.c2)
    /\ ps[srv.w][srv.st].c2 = srv.c2

\* The client is about to accept the answer it holds.
Accepting == pc = "search" /\ vi > 0 /\ vi = WC1[kw] /\ SetEqual

\* Whatever was lost on the way to the server or by it, an accepted answer
\* holds no document that is not attached: a gap in the chain can only hide
\* older updates, and the newest update of a document decides.
AcceptedIsLive == Accepting => reply.R \subseteq live[kw]

\* The client's and the server's view together keep the promise of SSEIndex:
\* every search of an updated keyword is accepted with exactly the documents
\* attached to it, before and after any number of compactions.
Index == INSTANCE SSEIndex WITH updated <- {w \in Keyword : WC1[w] > 0}
IndexSpec == Index!Spec

\* A search ends, and with it the command.
SearchEnds == pc = "search" ~> pc = "off"

\* When the server has deleted the entries of a keyword, the client's snapshot
\* of the answer replaces them in the end.
Wiped(w) == WC1[w] > 0 /\ pc \in {"search", "reproof"} /\ DOMAIN es[w] = {}
CompactionCompletes ==
  \A w \in Keyword : Wiped(w) ~> DOMAIN es[w] = Chain(1, WC2[w])
=============================================================================
