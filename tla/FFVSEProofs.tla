---------------------------- MODULE FFVSEProofs ----------------------------
(***************************************************************************)
(* Proofs about FFVSE, for every set of keywords and documents, every      *)
(* labelling that keeps the entries of one epoch apart, and every bound.   *)
(***************************************************************************)
EXTENDS FFVSE, FiniteSetTheorems, TLAPS

-----------------------------------------------------------------------------
(* Type correctness.                                                       *)

\* What the type invariant rests on: a search is only started with room for a
\* further epoch; no reply is read before the handler has ended; a keyword
\* without counters gets no rows; and the client goes past the count of the
\* proofs only when it holds every one of them.
Guarded == /\ pc = "search" => WC2[kw] < MaxC2
           /\ srv # None => /\ pc = "search" /\ reply = None /\ vi = 0
                            /\ srv.w = kw /\ srv.c1 = WC1[kw]
                            /\ srv.c1 = 0 => srv.st = NoSt /\ srv.e = None /\ srv.i = 0
           /\ pc = "search" /\ reply # None /\ reply.ok => WC1[kw] > 0
           /\ pc = "search" /\ vi > 0 => reply # None /\ Complete

TypeInv == TypeOK /\ Guarded

LEMMA InitType == Init => TypeInv
  BY BoundsAssumption DEF Init, TypeInv, TypeOK, Guarded

\* A link and a snapshot are entries, whatever they hold.
LEMMA CellTypes ==
  ASSUME NEW c1 \in 1..MaxC1, NEW c2 \in 0..MaxC2
  PROVE  /\ St(c1, c2) \in Label
         /\ \A op \in Op, id \in Id :
              /\ PLink(c2, op, id) \in PCell
              /\ \A prev \in Label \cup {NoSt} : ELink(St(c1, c2), prev, op, id) \in ECell
         /\ \A ids \in SUBSET Id :
              /\ PSnap(c2, ids) \in PCell
              /\ ESnap(St(c1, c2), ids) \in ECell
  BY DEF Label, PLink, PSnap, PCell, ELink, ESnap, ECell

LEMMA ApplyType ==
  ASSUME NEW ids \in SUBSET Id, NEW op \in Op, NEW id \in Id
  PROVE  Apply(ids, op, id) \in SUBSET Id
  BY DEF Apply

LEMMA StartedType ==
  ASSUME TypeInv, NEW w \in Keyword, StartSearch(w)
  PROVE  srv' \in SrvType
<1> DEFINE c1 == db[w].c1
           c2 == db[w].c2
<1>1. c1 \in 0..MaxC1 /\ c2 \in 0..MaxC2 /\ c2 < MaxC2
  BY DEF StartSearch, TypeInv, TypeOK
<1>2. c1 # 0 => St(c1, c2) \in Label
  BY <1>1, CellTypes
<1>3. QED
  BY <1>1, <1>2 DEF StartSearch, SrvType

LEMMA StartType ==
  ASSUME TypeInv, NEW w \in Keyword, StartUpdate(w) \/ StartSearch(w)
  PROVE  TypeInv'
<1>1. CASE StartUpdate(w)
  BY <1>1 DEF StartUpdate, Load, TypeInv, TypeOK, Guarded
<1>2. CASE StartSearch(w)
  <2>1. db[w].c1 \in 0..MaxC1 /\ db[w].c2 \in 0..MaxC2 /\ db[w].c2 < MaxC2
    BY <1>2 DEF StartSearch, TypeInv, TypeOK
  <2>2. srv' \in SrvType
    BY <1>2, StartedType
  <2>3. QED
    BY <1>2, <2>1, <2>2, BoundsAssumption DEF StartSearch, Load, TypeInv, TypeOK, Guarded
<1>3. QED
  BY <1>1, <1>2

LEMMA WriteType ==
  ASSUME TypeInv, NEW op \in Op, NEW id \in Id, WriteUpdate(op, id)
  PROVE  TypeInv'
<1> DEFINE c1 == WC1[kw] + 1
           c2 == WC2[kw]
           m == UpdateEntry(c1, c2, op, id)
<1>1. c1 \in 1..MaxC1 /\ c2 \in 0..MaxC2 /\ kw \in Keyword
  BY BoundsAssumption DEF WriteUpdate, TypeInv, TypeOK
<1>2. Prev(c1, c2) \in Label \cup {NoSt}
  <2>1. c1 # 1 => c1 - 1 \in 1..MaxC1
    BY <1>1, BoundsAssumption
  <2>2. QED
    BY <1>1, <2>1, CellTypes DEF Prev
<1>3. m \in Message
  BY <1>1, <1>2, CellTypes DEF Message, UpdateEntry
<1>4. net' \in Seq(Message)
  BY <1>3 DEF WriteUpdate, TypeInv, TypeOK
<1>5. live' \in [Keyword -> SUBSET Id]
  BY <1>1, ApplyType DEF WriteUpdate, TypeInv, TypeOK
<1>6. QED
  BY <1>1, <1>4, <1>5 DEF WriteUpdate, TypeInv, TypeOK, Guarded

LEMMA StoreType ==
  ASSUME TypeInv, ServerStore
  PROVE  TypeInv'
<1> DEFINE m == Head(net)
<1>1. m \in Message /\ net' \in Seq(Message)
  BY DEF ServerStore, TypeInv, TypeOK
<1>2. m.w \in Keyword /\ m.ut \in Label /\ m.e \in ECell /\ m.p \in PCell
  BY <1>1 DEF Message
<1>3. /\ es' = [es EXCEPT ![m.w] = Put(es[m.w], m.ut, m.e)]
      /\ ps' = [ps EXCEPT ![m.w] = Put(ps[m.w], m.ut, m.p)]
  BY DEF ServerStore
<1>4. \A w \in Keyword : DOMAIN es'[w] \subseteq Label /\ \A l \in DOMAIN es'[w] : es'[w][l] \in ECell
  <2>1. DOMAIN es[m.w] \subseteq Label /\ \A l \in DOMAIN es[m.w] : es[m.w][l] \in ECell
    BY <1>2 DEF TypeInv, TypeOK
  <2>2. /\ DOMAIN Put(es[m.w], m.ut, m.e) \subseteq Label
        /\ \A l \in DOMAIN Put(es[m.w], m.ut, m.e) : Put(es[m.w], m.ut, m.e)[l] \in ECell
    BY <1>2, <2>1 DEF Put
  <2>3. QED
    BY <1>2, <1>3, <2>2 DEF TypeInv, TypeOK
<1>5. \A w \in Keyword : DOMAIN ps'[w] \subseteq Label /\ \A l \in DOMAIN ps'[w] : ps'[w][l] \in PCell
  <2>1. DOMAIN ps[m.w] \subseteq Label /\ \A l \in DOMAIN ps[m.w] : ps[m.w][l] \in PCell
    BY <1>2 DEF TypeInv, TypeOK
  <2>2. /\ DOMAIN Put(ps[m.w], m.ut, m.p) \subseteq Label
        /\ \A l \in DOMAIN Put(ps[m.w], m.ut, m.p) : Put(ps[m.w], m.ut, m.p)[l] \in PCell
    BY <1>2, <2>1 DEF Put
  <2>3. QED
    BY <1>2, <1>3, <2>2 DEF TypeInv, TypeOK
<1>6. DOMAIN es' = Keyword /\ DOMAIN ps' = Keyword
  BY <1>3 DEF TypeInv, TypeOK
<1>7. QED
  BY <1>1, <1>4, <1>5, <1>6 DEF ServerStore, TypeInv, TypeOK, Guarded, Complete

\* What the two lookups of a turn return, and what the turn makes of them.
LEMMA LookType ==
  ASSUME TypeInv, srv # None
  PROVE  /\ srv \in SrvType
         /\ LookE \in ECell \cup {None}
         /\ LookP \in PCell \cup {None}
         /\ LookedP \in [1..MaxC1 -> PCell \cup {None}]
         /\ srv.i > 1 =>
              \A st \in Label \cup {NoSt}, R, Del \in SUBSET Id, junk \in BOOLEAN :
                Turn(st, R, Del, junk) \in SrvType
<1>1. srv \in SrvType
  BY DEF TypeInv, TypeOK
<1>2. LookE \in ECell \cup {None} /\ LookP \in PCell \cup {None}
  BY <1>1 DEF LookE, LookP, Get, SrvType, TypeInv, TypeOK
<1>3. LookedP \in [1..MaxC1 -> PCell \cup {None}]
  BY <1>1, <1>2 DEF LookedP, SrvType
<1>4. LookedUts \in SUBSET (Label \cup {NoSt})
  BY <1>1 DEF LookedUts, SrvType
<1>5. srv.i > 1 => srv.i - 1 \in 0..MaxC1
  BY <1>1, BoundsAssumption DEF SrvType
<1>6. QED
  BY <1>1, <1>2, <1>3, <1>4, <1>5 DEF Turn, SrvType

\* The empty request finds no entry.
LEMMA NoRows ==
  ASSUME TypeInv, srv # None, LookE # None
  PROVE  WC1[kw] > 0
<1>1. srv \in SrvType /\ srv.c1 = WC1[kw] /\ srv.w \in Keyword
  BY DEF TypeInv, TypeOK, Guarded, SrvType
<1>2. NoSt \notin Label
  BY StAssumption DEF Label
<1>3. srv.c1 # 0
  BY <1>1, <1>2 DEF LookE, Get, TypeInv, TypeOK, Guarded
<1>4. QED
  BY <1>1, <1>3, BoundsAssumption DEF SrvType

\* A turn of the walk keeps what the guards rest on.
LEMMA WalkGuarded ==
  ASSUME TypeInv, srv # None, srv.i > 1,
         NEW st, NEW R, NEW Del, NEW junk, srv' = Turn(st, R, Del, junk),
         UNCHANGED <<pc, kw, WC1, WC2, reply, vi>>
  PROVE  Guarded'
<1>1. srv.c1 # 0
  BY DEF TypeInv, Guarded
<1>2. srv'.w = srv.w /\ srv'.c1 = srv.c1
  BY DEF Turn
<1>3. QED
  BY <1>1, <1>2 DEF TypeInv, Guarded, Complete

LEMMA OldestType ==
  ASSUME srv \in SrvType, NEW e \in ECell, NEW out \in Oldest(e)
  PROVE  out.R \in SUBSET Id /\ out.junk \in BOOLEAN
<1>1. srv.R \in SUBSET Id /\ srv.junk \in BOOLEAN
  BY DEF SrvType
<1>2. CASE srv.c2 = 0 /\ IsLink(e, srv.st)
  BY <1>1, <1>2 DEF Oldest, IsLink, AddUnlessDeleted, ECell
<1>3. CASE srv.c2 = 0 /\ ~IsLink(e, srv.st)
  <2>1. PICK j \in {srv.junk, TRUE} : out = [R |-> srv.R, junk |-> j]
    BY <1>3 DEF Oldest
  <2>2. out.R = srv.R /\ out.junk = j
    BY <2>1, Zenon
  <2>3. QED
    BY <1>1, <2>2
<1>4. CASE srv.c2 # 0 /\ IsSnap(e, srv.st)
  BY <1>1, <1>4 DEF Oldest, IsSnap, ECell
<1>5. CASE srv.c2 # 0 /\ ~IsSnap(e, srv.st)
  <2>1. out = [R |-> srv.R, junk |-> srv.junk \/ e # ESnap(e.at, {})]
    BY <1>5 DEF Oldest
  <2>2. out.R = srv.R /\ out.junk = (srv.junk \/ e # ESnap(e.at, {}))
    BY <2>1, Zenon
  <2>3. (srv.junk \/ e # ESnap(e.at, {})) \in BOOLEAN
    OBVIOUS
  <2>4. QED
    BY <1>1, <2>2, <2>3
<1>6. QED
  BY <1>2, <1>3, <1>4, <1>5

\* After a turn of the walk the locals are what Turn makes them.
LEMMA WalkedType ==
  ASSUME TypeInv, ServerWalk \/ ServerWalkJunk
  PROVE  srv' \in SrvType
<1>1. srv \in SrvType /\ LookE \in ECell /\ srv.i > 1
  BY LookType DEF ServerWalk, ServerWalkJunk
<1>2. CASE ServerWalk
  <2>1. LookE.prev \in Label \cup {NoSt} /\ LookE.op \in Op /\ LookE.id \in Id
    BY <1>1, <1>2 DEF ServerWalk, IsLink, ECell
  <2>2. AddUnlessDeleted(srv.R, srv.Del, LookE.op, LookE.id) \in SUBSET Id
    BY <1>1, <2>1 DEF AddUnlessDeleted, SrvType
  <2>3. srv' = Turn(LookE.prev, AddUnlessDeleted(srv.R, srv.Del, LookE.op, LookE.id),
                    IF LookE.op = "0" THEN srv.Del \cup {LookE.id} ELSE srv.Del, srv.junk)
    BY <1>2 DEF ServerWalk
  <2>4. srv.junk \in BOOLEAN /\ srv # None
    BY <1>1, <1>2 DEF ServerWalk, SrvType
  <2>5. (IF LookE.op = "0" THEN srv.Del \cup {LookE.id} ELSE srv.Del) \in SUBSET Id
    BY <1>1, <2>1 DEF SrvType
  <2>6. QED
    BY <1>1, <2>1, <2>2, <2>3, <2>4, <2>5, LookType
<1>3. CASE ServerWalkJunk
  <2>1. PICK j \in {srv.junk, TRUE} : srv' = Turn(NoSt, srv.R, srv.Del, j)
    BY <1>3 DEF ServerWalkJunk
  <2>2. srv # None /\ j \in BOOLEAN /\ srv.R \in SUBSET Id /\ srv.Del \in SUBSET Id
    BY <1>1, <1>3 DEF ServerWalkJunk, SrvType
  <2>3. QED
    BY <1>1, <2>1, <2>2, LookType
<1>4. QED
  BY <1>2, <1>3

\* A handler that ends leaves a reply.
LEMMA RepliedType ==
  ASSUME TypeInv, ServerThrow \/ ServerLast
  PROVE  reply' \in ReplyType
<1>1. srv \in SrvType /\ LookE \in ECell \cup {None} /\ srv # None
  BY LookType DEF ServerThrow, ServerLast
<1>2. CASE ServerThrow
  BY <1>1, <1>2 DEF ServerThrow, ReplyType, SrvType
<1>3. CASE ServerLast
  <2>1. PICK out \in Oldest(LookE) :
          reply' = [ok |-> TRUE, R |-> out.R, junk |-> out.junk, P |-> LookedP]
    BY <1>3 DEF ServerLast
  <2>2. out.R \in SUBSET Id /\ out.junk \in BOOLEAN
    BY <1>1, <1>3, <2>1, OldestType DEF ServerLast
  <2>3. QED
    BY <1>1, <2>1, <2>2, LookType DEF ReplyType
<1>4. QED
  BY <1>2, <1>3

LEMMA HandlerType ==
  ASSUME TypeInv, ServerWalk \/ ServerWalkJunk \/ ServerThrow \/ ServerLast
  PROVE  TypeInv'
<1>1. CASE ServerWalk \/ ServerWalkJunk
  <2>1. srv' \in SrvType
    BY <1>1, WalkedType
  <2>2. TypeOK'
    BY <1>1, <2>1 DEF ServerWalk, ServerWalkJunk, TypeInv, TypeOK
  <2>3. Guarded'
    BY <1>1, WalkGuarded DEF ServerWalk, ServerWalkJunk
  <2>4. QED
    BY <2>2, <2>3 DEF TypeInv
<1>2. CASE ServerThrow
  BY <1>2, RepliedType DEF ServerThrow, TypeInv, TypeOK, Guarded
<1>3. CASE ServerLast
  <2>1. PICK wipe \in BOOLEAN :
          es' = IF wipe THEN [es EXCEPT ![srv.w] = Delete(@, LookedUts)] ELSE es
    BY <1>3 DEF ServerLast
  <2>2. srv.w \in Keyword
    BY <1>3, LookType DEF ServerLast, SrvType
  <2>3. /\ DOMAIN es' = Keyword
        /\ \A w \in Keyword : DOMAIN es'[w] \subseteq Label /\ \A l \in DOMAIN es'[w] : es'[w][l] \in ECell
    BY <2>1, <2>2 DEF Delete, TypeInv, TypeOK
  <2>4. TypeOK'
    BY <1>3, <2>3, RepliedType DEF ServerLast, TypeInv, TypeOK
  <2>5. WC1[kw] > 0
    BY <1>3, NoRows DEF ServerLast
  <2>6. Guarded'
    BY <1>3, <2>5 DEF ServerLast, TypeInv, Guarded
  <2>7. QED
    BY <2>4, <2>6 DEF TypeInv
<1>4. QED
  BY <1>1, <1>2, <1>3

\* One decrypted proof leaves R_prime a set of documents, or junk.
LEMMA StepType ==
  ASSUME NEW cell \in PCell, NEW ids \in SUBSET Id
  PROVE  Step(cell, ids) \subseteq (SUBSET Id) \cup {None}
  BY ApplyType DEF Step, Opens, PCell

LEMMA ClientType ==
  ASSUME TypeInv, ClientSearch \/ FinishUpdate \/ Exit
  PROVE  TypeInv'
<1>1. CASE RejectCount \/ RejectResult
  BY <1>1 DEF RejectCount, RejectResult, Conclude, ResultType, TypeInv, TypeOK, Guarded
<1>2. CASE VerifyFirst
  <2>1. reply \in ReplyType /\ kw \in Keyword /\ WC1[kw] \in 0..MaxC1
    BY <1>2 DEF VerifyFirst, TypeInv, TypeOK
  <2>2. reply.P[1] \in PCell \cup {None}
    BY <2>1, BoundsAssumption DEF ReplyType
  <2>3. Rp' \in (SUBSET Id) \cup {None}
    <3> DEFINE cell == reply.P[1]
    <3>1. WC1[kw] > 0 /\ cell # None
      BY <1>2, <2>1 DEF VerifyFirst, Complete, TypeInv, Guarded
    <3>2. cell \in PCell
      BY <2>2, <3>1
    <3>3. Step(cell, {}) \subseteq (SUBSET Id) \cup {None}
      BY <3>2, StepType
    <3>4. Opens(cell, "snap") => cell.ids \in SUBSET Id
      BY <3>2 DEF Opens, PCell
    <3>5. \/ Rp' \in Step(cell, {})
          \/ Opens(cell, "snap") /\ Rp' = cell.ids
          \/ Rp' = {} \/ Rp' = None
      BY <1>2 DEF VerifyFirst
    <3>6. QED
      BY <3>3, <3>4, <3>5
  <2>4. QED
    BY <1>2, <2>3, BoundsAssumption DEF VerifyFirst, TypeInv, TypeOK, Guarded, Complete
<1>3. CASE VerifyNext
  <2>1. reply \in ReplyType /\ kw \in Keyword /\ WC1[kw] \in 0..MaxC1 /\ Complete
    BY <1>3, BoundsAssumption DEF VerifyNext, TypeInv, TypeOK, Guarded
  <2>2. vi + 1 \in 1..WC1[kw] /\ vi + 1 \in 1..MaxC1
    BY <1>3, <2>1, BoundsAssumption DEF VerifyNext
  <2>3. reply.P[vi + 1] \in PCell
    BY <2>1, <2>2 DEF Complete, ReplyType
  <2>4. Rp' \in (SUBSET Id) \cup {None}
    BY <1>3, <2>3, StepType DEF VerifyNext, TypeInv, TypeOK
  <2>5. QED
    BY <1>3, <2>2, <2>4, BoundsAssumption DEF VerifyNext, TypeInv, TypeOK, Guarded, Complete
<1>4. CASE AcceptResult
  <2>1. reply \in ReplyType /\ kw \in Keyword
    BY <1>4 DEF AcceptResult, TypeInv, TypeOK, Guarded
  <2>2. result' \in ResultType
    BY <1>4, <2>1 DEF AcceptResult, Conclude, ResultType, ReplyType
  <2>3. QED
    BY <1>4, <2>2 DEF AcceptResult, TypeInv, TypeOK, Guarded
<1>5. CASE AcceptAndReProof
  <2> DEFINE c2 == WC2[kw] + 1
             m == ReProofEntry(c2, reply.R)
  <2>1. reply \in ReplyType /\ kw \in Keyword /\ WC2[kw] < MaxC2
    BY <1>5 DEF AcceptAndReProof, TypeInv, TypeOK, Guarded
  <2>2. c2 \in 0..MaxC2 /\ 1 \in 1..MaxC1 /\ reply.R \in SUBSET Id
    BY <2>1, BoundsAssumption DEF TypeInv, TypeOK, ReplyType
  <2>3. m \in Message
    BY <2>1, <2>2, CellTypes DEF Message, ReProofEntry
  <2>4. net' \in Seq(Message) /\ result' \in ResultType
    BY <1>5, <2>1, <2>2, <2>3 DEF AcceptAndReProof, Conclude, ResultType, TypeInv, TypeOK
  <2>5. WC1' \in [Keyword -> 0..MaxC1] /\ WC2' \in [Keyword -> 0..MaxC2]
    BY <1>5, <2>1, <2>2 DEF AcceptAndReProof, TypeInv, TypeOK
  <2>6. srv = None /\ vi # 0
    BY <1>5 DEF AcceptAndReProof, TypeInv, Guarded
  <2>7. TypeOK'
    BY <1>5, <2>4, <2>5 DEF AcceptAndReProof, TypeInv, TypeOK
  <2>8. Guarded'
    BY <1>5, <2>6 DEF AcceptAndReProof, Guarded
  <2>9. QED
    BY <2>7, <2>8 DEF TypeInv
<1>6. CASE FinishReProof \/ FinishUpdate
  BY <1>6 DEF FinishReProof, FinishUpdate, TypeInv, TypeOK, Guarded
<1>7. CASE Exit
  <2>1. db' \in [Keyword -> [c1 : 0..MaxC1, c2 : 0..MaxC2]]
    BY <1>7 DEF Exit, TypeInv, TypeOK
  <2>2. TypeOK'
    BY <1>7, <2>1, BoundsAssumption DEF Exit, TypeInv, TypeOK
  <2>3. Guarded'
    BY <1>7 DEF Exit, TypeInv, Guarded
  <2>4. QED
    BY <2>2, <2>3 DEF TypeInv
<1>8. QED
  BY <1>1, <1>2, <1>3, <1>4, <1>5, <1>6, <1>7 DEF ClientSearch

LEMMA NextType == TypeInv /\ [Next]_vars => TypeInv'
<1> SUFFICES ASSUME TypeInv, [Next]_vars PROVE TypeInv'
  OBVIOUS
<1>1. CASE UNCHANGED vars
  BY <1>1 DEF vars, TypeInv, TypeOK, Guarded, Complete
<1>2. CASE Next
  BY <1>2, StartType, WriteType, StoreType, HandlerType, ClientType DEF Next, ServerHandler
<1>3. QED
  BY <1>1, <1>2

\* The client, the server and the messages between them only ever hold what
\* the type invariant allows, whatever is updated and searched.
THEOREM TypeCorrect == Spec => []TypeOK
<1>1. TypeInv => TypeOK
  BY DEF TypeInv
<1>2. QED
  BY <1>1, InitType, NextType, PTL DEF Spec
-----------------------------------------------------------------------------
(* FFVSE keeps the promise of SSEIndex: the inductive invariant, and the   *)
(* safety properties that follow from it.                                  *)
(*                                                                         *)
(* For every keyword there are the messages M[1], M[2], ... of the current *)
(* epoch and the sets L[1], L[2], ... of documents they lead to, such that *)
(* everything the client, the server and the calls between them hold is    *)
(* explained by M and L.  The server reads M from the newest message to    *)
(* the oldest and the client from the oldest to the newest; L is what both *)
(* their results are compared with.                                        *)

Histories == [0..MaxC1 -> SUBSET Id]
Chains == [1..MaxC1 -> Message \cup {None}]

\* How many entries of the current epoch of w have reached the server.
Stored(w) == IF w = kw THEN WC1[w] - Len(net) ELSE WC1[w]

\* The server has deleted the entries of w and has no snapshot yet.
Deleted(w) ==
  /\ w = kw /\ WC1[w] > 0
  /\ \/ pc = "search" /\ reply # None /\ WC1[w] > Cardinality(live[w])
     \/ pc = "reproof" /\ net # <<>>

\* M[i] is entry i of epoch c2, and leads from L[i - 1] to L[i].
SnapAt(w, c2, L, M) ==
  M[1] = [w |-> w, ut |-> St(1, c2), e |-> ESnap(St(1, c2), L[1]), p |-> PSnap(c2, L[1])]
LinkAt(w, c2, L, M, i, op, id) ==
  /\ M[i] = [w |-> w, ut |-> St(i, c2), e |-> ELink(St(i, c2), Prev(i, c2), op, id), p |-> PLink(c2, op, id)]
  /\ L[i] = Apply(L[i - 1], op, id)
EntryAt(w, c2, L, M, i) ==
  IF i = 1 /\ c2 > 0 THEN SnapAt(w, c2, L, M)
  ELSE \E op \in Op, id \in Id : LinkAt(w, c2, L, M, i, op, id)

Explains(w, L, M) ==
  /\ L[0] = {} /\ L[WC1[w]] = live[w]
  /\ \A i \in 1..WC1[w] : EntryAt(w, WC2[w], L, M, i)

\* The stored entries and, unless deleted, nothing else under "e".
StoreHolds(w, M) ==
  /\ \A i \in 1..Stored(w) : /\ St(i, WC2[w]) \in DOMAIN ps[w]
                             /\ ps[w][St(i, WC2[w])] = M[i].p
  /\ Deleted(w) => DOMAIN es[w] = {}
  /\ ~Deleted(w) => /\ DOMAIN es[w] = Chain(Stored(w), WC2[w])
                    /\ \A i \in 1..Stored(w) : es[w][St(i, WC2[w])] = M[i].e

NetHolds(w, M) == w = kw => \A k \in 1..Len(net) : net[k] = M[Stored(w) + k]

\* The walk is at entry srv.i; R and Del make the answer of what is left.
WalkHolds(w, L, M) ==
  srv # None /\ w = kw /\ WC1[w] > 0 =>
    /\ srv.i \in 1..WC1[w] /\ srv.st = St(srv.i, WC2[w])
    /\ srv.junk = FALSE
    /\ srv.Uts = {St(j, WC2[w]) : j \in (srv.i + 1)..WC1[w]}
    /\ live[w] = srv.R \cup (L[srv.i] \ srv.Del)
    /\ \A j \in (srv.i + 1)..WC1[w] : srv.P[j] = M[j].p

\* The answer is right, and R_prime follows L.
ReplyHolds(w, L, M) ==
  pc = "search" /\ reply # None /\ w = kw =>
    /\ WC1[w] = 0 => reply.ok = FALSE /\ vi = 0
    /\ WC1[w] > 0 => /\ reply.ok = TRUE /\ reply.junk = FALSE /\ reply.R = live[w]
                     /\ \A j \in 1..WC1[w] : reply.P[j] = M[j].p
                     /\ vi \in 0..WC1[w]
                     /\ vi > 0 => Rp = L[vi]

Explained(w, L, M) ==
  /\ Explains(w, L, M) /\ StoreHolds(w, M) /\ NetHolds(w, M)
  /\ WalkHolds(w, L, M) /\ ReplyHolds(w, L, M)

\* What of a command is under way, and where the counters differ from db.
Phase ==
  /\ \A w \in Keyword : w # kw \/ pc \in {"off", "search"} => db[w] = [c1 |-> WC1[w], c2 |-> WC2[w]]
  /\ \A w \in Keyword : WC2[w] > 0 => WC1[w] > 0
  /\ pc = "off" => kw = None
  /\ net # <<>> => pc \in {"update", "reproof"}
  /\ kw \in Keyword => Len(net) <= WC1[kw]
  /\ pc = "reproof" => WC1[kw] = 1
  /\ srv # None => srv.c2 = WC2[kw]
  /\ pc = "search" => (srv # None <=> reply = None)

IInv == /\ TypeInv /\ Phase
        /\ \A w \in Keyword : \E L \in Histories, M \in Chains : Explained(w, L, M)

-----------------------------------------------------------------------------
(* The parts of the invariant that only speak of the phases.               *)

LEMMA InitInv == Init => IInv
<1> SUFFICES ASSUME Init PROVE IInv
  OBVIOUS
<1>1. TypeInv
  BY InitType
<1>2. Phase
  BY DEF Init, Phase
<1>3. ASSUME NEW w \in Keyword
      PROVE  \E L \in Histories, M \in Chains : Explained(w, L, M)
  <2> DEFINE L == [i \in 0..MaxC1 |-> {}]
             M == [i \in 1..MaxC1 |-> None]
  <2>1. L \in Histories /\ M \in Chains /\ L[0] = {}
    BY BoundsAssumption DEF Histories, Chains
  <2>2. WC1[w] = 0 /\ live[w] = {} /\ es[w] = <<>> /\ Stored(w) = 0 /\ ~Deleted(w)
    BY DEF Init, Stored, Deleted
  <2>3. Explains(w, L, M)
    <3>1. 1..0 = {}
      OBVIOUS
    <3>2. L[WC1[w]] = live[w]
      BY <2>1, <2>2
    <3>3. QED
      BY <2>1, <2>2, <3>1, <3>2 DEF Explains
  <2>4. StoreHolds(w, M)
    <3>1. DOMAIN es[w] = {}
      BY <2>2
    <3>2. 1..0 = {}
      OBVIOUS
    <3>3. Chain(0, WC2[w]) = {}
      BY <3>2 DEF Chain
    <3>4. QED
      BY <2>2, <3>1, <3>2, <3>3 DEF StoreHolds
  <2>5. NetHolds(w, M) /\ WalkHolds(w, L, M) /\ ReplyHolds(w, L, M)
    BY <2>2 DEF Init, NetHolds, WalkHolds, ReplyHolds
  <2>6. QED
    BY <2>1, <2>3, <2>4, <2>5 DEF Explained
<1>4. QED
  BY <1>1, <1>2, <1>3 DEF IInv

\* The types the proofs below use of the counters and the calls.
LEMMA Shapes ==
  ASSUME TypeInv
  PROVE  /\ WC1 \in [Keyword -> 0..MaxC1] /\ WC2 \in [Keyword -> 0..MaxC2]
         /\ live \in [Keyword -> SUBSET Id]
         /\ DOMAIN es = Keyword /\ DOMAIN ps = Keyword
         /\ net \in Seq(Message) /\ Len(net) \in Nat
         /\ db \in [Keyword -> [c1 : 0..MaxC1, c2 : 0..MaxC2]]
         /\ kw \in Keyword \cup {None} /\ (pc # "off" => kw \in Keyword)
         /\ \A w \in Keyword : /\ WC1[w] \in Nat /\ WC2[w] \in Nat
                               /\ Cardinality(live[w]) \in Nat
<1>1. live \in [Keyword -> SUBSET Id]
  BY DEF TypeInv, TypeOK
<1>2. \A w \in Keyword : Cardinality(live[w]) \in Nat
  BY <1>1, IdAssumption, FS_Subset, FS_CardinalityType
<1>3. QED
  BY <1>1, <1>2, BoundsAssumption DEF TypeInv, TypeOK

LEMMA PhaseNext ==
  ASSUME TypeInv, Phase, Next
  PROVE  Phase'
<1>1. CASE \E w \in Keyword : StartUpdate(w) \/ StartSearch(w)
  <2>1. PICK w \in Keyword : StartUpdate(w) \/ StartSearch(w)
    BY <1>1
  <2>2. WC1' = WC1 /\ WC2' = WC2
    BY <2>1, Shapes DEF StartUpdate, StartSearch, Load, Phase
  <2>3. pc = "off" /\ net = <<>> /\ net' = net /\ db' = db /\ kw' = w
    BY <2>1, Shapes DEF StartUpdate, StartSearch, Phase
  <2>4. CASE StartUpdate(w)
    BY <2>2, <2>3, <2>4, Shapes DEF StartUpdate, Phase, TypeInv, Guarded
  <2>5. CASE StartSearch(w)
    <3>1. srv' # None /\ reply' = None /\ srv'.c2 = WC2[w]
      BY <2>2, <2>5, StartedType, NoneAssumption DEF StartSearch, Load
    <3>2. QED
      BY <2>2, <2>3, <2>5, <3>1, Shapes DEF StartSearch, Phase
  <2>6. QED
    BY <2>1, <2>4, <2>5
<1>2. CASE \E op \in Op, id \in Id : WriteUpdate(op, id)
  <2>1. PICK op \in Op, id \in Id : WriteUpdate(op, id)
    BY <1>2
  <2>2. Len(net') = Len(net) + 1 /\ kw \in Keyword /\ WC1'[kw] = WC1[kw] + 1
    BY <2>1, Shapes DEF WriteUpdate
  <2>3. QED
    BY <2>1, <2>2, Shapes DEF WriteUpdate, Phase, TypeInv, Guarded
<1>3. CASE ServerStore
  <2>1. Len(net') = Len(net) - 1
    BY <1>3, Shapes DEF ServerStore
  <2>2. QED
    BY <1>3, <2>1, Shapes DEF ServerStore, Phase
<1>4. CASE ServerWalk \/ ServerWalkJunk
  <2>1. srv' # None /\ srv # None
    BY <1>4, WalkedType, NoneAssumption DEF ServerWalk, ServerWalkJunk
  <2>2. srv'.c2 = srv.c2
    BY <1>4 DEF ServerWalk, ServerWalkJunk, Turn
  <2>3. QED
    BY <1>4, <2>1, <2>2 DEF ServerWalk, ServerWalkJunk, Phase
<1>5. CASE ServerThrow \/ ServerLast
  <2>1. srv' = None /\ reply' # None
    BY <1>5, RepliedType, NoneAssumption DEF ServerThrow, ServerLast
  <2>2. QED
    BY <1>5, <2>1 DEF ServerThrow, ServerLast, Phase
<1>6. CASE FinishUpdate \/ FinishReProof \/ Exit
  <2>1. srv = None /\ srv' = None /\ net = <<>> /\ net' = <<>>
    BY <1>6 DEF FinishUpdate, FinishReProof, Exit, Phase, TypeInv, Guarded
  <2>2. CASE FinishUpdate \/ FinishReProof
    BY <2>1, <2>2, Shapes DEF FinishUpdate, FinishReProof, Phase
  <2>3. CASE Exit
    BY <2>1, <2>3, Shapes DEF Exit, Phase
  <2>4. QED
    BY <1>6, <2>2, <2>3
<1>7. CASE RejectCount \/ RejectResult \/ AcceptResult \/ VerifyFirst \/ VerifyNext
  BY <1>7, Shapes DEF RejectCount, RejectResult, AcceptResult, VerifyFirst, VerifyNext, Phase
<1>8. CASE AcceptAndReProof
  <2>1. net = <<>> /\ kw \in Keyword
    BY <1>8, Shapes DEF AcceptAndReProof, Phase
  <2>2. Len(net') = 1 /\ WC1'[kw] = 1
    BY <1>8, <2>1, Shapes DEF AcceptAndReProof
  <2>3. QED
    BY <1>8, <2>1, <2>2, Shapes DEF AcceptAndReProof, Phase, TypeInv, Guarded
<1>9. QED
  BY <1>1, <1>2, <1>3, <1>4, <1>5, <1>6, <1>7, <1>8 DEF Next, ClientSearch, ServerHandler

-----------------------------------------------------------------------------
(* What each action does to M and L: most of them nothing.                 *)

\* The index of a keyword no action touches stays explained.
LEMMA Kept ==
  ASSUME NEW w \in Keyword, NEW L \in Histories, NEW M \in Chains, Explained(w, L, M),
         WC1'[w] = WC1[w], WC2'[w] = WC2[w], live'[w] = live[w], es'[w] = es[w], ps'[w] = ps[w],
         Stored(w)' = Stored(w), Deleted(w)' = Deleted(w)
  PROVE  Explains(w, L, M)' /\ StoreHolds(w, M)'
<1>1. Explains(w, L, M)'
  BY DEF Explained, Explains, EntryAt, SnapAt, LinkAt
<1>2. StoreHolds(w, M)'
  BY DEF Explained, StoreHolds
<1>3. QED
  BY <1>1, <1>2

\* Nor does an action of another keyword's command.
LEMMA Elsewhere ==
  ASSUME NEW w \in Keyword, NEW L \in Histories, NEW M \in Chains, Explained(w, L, M),
         w # kw, w # kw',
         WC1'[w] = WC1[w], WC2'[w] = WC2[w], live'[w] = live[w], es'[w] = es[w], ps'[w] = ps[w]
  PROVE  Explained(w, L, M)'
<1>1. Stored(w)' = Stored(w) /\ Deleted(w)' = Deleted(w)
  BY DEF Stored, Deleted
<1>2. Explains(w, L, M)' /\ StoreHolds(w, M)'
  BY <1>1, Kept
<1>3. NetHolds(w, M)' /\ WalkHolds(w, L, M)' /\ ReplyHolds(w, L, M)'
  BY DEF NetHolds, WalkHolds, ReplyHolds
<1>4. QED
  BY <1>2, <1>3 DEF Explained

\* A command starts or ends; nothing is under way.
LEMMA StartOrEnd ==
  ASSUME IInv, NEW w \in Keyword, NEW L \in Histories, NEW M \in Chains, Explained(w, L, M),
         \/ \E v \in Keyword : StartUpdate(v) \/ StartSearch(v)
         \/ FinishUpdate \/ FinishReProof \/ Exit
  PROVE  Explained(w, L, M)'
<1>1. TypeInv /\ Phase
  BY DEF IInv
<1>2. CASE FinishUpdate \/ FinishReProof \/ Exit
  <2>1. /\ net = <<>> /\ net' = net /\ srv' = None /\ pc' # "search" /\ pc' # "reproof" /\ pc # "search"
        /\ WC1' = WC1 /\ WC2' = WC2 /\ live' = live /\ es' = es /\ ps' = ps
    BY <1>1, <1>2 DEF FinishUpdate, FinishReProof, Exit, Phase, TypeInv, Guarded
  <2>2. Stored(w)' = Stored(w) /\ Deleted(w)' = Deleted(w)
    BY <1>1, <2>1, Shapes DEF Stored, Deleted
  <2>3. Explains(w, L, M)' /\ StoreHolds(w, M)'
    BY <2>1, <2>2, Kept
  <2>4. NetHolds(w, M)' /\ WalkHolds(w, L, M)' /\ ReplyHolds(w, L, M)'
    BY <2>1 DEF NetHolds, WalkHolds, ReplyHolds
  <2>5. QED
    BY <2>3, <2>4 DEF Explained
<1>3. CASE \E v \in Keyword : StartUpdate(v) \/ StartSearch(v)
  <2>1. PICK v \in Keyword : StartUpdate(v) \/ StartSearch(v)
    BY <1>3
  <2>2. /\ pc = "off" /\ net = <<>> /\ net' = net /\ kw' = v
        /\ live' = live /\ es' = es /\ ps' = ps
    BY <1>1, <2>1 DEF StartUpdate, StartSearch, Phase
  <2>3. WC1' = WC1 /\ WC2' = WC2
    BY <1>1, <2>1, Shapes DEF StartUpdate, StartSearch, Load, Phase
  <2>4. pc' # "reproof" /\ (pc' = "search" => reply' = None)
    BY <2>1 DEF StartUpdate, StartSearch
  <2>5. Stored(w)' = Stored(w) /\ Deleted(w)' = Deleted(w)
    <3>1. WC1[w] \in Nat /\ Len(net) = 0
      BY <1>1, <2>2, Shapes
    <3>2. Stored(w) = WC1[w] /\ Stored(w)' = WC1[w]
      BY <2>2, <2>3, <3>1 DEF Stored
    <3>3. Deleted(w) = FALSE /\ Deleted(w)' = FALSE
      BY <2>2, <2>4 DEF Deleted
    <3>4. QED
      BY <3>2, <3>3
  <2>6. Explains(w, L, M)' /\ StoreHolds(w, M)'
    BY <2>2, <2>3, <2>5, Kept
  <2>7. NetHolds(w, M)' /\ ReplyHolds(w, L, M)'
    BY <2>2, <2>4 DEF NetHolds, ReplyHolds
  <2>8. WalkHolds(w, L, M)'
    <3>1. CASE StartUpdate(v)
      BY <1>1, <2>2, <3>1 DEF StartUpdate, WalkHolds, TypeInv, Guarded
    <3>2. CASE StartSearch(v) /\ w = v /\ WC1[w] > 0
      <4>1. db[w].c1 = WC1[w] /\ db[w].c2 = WC2[w] /\ WC1[w] \in 1..MaxC1
        BY <1>1, <2>2, <3>2, Shapes, BoundsAssumption DEF Phase
      <4>2. /\ srv'.i = WC1[w] /\ srv'.st = St(WC1[w], WC2[w]) /\ srv'.Uts = {}
            /\ srv'.R = {} /\ srv'.Del = {}
        BY <3>2, <4>1 DEF StartSearch
      <4>3. srv'.junk = FALSE
        BY <3>2, Zenon DEF StartSearch
      <4>4. (WC1[w] + 1)..WC1[w] = {}
        BY <4>1, BoundsAssumption
      <4>5. live[w] = L[WC1[w]]
        BY DEF Explained, Explains
      <4>6. QED
        BY <2>2, <2>3, <4>1, <4>2, <4>3, <4>4, <4>5, BoundsAssumption DEF WalkHolds
    <3>3. QED
      BY <2>1, <2>2, <2>3, <3>1, <3>2 DEF WalkHolds
  <2>9. QED
    BY <2>6, <2>7, <2>8 DEF Explained
<1>4. QED
  BY <1>2, <1>3

\* What every entry has of its place in the chain.
LEMMA Fields ==
  ASSUME NEW w, NEW L, NEW M, NEW i, NEW c2, EntryAt(w, c2, L, M, i)
  PROVE  /\ M[i].w = w /\ M[i].ut = St(i, c2)
         /\ M[i].e.at = St(i, c2) /\ M[i].p.c2 = c2
<1>1. CASE i = 1 /\ c2 > 0
  BY <1>1 DEF EntryAt, SnapAt, ESnap, PSnap
<1>2. CASE ~(i = 1 /\ c2 > 0)
  <2>1. PICK op \in Op, id \in Id : LinkAt(w, c2, L, M, i, op, id)
    BY <1>2 DEF EntryAt
  <2>2. M[i] = [w |-> w, ut |-> St(i, c2), e |-> ELink(St(i, c2), Prev(i, c2), op, id), p |-> PLink(c2, op, id)]
    BY <2>1 DEF LinkAt
  <2>3. QED
    BY <2>2 DEF ELink, PLink
<1>3. QED
  BY <1>1, <1>2

\* One more update: M and L grow by one.
LEMMA Written ==
  ASSUME IInv, NEW L \in Histories, NEW M \in Chains, Explained(kw, L, M),
         NEW op \in Op, NEW id \in Id, WriteUpdate(op, id)
  PROVE  \E L2 \in Histories, M2 \in Chains : Explained(kw, L2, M2)'
<1> DEFINE n == WC1[kw]
           c2 == WC2[kw]
           m == UpdateEntry(n + 1, c2, op, id)
<1>1. TypeInv /\ Phase
  BY DEF IInv
<1>2. /\ pc = "update" /\ pc' = "update" /\ kw' = kw /\ kw \in Keyword
      /\ n \in Nat /\ n + 1 \in 1..MaxC1 /\ Len(net) \in 0..n
  BY <1>1, Shapes, BoundsAssumption DEF WriteUpdate, Phase
<1>3. /\ WC1'[kw] = n + 1 /\ WC2'[kw] = c2 /\ live'[kw] = Apply(live[kw], op, id)
      /\ es' = es /\ ps' = ps /\ net' = Append(net, m)
  BY <1>1, <1>2, Shapes DEF WriteUpdate
<1>4. /\ Len(net') = Len(net) + 1 /\ net'[Len(net) + 1] = m
      /\ \A k \in 1..Len(net) : net'[k] = net[k]
  BY <1>1, <1>3, Shapes
<1>5. PICK L2 \in Histories, M2 \in Chains :
        /\ L2 = [L EXCEPT ![n + 1] = Apply(live[kw], op, id)]
        /\ M2 = [M EXCEPT ![n + 1] = m]
  <2>1. m \in Message
    <3>1. net' \in Seq(Message)
      BY WriteType, <1>1 DEF TypeInv, TypeOK
    <3>2. QED
      BY <1>2, <1>4, <3>1
  <2>2. Apply(live[kw], op, id) \in SUBSET Id
    BY <1>1, <1>2, Shapes, ApplyType
  <2>3. QED
    BY <1>2, <2>1, <2>2 DEF Histories, Chains
<1>6. /\ \A i \in 0..n : L2[i] = L[i]
      /\ \A i \in 1..n : M2[i] = M[i]
      /\ L2[n + 1] = Apply(live[kw], op, id) /\ M2[n + 1] = m
  BY <1>2, <1>5, BoundsAssumption DEF Histories, Chains
<1>7. Stored(kw)' = Stored(kw) /\ Deleted(kw)' = Deleted(kw) /\ Stored(kw) = n - Len(net)
  BY <1>2, <1>3, <1>4 DEF Stored, Deleted
<1>8. Explains(kw, L2, M2)'
  <2>1. \A i \in 1..n : EntryAt(kw, c2, L2, M2, i)
    <3>1. \A i \in 1..n : EntryAt(kw, c2, L, M, i)
      BY DEF Explained, Explains
    <3>2. \A i \in 1..n : i - 1 \in 0..n /\ i \in 0..n
      BY <1>2
    <3>3. QED
      BY <1>6, <3>1, <3>2 DEF EntryAt, SnapAt, LinkAt
  <2>2. EntryAt(kw, c2, L2, M2, n + 1)
    <3>1. L[n] = live[kw] /\ L2[(n + 1) - 1] = live[kw]
      BY <1>2, <1>6 DEF Explained, Explains
    <3>2. LinkAt(kw, c2, L2, M2, n + 1, op, id)
      <4>1. L2[n + 1] = Apply(L2[(n + 1) - 1], op, id)
        BY <1>6, <3>1
      <4>2. M2[n + 1] = [w |-> kw, ut |-> St(n + 1, c2),
                         e |-> ELink(St(n + 1, c2), Prev(n + 1, c2), op, id), p |-> PLink(c2, op, id)]
        BY <1>6 DEF UpdateEntry
      <4>3. QED
        BY <4>1, <4>2 DEF LinkAt
    <3>3. ~(n + 1 = 1 /\ c2 > 0)
      BY <1>1, <1>2 DEF Phase
    <3>4. QED
      BY <3>2, <3>3 DEF EntryAt
  <2>3. \A i \in 1..(n + 1) : EntryAt(kw, c2, L2, M2, i)'
    <3>1. \A i \in 1..(n + 1) : i \in 1..n \/ i = n + 1
      BY <1>2
    <3>2. \A i \in 1..(n + 1) : EntryAt(kw, c2, L2, M2, i)
      BY <2>1, <2>2, <3>1
    <3>3. QED
      BY <1>2, <1>3, <3>2 DEF EntryAt, SnapAt, LinkAt
  <2>4. L2[0] = {} /\ L2[n + 1] = live'[kw]
    BY <1>2, <1>3, <1>6 DEF Explained, Explains
  <2>5. QED
    BY <1>2, <1>3, <2>3, <2>4 DEF Explains
<1>9. StoreHolds(kw, M2)'
  <2>1. Stored(kw) \in 0..n
    BY <1>2, <1>7
  <2>2. \A i \in 1..Stored(kw) : M2[i] = M[i]
    BY <1>2, <1>6, <2>1
  <2>3. QED
    BY <1>2, <1>3, <1>7, <2>2 DEF Explained, StoreHolds
<1>10. NetHolds(kw, M2)'
  <2>1. \A k \in 1..Len(net) : net[k] = M[Stored(kw) + k] /\ Stored(kw) + k \in 1..n
    BY <1>2, <1>7 DEF Explained, NetHolds
  <2>2. Stored(kw) + (Len(net) + 1) = n + 1
    BY <1>2, <1>7
  <2>3. ASSUME NEW k \in 1..(Len(net) + 1)
        PROVE  net'[k] = M2[Stored(kw) + k]
    <3>1. CASE k \in 1..Len(net)
      BY <1>4, <1>6, <2>1, <3>1
    <3>2. CASE k = Len(net) + 1
      BY <1>4, <1>6, <2>2, <3>2
    <3>3. QED
      BY <1>2, <3>1, <3>2
  <2>4. QED
    BY <1>4, <1>7, <2>3 DEF NetHolds
<1>11. WalkHolds(kw, L2, M2)' /\ ReplyHolds(kw, L2, M2)'
  BY <1>1, <1>2 DEF WriteUpdate, WalkHolds, ReplyHolds, TypeInv, Guarded
<1>12. QED
  BY <1>5, <1>8, <1>9, <1>10, <1>11 DEF Explained

\* The server stores the next entry of the chain, at its own label.
LEMMA Delivered ==
  ASSUME IInv, NEW L \in Histories, NEW M \in Chains, Explained(kw, L, M), ServerStore
  PROVE  /\ Explained(kw, L, M)'
         /\ \A w \in Keyword \ {kw} : es'[w] = es[w] /\ ps'[w] = ps[w]
<1> DEFINE n == WC1[kw]
           c2 == WC2[kw]
           s == Stored(kw)
           at == St(s + 1, c2)
<1>1. TypeInv /\ Phase
  BY DEF IInv
<1>2. /\ pc \in {"update", "reproof"} /\ kw \in Keyword /\ net # <<>> /\ net \in Seq(Message)
      /\ n \in 0..MaxC1 /\ Len(net) \in 1..n /\ c2 \in 0..MaxC2
      /\ DOMAIN es = Keyword /\ DOMAIN ps = Keyword
  BY <1>1, Shapes, BoundsAssumption DEF ServerStore, Phase
<1>3. s = n - Len(net) /\ s \in 0..(n - 1) /\ s + 1 \in 1..n
  BY <1>2, BoundsAssumption DEF Stored
<1>4. Head(net) = M[s + 1] /\ M[s + 1].w = kw /\ M[s + 1].ut = at
  <2>1. Head(net) = net[1] /\ net[1] = M[s + 1]
    BY <1>2 DEF Explained, NetHolds
  <2>2. EntryAt(kw, c2, L, M, s + 1)
    BY <1>3 DEF Explained, Explains
  <2>3. QED
    BY <2>1, <2>2, Fields
<1>5. /\ es' = [es EXCEPT ![kw] = Put(es[kw], at, M[s + 1].e)]
      /\ ps' = [ps EXCEPT ![kw] = Put(ps[kw], at, M[s + 1].p)]
      /\ net' = Tail(net)
  BY <1>4 DEF ServerStore
<1>6. /\ UNCHANGED <<pc, kw, WC1, WC2, live, srv, reply, vi, Rp>>
      /\ Len(net') = Len(net) - 1 /\ \A k \in 1..(Len(net) - 1) : net'[k] = net[k + 1]
  BY <1>2, <1>5 DEF ServerStore
<1>7. Stored(kw)' = s + 1
  BY <1>2, <1>3, <1>6, BoundsAssumption DEF Stored
<1>8. \A i \in 1..s : St(i, c2) # at
  <2>1. \A i \in 1..s : i \in 1..MaxC1 /\ i # s + 1
    BY <1>2, <1>3, BoundsAssumption
  <2>2. s + 1 \in 1..MaxC1
    BY <1>2, <1>3, BoundsAssumption
  <2>3. QED
    BY <1>2, <2>1, <2>2, StAssumption
<1>9. Explains(kw, L, M)'
  BY <1>6 DEF Explained, Explains, EntryAt, SnapAt, LinkAt
<1>10. StoreHolds(kw, M)'
  <2>1. ~Deleted(kw)'
    <3>1. pc = "reproof" => net' = <<>>
      <4>1. pc = "reproof" => Len(net') = 0
        BY <1>1, <1>2, <1>6 DEF Phase
      <4>2. QED
        BY <1>2, <1>5, <4>1
    <3>2. QED
      BY <1>2, <1>6, <3>1 DEF Deleted
  <2>2. DOMAIN es[kw] = Chain(s, c2) /\ \A i \in 1..s : es[kw][St(i, c2)] = M[i].e
    <3>1. CASE Deleted(kw)
      <4>1. pc = "reproof" /\ s = 0
        BY <1>1, <1>2, <1>3, <3>1 DEF Deleted, Phase
      <4>2. 1..s = {}
        BY <4>1
      <4>3. QED
        BY <3>1, <4>2 DEF Explained, StoreHolds, Chain
    <3>2. CASE ~Deleted(kw)
      BY <3>2 DEF Explained, StoreHolds
    <3>3. QED
      BY <3>1, <3>2
  <2>3. \A i \in 1..s : St(i, c2) \in DOMAIN ps[kw] /\ ps[kw][St(i, c2)] = M[i].p
    BY DEF Explained, StoreHolds
  <2>4. 1..(s + 1) = (1..s) \cup {s + 1}
    BY <1>3
  <2>5. DOMAIN es'[kw] = Chain(s + 1, c2) /\ \A i \in 1..(s + 1) : es'[kw][St(i, c2)] = M[i].e
    <3>1. es'[kw] = Put(es[kw], at, M[s + 1].e)
      BY <1>2, <1>5
    <3>2. DOMAIN es'[kw] = Chain(s, c2) \cup {at}
      BY <2>2, <3>1 DEF Put
    <3>3. Chain(s, c2) \cup {at} = Chain(s + 1, c2)
      BY <2>4 DEF Chain
    <3>4. \A i \in 1..s : es'[kw][St(i, c2)] = M[i].e
      BY <1>8, <2>2, <3>1 DEF Put, Chain
    <3>5. es'[kw][at] = M[s + 1].e
      BY <3>1 DEF Put
    <3>6. QED
      BY <2>4, <3>2, <3>3, <3>4, <3>5
  <2>6. \A i \in 1..(s + 1) : St(i, c2) \in DOMAIN ps'[kw] /\ ps'[kw][St(i, c2)] = M[i].p
    <3>1. ps'[kw] = Put(ps[kw], at, M[s + 1].p)
      BY <1>2, <1>5
    <3>2. \A i \in 1..s : St(i, c2) \in DOMAIN ps'[kw] /\ ps'[kw][St(i, c2)] = M[i].p
      BY <1>8, <2>3, <3>1 DEF Put
    <3>3. at \in DOMAIN ps'[kw] /\ ps'[kw][at] = M[s + 1].p
      BY <3>1 DEF Put
    <3>4. QED
      BY <2>4, <3>2, <3>3
  <2>7. QED
    BY <1>6, <1>7, <2>1, <2>5, <2>6 DEF StoreHolds
<1>11. NetHolds(kw, M)'
  <2>1. ASSUME NEW k \in 1..(Len(net) - 1)
        PROVE  net'[k] = M[(s + 1) + k]
    <3>1. k + 1 \in 1..Len(net) /\ s + (k + 1) = (s + 1) + k
      <4>1. Len(net) \in Nat /\ s \in Nat
        BY <1>2, <1>3, BoundsAssumption
      <4>2. QED
        BY <4>1
    <3>2. net[k + 1] = M[s + (k + 1)]
      BY <3>1 DEF Explained, NetHolds
    <3>3. QED
      BY <1>6, <3>1, <3>2
  <2>2. QED
    BY <1>6, <1>7, <2>1 DEF NetHolds
<1>12. WalkHolds(kw, L, M)' /\ ReplyHolds(kw, L, M)'
  BY <1>1, <1>2, <1>6 DEF WalkHolds, ReplyHolds, TypeInv, Guarded
<1>13. \A w \in Keyword \ {kw} : es'[w] = es[w] /\ ps'[w] = ps[w]
  BY <1>2, <1>5
<1>14. QED
  BY <1>9, <1>10, <1>11, <1>12, <1>13 DEF Explained

\* While the handler runs nothing is on its way and nothing is deleted, and
\* both lookups of a turn find entry srv.i of the chain.
LEMMA Lookups ==
  ASSUME IInv, NEW L \in Histories, NEW M \in Chains, Explained(kw, L, M),
         srv # None, WC1[kw] > 0
  PROVE  /\ pc = "search" /\ kw \in Keyword /\ net = <<>> /\ reply = None /\ vi = 0
         /\ srv \in SrvType /\ srv.w = kw /\ srv.c1 = WC1[kw] /\ srv.c2 = WC2[kw]
         /\ Stored(kw) = WC1[kw] /\ ~Deleted(kw)
         /\ srv.i \in 1..WC1[kw] /\ srv.st = St(srv.i, WC2[kw])
         /\ srv.st \in DOMAIN es[kw] /\ srv.st \in DOMAIN ps[kw]
         /\ LookE = M[srv.i].e /\ LookP = M[srv.i].p /\ LookE # None
         /\ EntryAt(kw, WC2[kw], L, M, srv.i)
<1>1. TypeInv /\ Phase
  BY DEF IInv
<1>2. /\ pc = "search" /\ kw \in Keyword /\ net = <<>> /\ reply = None /\ vi = 0
      /\ srv \in SrvType /\ srv.w = kw /\ srv.c1 = WC1[kw] /\ srv.c2 = WC2[kw]
  BY <1>1, Shapes, LookType DEF Phase, TypeInv, Guarded
<1>3. Stored(kw) = WC1[kw] /\ ~Deleted(kw)
  <2>1. Len(net) = 0 /\ WC1[kw] \in Nat
    BY <1>1, <1>2, Shapes
  <2>2. QED
    BY <1>2, <2>1 DEF Stored, Deleted
<1>4. srv.i \in 1..WC1[kw] /\ srv.st = St(srv.i, WC2[kw])
  BY DEF Explained, WalkHolds
<1>5. srv.st \in DOMAIN es[kw] /\ es[kw][srv.st] = M[srv.i].e
  BY <1>3, <1>4 DEF Explained, StoreHolds, Chain
<1>6. srv.st \in DOMAIN ps[kw] /\ ps[kw][srv.st] = M[srv.i].p
  BY <1>3, <1>4 DEF Explained, StoreHolds
<1>7. LookE = M[srv.i].e /\ LookP = M[srv.i].p
  BY <1>2, <1>5, <1>6 DEF LookE, LookP, Get
<1>8. EntryAt(kw, WC2[kw], L, M, srv.i)
  BY <1>4 DEF Explained, Explains
<1>9. LookE # None
  <2>1. es[kw][srv.st] \in ECell
    BY <1>1, <1>2, <1>5 DEF TypeInv, TypeOK
  <2>2. QED
    BY <1>5, <1>7, <2>1, NoneAssumption
<1>10. QED
  BY <1>2, <1>3, <1>4, <1>5, <1>6, <1>7, <1>8, <1>9

\* Every proof from the newest entry to this one has been collected, and so
\* has every label.
LEMMA LookedProofs ==
  ASSUME IInv, NEW L \in Histories, NEW M \in Chains, Explained(kw, L, M),
         srv # None, WC1[kw] > 0
  PROVE  /\ \A j \in srv.i..WC1[kw] : LookedP[j] = M[j].p
         /\ LookedUts = {St(j, WC2[kw]) : j \in srv.i..WC1[kw]}
<1> DEFINE n == WC1[kw]
           i == srv.i
<1>1. i \in 1..n /\ srv \in SrvType /\ LookP = M[i].p /\ srv.st = St(i, WC2[kw])
  BY Lookups
<1>2. n \in 0..MaxC1 /\ n \in Nat
  BY Lookups, Shapes DEF IInv
<1>3. i..n = {i} \cup ((i + 1)..n)
  BY <1>1, <1>2
<1>4. ASSUME NEW j \in i..n PROVE LookedP[j] = M[j].p
  <2>1. j \in 1..MaxC1 /\ DOMAIN srv.P = 1..MaxC1
    BY <1>1, <1>2, BoundsAssumption DEF SrvType
  <2>2. CASE j = i
    BY <1>1, <2>1, <2>2 DEF LookedP
  <2>3. CASE j # i
    BY <1>1, <1>3, <2>1, <2>3 DEF LookedP, Explained, WalkHolds
  <2>4. QED
    BY <2>2, <2>3
<1>5. LookedUts = {St(j, WC2[kw]) : j \in i..n}
  BY <1>1, <1>3 DEF LookedUts, Explained, WalkHolds
<1>6. QED
  BY <1>4, <1>5

\* A keyword without updates has no entry to look up.
LEMMA NothingThere ==
  ASSUME IInv, srv # None, LookE # None
  PROVE  WC1[kw] > 0
  BY NoRows DEF IInv

\* A turn of the walk moves from entry srv.i to entry srv.i - 1.
LEMMA Walked ==
  ASSUME IInv, NEW L \in Histories, NEW M \in Chains, Explained(kw, L, M),
         ServerWalk \/ ServerWalkJunk
  PROVE  Explained(kw, L, M)'
<1> DEFINE n == WC1[kw]
           c2 == WC2[kw]
           i == srv.i
<1>1. TypeInv /\ Phase /\ srv # None /\ LookE # None /\ srv.i > 1
  BY DEF IInv, ServerWalk, ServerWalkJunk
<1>2. n > 0
  BY <1>1, NothingThere
<1>3. /\ kw \in Keyword /\ pc = "search" /\ reply = None /\ net = <<>>
      /\ i \in 2..n /\ n \in 1..MaxC1 /\ c2 \in 0..MaxC2 /\ srv.st = St(i, c2)
      /\ LookE = M[i].e /\ LookP = M[i].p /\ srv \in SrvType
  BY <1>1, <1>2, Lookups, Shapes, BoundsAssumption
<1>4. PICK op \in Op, id \in Id : LinkAt(kw, c2, L, M, i, op, id)
  <2>1. EntryAt(kw, c2, L, M, i) /\ i # 1
    BY <1>1, <1>2, <1>3, Lookups
  <2>2. QED
    BY <2>1 DEF EntryAt
<1>5. LookE = ELink(St(i, c2), Prev(i, c2), op, id)
  BY <1>3, <1>4 DEF LinkAt
<1>6. /\ IsLink(LookE, srv.st) /\ LookE.prev = St(i - 1, c2)
      /\ LookE.op = op /\ LookE.id = id
  BY <1>3, <1>5 DEF IsLink, ELink, Prev
<1>7. srv' = Turn(St(i - 1, c2), AddUnlessDeleted(srv.R, srv.Del, op, id),
                  IF op = "0" THEN srv.Del \cup {id} ELSE srv.Del, srv.junk)
  BY <1>6 DEF ServerWalk, ServerWalkJunk
<1>8. UNCHANGED <<pc, kw, WC1, WC2, net, es, ps, reply, vi, live>>
  BY DEF ServerWalk, ServerWalkJunk
<1>9. Stored(kw)' = Stored(kw) /\ Deleted(kw)' = Deleted(kw)
  BY <1>8 DEF Stored, Deleted
<1>10. Explains(kw, L, M)' /\ StoreHolds(kw, M)' /\ NetHolds(kw, M)'
  BY <1>8, <1>9 DEF Explained, Explains, EntryAt, SnapAt, LinkAt, StoreHolds, NetHolds
<1>11. WalkHolds(kw, L, M)'
  <2>1. /\ srv'.i = i - 1 /\ srv'.st = St(i - 1, c2)
        /\ srv'.R = AddUnlessDeleted(srv.R, srv.Del, op, id)
        /\ srv'.Del = IF op = "0" THEN srv.Del \cup {id} ELSE srv.Del
        /\ srv'.Uts = LookedUts /\ srv'.P = LookedP
    BY <1>7 DEF Turn
  <2>2. srv'.junk = FALSE
    <3>1. srv.junk = FALSE
      BY <1>1, <1>2 DEF Explained, WalkHolds
    <3>2. srv'.junk = srv.junk
      BY <1>7, Zenon DEF Turn
    <3>3. QED
      BY <3>1, <3>2, Zenon
  <2>3. i - 1 \in 1..n /\ (i - 1) + 1 = i /\ i..n = {i} \cup ((i + 1)..n)
    BY <1>3
  <2>4. LookedUts = {St(j, c2) : j \in i..n}
    BY <1>1, <1>2, LookedProofs
  <2>5. live[kw] = AddUnlessDeleted(srv.R, srv.Del, op, id)
                     \cup (L[i - 1] \ (IF op = "0" THEN srv.Del \cup {id} ELSE srv.Del))
    <3>1. live[kw] = srv.R \cup (L[i] \ srv.Del)
      BY <1>1, <1>2 DEF Explained, WalkHolds
    <3>2. L[i] = Apply(L[i - 1], op, id)
      BY <1>4 DEF LinkAt
    <3>3. live[kw] = srv.R \cup (Apply(L[i - 1], op, id) \ srv.Del)
      BY <3>1, <3>2
    <3>4. QED
      BY <1>4, <3>3 DEF Apply, AddUnlessDeleted, Op
  <2>6. ASSUME NEW j \in i..n PROVE LookedP[j] = M[j].p
    BY <1>1, <1>2, LookedProofs
  <2>7. QED
    BY <1>8, <2>1, <2>2, <2>3, <2>4, <2>5, <2>6 DEF WalkHolds
<1>12. ReplyHolds(kw, L, M)'
  BY <1>3, <1>8 DEF ReplyHolds
<1>13. QED
  BY <1>10, <1>11, <1>12 DEF Explained

\* Only the empty request fails.
LEMMA Thrown ==
  ASSUME IInv, NEW L \in Histories, NEW M \in Chains, Explained(kw, L, M), ServerThrow
  PROVE  Explained(kw, L, M)'
<1>1. WC1[kw] = 0 /\ kw \in Keyword /\ vi = 0
  <2>1. srv # None /\ LookE = None
    BY DEF ServerThrow
  <2>2. ~(WC1[kw] > 0)
    BY <2>1, Lookups
  <2>3. kw \in Keyword /\ vi = 0
    BY <2>1, Shapes DEF IInv, TypeInv, Guarded
  <2>4. QED
    BY <2>2, <2>3, Shapes DEF IInv
<1>2. /\ UNCHANGED <<pc, kw, WC1, WC2, net, es, ps, vi, live>>
      /\ srv' = None /\ reply'.ok = FALSE
  BY Zenon DEF ServerThrow
<1>3. Stored(kw)' = Stored(kw) /\ Deleted(kw)' = Deleted(kw)
  BY <1>1, <1>2 DEF Stored, Deleted
<1>4. Explains(kw, L, M)' /\ StoreHolds(kw, M)' /\ NetHolds(kw, M)'
  BY <1>2, <1>3 DEF Explained, Explains, EntryAt, SnapAt, LinkAt, StoreHolds, NetHolds
<1>5. WalkHolds(kw, L, M)' /\ ReplyHolds(kw, L, M)'
  BY <1>1, <1>2 DEF WalkHolds, ReplyHolds
<1>6. QED
  BY <1>4, <1>5 DEF Explained

\* The oldest entry completes the answer: a link to nothing, or the snapshot.
LEMMA Answered ==
  ASSUME IInv, NEW L \in Histories, NEW M \in Chains, Explained(kw, L, M),
         srv # None, LookE # None, srv.i <= 1, NEW out \in Oldest(LookE)
  PROVE  out.R = live[kw] /\ out.junk = FALSE
<1> DEFINE c2 == WC2[kw]
<1>1. WC1[kw] > 0
  BY NothingThere
<1>2. /\ srv.i = 1 /\ srv.st = St(1, c2) /\ srv.c2 = c2 /\ c2 \in Nat
      /\ LookE = M[1].e /\ EntryAt(kw, c2, L, M, 1)
  <2>1. srv.i \in 1..WC1[kw] /\ kw \in Keyword
    BY <1>1, Lookups
  <2>2. srv.i = 1
    BY <2>1
  <2>3. QED
    BY <1>1, <2>1, <2>2, Lookups, Shapes DEF IInv
<1>3. srv.junk = FALSE /\ live[kw] = srv.R \cup (L[1] \ srv.Del)
  BY <1>1, <1>2 DEF Explained, WalkHolds
<1>4. CASE c2 > 0
  <2>1. LookE = ESnap(St(1, c2), L[1])
    BY <1>2, <1>4 DEF EntryAt, SnapAt
  <2>2. out = [R |-> srv.R \cup (L[1] \ srv.Del), junk |-> srv.junk]
    BY <1>2, <1>4, <2>1 DEF Oldest, IsSnap, ESnap
  <2>3. out.R = srv.R \cup (L[1] \ srv.Del) /\ out.junk = srv.junk
    BY <2>2, Zenon
  <2>4. QED
    BY <1>3, <2>3, Zenon
<1>5. CASE c2 = 0
  <2>1. PICK op \in Op, id \in Id : LinkAt(kw, c2, L, M, 1, op, id)
    BY <1>2, <1>5 DEF EntryAt
  <2>2. LookE = ELink(St(1, c2), Prev(1, c2), op, id)
    BY <1>2, <2>1 DEF LinkAt
  <2>3. out = [R |-> AddUnlessDeleted(srv.R, srv.Del, op, id), junk |-> srv.junk]
    BY <1>2, <1>5, <2>2 DEF Oldest, IsLink, ELink
  <2>4. out.R = AddUnlessDeleted(srv.R, srv.Del, op, id) /\ out.junk = srv.junk
    BY <2>3, Zenon
  <2>5. L[1] = Apply({}, op, id)
    BY <2>1 DEF LinkAt, Explained, Explains
  <2>6. live[kw] = AddUnlessDeleted(srv.R, srv.Del, op, id)
    BY <1>3, <2>1, <2>5 DEF Apply, AddUnlessDeleted, Op
  <2>7. QED
    BY <1>3, <2>4, <2>6, Zenon
<1>6. c2 > 0 \/ c2 = 0
  BY <1>2
<1>7. QED
  BY <1>4, <1>5, <1>6, Zenon

\* The handler ends: the reply is right, and the entries it walked are the
\* whole chain when it deletes them.
LEMMA Replied ==
  ASSUME IInv, NEW L \in Histories, NEW M \in Chains, Explained(kw, L, M), ServerLast
  PROVE  /\ Explained(kw, L, M)'
         /\ \A w \in Keyword \ {kw} : es'[w] = es[w]
<1> DEFINE n == WC1[kw]
           c2 == WC2[kw]
<1>1. srv # None /\ LookE # None /\ srv.i <= 1 /\ TypeInv /\ Phase
  BY DEF ServerLast, IInv
<1>2. n > 0
  BY <1>1, NothingThere
<1>3. /\ kw \in Keyword /\ pc = "search" /\ net = <<>> /\ vi = 0 /\ reply = None
      /\ srv.w = kw /\ srv.c1 = n /\ n \in Nat /\ DOMAIN es = Keyword
      /\ srv.i = 1 /\ ~Deleted(kw) /\ Stored(kw) = n /\ Cardinality(live[kw]) \in Nat
  <2>1. srv.i \in 1..n
    BY <1>1, <1>2, Lookups
  <2>2. srv.i = 1
    BY <1>1, <2>1
  <2>3. QED
    BY <1>1, <1>2, <2>2, Lookups, Shapes
<1>4. PICK out \in Oldest(LookE), wipe \in BOOLEAN :
        /\ wipe => srv.c1 > Cardinality(out.R)
        /\ ~wipe => srv.c1 <= Cardinality(out.R) \/ out.junk
        /\ es' = IF wipe THEN [es EXCEPT ![srv.w] = Delete(@, LookedUts)] ELSE es
        /\ reply' = [ok |-> TRUE, R |-> out.R, junk |-> out.junk, P |-> LookedP]
  BY DEF ServerLast
<1>5. out.R = live[kw] /\ out.junk = FALSE
  BY <1>1, <1>4, Answered
<1>6. wipe <=> n > Cardinality(live[kw])
  BY <1>3, <1>4, <1>5
<1>7. /\ UNCHANGED <<pc, kw, WC1, WC2, net, ps, vi, live>>
      /\ srv' = None /\ reply' # None
  <2>1. reply' # None
    BY <1>1, RepliedType, NoneAssumption
  <2>2. QED
    BY <2>1 DEF ServerLast
<1>8. reply'.ok = TRUE /\ reply'.junk = FALSE /\ reply'.R = live[kw] /\ reply'.P = LookedP
  <2>1. reply'.ok = TRUE /\ reply'.junk = out.junk /\ reply'.R = out.R /\ reply'.P = LookedP
    BY <1>4, Zenon
  <2>2. QED
    BY <1>5, <2>1, Zenon
<1>9. /\ \A j \in 1..n : LookedP[j] = M[j].p
      /\ LookedUts = Chain(n, c2)
  BY <1>1, <1>2, <1>3, LookedProofs DEF Chain
<1>10. Stored(kw)' = Stored(kw) /\ (Deleted(kw)' <=> wipe)
  BY <1>2, <1>3, <1>6, <1>7 DEF Stored, Deleted
<1>11. Explains(kw, L, M)' /\ NetHolds(kw, M)' /\ WalkHolds(kw, L, M)'
  BY <1>7, <1>10 DEF Explained, Explains, EntryAt, SnapAt, LinkAt, NetHolds, WalkHolds
<1>12. StoreHolds(kw, M)'
  <2>1. wipe => DOMAIN es'[kw] = {}
    <3>1. DOMAIN es[kw] = Chain(n, c2)
      BY <1>3 DEF Explained, StoreHolds
    <3>2. wipe => es'[kw] = Delete(es[kw], LookedUts)
      BY <1>3, <1>4
    <3>3. QED
      BY <1>9, <3>1, <3>2 DEF Delete
  <2>2. ~wipe => es' = es
    BY <1>4
  <2>3. QED
    BY <1>3, <1>7, <1>10, <2>1, <2>2 DEF Explained, StoreHolds
<1>13. ReplyHolds(kw, L, M)'
  BY <1>2, <1>3, <1>7, <1>8, <1>9 DEF ReplyHolds
<1>14. \A w \in Keyword \ {kw} : es'[w] = es[w]
  BY <1>3, <1>4
<1>15. QED
  BY <1>11, <1>12, <1>13, <1>14 DEF Explained

\* An entry of the current epoch does to R_prime what M and L say.
LEMMA Stepped ==
  ASSUME NEW L, NEW M, NEW i,
         NEW op \in Op, NEW id \in Id, LinkAt(kw, WC2[kw], L, M, i, op, id)
  PROVE  Step(M[i].p, L[i - 1]) = {L[i]}
<1>1. M[i].p = PLink(WC2[kw], op, id) /\ L[i] = Apply(L[i - 1], op, id)
  BY DEF LinkAt
<1>2. Opens(M[i].p, "link") /\ M[i].p.op = op /\ M[i].p.id = id
  BY <1>1 DEF Opens, PLink
<1>3. QED
  BY <1>1, <1>2 DEF Step

\* What is known of a search whose reply has been read.
LEMMA ReplyRead ==
  ASSUME IInv, NEW L \in Histories, NEW M \in Chains, Explained(kw, L, M),
         pc = "search", reply # None
  PROVE  /\ kw \in Keyword /\ net = <<>> /\ srv = None
         /\ WC1[kw] \in 0..MaxC1 /\ WC2[kw] \in 0..MaxC2 /\ vi \in 0..WC1[kw]
         /\ WC1[kw] = 0 => ~reply.ok /\ vi = 0
         /\ WC1[kw] > 0 => /\ Complete /\ ~reply.junk /\ reply.R = live[kw]
                           /\ \A j \in 1..WC1[kw] : reply.P[j] = M[j].p
         /\ vi > 0 => Rp = L[vi]
<1>1. TypeInv /\ Phase /\ kw \in Keyword /\ net = <<>> /\ srv = None
  BY Shapes DEF IInv, Phase, TypeInv, Guarded
<1>2. WC1[kw] \in 0..MaxC1 /\ WC2[kw] \in 0..MaxC2
  BY <1>1, Shapes
<1>3. ReplyHolds(kw, L, M)
  BY DEF Explained
<1>4. WC1[kw] = 0 => ~reply.ok /\ vi = 0
  BY <1>3 DEF ReplyHolds
<1>5. WC1[kw] > 0 => /\ reply.ok /\ ~reply.junk /\ reply.R = live[kw]
                     /\ \A j \in 1..WC1[kw] : reply.P[j] = M[j].p
                     /\ vi \in 0..WC1[kw]
                     /\ vi > 0 => Rp = L[vi]
  BY <1>3 DEF ReplyHolds
<1>6. ASSUME WC1[kw] > 0 PROVE Complete
  <2>1. ASSUME NEW j \in 1..WC1[kw] PROVE reply.P[j] # None
    <3>1. EntryAt(kw, WC2[kw], L, M, j)
      BY DEF Explained, Explains
    <3>2. Stored(kw) = WC1[kw]
      <4>1. Len(net) = 0
        BY <1>1
      <4>2. QED
        BY <1>2, <4>1, BoundsAssumption DEF Stored
    <3>3. ps[kw][St(j, WC2[kw])] = M[j].p /\ St(j, WC2[kw]) \in DOMAIN ps[kw]
      BY <3>2 DEF Explained, StoreHolds
    <3>4. M[j].p \in PCell
      BY <1>1, <3>3 DEF TypeInv, TypeOK
    <3>5. QED
      BY <1>5, <1>6, <3>4, NoneAssumption
  <2>2. QED
    BY <1>5, <1>6, <2>1 DEF Complete
<1>7. WC1[kw] > 0 \/ WC1[kw] = 0
  BY <1>2, BoundsAssumption
<1>8. vi \in 0..WC1[kw] /\ (vi > 0 => Rp = L[vi])
  BY <1>4, <1>5, <1>7
<1>9. QED
  BY <1>1, <1>2, <1>4, <1>5, <1>6, <1>8

\* A turn of verify() moves from L[vi] to L[vi + 1]; the other answers of the
\* client leave what is explained alone.
LEMMA Verified ==
  ASSUME IInv, NEW L \in Histories, NEW M \in Chains, Explained(kw, L, M),
         VerifyFirst \/ VerifyNext
  PROVE  Explained(kw, L, M)'
<1> DEFINE n == WC1[kw]
           c2 == WC2[kw]
<1>1. /\ pc = "search" /\ reply # None
      /\ UNCHANGED <<pc, kw, WC1, WC2, net, es, ps, srv, reply, live>>
  BY DEF VerifyFirst, VerifyNext, IInv, TypeInv, Guarded
<1>2. /\ kw \in Keyword /\ srv = None /\ n \in 0..MaxC1 /\ c2 \in 0..MaxC2
      /\ vi \in 0..n /\ (n = 0 => ~reply.ok /\ vi = 0)
  BY <1>1, ReplyRead
<1>3. n > 0 /\ reply.P[vi + 1] = M[vi + 1].p /\ vi + 1 \in 1..n /\ vi' = vi + 1
  <2>1. n > 0
    BY <1>2, BoundsAssumption DEF VerifyFirst, VerifyNext, Complete
  <2>2. vi' = vi + 1 /\ vi + 1 \in 1..n
    BY <1>2, <2>1, BoundsAssumption DEF VerifyFirst, VerifyNext
  <2>3. QED
    BY <1>1, <2>1, <2>2, ReplyRead
<1>4. EntryAt(kw, c2, L, M, vi + 1)
  BY <1>3 DEF Explained, Explains
<1>5. Rp' = L[vi + 1]
  <2>1. CASE vi = 0 /\ c2 > 0
    <3>1. M[1].p = PSnap(c2, L[1])
      BY <1>4, <2>1 DEF EntryAt, SnapAt
    <3>2. reply.P[1] = M[1].p
      BY <1>3, <2>1
    <3>3. Opens(reply.P[1], "snap") /\ reply.P[1].ids = L[1]
      BY <3>1, <3>2 DEF Opens, PSnap
    <3>4. VerifyFirst
      BY <2>1, <1>2 DEF VerifyNext
    <3>5. Rp' \in {L[1]}
      BY <1>2, <2>1, <3>3, <3>4 DEF VerifyFirst
    <3>6. QED
      BY <2>1, <3>5
  <2>2. CASE ~(vi = 0 /\ c2 > 0)
    <3>1. ~(vi + 1 = 1 /\ c2 > 0)
      BY <1>2, <2>2
    <3>2. PICK op \in Op, id \in Id : LinkAt(kw, c2, L, M, vi + 1, op, id)
      BY <1>4, <3>1 DEF EntryAt
    <3>3. Step(M[vi + 1].p, L[(vi + 1) - 1]) = {L[vi + 1]}
      BY <3>2, Stepped
    <3>4. (vi + 1) - 1 = vi
      BY <1>2
    <3>5. Step(reply.P[vi + 1], L[vi]) = {L[vi + 1]}
      BY <1>3, <3>3, <3>4
    <3>6. CASE VerifyFirst
      <4>1. vi = 0 /\ c2 = 0 /\ L[vi] = {} /\ vi + 1 = 1
        BY <1>2, <2>2, <3>6, BoundsAssumption DEF VerifyFirst, Explained, Explains
      <4>2. Step(reply.P[1], {}) = {L[vi + 1]}
        BY <3>5, <4>1
      <4>3. Rp' \in Step(reply.P[1], {})
        BY <3>6, <4>1 DEF VerifyFirst
      <4>4. QED
        BY <4>2, <4>3
    <3>7. CASE VerifyNext
      <4>1. vi > 0
        BY <1>2, <3>7 DEF VerifyNext
      <4>2. Rp = L[vi]
        BY <1>1, <4>1, ReplyRead
      <4>3. L[vi] \in SUBSET Id
        BY <1>2, BoundsAssumption DEF Histories
      <4>4. Rp # None
        BY <4>2, <4>3, NoneAssumption
      <4>5. Rp' \in Step(reply.P[vi + 1], Rp)
        BY <3>7, <4>4 DEF VerifyNext
      <4>6. QED
        BY <3>5, <4>2, <4>5
    <3>8. QED
      BY <3>6, <3>7
  <2>3. QED
    BY <2>1, <2>2
<1>6. Stored(kw)' = Stored(kw) /\ Deleted(kw)' = Deleted(kw)
  BY <1>1 DEF Stored, Deleted
<1>7. /\ Explains(kw, L, M)' /\ StoreHolds(kw, M)' /\ NetHolds(kw, M)'
      /\ WalkHolds(kw, L, M)'
  BY <1>1, <1>2, <1>6 DEF Explained, Explains, EntryAt, SnapAt, LinkAt, StoreHolds, NetHolds, WalkHolds
<1>8. ReplyHolds(kw, L, M)'
  BY <1>1, <1>2, <1>3, <1>5 DEF ReplyHolds, Explained
<1>9. QED
  BY <1>7, <1>8 DEF Explained

\* At the end of verify() the client's answer equals the server's.
LEMMA Agreed ==
  ASSUME IInv, NEW L \in Histories, NEW M \in Chains, Explained(kw, L, M),
         pc = "search", vi = WC1[kw], vi > 0
  PROVE  SetEqual /\ reply.R = live[kw] /\ reply # None
<1>1. reply # None
  BY DEF IInv, TypeInv, Guarded
<1>2. /\ ~reply.junk /\ reply.R = live[kw] /\ kw \in Keyword
      /\ Rp = L[WC1[kw]]
  BY <1>1, ReplyRead
<1>3. L[WC1[kw]] = live[kw]
  BY DEF Explained, Explains
<1>4. live[kw] \in SUBSET Id
  BY <1>2, Shapes DEF IInv
<1>5. Rp # None
  BY <1>2, <1>3, <1>4, NoneAssumption
<1>6. QED
  BY <1>1, <1>2, <1>3, <1>5 DEF SetEqual

\* A search that ends without a ReProof leaves the chain as it is.
LEMMA Concluded ==
  ASSUME IInv, NEW L \in Histories, NEW M \in Chains, Explained(kw, L, M),
         RejectCount \/ RejectResult \/ AcceptResult
  PROVE  Explained(kw, L, M)'
<1>1. /\ pc = "search" /\ reply # None /\ pc' = "exit"
      /\ UNCHANGED <<kw, WC1, WC2, net, es, ps, srv, live>>
  BY DEF RejectCount, RejectResult, AcceptResult, IInv, TypeInv, Guarded
<1>2. kw \in Keyword /\ srv = None /\ net = <<>> /\ WC1[kw] \in Nat
  BY <1>1, ReplyRead, Shapes DEF IInv
<1>3. ~Deleted(kw)
  <2>1. CASE RejectCount
    <3>1. ~(WC1[kw] > 0)
      BY <1>1, <2>1, ReplyRead DEF RejectCount
    <3>2. QED
      BY <3>1 DEF Deleted
  <2>2. CASE RejectResult
    BY <2>2, Agreed DEF RejectResult
  <2>3. CASE AcceptResult
    <3>1. reply.R = live[kw]
      BY <2>3, Agreed DEF AcceptResult
    <3>2. ~(WC1[kw] > Cardinality(live[kw]))
      BY <2>3, <3>1 DEF AcceptResult, Longer
    <3>3. QED
      BY <1>1, <3>2 DEF Deleted
  <2>4. QED
    BY <2>1, <2>2, <2>3
<1>4. Stored(kw)' = Stored(kw) /\ ~Deleted(kw)'
  BY <1>1 DEF Stored, Deleted
<1>5. Explains(kw, L, M)' /\ StoreHolds(kw, M)' /\ NetHolds(kw, M)'
  BY <1>1, <1>3, <1>4 DEF Explained, Explains, EntryAt, SnapAt, LinkAt, StoreHolds, NetHolds
<1>6. WalkHolds(kw, L, M)' /\ ReplyHolds(kw, L, M)'
  BY <1>1, <1>2 DEF WalkHolds, ReplyHolds
<1>7. QED
  BY <1>5, <1>6 DEF Explained

\* The client opens the next epoch exactly when the server has deleted the
\* entries of this one: its chain is the snapshot alone.
LEMMA Compacted ==
  ASSUME IInv, NEW L \in Histories, NEW M \in Chains, Explained(kw, L, M), AcceptAndReProof
  PROVE  \E L2 \in Histories, M2 \in Chains : Explained(kw, L2, M2)'
<1> DEFINE c2 == WC2[kw] + 1
           m == ReProofEntry(c2, live[kw])
<1>1. /\ pc = "search" /\ vi = WC1[kw] /\ vi > 0 /\ pc' = "reproof"
      /\ UNCHANGED <<kw, es, ps, srv, live>>
  BY DEF AcceptAndReProof
<1>2. SetEqual /\ reply.R = live[kw] /\ reply # None
  BY <1>1, Agreed
<1>3. /\ kw \in Keyword /\ srv = None /\ net = <<>> /\ WC1[kw] \in Nat /\ WC2[kw] \in Nat
      /\ c2 > 0 /\ c2 # 0 /\ live[kw] \in SUBSET Id /\ WC1[kw] > 0
  BY <1>1, <1>2, ReplyRead, Shapes DEF IInv
<1>4. /\ WC1'[kw] = 1 /\ WC2'[kw] = c2 /\ net' = Append(net, m)
  BY <1>2, <1>3, Shapes DEF AcceptAndReProof, IInv
<1>5. Len(net') = 1 /\ net'[1] = m /\ net' # <<>>
  BY <1>3, <1>4
<1>6. PICK L2 \in Histories, M2 \in Chains :
        L2 = [L EXCEPT ![1] = live[kw]] /\ M2 = [M EXCEPT ![1] = m]
  <2>1. m \in Message
    <3>1. net' \in Seq(Message)
      BY ClientType DEF ClientSearch, IInv, TypeInv, TypeOK
    <3>2. QED
      BY <1>5, <3>1
  <2>2. 1 \in 0..MaxC1 /\ 1 \in 1..MaxC1
    BY BoundsAssumption
  <2>3. QED
    BY <1>3, <2>1, <2>2 DEF Histories, Chains
<1>7. L2[0] = {} /\ L2[1] = live[kw] /\ M2[1] = m
  BY <1>6, BoundsAssumption DEF Histories, Chains, Explained, Explains
<1>8. Stored(kw)' = 0 /\ Deleted(kw)'
  BY <1>1, <1>4, <1>5 DEF Stored, Deleted
<1>9. Explains(kw, L2, M2)'
  <2>1. M2[1] = [w |-> kw, ut |-> St(1, c2), e |-> ESnap(St(1, c2), L2[1]), p |-> PSnap(c2, L2[1])]
    BY <1>7 DEF ReProofEntry
  <2>2. SnapAt(kw, c2, L2, M2)
    BY <2>1 DEF SnapAt
  <2>3. SnapAt(kw, WC2[kw], L2, M2)'
    BY <1>1, <1>4, <2>2 DEF SnapAt
  <2>4. EntryAt(kw, WC2[kw], L2, M2, 1)'
    BY <1>1, <1>3, <1>4, <2>3 DEF EntryAt
  <2>5. ASSUME NEW i \in 1..1 PROVE EntryAt(kw, WC2[kw], L2, M2, i)'
    <3>1. i = 1
      OBVIOUS
    <3>2. QED
      BY <2>4, <3>1
  <2>6. QED
    BY <1>1, <1>4, <1>7, <2>5 DEF Explains
<1>10. StoreHolds(kw, M2)'
  <2>1. Deleted(kw)
    BY <1>1, <1>2, <1>3 DEF Deleted, AcceptAndReProof, Longer
  <2>2. DOMAIN es'[kw] = {}
    BY <1>1, <2>1 DEF Explained, StoreHolds
  <2>3. 1..0 = {}
    OBVIOUS
  <2>4. QED
    BY <1>1, <1>8, <2>2, <2>3 DEF StoreHolds
<1>11. NetHolds(kw, M2)'
  <2>1. ASSUME NEW k \in 1..1 PROVE net'[k] = M2[0 + k]
    <3>1. k = 1 /\ 0 + k = 1
      OBVIOUS
    <3>2. QED
      BY <1>5, <1>7, <3>1
  <2>2. QED
    BY <1>5, <1>8, <2>1 DEF NetHolds
<1>12. WalkHolds(kw, L2, M2)' /\ ReplyHolds(kw, L2, M2)'
  BY <1>1, <1>3 DEF WalkHolds, ReplyHolds
<1>13. QED
  BY <1>6, <1>9, <1>10, <1>11, <1>12 DEF Explained

-----------------------------------------------------------------------------
(* The invariant holds.                                                    *)

\* No action changes the index of a keyword that is not the command's.
LEMMA OthersKept ==
  ASSUME IInv, NEW w \in Keyword, NEW L \in Histories, NEW M \in Chains, Explained(w, L, M),
         w # kw, pc # "off", Next
  PROVE  Explained(w, L, M)'
<1>1. TypeInv /\ Phase /\ kw \in Keyword
  BY Shapes DEF IInv
<1>2. CASE FinishUpdate \/ FinishReProof \/ Exit
  BY <1>2, StartOrEnd
<1>3. CASE ~(FinishUpdate \/ FinishReProof \/ Exit)
  <2>1. kw' = kw /\ w # kw'
    BY <1>3 DEF Next, StartUpdate, StartSearch, WriteUpdate, ClientSearch, RejectCount,
                RejectResult, AcceptResult, VerifyFirst, VerifyNext, AcceptAndReProof,
                ServerHandler, ServerStore, ServerWalk, ServerWalkJunk, ServerThrow, ServerLast
  <2>2. WC1'[w] = WC1[w] /\ WC2'[w] = WC2[w] /\ live'[w] = live[w]
    BY <1>1, <1>3, Shapes DEF Next, StartUpdate, StartSearch, WriteUpdate, ClientSearch, RejectCount,
                RejectResult, AcceptResult, VerifyFirst, VerifyNext, AcceptAndReProof,
                ServerHandler, ServerStore, ServerWalk, ServerWalkJunk, ServerThrow, ServerLast
  <2>3. es'[w] = es[w] /\ ps'[w] = ps[w]
    <3>1. PICK Lk \in Histories, Mk \in Chains : Explained(kw, Lk, Mk)
      BY <1>1 DEF IInv
    <3>2. CASE ServerStore
      BY <3>1, <3>2, Delivered
    <3>3. CASE ServerLast
      BY <3>1, <3>3, Replied DEF ServerLast
    <3>4. CASE ~(ServerStore \/ ServerLast)
      BY <1>3, <3>4 DEF Next, StartUpdate, StartSearch, WriteUpdate, ClientSearch, RejectCount,
                RejectResult, AcceptResult, VerifyFirst, VerifyNext, AcceptAndReProof,
                ServerHandler, ServerWalk, ServerWalkJunk, ServerThrow
    <3>5. QED
      BY <3>2, <3>3, <3>4
  <2>4. QED
    BY <2>1, <2>2, <2>3, Elsewhere
<1>4. QED
  BY <1>2, <1>3

\* The same fact of the command's keyword, whichever way it is named.
LEMMA Renamed ==
  ASSUME NEW w, NEW L, NEW M, w = kw', Explained(kw, L, M)'
  PROVE  Explained(w, L, M)'
<1>1. Explains(w, L, M)'
  BY DEF Explained, Explains, EntryAt, SnapAt, LinkAt
<1>2. StoreHolds(w, M)'
  BY DEF Explained, StoreHolds, Stored, Deleted
<1>3. NetHolds(w, M)'
  BY DEF Explained, NetHolds, Stored
<1>4. WalkHolds(w, L, M)' /\ ReplyHolds(w, L, M)'
  BY DEF Explained, WalkHolds, ReplyHolds
<1>5. QED
  BY <1>1, <1>2, <1>3, <1>4 DEF Explained

LEMMA NextInv == IInv /\ [Next]_vars => IInv'
<1> SUFFICES ASSUME IInv, [Next]_vars PROVE IInv'
  OBVIOUS
<1>1. CASE UNCHANGED vars
  <2>1. TypeInv' /\ Phase'
    BY <1>1, NextType DEF vars, IInv, Phase
  <2>2. ASSUME NEW w \in Keyword, NEW L \in Histories, NEW M \in Chains, Explained(w, L, M)
        PROVE  Explained(w, L, M)'
    <3>1. Stored(w)' = Stored(w) /\ Deleted(w)' = Deleted(w)
      BY <1>1 DEF vars, Stored, Deleted
    <3>2. Explains(w, L, M)' /\ StoreHolds(w, M)'
      BY <1>1, <2>2, <3>1, Kept DEF vars
    <3>3. NetHolds(w, M)' /\ WalkHolds(w, L, M)' /\ ReplyHolds(w, L, M)'
      BY <1>1, <2>2, <3>1 DEF vars, Explained, NetHolds, WalkHolds, ReplyHolds
    <3>4. QED
      BY <3>2, <3>3 DEF Explained
  <2>3. Histories' = Histories /\ Chains' = Chains
    BY DEF Histories, Chains
  <2>4. QED
    BY <2>1, <2>2, <2>3 DEF IInv
<1>2. CASE Next
  <2>1. TypeInv'
    BY <1>2, NextType DEF IInv
  <2>2. Phase'
    BY <1>2, PhaseNext DEF IInv
  <2>3. ASSUME NEW w \in Keyword
        PROVE  (\E L \in Histories, M \in Chains : Explained(w, L, M))'
    <3>1. PICK L \in Histories, M \in Chains : Explained(w, L, M)
      BY DEF IInv
    <3>2. Histories' = Histories /\ Chains' = Chains
      BY DEF Histories, Chains
    <3>3. SUFFICES \E L2 \in Histories, M2 \in Chains : Explained(w, L2, M2)'
      BY <3>2
    <3>4. CASE \/ \E v \in Keyword : StartUpdate(v) \/ StartSearch(v)
               \/ FinishUpdate \/ FinishReProof \/ Exit
      BY <3>1, <3>4, StartOrEnd
    <3>5. CASE pc # "off" /\ w # kw
      BY <1>2, <3>1, <3>5, OthersKept
    <3>6. CASE w = kw /\ \E op \in Op, id \in Id : WriteUpdate(op, id)
      <4>1. \E L2 \in Histories, M2 \in Chains : Explained(kw, L2, M2)'
        BY <3>1, <3>6, Written
      <4>2. kw' = kw
        BY <3>6 DEF WriteUpdate
      <4>3. QED
        BY <3>6, <4>1, <4>2, Renamed
    <3>7. CASE w = kw /\ ServerHandler
      <4>1. Explained(kw, L, M)'
        BY <3>1, <3>7, Delivered, Walked, Thrown, Replied DEF ServerHandler
      <4>2. kw' = kw
        BY <3>7 DEF ServerHandler, ServerStore, ServerWalk, ServerWalkJunk, ServerThrow, ServerLast
      <4>3. QED
        BY <3>7, <4>1, <4>2, Renamed
    <3>8. CASE w = kw /\ (RejectCount \/ RejectResult \/ AcceptResult \/ VerifyFirst \/ VerifyNext)
      <4>1. Explained(kw, L, M)'
        BY <3>1, <3>8, Concluded, Verified
      <4>2. kw' = kw
        BY <3>8 DEF RejectCount, RejectResult, AcceptResult, VerifyFirst, VerifyNext
      <4>3. QED
        BY <3>8, <4>1, <4>2, Renamed
    <3>9. CASE w = kw /\ AcceptAndReProof
      <4>1. \E L2 \in Histories, M2 \in Chains : Explained(kw, L2, M2)'
        BY <3>1, <3>9, Compacted
      <4>2. kw' = kw
        BY <3>9 DEF AcceptAndReProof
      <4>3. QED
        BY <3>9, <4>1, <4>2, Renamed
    <3>10. CASE pc = "off"
      <4>1. net = <<>> /\ srv = None
        BY <3>10 DEF IInv, Phase, TypeInv, Guarded
      <4>2. \E v \in Keyword : StartUpdate(v) \/ StartSearch(v)
        BY <1>2, <3>10, <4>1 DEF Next, WriteUpdate, FinishUpdate, Exit, ClientSearch, RejectCount,
                RejectResult, AcceptResult, VerifyFirst, VerifyNext, AcceptAndReProof, FinishReProof,
                ServerHandler, ServerStore, ServerWalk, ServerWalkJunk, ServerThrow, ServerLast
      <4>3. QED
        BY <3>4, <4>2
    <3>11. QED
      BY <1>2, <3>4, <3>5, <3>6, <3>7, <3>8, <3>9, <3>10 DEF Next, ClientSearch
  <2>4. QED
    BY <2>1, <2>2, <2>3 DEF IInv
<1>3. QED
  BY <1>1, <1>2

\* In every reachable state the chain M and the history L of each keyword
\* explain all that the client, the server and the calls between them hold.
THEOREM Invariant == Spec => []IInv
  BY InitInv, NextInv, PTL DEF Spec

-----------------------------------------------------------------------------
(* What follows from it.                                                   *)

\* The search handler never misses a lookup, so it never falls back on the
\* entry of the turn before or reads an entry of another epoch.
THEOREM NoStaleReads == Spec => []NoStaleRead
<1>1. ASSUME IInv PROVE NoStaleRead
  <2> SUFFICES ASSUME srv # None, srv.c1 > 0
               PROVE  /\ srv.st \in DOMAIN es[srv.w] /\ srv.st \in DOMAIN ps[srv.w]
                      /\ es[srv.w][srv.st].at = St(srv.i, srv.c2)
                      /\ ps[srv.w][srv.st].c2 = srv.c2
    BY DEF NoStaleRead
  <2>1. kw \in Keyword /\ WC1[kw] > 0
    BY <1>1, Shapes DEF IInv, TypeInv, Guarded
  <2>2. PICK L \in Histories, M \in Chains : Explained(kw, L, M)
    BY <1>1, <2>1 DEF IInv
  <2>3. /\ srv.w = kw /\ srv.c2 = WC2[kw]
        /\ srv.st \in DOMAIN es[kw] /\ srv.st \in DOMAIN ps[kw]
        /\ LookE = M[srv.i].e /\ LookP = M[srv.i].p
        /\ EntryAt(kw, WC2[kw], L, M, srv.i)
    BY <1>1, <2>1, <2>2, Lookups
  <2>4. es[kw][srv.st] = M[srv.i].e /\ ps[kw][srv.st] = M[srv.i].p
    BY <2>3 DEF LookE, LookP, Get
  <2>5. M[srv.i].e.at = St(srv.i, WC2[kw]) /\ M[srv.i].p.c2 = WC2[kw]
    BY <2>3, Fields
  <2>6. QED
    BY <2>3, <2>4, <2>5
<1>2. QED
  BY <1>1, Invariant, PTL

\* Between commands the server's index of a keyword is the chain the client's
\* saved counters name, no entry fewer and no entry more.
THEOREM AlwaysSearchable == Spec => []SearchableAtRest
<1>1. ASSUME IInv PROVE SearchableAtRest
  <2> SUFFICES ASSUME pc = "off", NEW w \in Keyword
               PROVE  DOMAIN es[w] = Chain(db[w].c1, db[w].c2)
    BY DEF SearchableAtRest
  <2>1. PICK L \in Histories, M \in Chains : Explained(w, L, M)
    BY <1>1 DEF IInv
  <2>2. db[w] = [c1 |-> WC1[w], c2 |-> WC2[w]] /\ net = <<>> /\ WC1[w] \in Nat
    BY <1>1, Shapes DEF IInv, Phase
  <2>3. Stored(w) = WC1[w] /\ ~Deleted(w)
    <3>1. Len(net) = 0
      BY <2>2
    <3>2. QED
      BY <2>2, <3>1 DEF Stored, Deleted
  <2>4. QED
    BY <2>1, <2>2, <2>3 DEF Explained, StoreHolds
<1>2. QED
  BY <1>1, Invariant, PTL

\* A finished search is a Search of SSEIndex: it accepts exactly the documents
\* attached to an updated keyword, and rejects any other keyword.
LEMMA SearchStep ==
  ASSUME IInv, RejectCount \/ RejectResult \/ AcceptResult \/ AcceptAndReProof
  PROVE  Index!Search(kw)
<1> DEFINE updated == {w \in Keyword : WC1[w] > 0}
<1>1. kw \in Keyword /\ pc = "search" /\ reply # None /\ WC1 \in [Keyword -> 0..MaxC1] /\ live' = live
  BY Shapes DEF IInv, TypeInv, Guarded, RejectCount, RejectResult, AcceptResult, AcceptAndReProof
<1>2. PICK L \in Histories, M \in Chains : Explained(kw, L, M)
  BY <1>1 DEF IInv
<1>3. CASE RejectCount
  <2>1. kw \notin updated
    BY <1>1, <1>2, <1>3, ReplyRead DEF RejectCount
  <2>2. result' = [kw |-> kw, verdict |-> "Reject", ids |-> {}] /\ WC1' = WC1
    BY <1>3 DEF RejectCount, Conclude
  <2>3. QED
    BY <1>1, <2>1, <2>2 DEF Index!Search
<1>4. CASE RejectResult
  BY <1>2, <1>4, Agreed DEF RejectResult
<1>5. CASE AcceptResult \/ AcceptAndReProof
  <2>1. reply.R = live[kw] /\ kw \in updated
    BY <1>1, <1>2, <1>5, Agreed DEF AcceptResult, AcceptAndReProof
  <2>2. result' = [kw |-> kw, verdict |-> "Accept", ids |-> live[kw]]
    BY <1>5, <2>1 DEF AcceptResult, AcceptAndReProof, Conclude
  <2>3. {w \in Keyword : WC1[w] > 0}' = updated
    <3>1. WC1' = WC1 \/ WC1' = [WC1 EXCEPT ![kw] = 1]
      BY <1>5 DEF AcceptResult, AcceptAndReProof
    <3>2. ASSUME NEW w \in Keyword PROVE WC1'[w] > 0 <=> WC1[w] > 0
      BY <1>1, <2>1, <3>1
    <3>3. QED
      BY <3>2
  <2>4. QED
    BY <1>1, <2>1, <2>2, <2>3 DEF Index!Search
<1>6. QED
  BY <1>3, <1>4, <1>5

\* The client and the server of FFVSE implement SSEIndex: whatever is updated,
\* searched and compacted, every search of an updated keyword is accepted with
\* exactly the documents attached to it.
THEOREM Implements == Spec => IndexSpec
<1>1. ASSUME Init PROVE Index!Init
  <2>1. {w \in Keyword : WC1[w] > 0} = {}
    BY <1>1 DEF Init
  <2>2. QED
    BY <1>1, <2>1 DEF Init, Index!Init
<1>2. ASSUME IInv, [Next]_vars PROVE [Index!Next]_(Index!vars)
  <2>0. TypeInv /\ Phase /\ WC1 \in [Keyword -> 0..MaxC1] /\ live \in [Keyword -> SUBSET Id]
    BY <1>2, Shapes DEF IInv
  <2>1. CASE \E op \in Op, id \in Id : WriteUpdate(op, id)
    <3>1. PICK op \in Op, id \in Id : WriteUpdate(op, id)
      BY <2>1
    <3>2. kw \in Keyword /\ WC1' = [WC1 EXCEPT ![kw] = WC1[kw] + 1] /\ WC1[kw] + 1 > 0
      BY <1>2, <2>0, <3>1, Shapes, BoundsAssumption DEF WriteUpdate
    <3>3. {w \in Keyword : WC1[w] > 0}' = {w \in Keyword : WC1[w] > 0} \cup {kw}
      <4>1. ASSUME NEW w \in Keyword PROVE WC1'[w] > 0 <=> WC1[w] > 0 \/ w = kw
        BY <2>0, <3>2
      <4>2. QED
        BY <3>2, <4>1
    <3>4. live' = [live EXCEPT ![kw] = Index!Apply(live[kw], op, id)] /\ result' = result
      BY <3>1 DEF WriteUpdate, Apply, Index!Apply
    <3>5. Index!Update(kw, op, id)
      BY <3>3, <3>4 DEF Index!Update
    <3>6. QED
      BY <3>2, <3>5 DEF Index!Next, Op
  <2>2. CASE RejectCount \/ RejectResult \/ AcceptResult \/ AcceptAndReProof
    <3>1. kw \in Keyword
      BY <2>0, <2>2, Shapes DEF RejectCount, RejectResult, AcceptResult, AcceptAndReProof
    <3>2. QED
      BY <1>2, <2>2, <3>1, SearchStep DEF Index!Next
  <2>3. CASE \E w \in Keyword : StartUpdate(w) \/ StartSearch(w)
    <3>1. WC1' = WC1
      BY <2>0, <2>3, Shapes DEF StartUpdate, StartSearch, Load, Phase
    <3>2. live' = live /\ result' = result
      BY <2>3 DEF StartUpdate, StartSearch
    <3>3. QED
      BY <3>1, <3>2 DEF Index!vars
  <2>4. CASE \/ FinishUpdate \/ Exit \/ FinishReProof \/ VerifyFirst \/ VerifyNext
             \/ ServerHandler \/ UNCHANGED vars
    BY <2>4 DEF FinishUpdate, Exit, FinishReProof, VerifyFirst, VerifyNext, vars, Index!vars,
                ServerHandler, ServerStore, ServerWalk, ServerWalkJunk, ServerThrow, ServerLast
  <2>5. QED
    BY <1>2, <2>1, <2>2, <2>3, <2>4 DEF Next, ClientSearch
<1>3. QED
  BY <1>1, <1>2, Invariant, PTL DEF Spec, IndexSpec, Index!Spec
=============================================================================
