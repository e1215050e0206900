---------------------------- MODULE FFVSEFaults ----------------------------
(***************************************************************************)
(* FFVSE when a process dies or a connection breaks.  Nothing in the code  *)
(* handles either: the client saves its counters only in ~Client, one key  *)
(* after the other, ignores the status of every call, and generates the    *)
(* rest of a job after its stream has failed; the server's stores and      *)
(* deletions are separate RocksDB writes.                                  *)
(*                                                                         *)
(* The server has one handler for each call.  The handler of a call that   *)
(* broke, or whose client was killed, still stores what it has received,   *)
(* or finishes its search, while the next calls are served.                *)
(***************************************************************************)
EXTENDS FFVSE

CONSTANTS MaxFaults,   \* bound: faults in a behaviour
          MaxUpdates   \* bound: updates in a behaviour

VARIABLES
  late,       \* late[f]: what is left of the stream that fault f broke
  half,       \* the streams whose first entry has its "e" stored and not its "p"
  orphan,     \* the locals of a search whose client was killed
  deleting,   \* the searches that delete what they walked
  save, hole, \* ~Client: the keys still to be stored, and the one just deleted
  broken,     \* the stream of the running job has failed
  overtaken,  \* history: an entry was replaced by one of an older stream
  claimed,    \* history: what the epoch's snapshot and the updates since make
  saved,      \* history: `live' and `claimed' of the counters in db
  faults,     \* how many faults there have been
  updates     \* and how many updates

client  == <<pc, kw, db, WC1, WC2, reply, vi, Rp, live, result>>
server  == <<late, half, orphan, deleting>>
closing == <<save, hole>>
history == <<overtaken, claimed, saved, faults, updates>>
fvars   == <<vars, server, closing, broken, history>>

Fault  == 1..MaxFaults
Stream == {0} \cup Fault       \* 0 is the one of the running client

FInit ==
  /\ Init
  /\ late = [f \in Fault |-> <<>>] /\ half = {} /\ orphan = None /\ deleting = {}
  /\ save = {} /\ hole = None /\ broken = FALSE
  /\ overtaken = FALSE /\ claimed = live /\ saved = [live |-> live, claimed |-> live]
  /\ faults = 0 /\ updates = 0

-----------------------------------------------------------------------------
(* The server's handlers.                                                  *)

Queue(s) == IF s = 0 THEN net ELSE late[s]

\* What a handler of an older stream overwrites is lost.
Overtakes(s, f, k, v) == s # 0 /\ k \in DOMAIN f /\ f[k] # v

\* batch_update and ReProof: the "e" entry of a message is stored, then its "p".
StoreE(s) ==
  /\ Queue(s) # <<>> /\ s \notin half
  /\ LET m == Head(Queue(s)) IN
       /\ es' = [es EXCEPT ![m.w] = Put(@, m.ut, m.e)]
       /\ overtaken' = (overtaken \/ Overtakes(s, es[m.w], m.ut, m.e))
  /\ half' = half \cup {s}
  /\ UNCHANGED <<client, net, ps, srv, late, orphan, deleting, closing, broken, claimed, saved, faults, updates>>

StoreP(s) ==
  /\ s \in half
  /\ LET m == Head(Queue(s)) IN
       /\ ps' = [ps EXCEPT ![m.w] = Put(@, m.ut, m.p)]
       /\ overtaken' = (overtaken \/ Overtakes(s, ps[m.w], m.ut, m.p))
  /\ half' = half \ {s}
  /\ net' = IF s = 0 THEN Tail(net) ELSE net
  /\ late' = IF s = 0 THEN late ELSE [late EXCEPT ![s] = Tail(@)]
  /\ UNCHANGED <<client, es, srv, orphan, deleting, closing, broken, claimed, saved, faults, updates>>

\* The last turn of a search: what it walked is deleted if the chain is longer
\* than the answer, and then it replies.
LastTurn ==
  /\ srv # None /\ srv.i <= 1 /\ LookE # None
  /\ \E out \in Oldest(LookE), wipe \in BOOLEAN :
       LET answer == [ok |-> TRUE, R |-> out.R, junk |-> out.junk, P |-> LookedP]
       IN  /\ wipe => srv.c1 > Cardinality(out.R)
           /\ ~wipe => srv.c1 <= Cardinality(out.R) \/ out.junk
           /\ IF wipe
                THEN /\ deleting' = deleting \cup {[w |-> srv.w, left |-> LookedUts, reply |-> answer]}
                     /\ UNCHANGED reply
                ELSE reply' = answer /\ UNCHANGED deleting
  /\ srv' = None
  /\ UNCHANGED <<pc, kw, db, WC1, WC2, net, es, ps, vi, Rp, live, result>>
  /\ UNCHANGED <<late, half, orphan, closing, broken, history>>

\* delete_entry for one of the labels; after the last the answer is streamed, to
\* a client that may be dead.
DeleteOne ==
  \E d \in deleting : \E l \in d.left :
    LET rest == [d EXCEPT !.left = @ \ {l}]
        over == rest.left = {}
    IN  /\ es' = [es EXCEPT ![d.w] = Delete(@, {l})]
        /\ deleting' = (deleting \ {d}) \cup (IF over THEN {} ELSE {rest})
        /\ reply' = IF over /\ d.reply # None THEN d.reply ELSE reply
        /\ UNCHANGED <<pc, kw, db, WC1, WC2, net, ps, srv, vi, Rp, live, result>>
        /\ UNCHANGED <<late, half, orphan, closing, broken, history>>

\* The search of a killed client goes on: the same turns, and no one to reply to.
Orphan == INSTANCE FFVSE WITH srv <- orphan

OrphanWalk == /\ Orphan!ServerWalk \/ Orphan!ServerWalkJunk
              /\ UNCHANGED <<srv, late, half, deleting, closing, broken, history>>

OrphanEnd ==
  /\ orphan # None
  /\ \/ Orphan!LookE = None /\ UNCHANGED deleting
     \/ /\ Orphan!LookE # None /\ orphan.i <= 1
        /\ \E out \in Orphan!Oldest(Orphan!LookE) :
             \/ /\ orphan.c1 > Cardinality(out.R)
                /\ deleting' = deleting \cup
                                 {[w |-> orphan.w, left |-> Orphan!LookedUts, reply |-> None]}
             \/ /\ orphan.c1 <= Cardinality(out.R) \/ out.junk
                /\ UNCHANGED deleting
  /\ orphan' = None
  /\ UNCHANGED <<vars, late, half, closing, broken, history>>

-----------------------------------------------------------------------------
(* Faults.                                                                 *)

\* The connection of the running stream breaks: its handler has received the
\* first messages only.
Break ==
  /\ faults < MaxFaults /\ faults' = faults + 1
  /\ \E n \in (IF 0 \in half THEN 1 ELSE 0)..Len(net) :
       late' = [late EXCEPT ![faults + 1] = SubSeq(net, 1, n)]
  /\ half' = IF 0 \in half THEN (half \ {0}) \cup {faults + 1} ELSE half
  /\ net' = <<>>

\* The client process is killed.  The counters it has not put are lost, and with
\* them the updates of the command that was running.
Kill ==
  /\ pc # "off" /\ (srv # None => orphan = None)
  /\ Break
  /\ pc' = "off" /\ kw' = None
  /\ WC1' = [w \in Keyword |-> db[w].c1] /\ WC2' = [w \in Keyword |-> db[w].c2]
  /\ reply' = None /\ vi' = 0 /\ Rp' = {}
  /\ save' = {} /\ hole' = None /\ broken' = FALSE
  /\ srv' = None /\ orphan' = IF srv # None THEN srv ELSE orphan
  /\ deleting' = {[d EXCEPT !.reply = None] : d \in deleting}
  /\ live' = saved.live /\ claimed' = saved.claimed
  /\ UNCHANGED <<db, es, ps, result, overtaken, saved, updates>>

\* The client's stream or call fails, and the client goes on at once.
LoseCall ==
  /\ pc \in {"update", "reproof"} /\ ~broken
  /\ Break
  /\ broken' = (pc = "update")
  /\ UNCHANGED <<client, es, ps, srv, orphan, deleting, closing, overtaken, claimed, saved, updates>>

\* The reply stream of a search is cut short.
LoseReply ==
  /\ faults < MaxFaults /\ faults' = faults + 1
  /\ pc = "search" /\ reply # None /\ vi = 0
  /\ reply' = [reply EXCEPT !.ok = FALSE]
  /\ UNCHANGED <<pc, kw, db, WC1, WC2, net, es, ps, srv, vi, Rp, live, result>>
  /\ UNCHANGED <<server, closing, broken, overtaken, claimed, saved, updates>>

\* The server dies and is restarted: every handler is gone where it stood.
CrashServer ==
  /\ faults < MaxFaults /\ faults' = faults + 1
  /\ net' = <<>> /\ late' = [f \in Fault |-> <<>>] /\ half' = {}
  /\ srv' = None /\ orphan' = None /\ deleting' = {}
  /\ broken' = (pc = "update")
  /\ reply' = IF pc = "search" /\ reply = None
                THEN [ok |-> FALSE, R |-> {}, junk |-> FALSE, P |-> [j \in 1..MaxC1 |-> None]]
                ELSE reply
  /\ UNCHANGED <<pc, kw, db, WC1, WC2, es, ps, vi, Rp, live, result>>
  /\ UNCHANGED <<closing, overtaken, claimed, saved, updates>>

-----------------------------------------------------------------------------
(* The steps of the client in FFVSE, and what they mean for the histories. *)

Count(op, id) == /\ updates < MaxUpdates /\ updates' = updates + 1
                 /\ claimed' = [claimed EXCEPT ![kw] = Apply(@, op, id)]

WriteSent(op, id) == /\ WriteUpdate(op, id) /\ ~broken
                     /\ Count(op, id)
                     /\ UNCHANGED <<server, closing, broken, overtaken, saved, faults>>

\* One turn of a job whose writer->Write returns false: the counter moves all
\* the same.
WriteLost(op, id) ==
  /\ pc = "update" /\ broken
  /\ WC1[kw] < MaxC1
  /\ WC1' = [WC1 EXCEPT ![kw] = @ + 1]
  /\ live' = [live EXCEPT ![kw] = Apply(@, op, id)]
  /\ Count(op, id)
  /\ UNCHANGED <<pc, kw, db, WC2, net, es, ps, srv, reply, vi, Rp, result>>
  /\ UNCHANGED <<server, closing, broken, overtaken, saved, faults>>

Finish == FinishUpdate /\ broken' = FALSE /\ UNCHANGED <<server, closing, history>>

Compact == /\ AcceptAndReProof
           /\ claimed' = [claimed EXCEPT ![kw] = reply.R]
           /\ UNCHANGED <<server, closing, broken, overtaken, saved, faults, updates>>

\* ~Client(): the keys of WC1, then those of WC2, each deleted and put.
Close ==
  /\ pc = "exit" /\ pc' = "closing"
  /\ save' = {<<"c1", w>> : w \in {v \in Keyword : WC1[v] > 0}}
             \cup {<<"c2", w>> : w \in {v \in Keyword : WC2[v] > 0}}
  /\ UNCHANGED <<kw, db, WC1, WC2, net, es, ps, srv, reply, vi, Rp, live, result>>
  /\ UNCHANGED <<server, hole, broken, history>>

DeleteKey ==
  /\ hole = None
  /\ \E k \in save :
       /\ k[1] = "c2" => \A l \in save : l[1] = "c2"
       /\ db' = [db EXCEPT ![k[2]][k[1]] = 0]
       /\ hole' = k
  /\ UNCHANGED <<pc, kw, WC1, WC2, net, es, ps, srv, reply, vi, Rp, live, result>>
  /\ UNCHANGED <<server, save, broken, history>>

\* Mutation: the last update is not counted.
CounterBefore(k) == IF k[1] = "c1" THEN WC1[k[2]] - 1 ELSE WC2[k[2]]

Counter(k) == IF k[1] = "c1" THEN WC1[k[2]] ELSE WC2[k[2]]

PutKey ==
  /\ hole # None
  /\ db' = [db EXCEPT ![hole[2]][hole[1]] = Counter(hole)]
  /\ saved' = IF hole[1] = "c2" THEN saved
              ELSE [live |-> [saved.live EXCEPT ![hole[2]] = live[hole[2]]],
                    claimed |-> [saved.claimed EXCEPT ![hole[2]] = claimed[hole[2]]]]
  /\ save' = save \ {hole} /\ hole' = None
  /\ UNCHANGED <<pc, kw, WC1, WC2, net, es, ps, srv, reply, vi, Rp, live, result>>
  /\ UNCHANGED <<server, broken, overtaken, claimed, faults, updates>>

End ==
  /\ pc = "closing" /\ save = {}
  /\ pc' = "off" /\ kw' = None
  /\ reply' = None /\ vi' = 0 /\ Rp' = {}
  /\ UNCHANGED <<db, WC1, WC2, net, es, ps, srv, live, result>>
  /\ UNCHANGED <<server, closing, broken, history>>

Undisturbed ==
  /\ \/ \E w \in Keyword : StartUpdate(w) \/ StartSearch(w)
     \/ RejectCount \/ VerifyFirst \/ VerifyNext
     \/ RejectResult \/ AcceptResult \/ FinishReProof
     \/ ServerWalk \/ ServerWalkJunk \/ ServerThrow
  /\ UNCHANGED <<server, closing, broken, history>>

FNext ==
  \/ Kill \/ LoseCall \/ LoseReply \/ CrashServer
  \/ \E s \in Stream : StoreE(s) \/ StoreP(s)
  \/ LastTurn \/ DeleteOne \/ OrphanWalk \/ OrphanEnd
  \/ \E op \in Op, id \in Id : WriteSent(op, id) \/ WriteLost(op, id)
  \/ Finish \/ Compact \/ Close \/ DeleteKey \/ PutKey \/ End \/ Undisturbed

FaultySpec == FInit /\ [][FNext]_fvars

-----------------------------------------------------------------------------
\* Whatever was lost on the way to the server or by it, an accepted answer
\* holds no document that is not attached: a gap in the chain can only hide
\* older updates, and the newest update of a document decides.  Unless an entry
\* was replaced by one of a killed client: that one is accepted for it.
AcceptedIsAttached == Accepting /\ ~overtaken => reply.R \subseteq live[kw]

\* Once a keyword has been compacted a gap is always noticed: the walk reaches
\* the snapshot only through every entry of the epoch, and junk in its place is
\* never accepted.  What is accepted is the snapshot with every later update.
AcceptedIsClaimed == Accepting /\ ~overtaken /\ WC2[kw] > 0 => reply.R = claimed[kw]
=============================================================================
