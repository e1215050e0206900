-------------------------------- MODULE FVSE --------------------------------
(***************************************************************************)
(* FVSE (src/FVSE): the client counts the updates of a keyword and stores  *)
(* each under the label its count gives; a search asks for the labels      *)
(* 1..count.  Every command is a process of its own: it loads the counters *)
(* from its database, works, and stores them when it ends.  A generator    *)
(* starts several threads that draw their counts from the one Client       *)
(* without a lock, each with a stream of its own to the server.            *)
(*                                                                         *)
(* A random file identifier is the number of its update; Short is the      *)
(* identifier "ind" of command 1, which is shorter than a checksum.        *)
(***************************************************************************)
EXTENDS Integers, Sequences, FiniteSets

CONSTANTS Keyword,
          MaxThreads, MaxBatch, \* bounds on what the command line asks for
          MaxMade, MaxFaults    \* bounds on all updates, and on kills and failing calls
ASSUME BoundsAssumption == /\ MaxThreads \in Nat \ {0} /\ MaxBatch \in Nat \ {0}
                           /\ MaxMade \in Nat /\ MaxFaults \in Nat

VARIABLES threads,  \* n_threads of this user's generators
          db,       \* the client's database: its counters and its checksums
          uc, sc,   \* uc_mapper and sc_mapper of the process
          run,      \* its command, or Off
          job,      \* its threads: where each is, and its locals
          save, hole, \* ~Client: what is still to be stored, and the key just deleted
          wire,     \* each thread's stream, sent and not yet stored by the server
          late,     \* the same of clients that were killed
          edb,      \* the server: label |-> entry
          answer,   \* what the last search returned
          made, faults,
          failed    \* whether a call or a stream of a living client has failed
vars == <<threads, db, uc, sc, run, job, save, hole, wire, late, edb, answer, made, faults, failed>>

Short == 0
Zero == {}       \* a checksum is the XOR of identifiers: the set of those left over
Broken == {-1}   \* the empty string
Xor(sum, ind) == IF sum = Broken \/ ind = Short THEN Broken
                 ELSE IF ind \in sum THEN sum \ {ind} ELSE sum \cup {ind}

Off == [do |-> "off"]
NoHole == <<>>
Thread == 1..threads
AtRest == [at |-> "done", uc |-> 0, sc |-> Zero, left |-> 0, cut |-> FALSE]
Set(f, k, v) == [x \in DOMAIN f \cup {k} |-> IF x = k THEN v ELSE f[x]]
Without(f, k) == [x \in DOMAIN f \ {k} |-> f[x]]

Init ==
  /\ threads \in 1..MaxThreads
  /\ db = [uc |-> <<>>, sc |-> <<>>]
  /\ uc = <<>> /\ sc = <<>> /\ run = Off
  /\ job = [j \in Thread |-> AtRest]
  /\ save = {} /\ hole = NoHole
  /\ wire = [j \in Thread |-> <<>>] /\ late = [j \in Thread |-> <<>>]
  /\ edb = <<>> /\ answer = {}
  /\ made = 0 /\ faults = 0 /\ failed = FALSE

-----------------------------------------------------------------------------
(* The command line.  A batch of n splits over the threads, the last one  *)
(* taking the remainder; batch_update is a generator of one thread.        *)

\* Mutation: the counters are not loaded.
StartEmpty(do, w, lefts) ==
  /\ run = Off
  /\ run' = [do |-> do, w |-> w]
  /\ uc' = <<>> /\ sc' = db.sc
  /\ job' = [j \in Thread |-> IF lefts[j] = 0 THEN AtRest
                              ELSE [AtRest EXCEPT !.at = "uc", !.left = lefts[j]]]
  /\ UNCHANGED <<threads, db, save, hole, wire, late, edb, answer, made, faults, failed>>

Start(do, w, lefts) ==
  /\ run = Off
  /\ run' = [do |-> do, w |-> w]
  /\ uc' = db.uc /\ sc' = db.sc
  /\ job' = [j \in Thread |-> IF lefts[j] = 0 THEN AtRest
                              ELSE [AtRest EXCEPT !.at = "uc", !.left = lefts[j]]]
  /\ UNCHANGED <<threads, db, save, hole, wire, late, edb, answer, made, faults, failed>>

Alone == [j \in Thread |-> IF j = 1 THEN 1 ELSE 0]
Shares(n) == [j \in Thread |-> n \div threads + (IF j = threads THEN n % threads ELSE 0)]

StartUpdate(w) == made < MaxMade /\ Start("update", w, Alone)
StartSearch(w) == Start("search", w, Alone) \/ Start("verify", w, Alone)
StartBatch(w) == \E n \in 1..MaxBatch : made + n <= MaxMade /\ Start("batch", w, Shares(n))

-----------------------------------------------------------------------------
(* gen_update_request and gen_update_token, one access to a map at a time  *)

Goto(j, p) == job' = [job EXCEPT ![j].at = p]
Unsaved == UNCHANGED <<threads, db, run, save, hole, late, answer, faults, failed>>

\* get_update_time; a keyword that is not there yet gets a 0, in a second step.
ReadCount(j) ==
  /\ job[j].at = "uc"
  /\ job' = [job EXCEPT ![j].at = IF run.w \in DOMAIN uc THEN "sc" ELSE "uc0",
                        ![j].uc = IF run.w \in DOMAIN uc THEN uc[run.w] ELSE 0]
  /\ Unsaved /\ UNCHANGED <<uc, sc, wire, edb, made>>

ZeroCount(j) ==
  /\ job[j].at = "uc0"
  /\ uc' = Set(uc, run.w, 0) /\ Goto(j, "sc")
  /\ Unsaved /\ UNCHANGED <<sc, wire, edb, made>>

\* get_search_time
ReadSum(j) ==
  /\ job[j].at = "sc" /\ run.do \notin {"search", "verify"}
  /\ job' = [job EXCEPT ![j].at = IF run.w \in DOMAIN sc THEN "setuc" ELSE "sc0",
                        ![j].sc = IF run.w \in DOMAIN sc THEN sc[run.w] ELSE Zero]
  /\ Unsaved /\ UNCHANGED <<uc, sc, wire, edb, made>>

ZeroSum(j) ==
  /\ job[j].at = "sc0"
  /\ sc' = Set(sc, run.w, Zero) /\ Goto(j, "setuc")
  /\ Unsaved /\ UNCHANGED <<uc, wire, edb, made>>

\* Mutation: the counter itself is stepped, as increase_update_time does.
SetCountAgain(j) ==
  /\ job[j].at = "setuc"
  /\ uc' = Set(uc, run.w, uc[run.w] + 1) /\ Goto(j, "setsc")
  /\ Unsaved /\ UNCHANGED <<sc, wire, edb, made>>

\* Mutation: the count is stored back as it was.
SetCountSame(j) ==
  /\ job[j].at = "setuc"
  /\ uc' = Set(uc, run.w, job[j].uc) /\ Goto(j, "setsc")
  /\ Unsaved /\ UNCHANGED <<sc, wire, edb, made>>

SetCount(j) ==
  /\ job[j].at = "setuc"
  /\ uc' = Set(uc, run.w, job[j].uc + 1) /\ Goto(j, "setsc")
  /\ Unsaved /\ UNCHANGED <<sc, wire, edb, made>>

\* The entry goes under the count that was read, plus one.  gen_update_token
\* masks it with H2 of the label, gen_update_request with the label itself.
Request(j, ind) == [label |-> <<run.w, job[j].uc + 1>>,
                    entry |-> [mask |-> IF run.do = "update" THEN "H2" ELSE "H1", ind |-> ind]]

\* Mutation: the checksum of before is stored back.
SetSumOld(j) ==
  LET ind == IF run.do = "update" THEN Short ELSE made + 1
  IN  /\ job[j].at = "setsc"
      /\ sc' = Set(sc, run.w, job[j].sc)
      /\ wire' = IF job[j].cut THEN wire ELSE [wire EXCEPT ![j] = Append(@, Request(j, ind))]
      /\ job' = [job EXCEPT ![j].left = @ - 1, ![j].at = IF job[j].left = 1 THEN "finish" ELSE "uc"]
      /\ made' = made + 1
      /\ Unsaved /\ UNCHANGED <<uc, edb>>

\* Mutation: one update more than asked for (i <= N_entries).
SetSumOneMore(j) ==
  LET ind == IF run.do = "update" THEN Short ELSE made + 1
  IN  /\ job[j].at = "setsc"
      /\ sc' = Set(sc, run.w, Xor(job[j].sc, ind))
      /\ wire' = IF job[j].cut THEN wire ELSE [wire EXCEPT ![j] = Append(@, Request(j, ind))]
      /\ job' = [job EXCEPT ![j].left = @ - 1, ![j].at = IF job[j].left = 0 THEN "finish" ELSE "uc"]
      /\ made' = made + 1
      /\ Unsaved /\ UNCHANGED <<uc, edb>>

\* set_search_time, and the write to the thread's own stream; once the stream is
\* broken Write returns false, which nobody looks at.
SetSum(j) ==
  LET ind == IF run.do = "update" THEN Short ELSE made + 1
  IN  /\ job[j].at = "setsc"
      /\ sc' = Set(sc, run.w, Xor(job[j].sc, ind))
      /\ wire' = IF job[j].cut THEN wire ELSE [wire EXCEPT ![j] = Append(@, Request(j, ind))]
      /\ job' = [job EXCEPT ![j].left = @ - 1, ![j].at = IF job[j].left = 1 THEN "finish" ELSE "uc"]
      /\ made' = made + 1
      /\ Unsaved /\ UNCHANGED <<uc, edb>>

\* The server stores an entry; Finish returns when it stored them all, or with an
\* error, once the stream is broken.
Store(m) == edb' = Set(edb, m.label, m.entry)

Deliver(j) ==
  /\ wire[j] # <<>>
  /\ Store(Head(wire[j])) /\ wire' = [wire EXCEPT ![j] = Tail(@)]
  /\ Unsaved /\ UNCHANGED <<uc, sc, job, made>>

Finish(j) ==
  /\ job[j].at = "finish" /\ wire[j] = <<>>
  /\ Goto(j, "done")
  /\ Unsaved /\ UNCHANGED <<uc, sc, wire, edb, made>>

\* The server or the connection fails under the call or stream of a thread.  What
\* was sent may still reach the server, what is written from here on is lost; the
\* status is not looked at.
Break(j) ==
  /\ job[j].at # "done" /\ run.do \in {"update", "batch"} /\ ~job[j].cut
  /\ faults < MaxFaults
  /\ job' = [job EXCEPT ![j].cut = TRUE]
  /\ late' = [late EXCEPT ![j] = @ \o wire[j]] /\ wire' = [wire EXCEPT ![j] = <<>>]
  /\ faults' = faults + 1 /\ failed' = TRUE
  /\ UNCHANGED <<threads, db, uc, sc, run, save, hole, edb, answer, made>>

\* The server's search unmasks with H2; a label that is missing is only logged.
Unmask(e) == IF e.mask = "H2" THEN [known |-> TRUE, ind |-> e.ind] ELSE [known |-> FALSE]

Search(j) ==
  /\ job[j].at = "sc" /\ run.do \in {"search", "verify"}
  /\ answer' = {Unmask(edb[l]) : l \in DOMAIN edb \cap ({run.w} \X (1..job[j].uc))}
  /\ Goto(j, IF run.do = "verify" THEN "verify" ELSE "done")
  /\ UNCHANGED <<threads, db, uc, sc, run, save, hole, wire, late, edb, made, faults, failed>>

\* verify reads the checksum, and compares it with nothing.
Verify(j) ==
  /\ job[j].at = "verify"
  /\ sc' = IF run.w \in DOMAIN sc THEN sc ELSE Set(sc, run.w, Zero)
  /\ Goto(j, "done")
  /\ Unsaved /\ UNCHANGED <<uc, wire, edb, made>>

-----------------------------------------------------------------------------
(* ~Client: the checksums first, each key deleted and put                  *)

Close ==
  /\ run # Off /\ run.do # "close" /\ \A j \in Thread : job[j].at = "done"
  /\ run' = [do |-> "close"]
  /\ save' = ({"sc"} \X DOMAIN sc) \cup ({"uc"} \X DOMAIN uc)
  /\ UNCHANGED <<threads, db, uc, sc, job, hole, wire, late, edb, answer, made, faults, failed>>

Delete ==
  /\ hole = NoHole
  /\ \E k \in save :
       /\ k[1] = "uc" => \A l \in save : l[1] = "uc"
       /\ db' = [db EXCEPT ![k[1]] = Without(@, k[2])]
       /\ hole' = k
  /\ UNCHANGED <<threads, uc, sc, run, job, save, wire, late, edb, answer, made, faults, failed>>

Put ==
  /\ hole # NoHole
  /\ db' = [db EXCEPT ![hole[1]] = Set(@, hole[2], IF hole[1] = "uc" THEN uc[hole[2]] ELSE sc[hole[2]])]
  /\ save' = save \ {hole} /\ hole' = NoHole
  /\ UNCHANGED <<threads, uc, sc, run, job, wire, late, edb, answer, made, faults, failed>>

Exit ==
  /\ run.do = "close" /\ save = {}
  /\ run' = Off /\ uc' = <<>> /\ sc' = <<>>
  /\ UNCHANGED <<threads, db, job, save, hole, wire, late, edb, answer, made, faults, failed>>

\* A killed client saves nothing more; the server has some of its streams still.
Kill ==
  /\ run # Off /\ faults < MaxFaults
  /\ run' = Off /\ uc' = <<>> /\ sc' = <<>>
  /\ job' = [j \in Thread |-> AtRest]
  /\ save' = {} /\ hole' = NoHole
  /\ late' = [j \in Thread |-> late[j] \o wire[j]]
  /\ wire' = [j \in Thread |-> <<>>]
  /\ faults' = faults + 1
  /\ UNCHANGED <<threads, db, edb, answer, made, failed>>

LateDeliver(j) ==
  /\ late[j] # <<>>
  /\ Store(Head(late[j])) /\ late' = [late EXCEPT ![j] = Tail(@)]
  /\ UNCHANGED <<threads, db, uc, sc, run, job, save, hole, wire, answer, made, faults, failed>>

LateDrop(j) ==
  /\ late[j] # <<>>
  /\ late' = [late EXCEPT ![j] = <<>>]
  /\ UNCHANGED <<threads, db, uc, sc, run, job, save, hole, wire, edb, answer, made, faults, failed>>

Step(j) == \/ ReadCount(j) \/ ZeroCount(j) \/ ReadSum(j) \/ ZeroSum(j)
           \/ SetCount(j) \/ SetSum(j) \/ Deliver(j) \/ Finish(j) \/ Search(j) \/ Verify(j)

Next ==
  \/ \E w \in Keyword : StartUpdate(w) \/ StartSearch(w) \/ StartBatch(w)
  \/ \E j \in Thread : Step(j) \/ Break(j) \/ LateDeliver(j) \/ LateDrop(j)
  \/ Close \/ Delete \/ Put \/ Exit \/ Kill

Spec == Init /\ [][Next]_vars
-----------------------------------------------------------------------------
Inds == 0..MaxMade
Counts(f) == DOMAIN f \subseteq Keyword /\ \A w \in DOMAIN f : f[w] \in 0..MaxMade
Sums(f) == DOMAIN f \subseteq Keyword /\ \A w \in DOMAIN f : f[w] = Broken \/ f[w] \subseteq Inds
Entry == [mask : {"H1", "H2"}, ind : Inds]
Messages == Seq([label : Keyword \X (1..MaxMade), entry : Entry])

\* The shape of every piece of state.
TypeOK ==
  /\ threads \in 1..MaxThreads
  /\ Counts(uc) /\ Counts(db.uc) /\ Sums(sc) /\ Sums(db.sc)
  /\ run \in {Off, [do |-> "close"]}
             \cup [do : {"update", "batch", "search", "verify"}, w : Keyword]
  /\ job \in [Thread -> [at : {"done", "uc", "uc0", "sc", "sc0", "setuc", "setsc", "finish", "verify"},
                         uc : 0..MaxMade, sc : (SUBSET Inds) \cup {Broken}, left : 0..MaxBatch,
                         cut : BOOLEAN]]
  /\ save \subseteq {"uc", "sc"} \X Keyword /\ hole \in save \cup {NoHole}
  /\ wire \in [Thread -> Messages] /\ late \in [Thread -> Messages]
  /\ DOMAIN edb \subseteq Keyword \X (1..MaxMade) /\ \A l \in DOMAIN edb : edb[l] \in Entry
  /\ answer \subseteq [known : {TRUE}, ind : Inds] \cup {[known |-> FALSE]}
  /\ made \in 0..MaxMade /\ faults \in 0..MaxFaults /\ failed \in BOOLEAN

\* Every label up to a stored count has an entry, whatever threads raced for the
\* counts and whichever process was killed when: the server's "We were supposed
\* to find something!" (server.h:431) shows only after a call or a stream of a
\* living client failed, which saves its count all the same.
NoGap == ~failed => \A w \in DOMAIN db.uc : \A c \in 1..db.uc[w] : <<w, c>> \in DOMAIN edb

\* With one thread, no kill and no failing call, every update there was has an
\* entry of its own.
NothingLost == threads = 1 /\ faults = 0 /\ run = Off => Cardinality(DOMAIN edb) = made

\* With one thread, no kill and no failing call, the stored checksum of a keyword
\* is the XOR of the identifiers stored for it (README.md:86-87).  Nothing is
\* claimed for a keyword that command 1 was used on: its checksum is the empty
\* string, since "ind" is too short for Xor, which only prints an error
\* (Util.cc:49-52).
ProofMatches ==
  threads = 1 /\ faults = 0 /\ run = Off =>
    \A w \in Keyword :
      LET inds == {edb[l].ind : l \in {m \in DOMAIN edb : m[1] = w}}
      IN  Short \notin inds /\ (w \in DOMAIN db.sc \/ inds # {}) => db.sc[w] = inds

\* Unless a client was killed or a call failed, an entry that a stored count covers
\* never changes again, not even with several threads.
SavedIsFinal ==
  [][faults = 0 => \A w \in DOMAIN db.uc : \A c \in 1..db.uc[w] :
                    <<w, c>> \in DOMAIN edb => edb'[<<w, c>>] = edb[<<w, c>>]]_vars
=============================================================================
