-------------------------- MODULE FVSEExactProofs --------------------------
(***************************************************************************)
(* Proof, for any number of updates, that one thread, no kill and no       *)
(* failing call lose nothing in FVSE: every update has an entry of its     *)
(* own, and the stored checksum of a keyword that command 1 was never used *)
(* on is that of exactly the entries stored for it.                        *)
(***************************************************************************)
EXTENDS FVSEProofs, FiniteSetTheorems

Lone == threads = 1 /\ faults = 0

\* How many entries of a keyword were made.  The count is one ahead between the
\* step that sets it and the step that sends the entry.
Of(f, w) == IF w \in DOMAIN f THEN f[w] ELSE 0
Made(w) == IF run = Off THEN Of(db.uc, w)
           ELSE IF job[1].at = "setsc" /\ w = run.w THEN job[1].uc ELSE Of(uc, w)

\* The entries stored and on their way have labels of their own, below the counts;
\* together they are the updates made, and an identifier is no later than those.
Labels == DOMAIN edb \cup {wire[1][n].label : n \in 1..Len(wire[1])}
Apart ==
  /\ Labels \subseteq Keyword \X Nat
  /\ \A w, c : <<w, c>> \in Labels => c \in 1..Made(w)
  /\ \A l \in DOMAIN edb : edb[l].ind \in 0..made
  /\ \A n \in 1..Len(wire[1]) :
       /\ wire[1][n].entry.ind \in 0..made
       /\ wire[1][n].label \notin DOMAIN edb
       /\ \A m \in 1..Len(wire[1]) : m # n => wire[1][m].label # wire[1][n].label
Number == /\ IsFiniteSet(DOMAIN edb)
          /\ Cardinality(DOMAIN edb) + Len(wire[1]) = made

\* What the thread has read is what the counters hold.
Reading ==
  /\ job[1].at = "uc0" => run.w \notin DOMAIN uc /\ job[1].uc = 0
  /\ job[1].at \in {"sc", "sc0", "setuc"} => run.w \in DOMAIN uc /\ uc[run.w] = job[1].uc
  /\ job[1].at = "setsc" => run.w \in DOMAIN uc /\ uc[run.w] = job[1].uc + 1
  /\ job[1].at = "sc0" => run.w \notin DOMAIN sc /\ job[1].sc = Zero
  /\ job[1].at \in {"setuc", "setsc"} => run.w \in DOMAIN sc /\ sc[run.w] = job[1].sc

\* The identifiers stored for a keyword or on their way, and its checksum.
There(w) == {edb[l].ind : l \in {m \in DOMAIN edb : m[1] = w}}
            \cup {wire[1][n].entry.ind : n \in {m \in 1..Len(wire[1]) : wire[1][m].label[1] = w}}
Matches(s, w) == w \in DOMAIN s \/ There(w) # {} =>
                   w \in DOMAIN s /\ s[w] = IF Short \in There(w) THEN Broken ELSE There(w)
Summed == \A w \in Keyword : Matches(IF run = Off THEN db.sc ELSE sc, w)

\* ~Client stores all that was loaded and all that was changed.
Loaded == run # Off => DOMAIN db.uc \subseteq DOMAIN uc /\ DOMAIN db.sc \subseteq DOMAIN sc
Saved(m, f, d) == \A w \in DOMAIN f : <<m, w>> \in save \/ (w \in DOMAIN d /\ d[w] = f[w])
Storing == run.do = "close" => Saved("uc", uc, db.uc) /\ Saved("sc", sc, db.sc)

\* A failing call or stream is counted as a fault.
Faulty == faults \in Nat /\ (failed => faults # 0)

Exact == /\ faults \in Nat
         /\ Lone => late[1] = <<>> /\ Apart /\ Number /\ Reading /\ Summed /\ Loaded /\ Storing

USE DEF Thread, Asking, Counted

LEMMA ExactInit == Init => Exact
<1> SUFFICES ASSUME Init PROVE Exact
  OBVIOUS
<1> USE DEF Init
<1>a. threads \in Nat \ {0} /\ 1 \in Thread
  BY BoundsAssumption
<1>1. run = Off /\ job[1].at = "done" /\ wire[1] = <<>> /\ late[1] = <<>>
  BY <1>a DEF AtRest
<1>2. Apart /\ Number
  BY <1>1, FS_EmptySet DEF Apart, Labels, Number
<1>3. Reading /\ Loaded /\ Storing
  BY <1>1 DEF Reading, Loaded, Storing, Off
<1>4. Summed
  BY <1>1 DEF Summed, Matches, There
<1> QED
  BY <1>1, <1>2, <1>3, <1>4 DEF Exact

\* What the lemmas on the steps of the one thread begin with.
LEMMA One ==
  ASSUME IInv, Exact, Lone
  PROVE  /\ 1 \in Thread /\ Thread = {1} /\ faults = 0 /\ threads = 1
         /\ late[1] = <<>> /\ Apart /\ Number /\ Reading /\ Summed /\ Loaded /\ Storing
         /\ job[1].at # "done" => run # Off /\ run.do # "close" /\ run.w \in Keyword
         /\ job \in [Thread -> Jobs] /\ job[1] \in Jobs /\ Count(uc) /\ Sum(sc)
         /\ Count(db.uc) /\ Sum(db.sc)
<1>1. 1 \in Thread /\ Thread = {1}
  BY DEF Lone
<1>2. job[1].at # "done" => run # Off /\ run.do # "close" /\ run.w \in Keyword
  BY <1>1, BusyRun DEF Off
<1>3. job \in [Thread -> Jobs] /\ job[1] \in Jobs
  BY <1>1 DEF IInv, Types
<1> QED
  BY <1>1, <1>2, <1>3 DEF Lone, Exact, IInv, Types

LEMMA SameThere ==
  ASSUME edb' = edb, wire' = wire
  PROVE  \A w : There(w)' = There(w)
BY DEF There

\* A step that neither makes an entry nor stores one.
LEMMA Quiet ==
  ASSUME IInv, Exact, Lone, threads' = threads, faults' = faults, late' = late,
         edb' = edb, wire' = wire, made' = made,
         \A w \in Keyword : Made(w)' = Made(w), Reading', Summed', Loaded', Storing'
  PROVE  Exact'
<1>1. Apart /\ Number
  BY One
<1>2. Labels' = Labels
  BY DEF Labels
<1>3. Apart'
  BY <1>1, <1>2 DEF Apart
<1> QED
  BY <1>1, <1>3, One DEF Exact, Number

\* Such a step of the thread, which stores nothing either.
LEMMA QuietThread ==
  ASSUME IInv, Exact, Lone, job[1].at # "done", run' = run, db' = db, save' = save,
         threads' = threads, faults' = faults, late' = late,
         edb' = edb, wire' = wire, made' = made,
         \A w \in Keyword : Made(w)' = Made(w), Reading', Loaded',
         \A w \in Keyword : Matches(sc, w) => Matches(sc, w)'
  PROVE  Exact'
<1>1. run # Off /\ run'.do # "close" /\ Summed
  BY One
<1>2. Summed'
  BY <1>1 DEF Summed, Matches
<1>3. Storing'
  BY <1>1 DEF Storing
<1> QED
  BY <1>2, <1>3, Quiet

LEMMA ExactReadCount ==
  ASSUME IInv, Exact, Lone, ReadCount(1)
  PROVE  Exact'
<1>1. /\ job[1].at = "uc"
      /\ job' = [job EXCEPT ![1].at = IF run.w \in DOMAIN uc THEN "sc" ELSE "uc0",
                            ![1].uc = IF run.w \in DOMAIN uc THEN uc[run.w] ELSE 0]
      /\ threads' = threads /\ db' = db /\ run' = run /\ save' = save /\ faults' = faults
      /\ late' = late /\ uc' = uc /\ sc' = sc /\ wire' = wire /\ edb' = edb /\ made' = made
  BY DEF ReadCount, Unsaved
<1>2. /\ job'[1].at = IF run.w \in DOMAIN uc THEN "sc" ELSE "uc0"
      /\ job'[1].uc = IF run.w \in DOMAIN uc THEN uc[run.w] ELSE 0
  BY <1>1, One DEF Jobs
<1>3. \A w \in Keyword : Made(w)' = Made(w)
  BY <1>1, <1>2 DEF Made
<1>4. Reading'
  BY <1>1, <1>2 DEF Reading
<1>5. Loaded'
  BY <1>1, One DEF Loaded
<1>6. \A w \in Keyword : Matches(sc, w) => Matches(sc, w)'
  BY <1>1, SameThere DEF Matches
<1> QED
  BY <1>1, <1>3, <1>4, <1>5, <1>6, QuietThread

\* Goto of the one thread.
LEMMA OneGoto ==
  ASSUME IInv, Exact, Lone, NEW p, Goto(1, p)
  PROVE  job'[1].at = p /\ job'[1].uc = job[1].uc /\ job'[1].sc = job[1].sc
BY One DEF Goto, Jobs

LEMMA ExactZeroCount ==
  ASSUME IInv, Exact, Lone, ZeroCount(1)
  PROVE  Exact'
<1>1. /\ job[1].at = "uc0" /\ uc' = Set(uc, run.w, 0) /\ Goto(1, "sc")
      /\ threads' = threads /\ db' = db /\ run' = run /\ save' = save /\ faults' = faults
      /\ late' = late /\ sc' = sc /\ wire' = wire /\ edb' = edb /\ made' = made
  BY DEF ZeroCount, Unsaved
<1>2. job'[1].at = "sc" /\ job'[1].uc = job[1].uc /\ job'[1].sc = job[1].sc
  BY <1>1, OneGoto
<1>3. run.w \notin DOMAIN uc /\ job[1].uc = 0
  BY <1>1, One DEF Reading
<1>c. /\ DOMAIN uc' = DOMAIN uc \cup {run.w}
      /\ \A w \in DOMAIN uc' : uc'[w] = IF w = run.w THEN 0 ELSE uc[w]
  BY <1>1 DEF Set
<1>4. \A w \in Keyword : Made(w)' = Made(w)
  BY <1>1, <1>2, <1>3, <1>c DEF Made, Of
<1>5. Reading'
  BY <1>1, <1>2, <1>3, <1>c DEF Reading
<1>6. Loaded'
  BY <1>1, <1>c, One DEF Loaded
<1>7. \A w \in Keyword : Matches(sc, w) => Matches(sc, w)'
  BY <1>1, SameThere DEF Matches
<1> QED
  BY <1>1, <1>4, <1>5, <1>6, <1>7, QuietThread

LEMMA ExactReadSum ==
  ASSUME IInv, Exact, Lone, ReadSum(1)
  PROVE  Exact'
<1>1. /\ job[1].at = "sc"
      /\ job' = [job EXCEPT ![1].at = IF run.w \in DOMAIN sc THEN "setuc" ELSE "sc0",
                            ![1].sc = IF run.w \in DOMAIN sc THEN sc[run.w] ELSE Zero]
      /\ threads' = threads /\ db' = db /\ run' = run /\ save' = save /\ faults' = faults
      /\ late' = late /\ uc' = uc /\ sc' = sc /\ wire' = wire /\ edb' = edb /\ made' = made
  BY DEF ReadSum, Unsaved
<1>2. /\ job'[1].at = IF run.w \in DOMAIN sc THEN "setuc" ELSE "sc0"
      /\ job'[1].sc = IF run.w \in DOMAIN sc THEN sc[run.w] ELSE Zero
      /\ job'[1].uc = job[1].uc
  BY <1>1, One DEF Jobs
<1>3. \A w \in Keyword : Made(w)' = Made(w)
  BY <1>1, <1>2 DEF Made
<1>4. Reading'
  BY <1>1, <1>2, One DEF Reading
<1>5. Loaded'
  BY <1>1, One DEF Loaded
<1>6. \A w \in Keyword : Matches(sc, w) => Matches(sc, w)'
  BY <1>1, SameThere DEF Matches
<1> QED
  BY <1>1, <1>3, <1>4, <1>5, <1>6, QuietThread

\* A keyword without a checksum has no entry: zero is right for it.
LEMMA ZeroMatches ==
  ASSUME NEW v, v \notin DOMAIN sc, sc' = Set(sc, v, Zero), edb' = edb, wire' = wire
  PROVE  \A w \in Keyword : Matches(sc, w) => Matches(sc, w)'
<1> SUFFICES ASSUME NEW w \in Keyword, Matches(sc, w) PROVE Matches(sc, w)'
  OBVIOUS
<1>1. There(w)' = There(w)
  BY SameThere
<1>2. /\ DOMAIN sc' = DOMAIN sc \cup {v}
      /\ \A x \in DOMAIN sc' : sc'[x] = IF x = v THEN Zero ELSE sc[x]
  BY DEF Set
<1>3. CASE w = v
  <2>1. There(w) = {} /\ Short \notin There(w)
    BY <1>3 DEF Matches
  <2> QED
    BY <1>1, <1>2, <1>3, <2>1 DEF Matches, Zero
<1>4. CASE w # v
  BY <1>1, <1>2, <1>4 DEF Matches
<1> QED
  BY <1>3, <1>4

LEMMA ExactZeroSum ==
  ASSUME IInv, Exact, Lone, ZeroSum(1)
  PROVE  Exact'
<1>1. /\ job[1].at = "sc0" /\ sc' = Set(sc, run.w, Zero) /\ Goto(1, "setuc")
      /\ threads' = threads /\ db' = db /\ run' = run /\ save' = save /\ faults' = faults
      /\ late' = late /\ uc' = uc /\ wire' = wire /\ edb' = edb /\ made' = made
  BY DEF ZeroSum, Unsaved
<1>2. job'[1].at = "setuc" /\ job'[1].uc = job[1].uc /\ job'[1].sc = job[1].sc
  BY <1>1, OneGoto
<1>3. /\ run.w \notin DOMAIN sc /\ job[1].sc = Zero
      /\ run.w \in DOMAIN uc /\ uc[run.w] = job[1].uc
  BY <1>1, One DEF Reading
<1>c. /\ DOMAIN sc' = DOMAIN sc \cup {run.w} /\ sc'[run.w] = Zero
  BY <1>1 DEF Set
<1>4. \A w \in Keyword : Made(w)' = Made(w)
  BY <1>1, <1>2 DEF Made
<1>5. Reading'
  BY <1>1, <1>2, <1>3, <1>c DEF Reading
<1>6. Loaded'
  BY <1>1, <1>c, One DEF Loaded
<1>7. \A w \in Keyword : Matches(sc, w) => Matches(sc, w)'
  BY <1>1, <1>3, ZeroMatches
<1> QED
  BY <1>1, <1>4, <1>5, <1>6, <1>7, QuietThread

\* The count goes one ahead of what is made.
LEMMA ExactSetCount ==
  ASSUME IInv, Exact, Lone, SetCount(1)
  PROVE  Exact'
<1>1. /\ job[1].at = "setuc" /\ uc' = Set(uc, run.w, job[1].uc + 1) /\ Goto(1, "setsc")
      /\ threads' = threads /\ db' = db /\ run' = run /\ save' = save /\ faults' = faults
      /\ late' = late /\ sc' = sc /\ wire' = wire /\ edb' = edb /\ made' = made
  BY DEF SetCount, Unsaved
<1>2. job'[1].at = "setsc" /\ job'[1].uc = job[1].uc /\ job'[1].sc = job[1].sc
  BY <1>1, OneGoto
<1>3. /\ run.w \in DOMAIN sc /\ sc[run.w] = job[1].sc
      /\ run.w \in DOMAIN uc /\ uc[run.w] = job[1].uc
  BY <1>1, One DEF Reading
<1>c. /\ DOMAIN uc' = DOMAIN uc \cup {run.w}
      /\ \A w \in DOMAIN uc' : uc'[w] = IF w = run.w THEN job[1].uc + 1 ELSE uc[w]
  BY <1>1 DEF Set
<1>a. run # Off
  BY <1>1, One
<1>4. \A w \in Keyword : Made(w)' = Made(w)
  BY <1>1, <1>2, <1>3, <1>a, <1>c DEF Made, Of
<1>5. Reading'
  BY <1>1, <1>2, <1>3, <1>c DEF Reading
<1>6. Loaded'
  BY <1>1, <1>c, One DEF Loaded
<1>7. \A w \in Keyword : Matches(sc, w) => Matches(sc, w)'
  BY <1>1, SameThere DEF Matches
<1> QED
  BY <1>1, <1>4, <1>5, <1>6, <1>7, QuietThread

\* The steps at the end of a command.
LEMMA ExactFinish ==
  ASSUME IInv, Exact, Lone, Finish(1)
  PROVE  Exact'
<1>1. /\ job[1].at = "finish" /\ Goto(1, "done")
      /\ threads' = threads /\ db' = db /\ run' = run /\ save' = save /\ faults' = faults
      /\ late' = late /\ uc' = uc /\ sc' = sc /\ wire' = wire /\ edb' = edb /\ made' = made
  BY DEF Finish, Unsaved
<1>2. job'[1].at = "done"
  BY <1>1, OneGoto
<1>3. (\A w \in Keyword : Made(w)' = Made(w)) /\ Reading'
  BY <1>1, <1>2 DEF Made, Reading
<1>4. Loaded' /\ \A w \in Keyword : Matches(sc, w) => Matches(sc, w)'
  BY <1>1, One, SameThere DEF Loaded, Matches
<1> QED
  BY <1>1, <1>3, <1>4, QuietThread

LEMMA ExactSearch ==
  ASSUME IInv, Exact, Lone, Search(1)
  PROVE  Exact'
<1> DEFINE p == IF run.do = "verify" THEN "verify" ELSE "done"
<1>1. /\ job[1].at = "sc" /\ Goto(1, p)
      /\ threads' = threads /\ db' = db /\ run' = run /\ save' = save /\ faults' = faults
      /\ late' = late /\ uc' = uc /\ sc' = sc /\ wire' = wire /\ edb' = edb /\ made' = made
  BY DEF Search
<1>2. job'[1].at = p
  BY <1>1, OneGoto
<1>3. (\A w \in Keyword : Made(w)' = Made(w)) /\ Reading'
  BY <1>1, <1>2 DEF Made, Reading
<1>4. Loaded' /\ \A w \in Keyword : Matches(sc, w) => Matches(sc, w)'
  BY <1>1, One, SameThere DEF Loaded, Matches
<1> QED
  BY <1>1, <1>3, <1>4, QuietThread

LEMMA ExactVerify ==
  ASSUME IInv, Exact, Lone, Verify(1)
  PROVE  Exact'
<1>1. /\ job[1].at = "verify" /\ Goto(1, "done")
      /\ sc' = IF run.w \in DOMAIN sc THEN sc ELSE Set(sc, run.w, Zero)
      /\ threads' = threads /\ db' = db /\ run' = run /\ save' = save /\ faults' = faults
      /\ late' = late /\ uc' = uc /\ wire' = wire /\ edb' = edb /\ made' = made
  BY DEF Verify, Unsaved
<1>2. job'[1].at = "done"
  BY <1>1, OneGoto
<1>3. (\A w \in Keyword : Made(w)' = Made(w)) /\ Reading'
  BY <1>1, <1>2 DEF Made, Reading
<1>4. DOMAIN sc \subseteq DOMAIN sc'
  BY <1>1 DEF Set
<1>5. Loaded'
  BY <1>1, <1>4, One DEF Loaded
<1>6. \A w \in Keyword : Matches(sc, w) => Matches(sc, w)'
  <2>1. CASE run.w \in DOMAIN sc
    BY <1>1, <2>1, SameThere DEF Matches
  <2>2. CASE run.w \notin DOMAIN sc
    BY <1>1, <2>2, ZeroMatches
  <2> QED
    BY <2>1, <2>2
<1> QED
  BY <1>1, <1>3, <1>5, <1>6, QuietThread

\* An entry is made: its label is the next one of its keyword, its identifier is
\* none of those before it, or the short one.
LEMMA ExactSetSum ==
  ASSUME IInv, Exact, Lone, ~job[1].cut, SetSum(1)
  PROVE  Exact'
<1> DEFINE ind == IF run.do = "update" THEN Short ELSE made + 1
           q == Request(1, ind)
           p == IF job[1].left = 1 THEN "finish" ELSE "uc"
           c == job[1].uc
           n == Len(wire[1])
<1>1. /\ job[1].at = "setsc" /\ sc' = Set(sc, run.w, Xor(job[1].sc, ind))
      /\ wire' = [wire EXCEPT ![1] = Append(@, q)]
      /\ job' = [job EXCEPT ![1].left = @ - 1, ![1].at = p]
      /\ threads' = threads /\ db' = db /\ run' = run /\ save' = save /\ faults' = faults
      /\ late' = late /\ uc' = uc /\ edb' = edb /\ made' = made + 1
  BY DEF SetSum, Unsaved
<1>2. /\ q.label = <<run.w, c + 1>> /\ q.entry.ind = ind /\ p \in {"finish", "uc"}
      /\ made \in Nat /\ wire \in [Thread -> Seq(Message)]
      /\ ind = Short \/ ind = made + 1
  BY DEF Request, IInv, Types
<1> HIDE DEF ind, q, p
<1>3. /\ job'[1].at = p /\ run # Off /\ run.do # "close" /\ run.w \in Keyword /\ c \in Nat
      /\ run.w \in DOMAIN uc /\ uc[run.w] = c + 1
      /\ run.w \in DOMAIN sc /\ sc[run.w] = job[1].sc
  BY <1>1, One DEF Jobs, Reading
<1>4. ind \in 0..made'
  BY <1>1, <1>2 DEF Short
<1>5. wire'[1] = Append(wire[1], q) /\ wire[1] \in Seq(Message)
  BY <1>1, <1>2, One
<1>6. /\ n \in Nat /\ Len(wire'[1]) = n + 1 /\ wire'[1][n + 1] = q
      /\ \A i \in 1..n : wire'[1][i] = wire[1][i]
  BY <1>5
<1> HIDE DEF n
<1>7. \A w \in Keyword : IF w = run.w THEN Made(w) = c /\ Made(w)' = c + 1
                         ELSE Made(w)' = Made(w)
  BY <1>1, <1>2, <1>3 DEF Made, Of
<1>8. Labels' = Labels \cup {q.label} /\ q.label \notin Labels
  <2>1. Labels' = Labels \cup {q.label}
    BY <1>1, <1>6 DEF Labels, n
  <2>2. \A a, b : <<a, b>> \in Labels => b \in 1..Made(a)
    BY One DEF Apart
  <2>3. <<run.w, c + 1>> \notin Labels
    BY <1>3, <1>7, <2>2
  <2> QED
    BY <1>2, <2>1, <2>3
<1>9. Labels' \subseteq Keyword \X Nat /\ \A w, b : <<w, b>> \in Labels' => b \in 1..Made(w)'
  <2>1. Apart
    BY One
  <2>2. Labels' \subseteq Keyword \X Nat
    BY <1>2, <1>3, <1>8, <2>1 DEF Apart
  <2>3. ASSUME NEW w, NEW b, <<w, b>> \in Labels' PROVE b \in 1..Made(w)'
    <3>1. w \in Keyword
      BY <2>2, <2>3
    <3>2. CASE <<w, b>> = q.label
      BY <1>2, <1>3, <1>7, <3>2
    <3>3. CASE <<w, b>> \in Labels
      <4>1. b \in 1..Made(w)
        BY <2>1, <3>3 DEF Apart
      <4>2. Made(w)' = Made(w) \/ (Made(w) = c /\ Made(w)' = c + 1)
        BY <1>7, <3>1
      <4> QED
        BY <1>3, <4>1, <4>2
    <3> QED
      BY <1>8, <2>3, <3>2, <3>3
  <2> QED
    BY <2>2, <2>3
<1>10. Apart'
  <2>1. \A l \in DOMAIN edb' : edb'[l].ind \in 0..made'
    <3>1. \A l \in DOMAIN edb : edb[l].ind \in 0..made
      BY One DEF Apart
    <3> QED
      BY <1>1, <1>2, <3>1
  <2>2. ASSUME NEW i \in 1..Len(wire'[1])
        PROVE  /\ wire'[1][i].entry.ind \in 0..made'
               /\ wire'[1][i].label \notin DOMAIN edb
               /\ \A m \in 1..Len(wire'[1]) : m # i => wire'[1][m].label # wire'[1][i].label
    <3>1. \A m \in 1..n : /\ wire[1][m].entry.ind \in 0..made /\ wire[1][m].label \notin DOMAIN edb
                          /\ wire[1][m].label \in Labels /\ wire'[1][m] = wire[1][m]
                          /\ \A k \in 1..n : k # m => wire[1][k].label # wire[1][m].label
      BY <1>6, One DEF Apart, Labels, n
    <3>2. q.label \notin DOMAIN edb /\ \A m \in 1..n : wire[1][m].label # q.label
      BY <1>8, <3>1 DEF Labels
    <3>3. \A m \in 1..Len(wire'[1]) : m \in 1..n \/ (m = n + 1 /\ wire'[1][m] = q)
      BY <1>6
    <3>4. 0..made \subseteq 0..made'
      BY <1>1, <1>2
    <3>5. CASE i \in 1..n
      BY <3>1, <3>2, <3>3, <3>4, <3>5
    <3>6. CASE i = n + 1 /\ wire'[1][i] = q
      BY <1>2, <1>4, <3>1, <3>2, <3>3, <3>6
    <3> QED
      BY <3>3, <3>5, <3>6
  <2> QED
    BY <1>1, <1>9, <2>1, <2>2 DEF Apart
<1>11. Number'
  <2>1. Cardinality(DOMAIN edb) + n = made /\ IsFiniteSet(DOMAIN edb)
    BY One DEF Number, n
  <2>2. Cardinality(DOMAIN edb) \in Nat
    BY <2>1, FS_CardinalityType
  <2>3. Cardinality(DOMAIN edb) + (n + 1) = made + 1
    BY <1>2, <1>6, <2>1, <2>2
  <2> QED
    BY <1>1, <1>6, <2>1, <2>3 DEF Number
<1>12. Reading' /\ Storing'
  BY <1>1, <1>2, <1>3 DEF Reading, Storing
<1>13. DOMAIN sc' = DOMAIN sc \cup {run.w}
       /\ \A w \in DOMAIN sc' : sc'[w] = IF w = run.w THEN Xor(sc[run.w], ind) ELSE sc[w]
  BY <1>1, <1>3 DEF Set
<1>14. Loaded'
  BY <1>1, <1>13, One DEF Loaded
<1>15. ASSUME NEW w
       PROVE  There(w)' = There(w) \cup (IF w = run.w THEN {ind} ELSE {})
  <2>1. \A i \in 1..Len(wire'[1]) : i \in 1..n \/ i = n + 1
    BY <1>6
  <2>2. n = Len(wire[1])
    BY DEF n
  <2> DEFINE old == {m \in 1..n : wire[1][m].label[1] = w}
             new == {m \in 1..Len(wire'[1]) : wire'[1][m].label[1] = w}
             more == IF w = run.w THEN {n + 1} ELSE {}
  <2>3. new = old \cup more
    BY <1>2, <1>6, <2>1
  <2>4. \A m \in old : wire'[1][m] = wire[1][m]
    BY <1>6
  <2>5. \A m \in more : wire'[1][m].entry.ind = ind
    BY <1>2, <1>6
  <2> HIDE DEF old, new, more
  <2>6. {wire'[1][m].entry.ind : m \in new}
        = {wire[1][m].entry.ind : m \in old} \cup {wire'[1][m].entry.ind : m \in more}
    BY <2>3, <2>4
  <2>7. {wire'[1][m].entry.ind : m \in more} = IF w = run.w THEN {ind} ELSE {}
    BY <2>5 DEF more
  <2>8. There(w)' = {edb[l].ind : l \in {m \in DOMAIN edb : m[1] = w}}
                    \cup {wire'[1][m].entry.ind : m \in new}
    BY <1>1 DEF There, new
  <2>9. There(w) = {edb[l].ind : l \in {m \in DOMAIN edb : m[1] = w}}
                    \cup {wire[1][m].entry.ind : m \in old}
    BY <2>2 DEF There, old
  <2> QED
    BY <2>6, <2>7, <2>8, <2>9
<1>16. Summed'
  <2> SUFFICES ASSUME NEW w \in Keyword PROVE Matches(sc, w)'
    BY <1>1, <1>3 DEF Summed, Matches
  <2>1. Matches(sc, w)
    BY <1>3, One DEF Summed
  <2>2. CASE w # run.w
    BY <1>13, <1>15, <2>1, <2>2 DEF Matches
  <2>3. CASE w = run.w
    <3>1. \A x \in There(w) : x \in 0..made
      BY One DEF Apart, There
    <3>2. sc[w] = IF Short \in There(w) THEN Broken ELSE There(w)
      BY <1>3, <2>1, <2>3 DEF Matches
    <3>a. -1 \notin There(w) /\ made + 1 \notin There(w)
      BY <1>2, <3>1
    <3>3. There(w) # Broken /\ made + 1 \notin There(w) /\ made + 1 # Short
      BY <1>2, <3>a DEF Broken, Short
    <3>4. Xor(sc[w], ind) = IF Short \in There(w)' THEN Broken ELSE There(w)'
      <4>1. There(w)' = There(w) \cup {ind}
        BY <1>15, <2>3
      <4>2. CASE Short \in There(w)
        BY <3>2, <4>1, <4>2 DEF Xor
      <4>3. CASE Short \notin There(w) /\ ind = Short
        BY <4>1, <4>3 DEF Xor
      <4>4. CASE Short \notin There(w) /\ ind = made + 1
        BY <3>2, <3>3, <4>1, <4>4 DEF Xor
      <4> QED
        BY <1>2, <4>2, <4>3, <4>4
    <3>5. w \in DOMAIN sc' /\ sc'[w] = Xor(sc[w], ind)
      BY <1>13, <2>3
    <3> QED
      BY <3>4, <3>5 DEF Matches
  <2> QED
    BY <2>2, <2>3
<1> QED
  BY <1>1, <1>10, <1>11, <1>12, <1>14, <1>16, One DEF Exact

\* The server stores the entry at the head of the stream: there was none under its
\* label, so that one more is stored and one less is on its way.
LEMMA ExactDeliver ==
  ASSUME IInv, Exact, Lone, Deliver(1)
  PROVE  Exact'
<1> DEFINE q == Head(wire[1])
           n == Len(wire[1])
<1>1. /\ wire[1] # <<>> /\ edb' = Set(edb, q.label, q.entry)
      /\ wire' = [wire EXCEPT ![1] = Tail(@)]
      /\ threads' = threads /\ db' = db /\ run' = run /\ save' = save /\ faults' = faults
      /\ late' = late /\ uc' = uc /\ sc' = sc /\ job' = job /\ made' = made
  BY DEF Deliver, Unsaved, Store
<1>2. wire[1] \in Seq(Message) /\ wire'[1] = Tail(wire[1]) /\ made \in Nat
  BY <1>1, One DEF IInv, Types
<1>3. /\ n \in Nat \ {0} /\ q = wire[1][1] /\ Len(wire'[1]) = n - 1
      /\ \A m \in 1..Len(wire'[1]) : wire'[1][m] = wire[1][m + 1]
  <2>1. n \in Nat \ {0} /\ q = wire[1][1]
    BY <1>1, <1>2, EmptySeq
  <2>2. wire[1] # <<>>
    BY <1>1
  <2>3. /\ Len(wire'[1]) = n - 1
        /\ \A m \in 1..Len(wire'[1]) : wire'[1][m] = wire[1][m + 1]
    BY <1>2, <2>2, HeadTailProperties
  <2> QED
    BY <2>1, <2>3
<1>4. /\ DOMAIN edb' = DOMAIN edb \cup {q.label} /\ edb'[q.label] = q.entry
      /\ \A l \in DOMAIN edb \ {q.label} : edb'[l] = edb[l]
  BY <1>1 DEF Set
<1> HIDE DEF q, n
<1>5. /\ Labels \subseteq Keyword \X Nat
      /\ \A w, c : <<w, c>> \in Labels => c \in 1..Made(w)
      /\ \A l \in DOMAIN edb : edb[l].ind \in 0..made
      /\ \A m \in 1..n :
           /\ wire[1][m].entry.ind \in 0..made /\ wire[1][m].label \notin DOMAIN edb
           /\ \A k \in 1..n : k # m => wire[1][k].label # wire[1][m].label
  BY One DEF Apart, n
<1>6. /\ \A m \in 1..Len(wire'[1]) : m + 1 \in 1..n /\ m + 1 # 1
      /\ \A m \in 1..n : m = 1 \/ (m - 1 \in 1..Len(wire'[1]) /\ (m - 1) + 1 = m)
  BY <1>3
<1>7. Labels' = Labels
  <2>1. Labels' = DOMAIN edb \cup {q.label} \cup {wire'[1][m].label : m \in 1..Len(wire'[1])}
    BY <1>4 DEF Labels
  <2>2. Labels = DOMAIN edb \cup {wire[1][m].label : m \in 1..n}
    BY DEF Labels, n
  <2>3. {wire[1][m].label : m \in 1..n}
        = {q.label} \cup {wire'[1][m].label : m \in 1..Len(wire'[1])}
    <3>1. 1 \in 1..n /\ wire[1][1].label = q.label
      BY <1>3
    <3>2. \A m \in 1..Len(wire'[1]) : m + 1 \in 1..n /\ wire'[1][m].label = wire[1][m + 1].label
      BY <1>3, <1>6
    <3>3. \A m \in 1..n : \/ m = 1
                          \/ /\ m - 1 \in 1..Len(wire'[1])
                             /\ wire'[1][m - 1].label = wire[1][m].label
      BY <1>3, <1>6
    <3> DEFINE Rest == {wire'[1][m].label : m \in 1..Len(wire'[1])}
               All == {wire[1][m].label : m \in 1..n}
    <3>4. All \subseteq {q.label} \cup Rest
      <4> SUFFICES ASSUME NEW m \in 1..n PROVE wire[1][m].label \in {q.label} \cup Rest
        OBVIOUS
      <4>1. CASE m = 1
        BY <3>1, <4>1
      <4>2. CASE m - 1 \in 1..Len(wire'[1]) /\ wire'[1][m - 1].label = wire[1][m].label
        <5>1. wire'[1][m - 1].label \in Rest
          BY <4>2
        <5> QED  BY <4>2, <5>1
      <4> QED  BY <3>3, <4>1, <4>2
    <3>5. q.label \in All
      BY <3>1
    <3>6. Rest \subseteq All
      BY <3>2
    <3> QED
      BY <3>4, <3>5, <3>6
  <2> QED
    BY <2>1, <2>2, <2>3
<1>8. \A w : Made(w)' = Made(w)
  BY <1>1 DEF Made
<1>9. q.label \notin DOMAIN edb /\ q.entry.ind \in 0..made
  BY <1>3, <1>5
<1>10. Apart'
  <2>1. \A l \in DOMAIN edb' : edb'[l].ind \in 0..made'
    BY <1>1, <1>4, <1>5, <1>9
  <2>2. ASSUME NEW m \in 1..Len(wire'[1])
        PROVE  /\ wire'[1][m].entry.ind \in 0..made' /\ wire'[1][m].label \notin DOMAIN edb'
               /\ \A k \in 1..Len(wire'[1]) : k # m => wire'[1][k].label # wire'[1][m].label
    <3>1. /\ m + 1 \in 1..n /\ m + 1 # 1 /\ wire'[1][m] = wire[1][m + 1] /\ 1 \in 1..n
      BY <1>3, <1>6
    <3>2. wire[1][m + 1].label \notin DOMAIN edb /\ wire[1][m + 1].label # q.label
      BY <1>3, <1>5, <3>1
    <3>3. ASSUME NEW k \in 1..Len(wire'[1]), k # m
          PROVE  wire'[1][k].label # wire'[1][m].label
      <4>1. k + 1 \in 1..n /\ k + 1 # m + 1 /\ wire'[1][k] = wire[1][k + 1]
        BY <1>3, <1>6, <3>3
      <4> QED
        BY <1>5, <3>1, <4>1
    <3> QED
      BY <1>1, <1>4, <1>5, <3>1, <3>2, <3>3
  <2> QED
    BY <1>5, <1>7, <1>8, <2>1, <2>2 DEF Apart
<1>11. Number'
  <2>1. Cardinality(DOMAIN edb) + n = made /\ IsFiniteSet(DOMAIN edb)
    BY One DEF Number, n
  <2>2. Cardinality(DOMAIN edb) \in Nat
    BY <2>1, FS_CardinalityType
  <2>3. /\ IsFiniteSet(DOMAIN edb \cup {q.label})
        /\ Cardinality(DOMAIN edb \cup {q.label}) = Cardinality(DOMAIN edb) + 1
    BY <1>9, <2>1, FS_AddElement
  <2>4. Cardinality(DOMAIN edb') + Len(wire'[1]) = made'
    <3>1. Cardinality(DOMAIN edb') = Cardinality(DOMAIN edb) + 1
      BY <1>4, <2>3
    <3>2. \A a \in Nat : a + n = made => (a + 1) + (n - 1) = made
      BY <1>2, <1>3
    <3>3. (Cardinality(DOMAIN edb) + 1) + (n - 1) = made
      BY <2>1, <2>2, <3>2
    <3> QED
      BY <1>1, <1>3, <3>1, <3>3
  <2> QED
    BY <1>4, <2>3, <2>4 DEF Number
<1>12. ASSUME NEW w PROVE There(w)' = There(w)
  <2> DEFINE first == IF q.label[1] = w THEN {q.entry.ind} ELSE {}
             stored == {edb[l].ind : l \in {m \in DOMAIN edb : m[1] = w}}
             sent == {wire'[1][m].entry.ind :
                        m \in {k \in 1..Len(wire'[1]) : wire'[1][k].label[1] = w}}
  <2>1. {edb'[l].ind : l \in {m \in DOMAIN edb' : m[1] = w}} = stored \cup first
    BY <1>4, <1>9
  <2>2. {wire[1][m].entry.ind : m \in {k \in 1..n : wire[1][k].label[1] = w}}
        = first \cup sent
    <3> DEFINE all == {k \in 1..n : wire[1][k].label[1] = w}
               rest == {k \in 1..Len(wire'[1]) : wire'[1][k].label[1] = w}
    <3>1. 1 \in 1..n /\ wire[1][1] = q
      BY <1>3
    <3>2. \A m \in rest : m + 1 \in all /\ wire'[1][m] = wire[1][m + 1]
      BY <1>3, <1>6
    <3>3. \A m \in all : m = 1 \/ (m - 1 \in rest /\ wire'[1][m - 1] = wire[1][m])
      BY <1>3, <1>6
    <3>4. 1 \in all <=> q.label[1] = w
      BY <3>1
    <3> HIDE DEF all, rest
    <3>5. {wire[1][m].entry.ind : m \in all} \subseteq
            first \cup {wire'[1][m].entry.ind : m \in rest}
      BY <3>1, <3>3, <3>4
    <3>6. first \cup {wire'[1][m].entry.ind : m \in rest} \subseteq
            {wire[1][m].entry.ind : m \in all}
      BY <3>1, <3>2, <3>4
    <3> QED
      BY <3>5, <3>6 DEF all, rest
  <2>3. There(w)' = (stored \cup first) \cup sent
    BY <2>1 DEF There
  <2>4. There(w) = stored \cup (first \cup sent)
    BY <2>2 DEF There, n
  <2> QED
    BY <2>3, <2>4
<1>13. Summed'
  BY <1>1, <1>12, One DEF Summed, Matches
<1>14. Reading' /\ Loaded' /\ Storing'
  BY <1>1, One DEF Reading, Loaded, Storing, Saved
<1> QED
  BY <1>1, <1>10, <1>11, <1>13, <1>14, One DEF Exact

\* A command begins with what is stored.
LEMMA ExactStart ==
  ASSUME IInv, Exact, Lone, NEW do \in {"update", "batch", "search", "verify"}, NEW v,
         NEW lefts, Start(do, v, lefts)
  PROVE  Exact'
<1>1. /\ run = Off /\ run' = [do |-> do, w |-> v] /\ uc' = db.uc /\ sc' = db.sc
      /\ job' = [j \in Thread |-> IF lefts[j] = 0 THEN AtRest
                                  ELSE [AtRest EXCEPT !.at = "uc", !.left = lefts[j]]]
      /\ threads' = threads /\ db' = db /\ save' = save /\ faults' = faults
      /\ late' = late /\ wire' = wire /\ edb' = edb /\ made' = made
  BY DEF Start
<1>2. run'.do = do /\ run' # Off /\ run'.do # "close"
  <2>1. run'.do = do
    BY <1>1
  <2> QED
    BY <2>1 DEF Off
<1>3. job'[1].at \in {"done", "uc"}
  BY <1>1, One DEF AtRest
<1>4. \A w \in Keyword : Made(w)' = Made(w)
  BY <1>1, <1>2, <1>3 DEF Made, Of
<1>5. Reading' /\ Loaded' /\ Storing'
  BY <1>1, <1>2, <1>3 DEF Reading, Loaded, Storing
<1>6. Summed'
  BY <1>1, <1>2, SameThere, One DEF Summed, Matches
<1> QED
  BY <1>1, <1>4, <1>5, <1>6, Quiet

\* While a command closes its thread has ended and its counters stand still.
LEMMA ClosingQuiet ==
  ASSUME IInv, Exact, Lone, run # Off, run' # Off, job[1].at = "done",
         threads' = threads, faults' = faults, late' = late, uc' = uc, sc' = sc, job' = job,
         edb' = edb, wire' = wire, made' = made, Loaded', Storing'
  PROVE  Exact'
<1>1. \A w \in Keyword : Made(w)' = Made(w)
  BY DEF Made
<1>2. Reading'
  BY DEF Reading
<1>3. Summed'
  BY SameThere, One DEF Summed, Matches
<1> QED
  BY <1>1, <1>2, <1>3, Quiet

LEMMA ExactClose ==
  ASSUME IInv, Exact, Lone, Close
  PROVE  Exact'
<1>1. /\ run # Off /\ run' = [do |-> "close"] /\ job[1].at = "done"
      /\ save' = ({"sc"} \X DOMAIN sc) \cup ({"uc"} \X DOMAIN uc)
      /\ threads' = threads /\ db' = db /\ faults' = faults /\ late' = late
      /\ uc' = uc /\ sc' = sc /\ job' = job /\ edb' = edb /\ wire' = wire /\ made' = made
  BY One DEF Close
<1>2. run' # Off
  <2>1. run'.do = "close"
    BY <1>1
  <2> QED
    BY <2>1 DEF Off
<1>3. Loaded' /\ Storing'
  BY <1>1, One DEF Loaded, Storing, Saved
<1> QED
  BY <1>1, <1>2, <1>3, ClosingQuiet

\* A key that is deleted is still to be put.
LEMMA ExactDelete ==
  ASSUME IInv, Exact, Lone, Delete
  PROVE  Exact'
<1>1. PICK k \in save : db' = [db EXCEPT ![k[1]] = Without(@, k[2])]
  BY DEF Delete
<1>2. /\ threads' = threads /\ run' = run /\ save' = save /\ faults' = faults /\ late' = late
      /\ uc' = uc /\ sc' = sc /\ job' = job /\ edb' = edb /\ wire' = wire /\ made' = made
  BY DEF Delete
<1>3. run.do = "close" /\ k[1] \in {"uc", "sc"} /\ k = <<k[1], k[2]>>
  BY <1>1 DEF IInv, Saving
<1>4. run # Off /\ job[1].at = "done"
  BY <1>3, One DEF Off, IInv, Phases
<1>5. db \in [uc : {db.uc}, sc : {db.sc}]
  BY DEF IInv, Types
<1>6. /\ db'.uc = IF k[1] = "uc" THEN Without(db.uc, k[2]) ELSE db.uc
      /\ db'.sc = IF k[1] = "sc" THEN Without(db.sc, k[2]) ELSE db.sc
  BY <1>1, <1>3, <1>5
<1>7. /\ DOMAIN db.uc \subseteq DOMAIN uc /\ DOMAIN db.sc \subseteq DOMAIN sc
      /\ Saved("uc", uc, db.uc) /\ Saved("sc", sc, db.sc)
  BY <1>3, <1>4, One DEF Loaded, Storing
<1>8. Loaded'
  BY <1>2, <1>6, <1>7 DEF Loaded, Without
<1>9. Saved("uc", uc, db.uc)'
  <2> SUFFICES ASSUME NEW w \in DOMAIN uc, <<"uc", w>> \notin save
               PROVE  w \in DOMAIN db'.uc /\ db'.uc[w] = uc[w]
    BY <1>2 DEF Saved
  <2>1. w \in DOMAIN db.uc /\ db.uc[w] = uc[w]
    BY <1>7 DEF Saved
  <2>2. k[1] = "uc" => k[2] # w
    BY <1>1, <1>3
  <2> QED
    BY <1>6, <2>1, <2>2 DEF Without
<1>10. Saved("sc", sc, db.sc)'
  <2> SUFFICES ASSUME NEW w \in DOMAIN sc, <<"sc", w>> \notin save
               PROVE  w \in DOMAIN db'.sc /\ db'.sc[w] = sc[w]
    BY <1>2 DEF Saved
  <2>1. w \in DOMAIN db.sc /\ db.sc[w] = sc[w]
    BY <1>7 DEF Saved
  <2>2. k[1] = "sc" => k[2] # w
    BY <1>1, <1>3
  <2> QED
    BY <1>6, <2>1, <2>2 DEF Without
<1> QED
  BY <1>2, <1>4, <1>8, <1>9, <1>10, ClosingQuiet DEF Storing

LEMMA ExactPut ==
  ASSUME IInv, Exact, Lone, Put
  PROVE  Exact'
<1> DEFINE m == hole[1]
           v == hole[2]
<1>1. /\ hole # NoHole /\ save' = save \ {hole}
      /\ db' = [db EXCEPT ![m] = Set(@, v, IF m = "uc" THEN uc[v] ELSE sc[v])]
      /\ threads' = threads /\ run' = run /\ faults' = faults /\ late' = late
      /\ uc' = uc /\ sc' = sc /\ job' = job /\ edb' = edb /\ wire' = wire /\ made' = made
  BY DEF Put
<1>2. hole \in save /\ run.do = "close"
  BY <1>1 DEF IInv, Saving
<1>3. /\ m \in {"uc", "sc"} /\ hole = <<m, v>>
      /\ m = "uc" => v \in DOMAIN uc
      /\ m = "sc" => v \in DOMAIN sc
  BY <1>2 DEF IInv, Saving
<1>4. run # Off /\ job[1].at = "done"
  BY <1>2, One DEF Off, IInv, Phases
<1>5. db \in [uc : {db.uc}, sc : {db.sc}]
  BY DEF IInv, Types
<1>6. /\ db'.uc = IF m = "uc" THEN Set(db.uc, v, uc[v]) ELSE db.uc
      /\ db'.sc = IF m = "sc" THEN Set(db.sc, v, sc[v]) ELSE db.sc
  BY <1>1, <1>3, <1>5
<1>7. /\ DOMAIN db.uc \subseteq DOMAIN uc /\ DOMAIN db.sc \subseteq DOMAIN sc
      /\ Saved("uc", uc, db.uc) /\ Saved("sc", sc, db.sc)
  BY <1>2, <1>4, One DEF Loaded, Storing
<1> HIDE DEF m, v
<1>8. Loaded'
  BY <1>1, <1>3, <1>6, <1>7 DEF Loaded, Set
<1>9. Saved("uc", uc, db.uc)'
  <2> SUFFICES ASSUME NEW w \in DOMAIN uc, <<"uc", w>> \notin save'
               PROVE  w \in DOMAIN db'.uc /\ db'.uc[w] = uc[w]
    BY <1>1 DEF Saved
  <2>1. CASE m = "uc" /\ w = v
    BY <1>6, <2>1 DEF Set
  <2>2. CASE ~(m = "uc" /\ w = v)
    <3>1. <<"uc", w>> \notin save
      BY <1>1, <1>3, <2>2
    <3>2. w \in DOMAIN db.uc /\ db.uc[w] = uc[w]
      BY <1>7, <3>1 DEF Saved
    <3> QED
      BY <1>6, <2>2, <3>2 DEF Set
  <2> QED
    BY <2>1, <2>2
<1>10. Saved("sc", sc, db.sc)'
  <2> SUFFICES ASSUME NEW w \in DOMAIN sc, <<"sc", w>> \notin save'
               PROVE  w \in DOMAIN db'.sc /\ db'.sc[w] = sc[w]
    BY <1>1 DEF Saved
  <2>1. CASE m = "sc" /\ w = v
    BY <1>6, <2>1 DEF Set
  <2>2. CASE ~(m = "sc" /\ w = v)
    <3>1. <<"sc", w>> \notin save
      BY <1>1, <1>3, <2>2
    <3>2. w \in DOMAIN db.sc /\ db.sc[w] = sc[w]
      BY <1>7, <3>1 DEF Saved
    <3> QED
      BY <1>6, <2>2, <3>2 DEF Set
  <2> QED
    BY <2>1, <2>2
<1> QED
  BY <1>1, <1>4, <1>8, <1>9, <1>10, ClosingQuiet DEF Storing

\* When all is stored the stored counters are those of the process that ends.
LEMMA ExactExit ==
  ASSUME IInv, Exact, Lone, Exit
  PROVE  Exact'
<1>1. /\ run.do = "close" /\ save = {} /\ run' = Off
      /\ threads' = threads /\ db' = db /\ save' = save /\ faults' = faults /\ late' = late
      /\ job' = job /\ edb' = edb /\ wire' = wire /\ made' = made
  BY DEF Exit
<1>2. run # Off /\ job[1].at = "done" /\ run'.do # "close"
  BY <1>1, One DEF Off, IInv, Phases
<1>3. /\ DOMAIN db.uc \subseteq DOMAIN uc /\ DOMAIN db.sc \subseteq DOMAIN sc
      /\ Saved("uc", uc, db.uc) /\ Saved("sc", sc, db.sc)
  BY <1>1, <1>2, One DEF Loaded, Storing
<1>4. DOMAIN uc = DOMAIN db.uc /\ \A w \in DOMAIN uc : uc[w] = db.uc[w]
  BY <1>1, <1>3 DEF Saved
<1>5. DOMAIN sc = DOMAIN db.sc /\ \A w \in DOMAIN sc : sc[w] = db.sc[w]
  BY <1>1, <1>3 DEF Saved
<1>6. \A w \in Keyword : Made(w)' = Made(w)
  BY <1>1, <1>2, <1>4 DEF Made, Of
<1>7. Reading' /\ Loaded' /\ Storing'
  BY <1>1, <1>2 DEF Reading, Loaded, Storing
<1>8. Summed'
  BY <1>1, <1>2, <1>5, SameThere, One DEF Summed, Matches
<1> QED
  BY <1>1, <1>6, <1>7, <1>8, Quiet

LEMMA FaultyInit == Init => Faulty
BY DEF Init, Faulty

LEMMA FaultyNext == Faulty /\ [Next]_vars => Faulty'
<1> SUFFICES ASSUME Faulty, [Next]_vars PROVE Faulty'
  OBVIOUS
<1>1. CASE Kill \/ \E j \in Thread : Break(j)
  <2>1. faults' = faults + 1
    BY <1>1 DEF Kill, Break
  <2> QED
    BY <2>1 DEF Faulty
<1>2. CASE Next /\ ~Kill /\ \A j \in Thread : ~Break(j)
  <2>1. faults' = faults /\ failed' = failed
    BY <1>2 DEF Next, StartUpdate, StartSearch, StartBatch, Start, Step, Unsaved,
       ReadCount, ZeroCount, ReadSum, ZeroSum, SetCount, SetSum, Deliver, Finish, Search,
       Verify, LateDeliver, LateDrop, Close, Delete, Put, Exit
  <2> QED
    BY <2>1 DEF Faulty
<1>3. CASE UNCHANGED vars
  BY <1>3 DEF vars, Faulty
<1> QED
  BY <1>1, <1>2, <1>3

LEMMA ExactNext == IInv /\ Faulty /\ Exact /\ [Next]_vars => Exact'
<1> SUFFICES ASSUME IInv, Faulty, Exact, [Next]_vars PROVE Exact'
  OBVIOUS
<1>1. faults \in Nat /\ faults' \in Nat /\ (Lone' => Lone) /\ threads' = threads
  <2>1. faults \in Nat
    BY DEF Exact
  <2>2. CASE Kill
    BY <2>1, <2>2 DEF Kill, Lone
  <2>a. CASE \E j \in Thread : Break(j)
    BY <2>1, <2>a DEF Break, Lone
  <2>3. CASE Next /\ ~Kill /\ \A j \in Thread : ~Break(j)
    BY <2>1, <2>3 DEF Next, StartUpdate, StartSearch, StartBatch, Start, Step, Unsaved,
       ReadCount, ZeroCount, ReadSum, ZeroSum, SetCount, SetSum, Deliver, Finish, Search,
       Verify, LateDeliver, LateDrop, Close, Delete, Put, Exit, Lone
  <2>4. CASE UNCHANGED vars
    BY <2>1, <2>4 DEF vars, Lone
  <2> QED
    BY <2>2, <2>a, <2>3, <2>4
<1>2. CASE ~Lone'
  BY <1>1, <1>2 DEF Exact
<1>3. CASE Lone'
  <2>1. Lone
    BY <1>1, <1>3
  <2>2. CASE UNCHANGED vars
    <3>1. \A w \in Keyword : Made(w)' = Made(w)
      BY <2>2 DEF vars, Made
    <3>2. Reading' /\ Summed' /\ Loaded' /\ Storing'
      BY <2>1, <2>2, SameThere, One
      DEF vars, Reading, Summed, Matches, Loaded, Storing, Saved
    <3> QED
      BY <2>1, <2>2, <3>1, <3>2, Quiet DEF vars
  <2>3. ASSUME NEW w \in Keyword, StartUpdate(w) \/ StartSearch(w) \/ StartBatch(w)
        PROVE  Exact'
    BY <2>1, <2>3, ExactStart DEF StartUpdate, StartSearch, StartBatch
  <2>4. ASSUME NEW j \in Thread, Step(j) PROVE Exact'
    <3>1. j = 1
      BY <2>1, One
    <3>2. ~job[1].cut
      BY <2>1, One DEF Faulty, IInv, Phases
    <3> QED
      BY <2>1, <2>4, <3>1, <3>2, ExactReadCount, ExactZeroCount, ExactReadSum, ExactZeroSum,
         ExactSetCount, ExactSetSum, ExactDeliver, ExactFinish, ExactSearch, ExactVerify
      DEF Step
  <2>5. ASSUME NEW j \in Thread, LateDeliver(j) \/ LateDrop(j) PROVE FALSE
    BY <2>1, <2>5, One DEF LateDeliver, LateDrop
  <2>6. ~Kill
    <3> SUFFICES ASSUME Kill PROVE FALSE
      OBVIOUS
    <3> QED
      BY <1>1, <1>3, <2>1 DEF Kill, Lone
  <2>7. ASSUME NEW j \in Thread, Break(j) PROVE FALSE
    <3>1. faults' = faults + 1 /\ faults = 0 /\ faults' = 0
      BY <1>3, <2>1, <2>7 DEF Break, Lone
    <3> QED
      BY <3>1
  <2> QED
    BY <2>1, <2>2, <2>3, <2>4, <2>5, <2>6, <2>7, ExactClose, ExactDelete, ExactPut, ExactExit DEF Next
<1> QED
  BY <1>2, <1>3

-----------------------------------------------------------------------------
\* When no command runs, nothing is on its way.
LEMMA AtRestExact ==
  ASSUME IInv, Exact, Lone, run = Off
  PROVE  /\ wire[1] = <<>> /\ Len(wire[1]) = 0
         /\ \A w : There(w) = {edb[l].ind : l \in {m \in DOMAIN edb : m[1] = w}}
<1>1. wire[1] = <<>>
  BY One DEF IInv, Phases, Off
<1>2. Len(wire[1]) = 0
  BY <1>1
<1> QED
  BY <1>1, <1>2 DEF There

\* With one thread, no kill and no failing call the server has as many entries as
\* there were updates, of whatever commands: none is written over another, none is left out.
THEOREM EveryUpdateIsStored == Spec => []NothingLost
<1>1. ASSUME IInv, Exact PROVE NothingLost
  <2> SUFFICES ASSUME Lone, run = Off PROVE Cardinality(DOMAIN edb) = made
    BY DEF NothingLost, Lone
  <2>1. IsFiniteSet(DOMAIN edb) /\ Cardinality(DOMAIN edb) + Len(wire[1]) = made
    BY <1>1, One DEF Number
  <2>2. Len(wire[1]) = 0 /\ Cardinality(DOMAIN edb) \in Nat
    BY <1>1, <2>1, AtRestExact, FS_CardinalityType
  <2> QED
    BY <2>1, <2>2
<1> QED
  BY InitInv, NextInv, FaultyInit, FaultyNext, ExactInit, ExactNext, <1>1, PTL DEF Spec

\* With one thread, no kill and no failing call the checksum that is stored for a
\* keyword is that of the entries the server has for it, unless one of them is the
\* short identifier of command 1.
THEOREM ChecksumsMatch == Spec => []ProofMatches
<1>1. ASSUME IInv, Exact PROVE ProofMatches
  <2> SUFFICES ASSUME Lone, run = Off, NEW w \in Keyword
               PROVE  LET inds == {edb[l].ind : l \in {m \in DOMAIN edb : m[1] = w}}
                      IN  Short \notin inds /\ (w \in DOMAIN db.sc \/ inds # {}) =>
                            db.sc[w] = inds
    BY DEF ProofMatches, Lone
  <2>1. Matches(db.sc, w)
    BY <1>1, One DEF Summed
  <2> QED
    BY <1>1, <2>1, AtRestExact DEF Matches
<1> QED
  BY InitInv, NextInv, FaultyInit, FaultyNext, ExactInit, ExactNext, <1>1, PTL DEF Spec
=============================================================================
