----------------------------- MODULE FVSEProofs -----------------------------
(***************************************************************************)
(* Proof, for any number of threads, updates and killed clients, that FVSE *)
(* never stores a count with a label missing below it unless a call of a   *)
(* living client failed, that nothing leaves its bounds, and that no entry *)
(* is overwritten whose label a stored count covers, as long as no client  *)
(* is killed and no call fails.                                            *)
(***************************************************************************)
EXTENDS FVSE, SequenceTheorems, FiniteSetTheorems, TLAPS

Message == [label : Keyword \X Nat, entry : [mask : {"H1", "H2"}, ind : Nat]]
Working == {"uc", "uc0", "sc", "sc0", "setuc", "setsc", "finish", "verify"}
Jobs == [at : {"done"} \cup Working, uc : Nat, sc : SUBSET Int, left : Int,
         cut : BOOLEAN]
Count(f) == DOMAIN f \subseteq Keyword /\ \A w \in DOMAIN f : f[w] \in Nat
Sum(f) == DOMAIN f \subseteq Keyword /\ \A w \in DOMAIN f : f[w] \in SUBSET Int
Asking == {"search", "verify"}
\* Where a thread has read the count.
Counted == {"uc0", "sc", "sc0", "setuc", "setsc"}

Types ==
  /\ threads \in Nat \ {0}
  /\ db \in [uc : {db.uc}, sc : {db.sc}]
  /\ Count(uc) /\ Count(db.uc) /\ Sum(sc) /\ Sum(db.sc)
  /\ run \in {Off, [do |-> "close"]} \cup [do : {"update", "batch"} \cup Asking, w : Keyword]
  /\ job \in [Thread -> Jobs]
  /\ wire \in [Thread -> Seq(Message)]
  /\ made \in Nat /\ failed \in BOOLEAN

\* A label is taken care of: it is stored, on its way, or about to be sent.  Once a
\* call or a stream failed nothing is asked of any label.
Sent(l) == \E j \in Thread : \E i \in 1..Len(wire[j]) : wire[j][i].label = l
Making(l) == \E j \in Thread : job[j].at = "setsc" /\ l = <<run.w, job[j].uc + 1>>
Covered(l) == failed \/ l \in DOMAIN edb \/ Sent(l) \/ Making(l)

\* Whoever reads a count finds every label up to it taken care of.
CountsCovered == \A w \in DOMAIN uc : \A c \in 1..uc[w] : Covered(<<w, c>>)
ReadsCovered == \A j \in Thread : job[j].at \in Counted =>
                  \A c \in 1..job[j].uc : Covered(<<run.w, c>>)

\* A thread ends when its stream is stored; a command closes when all have ended.
Phases ==
  /\ \A j \in Thread : job[j].at = "done" => wire[j] = <<>>
  /\ \A j \in Thread : job[j].cut => failed
  /\ run.do \in {"off", "close"} => \A j \in Thread : job[j].at = "done"
  /\ \A j \in Thread : job[j].at = "verify" => run.do \in Asking
  /\ run.do \in Asking => \A j \in Thread :
                            job[j].at \notin {"sc0", "setuc", "setsc"} /\ wire[j] = <<>>

Saving ==
  /\ save # {} => run.do = "close"
  /\ save \subseteq ({"sc"} \X DOMAIN sc) \cup ({"uc"} \X DOMAIN uc)
  /\ hole = NoHole \/ hole \in save

IInv == Types /\ NoGap /\ CountsCovered /\ ReadsCovered /\ Phases /\ Saving

\* The state of the labels that a step may only improve.
Steady == \A l : Covered(l) => Covered(l)'

USE DEF Thread, Asking, Counted

LEMMA RunFields ==
  ASSUME Types
  PROVE  /\ run.do \in {"off", "close", "update", "batch", "search", "verify"}
         /\ run.do \in {"update", "batch", "search", "verify"} => run.w \in Keyword
BY DEF Types, Off

\* A thread that is not done belongs to a command with a keyword.
LEMMA BusyRun ==
  ASSUME IInv, NEW j \in Thread, job[j].at # "done"
  PROVE  run.do \in {"update", "batch", "search", "verify"} /\ run.w \in Keyword
BY RunFields DEF IInv, Phases

LEMMA InitInv == Init => IInv
<1> SUFFICES ASSUME Init PROVE IInv
  OBVIOUS
<1> USE DEF Init
<1>1. threads \in Nat \ {0}
  BY BoundsAssumption
<1>a. job \in [Thread -> Jobs] /\ wire \in [Thread -> Seq(Message)]
  BY DEF Jobs, AtRest, Zero
<1>b. run \in {Off, [do |-> "close"]} /\ made \in Nat /\ failed \in BOOLEAN
  OBVIOUS
<1>c. db \in [uc : {db.uc}, sc : {db.sc}] /\ db.uc = <<>> /\ db.sc = <<>>
  OBVIOUS
<1>d. Count(uc) /\ Count(db.uc) /\ Sum(sc) /\ Sum(db.sc)
  BY <1>c DEF Count, Sum
<1>2. Types
  BY <1>1, <1>a, <1>b, <1>c, <1>d DEF Types
<1>3. NoGap /\ CountsCovered
  BY DEF NoGap, CountsCovered
<1>4. ReadsCovered /\ Phases /\ Saving
  BY DEF ReadsCovered, Phases, Saving, AtRest, Off
<1> QED
  BY <1>2, <1>3, <1>4 DEF IInv

\* What a step of one thread has to show; the rest of the invariant is untouched.
LEMMA ThreadStep ==
  ASSUME IInv, NEW j \in Thread, job[j].at # "done",
         threads' = threads, db' = db, run' = run, save' = save, hole' = hole,
         failed' = failed, job'[j].cut => failed,
         job' \in [Thread -> Jobs], \A i \in Thread \ {j} : job'[i] = job[i],
         wire' \in [Thread -> Seq(Message)], \A i \in Thread \ {j} : wire'[i] = wire[i],
         Count(uc'), Sum(sc'), made' \in Nat, DOMAIN edb \subseteq DOMAIN edb',
         Steady, CountsCovered',
         job'[j].at \in Counted =>
           \A c \in 1..job'[j].uc : Covered(<<run.w, c>>)',
         job'[j].at = "done" => wire'[j] = <<>>,
         job'[j].at = "verify" => run.do \in Asking,
         run.do \in Asking => job'[j].at \notin {"sc0", "setuc", "setsc"} /\ wire'[j] = <<>>
  PROVE  IInv'
<1>1. run.do \in {"update", "batch", "search", "verify"} /\ run.w \in Keyword
  BY BusyRun
<1>2. Types'
  BY DEF IInv, Types, Count, Sum
<1>3. NoGap'
  BY DEF IInv, NoGap
<1>4. ReadsCovered'
  <2> SUFFICES ASSUME NEW i \in Thread', job'[i].at \in Counted,
                      NEW c \in 1..job'[i].uc
               PROVE  Covered(<<run.w, c>>)'
    BY DEF ReadsCovered
  <2>1. i \in Thread
    OBVIOUS
  <2>2. CASE i = j
    BY <2>2
  <2>3. CASE i # j
    <3>1. job'[i] = job[i]
      BY <2>1, <2>3
    <3>2. Covered(<<run.w, c>>)
      BY <2>1, <3>1 DEF IInv, ReadsCovered
    <3>3. \A l : Covered(l) => Covered(l)'
      BY DEF Steady
    <3>4. PICK l : l = <<run.w, c>>
      OBVIOUS
    <3>a. Covered(l)
      BY <3>2, <3>4
    <3>5. Covered(l)'
      BY <3>3, <3>a
    <3>6. l = <<run'.w, c>>
      BY <3>4
    <3> QED
      BY <3>5, <3>6 DEF Covered, Sent, Making
  <2> QED
    BY <2>2, <2>3
<1>5. Phases'
  BY <1>1 DEF IInv, Phases
<1>6. Saving'
  BY <1>1 DEF IInv, Saving
<1> QED
  BY <1>2, <1>3, <1>4, <1>5, <1>6 DEF IInv

LEMMA SteadyStep ==
  ASSUME IInv, NEW j \in Thread, job[j].at # "setsc",
         threads' = threads, run' = run, failed' = failed, wire' = wire, DOMAIN edb \subseteq DOMAIN edb',
         \A i \in Thread \ {j} : job'[i] = job[i]
  PROVE  Steady
<1> SUFFICES ASSUME NEW l, Covered(l) PROVE Covered(l)'
  BY DEF Steady
<1>1. Sent(l) => Sent(l)'
  BY DEF Sent
<1>2. Making(l) => Making(l)'
  BY DEF Making
<1> QED
  BY <1>1, <1>2 DEF Covered

LEMMA SteadyCounts ==
  ASSUME IInv, Steady, uc' = uc
  PROVE  CountsCovered'
BY DEF IInv, Steady, CountsCovered

\* A thread goes on to p, and reads r into its copy of the count.
LEMMA JobChange ==
  ASSUME IInv, NEW j \in Thread, NEW p \in {"done"} \cup Working, NEW r \in Nat,
         job' = [job EXCEPT ![j].at = p, ![j].uc = r]
  PROVE  /\ job' \in [Thread -> Jobs]
         /\ job'[j].at = p /\ job'[j].uc = r /\ (job'[j].cut => failed)
         /\ \A i \in Thread \ {j} : job'[i] = job[i]
<1>1. job \in [Thread -> Jobs] /\ job[j] \in Jobs /\ (job[j].cut => failed)
  BY DEF IInv, Types, Phases
<1> QED
  BY <1>1 DEF Jobs

LEMMA JobGoto ==
  ASSUME IInv, NEW j \in Thread, NEW p \in {"done"} \cup Working, Goto(j, p)
  PROVE  /\ job' \in [Thread -> Jobs]
         /\ job'[j].at = p /\ job'[j].uc = job[j].uc /\ (job'[j].cut => failed)
         /\ \A i \in Thread \ {j} : job'[i] = job[i]
<1>1. job \in [Thread -> Jobs] /\ job[j] \in Jobs /\ (job[j].cut => failed)
  BY DEF IInv, Types, Phases
<1> QED
  BY <1>1 DEF Jobs, Goto

LEMMA ReadCountInv ==
  ASSUME IInv, NEW j \in Thread, ReadCount(j)
  PROVE  IInv'
<1> DEFINE there == run.w \in DOMAIN uc
           p == IF there THEN "sc" ELSE "uc0"
           r == IF there THEN uc[run.w] ELSE 0
<1>1. /\ job[j].at = "uc" /\ job' = [job EXCEPT ![j].at = p, ![j].uc = r]
      /\ threads' = threads /\ db' = db /\ run' = run /\ save' = save /\ hole' = hole
      /\ failed' = failed
      /\ uc' = uc /\ sc' = sc /\ wire' = wire /\ edb' = edb /\ made' = made
  BY DEF ReadCount, Unsaved
<1>2. p \in Working /\ r \in Nat
  BY DEF IInv, Types, Count, Working
<1> HIDE DEF p, r
<1>3. /\ job' \in [Thread -> Jobs] /\ job'[j].at = p /\ job'[j].uc = r /\ (job'[j].cut => failed)
      /\ \A i \in Thread \ {j} : job'[i] = job[i]
  BY <1>1, <1>2, JobChange
<1>4. Steady
  BY <1>1, <1>3, SteadyStep
<1>5. CountsCovered'
  BY <1>1, <1>4, SteadyCounts
<1>6. job'[j].at \in Counted =>
        \A c \in 1..job'[j].uc : Covered(<<run.w, c>>)'
  <2> SUFFICES ASSUME NEW c \in 1..r PROVE Covered(<<run.w, c>>)'
    BY <1>3
  <2>1. there /\ r = uc[run.w]
    BY DEF r
  <2>2. PICK l : l = <<run.w, c>>
    OBVIOUS
  <2>3. Covered(l)
    BY <2>1, <2>2 DEF IInv, CountsCovered
  <2>4. Covered(l)'
    BY <1>4, <2>3 DEF Steady
  <2>5. l = <<run'.w, c>>
    BY <1>1, <2>2
  <2> QED
    BY <2>4, <2>5 DEF Covered, Sent, Making
<1>7. Types /\ Phases /\ j \in Thread
  BY DEF IInv
<1>8. run.do \in Asking => p \notin {"sc0", "setuc", "setsc"} /\ wire'[j] = <<>>
  BY <1>1, <1>7 DEF Phases, p
<1>9. p \notin {"done", "verify"}
  BY DEF p
<1> QED
  BY <1>1, <1>3, <1>4, <1>5, <1>6, <1>7, <1>8, <1>9, ThreadStep DEF Types

\* What a step that does not read the count leaves true of the count it has read.
LEMMA ReadsKept ==
  ASSUME IInv, Steady, run' = run, NEW j \in Thread, job'[j].uc = job[j].uc,
         job[j].at \in Counted
  PROVE  \A c \in 1..job'[j].uc : Covered(<<run.w, c>>)'
<1> SUFFICES ASSUME NEW c \in 1..job[j].uc PROVE Covered(<<run.w, c>>)'
  OBVIOUS
<1>1. PICK l : l = <<run.w, c>>
  OBVIOUS
<1>2. Covered(l)
  BY <1>1 DEF IInv, ReadsCovered
<1>3. Covered(l)'
  BY <1>2 DEF Steady
<1>4. l = <<run'.w, c>>
  BY <1>1
<1> QED
  BY <1>3, <1>4 DEF Covered, Sent, Making

LEMMA ZeroCountInv ==
  ASSUME IInv, NEW j \in Thread, ZeroCount(j)
  PROVE  IInv'
<1>1. /\ job[j].at = "uc0" /\ Goto(j, "sc") /\ uc' = Set(uc, run.w, 0)
      /\ threads' = threads /\ db' = db /\ run' = run /\ save' = save /\ hole' = hole
      /\ failed' = failed
      /\ sc' = sc /\ wire' = wire /\ edb' = edb /\ made' = made
  BY DEF ZeroCount, Unsaved
<1>2. /\ job' \in [Thread -> Jobs] /\ job'[j].at = "sc" /\ job'[j].uc = job[j].uc /\ (job'[j].cut => failed)
      /\ \A i \in Thread \ {j} : job'[i] = job[i]
  BY <1>1, JobGoto DEF Working
<1>3. Steady
  BY <1>1, <1>2, SteadyStep
<1>4. run.w \in Keyword
  BY <1>1, BusyRun
<1>c. /\ DOMAIN uc' = DOMAIN uc \cup {run.w}
      /\ \A w \in DOMAIN uc' : uc'[w] = IF w = run.w THEN 0 ELSE uc[w]
  BY <1>1 DEF Set
<1>5. Count(uc')
  BY <1>4, <1>c DEF IInv, Types, Count
<1>6. CountsCovered'
  <2> SUFFICES ASSUME NEW w \in DOMAIN uc', NEW c \in 1..uc'[w] PROVE Covered(<<w, c>>)'
    BY DEF CountsCovered
  <2>1. w # run.w /\ w \in DOMAIN uc /\ uc'[w] = uc[w]
    BY <1>c
  <2> QED
    BY <1>3, <2>1 DEF IInv, CountsCovered, Steady
<1>7. Types /\ Phases
  BY DEF IInv
<1>8. \A c \in 1..job'[j].uc : Covered(<<run.w, c>>)'
  BY <1>1, <1>2, <1>3, ReadsKept
<1>9. run.do \in Asking => wire'[j] = <<>>
  BY <1>1, <1>7 DEF Phases
<1> QED
  BY <1>1, <1>2, <1>3, <1>5, <1>6, <1>7, <1>8, <1>9, ThreadStep DEF Types

LEMMA ReadSumInv ==
  ASSUME IInv, NEW j \in Thread, ReadSum(j)
  PROVE  IInv'
<1> DEFINE there == run.w \in DOMAIN sc
           p == IF there THEN "setuc" ELSE "sc0"
           r == IF there THEN sc[run.w] ELSE Zero
<1>1. /\ job[j].at = "sc" /\ run.do \notin Asking
      /\ job' = [job EXCEPT ![j].at = p, ![j].sc = r]
      /\ threads' = threads /\ db' = db /\ run' = run /\ save' = save /\ hole' = hole
      /\ failed' = failed
      /\ uc' = uc /\ sc' = sc /\ wire' = wire /\ edb' = edb /\ made' = made
  BY DEF ReadSum, Unsaved
<1>2. p \in {"setuc", "sc0"} /\ r \in SUBSET Int
  BY DEF IInv, Types, Sum, Zero
<1> HIDE DEF p, r
<1>3. job \in [Thread -> Jobs] /\ job[j] \in Jobs /\ (job[j].cut => failed)
  BY DEF IInv, Types, Phases
<1>4. /\ job' \in [Thread -> Jobs] /\ job'[j].at = p /\ job'[j].uc = job[j].uc /\ (job'[j].cut => failed)
      /\ \A i \in Thread \ {j} : job'[i] = job[i]
  BY <1>1, <1>2, <1>3 DEF Jobs, Working
<1>5. Steady
  BY <1>1, <1>4, SteadyStep
<1>6. CountsCovered'
  BY <1>1, <1>5, SteadyCounts
<1>7. \A c \in 1..job'[j].uc : Covered(<<run.w, c>>)'
  BY <1>1, <1>4, <1>5, ReadsKept
<1>8. Types /\ p \notin {"done", "verify"}
  BY <1>2 DEF IInv
<1> QED
  BY <1>1, <1>4, <1>5, <1>6, <1>7, <1>8, ThreadStep DEF Types

LEMMA ZeroSumInv ==
  ASSUME IInv, NEW j \in Thread, ZeroSum(j)
  PROVE  IInv'
<1>1. /\ job[j].at = "sc0" /\ Goto(j, "setuc") /\ sc' = Set(sc, run.w, Zero)
      /\ threads' = threads /\ db' = db /\ run' = run /\ save' = save /\ hole' = hole
      /\ failed' = failed
      /\ uc' = uc /\ wire' = wire /\ edb' = edb /\ made' = made
  BY DEF ZeroSum, Unsaved
<1>2. /\ job' \in [Thread -> Jobs] /\ job'[j].at = "setuc" /\ job'[j].uc = job[j].uc /\ (job'[j].cut => failed)
      /\ \A i \in Thread \ {j} : job'[i] = job[i]
  BY <1>1, JobGoto DEF Working
<1>3. Steady
  BY <1>1, <1>2, SteadyStep
<1>c. run.w \in Keyword
  BY <1>1, BusyRun
<1>4. Sum(sc')
  BY <1>1, <1>c DEF IInv, Types, Sum, Zero, Set
<1>5. CountsCovered'
  BY <1>1, <1>3, SteadyCounts
<1>6. \A c \in 1..job'[j].uc : Covered(<<run.w, c>>)'
  BY <1>1, <1>2, <1>3, ReadsKept
<1>7. Types /\ run.do \notin Asking
  BY <1>1 DEF IInv, Phases
<1> QED
  BY <1>1, <1>2, <1>3, <1>4, <1>5, <1>6, <1>7, ThreadStep DEF Types

\* The new count is covered: its label is the one about to be sent.
LEMMA SetCountInv ==
  ASSUME IInv, NEW j \in Thread, SetCount(j)
  PROVE  IInv'
<1>1. /\ job[j].at = "setuc" /\ Goto(j, "setsc") /\ uc' = Set(uc, run.w, job[j].uc + 1)
      /\ threads' = threads /\ db' = db /\ run' = run /\ save' = save /\ hole' = hole
      /\ failed' = failed
      /\ sc' = sc /\ wire' = wire /\ edb' = edb /\ made' = made
  BY DEF SetCount, Unsaved
<1>2. /\ job' \in [Thread -> Jobs] /\ job'[j].at = "setsc" /\ job'[j].uc = job[j].uc /\ (job'[j].cut => failed)
      /\ \A i \in Thread \ {j} : job'[i] = job[i]
  BY <1>1, JobGoto DEF Working
<1>3. Steady
  BY <1>1, <1>2, SteadyStep
<1>4. run.w \in Keyword /\ job[j].uc \in Nat
  BY <1>1, BusyRun DEF IInv, Types, Jobs
<1>c. /\ DOMAIN uc' = DOMAIN uc \cup {run.w}
      /\ \A w \in DOMAIN uc' : uc'[w] = IF w = run.w THEN job[j].uc + 1 ELSE uc[w]
  BY <1>1 DEF Set
<1>5. Count(uc')
  BY <1>4, <1>c DEF IInv, Types, Count
<1>6. CountsCovered'
  <2> SUFFICES ASSUME NEW w \in DOMAIN uc', NEW c \in 1..uc'[w] PROVE Covered(<<w, c>>)'
    BY DEF CountsCovered
  <2>1. CASE w # run.w
    <3>1. w \in DOMAIN uc /\ uc'[w] = uc[w]
      BY <1>c, <2>1
    <3> QED
      BY <1>3, <3>1 DEF IInv, CountsCovered, Steady
  <2>2. CASE w = run.w
    <3>1. c \in 1..job[j].uc \/ c = job[j].uc + 1
      BY <1>c, <1>4, <2>2
    <3>2. CASE c \in 1..job[j].uc
      <4>1. Covered(<<w, c>>)
        BY <1>1, <2>2, <3>2 DEF IInv, ReadsCovered
      <4> QED
        BY <1>3, <4>1 DEF Steady
    <3>3. CASE c = job[j].uc + 1
      <4>1. j \in Thread' /\ job'[j].at = "setsc" /\ <<w, c>> = <<run'.w, job'[j].uc + 1>>
        BY <1>1, <1>2, <2>2, <3>3
      <4> QED
        BY <4>1 DEF Covered, Making
    <3> QED
      BY <3>1, <3>2, <3>3
  <2> QED
    BY <2>1, <2>2
<1>7. \A c \in 1..job'[j].uc : Covered(<<run.w, c>>)'
  BY <1>1, <1>2, <1>3, ReadsKept
<1>8. Types /\ run.do \notin Asking
  BY <1>1 DEF IInv, Phases
<1> QED
  BY <1>1, <1>2, <1>3, <1>5, <1>6, <1>7, <1>8, ThreadStep DEF Types

\* The entry under the new count goes on its way.
LEMMA SetSumInv ==
  ASSUME IInv, NEW j \in Thread, SetSum(j)
  PROVE  IInv'
<1> DEFINE ind == IF run.do = "update" THEN Short ELSE made + 1
           q == Request(j, ind)
           p == IF job[j].left = 1 THEN "finish" ELSE "uc"
           old == job[j].left
<1>1. /\ job[j].at = "setsc" /\ sc' = Set(sc, run.w, Xor(job[j].sc, ind))
      /\ wire' = IF job[j].cut THEN wire ELSE [wire EXCEPT ![j] = Append(@, q)]
      /\ job' = [job EXCEPT ![j].left = @ - 1, ![j].at = p]
      /\ threads' = threads /\ db' = db /\ run' = run /\ save' = save /\ hole' = hole
      /\ failed' = failed
      /\ uc' = uc /\ edb' = edb /\ made' = made + 1
  BY DEF SetSum, Unsaved
<1>2. run.w \in Keyword /\ run.do \notin Asking
  BY <1>1, BusyRun DEF IInv, Phases
<1>3. /\ job \in [Thread -> Jobs] /\ job[j] \in Jobs /\ wire \in [Thread -> Seq(Message)]
      /\ made \in Nat /\ Count(uc) /\ Sum(sc) /\ (job[j].cut => failed)
  BY DEF IInv, Types, Phases
<1>4. ind \in Nat
  BY <1>3 DEF Short
<1>5. q \in Message /\ q.label = <<run.w, job[j].uc + 1>>
  BY <1>2, <1>3, <1>4 DEF Request, Message, Jobs
<1>6. Xor(job[j].sc, ind) \in SUBSET Int
  BY <1>3, <1>4 DEF Xor, Broken, Jobs
<1>7. Sum(sc')
  BY <1>1, <1>2, <1>3, <1>6 DEF Sum, Set
<1>8. p \in {"finish", "uc"}
  OBVIOUS
<1> HIDE DEF ind, q, p
<1>9. /\ job' \in [Thread -> Jobs] /\ job'[j].at = p /\ (job'[j].cut => failed)
      /\ \A i \in Thread \ {j} : job'[i] = job[i]
  BY <1>1, <1>3, <1>8 DEF Jobs, Working
<1>a. CASE job[j].cut
  <2>1. wire' = wire /\ failed /\ failed'
    BY <1>1, <1>3, <1>a
  <2>2. Steady /\ CountsCovered' /\ \A c : Covered(<<run.w, c>>)'
    BY <2>1 DEF Steady, Covered, CountsCovered
  <2> QED
    BY <1>1, <1>2, <1>3, <1>7, <1>8, <1>9, <2>1, <2>2, ThreadStep
<1>b. CASE ~job[j].cut
  <2>10. wire[j] \in Seq(Message) /\ wire'[j] = Append(wire[j], q)
    BY <1>1, <1>3, <1>b
  <2>11. /\ Len(wire'[j]) = Len(wire[j]) + 1 /\ Len(wire[j]) \in Nat
         /\ wire'[j][Len(wire[j]) + 1] = q
         /\ \A i \in 1..Len(wire[j]) : wire'[j][i] = wire[j][i]
         /\ wire'[j] \in Seq(Message)
    BY <1>5, <2>10
  <2>12. wire' \in [Thread -> Seq(Message)] /\ \A i \in Thread \ {j} : wire'[i] = wire[i]
    BY <1>1, <1>3, <2>11
  <2>13. Steady
    <3> SUFFICES ASSUME NEW l, Covered(l) PROVE Covered(l)'
      BY DEF Steady
    <3>1. CASE l \in DOMAIN edb
      BY <1>1, <3>1 DEF Covered
    <3>2. CASE Sent(l)
      <4>a. PICK i \in Thread : \E n \in 1..Len(wire[i]) : wire[i][n].label = l
        BY <3>2 DEF Sent
      <4>1. PICK n \in 1..Len(wire[i]) : wire[i][n].label = l
        BY <4>a
      <4>2. n \in 1..Len(wire'[i]) /\ wire'[i][n].label = l
        BY <2>11, <2>12, <4>1
      <4> QED
        BY <1>1, <4>1, <4>2 DEF Covered, Sent
    <3>3. CASE Making(l)
      <4>1. PICK i \in Thread : job[i].at = "setsc" /\ l = <<run.w, job[i].uc + 1>>
        BY <3>3 DEF Making
      <4>2. CASE i = j
        <5>1. l = wire'[j][Len(wire[j]) + 1].label /\ Len(wire[j]) + 1 \in 1..Len(wire'[j])
          BY <1>5, <2>11, <4>1, <4>2
        <5> QED
          BY <1>1, <5>1 DEF Covered, Sent
      <4>3. CASE i # j
        BY <1>1, <1>9, <4>1, <4>3 DEF Covered, Making
      <4> QED
        BY <4>2, <4>3
    <3> QED
      BY <1>1, <3>1, <3>2, <3>3 DEF Covered
  <2>14. CountsCovered'
    BY <1>1, <2>13, SteadyCounts
  <2>15. Types /\ made' \in Nat /\ Count(uc')
    BY <1>1, <1>3 DEF IInv
  <2> QED
    BY <1>1, <1>2, <1>7, <1>8, <1>9, <2>12, <2>13, <2>14, <2>15, ThreadStep
<1> QED
  BY <1>a, <1>b

\* An entry arrives.
LEMMA DeliverInv ==
  ASSUME IInv, NEW j \in Thread, Deliver(j)
  PROVE  IInv'
<1> DEFINE q == Head(wire[j])
<1>1. /\ wire[j] # <<>> /\ edb' = Set(edb, q.label, q.entry)
      /\ wire' = [wire EXCEPT ![j] = Tail(@)]
      /\ threads' = threads /\ db' = db /\ run' = run /\ save' = save /\ hole' = hole
      /\ failed' = failed
      /\ uc' = uc /\ sc' = sc /\ job' = job /\ made' = made
  BY DEF Deliver, Unsaved, Store
<1>2. /\ job \in [Thread -> Jobs] /\ wire \in [Thread -> Seq(Message)] /\ wire[j] \in Seq(Message)
      /\ made \in Nat /\ Count(uc) /\ Sum(sc)
  BY DEF IInv, Types
<1>3. job[j].at \notin {"done", "verify"} /\ run.do \notin Asking /\ (job[j].cut => failed)
  BY <1>1 DEF IInv, Phases
<1>4. /\ wire'[j] = Tail(wire[j]) /\ wire'[j] \in Seq(Message)
      /\ Len(wire'[j]) = Len(wire[j]) - 1
      /\ \A i \in 1..Len(wire'[j]) : wire'[j][i] = wire[j][i + 1]
  BY <1>1, <1>2, HeadTailProperties
<1>5. Len(wire[j]) \in Nat \ {0} /\ q = wire[j][1]
  BY <1>1, <1>2, EmptySeq
<1>6. wire' \in [Thread -> Seq(Message)] /\ \A i \in Thread \ {j} : wire'[i] = wire[i]
  BY <1>1, <1>2, <1>4
<1>7. DOMAIN edb' = DOMAIN edb \cup {q.label}
  BY <1>1 DEF Set
<1>8. Steady
  <2> SUFFICES ASSUME NEW l, Covered(l) PROVE Covered(l)'
    BY DEF Steady
  <2>1. CASE l \in DOMAIN edb
    BY <1>7, <2>1 DEF Covered
  <2>2. CASE Sent(l)
    <3>a. PICK i \in Thread : \E n \in 1..Len(wire[i]) : wire[i][n].label = l
      BY <2>2 DEF Sent
    <3>1. PICK n \in 1..Len(wire[i]) : wire[i][n].label = l
      BY <3>a
    <3>2. CASE i # j
      <4>1. n \in 1..Len(wire'[i]) /\ wire'[i][n].label = l
        BY <1>6, <3>1, <3>2
      <4> QED
        BY <1>1, <3>1, <4>1 DEF Covered, Sent
    <3>3. CASE i = j /\ n = 1
      BY <1>5, <1>7, <3>1, <3>3 DEF Covered
    <3>4. CASE i = j /\ n # 1
      <4>1. (n - 1) \in 1..Len(wire'[j]) /\ (n - 1) + 1 = n
        BY <1>4, <1>5, <3>1, <3>4
      <4>2. wire'[j][n - 1].label = l
        BY <1>4, <3>1, <3>4, <4>1
      <4> QED
        BY <1>1, <4>1, <4>2 DEF Covered, Sent
    <3> QED
      BY <3>2, <3>3, <3>4
  <2>3. CASE Making(l)
    BY <1>1, <2>3 DEF Covered, Making
  <2> QED
    BY <1>1, <2>1, <2>2, <2>3 DEF Covered
<1>9. CountsCovered'
  BY <1>1, <1>8, SteadyCounts
<1>10. job'[j].at \in Counted => \A c \in 1..job'[j].uc : Covered(<<run.w, c>>)'
  BY <1>1, <1>8, ReadsKept
<1> QED
  BY <1>1, <1>2, <1>3, <1>6, <1>7, <1>8, <1>9, <1>10, ThreadStep

LEMMA FinishInv ==
  ASSUME IInv, NEW j \in Thread, Finish(j)
  PROVE  IInv'
<1>1. /\ job[j].at = "finish" /\ wire[j] = <<>> /\ Goto(j, "done")
      /\ threads' = threads /\ db' = db /\ run' = run /\ save' = save /\ hole' = hole
      /\ failed' = failed
      /\ uc' = uc /\ sc' = sc /\ wire' = wire /\ edb' = edb /\ made' = made
  BY DEF Finish, Unsaved
<1>2. /\ job' \in [Thread -> Jobs] /\ job'[j].at = "done" /\ job'[j].uc = job[j].uc /\ (job'[j].cut => failed)
      /\ \A i \in Thread \ {j} : job'[i] = job[i]
  BY <1>1, JobGoto DEF Working
<1>3. Steady
  BY <1>1, <1>2, SteadyStep
<1>4. CountsCovered'
  BY <1>1, <1>3, SteadyCounts
<1>5. Types
  BY DEF IInv
<1> QED
  BY <1>1, <1>2, <1>3, <1>4, <1>5, ThreadStep DEF Types

LEMMA SearchInv ==
  ASSUME IInv, NEW j \in Thread, Search(j)
  PROVE  IInv'
<1> DEFINE p == IF run.do = "verify" THEN "verify" ELSE "done"
<1>1. /\ job[j].at = "sc" /\ run.do \in Asking /\ Goto(j, p)
      /\ threads' = threads /\ db' = db /\ run' = run /\ save' = save /\ hole' = hole
      /\ failed' = failed
      /\ uc' = uc /\ sc' = sc /\ wire' = wire /\ edb' = edb /\ made' = made
  BY DEF Search
<1>2. p \in {"verify", "done"}
  OBVIOUS
<1> HIDE DEF p
<1>3. /\ job' \in [Thread -> Jobs] /\ job'[j].at = p /\ job'[j].uc = job[j].uc /\ (job'[j].cut => failed)
      /\ \A i \in Thread \ {j} : job'[i] = job[i]
  BY <1>1, <1>2, JobGoto DEF Working
<1>4. Steady
  BY <1>1, <1>3, SteadyStep
<1>5. CountsCovered'
  BY <1>1, <1>4, SteadyCounts
<1>6. Types /\ wire[j] = <<>>
  BY <1>1 DEF IInv, Phases
<1> QED
  BY <1>1, <1>2, <1>3, <1>4, <1>5, <1>6, ThreadStep DEF Types

LEMMA VerifyInv ==
  ASSUME IInv, NEW j \in Thread, Verify(j)
  PROVE  IInv'
<1>1. /\ job[j].at = "verify" /\ Goto(j, "done")
      /\ sc' = IF run.w \in DOMAIN sc THEN sc ELSE Set(sc, run.w, Zero)
      /\ threads' = threads /\ db' = db /\ run' = run /\ save' = save /\ hole' = hole
      /\ failed' = failed
      /\ uc' = uc /\ wire' = wire /\ edb' = edb /\ made' = made
  BY DEF Verify, Unsaved
<1>2. /\ job' \in [Thread -> Jobs] /\ job'[j].at = "done" /\ job'[j].uc = job[j].uc /\ (job'[j].cut => failed)
      /\ \A i \in Thread \ {j} : job'[i] = job[i]
  BY <1>1, JobGoto DEF Working
<1>3. Steady
  BY <1>1, <1>2, SteadyStep
<1>4. CountsCovered'
  BY <1>1, <1>3, SteadyCounts
<1>5. run.w \in Keyword
  BY <1>1, BusyRun
<1>6. Sum(sc')
  BY <1>1, <1>5 DEF IInv, Types, Sum, Set, Zero
<1>7. Types /\ wire[j] = <<>>
  BY <1>1 DEF IInv, Phases
<1> QED
  BY <1>1, <1>2, <1>3, <1>4, <1>6, <1>7, ThreadStep DEF Types

\* When every thread has ended, what is covered is stored.
LEMMA StoredAtRest ==
  ASSUME IInv, \A j \in Thread : job[j].at = "done"
  PROVE  /\ ~failed => \A w \in DOMAIN uc : \A c \in 1..uc[w] : <<w, c>> \in DOMAIN edb
         /\ \A j \in Thread : wire[j] = <<>>
<1>1. \A j \in Thread : wire[j] = <<>> /\ job[j].at = "done"
  BY DEF IInv, Phases
<1>2. \A l : ~Sent(l) /\ ~Making(l)
  BY <1>1 DEF Sent, Making
<1> QED
  BY <1>1, <1>2 DEF Covered, IInv, CountsCovered

LEMMA StartInv ==
  ASSUME IInv, NEW do \in {"update", "batch", "search", "verify"}, NEW w \in Keyword,
         NEW lefts, \A j \in Thread : lefts[j] \in Int, Start(do, w, lefts)
  PROVE  IInv'
<1>1. /\ run = Off /\ run' = [do |-> do, w |-> w] /\ uc' = db.uc /\ sc' = db.sc
      /\ job' = [j \in Thread |-> IF lefts[j] = 0 THEN AtRest
                                  ELSE [AtRest EXCEPT !.at = "uc", !.left = lefts[j]]]
      /\ threads' = threads /\ db' = db /\ save' = save /\ hole' = hole
      /\ wire' = wire /\ edb' = edb /\ made' = made /\ failed' = failed
  BY DEF Start
<1>2. run.do = "off"
  BY <1>1 DEF Off
<1>3. \A j \in Thread : job[j].at = "done" /\ wire[j] = <<>>
  BY <1>2 DEF IInv, Phases
<1>4. job' \in [Thread -> Jobs] /\ \A j \in Thread : job'[j].at \in {"done", "uc"} /\ ~job'[j].cut
  BY <1>1 DEF Jobs, AtRest, Zero, Working
<1>5. Types'
  BY <1>1, <1>4 DEF IInv, Types, Count, Sum
<1>6. NoGap'
  BY <1>1 DEF IInv, NoGap
<1>7. CountsCovered'
  BY <1>1 DEF IInv, NoGap, CountsCovered, Covered
<1>8. ReadsCovered'
  BY <1>1, <1>4 DEF ReadsCovered
<1>9. Phases'
  BY <1>1, <1>3, <1>4 DEF Phases
<1>10. Saving'
  BY <1>1, <1>2 DEF IInv, Saving
<1> QED
  BY <1>5, <1>6, <1>7, <1>8, <1>9, <1>10 DEF IInv

LEMMA CommandInv ==
  ASSUME IInv, NEW w \in Keyword, StartUpdate(w) \/ StartSearch(w) \/ StartBatch(w)
  PROVE  IInv'
<1>1. \A j \in Thread : Alone[j] \in Int
  BY DEF Alone
<1>2. ASSUME NEW n \in 1..MaxBatch PROVE \A j \in Thread : Shares(n)[j] \in Int
  <2>1. threads \in Nat \ {0}
    BY DEF IInv, Types
  <2>2. n \in Int /\ n \div threads \in Int /\ n % threads \in Int
    BY <2>1, BoundsAssumption
  <2> QED
    BY <2>2 DEF Shares
<1> QED
  BY <1>1, <1>2, StartInv DEF StartUpdate, StartSearch, StartBatch

\* A step that only changes what the server has, which never gets less.
LEMMA LateInv ==
  ASSUME IInv, threads' = threads, db' = db, run' = run, save' = save, hole' = hole,
         uc' = uc, sc' = sc, job' = job, wire' = wire, made' = made, failed' = failed,
         DOMAIN edb \subseteq DOMAIN edb'
  PROVE  IInv'
<1>1. \A l : Covered(l) => Covered(l)'
  BY DEF Covered, Sent, Making
<1>2. Types'
  BY DEF IInv, Types, Count, Sum
<1>3. NoGap'
  BY DEF IInv, NoGap
<1>4. CountsCovered'
  BY <1>1 DEF IInv, CountsCovered
<1>5. ReadsCovered'
  <2> SUFFICES ASSUME NEW j \in Thread', job'[j].at \in Counted, NEW c \in 1..job'[j].uc
               PROVE  Covered(<<run.w, c>>)'
    BY DEF ReadsCovered
  <2>1. PICK l : l = <<run.w, c>>
    OBVIOUS
  <2>2. Covered(l)
    BY <2>1 DEF IInv, ReadsCovered
  <2>3. Covered(l)' /\ l = <<run'.w, c>>
    BY <1>1, <2>1, <2>2
  <2> QED
    BY <2>3 DEF Covered, Sent, Making
<1>6. Phases' /\ Saving'
  BY DEF IInv, Phases, Saving
<1> QED
  BY <1>2, <1>3, <1>4, <1>5, <1>6 DEF IInv

LEMMA CloseInv ==
  ASSUME IInv, Close
  PROVE  IInv'
<1>1. /\ \A j \in Thread : job[j].at = "done"
      /\ run' = [do |-> "close"] /\ run # Off /\ run.do # "close"
      /\ save' = ({"sc"} \X DOMAIN sc) \cup ({"uc"} \X DOMAIN uc)
      /\ threads' = threads /\ db' = db /\ hole' = hole
      /\ uc' = uc /\ sc' = sc /\ job' = job /\ wire' = wire /\ edb' = edb /\ made' = made /\ failed' = failed
  BY DEF Close
<1>2. ~failed => \A w \in DOMAIN uc : \A c \in 1..uc[w] : <<w, c>> \in DOMAIN edb
  BY <1>1, StoredAtRest
<1>3. save = {} /\ hole = NoHole
  BY <1>1 DEF IInv, Saving
<1>4. Types'
  BY <1>1 DEF IInv, Types, Count, Sum
<1>5. NoGap'
  BY <1>1 DEF IInv, NoGap
<1>6. CountsCovered'
  BY <1>1, <1>2 DEF CountsCovered, Covered
<1>7. ReadsCovered' /\ Phases' /\ Saving'
  BY <1>1, <1>3 DEF IInv, ReadsCovered, Phases, Saving
<1> QED
  BY <1>4, <1>5, <1>6, <1>7 DEF IInv

\* While a command closes its threads have ended.
LEMMA ClosingKeeps ==
  ASSUME IInv, save # {}, threads' = threads, run' = run, uc' = uc, sc' = sc,
         job' = job, wire' = wire, edb' = edb, failed' = failed
  PROVE  CountsCovered' /\ ReadsCovered' /\ Phases'
<1>1. \A j \in Thread : job[j].at = "done"
  BY DEF IInv, Saving, Phases
<1>2. ~failed => \A w \in DOMAIN uc : \A c \in 1..uc[w] : <<w, c>> \in DOMAIN edb
  BY <1>1, StoredAtRest
<1>3. CountsCovered'
  BY <1>2 DEF CountsCovered, Covered
<1>4. ReadsCovered' /\ Phases'
  BY <1>1 DEF IInv, ReadsCovered, Phases
<1> QED
  BY <1>3, <1>4

LEMMA DeleteInv ==
  ASSUME IInv, Delete
  PROVE  IInv'
<1>1. PICK k \in save : db' = [db EXCEPT ![k[1]] = Without(@, k[2])] /\ hole' = k
  BY DEF Delete
<1>2. /\ threads' = threads /\ run' = run /\ save' = save
      /\ uc' = uc /\ sc' = sc /\ job' = job /\ wire' = wire /\ edb' = edb /\ made' = made /\ failed' = failed
  BY DEF Delete
<1>3. k[1] \in {"sc", "uc"}
  BY <1>1 DEF IInv, Saving
<1>4. db \in [uc : {db.uc}, sc : {db.sc}]
  BY DEF IInv, Types
<1>5. /\ db' \in [uc : {db'.uc}, sc : {db'.sc}]
      /\ db'.uc = db.uc \/ db'.uc = Without(db.uc, k[2])
      /\ db'.sc = db.sc \/ db'.sc = Without(db.sc, k[2])
  BY <1>1, <1>3, <1>4
<1>6. Types'
  BY <1>2, <1>5 DEF IInv, Types, Count, Sum, Without
<1>7. NoGap'
  BY <1>2, <1>5 DEF IInv, NoGap, Without
<1>8. CountsCovered' /\ ReadsCovered' /\ Phases'
  BY <1>1, <1>2, ClosingKeeps
<1>9. Saving'
  BY <1>1, <1>2 DEF IInv, Saving
<1> QED
  BY <1>6, <1>7, <1>8, <1>9 DEF IInv

\* The count that is stored is one that every thread has seen through.
LEMMA PutInv ==
  ASSUME IInv, Put
  PROVE  IInv'
<1> DEFINE v == IF hole[1] = "uc" THEN uc[hole[2]] ELSE sc[hole[2]]
<1>1. /\ hole # NoHole /\ db' = [db EXCEPT ![hole[1]] = Set(@, hole[2], v)]
      /\ save' = save \ {hole} /\ hole' = NoHole
      /\ threads' = threads /\ run' = run
      /\ uc' = uc /\ sc' = sc /\ job' = job /\ wire' = wire /\ edb' = edb /\ made' = made /\ failed' = failed
  BY DEF Put
<1>2. hole \in save /\ run.do = "close"
  BY <1>1 DEF IInv, Saving
<1>3. ~failed => \A w \in DOMAIN uc : \A c \in 1..uc[w] : <<w, c>> \in DOMAIN edb
  BY <1>2, StoredAtRest DEF IInv, Phases
<1>4. db \in [uc : {db.uc}, sc : {db.sc}]
  BY DEF IInv, Types
<1>a. CountsCovered' /\ ReadsCovered' /\ Phases'
  BY <1>1, <1>2, ClosingKeeps
<1>b. Saving'
  BY <1>1, <1>2 DEF IInv, Saving
<1>c. Count(uc) /\ Sum(sc) /\ Count(db.uc) /\ Sum(db.sc)
  BY DEF IInv, Types
<1>5. CASE hole[1] = "uc"
  <2> DEFINE w == hole[2]
             f == Set(db.uc, w, uc[w])
  <2>1. w \in DOMAIN uc
    BY <1>2, <1>5 DEF IInv, Saving
  <2>2. /\ db' \in [uc : {db'.uc}, sc : {db'.sc}] /\ db'.sc = db.sc /\ db'.uc = f
    BY <1>1, <1>4, <1>5
  <2>3. /\ DOMAIN f = DOMAIN db.uc \cup {w}
        /\ \A x \in DOMAIN f : f[x] = IF x = w THEN uc[w] ELSE db.uc[x]
    BY DEF Set
  <2> HIDE DEF f, w
  <2>4. Count(f)
    BY <1>c, <2>1, <2>3 DEF Count
  <2>5. Types'
    BY <1>1, <2>2, <2>4 DEF IInv, Types, Count, Sum
  <2>6. NoGap'
    <3> SUFFICES ASSUME ~failed, NEW x \in DOMAIN f, NEW c \in 1..f[x] PROVE <<x, c>> \in DOMAIN edb
      BY <1>1, <2>2 DEF NoGap
    <3>1. CASE x = w
      BY <1>3, <2>1, <2>3, <3>1
    <3>2. CASE x # w
      BY <2>3, <3>2 DEF IInv, NoGap
    <3> QED
      BY <3>1, <3>2
  <2> QED
    BY <1>a, <1>b, <2>5, <2>6 DEF IInv
<1>6. CASE hole[1] = "sc"
  <2> DEFINE w == hole[2]
             f == Set(db.sc, w, sc[w])
  <2>1. w \in DOMAIN sc
    BY <1>2, <1>6 DEF IInv, Saving
  <2>2. /\ db' \in [uc : {db'.uc}, sc : {db'.sc}] /\ db'.uc = db.uc /\ db'.sc = f
    BY <1>1, <1>4, <1>6
  <2>3. /\ DOMAIN f = DOMAIN db.sc \cup {w}
        /\ \A x \in DOMAIN f : f[x] = IF x = w THEN sc[w] ELSE db.sc[x]
    BY DEF Set
  <2> HIDE DEF f, w
  <2>4. Sum(f)
    BY <1>c, <2>1, <2>3 DEF Sum
  <2>5. Types'
    BY <1>1, <2>2, <2>4 DEF IInv, Types, Count, Sum
  <2>6. NoGap'
    BY <1>1, <2>2 DEF IInv, NoGap
  <2> QED
    BY <1>a, <1>b, <2>5, <2>6 DEF IInv
<1> QED
  BY <1>2, <1>5, <1>6 DEF IInv, Saving

\* The process is gone: its counts are forgotten, the stored ones are left.
LEMMA GoneInv ==
  ASSUME IInv, run' = Off, uc' = <<>>, sc' = <<>>, save' = {}, hole' = NoHole,
         threads' = threads, db' = db, edb' = edb, made' = made, failed' = failed,
         job' \in [Thread -> Jobs], wire' \in [Thread -> Seq(Message)],
         \A j \in Thread : job'[j].at = "done" /\ wire'[j] = <<>> /\ (job'[j].cut => failed)
  PROVE  IInv'
<1>1. Types'
  BY DEF IInv, Types, Count, Sum
<1>2. NoGap'
  BY DEF IInv, NoGap
<1>3. CountsCovered' /\ ReadsCovered'
  BY DEF CountsCovered, ReadsCovered
<1>4. Phases' /\ Saving'
  BY DEF Phases, Saving, Off
<1> QED
  BY <1>1, <1>2, <1>3, <1>4 DEF IInv

LEMMA ExitInv ==
  ASSUME IInv, Exit
  PROVE  IInv'
<1>1. /\ run.do = "close" /\ save = {} /\ run' = Off /\ uc' = <<>> /\ sc' = <<>>
      /\ threads' = threads /\ db' = db /\ job' = job /\ save' = save /\ hole' = hole
      /\ wire' = wire /\ edb' = edb /\ made' = made /\ failed' = failed
  BY DEF Exit
<1>2. hole = NoHole
  BY <1>1 DEF IInv, Saving
<1>3. \A j \in Thread : job[j].at = "done" /\ wire[j] = <<>> /\ (job[j].cut => failed)
  BY <1>1 DEF IInv, Phases
<1>4. job \in [Thread -> Jobs] /\ wire \in [Thread -> Seq(Message)]
  BY DEF IInv, Types
<1> QED
  BY <1>1, <1>2, <1>3, <1>4, GoneInv

LEMMA KillInv ==
  ASSUME IInv, Kill
  PROVE  IInv'
<1>1. /\ run' = Off /\ uc' = <<>> /\ sc' = <<>> /\ save' = {} /\ hole' = NoHole
      /\ job' = [j \in Thread |-> AtRest] /\ wire' = [j \in Thread |-> <<>>]
      /\ threads' = threads /\ db' = db /\ edb' = edb /\ made' = made /\ failed' = failed
  BY DEF Kill
<1>2. AtRest \in Jobs /\ AtRest.at = "done" /\ ~AtRest.cut
  BY DEF AtRest, Jobs, Zero
<1>3. job' \in [Thread -> Jobs] /\ wire' \in [Thread -> Seq(Message)]
  BY <1>1, <1>2
<1>4. \A j \in Thread : job'[j].at = "done" /\ wire'[j] = <<>> /\ (job'[j].cut => failed)
  BY <1>1, <1>2
<1> QED
  BY <1>1, <1>3, <1>4, GoneInv

\* Of a label nothing is asked any more.
LEMMA BreakInv ==
  ASSUME IInv, NEW j \in Thread, Break(j)
  PROVE  IInv'
<1>1. /\ job[j].at # "done" /\ run.do \in {"update", "batch"}
      /\ job' = [job EXCEPT ![j].cut = TRUE] /\ wire' = [wire EXCEPT ![j] = <<>>]
      /\ threads' = threads /\ db' = db /\ run' = run /\ save' = save /\ hole' = hole
      /\ uc' = uc /\ sc' = sc /\ edb' = edb /\ made' = made /\ failed' = TRUE
  BY DEF Break
<1>2. job \in [Thread -> Jobs] /\ job[j] \in Jobs /\ wire \in [Thread -> Seq(Message)]
  BY DEF IInv, Types
<1>3. /\ job' \in [Thread -> Jobs] /\ job'[j].at = job[j].at
      /\ \A i \in Thread \ {j} : job'[i] = job[i]
  BY <1>1, <1>2 DEF Jobs
<1>4. /\ wire' \in [Thread -> Seq(Message)] /\ wire'[j] = <<>>
      /\ \A i \in Thread \ {j} : wire'[i] = wire[i]
  BY <1>1, <1>2
<1>5. NoGap' /\ CountsCovered' /\ ReadsCovered'
  BY <1>1 DEF NoGap, CountsCovered, ReadsCovered, Covered
<1>6. Types'
  BY <1>1, <1>3, <1>4 DEF IInv, Types, Count, Sum
<1>7. Phases'
  BY <1>1, <1>3, <1>4 DEF IInv, Phases
<1>8. Saving'
  BY <1>1 DEF IInv, Saving
<1> QED
  BY <1>5, <1>6, <1>7, <1>8 DEF IInv

LEMMA StepInv ==
  ASSUME IInv, NEW j \in Thread, Step(j) \/ Break(j) \/ LateDeliver(j) \/ LateDrop(j)
  PROVE  IInv'
<1>1. CASE LateDeliver(j)
  BY <1>1, LateInv DEF LateDeliver, Store, Set
<1>2. CASE LateDrop(j)
  BY <1>2, LateInv DEF LateDrop
<1>3. CASE Step(j)
  BY <1>3, ReadCountInv, ZeroCountInv, ReadSumInv, ZeroSumInv, SetCountInv, SetSumInv,
     DeliverInv, FinishInv, SearchInv, VerifyInv DEF Step
<1>4. CASE Break(j)
  BY <1>4, BreakInv
<1> QED
  BY <1>1, <1>2, <1>3, <1>4

LEMMA NextInv == IInv /\ [Next]_vars => IInv'
<1> SUFFICES ASSUME IInv, [Next]_vars PROVE IInv'
  OBVIOUS
<1>1. CASE UNCHANGED vars
  BY <1>1, LateInv DEF vars
<1>2. CASE Next
  BY <1>2, CommandInv, StepInv, CloseInv, DeleteInv, PutInv, ExitInv, KillInv DEF Next
<1> QED
  BY <1>1, <1>2

-----------------------------------------------------------------------------
\* Whatever threads race for the counts, and whenever clients are killed, a stored
\* count has an entry under every label up to it, unless a call or a stream of a
\* living client failed.
THEOREM StoredCountsHaveNoGap == Spec => []NoGap
<1>1. IInv => NoGap
  BY DEF IInv
<1> QED
  BY InitInv, NextInv, <1>1, PTL DEF Spec

-----------------------------------------------------------------------------
(* Type correctness.  The counts stay within the bound on all updates, also *)
(* where threads race for them: a thread that has set a count and not yet   *)
(* sent the entry is one update ahead of made, and one of those its command *)
(* may still make.                                                          *)

\* What the threads of the command may still make, a pair for each update.
Pairs == {p \in Thread \X (1..MaxBatch) :
            /\ run.do \in {"update", "batch"}
            /\ job[p[1]].at # "done" /\ p[2] <= job[p[1]].left}
\* The updates that are counted and not yet made.
Ahead == {p \in Pairs : job[p[1]].at = "setsc" /\ p[2] = 1}
\* How far a count may have got that thread i has not stepped itself.
Room(i) == made + Cardinality(Ahead \ {<<i, 1>>})

Budget == made + Cardinality(Pairs) <= MaxMade
Bounded == /\ \A w \in DOMAIN db.uc : db.uc[w] <= made
           /\ \A w \in DOMAIN uc : uc[w] <= Room(0)
           /\ \A j \in Thread : job[j].uc <= Room(j)
Lefts == \A j \in Thread :
           /\ job[j].left \in 0..MaxBatch
           /\ run.do \in {"update", "batch"} /\ job[j].at \notin {"done", "finish"}
                => job[j].left # 0
Narrow ==
  /\ threads \in 1..MaxThreads /\ faults \in 0..MaxFaults
  /\ Sums(sc) /\ Sums(db.sc)
  /\ \A j \in Thread : job[j].sc = Broken \/ job[j].sc \subseteq Inds
  /\ wire \in [Thread -> Messages] /\ late \in [Thread -> Messages]
  /\ DOMAIN edb \subseteq Keyword \X (1..MaxMade) /\ \A l \in DOMAIN edb : edb[l] \in Entry
  /\ answer \subseteq [known : {TRUE}, ind : Inds] \cup {[known |-> FALSE]}

TInv == Budget /\ Bounded /\ Lefts /\ Narrow

LEMMA PairsFinite ==
  ASSUME IInv, NEW S \in SUBSET Pairs
  PROVE  IsFiniteSet(S) /\ Cardinality(S) \in Nat /\ Cardinality(S) <= Cardinality(Pairs)
<1>1. threads \in Int /\ MaxBatch \in Int
  BY BoundsAssumption DEF IInv, Types
<1>2. IsFiniteSet(1..threads) /\ IsFiniteSet(1..MaxBatch)
  BY <1>1, FS_Interval
<1>3. IsFiniteSet(Thread \X (1..MaxBatch))
  BY <1>2, FS_Product
<1>4. Pairs \in SUBSET (Thread \X (1..MaxBatch))
  BY DEF Pairs
<1>5. IsFiniteSet(Pairs)
  BY <1>3, <1>4, FS_Subset
<1> QED
  BY <1>5, FS_Subset, FS_CardinalityType

LEMMA RoomType ==
  ASSUME IInv, NEW i
  PROVE  Room(i) \in Nat
<1>1. Ahead \ {<<i, 1>>} \in SUBSET Pairs
  BY DEF Ahead
<1> QED
  BY <1>1, PairsFinite DEF Room, IInv, Types

LEMMA RoomAtRest ==
  ASSUME IInv, \A j \in Thread : job[j].at # "setsc"
  PROVE  Ahead = {} /\ \A i : Room(i) = made
<1>1. Ahead = {}
  BY DEF Ahead, Pairs
<1>2. \A i : Ahead \ {<<i, 1>>} = {} /\ made \in Nat
  BY <1>1 DEF IInv, Types
<1> QED
  BY <1>1, <1>2, FS_EmptySet DEF Room

\* Every count, stepped or read, is within the bound.
LEMMA CountsFit ==
  ASSUME IInv, TInv
  PROVE  /\ made \in 0..MaxMade
         /\ \A i : Room(i) <= MaxMade
         /\ \A j \in Thread : job[j].at = "setsc" => Room(j) + 1 <= MaxMade /\ made + 1 <= MaxMade
<1>1. made \in Nat /\ MaxMade \in Nat /\ made + Cardinality(Pairs) <= MaxMade
  BY BoundsAssumption DEF IInv, Types, TInv, Budget
<1>2. Cardinality(Pairs) \in Nat
  BY PairsFinite
<1>3. made \in 0..MaxMade
  BY <1>1, <1>2
<1>4. ASSUME NEW i PROVE Room(i) <= MaxMade
  <2>1. Ahead \ {<<i, 1>>} \in SUBSET Pairs
    BY DEF Ahead
  <2>2. /\ Cardinality(Ahead \ {<<i, 1>>}) \in Nat
        /\ Cardinality(Ahead \ {<<i, 1>>}) <= Cardinality(Pairs)
    BY <2>1, PairsFinite
  <2> QED
    BY <1>1, <1>2, <2>2 DEF Room
<1>5. ASSUME NEW j \in Thread, job[j].at = "setsc"
      PROVE  Room(j) + 1 <= MaxMade /\ made + 1 <= MaxMade
  <2>1. run.do \in {"update", "batch"}
    <3>1. run.do \notin {"search", "verify"} /\ run.do \in {"update", "batch", "search", "verify"}
      BY <1>5, BusyRun DEF IInv, Phases
    <3> QED
      BY <3>1
  <2>2. job[j].left \in 0..MaxBatch /\ job[j].left # 0 /\ MaxBatch \in Nat \ {0}
    BY <1>5, <2>1, BoundsAssumption DEF TInv, Lefts
  <2>3. <<j, 1>> \in Ahead
    BY <1>5, <2>1, <2>2 DEF Ahead, Pairs
  <2>4. Ahead \in SUBSET Pairs
    BY DEF Ahead
  <2>5. /\ IsFiniteSet(Ahead) /\ Cardinality(Ahead) \in Nat
        /\ Cardinality(Ahead) <= Cardinality(Pairs)
    BY <2>4, PairsFinite
  <2>6. Cardinality(Ahead \ {<<j, 1>>}) = Cardinality(Ahead) - 1
    BY <2>3, <2>5, FS_RemoveElement
  <2>7. Cardinality(Ahead) # 0
    BY <2>3, <2>5, FS_EmptySet
  <2>8. Room(j) + 1 = made + Cardinality(Ahead)
    BY <1>1, <2>5, <2>6 DEF Room
  <2> QED
    BY <1>1, <1>2, <2>5, <2>7, <2>8
<1> QED
  BY <1>3, <1>4, <1>5

LEMMA InitTypes == Init => TInv
<1> SUFFICES ASSUME Init PROVE TInv
  OBVIOUS
<1>1. IInv
  BY InitInv
<1> USE DEF Init
<1>2. \A j \in Thread : job[j] = AtRest
  OBVIOUS
<1>3. Ahead = {} /\ \A i : Room(i) = made
  BY <1>1, <1>2, RoomAtRest DEF AtRest
<1>4. Pairs = {}
  BY <1>2 DEF Pairs, AtRest
<1>5. Budget
  BY <1>4, FS_EmptySet, BoundsAssumption DEF Budget
<1>6. Bounded
  BY <1>2, <1>3 DEF Bounded, AtRest
<1>7. Lefts
  BY <1>2, BoundsAssumption DEF Lefts, AtRest
<1>8. Narrow
  BY <1>2, BoundsAssumption DEF Narrow, AtRest, Sums, Messages, Zero
<1> QED
  BY <1>5, <1>6, <1>7, <1>8 DEF TInv

\* A step of a thread that is not between its two writes makes nothing and leaves
\* the others the room they had.
LEMMA RoomKept ==
  ASSUME IInv, NEW j \in Thread, threads' = threads, run' = run, made' = made,
         job[j].at # "done", job[j].at # "setsc", job'[j].at # "setsc",
         job'[j].left = job[j].left, \A i \in Thread \ {j} : job'[i] = job[i]
  PROVE  Pairs' \in SUBSET Pairs /\ \A i : Room(i)' = Room(i)
<1>1. Thread' = Thread
  OBVIOUS
<1>2. Pairs' \in SUBSET Pairs
  BY <1>1 DEF Pairs
<1>3. Ahead' = Ahead
  BY <1>1 DEF Ahead, Pairs
<1> QED
  BY <1>2, <1>3 DEF Room

LEMMA BudgetKept ==
  ASSUME IInv, TInv, Pairs' \in SUBSET Pairs, made' = made
  PROVE  Budget'
<1>1. Cardinality(Pairs') \in Nat /\ Cardinality(Pairs') <= Cardinality(Pairs)
  BY PairsFinite
<1>2. Cardinality(Pairs) \in Nat /\ made \in Nat /\ MaxMade \in Nat
  BY PairsFinite, BoundsAssumption DEF IInv, Types
<1> QED
  BY <1>1, <1>2 DEF TInv, Budget

LEMMA NarrowThread ==
  ASSUME TInv, NEW j \in Thread, threads' = threads, faults' = faults, db' = db,
         \A i \in Thread \ {j} : job'[i] = job[i],
         Sums(sc'), job'[j].sc = Broken \/ job'[j].sc \subseteq Inds,
         wire' \in [Thread -> Messages], late' = late,
         DOMAIN edb' \subseteq Keyword \X (1..MaxMade), \A l \in DOMAIN edb' : edb'[l] \in Entry,
         answer' \subseteq [known : {TRUE}, ind : Inds] \cup {[known |-> FALSE]}
  PROVE  Narrow'
<1>1. \A i \in Thread : job'[i].sc = Broken \/ job'[i].sc \subseteq Inds
  BY DEF TInv, Narrow
<1> QED
  BY <1>1 DEF TInv, Narrow, Sums

LEMMA TypesThread ==
  ASSUME IInv, TInv, NEW j \in Thread, job[j].at \notin {"done", "setsc"},
         threads' = threads, db' = db, run' = run, late' = late, faults' = faults,
         wire' = wire, edb' = edb, made' = made,
         job'[j].at # "setsc", job'[j].left = job[j].left,
         \A i \in Thread \ {j} : job'[i] = job[i],
         job'[j].at \in {"done", "finish"} \/ job[j].at # "finish",
         \A w \in DOMAIN uc' : uc'[w] <= Room(0),
         job'[j].uc <= Room(j),
         Sums(sc'), job'[j].sc = Broken \/ job'[j].sc \subseteq Inds,
         answer' \subseteq [known : {TRUE}, ind : Inds] \cup {[known |-> FALSE]}
  PROVE  TInv'
<1>1. Pairs' \in SUBSET Pairs /\ \A i : Room(i)' = Room(i)
  BY RoomKept
<1>2. Budget'
  BY <1>1, BudgetKept
<1>3. Bounded'
  <2>1. \A i \in Thread : job'[i].uc <= Room(i)
    BY DEF TInv, Bounded
  <2> QED
    BY <1>1, <2>1 DEF TInv, Bounded
<1>4. Lefts'
  BY DEF TInv, Lefts
<1>5. Narrow'
  <2>1. wire' \in [Thread -> Messages] /\ DOMAIN edb' \subseteq Keyword \X (1..MaxMade)
    BY DEF TInv, Narrow
  <2>2. \A l \in DOMAIN edb' : edb'[l] \in Entry
    BY DEF TInv, Narrow
  <2> QED
    BY <2>1, <2>2, NarrowThread
<1> QED
  BY <1>2, <1>3, <1>4, <1>5 DEF TInv

\* What the step of a thread that goes on to p leaves it.
LEMMA TypesGoto ==
  ASSUME IInv, TInv, NEW j \in Thread, NEW p, Goto(j, p)
  PROVE  /\ job'[j].at = p /\ job'[j].left = job[j].left
         /\ job'[j].uc = job[j].uc /\ job[j].uc <= Room(j)
         /\ job'[j].sc = job[j].sc
         /\ job'[j].sc = Broken \/ job'[j].sc \subseteq Inds
         /\ \A i \in Thread \ {j} : job'[i] = job[i]
<1>1. job \in [Thread -> Jobs] /\ job[j] \in Jobs
  BY DEF IInv, Types
<1>2. /\ job'[j].at = p /\ job'[j].left = job[j].left
      /\ job'[j].uc = job[j].uc /\ job'[j].sc = job[j].sc
      /\ \A i \in Thread \ {j} : job'[i] = job[i]
  BY <1>1 DEF Goto, Jobs
<1> QED
  BY <1>2 DEF TInv, Bounded, Narrow

LEMMA SetSums ==
  ASSUME Sums(sc), NEW w \in Keyword, NEW v, v = Broken \/ v \subseteq Inds
  PROVE  Sums(Set(sc, w, v))
BY DEF Sums, Set

LEMMA TypesReadCount ==
  ASSUME IInv, TInv, NEW j \in Thread, ReadCount(j)
  PROVE  TInv'
<1> DEFINE p == IF run.w \in DOMAIN uc THEN "sc" ELSE "uc0"
           r == IF run.w \in DOMAIN uc THEN uc[run.w] ELSE 0
<1>1. /\ job[j].at = "uc" /\ job' = [job EXCEPT ![j].at = p, ![j].uc = r]
      /\ threads' = threads /\ db' = db /\ run' = run /\ late' = late /\ faults' = faults
      /\ answer' = answer /\ uc' = uc /\ sc' = sc /\ wire' = wire /\ edb' = edb /\ made' = made
  BY DEF ReadCount, Unsaved
<1>2. job \in [Thread -> Jobs] /\ job[j] \in Jobs
  BY DEF IInv, Types
<1>3. /\ job'[j].at = p /\ job'[j].uc = r /\ job'[j].left = job[j].left
      /\ job'[j].sc = job[j].sc /\ \A i \in Thread \ {j} : job'[i] = job[i]
  BY <1>1, <1>2 DEF Jobs
<1>4. r <= Room(j)
  <2>1. Ahead \ {<<j, 1>>} = Ahead \ {<<0, 1>>}
    BY <1>1 DEF Ahead, Pairs
  <2>2. Room(j) = Room(0)
    BY <2>1 DEF Room
  <2> QED
    BY <2>2, RoomType DEF TInv, Bounded
<1>5. /\ \A w \in DOMAIN uc' : uc'[w] <= Room(0)
      /\ Sums(sc') /\ (job'[j].sc = Broken \/ job'[j].sc \subseteq Inds)
      /\ answer' \subseteq [known : {TRUE}, ind : Inds] \cup {[known |-> FALSE]}
  BY <1>1, <1>3 DEF TInv, Bounded, Narrow
<1>6. p \notin {"setsc", "done", "finish"}
  OBVIOUS
<1> HIDE DEF p, r
<1> QED
  BY <1>1, <1>3, <1>4, <1>5, <1>6, TypesThread

LEMMA TypesZeroCount ==
  ASSUME IInv, TInv, NEW j \in Thread, ZeroCount(j)
  PROVE  TInv'
<1>1. /\ job[j].at = "uc0" /\ Goto(j, "sc") /\ uc' = Set(uc, run.w, 0)
      /\ threads' = threads /\ db' = db /\ run' = run /\ late' = late /\ faults' = faults
      /\ answer' = answer /\ sc' = sc /\ wire' = wire /\ edb' = edb /\ made' = made
  BY DEF ZeroCount, Unsaved
<1>2. \A w \in DOMAIN uc' : uc'[w] <= Room(0)
  <2>1. \A w \in DOMAIN uc' : uc'[w] = 0 \/ (w \in DOMAIN uc /\ uc'[w] = uc[w])
    BY <1>1 DEF Set
  <2> QED
    BY <2>1, RoomType DEF TInv, Bounded
<1>3. Sums(sc') /\ answer' \subseteq [known : {TRUE}, ind : Inds] \cup {[known |-> FALSE]}
  BY <1>1 DEF TInv, Narrow
<1>g. /\ job'[j].at = "sc" /\ job'[j].left = job[j].left /\ job'[j].uc <= Room(j)
      /\ job'[j].sc = Broken \/ job'[j].sc \subseteq Inds
      /\ \A i \in Thread \ {j} : job'[i] = job[i]
  BY <1>1, TypesGoto
<1> QED
  BY <1>1, <1>2, <1>3, <1>g, TypesThread

LEMMA TypesReadSum ==
  ASSUME IInv, TInv, NEW j \in Thread, ReadSum(j)
  PROVE  TInv'
<1> DEFINE p == IF run.w \in DOMAIN sc THEN "setuc" ELSE "sc0"
           r == IF run.w \in DOMAIN sc THEN sc[run.w] ELSE Zero
<1>1. /\ job[j].at = "sc" /\ job' = [job EXCEPT ![j].at = p, ![j].sc = r]
      /\ threads' = threads /\ db' = db /\ run' = run /\ late' = late /\ faults' = faults
      /\ answer' = answer /\ uc' = uc /\ sc' = sc /\ wire' = wire /\ edb' = edb /\ made' = made
  BY DEF ReadSum, Unsaved
<1>2. job \in [Thread -> Jobs] /\ job[j] \in Jobs
  BY DEF IInv, Types
<1>3. /\ job'[j].at = p /\ job'[j].sc = r /\ job'[j].left = job[j].left
      /\ job'[j].uc = job[j].uc /\ \A i \in Thread \ {j} : job'[i] = job[i]
  BY <1>1, <1>2 DEF Jobs
<1>4. r = Broken \/ r \subseteq Inds
  BY DEF TInv, Narrow, Sums, Zero
<1>5. /\ \A w \in DOMAIN uc' : uc'[w] <= Room(0)
      /\ Sums(sc') /\ job'[j].uc <= Room(j)
      /\ answer' \subseteq [known : {TRUE}, ind : Inds] \cup {[known |-> FALSE]}
  BY <1>1, <1>3 DEF TInv, Bounded, Narrow
<1>6. p \notin {"setsc", "done", "finish"}
  OBVIOUS
<1> HIDE DEF p, r
<1> QED
  BY <1>1, <1>3, <1>4, <1>5, <1>6, TypesThread

LEMMA TypesZeroSum ==
  ASSUME IInv, TInv, NEW j \in Thread, ZeroSum(j)
  PROVE  TInv'
<1>1. /\ job[j].at = "sc0" /\ Goto(j, "setuc") /\ sc' = Set(sc, run.w, Zero)
      /\ threads' = threads /\ db' = db /\ run' = run /\ late' = late /\ faults' = faults
      /\ answer' = answer /\ uc' = uc /\ wire' = wire /\ edb' = edb /\ made' = made
  BY DEF ZeroSum, Unsaved
<1>2. run.w \in Keyword /\ Sums(sc) /\ Zero \subseteq Inds
  BY <1>1, BusyRun DEF TInv, Narrow, Zero
<1>3. Sums(sc')
  BY <1>1, <1>2, SetSums
<1>4. /\ \A w \in DOMAIN uc' : uc'[w] <= Room(0)
      /\ answer' \subseteq [known : {TRUE}, ind : Inds] \cup {[known |-> FALSE]}
  BY <1>1 DEF TInv, Bounded, Narrow
<1>g. /\ job'[j].at = "setuc" /\ job'[j].left = job[j].left /\ job'[j].uc <= Room(j)
      /\ job'[j].sc = Broken \/ job'[j].sc \subseteq Inds
      /\ \A i \in Thread \ {j} : job'[i] = job[i]
  BY <1>1, TypesGoto
<1> QED
  BY <1>1, <1>3, <1>4, <1>g, TypesThread

LEMMA TypesVerify ==
  ASSUME IInv, TInv, NEW j \in Thread, Verify(j)
  PROVE  TInv'
<1>1. /\ job[j].at = "verify" /\ Goto(j, "done")
      /\ sc' = IF run.w \in DOMAIN sc THEN sc ELSE Set(sc, run.w, Zero)
      /\ threads' = threads /\ db' = db /\ run' = run /\ late' = late /\ faults' = faults
      /\ answer' = answer /\ uc' = uc /\ wire' = wire /\ edb' = edb /\ made' = made
  BY DEF Verify, Unsaved
<1>2. run.w \in Keyword /\ Sums(sc) /\ Zero \subseteq Inds
  BY <1>1, BusyRun DEF TInv, Narrow, Zero
<1>3. Sums(sc')
  BY <1>1, <1>2, SetSums
<1>4. /\ \A w \in DOMAIN uc' : uc'[w] <= Room(0)
      /\ answer' \subseteq [known : {TRUE}, ind : Inds] \cup {[known |-> FALSE]}
  BY <1>1 DEF TInv, Bounded, Narrow
<1>g. /\ job'[j].at = "done" /\ job'[j].left = job[j].left /\ job'[j].uc <= Room(j)
      /\ job'[j].sc = Broken \/ job'[j].sc \subseteq Inds
      /\ \A i \in Thread \ {j} : job'[i] = job[i]
  BY <1>1, TypesGoto
<1> QED
  BY <1>1, <1>3, <1>4, <1>g, TypesThread

LEMMA TypesFinish ==
  ASSUME IInv, TInv, NEW j \in Thread, Finish(j)
  PROVE  TInv'
<1>1. /\ job[j].at = "finish" /\ Goto(j, "done")
      /\ threads' = threads /\ db' = db /\ run' = run /\ late' = late /\ faults' = faults
      /\ answer' = answer /\ uc' = uc /\ sc' = sc /\ wire' = wire /\ edb' = edb /\ made' = made
  BY DEF Finish, Unsaved
<1>2. /\ \A w \in DOMAIN uc' : uc'[w] <= Room(0)
      /\ Sums(sc') /\ answer' \subseteq [known : {TRUE}, ind : Inds] \cup {[known |-> FALSE]}
  BY <1>1 DEF TInv, Bounded, Narrow
<1>g. /\ job'[j].at = "done" /\ job'[j].left = job[j].left /\ job'[j].uc <= Room(j)
      /\ job'[j].sc = Broken \/ job'[j].sc \subseteq Inds
      /\ \A i \in Thread \ {j} : job'[i] = job[i]
  BY <1>1, TypesGoto
<1> QED
  BY <1>1, <1>2, <1>g, TypesThread

LEMMA TypesSearch ==
  ASSUME IInv, TInv, NEW j \in Thread, Search(j)
  PROVE  TInv'
<1> DEFINE p == IF run.do = "verify" THEN "verify" ELSE "done"
<1>1. /\ job[j].at = "sc" /\ Goto(j, p)
      /\ answer' = {Unmask(edb[l]) : l \in DOMAIN edb \cap ({run.w} \X (1..job[j].uc))}
      /\ threads' = threads /\ db' = db /\ run' = run /\ late' = late /\ faults' = faults
      /\ uc' = uc /\ sc' = sc /\ wire' = wire /\ edb' = edb /\ made' = made
  BY DEF Search
<1>2. \A l \in DOMAIN edb : edb[l] \in Entry
  BY DEF TInv, Narrow
<1>3. answer' \subseteq [known : {TRUE}, ind : Inds] \cup {[known |-> FALSE]}
  <2> SUFFICES ASSUME NEW l \in DOMAIN edb
               PROVE  Unmask(edb[l]) \in [known : {TRUE}, ind : Inds] \cup {[known |-> FALSE]}
    BY <1>1
  <2>1. edb[l].ind \in Inds
    BY <1>2 DEF Entry
  <2>2. [known |-> TRUE, ind |-> edb[l].ind] \in [known : {TRUE}, ind : Inds]
    BY <2>1
  <2> QED
    BY <2>2 DEF Unmask
<1>4. (\A w \in DOMAIN uc' : uc'[w] <= Room(0)) /\ Sums(sc')
  BY <1>1 DEF TInv, Bounded, Narrow
<1>5. p \in {"verify", "done"}
  OBVIOUS
<1> HIDE DEF p
<1>g. /\ job'[j].at = p /\ job'[j].left = job[j].left /\ job'[j].uc <= Room(j)
      /\ job'[j].sc = Broken \/ job'[j].sc \subseteq Inds
      /\ \A i \in Thread \ {j} : job'[i] = job[i]
  BY <1>1, TypesGoto
<1> QED
  BY <1>1, <1>3, <1>4, <1>5, <1>g, TypesThread

\* A thread that sends is that of a generator, with an update left to make.
LEMMA Making1 ==
  ASSUME IInv, TInv, NEW j \in Thread, job[j].at \in {"setuc", "setsc"}
  PROVE  /\ run.do \in {"update", "batch"} /\ run.w \in Keyword
         /\ job[j].left \in 1..MaxBatch /\ MaxBatch \in Nat \ {0}
<1>1. /\ run.do \in {"update", "batch", "search", "verify"} /\ run.w \in Keyword
      /\ run.do \notin {"search", "verify"}
  BY BusyRun DEF IInv, Phases
<1>2. run.do \in {"update", "batch"}
  BY <1>1
<1>3. job[j].left \in 0..MaxBatch /\ job[j].left # 0
  BY <1>2 DEF TInv, Lefts
<1> QED
  BY <1>1, <1>2, <1>3, BoundsAssumption

\* The thread that steps the count takes the room for itself.
LEMMA TypesSetCount ==
  ASSUME IInv, TInv, NEW j \in Thread, SetCount(j)
  PROVE  TInv'
<1>1. /\ job[j].at = "setuc" /\ Goto(j, "setsc") /\ uc' = Set(uc, run.w, job[j].uc + 1)
      /\ threads' = threads /\ db' = db /\ run' = run /\ late' = late /\ faults' = faults
      /\ answer' = answer /\ sc' = sc /\ wire' = wire /\ edb' = edb /\ made' = made
  BY DEF SetCount, Unsaved
<1>2. /\ job'[j].at = "setsc" /\ job'[j].left = job[j].left
      /\ job'[j].uc = job[j].uc /\ job[j].uc <= Room(j)
      /\ job'[j].sc = Broken \/ job'[j].sc \subseteq Inds
      /\ \A i \in Thread \ {j} : job'[i] = job[i]
  BY <1>1, TypesGoto
<1>3. run.do \in {"update", "batch"} /\ job[j].left \in 1..MaxBatch /\ MaxBatch \in Nat \ {0}
  BY <1>1, Making1
<1>4. Pairs' = Pairs
  BY <1>1, <1>2 DEF Pairs
<1>5. Ahead' = Ahead \cup {<<j, 1>>} /\ <<j, 1>> \notin Ahead
  <2>1. <<j, 1>> \in Pairs
    BY <1>1, <1>3 DEF Pairs
  <2> QED
    BY <1>1, <1>2, <1>4, <2>1 DEF Ahead, Pairs
<1>6. made \in Nat /\ job[j].uc \in Nat
  BY DEF IInv, Types, Jobs
<1>a. ASSUME NEW S \in SUBSET Ahead PROVE IsFiniteSet(S) /\ Cardinality(S) \in Nat
  BY PairsFinite DEF Ahead
<1>b. ASSUME NEW i PROVE Room(i) <= Room(i)'
  <2>1. /\ IsFiniteSet(Ahead \ {<<i, 1>>}) /\ Cardinality(Ahead \ {<<i, 1>>}) \in Nat
    BY <1>a
  <2>2. \/ Ahead' \ {<<i, 1>>} = Ahead \ {<<i, 1>>}
        \/ Ahead' \ {<<i, 1>>} = (Ahead \ {<<i, 1>>}) \cup {<<j, 1>>}
    BY <1>5
  <2>3. \/ Cardinality(Ahead' \ {<<i, 1>>}) = Cardinality(Ahead \ {<<i, 1>>})
        \/ Cardinality(Ahead' \ {<<i, 1>>}) = Cardinality(Ahead \ {<<i, 1>>}) + 1
    BY <2>1, <2>2, FS_AddElement
  <2> QED
    BY <1>1, <1>6, <2>1, <2>3 DEF Room
<1>c. Room(0)' = Room(j) + 1
  <2>1. Ahead \ {<<j, 1>>} = Ahead /\ Ahead' \ {<<0, 1>>} = Ahead \cup {<<j, 1>>}
    BY <1>5 DEF Ahead, Pairs
  <2>2. IsFiniteSet(Ahead) /\ Cardinality(Ahead) \in Nat
    BY <1>a
  <2>3. Cardinality(Ahead \cup {<<j, 1>>}) = Cardinality(Ahead) + 1
    BY <1>5, <2>2, FS_AddElement
  <2>4. Room(j) = made + Cardinality(Ahead) /\ Room(0)' = made + Cardinality(Ahead \cup {<<j, 1>>})
    BY <1>1, <2>1 DEF Room
  <2> QED
    BY <1>6, <2>2, <2>3, <2>4
<1>7. Budget'
  BY <1>1, <1>4, BudgetKept
<1>8. Bounded'
  <2>1. \A w \in DOMAIN uc' : uc'[w] = job[j].uc + 1 \/ (w \in DOMAIN uc /\ uc'[w] = uc[w])
    BY <1>1 DEF Set
  <2>2. \A w \in DOMAIN uc' : uc'[w] <= Room(0)'
    <3>1. \A w \in DOMAIN uc : uc[w] <= Room(0) /\ uc[w] \in Nat
      BY DEF TInv, Bounded, IInv, Types, Count
    <3>2. Room(0) \in Nat /\ Room(0) <= Room(0)' /\ Room(j) \in Nat
      BY <1>b, RoomType
    <3>3. \A w \in DOMAIN uc : uc[w] <= Room(0)'
      BY <1>c, <3>1, <3>2
    <3>4. job[j].uc + 1 <= Room(0)'
      BY <1>2, <1>6, <1>c, <3>2
    <3> QED
      BY <2>1, <3>3, <3>4
  <2>3. ASSUME NEW i \in Thread PROVE job'[i].uc <= Room(i)'
    <3>1. job'[i].uc = job[i].uc /\ job[i].uc \in Nat /\ job[i].uc <= Room(i)
      BY <1>2 DEF TInv, Bounded, IInv, Types, Jobs
    <3>2. Room(i) \in Nat /\ Room(i) <= Room(i)'
      BY <1>b, RoomType
    <3>3. Room(i)' \in Int
      <4>1. \E n \in Nat : n = Cardinality(Ahead' \ {<<i, 1>>})
        <5>1. Ahead' \ {<<i, 1>>} \in SUBSET Pairs
          BY <1>4 DEF Ahead
        <5> QED
          BY <5>1, PairsFinite
      <4> QED
        BY <1>1, <1>6, <4>1 DEF Room
    <3> QED
      BY <3>1, <3>2, <3>3
  <2> QED
    BY <1>1, <2>2, <2>3 DEF TInv, Bounded
<1>9. Lefts'
  BY <1>1, <1>2, <1>3 DEF TInv, Lefts
<1>10. Narrow'
  <2>1. Sums(sc') /\ wire' \in [Thread -> Messages] /\ DOMAIN edb' \subseteq Keyword \X (1..MaxMade)
    BY <1>1 DEF TInv, Narrow
  <2>2. \A l \in DOMAIN edb' : edb'[l] \in Entry
    BY <1>1 DEF TInv, Narrow
  <2>3. answer' \subseteq [known : {TRUE}, ind : Inds] \cup {[known |-> FALSE]}
    BY <1>1 DEF TInv, Narrow
  <2> QED
    BY <1>1, <1>2, <2>1, <2>2, <2>3, NarrowThread
<1> QED
  BY <1>7, <1>8, <1>9, <1>10 DEF TInv

\* The update it was ahead by is made, and is one less to make.
LEMMA TypesSetSum ==
  ASSUME IInv, TInv, NEW j \in Thread, SetSum(j)
  PROVE  TInv'
<1> DEFINE ind == IF run.do = "update" THEN Short ELSE made + 1
           q == Request(j, ind)
           p == IF job[j].left = 1 THEN "finish" ELSE "uc"
<1>1. /\ job[j].at = "setsc" /\ sc' = Set(sc, run.w, Xor(job[j].sc, ind))
      /\ wire' = IF job[j].cut THEN wire ELSE [wire EXCEPT ![j] = Append(@, q)]
      /\ job' = [job EXCEPT ![j].left = @ - 1, ![j].at = p]
      /\ threads' = threads /\ db' = db /\ run' = run /\ late' = late /\ faults' = faults
      /\ answer' = answer /\ uc' = uc /\ edb' = edb /\ made' = made + 1
  BY DEF SetSum, Unsaved
<1>2. /\ run.do \in {"update", "batch"} /\ run.w \in Keyword
      /\ job[j].left \in 1..MaxBatch /\ MaxBatch \in Nat \ {0}
  BY <1>1, Making1
<1>3. job \in [Thread -> Jobs] /\ job[j] \in Jobs /\ made \in Nat /\ job[j].uc \in Nat
  BY DEF IInv, Types, Jobs
<1>4. /\ job'[j].at = p /\ job'[j].left = job[j].left - 1
      /\ job'[j].uc = job[j].uc /\ job'[j].sc = job[j].sc
      /\ \A i \in Thread \ {j} : job'[i] = job[i]
  BY <1>1, <1>3 DEF Jobs
<1>5. p = "finish" \/ (p = "uc" /\ job[j].left # 1)
  OBVIOUS
<1>6. made + 1 \in 1..MaxMade /\ job[j].uc + 1 \in 1..MaxMade
  <2>1. Room(j) + 1 <= MaxMade /\ made + 1 <= MaxMade /\ job[j].uc <= Room(j) /\ Room(j) \in Nat
    BY <1>1, CountsFit, RoomType DEF TInv, Bounded
  <2> QED
    BY <1>3, <2>1, BoundsAssumption
<1>7. ind \in Inds
  BY <1>3, <1>6, BoundsAssumption DEF Inds, Short
<1>8. q \in [label : Keyword \X (1..MaxMade), entry : Entry]
  BY <1>2, <1>6, <1>7 DEF Request, Entry
<1> HIDE DEF ind, q, p
<1>9. Pairs' \subseteq Pairs \ {<<j, job[j].left>>} /\ <<j, job[j].left>> \in Pairs
  <2>1. <<j, job[j].left>> \in Pairs
    BY <1>1, <1>2, <1>3 DEF Pairs
  <2>2. ASSUME NEW i \in Thread, NEW m \in 1..MaxBatch, job'[i].at # "done", m <= job'[i].left
        PROVE  <<i, m>> \in Pairs /\ ~(i = j /\ m = job[j].left)
    <3>1. CASE i = j
      <4>1. m <= job[j].left - 1
        BY <1>4, <2>2, <3>1
      <4> QED
        BY <1>1, <1>2, <3>1, <4>1 DEF Pairs
    <3>2. CASE i # j
      BY <1>2, <1>4, <2>2, <3>2 DEF Pairs
    <3> QED
      BY <3>1, <3>2
  <2>3. ASSUME NEW x \in Pairs' PROVE x \in Pairs /\ x # <<j, job[j].left>>
    <3>1. /\ x[1] \in Thread /\ x[2] \in 1..MaxBatch /\ x = <<x[1], x[2]>>
          /\ job'[x[1]].at # "done" /\ x[2] <= job'[x[1]].left
      BY <1>1 DEF Pairs
    <3> QED
      BY <2>2, <3>1
  <2> QED
    BY <2>1, <2>3
<1>10. Ahead' = Ahead \ {<<j, 1>>} /\ <<j, 1>> \in Ahead
  <2>1. <<j, 1>> \in Ahead
    BY <1>1, <1>2 DEF Ahead, Pairs
  <2>2. ASSUME NEW x \in Ahead' PROVE x \in Ahead /\ x # <<j, 1>>
    <3>1. x \in Pairs' /\ job'[x[1]].at = "setsc" /\ x[2] = 1 /\ x[1] \in Thread
      BY <1>1 DEF Ahead, Pairs
    <3>2. x[1] # j
      BY <1>4, <1>5, <3>1
    <3> QED
      BY <1>4, <1>9, <3>1, <3>2 DEF Ahead
  <2>3. ASSUME NEW x \in Ahead, x # <<j, 1>> PROVE x \in Ahead'
    <3>1. /\ x[1] \in Thread /\ x[2] = 1 /\ x = <<x[1], x[2]>> /\ x[2] \in 1..MaxBatch
          /\ job[x[1]].at = "setsc" /\ x[2] <= job[x[1]].left
      BY DEF Ahead, Pairs
    <3>2. job'[x[1]] = job[x[1]]
      BY <1>4, <2>3, <3>1
    <3> QED
      BY <1>1, <1>2, <3>1, <3>2 DEF Ahead, Pairs
  <2> QED
    BY <2>1, <2>2, <2>3
<1>11. Budget'
  <2>1. /\ IsFiniteSet(Pairs) /\ Cardinality(Pairs) \in Nat /\ made + Cardinality(Pairs) <= MaxMade
    BY PairsFinite DEF TInv, Budget
  <2>2. /\ IsFiniteSet(Pairs \ {<<j, job[j].left>>})
        /\ Cardinality(Pairs \ {<<j, job[j].left>>}) = Cardinality(Pairs) - 1
    BY <1>9, <2>1, FS_RemoveElement
  <2>3. Cardinality(Pairs') <= Cardinality(Pairs) - 1
    BY <1>9, <2>2, FS_Subset
  <2>4. Cardinality(Pairs') \in Nat
    BY <1>9, PairsFinite
  <2> QED
    BY <1>1, <1>3, <2>1, <2>3, <2>4, BoundsAssumption DEF Budget
<1>a. ASSUME NEW S \in SUBSET Ahead PROVE IsFiniteSet(S) /\ Cardinality(S) \in Nat
  BY PairsFinite DEF Ahead
<1>b. ASSUME NEW i PROVE Room(i) <= Room(i)' /\ Room(i) \in Nat /\ Room(i)' \in Nat
  <2> DEFINE T == Ahead \ {<<i, 1>>}
  <2>1. IsFiniteSet(T) /\ Cardinality(T) \in Nat
    BY <1>a
  <2>2. Ahead' \ {<<i, 1>>} = T \ {<<j, 1>>}
    BY <1>10
  <2>3. /\ Cardinality(T \ {<<j, 1>>}) \in Nat
        /\ Cardinality(T \ {<<j, 1>>}) \in {Cardinality(T), Cardinality(T) - 1}
    BY <1>a, <2>1, FS_RemoveElement
  <2>4. Room(i) = made + Cardinality(T) /\ Room(i)' = made + 1 + Cardinality(T \ {<<j, 1>>})
    BY <1>1, <2>2 DEF Room
  <2> QED
    BY <1>3, <2>1, <2>3, <2>4
<1>12. Bounded'
  <2>1. \A w \in DOMAIN uc' : uc'[w] <= Room(0)'
    <3>1. \A w \in DOMAIN uc : uc[w] <= Room(0) /\ uc[w] \in Nat
      BY DEF TInv, Bounded, IInv, Types, Count
    <3> QED
      BY <1>1, <1>b, <3>1
  <2>2. ASSUME NEW i \in Thread PROVE job'[i].uc <= Room(i)'
    <3>1. job'[i].uc = job[i].uc /\ job[i].uc \in Nat /\ job[i].uc <= Room(i)
      BY <1>4 DEF TInv, Bounded, IInv, Types, Jobs
    <3> QED
      BY <1>b, <3>1
  <2>3. \A w \in DOMAIN db.uc : db.uc[w] <= made + 1
    BY <1>3 DEF TInv, Bounded, IInv, Types, Count
  <2> QED
    BY <1>1, <2>1, <2>2, <2>3 DEF Bounded
<1>13. Lefts'
  <2>1. job'[j].left \in 0..MaxBatch /\ (p # "finish" => job'[j].left # 0)
    BY <1>2, <1>4, <1>5
  <2> QED
    BY <1>1, <1>4, <2>1 DEF TInv, Lefts
<1>14. Narrow'
  <2>1. Sums(sc) /\ (job[j].sc = Broken \/ job[j].sc \subseteq Inds)
    BY DEF TInv, Narrow
  <2>2. Xor(job[j].sc, ind) = Broken \/ Xor(job[j].sc, ind) \subseteq Inds
    BY <1>7, <2>1 DEF Xor
  <2>3. Sums(sc')
    BY <1>1, <1>2, <2>1, <2>2, SetSums
  <2>4. wire \in [Thread -> Messages] /\ wire[j] \in Messages
    BY DEF TInv, Narrow
  <2>5. Append(wire[j], q) \in Messages
    BY <1>8, <2>4, AppendProperties DEF Messages
  <2>6. wire' \in [Thread -> Messages]
    BY <1>1, <2>4, <2>5
  <2>7. DOMAIN edb' \subseteq Keyword \X (1..MaxMade) /\ \A l \in DOMAIN edb' : edb'[l] \in Entry
    BY <1>1 DEF TInv, Narrow
  <2>8. answer' \subseteq [known : {TRUE}, ind : Inds] \cup {[known |-> FALSE]}
    BY <1>1 DEF TInv, Narrow
  <2> QED
    BY <1>1, <1>4, <2>1, <2>3, <2>6, <2>7, <2>8, NarrowThread
<1> QED
  BY <1>11, <1>12, <1>13, <1>14 DEF TInv

\* An entry reaches the server, from a live client or from one that was killed.
LEMMA TypesDeliver ==
  ASSUME IInv, TInv, NEW j \in Thread, Deliver(j) \/ LateDeliver(j) \/ LateDrop(j)
  PROVE  TInv'
<1>1. /\ threads' = threads /\ db' = db /\ run' = run /\ faults' = faults
      /\ answer' = answer /\ uc' = uc /\ sc' = sc /\ job' = job /\ made' = made
  BY DEF Deliver, LateDeliver, LateDrop, Unsaved
<1>2. Pairs' = Pairs /\ Ahead' = Ahead
  BY <1>1 DEF Pairs, Ahead
<1>3. \A i : Room(i)' = Room(i)
  BY <1>1, <1>2 DEF Room
<1>4. Budget' /\ Bounded' /\ Lefts'
  BY <1>1, <1>2, <1>3 DEF TInv, Budget, Bounded, Lefts
<1>5. wire \in [Thread -> Messages] /\ late \in [Thread -> Messages]
  BY DEF TInv, Narrow
<1>6. ASSUME NEW s \in Messages, s # <<>>
      PROVE  Tail(s) \in Messages /\ Head(s) \in [label : Keyword \X (1..MaxMade), entry : Entry]
  BY <1>6, HeadTailProperties DEF Messages
<1>7. wire' \in [Thread -> Messages] /\ late' \in [Thread -> Messages]
  <2>1. CASE Deliver(j)
    <3>1. /\ wire[j] # <<>> /\ wire' = [wire EXCEPT ![j] = Tail(@)] /\ late' = late
      BY <2>1 DEF Deliver, Unsaved
    <3>2. Tail(wire[j]) \in Messages
      BY <1>5, <1>6, <3>1
    <3> QED
      BY <1>5, <3>1, <3>2
  <2>2. CASE LateDeliver(j)
    <3>1. /\ late[j] # <<>> /\ late' = [late EXCEPT ![j] = Tail(@)] /\ wire' = wire
      BY <2>2 DEF LateDeliver
    <3>2. Tail(late[j]) \in Messages
      BY <1>5, <1>6, <3>1
    <3> QED
      BY <1>5, <3>1, <3>2
  <2>3. CASE LateDrop(j)
    <3>1. <<>> \in Messages
      BY DEF Messages
    <3> QED
      BY <1>5, <2>3, <3>1 DEF LateDrop
  <2> QED
    BY <2>1, <2>2, <2>3
<1>8. DOMAIN edb' \subseteq Keyword \X (1..MaxMade) /\ \A l \in DOMAIN edb' : edb'[l] \in Entry
  <2>1. DOMAIN edb \subseteq Keyword \X (1..MaxMade) /\ \A l \in DOMAIN edb : edb[l] \in Entry
    BY DEF TInv, Narrow
  <2>2. CASE LateDrop(j)
    BY <2>1, <2>2 DEF LateDrop
  <2>3. CASE Deliver(j) \/ LateDeliver(j)
    <3>1. PICK s \in Messages : s # <<>> /\ edb' = Set(edb, Head(s).label, Head(s).entry)
      BY <1>5, <2>3 DEF Deliver, LateDeliver, Store
    <3>2. Head(s).label \in Keyword \X (1..MaxMade) /\ Head(s).entry \in Entry
      BY <1>6, <3>1
    <3>3. /\ DOMAIN edb' = DOMAIN edb \cup {Head(s).label}
          /\ \A l \in DOMAIN edb' : edb'[l] = IF l = Head(s).label THEN Head(s).entry ELSE edb[l]
      BY <3>1 DEF Set
    <3> QED
      BY <2>1, <3>2, <3>3
  <2> QED
    BY <2>2, <2>3
<1>9. Narrow'
  BY <1>1, <1>7, <1>8 DEF TInv, Narrow, Sums
<1> QED
  BY <1>4, <1>9 DEF TInv

\* While no generator is at work the counts are those of the updates made.
LEMMA TypesRest ==
  ASSUME IInv, TInv, \A j \in Thread' : job'[j].at # "setsc",
         Pairs' = {} \/ made' + Cardinality(Pairs') <= MaxMade, made' = made,
         \A w \in DOMAIN db'.uc : db'.uc[w] <= made,
         \A w \in DOMAIN uc' : uc'[w] <= made,
         \A j \in Thread' : job'[j].uc <= made,
         Lefts', Narrow'
  PROVE  TInv'
<1>1. Ahead' = {}
  BY DEF Ahead, Pairs
<1>2. \A i : Ahead' \ {<<i, 1>>} = {}
  BY <1>1
<1>3. made \in Nat
  BY DEF IInv, Types
<1>4. ASSUME NEW i PROVE Room(i)' = made
  <2>1. Cardinality(Ahead' \ {<<i, 1>>}) = 0
    BY <1>2, FS_EmptySet
  <2> QED
    BY <1>3, <2>1 DEF Room
<1>5. Bounded'
  <2>1. \A w \in DOMAIN uc' : uc'[w] <= Room(0)'
    BY <1>4
  <2>2. \A j \in Thread' : job'[j].uc <= Room(j)'
    BY <1>4
  <2> QED
    BY <2>1, <2>2 DEF Bounded
<1>6. Budget'
  <2>1. CASE Pairs' = {}
    <3>1. Cardinality(Pairs') = 0
      BY <2>1, FS_EmptySet
    <3>2. made + Cardinality(Pairs) <= MaxMade /\ Cardinality(Pairs) \in Nat /\ MaxMade \in Nat
      BY PairsFinite, BoundsAssumption DEF TInv, Budget
    <3> QED
      BY <1>3, <3>1, <3>2 DEF Budget
  <2> QED
    BY <2>1 DEF Budget
<1> QED
  BY <1>5, <1>6 DEF TInv

LEMMA Division ==
  ASSUME NEW n \in Nat, NEW t \in Nat \ {0}
  PROVE  /\ n \div t \in Nat /\ n % t \in Nat
         /\ t * (n \div t) + (n % t) = n
<1>1. n \div t \in Nat /\ n % t \in Nat
  OBVIOUS
<1>2. t * (n \div t) + (n % t) = n
  OBVIOUS
<1> QED
  BY <1>1, <1>2

LEMMA TimesUp ==
  ASSUME NEW d \in Nat, NEW a \in Nat, NEW b \in Nat, a < b
  PROVE  a * d + d <= b * d
OBVIOUS

\* The threads of a batch make n updates between them.
LEMMA SharesFit ==
  ASSUME threads \in Nat \ {0}, NEW n \in 1..MaxBatch
  PROVE  /\ \A j \in 1..threads : Shares(n)[j] \in 0..MaxBatch
         /\ Cardinality({p \in (1..threads) \X (1..MaxBatch) : p[2] <= Shares(n)[p[1]]}) <= n
<1> DEFINE d == n \div threads
           r == n % threads
           S == {p \in (1..threads) \X (1..MaxBatch) : p[2] <= Shares(n)[p[1]]}
<1>1. /\ n \in Nat /\ n <= MaxBatch /\ MaxBatch \in Nat /\ d \in Nat /\ r \in Nat
      /\ threads * d + r = n
  BY BoundsAssumption, Division
<1>2. \A j \in 1..threads : Shares(n)[j] = IF j = threads THEN d + r ELSE d
  BY <1>1 DEF Shares, Thread
<1> HIDE DEF d, r
<1>3. threads * d >= d
  BY <1>1, TimesUp
<1>4. \A j \in 1..threads : Shares(n)[j] \in 0..MaxBatch
  BY <1>1, <1>2, <1>3
<1> DEFINE f == [p \in S |-> (p[1] - 1) * d + p[2]]
<1>5. ASSUME NEW p \in S
      PROVE  /\ p[1] \in 1..threads /\ p[2] \in Nat \ {0} /\ p = <<p[1], p[2]>>
             /\ p[2] <= IF p[1] = threads THEN d + r ELSE d
  BY <1>1, <1>2
<1>6. f \in [S -> 1..n]
  <2> SUFFICES ASSUME NEW p \in S PROVE (p[1] - 1) * d + p[2] \in 1..n
    OBVIOUS
  <2> DEFINE a == p[1] - 1
             b == p[2]
  <2>1. /\ a \in Nat /\ b \in Nat \ {0} /\ a < threads
        /\ b <= IF a + 1 = threads THEN d + r ELSE d
    BY <1>5
  <2> HIDE DEF a, b
  <2>2. a * d + d <= threads * d /\ a * d \in Nat /\ threads * d \in Nat
    BY <1>1, <2>1, TimesUp
  <2>3. a * d + b \in 1..n
    BY <1>1, <2>1, <2>2
  <2> QED
    BY <2>3 DEF a, b
<1>7. ASSUME NEW p \in S, NEW q \in S, p[1] < q[1] PROVE f[p] # f[q]
  <2> DEFINE a == p[1] - 1
             b == q[1] - 1
             u == p[2]
             v == q[2]
  <2>1. /\ a \in Nat /\ b \in Nat /\ a < b /\ b < threads /\ u \in Nat \ {0} /\ v \in Nat \ {0}
        /\ u <= d
    BY <1>5, <1>7
  <2> HIDE DEF a, b, u, v
  <2>2. a * d + d <= b * d /\ a * d \in Nat /\ b * d \in Nat
    BY <1>1, <2>1, TimesUp
  <2>3. a * d + u # b * d + v
    BY <1>1, <2>1, <2>2
  <2> QED
    BY <2>3 DEF a, b, u, v
<1>8. ASSUME NEW p \in S, NEW q \in S, p[1] = q[1], f[p] = f[q] PROVE p = q
  <2> DEFINE e == (p[1] - 1) * d
             u == p[2]
             v == q[2]
  <2>1. e \in Int /\ u \in Int /\ v \in Int
    BY <1>1, <1>5
  <2>2. e + u = e + v
    BY <1>8
  <2> HIDE DEF e, u, v
  <2>3. u = v
    BY <2>1, <2>2
  <2> QED
    BY <1>5, <1>8, <2>3 DEF u, v
<1> HIDE DEF f
<1>9. f \in Injection(S, 1..n)
  <2>1. ASSUME NEW p \in S, NEW q \in S, f[p] = f[q] PROVE p = q
    <3>1. p[1] \in Int /\ q[1] \in Int
      BY <1>5
    <3>2. ~(p[1] < q[1]) /\ ~(q[1] < p[1])
      BY <1>7, <2>1
    <3>3. p[1] = q[1]
      BY <3>1, <3>2
    <3> QED
      BY <1>8, <2>1, <3>3
  <2> QED
    BY <1>6, <2>1 DEF Injection, IsInjective
<1>10. IsFiniteSet(1..n) /\ Cardinality(1..n) = n
  BY <1>1, FS_Interval
<1>11. Cardinality(S) <= n
  BY <1>9, <1>10, FS_Injection
<1> QED
  BY <1>4, <1>11

LEMMA AloneFits ==
  ASSUME threads \in Nat \ {0}
  PROVE  /\ \A j \in 1..threads : Alone[j] \in 0..MaxBatch
         /\ Cardinality({p \in (1..threads) \X (1..MaxBatch) : p[2] <= Alone[p[1]]}) <= 1
<1> DEFINE S == {p \in (1..threads) \X (1..MaxBatch) : p[2] <= Alone[p[1]]}
<1>1. \A j \in 1..threads : Alone[j] = IF j = 1 THEN 1 ELSE 0
  BY DEF Alone
<1>2. MaxBatch \in Nat \ {0}
  BY BoundsAssumption
<1>3. \A j \in 1..threads : Alone[j] \in 0..MaxBatch
  BY <1>1, <1>2
<1>4. S \in SUBSET {<<1, 1>>}
  BY <1>1, <1>2
<1>5. Cardinality(S) <= 1
  <2> HIDE DEF S
  <2>1. IsFiniteSet({<<1, 1>>}) /\ Cardinality({<<1, 1>>}) = 1
    BY FS_Singleton
  <2> QED
    BY <1>4, <2>1, FS_Subset
<1> QED
  BY <1>3, <1>5

\* With every thread at rest no count is ahead of the updates made.
LEMMA Resting ==
  ASSUME IInv, TInv, \A j \in Thread : job[j].at = "done"
  PROVE  /\ \A w \in DOMAIN uc : uc[w] <= made
         /\ \A j \in Thread : job[j].uc <= made
<1>1. \A i : Room(i) = made
  BY RoomAtRest
<1> QED
  BY <1>1 DEF TInv, Bounded

LEMMA TypesStart ==
  ASSUME IInv, TInv, NEW do \in {"update", "batch", "search", "verify"}, NEW v \in Keyword,
         NEW lefts, \A j \in Thread : lefts[j] \in 0..MaxBatch, Start(do, v, lefts),
         do \in {"update", "batch"} =>
           made + Cardinality({p \in Thread \X (1..MaxBatch) : p[2] <= lefts[p[1]]}) <= MaxMade
  PROVE  TInv'
<1>1. /\ run = Off /\ run' = [do |-> do, w |-> v] /\ uc' = db.uc /\ sc' = db.sc
      /\ job' = [j \in Thread |-> IF lefts[j] = 0 THEN AtRest
                                  ELSE [AtRest EXCEPT !.at = "uc", !.left = lefts[j]]]
      /\ threads' = threads /\ db' = db /\ save' = save /\ hole' = hole /\ late' = late
      /\ wire' = wire /\ edb' = edb /\ made' = made /\ answer' = answer /\ faults' = faults
  BY DEF Start
<1>2. /\ made \in Nat /\ MaxBatch \in Nat \ {0} /\ Thread' = Thread /\ run'.do = do
  BY <1>1, BoundsAssumption DEF IInv, Types
<1>3. ASSUME NEW j \in Thread
      PROVE  /\ job'[j].at \in {"done", "uc"} /\ (job'[j].at = "done" <=> lefts[j] = 0)
             /\ job'[j].left = lefts[j] /\ job'[j].uc = 0 /\ job'[j].sc = Zero
  <2>1. CASE lefts[j] = 0
    BY <1>1, <2>1 DEF AtRest
  <2>2. CASE lefts[j] # 0
    BY <1>1, <2>2 DEF AtRest
  <2> QED
    BY <2>1, <2>2
<1>4. Pairs' = {} \/ made' + Cardinality(Pairs') <= MaxMade
  <2>1. CASE do \notin {"update", "batch"}
    BY <1>2, <2>1 DEF Pairs
  <2>2. CASE do \in {"update", "batch"}
    <3>1. Pairs' = {p \in Thread \X (1..MaxBatch) : p[2] <= lefts[p[1]]}
      <4>1. Pairs' = {p \in Thread \X (1..MaxBatch) :
                        job'[p[1]].at # "done" /\ p[2] <= job'[p[1]].left}
        BY <1>2, <2>2 DEF Pairs
      <4> QED
        BY <1>2, <1>3, <4>1
    <3> QED
      BY <1>1, <2>2, <3>1
  <2> QED
    BY <2>1, <2>2
<1>5. /\ \A w \in DOMAIN db'.uc : db'.uc[w] <= made
      /\ \A w \in DOMAIN uc' : uc'[w] <= made
  BY <1>1 DEF TInv, Bounded
<1>6. \A j \in Thread' : job'[j].uc <= made /\ job'[j].at # "setsc"
  <2> SUFFICES ASSUME NEW j \in Thread PROVE job'[j].uc <= made /\ job'[j].at # "setsc"
    BY <1>2
  <2>1. job'[j].uc = 0 /\ job'[j].at \in {"done", "uc"}
    BY <1>3
  <2> QED
    BY <1>2, <2>1
<1>7. Lefts'
  BY <1>2, <1>3 DEF Lefts
<1>8. Narrow'
  <2>1. \A j \in Thread' : job'[j].sc \subseteq Inds
    BY <1>2, <1>3 DEF Zero
  <2> QED
    BY <1>1, <2>1 DEF TInv, Narrow, Sums
<1> QED
  BY <1>1, <1>4, <1>5, <1>6, <1>7, <1>8, TypesRest

LEMMA TypesCommand ==
  ASSUME IInv, TInv, NEW w \in Keyword, StartUpdate(w) \/ StartSearch(w) \/ StartBatch(w)
  PROVE  TInv'
<1>1. /\ threads \in Nat \ {0} /\ made \in Nat /\ MaxMade \in Nat /\ MaxBatch \in Nat \ {0}
  BY BoundsAssumption DEF IInv, Types
<1>2. ASSUME NEW lefts, IsFiniteSet({p \in Thread \X (1..MaxBatch) : p[2] <= lefts[p[1]]})
      PROVE  Cardinality({p \in Thread \X (1..MaxBatch) : p[2] <= lefts[p[1]]}) \in Nat
  BY <1>2, FS_CardinalityType
<1>3. ASSUME NEW lefts
      PROVE  Cardinality({p \in Thread \X (1..MaxBatch) : p[2] <= lefts[p[1]]}) \in Nat
  <2>1. IsFiniteSet(1..threads) /\ IsFiniteSet(1..MaxBatch)
    BY <1>1, FS_Interval
  <2>2. IsFiniteSet(Thread \X (1..MaxBatch))
    BY <2>1, FS_Product
  <2>3. {p \in Thread \X (1..MaxBatch) : p[2] <= lefts[p[1]]} \in SUBSET (Thread \X (1..MaxBatch))
    OBVIOUS
  <2>4. IsFiniteSet({p \in Thread \X (1..MaxBatch) : p[2] <= lefts[p[1]]})
    BY <2>2, <2>3, FS_Subset
  <2> QED
    BY <1>2, <2>4
<1>4. CASE StartSearch(w)
  BY <1>1, <1>4, AloneFits, TypesStart DEF StartSearch
<1>5. CASE StartUpdate(w)
  <2>1. made < MaxMade /\ Start("update", w, Alone)
    BY <1>5 DEF StartUpdate
  <2>2. made + Cardinality({p \in Thread \X (1..MaxBatch) : p[2] <= Alone[p[1]]}) <= MaxMade
    BY <1>1, <1>3, <2>1, AloneFits
  <2> QED
    BY <1>1, <2>1, <2>2, AloneFits, TypesStart
<1>6. CASE StartBatch(w)
  <2>1. PICK n \in 1..MaxBatch : made + n <= MaxMade /\ Start("batch", w, Shares(n))
    BY <1>6 DEF StartBatch
  <2>2. made + Cardinality({p \in Thread \X (1..MaxBatch) : p[2] <= Shares(n)[p[1]]}) <= MaxMade
    BY <1>1, <1>3, <2>1, SharesFit
  <2> QED
    BY <1>1, <2>1, <2>2, SharesFit, TypesStart
<1> QED
  BY <1>4, <1>5, <1>6

LEMMA TypesClosing ==
  ASSUME IInv, TInv, Close \/ Delete \/ Put \/ Exit
  PROVE  TInv'
<1>1. /\ threads' = threads /\ job' = job /\ wire' = wire /\ late' = late /\ edb' = edb
      /\ answer' = answer /\ made' = made /\ faults' = faults
  BY DEF Close, Delete, Put, Exit
<1>2. \A j \in Thread : job[j].at = "done"
  BY DEF Close, Delete, Put, Exit, IInv, Phases, Saving
<1>3. Pairs' = {}
  BY <1>1, <1>2 DEF Pairs
<1>4. /\ \A w \in DOMAIN uc : uc[w] <= made
      /\ \A j \in Thread : job[j].uc <= made
      /\ \A w \in DOMAIN db.uc : db.uc[w] <= made
  BY <1>2, Resting DEF TInv, Bounded
<1>5. Lefts'
  BY <1>1, <1>2 DEF TInv, Lefts
<1>6. /\ \A w \in DOMAIN uc' : uc'[w] <= made
      /\ Sums(sc')
  <2>1. Sums(sc)
    BY DEF TInv, Narrow
  <2>2. (uc' = uc /\ sc' = sc) \/ (uc' = <<>> /\ sc' = <<>>)
    BY DEF Close, Delete, Put, Exit
  <2> QED
    BY <1>4, <2>1, <2>2 DEF Sums
<1>7. /\ \A w \in DOMAIN db'.uc : db'.uc[w] <= made
      /\ Sums(db'.sc)
  <2>1. Sums(db.sc) /\ Sums(sc) /\ db \in [uc : {db.uc}, sc : {db.sc}]
    BY DEF TInv, Narrow, IInv, Types
  <2>2. CASE Close \/ Exit
    BY <1>4, <2>1, <2>2 DEF Close, Exit
  <2>3. CASE Delete
    <3>1. PICK k \in save : db' = [db EXCEPT ![k[1]] = Without(@, k[2])]
      BY <2>3 DEF Delete
    <3>2. k[1] \in {"sc", "uc"}
      BY <3>1 DEF IInv, Saving
    <3>3. /\ db'.uc = db.uc \/ db'.uc = Without(db.uc, k[2])
          /\ db'.sc = db.sc \/ db'.sc = Without(db.sc, k[2])
      BY <2>1, <3>1, <3>2
    <3> QED
      BY <1>4, <2>1, <3>3 DEF Sums, Without
  <2>4. CASE Put
    <3> DEFINE v == IF hole[1] = "uc" THEN uc[hole[2]] ELSE sc[hole[2]]
               k == hole[2]
    <3>1. hole # NoHole /\ db' = [db EXCEPT ![hole[1]] = Set(@, k, v)]
      BY <2>4 DEF Put
    <3>2. hole \in ({"sc"} \X DOMAIN sc) \cup ({"uc"} \X DOMAIN uc)
      BY <3>1 DEF IInv, Saving
    <3>3. CASE hole[1] = "uc" /\ k \in DOMAIN uc
      <4>1. db'.uc = Set(db.uc, k, uc[k]) /\ db'.sc = db.sc
        BY <2>1, <3>1, <3>3
      <4> QED
        BY <1>4, <2>1, <3>3, <4>1 DEF Set
    <3>4. CASE hole[1] = "sc" /\ k \in DOMAIN sc
      <4>1. db'.uc = db.uc /\ db'.sc = Set(db.sc, k, sc[k])
        BY <2>1, <3>1, <3>4
      <4>2. sc[k] = Broken \/ sc[k] \subseteq Inds
        BY <2>1, <3>4 DEF Sums
      <4>3. k \in Keyword
        BY <2>1, <3>4 DEF Sums
      <4>4. Sums(db'.sc)
        BY <2>1, <4>1, <4>2, <4>3 DEF Sums, Set
      <4> QED
        BY <1>4, <4>1, <4>4
    <3> QED
      BY <3>2, <3>3, <3>4
  <2> QED
    BY <2>2, <2>3, <2>4
<1>8. Narrow'
  BY <1>1, <1>6, <1>7 DEF TInv, Narrow
<1> QED
  BY <1>1, <1>2, <1>3, <1>4, <1>5, <1>6, <1>7, <1>8, TypesRest

LEMMA TypesKill ==
  ASSUME IInv, TInv, Kill
  PROVE  TInv'
<1>1. /\ run' = Off /\ uc' = <<>> /\ sc' = <<>>
      /\ job' = [j \in Thread |-> AtRest]
      /\ late' = [j \in Thread |-> late[j] \o wire[j]] /\ wire' = [j \in Thread |-> <<>>]
      /\ faults < MaxFaults /\ faults' = faults + 1
      /\ threads' = threads /\ db' = db /\ edb' = edb /\ made' = made /\ answer' = answer
  BY DEF Kill
<1>2. \A j \in Thread' : job'[j] = AtRest
  BY <1>1
<1>3. Pairs' = {}
  BY <1>2 DEF Pairs, AtRest
<1>4. \A j \in Thread' : job'[j].uc <= made /\ job'[j].at # "setsc"
  BY <1>2 DEF AtRest, IInv, Types
<1>5. \A w \in DOMAIN db'.uc : db'.uc[w] <= made
  BY <1>1 DEF TInv, Bounded
<1>6. Lefts'
  BY <1>2, BoundsAssumption DEF Lefts, AtRest
<1>7. wire' \in [Thread' -> Messages] /\ late' \in [Thread' -> Messages]
  <2>1. wire \in [Thread -> Messages] /\ late \in [Thread -> Messages]
    BY DEF TInv, Narrow
  <2>2. \A s, t \in Messages : s \o t \in Messages
    BY ConcatProperties DEF Messages
  <2>3. <<>> \in Messages
    BY DEF Messages
  <2> QED
    BY <1>1, <2>1, <2>2, <2>3
<1>8. Narrow'
  <2>1. \A j \in Thread' : job'[j].sc \subseteq Inds
    BY <1>2 DEF AtRest, Zero
  <2>2. faults' \in 0..MaxFaults
    BY <1>1, BoundsAssumption DEF TInv, Narrow
  <2>3. Sums(sc')
    BY <1>1 DEF Sums
  <2> QED
    BY <1>1, <1>7, <2>1, <2>2, <2>3 DEF TInv, Narrow
<1> QED
  BY <1>1, <1>3, <1>4, <1>5, <1>6, <1>8, TypesRest

LEMMA TypesBreak ==
  ASSUME IInv, TInv, NEW j \in Thread, Break(j)
  PROVE  TInv'
<1>1. /\ job' = [job EXCEPT ![j].cut = TRUE]
      /\ late' = [late EXCEPT ![j] = @ \o wire[j]] /\ wire' = [wire EXCEPT ![j] = <<>>]
      /\ faults < MaxFaults /\ faults' = faults + 1
      /\ threads' = threads /\ db' = db /\ run' = run /\ edb' = edb /\ made' = made
      /\ answer' = answer /\ uc' = uc /\ sc' = sc
  BY DEF Break
<1>2. job \in [Thread -> Jobs]
  BY DEF IInv, Types
<1>3. \A i \in Thread : /\ job'[i].at = job[i].at /\ job'[i].left = job[i].left
                        /\ job'[i].uc = job[i].uc /\ job'[i].sc = job[i].sc
  BY <1>1, <1>2 DEF Jobs
<1>4. Pairs' = Pairs /\ Ahead' = Ahead
  BY <1>1, <1>3 DEF Pairs, Ahead
<1>5. \A i : Room(i)' = Room(i)
  BY <1>1, <1>4 DEF Room
<1>6. Budget' /\ Bounded' /\ Lefts'
  BY <1>1, <1>3, <1>4, <1>5 DEF TInv, Budget, Bounded, Lefts
<1>7. wire' \in [Thread -> Messages] /\ late' \in [Thread -> Messages]
  <2>1. wire \in [Thread -> Messages] /\ late \in [Thread -> Messages]
    BY DEF TInv, Narrow
  <2>2. \A t1, t2 \in Messages : t1 \o t2 \in Messages
    BY ConcatProperties DEF Messages
  <2>3. <<>> \in Messages
    BY DEF Messages
  <2>4. late[j] \in Messages /\ wire[j] \in Messages
    BY <2>1
  <2>5. late[j] \o wire[j] \in Messages
    BY <2>2, <2>4
  <2>6. wire' \in [Thread -> Messages]
    BY <1>1, <2>1, <2>3
  <2>7. late' \in [Thread -> Messages]
    BY <1>1, <2>1, <2>5
  <2> QED
    BY <2>6, <2>7
<1>8. faults' \in 0..MaxFaults
  BY <1>1, BoundsAssumption DEF TInv, Narrow
<1>9. Narrow'
  BY <1>1, <1>3, <1>7, <1>8 DEF TInv, Narrow, Sums
<1> QED
  BY <1>6, <1>9 DEF TInv

LEMMA NextTypes == IInv /\ TInv /\ [Next]_vars => TInv'
<1> SUFFICES ASSUME IInv, TInv, [Next]_vars PROVE TInv'
  OBVIOUS
<1>1. CASE UNCHANGED vars
  BY <1>1 DEF vars, TInv, Budget, Bounded, Lefts, Narrow, Pairs, Ahead, Room, Sums
<1>2. ASSUME NEW j \in Thread, Step(j) \/ Break(j) \/ LateDeliver(j) \/ LateDrop(j)
      PROVE  TInv'
  BY <1>2, TypesReadCount, TypesZeroCount, TypesReadSum, TypesZeroSum, TypesSetCount,
     TypesSetSum, TypesDeliver, TypesFinish, TypesSearch, TypesVerify, TypesBreak DEF Step
<1>3. CASE Next
  BY <1>2, <1>3, TypesCommand, TypesClosing, TypesKill DEF Next
<1> QED
  BY <1>1, <1>3

LEMMA TypesOK ==
  ASSUME IInv, TInv
  PROVE  TypeOK
<1>1. /\ made \in 0..MaxMade /\ MaxMade \in Nat /\ failed \in BOOLEAN
      /\ \A i : Room(i) <= MaxMade /\ Room(i) \in Nat
  BY CountsFit, RoomType, BoundsAssumption DEF IInv, Types
<1>2. Counts(uc) /\ Counts(db.uc)
  <2>1. \A w \in DOMAIN uc : uc[w] \in Nat /\ uc[w] <= Room(0)
    BY DEF TInv, Bounded, IInv, Types, Count
  <2>2. \A w \in DOMAIN db.uc : db.uc[w] \in Nat /\ db.uc[w] <= made
    BY DEF TInv, Bounded, IInv, Types, Count
  <2>3. DOMAIN uc \subseteq Keyword /\ DOMAIN db.uc \subseteq Keyword
    BY DEF IInv, Types, Count
  <2>4. \A w \in DOMAIN uc : uc[w] \in 0..MaxMade
    BY <1>1, <2>1
  <2>5. \A w \in DOMAIN db.uc : db.uc[w] \in 0..MaxMade
    BY <1>1, <2>2
  <2> QED
    BY <2>3, <2>4, <2>5 DEF Counts
<1>3. job \in [Thread -> [at : {"done", "uc", "uc0", "sc", "sc0", "setuc", "setsc", "finish", "verify"},
                          uc : 0..MaxMade, sc : (SUBSET Inds) \cup {Broken}, left : 0..MaxBatch,
                          cut : BOOLEAN]]
  <2>1. job \in [Thread -> Jobs]
    BY DEF IInv, Types
  <2>2. ASSUME NEW j \in Thread
        PROVE  job[j] \in [at : {"done", "uc", "uc0", "sc", "sc0", "setuc", "setsc", "finish", "verify"},
                           uc : 0..MaxMade, sc : (SUBSET Inds) \cup {Broken}, left : 0..MaxBatch,
                           cut : BOOLEAN]
    <3>1. job[j] \in [at : {"done"} \cup Working, uc : Nat, sc : SUBSET Int, left : Int,
                   cut : BOOLEAN]
      BY <2>1 DEF Jobs
    <3>2. job[j].uc <= Room(j) /\ job[j].left \in 0..MaxBatch
      BY DEF TInv, Bounded, Lefts
    <3>3. job[j].uc \in 0..MaxMade
      BY <1>1, <3>1, <3>2
    <3>4. job[j].sc \in (SUBSET Inds) \cup {Broken}
      BY DEF TInv, Narrow
    <3> QED
      BY <3>1, <3>2, <3>3, <3>4 DEF Working
  <2> QED
    BY <2>1, <2>2
<1>4. run \in {Off, [do |-> "close"]}
              \cup [do : {"update", "batch", "search", "verify"}, w : Keyword]
  BY DEF IInv, Types
<1>5. save \subseteq {"uc", "sc"} \X Keyword /\ hole \in save \cup {NoHole}
  BY DEF IInv, Saving, Types, Count, Sum
<1> QED
  BY <1>1, <1>2, <1>3, <1>4, <1>5 DEF TypeOK, TInv, Narrow

-----------------------------------------------------------------------------
\* No count, label or identifier leaves its bounds, however many threads step a
\* count at once and whichever clients are killed.
THEOREM TypeCorrect == Spec => []TypeOK
<1>1. IInv /\ TInv => TypeOK
  BY TypesOK
<1> QED
  BY InitInv, NextInv, InitTypes, NextTypes, <1>1, PTL DEF Spec
-----------------------------------------------------------------------------
(* An entry under a label that a stored count covers is never overwritten,   *)
(* as long as no client is killed and no call fails.                         *)

Running == {"update", "batch", "search", "verify"}

\* A label that no stored count covers.
Above(l) == l[1] \in DOMAIN db.uc => l[2] > db.uc[l[1]]

\* The threads count on from the stored counts, whatever they draw twice or set
\* back, and what they send lies above them.
CountsAbove == run.do \in Running =>
                 \A w \in DOMAIN db.uc : w \in DOMAIN uc /\ uc[w] >= db.uc[w]
NewAbove == \A j \in Thread : job[j].at = "uc0" => run.w \notin DOMAIN db.uc
ReadsAbove == \A j \in Thread : job[j].at \in Counted => Above(<<run.w, job[j].uc + 1>>)
WireAbove == \A j \in Thread : \A n \in 1..Len(wire[j]) : Above(wire[j][n].label)
NoneLate == \A j \in Thread : late[j] = <<>>

Calm == /\ faults \in Nat
        /\ faults = 0 => CountsAbove /\ NewAbove /\ ReadsAbove /\ WireAbove /\ NoneLate

LEMMA CalmInit == Init => Calm
<1> SUFFICES ASSUME Init PROVE Calm
  OBVIOUS
<1> USE DEF Init
<1>1. CountsAbove /\ NewAbove /\ ReadsAbove
  <2>1. run.do = "off" /\ \A j \in Thread : job[j].at = "done"
    BY DEF Off, AtRest
  <2> QED
    BY <2>1 DEF CountsAbove, NewAbove, ReadsAbove, Running
<1>2. WireAbove /\ NoneLate
  BY DEF WireAbove, NoneLate
<1> QED
  BY <1>1, <1>2 DEF Calm

\* What a step of one thread has to show.
LEMMA CalmThread ==
  ASSUME IInv, Calm, NEW j \in Thread,
         threads' = threads, db' = db, run' = run, late' = late, faults' = faults,
         \A i \in Thread \ {j} : job'[i] = job[i],
         \A i \in Thread \ {j} : wire'[i] = wire[i],
         faults = 0 => CountsAbove',
         faults = 0 /\ job'[j].at = "uc0" => run.w \notin DOMAIN db.uc,
         faults = 0 /\ job'[j].at \in Counted => Above(<<run.w, job'[j].uc + 1>>),
         faults = 0 => \A n \in 1..Len(wire'[j]) : Above(wire'[j][n].label)
  PROVE  Calm'
<1> SUFFICES ASSUME faults = 0 PROVE NewAbove' /\ ReadsAbove' /\ WireAbove' /\ NoneLate'
  BY DEF Calm
<1>1. \A l : Above(l)' <=> Above(l)
  BY DEF Above
<1>2. NewAbove' /\ NoneLate'
  BY DEF Calm, NewAbove, NoneLate
<1>3. ReadsAbove'
  <2> SUFFICES ASSUME NEW i \in Thread', job'[i].at \in Counted
               PROVE  Above(<<run.w, job'[i].uc + 1>>)
    BY DEF ReadsAbove, Above
  <2> QED
    BY DEF Calm, ReadsAbove
<1>4. WireAbove'
  <2> SUFFICES ASSUME NEW i \in Thread', NEW n \in 1..Len(wire'[i])
               PROVE  Above(wire'[i][n].label)
    BY DEF WireAbove, Above
  <2> QED
    BY DEF Calm, WireAbove
<1> QED
  BY <1>2, <1>3, <1>4

\* A thread at work belongs to a command that has loaded the counts.
LEMMA BusyCalm ==
  ASSUME IInv, Calm, faults = 0, NEW j \in Thread, job[j].at # "done"
  PROVE  \A w \in DOMAIN db.uc : w \in DOMAIN uc /\ uc[w] >= db.uc[w]
BY BusyRun DEF Calm, CountsAbove, Running

LEMMA CalmReadCount ==
  ASSUME IInv, Calm, NEW j \in Thread, ReadCount(j)
  PROVE  Calm'
<1> DEFINE there == run.w \in DOMAIN uc
           p == IF there THEN "sc" ELSE "uc0"
           r == IF there THEN uc[run.w] ELSE 0
<1>1. /\ job[j].at = "uc" /\ job' = [job EXCEPT ![j].at = p, ![j].uc = r]
      /\ threads' = threads /\ db' = db /\ run' = run /\ late' = late /\ faults' = faults
      /\ uc' = uc /\ wire' = wire
  BY DEF ReadCount, Unsaved
<1>2. p \in Working /\ r \in Nat
  BY DEF IInv, Types, Count, Working
<1>3. /\ job'[j].at = p /\ job'[j].uc = r /\ \A i \in Thread \ {j} : job'[i] = job[i]
  <2> HIDE DEF p, r
  <2> QED
    BY <1>1, <1>2, JobChange
<1>4. faults = 0 => CountsAbove'
  BY <1>1 DEF Calm, CountsAbove
<1>5. faults = 0 => \A w \in DOMAIN db.uc : w \in DOMAIN uc /\ uc[w] >= db.uc[w]
  BY <1>1, BusyCalm
<1>6. faults = 0 /\ p = "uc0" => run.w \notin DOMAIN db.uc
  BY <1>5
<1>7. Count(uc) /\ Count(db.uc)
  BY DEF IInv, Types
<1>8. faults = 0 => Above(<<run.w, r + 1>>)
  BY <1>5, <1>7 DEF Above, Count
<1>9. faults = 0 => \A n \in 1..Len(wire'[j]) : Above(wire'[j][n].label)
  BY <1>1 DEF Calm, WireAbove
<1> QED
  BY <1>1, <1>3, <1>4, <1>6, <1>8, <1>9, CalmThread

\* A step that neither reads nor sets a count, nor sends anything.
LEMMA CalmGoOn ==
  ASSUME IInv, Calm, NEW j \in Thread, job'[j].uc = job[j].uc,
         job'[j].at \in Counted => job[j].at \in Counted,
         job'[j].at # "uc0",
         \A i \in Thread \ {j} : job'[i] = job[i],
         threads' = threads, db' = db, run' = run, late' = late, faults' = faults,
         faults = 0 => CountsAbove', wire' = wire
  PROVE  Calm'
<1>1. faults = 0 /\ job'[j].at \in Counted => Above(<<run.w, job'[j].uc + 1>>)
  BY DEF Calm, ReadsAbove
<1>2. faults = 0 => \A n \in 1..Len(wire'[j]) : Above(wire'[j][n].label)
  BY DEF Calm, WireAbove
<1> QED
  BY <1>1, <1>2, CalmThread

LEMMA CalmZeroCount ==
  ASSUME IInv, Calm, NEW j \in Thread, ZeroCount(j)
  PROVE  Calm'
<1>1. /\ job[j].at = "uc0" /\ Goto(j, "sc") /\ uc' = Set(uc, run.w, 0)
      /\ threads' = threads /\ db' = db /\ run' = run /\ late' = late /\ faults' = faults
      /\ wire' = wire
  BY DEF ZeroCount, Unsaved
<1>2. /\ job'[j].at = "sc" /\ job'[j].uc = job[j].uc
      /\ \A i \in Thread \ {j} : job'[i] = job[i]
  BY <1>1, JobGoto DEF Working
<1>3. /\ DOMAIN uc' = DOMAIN uc \cup {run.w}
      /\ \A w \in DOMAIN uc' : uc'[w] = IF w = run.w THEN 0 ELSE uc[w]
  BY <1>1 DEF Set
<1>4. faults = 0 => run.w \notin DOMAIN db.uc
  BY <1>1 DEF Calm, NewAbove
<1>5. faults = 0 => CountsAbove'
  BY <1>1, <1>3, <1>4, BusyCalm DEF CountsAbove
<1> QED
  BY <1>1, <1>2, <1>5, CalmGoOn

\* The count that is set is above the stored one, also when it is set back.
LEMMA CalmSetCount ==
  ASSUME IInv, Calm, NEW j \in Thread, SetCount(j)
  PROVE  Calm'
<1>1. /\ job[j].at = "setuc" /\ Goto(j, "setsc") /\ uc' = Set(uc, run.w, job[j].uc + 1)
      /\ threads' = threads /\ db' = db /\ run' = run /\ late' = late /\ faults' = faults
      /\ wire' = wire
  BY DEF SetCount, Unsaved
<1>2. /\ job'[j].at = "setsc" /\ job'[j].uc = job[j].uc
      /\ \A i \in Thread \ {j} : job'[i] = job[i]
  BY <1>1, JobGoto DEF Working
<1>3. /\ DOMAIN uc' = DOMAIN uc \cup {run.w}
      /\ \A w \in DOMAIN uc' : uc'[w] = IF w = run.w THEN job[j].uc + 1 ELSE uc[w]
  BY <1>1 DEF Set
<1>4. faults = 0 => Above(<<run.w, job[j].uc + 1>>)
  BY <1>1 DEF Calm, ReadsAbove
<1>5. job[j].uc \in Nat /\ Count(db.uc)
  BY DEF IInv, Types, Jobs
<1>6. faults = 0 => CountsAbove'
  BY <1>1, <1>3, <1>4, <1>5, BusyCalm DEF CountsAbove, Above, Count
<1> QED
  BY <1>1, <1>2, <1>6, CalmGoOn

LEMMA CalmSetSum ==
  ASSUME IInv, Calm, NEW j \in Thread, SetSum(j)
  PROVE  Calm'
<1> DEFINE ind == IF run.do = "update" THEN Short ELSE made + 1
           q == Request(j, ind)
           p == IF job[j].left = 1 THEN "finish" ELSE "uc"
<1>1. /\ job[j].at = "setsc"
      /\ wire' = IF job[j].cut THEN wire ELSE [wire EXCEPT ![j] = Append(@, q)]
      /\ job' = [job EXCEPT ![j].left = @ - 1, ![j].at = p]
      /\ threads' = threads /\ db' = db /\ run' = run /\ late' = late /\ faults' = faults
      /\ uc' = uc
  BY DEF SetSum, Unsaved
<1>2. q.label = <<run.w, job[j].uc + 1>> /\ p \in {"finish", "uc"}
  BY DEF Request
<1> HIDE DEF ind, q, p
<1>3. job \in [Thread -> Jobs] /\ job[j] \in Jobs /\ wire \in [Thread -> Seq(Message)]
  BY DEF IInv, Types
<1>4. job'[j].at = p /\ \A i \in Thread \ {j} : job'[i] = job[i]
  BY <1>1, <1>3 DEF Jobs
<1>5. /\ wire'[j] = wire[j] \/ wire'[j] = Append(wire[j], q)
      /\ wire[j] \in Seq(Message)
      /\ \A i \in Thread \ {j} : wire'[i] = wire[i]
  BY <1>1, <1>3
<1>6. faults = 0 => Above(q.label)
  BY <1>1, <1>2 DEF Calm, ReadsAbove
<1>7. ASSUME faults = 0, NEW n \in 1..Len(wire'[j]) PROVE Above(wire'[j][n].label)
  <2>1. CASE n \in 1..Len(wire[j])
    <3>1. wire'[j][n] = wire[j][n]
      BY <1>5, <2>1
    <3> QED
      BY <1>7, <2>1, <3>1 DEF Calm, WireAbove
  <2>2. CASE n = Len(wire[j]) + 1
    <3>1. wire'[j][n] = q
      BY <1>5, <1>7, <2>2
    <3> QED
      BY <1>6, <1>7, <3>1
  <2> QED
    BY <1>5, <2>1, <2>2
<1>8. faults = 0 => CountsAbove'
  BY <1>1 DEF Calm, CountsAbove
<1> QED
  BY <1>1, <1>2, <1>4, <1>5, <1>7, <1>8, CalmThread

\* A step that touches neither the counts nor the streams.
LEMMA CalmOther ==
  ASSUME IInv, Calm, NEW j \in Thread,
         ReadSum(j) \/ ZeroSum(j) \/ Finish(j) \/ Search(j) \/ Verify(j)
  PROVE  Calm'
<1>1. /\ threads' = threads /\ db' = db /\ run' = run /\ late' = late /\ faults' = faults
      /\ uc' = uc /\ wire' = wire
  BY DEF ReadSum, ZeroSum, Finish, Search, Verify, Unsaved
<1>2. faults = 0 => CountsAbove'
  BY <1>1 DEF Calm, CountsAbove
<1>3. job \in [Thread -> Jobs] /\ job[j] \in Jobs
  BY DEF IInv, Types
<1>4. /\ job'[j].uc = job[j].uc /\ job'[j].at # "uc0"
      /\ job'[j].at \in Counted => job[j].at \in Counted
      /\ \A i \in Thread \ {j} : job'[i] = job[i]
  <2>1. CASE ReadSum(j)
    BY <1>3, <2>1 DEF ReadSum, Jobs
  <2>2. CASE ZeroSum(j)
    BY <2>2, JobGoto DEF ZeroSum, Working
  <2>3. CASE Finish(j)
    BY <2>3, JobGoto DEF Finish
  <2>4. CASE Search(j)
    BY <2>4, JobGoto DEF Search, Working
  <2>5. CASE Verify(j)
    BY <2>5, JobGoto DEF Verify
  <2> QED
    BY <2>1, <2>2, <2>3, <2>4, <2>5
<1> QED
  BY <1>1, <1>2, <1>4, CalmGoOn

LEMMA CalmDeliver ==
  ASSUME IInv, Calm, NEW j \in Thread, Deliver(j)
  PROVE  Calm'
<1>1. /\ wire[j] # <<>> /\ wire' = [wire EXCEPT ![j] = Tail(@)]
      /\ threads' = threads /\ db' = db /\ run' = run /\ late' = late /\ faults' = faults
      /\ uc' = uc /\ job' = job
  BY DEF Deliver, Unsaved
<1>2. wire \in [Thread -> Seq(Message)]
  BY DEF IInv, Types
<1>3. /\ wire'[j] = Tail(wire[j]) /\ wire[j] \in Seq(Message)
      /\ \A i \in Thread \ {j} : wire'[i] = wire[i]
  BY <1>1, <1>2
<1>a. /\ Len(wire'[j]) = Len(wire[j]) - 1
      /\ \A i \in 1..Len(wire'[j]) : wire'[j][i] = wire[j][i + 1]
  <2>1. wire[j] # <<>>
    BY <1>1
  <2> QED
    BY <1>3, <2>1, HeadTailProperties
<1>b. Len(wire[j]) \in Nat
  BY <1>3
<1>4. ASSUME faults = 0, NEW n \in 1..Len(wire'[j]) PROVE Above(wire'[j][n].label)
  <2>1. n + 1 \in 1..Len(wire[j]) /\ wire'[j][n] = wire[j][n + 1]
    BY <1>a, <1>b, <1>4
  <2> QED
    BY <1>4, <2>1 DEF Calm, WireAbove
<1>5. faults = 0 => CountsAbove'
  BY <1>1 DEF Calm, CountsAbove
<1>6. faults = 0 => /\ job[j].at = "uc0" => run.w \notin DOMAIN db.uc
                    /\ job[j].at \in Counted => Above(<<run.w, job[j].uc + 1>>)
  BY DEF Calm, NewAbove, ReadsAbove
<1> QED
  BY <1>1, <1>3, <1>4, <1>5, <1>6, CalmThread

\* A command begins with the stored counts and nothing under way.
LEMMA CalmStart ==
  ASSUME IInv, Calm, NEW do, NEW w, NEW lefts, Start(do, w, lefts)
  PROVE  Calm'
<1>1. /\ run = Off /\ uc' = db.uc
      /\ job' = [j \in Thread |-> IF lefts[j] = 0 THEN AtRest
                                  ELSE [AtRest EXCEPT !.at = "uc", !.left = lefts[j]]]
      /\ threads' = threads /\ db' = db /\ late' = late /\ faults' = faults /\ wire' = wire
  BY DEF Start
<1>a. threads' = threads /\ wire' = wire /\ uc' = db'.uc /\ db'.uc = db.uc
  BY <1>1
<1>2. \A j \in Thread : wire[j] = <<>>
  BY <1>1 DEF IInv, Phases, Off
<1>3. \A j \in Thread : job'[j].at \in {"done", "uc"}
  BY <1>1 DEF AtRest
<1>4. Count(db.uc)
  BY DEF IInv, Types
<1>5. CountsAbove'
  <2>1. ASSUME NEW w1 \in DOMAIN db.uc PROVE db.uc[w1] >= db.uc[w1]
    BY <1>4 DEF Count
  <2> QED
    BY <1>a, <2>1 DEF CountsAbove
<1>6. NewAbove' /\ ReadsAbove'
  BY <1>1, <1>3 DEF NewAbove, ReadsAbove
<1>7. WireAbove'
  <2> SUFFICES ASSUME NEW j \in Thread', NEW n \in 1..Len(wire'[j])
               PROVE  FALSE
    BY DEF WireAbove
  <2>1. j \in Thread /\ wire'[j] = <<>>
    BY <1>a, <1>2
  <2>2. Len(wire'[j]) = 0
    BY <2>1, EmptySeq
  <2> QED
    BY <2>2
<1>8. faults \in Nat /\ (faults = 0 => NoneLate)'
  BY <1>1 DEF Calm, NoneLate
<1> QED
  BY <1>1, <1>5, <1>6, <1>7, <1>8 DEF Calm

\* While a command closes nothing is under way, so that the stored counts may move.
LEMMA CalmClosing ==
  ASSUME IInv, Calm, Close \/ Delete \/ Put \/ Exit
  PROVE  Calm'
<1>1. threads' = threads /\ late' = late /\ faults' = faults /\ job' = job /\ wire' = wire
  BY DEF Close, Delete, Put, Exit
<1>2. \A j \in Thread : job[j].at = "done"
  BY DEF Close, Delete, Put, Exit, IInv, Phases, Saving
<1>3. \A j \in Thread : wire[j] = <<>>
  BY <1>2, StoredAtRest
<1>4. run'.do \in {"close", "off"}
  BY DEF Close, Delete, Put, Exit, IInv, Saving, Off
<1>5. CountsAbove'
  BY <1>4 DEF CountsAbove, Running
<1>6. NewAbove' /\ ReadsAbove' /\ WireAbove'
  BY <1>1, <1>2, <1>3 DEF NewAbove, ReadsAbove, WireAbove
<1>7. faults \in Nat /\ (faults = 0 => NoneLate)'
  BY <1>1 DEF Calm, NoneLate
<1> QED
  BY <1>1, <1>5, <1>6, <1>7 DEF Calm

\* After a kill or a failing call nothing is claimed any more.
LEMMA CalmLate ==
  ASSUME IInv, Calm, Kill \/ (\E j \in Thread : Break(j) \/ LateDeliver(j) \/ LateDrop(j))
  PROVE  Calm'
<1>1. faults \in Nat /\ (faults = 0 => NoneLate)
  BY DEF Calm
<1>2. CASE Kill
  BY <1>1, <1>2 DEF Kill, Calm
<1>3. CASE \E j \in Thread : LateDeliver(j) \/ LateDrop(j)
  BY <1>1, <1>3 DEF LateDeliver, LateDrop, NoneLate, Calm
<1>4. CASE \E j \in Thread : Break(j)
  BY <1>1, <1>4 DEF Break, Calm
<1> QED
  BY <1>2, <1>3, <1>4

LEMMA CalmStep ==
  ASSUME IInv, Calm, NEW j \in Thread, Step(j)
  PROVE  Calm'
BY CalmReadCount, CalmZeroCount, CalmSetCount, CalmSetSum, CalmOther, CalmDeliver DEF Step

LEMMA CalmNext == IInv /\ Calm /\ [Next]_vars => Calm'
<1> SUFFICES ASSUME IInv, Calm, [Next]_vars PROVE Calm'
  OBVIOUS
<1>1. CASE UNCHANGED vars
  BY <1>1 DEF vars, Calm, CountsAbove, NewAbove, ReadsAbove, WireAbove, NoneLate, Above
<1>2. ASSUME NEW w \in Keyword, StartUpdate(w) \/ StartSearch(w) \/ StartBatch(w)
      PROVE  Calm'
  BY <1>2, CalmStart DEF StartUpdate, StartSearch, StartBatch
<1>3. CASE Next
  BY <1>2, <1>3, CalmStep, CalmClosing, CalmLate DEF Next
<1> QED
  BY <1>1, <1>3

\* The only entry a step changes is the one at the head of a stream, and its label
\* is above the stored count.
LEMMA CoveredStay ==
  ASSUME IInv, Calm, [Next]_vars, faults = 0,
         NEW w \in DOMAIN db.uc, NEW c \in 1..db.uc[w], <<w, c>> \in DOMAIN edb
  PROVE  edb'[<<w, c>>] = edb[<<w, c>>]
<1>1. ASSUME NEW j \in Thread, Deliver(j) PROVE edb'[<<w, c>>] = edb[<<w, c>>]
  <2>1. wire[j] # <<>> /\ edb' = Set(edb, Head(wire[j]).label, Head(wire[j]).entry)
    BY <1>1 DEF Deliver, Store
  <2>2. wire[j] \in Seq(Message)
    BY DEF IInv, Types
  <2>3. 1 \in 1..Len(wire[j]) /\ Head(wire[j]) = wire[j][1]
    BY <2>1, <2>2
  <2>4. Above(Head(wire[j]).label)
    BY <2>3 DEF Calm, WireAbove
  <2>5. db.uc[w] \in Nat
    BY DEF IInv, Types, Count
  <2>6. Head(wire[j]).label # <<w, c>>
    BY <2>4, <2>5 DEF Above
  <2> QED
    BY <2>1, <2>6 DEF Set
<1>2. ASSUME NEW j \in Thread PROVE ~LateDeliver(j)
  BY DEF Calm, NoneLate, LateDeliver
<1>3. ASSUME NEW j \in Thread, Step(j), ~Deliver(j) PROVE edb' = edb
  BY <1>3 DEF Step, ReadCount, ZeroCount, ReadSum, ZeroSum, SetCount, SetSum, Finish,
              Search, Verify
<1>4. ASSUME NEW v \in Keyword, StartUpdate(v) \/ StartSearch(v) \/ StartBatch(v)
      PROVE  edb' = edb
  BY <1>4 DEF StartUpdate, StartSearch, StartBatch, Start
<1>5. CASE Next
  BY <1>1, <1>2, <1>3, <1>4, <1>5 DEF Next, Break, LateDrop, Close, Delete, Put, Exit, Kill
<1> QED
  BY <1>5 DEF vars

-----------------------------------------------------------------------------
\* Unless a client was killed or a call failed, no step of any number of threads changes an entry
\* whose label a stored count covers.
THEOREM CoveredEntriesAreFinal == Spec => SavedIsFinal
<1>1. IInv /\ Calm /\ [Next]_vars =>
        [faults = 0 => \A w \in DOMAIN db.uc : \A c \in 1..db.uc[w] :
           <<w, c>> \in DOMAIN edb => edb'[<<w, c>>] = edb[<<w, c>>]]_vars
  BY CoveredStay
<1> QED
  BY InitInv, NextInv, CalmInit, CalmNext, <1>1, PTL DEF Spec, SavedIsFinal
=============================================================================
