------------------------ MODULE StatusEffectsProofs ------------------------
(* Theorems about StatusEffects, for any orders and workers.               *)
EXTENDS StatusEffects, FiniteSetTheorems, TLAPS

\* The statuses a history came to after the first.
Changes(past) == {past[k] : k \in 2 .. Len(past)}

\* How far a status is along the state machine. No status is reached twice.
Rank ==
    [s \in OSStatus |->
        CASE s = "RECEIVED" -> 0 [] s = "DIAGNOSIS" -> 1 [] s = "WAITING_APPROVAL" -> 2
          [] s = "APPROVED" -> 3 [] s = "PAID" -> 4 [] s = "EXECUTION" -> 5
          [] s = "FINISHED" -> 6 [] OTHER -> 7]

HistoryIsPast ==
    \A o \in OrderId :
        /\ status[o] = "NONE" => history[o] = <<>>
        /\ status[o] # "NONE" =>
              /\ Len(history[o]) > 0 /\ history[o][Len(history[o])] = status[o]
              /\ \A k \in 1 .. Len(history[o]) - 1 : Rank[history[o][k]] < Rank[status[o]]

\* What a worker has still to do is about a commit and has not been done.
JobFollows(j, o) ==
    /\ status[o] # "NONE"
    /\ j.at = "count" => created[o] = 0
    /\ j.at \in {"order", "customer", "publish"} => j.new # "NONE"
    /\ j.at # "count" /\ j.new # "NONE" => j.new \in Changes(history[o]) /\ measured[o][j.new] = 0
    /\ j.at \in {"customer", "publish"} => j.seen \in Changes(history[o])

JobsFollowCommits == \A w \in Worker : job[w] # Idle => JobFollows(job[w], job[w].order)

\* No two workers have the same thing to do.
Differ(i, j) ==
    i.order = j.order =>
        /\ ~ (i.at = "count" /\ j.at = "count")
        /\ i.at # "count" /\ j.at # "count" /\ i.new = j.new => i.new = "NONE"

JobsDiffer ==
    \A v, w \in Worker : v # w /\ job[v] # Idle /\ job[w] # Idle => Differ(job[v], job[w])

EffectsOf(o) ==
    /\ created[o] <= 1
    /\ created[o] > 0 => status[o] # "NONE"
    /\ \A s \in OSStatus :
          measured[o][s] <= 1 /\ (measured[o][s] > 0 => s \in Changes(history[o]))
    /\ AnnouncedOf(o) \subseteq Changes(history[o])

EffectsAreOfCommits == \A o \in OrderId : EffectsOf(o)

\* The inductive invariant: that an effect is of a commit and happens once
\* needs what the workers have still to do.
IInv == TypeOK /\ HistoryIsPast /\ JobsFollowCommits /\ JobsDiffer /\ EffectsAreOfCommits
-----------------------------------------------------------------------------
LEMMA RankGrows ==
    /\ Rank \in [OSStatus -> Nat]
    /\ \A from, to \in OSStatus : canTransition(from, to) => Rank[from] < Rank[to]
<1>1. Rank \in [OSStatus -> Nat]
  BY DEF Rank
<1>2. ASSUME NEW from \in OSStatus, NEW to \in OSStatus, canTransition(from, to)
      PROVE  Rank[from] < Rank[to]
  BY <1>2 DEF Rank, OSStatus, canTransition, VALID_TRANSITIONS
<1> QED
  BY <1>1, <1>2

LEMMA JobType ==
    ASSUME TypeOK, NEW w \in Worker, job[w] # Idle
    PROVE  /\ job[w] \in Job /\ job[w].order \in OrderId
           /\ job[w].new \in OSStatus \cup {"NONE"} /\ job[w].seen \in OSStatus \cup {"NONE"}
  BY DEF TypeOK, Job

LEMMA NoneIsNoStatus == "NONE" \notin OSStatus
  BY DEF OSStatus

\* An order that moves gets one more status, which it never had before.
LEMMA ChangesGrow ==
    ASSUME TypeOK, HistoryIsPast, NEW o \in OrderId, NEW s \in OSStatus,
           status[o] # "NONE", canTransition(status[o], s), Moves(o, s)
    PROVE  /\ Changes(history'[o]) = Changes(history[o]) \cup {s}
           /\ s \notin Changes(history[o])
           /\ \A p \in OrderId : p # o => history'[p] = history[p] /\ status'[p] = status[p]
           /\ status'[o] = s
           /\ HistoryIsPast'
<1>1. history[o] \in Seq(OSStatus) /\ status[o] \in OSStatus /\ Len(history[o]) \in Nat
  BY DEF TypeOK
<1>2. /\ history'[o] = Append(history[o], s) /\ status'[o] = s
      /\ \A p \in OrderId : p # o => history'[p] = history[p] /\ status'[p] = status[p]
  BY DEF TypeOK, Moves
<1>3. /\ Len(history'[o]) = Len(history[o]) + 1
      /\ history'[o][Len(history[o]) + 1] = s
      /\ \A k \in 1 .. Len(history[o]) : history'[o][k] = history[o][k]
  BY <1>1, <1>2
<1>4. Rank[status[o]] < Rank[s] /\ Rank \in [OSStatus -> Nat]
  BY <1>1, RankGrows
<1>5. \A k \in 1 .. Len(history[o]) : Rank[history[o][k]] < Rank[s]
  <2> SUFFICES ASSUME NEW k \in 1 .. Len(history[o]) PROVE Rank[history[o][k]] < Rank[s]
    OBVIOUS
  <2>1. CASE k = Len(history[o])
    BY <2>1, <1>4 DEF HistoryIsPast
  <2>2. CASE k # Len(history[o])
    <3>1. Rank[history[o][k]] < Rank[status[o]]
      BY <1>1, <2>2 DEF HistoryIsPast
    <3>2. history[o][k] \in OSStatus
      BY <1>1
    <3> QED
      BY <1>1, <1>4, <3>1, <3>2
  <2> QED
    BY <2>1, <2>2
<1>6. Changes(history'[o]) = Changes(history[o]) \cup {s}
  <2>1. Len(history[o]) > 0
    BY DEF HistoryIsPast
  <2> QED
    BY <1>1, <1>3, <2>1 DEF Changes
<1>7. s \notin Changes(history[o])
  <2> SUFFICES ASSUME NEW k \in 2 .. Len(history[o]), history[o][k] = s PROVE FALSE
    BY DEF Changes
  <2>1. Rank[s] < Rank[s] /\ Rank[s] \in Nat
    BY <1>1, <1>4, <1>5
  <2> QED
    BY <2>1
<1>8. HistoryIsPast'
  <2> SUFFICES ASSUME NEW p \in OrderId
               PROVE  /\ status'[p] = "NONE" => history'[p] = <<>>
                      /\ status'[p] # "NONE" =>
                            /\ Len(history'[p]) > 0 /\ history'[p][Len(history'[p])] = status'[p]
                            /\ \A k \in 1 .. Len(history'[p]) - 1 : Rank[history'[p][k]] < Rank[status'[p]]
    BY DEF HistoryIsPast
  <2>1. CASE p = o
    BY <2>1, <1>1, <1>2, <1>3, <1>5, NoneIsNoStatus
  <2>2. CASE p # o
    BY <2>2, <1>2 DEF HistoryIsPast
  <2> QED
    BY <2>1, <2>2
<1> QED
  BY <1>2, <1>6, <1>7, <1>8 DEF Changes
-----------------------------------------------------------------------------
(* The use cases.                                                          *)

\* A worker that was idle has a job; nobody else has another one.
LEMMA BeginType ==
    ASSUME TypeOK, NEW w \in Worker, NEW o \in OrderId, NEW at \in {"count", "order", "measure"},
           NEW new \in OSStatus \cup {"NONE"}, Begin(w, at, o, new)
    PROVE  /\ job' \in [Worker -> Job \cup {Idle}]
           /\ job'[w] = [at |-> at, order |-> o, new |-> new, seen |-> "NONE"]
           /\ job[w] = Idle
           /\ \A v \in Worker : v # w => job'[v] = job[v]
<1>1. [at |-> at, order |-> o, new |-> new, seen |-> "NONE"] \in Job
  BY DEF Job
<1> QED
  BY <1>1 DEF TypeOK, Begin

LEMMA OpenKeeps ==
    ASSUME IInv, NEW w \in Worker, NEW o \in OrderId, Open(w, o)
    PROVE  IInv'
<1> USE DEF IInv
<1> DEFINE j == [at |-> "count", order |-> o, new |-> "RECEIVED", seen |-> "NONE"]
<1>1. "RECEIVED" \in OSStatus /\ "RECEIVED" # "NONE"
  BY DEF OSStatus
<1>2. /\ job' \in [Worker -> Job \cup {Idle}] /\ job'[w] = j /\ job[w] = Idle
      /\ \A v \in Worker : v # w => job'[v] = job[v]
  BY <1>1, BeginType DEF Open
<1>3. /\ status[o] = "NONE" /\ history[o] = <<>>
      /\ UNCHANGED <<customers, announced, created, measured, missed>>
      /\ \A p \in OrderId : p # o => status'[p] = status[p] /\ history'[p] = history[p]
      /\ status'[o] = "RECEIVED" /\ history'[o] = Append(history[o], "RECEIVED")
  BY DEF Open, Moves, HistoryIsPast, TypeOK, effectVars
<1>4. Len(history'[o]) = 1 /\ history'[o][1] = "RECEIVED" /\ Changes(history'[o]) = {}
  BY <1>1, <1>3 DEF Changes
<1>5. TypeOK'
  <2>1. status' \in [OrderId -> OSStatus \cup {"NONE"}]
    BY <1>1 DEF TypeOK, Open, Moves
  <2>2. Append(history[o], "RECEIVED") \in Seq(OSStatus)
    BY <1>1 DEF TypeOK
  <2>3. history' \in [OrderId -> Seq(OSStatus)]
    BY <2>2 DEF TypeOK, Open, Moves
  <2> QED
    BY <2>1, <2>3, <1>2, <1>3 DEF TypeOK
<1>6. HistoryIsPast'
  <2> SUFFICES ASSUME NEW p \in OrderId
               PROVE  /\ status'[p] = "NONE" => history'[p] = <<>>
                      /\ status'[p] # "NONE" =>
                            /\ Len(history'[p]) > 0 /\ history'[p][Len(history'[p])] = status'[p]
                            /\ \A k \in 1 .. Len(history'[p]) - 1 : Rank[history'[p][k]] < Rank[status'[p]]
    BY DEF HistoryIsPast
  <2>1. CASE p = o
    BY <2>1, <1>1, <1>3, <1>4
  <2>2. CASE p # o
    BY <2>2, <1>3 DEF HistoryIsPast
  <2> QED
    BY <2>1, <2>2
<1>7. created[o] = 0 /\ Changes(history[o]) = {} /\ \A v \in Worker : job[v] # Idle => job[v].order # o
  BY <1>3 DEF TypeOK, EffectsAreOfCommits, EffectsOf, AnnouncedOf, JobsFollowCommits, JobFollows, Changes
<1>8. j # Idle
  BY DEF Idle
<1>9. JobsFollowCommits'
  <2> SUFFICES ASSUME NEW v \in Worker, job'[v] # Idle
               PROVE  JobFollows(job[v], job[v].order)'
    BY DEF JobsFollowCommits
  <2>1. CASE v = w
    BY <2>1, <1>1, <1>2, <1>3, <1>7 DEF JobFollows
  <2>2. CASE v # w
    <3>1. job'[v] = job[v] /\ job[v].order # o /\ job[v].order \in OrderId
      BY <2>2, <1>2, <1>7, JobType
    <3> QED
      BY <3>1, <1>3 DEF JobsFollowCommits, JobFollows
  <2> QED
    BY <2>1, <2>2
<1>10. JobsDiffer'
  BY <1>2, <1>7 DEF JobsDiffer, Differ
<1>11. EffectsAreOfCommits'
  <2> SUFFICES ASSUME NEW p \in OrderId PROVE EffectsOf(p)'
    BY DEF EffectsAreOfCommits
  <2>1. EffectsOf(p) /\ Changes(history'[p]) = Changes(history[p])
    BY <1>3, <1>4, <1>7 DEF EffectsAreOfCommits
  <2> QED
    BY <2>1, <1>1, <1>3 DEF EffectsOf, AnnouncedOf
<1> QED
  BY <1>5, <1>6, <1>9, <1>10, <1>11

LEMMA CommitKeeps ==
    ASSUME IInv, NEW w \in Worker, NEW o \in OrderId, NEW s \in OSStatus, Commit(w, o, s)
    PROVE  IInv'
<1> USE DEF IInv
<1> DEFINE j == [at |-> "order", order |-> o, new |-> s, seen |-> "NONE"]
<1>1. status[o] \in OSStatus /\ canTransition(status[o], s) /\ status[o] # "NONE" /\ s # "NONE"
  BY NoneIsNoStatus DEF Commit, canTransition
<1>2. /\ job' \in [Worker -> Job \cup {Idle}] /\ job'[w] = j /\ job[w] = Idle
      /\ \A v \in Worker : v # w => job'[v] = job[v]
  BY BeginType DEF Commit
<1>3. /\ Changes(history'[o]) = Changes(history[o]) \cup {s}
      /\ s \notin Changes(history[o])
      /\ \A p \in OrderId : p # o => history'[p] = history[p] /\ status'[p] = status[p]
      /\ status'[o] = s
      /\ HistoryIsPast'
      /\ UNCHANGED <<customers, announced, created, measured, missed>>
  <2>1. TypeOK /\ HistoryIsPast /\ Moves(o, s)
    BY DEF Commit
  <2>2. UNCHANGED <<customers, announced, created, measured, missed>>
    BY DEF Commit, Moves, effectVars
  <2> QED
    BY <1>1, <2>1, <2>2, ChangesGrow
<1>4. \A p \in OrderId : /\ Changes(history[p]) \subseteq Changes(history'[p])
                        /\ status[p] # "NONE" => status'[p] # "NONE"
  BY <1>1, <1>3
<1>5. TypeOK'
  <2>1. status' \in [OrderId -> OSStatus \cup {"NONE"}]
    BY DEF TypeOK, Commit, Moves
  <2>2. Append(history[o], s) \in Seq(OSStatus)
    BY DEF TypeOK
  <2>3. history' \in [OrderId -> Seq(OSStatus)]
    BY <2>2 DEF TypeOK, Commit, Moves
  <2> QED
    BY <2>1, <2>3, <1>2, <1>3 DEF TypeOK
<1>6. j # Idle /\ measured[o][s] = 0
  BY <1>3 DEF Idle, TypeOK, EffectsAreOfCommits, EffectsOf, AnnouncedOf
<1>7. JobsFollowCommits'
  <2> SUFFICES ASSUME NEW v \in Worker, job'[v] # Idle
               PROVE  JobFollows(job[v], job[v].order)'
    BY DEF JobsFollowCommits
  <2>1. CASE v = w
    BY <2>1, <1>1, <1>2, <1>3, <1>6 DEF JobFollows
  <2>2. CASE v # w
    <3>1. job'[v] = job[v] /\ job[v] # Idle /\ job[v].order \in OrderId
      BY <2>2, <1>2, JobType
    <3>2. JobFollows(job[v], job[v].order)
      BY <3>1 DEF JobsFollowCommits
    <3> QED
      BY <3>1, <3>2, <1>3, <1>4 DEF JobFollows
  <2> QED
    BY <2>1, <2>2
<1>8. JobsDiffer'
  <2>1. \A v \in Worker : job[v] # Idle /\ job[v].order = o => job[v].new # s \/ job[v].at = "count"
    BY <1>1, <1>3 DEF JobsFollowCommits, JobFollows
  <2> QED
    BY <2>1, <1>2 DEF JobsDiffer, Differ
<1>9. EffectsAreOfCommits'
  BY <1>3, <1>4 DEF EffectsAreOfCommits, EffectsOf, AnnouncedOf
<1> QED
  BY <1>3, <1>5, <1>7, <1>8, <1>9

LEMMA NoNewsKeeps ==
    ASSUME IInv, NEW w \in Worker, NEW o \in OrderId, NoNews(w, o)
    PROVE  IInv'
<1> USE DEF IInv
<1> DEFINE j == [at |-> "measure", order |-> o, new |-> "NONE", seen |-> "NONE"]
<1>1. /\ job' \in [Worker -> Job \cup {Idle}] /\ job'[w] = j /\ job[w] = Idle
      /\ \A v \in Worker : v # w => job'[v] = job[v]
      /\ status[o] # "NONE"
      /\ UNCHANGED <<status, history, customers, announced, created, measured, missed>>
  BY BeginType DEF NoNews, orderVars, effectVars
<1>2. TypeOK' /\ HistoryIsPast' /\ EffectsAreOfCommits'
  BY <1>1 DEF TypeOK, HistoryIsPast, EffectsAreOfCommits, EffectsOf, AnnouncedOf
<1>3. JobsFollowCommits'
  BY <1>1 DEF JobsFollowCommits, JobFollows
<1>4. JobsDiffer'
  BY <1>1 DEF JobsDiffer, Differ
<1> QED
  BY <1>2, <1>3, <1>4

LEMMA CustomerLeavesKeeps ==
    ASSUME IInv, NEW o \in OrderId, CustomerLeaves(o)
    PROVE  IInv'
<1>1. UNCHANGED <<status, history, job, announced, created, measured, missed>> /\ customers' \subseteq customers
  BY DEF CustomerLeaves, effectVars
<1>2. TypeOK'
  BY <1>1 DEF IInv, TypeOK
<1>3. HistoryIsPast' /\ EffectsAreOfCommits'
  BY <1>1 DEF IInv, HistoryIsPast, EffectsAreOfCommits, EffectsOf, AnnouncedOf
<1>4. JobsFollowCommits' /\ JobsDiffer'
  BY <1>1 DEF IInv, JobsFollowCommits, JobFollows, JobsDiffer, Differ
<1> QED
  BY <1>2, <1>3, <1>4 DEF IInv
-----------------------------------------------------------------------------
(* The effects.                                                            *)

\* A worker that goes on with its job.
LEMMA GoingOn ==
    ASSUME TypeOK, JobsFollowCommits, JobsDiffer, NEW w \in Worker, NEW j \in Job,
           job[w] # Idle, job[w].at \in {"order", "customer", "publish"}, job' = [job EXCEPT ![w] = j],
           j.order = job[w].order, j.new = job[w].new, j.at \in {"customer", "publish", "measure"},
           j.at \in {"customer", "publish"} => j.seen \in Changes(history[j.order]),
           UNCHANGED <<orderVars, created, measured>>
    PROVE  /\ job' \in [Worker -> Job \cup {Idle}]
           /\ JobsFollowCommits'
           /\ JobsDiffer'
<1>1. /\ job'[w] = j
      /\ \A v \in Worker : v # w => job'[v] = job[v]
      /\ job' \in [Worker -> Job \cup {Idle}]
  BY DEF TypeOK
<1>2. UNCHANGED <<status, history, created, measured>>
  BY DEF orderVars
<1>3. JobsFollowCommits'
  <2> SUFFICES ASSUME NEW v \in Worker, job'[v] # Idle
               PROVE  JobFollows(job[v], job[v].order)'
    BY DEF JobsFollowCommits
  <2>1. CASE v = w
    <3>1. JobFollows(job[w], job[w].order)
      BY DEF JobsFollowCommits
    <3> QED
      BY <2>1, <3>1, <1>1, <1>2 DEF JobFollows
  <2>2. CASE v # w
    BY <2>2, <1>1, <1>2 DEF JobsFollowCommits, JobFollows
  <2> QED
    BY <2>1, <2>2
<1>4. JobsDiffer'
  <2>1. \A v \in Worker : v # w /\ job[v] # Idle => Differ(job[v], j) /\ Differ(j, job[v])
    BY DEF JobsDiffer, Differ
  <2> QED
    BY <1>1, <2>1 DEF JobsDiffer
<1> QED
  BY <1>1, <1>3, <1>4

\* A worker that is done, after it counted or measured what nobody else will.
LEMMA BeingDone ==
    ASSUME TypeOK, JobsFollowCommits, JobsDiffer, NEW w \in Worker, job[w] # Idle, Done(w),
           UNCHANGED orderVars,
           \A v \in Worker : v # w /\ job[v] # Idle =>
                /\ job[v].at = "count" => created'[job[v].order] = created[job[v].order]
                /\ job[v].at # "count" /\ job[v].new # "NONE" =>
                      measured'[job[v].order][job[v].new] = measured[job[v].order][job[v].new]
    PROVE  /\ job' \in [Worker -> Job \cup {Idle}]
           /\ JobsFollowCommits'
           /\ JobsDiffer'
<1>1. /\ job'[w] = Idle
      /\ \A v \in Worker : v # w => job'[v] = job[v]
      /\ job' \in [Worker -> Job \cup {Idle}]
  BY DEF TypeOK, Done
<1>2. UNCHANGED <<status, history>>
  BY DEF orderVars
<1>3. JobsFollowCommits'
  <2> SUFFICES ASSUME NEW v \in Worker, job'[v] # Idle
               PROVE  JobFollows(job[v], job[v].order)'
    BY DEF JobsFollowCommits
  <2>1. v # w /\ job'[v] = job[v] /\ JobFollows(job[v], job[v].order)
    BY <1>1 DEF JobsFollowCommits
  <2> QED
    BY <2>1, <1>2 DEF JobFollows
<1>4. JobsDiffer'
  BY <1>1 DEF JobsDiffer
<1> QED
  BY <1>1, <1>3, <1>4

LEMMA NotifyKeeps ==
    ASSUME IInv, NEW w \in Worker, ReadOrder(w) \/ ReadCustomer(w) \/ NotifyFails(w)
    PROVE  IInv'
<1> DEFINE old == job[w]
           o == job[w].order
<1>1. /\ old # Idle /\ old.at \in {"order", "customer", "publish"}
      /\ UNCHANGED <<orderVars, announced, created, measured>>
      /\ missed' = missed \/ missed' = missed \cup {o}
  BY DEF ReadOrder, ReadCustomer, NotifyFails, At, effectVars
<1>2. /\ old \in Job /\ o \in OrderId
      /\ JobFollows(old, o) /\ status[o] \in OSStatus \cup {"NONE"}
  BY <1>1, JobType DEF IInv, TypeOK, JobsFollowCommits
<1>3. PICK j \in Job : /\ job' = [job EXCEPT ![w] = j] /\ j.order = o /\ j.new = old.new
                       /\ j.at \in {"customer", "publish", "measure"}
                       /\ j.at \in {"customer", "publish"} => j.seen \in Changes(history[o])
  <2>1. CASE ReadOrder(w)
    <3>1. [old EXCEPT !.at = "customer", !.seen = status[o]] \in Job
      BY <1>2 DEF Job
    <3>2. status[o] \in Changes(history[o])
      <4>1. history[o] \in Seq(OSStatus) /\ Len(history[o]) \in Nat
        BY <1>2 DEF IInv, TypeOK
      <4>2. old.new \in Changes(history[o]) /\ status[o] # "NONE"
        BY <1>2, <2>1 DEF JobFollows, ReadOrder, At
      <4>3. Len(history[o]) >= 2
        BY <4>1, <4>2 DEF Changes
      <4>4. status[o] = history[o][Len(history[o])]
        BY <1>2, <4>2 DEF IInv, HistoryIsPast
      <4> QED
        BY <4>1, <4>3, <4>4 DEF Changes
    <3>3. job' = [job EXCEPT ![w] = [old EXCEPT !.at = "customer", !.seen = status[o]]]
      BY <2>1 DEF ReadOrder
    <3> QED
      BY <1>2, <3>1, <3>2, <3>3 DEF Job
  <2>2. CASE ReadCustomer(w) \/ NotifyFails(w)
    <3>1. PICK at \in {"publish", "measure"} : GoTo(w, at) /\ (at = "publish" => old.at = "customer")
      BY <2>2 DEF ReadCustomer, NotifyFails, At
    <3>2. [old EXCEPT !.at = at] \in Job
      BY <1>2 DEF Job
    <3>3. job' = [job EXCEPT ![w] = [old EXCEPT !.at = at]]
      BY <3>1 DEF GoTo
    <3> QED
      BY <1>2, <3>1, <3>2, <3>3 DEF Job, JobFollows
  <2> QED
    BY <2>1, <2>2
<1>4. /\ job' \in [Worker -> Job \cup {Idle}] /\ JobsFollowCommits' /\ JobsDiffer'
  BY <1>1, <1>3, GoingOn DEF IInv
<1>5. TypeOK'
  BY <1>1, <1>2, <1>4 DEF IInv, TypeOK, orderVars
<1>6. HistoryIsPast' /\ EffectsAreOfCommits'
  BY <1>1 DEF IInv, HistoryIsPast, EffectsAreOfCommits, EffectsOf, AnnouncedOf, orderVars
<1> QED
  BY <1>4, <1>5, <1>6 DEF IInv

\* What is appended is among the changes, whichever of them is seen.
LEMMA PublishKeeps ==
    ASSUME IInv, NEW w \in Worker, Publish(w)
    PROVE  IInv'
<1> DEFINE old == job[w]
           o == job[w].order
<1>1. /\ old # Idle /\ old.at = "publish"
      /\ UNCHANGED <<orderVars, created, measured, missed>>
      /\ announced' = [announced EXCEPT ![o] = Append(@, old.seen)]
      /\ job' = [job EXCEPT ![w] = [old EXCEPT !.at = "measure"]]
  BY DEF Publish, At, GoTo
<1>2. /\ old \in Job /\ o \in OrderId /\ old.seen \in Changes(history[o])
      /\ [old EXCEPT !.at = "measure"] \in Job
      /\ [old EXCEPT !.at = "measure"].at = "measure"
      /\ [old EXCEPT !.at = "measure"].order = o
      /\ [old EXCEPT !.at = "measure"].new = old.new
  BY <1>1, JobType DEF IInv, JobsFollowCommits, JobFollows, Job
<1>3. /\ job' \in [Worker -> Job \cup {Idle}] /\ JobsFollowCommits' /\ JobsDiffer'
  BY <1>1, <1>2, GoingOn DEF IInv
<1>4. old.seen \in OSStatus
  BY <1>2 DEF IInv, TypeOK, Changes
<1>5. /\ announced' \in [OrderId -> Seq(OSStatus)]
      /\ announced'[o] = Append(announced[o], old.seen)
      /\ \A p \in OrderId : p # o => announced'[p] = announced[p]
  BY <1>1, <1>2, <1>4 DEF IInv, TypeOK
<1>6. TypeOK'
  BY <1>1, <1>3, <1>5 DEF IInv, TypeOK, orderVars
<1>7. HistoryIsPast'
  BY <1>1 DEF IInv, HistoryIsPast, orderVars
<1>8. EffectsAreOfCommits'
  <2> SUFFICES ASSUME NEW p \in OrderId PROVE EffectsOf(p)'
    BY DEF EffectsAreOfCommits
  <2>1. EffectsOf(p)
    BY DEF IInv, EffectsAreOfCommits
  <2>2. AnnouncedOf(p)' \subseteq Changes(history[p])
    <3>1. CASE p = o
      <4>1. announced[p] \in Seq(OSStatus) /\ announced'[p] = Append(announced[p], old.seen)
        BY <1>5, <3>1 DEF IInv, TypeOK
      <4>2. /\ Len(announced'[p]) = Len(announced[p]) + 1 /\ announced'[p] \in Seq(OSStatus)
            /\ announced'[p][Len(announced[p]) + 1] = old.seen
            /\ \A k \in 1 .. Len(announced[p]) : announced'[p][k] = announced[p][k]
        BY <1>4, <4>1
      <4>3. \A k \in DOMAIN announced'[p] : announced'[p][k] \in AnnouncedOf(p) \cup {old.seen}
        BY <4>1, <4>2 DEF AnnouncedOf
      <4> QED
        BY <1>2, <2>1, <3>1, <4>3 DEF EffectsOf, AnnouncedOf
    <3>2. CASE p # o
      BY <2>1, <1>5, <3>2 DEF EffectsOf, AnnouncedOf
    <3> QED
      BY <3>1, <3>2
  <2> QED
    BY <2>1, <2>2, <1>1 DEF EffectsOf, AnnouncedOf, orderVars
<1> QED
  BY <1>3, <1>6, <1>7, <1>8 DEF IInv

LEMMA CountKeeps ==
    ASSUME IInv, NEW w \in Worker, Count(w)
    PROVE  IInv'
<1> DEFINE o == job[w].order
<1>1. /\ job[w] # Idle /\ job[w].at = "count" /\ Done(w)
      /\ UNCHANGED <<orderVars, announced, measured, missed>>
      /\ created' = [created EXCEPT ![o] = @ + 1]
  BY DEF Count, At
<1>2. o \in OrderId /\ created[o] = 0 /\ status[o] # "NONE"
  BY <1>1, JobType DEF IInv, JobsFollowCommits, JobFollows
<1>3. /\ created' \in [OrderId -> Nat] /\ created'[o] = 1
      /\ \A p \in OrderId : p # o => created'[p] = created[p]
  BY <1>1, <1>2 DEF IInv, TypeOK
<1>4. \A v \in Worker : v # w /\ job[v] # Idle =>
          /\ job[v].order \in OrderId
          /\ job[v].at = "count" => job[v].order # o
  BY <1>1, JobType DEF IInv, JobsDiffer, Differ
<1>5. /\ job' \in [Worker -> Job \cup {Idle}] /\ JobsFollowCommits' /\ JobsDiffer'
  BY <1>1, <1>3, <1>4, BeingDone DEF IInv
<1>6. TypeOK' /\ HistoryIsPast'
  BY <1>1, <1>3, <1>5 DEF IInv, TypeOK, HistoryIsPast, orderVars
<1>7. EffectsAreOfCommits'
  BY <1>1, <1>2, <1>3 DEF IInv, EffectsAreOfCommits, EffectsOf, AnnouncedOf, orderVars
<1> QED
  BY <1>5, <1>6, <1>7 DEF IInv

LEMMA MeasureKeeps ==
    ASSUME IInv, NEW w \in Worker, Measure(w)
    PROVE  IInv'
<1> DEFINE o == job[w].order
           new == job[w].new
<1>1. /\ job[w] # Idle /\ job[w].at = "measure" /\ Done(w)
      /\ UNCHANGED <<orderVars, announced, created, missed>>
      /\ measured' = IF new = "NONE" THEN measured ELSE [measured EXCEPT ![o][new] = @ + 1]
  BY DEF Measure, At
<1>2. /\ o \in OrderId /\ new \in OSStatus \cup {"NONE"}
      /\ new # "NONE" => new \in Changes(history[o]) /\ measured[o][new] = 0
  BY <1>1, JobType DEF IInv, JobsFollowCommits, JobFollows
<1>3. /\ measured' \in [OrderId -> [OSStatus -> Nat]]
      /\ \A p \in OrderId, s \in OSStatus :
            measured'[p][s] = IF p = o /\ s = new THEN 1 ELSE measured[p][s]
  BY <1>1, <1>2, NoneIsNoStatus DEF IInv, TypeOK
<1>4. \A v \in Worker : v # w /\ job[v] # Idle =>
          /\ job[v].order \in OrderId /\ job[v].new \in OSStatus \cup {"NONE"}
          /\ job[v].at # "count" /\ job[v].new # "NONE" => job[v].order # o \/ job[v].new # new
  BY <1>1, JobType DEF IInv, JobsDiffer, Differ
<1>5. /\ job' \in [Worker -> Job \cup {Idle}] /\ JobsFollowCommits' /\ JobsDiffer'
  BY <1>1, <1>3, <1>4, BeingDone DEF IInv
<1>6. TypeOK' /\ HistoryIsPast'
  BY <1>1, <1>3, <1>5 DEF IInv, TypeOK, HistoryIsPast, orderVars
<1>7. EffectsAreOfCommits'
  <2> SUFFICES ASSUME NEW p \in OrderId PROVE EffectsOf(p)'
    BY DEF EffectsAreOfCommits
  <2>1. EffectsOf(p)
    BY DEF IInv, EffectsAreOfCommits
  <2>2. \A s \in OSStatus :
            measured'[p][s] <= 1 /\ (measured'[p][s] > 0 => s \in Changes(history[p]))
    BY <2>1, <1>2, <1>3, NoneIsNoStatus DEF EffectsOf
  <2> QED
    BY <2>1, <2>2, <1>1 DEF EffectsOf, AnnouncedOf, orderVars
<1> QED
  BY <1>5, <1>6, <1>7 DEF IInv

LEMMA CrashKeeps ==
    ASSUME IInv, NEW w \in Worker, Crash(w)
    PROVE  IInv'
<1>1. /\ job[w] # Idle /\ Done(w)
      /\ UNCHANGED <<orderVars, announced, created, measured>>
      /\ missed' = missed \cup {job[w].order}
  BY DEF Crash
<1>2. /\ job' \in [Worker -> Job \cup {Idle}] /\ JobsFollowCommits' /\ JobsDiffer'
  BY <1>1, BeingDone DEF IInv
<1>3. TypeOK'
  BY <1>1, <1>2, JobType DEF IInv, TypeOK, orderVars
<1>4. HistoryIsPast' /\ EffectsAreOfCommits'
  BY <1>1 DEF IInv, HistoryIsPast, EffectsAreOfCommits, EffectsOf, AnnouncedOf, orderVars
<1> QED
  BY <1>2, <1>3, <1>4 DEF IInv
-----------------------------------------------------------------------------
\* What the model begins with, of an order that is not opened and of one that
\* is being repaired.
LEMMA Beginnings ==
    ASSUME Init, NEW o \in OrderId
    PROVE  \/ /\ history[o] = <<>> /\ status[o] = "NONE" /\ announced[o] = <<>> /\ created[o] = 0
              /\ \A s \in OSStatus : measured[o][s] = 0
              /\ Changes(history[o]) = {}
           \/ /\ history[o] = UnderRepair /\ status[o] = "EXECUTION" /\ created[o] = 1
              /\ announced[o] = <<"DIAGNOSIS", "WAITING_APPROVAL", "APPROVED", "PAID", "EXECUTION">>
              /\ \A s \in OSStatus : measured[o][s] \in {0, 1}
              /\ \A s \in OSStatus : measured[o][s] > 0 => s \in Changes(history[o])
              /\ Changes(history[o])
                    = {"DIAGNOSIS", "WAITING_APPROVAL", "APPROVED", "PAID", "EXECUTION"}
<1>1. UnderRepair # <<>> /\ history[o] \in {<<>>, UnderRepair}
  BY DEF Init, UnderRepair
<1>2. CASE history[o] = <<>>
  <2>1. Changes(history[o]) = {}
    BY <1>2 DEF Changes
  <2>2. \A k \in 2 .. Len(history[o]) : FALSE
    BY <1>2
  <2> QED
    BY <1>2, <2>1, <2>2 DEF Init
<1>3. CASE history[o] = UnderRepair
  <2>1. Len(UnderRepair) = 6
    BY DEF UnderRepair
  <2>2. Changes(UnderRepair) = {"DIAGNOSIS", "WAITING_APPROVAL", "APPROVED", "PAID", "EXECUTION"}
    <3>1. Changes(UnderRepair) = {UnderRepair[2], UnderRepair[3], UnderRepair[4], UnderRepair[5], UnderRepair[6]}
      BY <2>1 DEF Changes
    <3> QED
      BY <3>1 DEF UnderRepair
  <2>3. Tail(UnderRepair) = <<"DIAGNOSIS", "WAITING_APPROVAL", "APPROVED", "PAID", "EXECUTION">>
    BY DEF UnderRepair
  <2>4. /\ status[o] = "EXECUTION" /\ created[o] = 1 /\ announced[o] = Tail(UnderRepair)
        /\ \A s \in OSStatus : measured[o][s] =
              IF \E k \in 2 .. Len(history[o]) : history[o][k] = s THEN 1 ELSE 0
    BY <1>1, <1>3 DEF Init
  <2>5. \A s \in OSStatus : measured[o][s] > 0 => s \in Changes(history[o])
    BY <2>4 DEF Changes
  <2> QED
    BY <1>3, <2>2, <2>3, <2>4, <2>5
<1> QED
  BY <1>1, <1>2, <1>3

LEMMA InvInit == Init => IInv
<1> SUFFICES ASSUME Init PROVE IInv
  OBVIOUS
<1>1. TypeOK
  <2>1. <<>> \in Seq(OSStatus) /\ UnderRepair \in Seq(OSStatus) /\ Tail(UnderRepair) \in Seq(OSStatus)
    BY DEF UnderRepair, OSStatus
  <2> QED
    BY <2>1 DEF Init, TypeOK, OSStatus
<1>2. HistoryIsPast
  <2> SUFFICES ASSUME NEW o \in OrderId
               PROVE  /\ status[o] = "NONE" => history[o] = <<>>
                      /\ status[o] # "NONE" =>
                            /\ Len(history[o]) > 0 /\ history[o][Len(history[o])] = status[o]
                            /\ \A k \in 1 .. Len(history[o]) - 1 : Rank[history[o][k]] < Rank[status[o]]
    BY DEF HistoryIsPast
  <2>1. /\ Len(UnderRepair) = 6 /\ UnderRepair[6] = "EXECUTION"
        /\ \A k \in 1 .. 5 : UnderRepair[k] \in {"RECEIVED", "DIAGNOSIS", "WAITING_APPROVAL", "APPROVED", "PAID"}
    BY DEF UnderRepair
  <2>2. \A s \in {"RECEIVED", "DIAGNOSIS", "WAITING_APPROVAL", "APPROVED", "PAID"} : Rank[s] < Rank["EXECUTION"]
    BY DEF Rank, OSStatus
  <2>3. CASE history[o] = <<>> /\ status[o] = "NONE"
    BY <2>3
  <2>4. CASE history[o] = UnderRepair /\ status[o] = "EXECUTION"
    <3>1. \A k \in 1 .. Len(UnderRepair) - 1 : Rank[UnderRepair[k]] < Rank["EXECUTION"]
      BY <2>1, <2>2
    <3>2. Len(history[o]) > 0 /\ history[o][Len(history[o])] = status[o] /\ status[o] # "NONE"
      <4>1. Len(UnderRepair) > 0 /\ UnderRepair[Len(UnderRepair)] = "EXECUTION"
        BY <2>1
      <4>2. "EXECUTION" # "NONE"
        OBVIOUS
      <4> QED
        BY <2>4, <4>1, <4>2
    <3> QED
      BY <2>4, <3>1, <3>2
  <2> QED
    BY <2>3, <2>4, Beginnings
<1>3. JobsFollowCommits /\ JobsDiffer
  BY DEF Init, JobsFollowCommits, JobsDiffer
<1>4. EffectsAreOfCommits
  <2> SUFFICES ASSUME NEW o \in OrderId PROVE EffectsOf(o)
    BY DEF EffectsAreOfCommits
  <2>1. CASE history[o] = <<>>
    <3>1. announced[o] = <<>> /\ created[o] = 0 /\ \A s \in OSStatus : measured[o][s] = 0
      <4>1. history[o] # UnderRepair
        BY <2>1 DEF UnderRepair
      <4> QED
        BY <4>1, Beginnings
    <3>2. AnnouncedOf(o) = {}
      BY <3>1 DEF AnnouncedOf
    <3> QED
      BY <3>1, <3>2 DEF EffectsOf
  <2>2. CASE history[o] = UnderRepair
    <3>1. /\ announced[o] = <<"DIAGNOSIS", "WAITING_APPROVAL", "APPROVED", "PAID", "EXECUTION">>
          /\ created[o] = 1 /\ status[o] = "EXECUTION"
          /\ \A s \in OSStatus : measured[o][s] <= 1 /\ (measured[o][s] > 0 => s \in Changes(history[o]))
          /\ Changes(history[o]) = {"DIAGNOSIS", "WAITING_APPROVAL", "APPROVED", "PAID", "EXECUTION"}
      <4>1. history[o] # <<>>
        BY <2>2 DEF UnderRepair
      <4>2. /\ announced[o] = <<"DIAGNOSIS", "WAITING_APPROVAL", "APPROVED", "PAID", "EXECUTION">>
            /\ created[o] = 1 /\ status[o] = "EXECUTION"
            /\ Changes(history[o]) = {"DIAGNOSIS", "WAITING_APPROVAL", "APPROVED", "PAID", "EXECUTION"}
        BY <4>1, Beginnings
      <4>3. \A s \in OSStatus : measured[o][s] \in {0, 1} /\ (measured[o][s] > 0 => s \in Changes(history[o]))
        BY <4>1, Beginnings
      <4> QED
        BY <4>2, <4>3
    <3>2. AnnouncedOf(o) \subseteq Changes(history[o])
      BY <3>1 DEF AnnouncedOf
    <3> QED
      BY <3>1, <3>2 DEF EffectsOf
  <2> QED
    BY <2>1, <2>2, Beginnings
<1> QED
  BY <1>1, <1>2, <1>3, <1>4 DEF IInv

LEMMA InvAlways == Spec => []IInv
<1>1. IInv /\ [Next]_vars => IInv'
  <2> SUFFICES ASSUME IInv, [Next]_vars PROVE IInv'
    OBVIOUS
  <2>1. CASE UNCHANGED vars
    BY <2>1 DEF vars, orderVars, effectVars, IInv, TypeOK, HistoryIsPast, JobsFollowCommits,
       JobFollows, JobsDiffer, Differ, EffectsAreOfCommits, EffectsOf, AnnouncedOf
  <2>2. CASE Next
    BY <2>2, OpenKeeps, CommitKeeps, NoNewsKeeps, CustomerLeavesKeeps, NotifyKeeps, PublishKeeps,
       CountKeeps, MeasureKeeps, CrashKeeps DEF Next, Effects
  <2> QED
    BY <2>1, <2>2
<1> QED
  BY InvInit, <1>1, PTL DEF Spec

\* The orders, the jobs and the counters keep their types, for any orders and
\* workers.
THEOREM TypeCorrect == Spec => []TypeOK
<1>1. IInv => TypeOK
  BY DEF IInv
<1> QED
  BY <1>1, InvAlways, PTL

-----------------------------------------------------------------------------
(* No more is announced than happened.                                     *)

Telling(j, o) == j # Idle /\ j.order = o /\ j.at \in {"order", "customer", "publish"}

\* The changes that no worker has still to announce: the announcement of each
\* was made, or was given up.
Settled(o) ==
    {s \in Changes(history[o]) : \A w \in Worker : Telling(job[w], o) => job[w].new # s}

\* What a worker has still to announce is counted on neither side.
AnnouncedOnce == \A o \in OrderId : Len(announced[o]) <= Cardinality(Settled(o))

LEMMA ChangesFinite ==
    ASSUME NEW past \in Seq(OSStatus), NEW part \in SUBSET Changes(past)
    PROVE  IsFiniteSet(part) /\ Cardinality(part) \in Nat
<1> DEFINE steps == 2 .. Len(past)
           f == [k \in steps |-> past[k]]
<1>1. IsFiniteSet(steps)
  BY FS_Interval
<1>2. f \in Surjection(steps, Changes(past))
  BY DEF Surjection, Changes
<1>3. IsFiniteSet(Changes(past))
  BY <1>1, <1>2, FS_Surjection
<1> QED
  BY <1>3, FS_Subset, FS_CardinalityType

\* A step after which no change is less settled, and nothing more was announced.
LEMMA SettledKept ==
    ASSUME TypeOK', NEW o \in OrderId, Len(announced[o]) <= Cardinality(Settled(o)), TypeOK,
           announced'[o] = announced[o], Changes(history[o]) \subseteq Changes(history'[o]),
           \A w \in Worker : Telling(job'[w], o) =>
              \/ Telling(job[w], o) /\ job'[w].new = job[w].new
              \/ job'[w].new \notin Changes(history[o])
    PROVE  Len(announced'[o]) <= Cardinality(Settled(o)')
<1>1. Settled(o) \in SUBSET Settled(o)'
  BY DEF Settled
<1>2. IsFiniteSet(Settled(o)') /\ Cardinality(Settled(o)') \in Nat
  <2>1. history'[o] \in Seq(OSStatus)
    BY DEF TypeOK
  <2>2. Settled(o)' \in SUBSET Changes(history'[o])
    BY DEF Settled
  <2> QED
    BY <2>1, <2>2, ChangesFinite
<1>3. Cardinality(Settled(o)) <= Cardinality(Settled(o)') /\ Cardinality(Settled(o)) \in Nat
  <2>1. history[o] \in Seq(OSStatus) /\ Settled(o) \in SUBSET Changes(history[o])
    BY DEF TypeOK, Settled
  <2> QED
    BY <1>1, <1>2, <2>1, FS_Subset, ChangesFinite
<1>4. Len(announced[o]) \in Nat
  BY DEF TypeOK
<1> QED
  BY <1>2, <1>3, <1>4

\* The step that announces: one more event, for one more change that is settled.
LEMMA PublishSettles ==
    ASSUME IInv, AnnouncedOnce, TypeOK', NEW w \in Worker, Publish(w), NEW o \in OrderId
    PROVE  Len(announced'[o]) <= Cardinality(Settled(o)')
<1>1. /\ job[w] # Idle /\ job[w].at = "publish" /\ job[w] \in Job
      /\ UNCHANGED <<status, history>>
      /\ announced' = [announced EXCEPT ![job[w].order] = Append(@, job[w].seen)]
      /\ job' = [job EXCEPT ![w] = [job[w] EXCEPT !.at = "measure"]]
  BY JobType DEF IInv, Publish, At, GoTo, orderVars
<1>2. /\ job'[w].at = "measure" /\ \A v \in Worker : v # w => job'[v] = job[v]
  BY <1>1 DEF IInv, TypeOK, Job
<1>3. ~ Telling(job'[w], o)
  BY <1>2 DEF Telling
<1>4. Len(announced[o]) <= Cardinality(Settled(o)) /\ TypeOK
  BY DEF AnnouncedOnce, IInv
<1>5. CASE job[w].order # o
  <2>1. announced'[o] = announced[o]
    BY <1>1, <1>4, <1>5 DEF TypeOK
  <2> QED
    BY <1>1, <1>2, <1>3, <1>4, <2>1, SettledKept
<1>6. CASE job[w].order = o
  <2>1. PICK new \in OSStatus \cup {"NONE"} : new = job[w].new
    BY <1>1 DEF Job
  <2>2. new \in Changes(history[o])
    BY <1>1, <1>6, <2>1 DEF IInv, JobsFollowCommits, JobFollows
  <2>3. new \notin Settled(o)
    BY <1>1, <1>6, <2>1 DEF Settled, Telling
  <2>4. Settled(o) \cup {new} \in SUBSET Settled(o)'
    <3>1. ASSUME NEW v \in Worker, Telling(job'[v], o)
          PROVE  v # w /\ Telling(job[v], o) /\ job'[v].new = job[v].new /\ job[v].new # new
      <4>1. v # w /\ job'[v] = job[v] /\ Telling(job[v], o)
        BY <1>2, <1>3, <3>1
      <4>2. Differ(job[v], job[w])
        BY <1>1, <4>1 DEF IInv, JobsDiffer, Telling
      <4> QED
        BY <1>1, <1>6, <2>1, <2>2, <4>1, <4>2 DEF Differ, Telling, IInv, JobsFollowCommits, JobFollows
    <3>2. \A s \in Settled(o) \cup {new} : s \in Changes(history'[o])
      BY <1>1, <2>2 DEF Settled
    <3> QED
      BY <3>1, <3>2 DEF Settled
  <2>5. /\ IsFiniteSet(Settled(o)) /\ Cardinality(Settled(o)) \in Nat
        /\ IsFiniteSet(Settled(o)') /\ Cardinality(Settled(o)') \in Nat
    <3>1. /\ history[o] \in Seq(OSStatus) /\ Settled(o) \in SUBSET Changes(history[o])
          /\ history'[o] \in Seq(OSStatus) /\ Settled(o)' \in SUBSET Changes(history'[o])
      BY <1>4 DEF TypeOK, Settled
    <3> QED
      BY <3>1, ChangesFinite
  <2>6. Cardinality(Settled(o) \cup {new}) <= Cardinality(Settled(o)')
    BY <2>4, <2>5, FS_Subset
  <2>7. Cardinality(Settled(o) \cup {new}) = Cardinality(Settled(o)) + 1
    BY <2>3, <2>5, FS_AddElement
  <2>8. Len(announced[o]) \in Nat /\ Len(announced'[o]) = Len(announced[o]) + 1
    <3>1. announced[o] \in Seq(OSStatus) /\ announced'[o] = Append(announced[o], job[w].seen)
      BY <1>1, <1>4, <1>6 DEF TypeOK
    <3>2. job[w].seen \in OSStatus
      BY <1>1, <1>6 DEF IInv, JobsFollowCommits, JobFollows, TypeOK, Changes
    <3> QED
      BY <3>1, <3>2
  <2> QED
    BY <1>4, <2>5, <2>6, <2>7, <2>8
<1> QED
  BY <1>5, <1>6

LEMMA FiveStatuses ==
    Cardinality({"DIAGNOSIS", "WAITING_APPROVAL", "APPROVED", "PAID", "EXECUTION"}) = 5
<1> DEFINE two == {"DIAGNOSIS"} \cup {"WAITING_APPROVAL"}
           three == two \cup {"APPROVED"}
           four == three \cup {"PAID"}
           five == four \cup {"EXECUTION"}
<1>1. IsFiniteSet({"DIAGNOSIS"}) /\ Cardinality({"DIAGNOSIS"}) = 1
  BY FS_Singleton
<1>2. IsFiniteSet(two) /\ Cardinality(two) = 2
  BY <1>1, FS_AddElement
<1>3. "APPROVED" \notin two /\ "PAID" \notin three /\ "EXECUTION" \notin four
  OBVIOUS
<1> HIDE DEF two
<1>4. IsFiniteSet(three) /\ Cardinality(three) = 3
  BY <1>2, <1>3, FS_AddElement
<1> HIDE DEF three
<1>5. IsFiniteSet(four) /\ Cardinality(four) = 4
  BY <1>3, <1>4, FS_AddElement
<1> HIDE DEF four
<1>6. IsFiniteSet(five) /\ Cardinality(five) = 5
  BY <1>3, <1>5, FS_AddElement
<1>7. five = {"DIAGNOSIS", "WAITING_APPROVAL", "APPROVED", "PAID", "EXECUTION"}
  BY DEF two, three, four
<1> QED
  BY <1>6, <1>7

LEMMA AnnouncedOnceAlways == Spec => []AnnouncedOnce
<1>1. Init => AnnouncedOnce
  <2> SUFFICES ASSUME Init, NEW o \in OrderId PROVE Len(announced[o]) <= Cardinality(Settled(o))
    BY DEF AnnouncedOnce
  <2>1. Settled(o) = Changes(history[o])
    BY DEF Init, Settled, Telling
  <2>2. CASE announced[o] = <<>>
    <3>1. Settled(o) = {}
      BY <2>1, <2>2, Beginnings
    <3> QED
      BY <2>2, <3>1, FS_EmptySet
  <2>3. CASE announced[o] = <<"DIAGNOSIS", "WAITING_APPROVAL", "APPROVED", "PAID", "EXECUTION">>
    <3>1. Settled(o) = {"DIAGNOSIS", "WAITING_APPROVAL", "APPROVED", "PAID", "EXECUTION"}
      BY <2>1, <2>3, Beginnings
    <3>2. Cardinality({"DIAGNOSIS", "WAITING_APPROVAL", "APPROVED", "PAID", "EXECUTION"}) = 5
      BY FiveStatuses
    <3> QED
      BY <2>3, <3>1, <3>2
  <2> QED
    BY <2>2, <2>3, Beginnings
<1>2. IInv /\ IInv' /\ AnnouncedOnce /\ [Next]_vars => AnnouncedOnce'
  <2> SUFFICES ASSUME IInv, IInv', AnnouncedOnce, [Next]_vars, NEW o \in OrderId
               PROVE  Len(announced'[o]) <= Cardinality(Settled(o)')
    BY DEF AnnouncedOnce
  <2>1. TypeOK /\ TypeOK' /\ Len(announced[o]) <= Cardinality(Settled(o))
    BY DEF IInv, AnnouncedOnce
  <2>2. ASSUME announced' = announced, Changes(history[o]) \subseteq Changes(history'[o]),
               \A w \in Worker : Telling(job'[w], o) =>
                  \/ Telling(job[w], o) /\ job'[w].new = job[w].new
                  \/ job'[w].new \notin Changes(history[o])
        PROVE  Len(announced'[o]) <= Cardinality(Settled(o)')
    BY <2>1, <2>2, SettledKept
  <2>3. CASE UNCHANGED vars
    BY <2>2, <2>3 DEF vars, orderVars, effectVars
  <2>4. ASSUME NEW w \in Worker, NEW p \in OrderId, Open(w, p) \/ NoNews(w, p)
        PROVE  Len(announced'[o]) <= Cardinality(Settled(o)')
    <3>1. /\ announced' = announced
          /\ \A q \in OrderId : q # p => history'[q] = history[q]
      BY <2>1, <2>4 DEF Open, NoNews, Moves, orderVars, effectVars, TypeOK
    <3>2. history'[p] = history[p] \/ history[p] = <<>>
      BY <2>4 DEF Open, NoNews, orderVars, IInv, HistoryIsPast
    <3>3. Changes(history[o]) \subseteq Changes(history'[o])
      BY <3>1, <3>2 DEF Changes
    <3>4. \A v \in Worker : Telling(job'[v], o) => job'[v] = job[v]
      <4>1. PICK at \in {"count", "measure"}, new \in OSStatus \cup {"NONE"} : Begin(w, at, p, new)
        BY <2>4, "RECEIVED" \in OSStatus DEF Open, NoNews, OSStatus
      <4>2. /\ job'[w] = [at |-> at, order |-> p, new |-> new, seen |-> "NONE"]
            /\ \A v \in Worker : v # w => job'[v] = job[v]
        BY <2>1, <4>1, BeginType
      <4> QED
        BY <4>2 DEF Telling
    <3> QED
      BY <2>2, <3>1, <3>3, <3>4
  <2>5. ASSUME NEW w \in Worker, NEW p \in OrderId, NEW s \in OSStatus, Commit(w, p, s)
        PROVE  Len(announced'[o]) <= Cardinality(Settled(o)')
    <3>1. /\ announced' = announced /\ canTransition(status[p], s) /\ status[p] # "NONE"
          /\ Moves(p, s) /\ Begin(w, "order", p, s)
      BY <2>5, NoneIsNoStatus DEF Commit, canTransition, effectVars
    <3>2. /\ Changes(history'[p]) = Changes(history[p]) \cup {s} /\ s \notin Changes(history[p])
          /\ \A q \in OrderId : q # p => history'[q] = history[q]
      BY <2>1, <3>1, ChangesGrow DEF IInv
    <3>3. /\ job'[w].order = p /\ job'[w].new = s
          /\ \A v \in Worker : v # w => job'[v] = job[v]
      <4>1. job'[w] = [at |-> "order", order |-> p, new |-> s, seen |-> "NONE"]
        BY <2>1, <3>1 DEF Begin, TypeOK
      <4> QED
        BY <2>1, <3>1, <4>1 DEF Begin, TypeOK
    <3> QED
      BY <2>2, <3>1, <3>2, <3>3 DEF Telling
  <2>6. ASSUME NEW w \in Worker,
               ReadOrder(w) \/ ReadCustomer(w) \/ NotifyFails(w) \/ Count(w) \/ Measure(w) \/ Crash(w)
        PROVE  Len(announced'[o]) <= Cardinality(Settled(o)')
    <3>1. announced' = announced /\ history' = history
      BY <2>6 DEF ReadOrder, ReadCustomer, NotifyFails, Count, Measure, Crash, orderVars, effectVars
    <3>2. \A v \in Worker : v # w => job'[v] = job[v]
      BY <2>1, <2>6 DEF ReadOrder, ReadCustomer, NotifyFails, Count, Measure, Crash, GoTo, Done, TypeOK
    <3>3. Telling(job'[w], o) => Telling(job[w], o) /\ job'[w].new = job[w].new
      <4>1. CASE Count(w) \/ Measure(w) \/ Crash(w)
        BY <2>1, <4>1 DEF Count, Measure, Crash, Done, Telling, TypeOK
      <4>2. CASE ReadOrder(w) \/ ReadCustomer(w) \/ NotifyFails(w)
        <5>1. job[w] # Idle /\ job[w] \in Job /\ job[w].at \in {"order", "customer", "publish"}
          BY <2>1, <4>2, JobType DEF ReadOrder, ReadCustomer, NotifyFails, At
        <5>2. job'[w].order = job[w].order /\ job'[w].new = job[w].new
          <6>1. CASE ReadOrder(w)
            BY <2>1, <5>1, <6>1 DEF ReadOrder, TypeOK, Job
          <6>2. CASE ReadCustomer(w)
            BY <2>1, <5>1, <6>2 DEF ReadCustomer, GoTo, TypeOK, Job
          <6>3. CASE NotifyFails(w)
            BY <2>1, <5>1, <6>3 DEF NotifyFails, GoTo, TypeOK, Job
          <6> QED
            BY <4>2, <6>1, <6>2, <6>3
        <5> QED
          BY <5>1, <5>2 DEF Telling
      <4> QED
        BY <2>6, <4>1, <4>2
    <3> QED
      BY <2>2, <3>1, <3>2, <3>3
  <2>7. ASSUME NEW p \in OrderId, CustomerLeaves(p)
        PROVE  Len(announced'[o]) <= Cardinality(Settled(o)')
    BY <2>2, <2>7 DEF CustomerLeaves, effectVars
  <2> QED
    BY <2>1, <2>3, <2>4, <2>5, <2>6, <2>7, PublishSettles DEF Next, Effects
<1> QED
  BY InvAlways, <1>1, <1>2, PTL DEF Spec

\* For any orders and workers, however their messages overlap, fail and are cut
\* off: an order is counted at most once and its arrival at a status measured at
\* most once, what is measured or announced was committed, and no more is
\* announced than happened.
THEOREM EffectsCorrect == Spec => []EffectsFollowCommits
<1>1. IInv /\ AnnouncedOnce => EffectsFollowCommits
  <2> SUFFICES ASSUME IInv, AnnouncedOnce, NEW o \in OrderId
               PROVE  LET changes == {history[o][k] : k \in 2 .. Len(history[o])} IN
                      /\ created[o] <= 1
                      /\ \A s \in OSStatus : measured[o][s] <= IF s \in changes THEN 1 ELSE 0
                      /\ AnnouncedOf(o) \subseteq changes
                      /\ Len(announced[o]) <= Cardinality(changes)
    BY DEF EffectsFollowCommits
  <2>1. EffectsOf(o) /\ TypeOK
    BY DEF IInv, EffectsAreOfCommits
  <2>2. \A s \in OSStatus : measured[o][s] <= IF s \in Changes(history[o]) THEN 1 ELSE 0
    <3> SUFFICES ASSUME NEW s \in OSStatus
                 PROVE  measured[o][s] <= IF s \in Changes(history[o]) THEN 1 ELSE 0
      OBVIOUS
    <3>1. /\ measured[o][s] \in Nat /\ measured[o][s] <= 1
          /\ measured[o][s] > 0 => s \in Changes(history[o])
      BY <2>1 DEF EffectsOf, TypeOK
    <3>2. CASE s \in Changes(history[o])
      BY <3>1, <3>2
    <3>3. CASE s \notin Changes(history[o])
      BY <3>1, <3>3
    <3> QED
      BY <3>2, <3>3
  <2>3. Len(announced[o]) <= Cardinality(Changes(history[o]))
    <3>1. history[o] \in Seq(OSStatus) /\ Len(announced[o]) \in Nat
      BY <2>1 DEF TypeOK
    <3>2. /\ IsFiniteSet(Changes(history[o])) /\ Cardinality(Changes(history[o])) \in Nat
          /\ Settled(o) \in SUBSET Changes(history[o]) /\ Cardinality(Settled(o)) \in Nat
      BY <3>1, ChangesFinite DEF Settled
    <3>3. Cardinality(Settled(o)) <= Cardinality(Changes(history[o]))
      BY <3>2, FS_Subset
    <3> QED
      BY <3>1, <3>2, <3>3 DEF AnnouncedOnce
  <2> QED
    BY <2>1, <2>2, <2>3 DEF EffectsOf, Changes
<1> QED
  BY <1>1, InvAlways, AnnouncedOnceAlways, PTL
=============================================================================
