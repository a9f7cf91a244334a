---------------------------- MODULE ServersProofs ----------------------------
(***************************************************************************)
(* Proofs about what the two long-lived servers keep in memory between     *)
(* requests, for every value of the constants: the MCP server's table of   *)
(* jobs (McpJobs), and the website's checkouts and cached analyses         *)
(* (WebsiteTrees).                                                         *)
(***************************************************************************)
EXTENDS McpJobs, WebsiteTrees, SequenceTheorems, TLAPS

Elements(s) == {s[i] : i \in 1..Len(s)}

Distinct(s) == \A a, b \in 1..Len(s) : s[a] = s[b] => a = b

JobRecord == [status : {"running"} \cup Terminal, report : BOOLEAN, error : BOOLEAN,
              blocked : BOOLEAN, finished : Nat \cup {NotYet}]
Inside == {"expiring", "trimming", "inserting"}

JobsTyped ==
    /\ now \in Nat /\ began \in Nat
    /\ table \in Seq(Job) /\ left \in Seq(Job)
    /\ job \in [Job -> JobRecord]
    /\ start \in [Job -> {"idle", "returned"} \cup Inside]
    /\ worker \in [Job -> {"none", "ready", "writing", "ended"}]
    /\ DOMAIN todo = Job /\ todo = [j \in Job |-> todo[j]]
    /\ poll = [j \in Watched |-> poll[j]]

\* The lock is held by the one request between its taking it and its insertion; what
\* that request has still to visit is in the table.
Locked ==
    /\ \A j \in Job : start[j] \in Inside <=> lock = j
    /\ Distinct(table) /\ Distinct(left)
    /\ lock # NoLock => Elements(left) \subseteq Elements(table)
    /\ began <= now
    /\ \A j \in Elements(table) : start[j] = "returned"

Whole(r) ==
    /\ r.status = "done" => r.report /\ r.blocked
    /\ r.status = "refused" => r.error /\ r.blocked
    /\ r.status = "error" => r.error /\ ~ r.report

\* What a worker with these assignments to go has made of its job.
Progress(rest, r) ==
    \/ r.status = "running" /\
         \/ rest = <<"report", "blocked", "done">>
         \/ rest = <<"blocked", "done">> /\ r.report
         \/ rest = <<"done">> /\ r.report /\ r.blocked
         \/ rest = <<"error", "blocked", "refused">>
         \/ rest = <<"blocked", "refused">> /\ r.error
         \/ rest = <<"refused">> /\ r.error /\ r.blocked
         \/ rest = <<"error", "error-status">> /\ ~ r.report
         \/ rest = <<"error-status">> /\ r.error /\ ~ r.report
    \/ rest = <<>> /\ r.status \in Terminal /\ Whole(r)

Working ==
    \A j \in Job :
        /\ start[j] = "returned" <=> worker[j] # "none"
        /\ worker[j] \in {"none", "ready"} => job[j] = Fresh
        /\ worker[j] = "writing" => Progress(todo[j], job[j])
        /\ worker[j] = "ended" => job[j].status \in Terminal /\ Whole(job[j])

\* A running job is in the table.
Kept == \A j \in Job : start[j] = "returned" /\ job[j].status = "running" => j \in Elements(table)

Polled ==
    \A j \in Watched :
        /\ poll[j].at # "idle" => start[j] = "returned"
        /\ poll[j].at = "rest" => poll[j].status = job[j].status /\ job[j].status \in Terminal
        /\ poll[j].at = "answered" =>
              /\ poll[j].status = "unknown" => job[j].status # "running"
              /\ Whole(poll[j])

JobsInv == JobsTyped /\ Locked /\ Working /\ Kept /\ Polled

-----------------------------------------------------------------------------
\* What is left of a sequence when one element is taken out of it.
LEMMA Cutting ==
    ASSUME NEW S, NEW s \in Seq(S), NEW i \in 1..Len(s)
    PROVE  /\ RemoveAt(s, i) \in Seq(S) /\ Len(RemoveAt(s, i)) = Len(s)-1
           /\ \A k \in 1..Len(s)-1 : RemoveAt(s, i)[k] = IF k < i THEN s[k] ELSE s[k+1]
<1> DEFINE r == RemoveAt(s, i)
           front == SubSeq(s, 1, i-1)
           back == SubSeq(s, i+1, Len(s))
<1>1. Len(s) \in Nat /\ i \in Nat /\ \A k \in 1..Len(s) : s[k] \in S
  BY LenProperties, ElementOfSeq
<1>2. /\ front \in Seq(S) /\ Len(front) = i-1
      /\ \A k \in 1..i-1 : front[k] = s[k]
  BY <1>1, SubSeqProperties
<1>3. /\ back \in Seq(S) /\ Len(back) = Len(s)-i
      /\ \A k \in 1..Len(s)-i : back[k] = s[i+k]
  BY <1>1, SubSeqProperties
<1> HIDE DEF front, back
<1>4. r = front \o back
  BY DEF RemoveAt, front, back
<1>5. /\ r \in Seq(S) /\ Len(r) = Len(s)-1
      /\ \A k \in 1..Len(s)-1 : r[k] = IF k <= i-1 THEN front[k] ELSE back[k-(i-1)]
  <2>1. /\ front \o back \in Seq(S) /\ Len(front \o back) = Len(front) + Len(back)
        /\ \A k \in 1..Len(front) + Len(back) :
              (front \o back)[k] = IF k <= Len(front) THEN front[k] ELSE back[k - Len(front)]
    BY <1>2, <1>3, ConcatProperties
  <2> HIDE DEF r
  <2> QED
    BY <1>1, <1>2, <1>3, <1>4, <2>1
<1> HIDE DEF r
<1>6. \A k \in 1..Len(s)-1 : r[k] = IF k < i THEN s[k] ELSE s[k+1]
  <2> TAKE k \in 1..Len(s)-1
  <2>1. CASE k < i
    <3>1. k \in 1..i-1 /\ k <= i-1
      BY <1>1, <2>1
    <3>2. front[k] = s[k]
      BY <1>2, <3>1
    <3> QED
      BY <1>5, <2>1, <3>1, <3>2
  <2>2. CASE k >= i
    <3>1. k-(i-1) \in 1..Len(s)-i /\ i+(k-(i-1)) = k+1
      BY <1>1, <2>2
    <3>2. back[k-(i-1)] = s[k+1]
      BY <1>3, <3>1
    <3> QED
      BY <1>1, <1>5, <2>2, <3>2
  <2> QED
    BY <1>1, <2>1, <2>2
<1> QED
  BY <1>5, <1>6 DEF r

\* Taking an element out of a sequence with no duplicate takes that one and no other.
LEMMA Removal ==
    ASSUME NEW S, NEW s \in Seq(S), Distinct(s), NEW i \in 1..Len(s)
    PROVE  /\ RemoveAt(s, i) \in Seq(S)
           /\ Distinct(RemoveAt(s, i))
           /\ Elements(RemoveAt(s, i)) = Elements(s) \ {s[i]}
<1> DEFINE r == RemoveAt(s, i)
<1>1. Len(s) \in Nat /\ i \in Nat
  BY LenProperties
<1>5. r \in Seq(S) /\ Len(r) = Len(s)-1
  BY Cutting
<1>6. \A k \in 1..Len(s)-1 : r[k] = IF k < i THEN s[k] ELSE s[k+1]
  BY Cutting
<1> HIDE DEF r
<1>7. Distinct(r)
  <2> SUFFICES ASSUME NEW a \in 1..Len(r), NEW b \in 1..Len(r), r[a] = r[b]
               PROVE  a = b
    BY DEF Distinct
  <2> DEFINE x == IF a < i THEN a ELSE a+1
             y == IF b < i THEN b ELSE b+1
  <2>1. x \in 1..Len(s) /\ r[a] = s[x]
    BY <1>1, <1>5, <1>6
  <2>2. y \in 1..Len(s) /\ r[b] = s[y]
    BY <1>1, <1>5, <1>6
  <2>3. x = y
    <3> HIDE DEF x, y
    <3> QED
      BY <2>1, <2>2 DEF Distinct
  <2>4. a \in Nat /\ b \in Nat
    BY <1>1, <1>5
  <2> QED
    BY <1>1, <2>3, <2>4
<1>8. Elements(r) = Elements(s) \ {s[i]}
  <2>1. ASSUME NEW k \in 1..Len(r) PROVE r[k] \in Elements(s) /\ r[k] # s[i]
    <3> DEFINE m == IF k < i THEN k ELSE k+1
    <3>1. m \in 1..Len(s) /\ m # i /\ r[k] = s[m]
      BY <1>1, <1>5, <1>6
    <3> HIDE DEF m
    <3> QED
      BY <3>1 DEF Elements, Distinct
  <2>2. ASSUME NEW k \in 1..Len(s), k # i PROVE s[k] \in Elements(r)
    <3>1. CASE k < i
      <4>1. k \in 1..Len(r) /\ r[k] = s[k]
        BY <1>1, <1>5, <1>6, <3>1
      <4> QED
        BY <4>1 DEF Elements
    <3>2. CASE k > i
      <4>1. k-1 \in 1..Len(r) /\ r[k-1] = s[k]
        BY <1>1, <1>5, <1>6, <3>2
      <4> QED
        BY <4>1 DEF Elements
    <3> QED
      BY <1>1, <2>2, <3>1, <3>2
  <2> QED
    BY <2>1, <2>2 DEF Elements
<1> QED
  BY <1>5, <1>7, <1>8 DEF r

\* Deleting an entry deletes that one and no other.
LEMMA Dropping ==
    ASSUME NEW S, table \in Seq(S), Distinct(table), NEW h \in Elements(table)
    PROVE  /\ Drop(h) \in Seq(S)
           /\ Distinct(Drop(h))
           /\ Elements(Drop(h)) = Elements(table) \ {h}
<1> DEFINE i == CHOOSE k \in DOMAIN table : table[k] = h
<1>1. i \in 1..Len(table) /\ table[i] = h
  <2>1. \E k \in DOMAIN table : table[k] = h
    BY LenProperties DEF Elements
  <2> QED
    BY <2>1, LenProperties
<1> HIDE DEF i
<1> QED
  BY <1>1, Removal DEF Drop, i

LEMMA HeadTail ==
    ASSUME NEW S, NEW s \in Seq(S), s # <<>>, Distinct(s)
    PROVE  /\ Head(s) \in Elements(s)
           /\ Tail(s) \in Seq(S) /\ Distinct(Tail(s))
           /\ Elements(Tail(s)) = Elements(s) \ {Head(s)}
<1>1. /\ Len(s) \in Nat \ {0} /\ Head(s) = s[1] /\ Tail(s) \in Seq(S)
      /\ Len(Tail(s)) = Len(s)-1
      /\ \A k \in 1..Len(Tail(s)) : Tail(s)[k] = s[k+1]
  BY HeadTailProperties, EmptySeq
<1>2. Distinct(Tail(s))
  BY <1>1 DEF Distinct
<1>3. ASSUME NEW k \in 1..Len(Tail(s)) PROVE Tail(s)[k] \in Elements(s) /\ Tail(s)[k] # s[1]
  BY <1>1 DEF Elements, Distinct
<1>4. ASSUME NEW k \in 1..Len(s), k # 1 PROVE s[k] \in Elements(Tail(s))
  <2>1. k-1 \in 1..Len(Tail(s)) /\ Tail(s)[k-1] = s[k]
    BY <1>1, <1>4
  <2> QED
    BY <2>1 DEF Elements
<1>5. Head(s) \in Elements(s)
  BY <1>1 DEF Elements
<1>6. Elements(Tail(s)) = Elements(s) \ {Head(s)}
  BY <1>1, <1>3, <1>4 DEF Elements
<1> QED
  BY <1>1, <1>2, <1>5, <1>6
-----------------------------------------------------------------------------
LEMMA JobsInit == Init => JobsInv
<1> SUFFICES ASSUME Init PROVE JobsInv
  OBVIOUS
<1> USE DEF Init
<1>1. JobsTyped
  BY DEF JobsTyped, JobRecord, Fresh, Inside
<1>2. table = <<>> /\ left = <<>> /\ Elements(table) = {}
  BY DEF Elements
<1>3. Locked
  BY <1>2, ConstantsAssumption DEF Locked, Distinct, Elements, Inside, ConstantsAssumption
<1>4. Working /\ Kept
  BY DEF Working, Kept
<1>5. Polled
  BY DEF Polled, Idle
<1> QED
  BY <1>1, <1>3, <1>4, <1>5 DEF JobsInv

\* What a step of a start request that only moves within the eviction has to keep.
LEMMA Moving ==
    ASSUME JobsInv, NEW j \in Job, NEW place \in Inside, start[j] \in Inside,
           start' = [start EXCEPT ![j] = place], UNCHANGED <<now, job, lock, began, worker, todo, poll>>,
           table' \in Seq(Job), left' \in Seq(Job), Distinct(table'), Distinct(left'),
           Elements(left') \subseteq Elements(table'), Elements(table') \subseteq Elements(table),
           \A h \in Elements(table) : job[h].status = "running" => h \in Elements(table')
    PROVE  JobsInv'
<1> USE DEF JobsInv, Inside
<1>1. start' \in [Job -> {"idle", "returned"} \cup Inside] /\ \A k \in Job : k # j => start'[k] = start[k]
  BY DEF JobsTyped
<1>2. start[j] # "returned" /\ start'[j] = place /\ place # "returned"
  BY DEF JobsTyped
<1>3. JobsTyped'
  BY <1>1 DEF JobsTyped
<1>4. Locked'
  BY <1>1, <1>2 DEF Locked
<1>5. Working' /\ Kept' /\ Polled'
  BY <1>1, <1>2 DEF Working, Kept, Polled, JobsTyped, Whole
<1> QED
  BY <1>3, <1>4, <1>5

\* The steps of a start request.
LEMMA StarterKeeps ==
    ASSUME JobsInv, NEW j \in Job, Starter(j)
    PROVE  JobsInv'
<1> USE DEF JobsInv
<1>t. table \in Seq(Job) /\ left \in Seq(Job) /\ Distinct(table) /\ Distinct(left)
  BY DEF JobsTyped, Locked
<1>1. CASE Begin(j)
  <2>1. lock' = j /\ start[j] = "idle" /\ lock = NoLock /\ start' = [start EXCEPT ![j] = "expiring"]
    BY <1>1 DEF Begin
  <2>2. \A k \in Job : start[k] \notin Inside
    BY <2>1, ConstantsAssumption DEF Locked, ConstantsAssumption
  <2>3. JobsTyped'
    BY <1>1 DEF Begin, JobsTyped, Inside
  <2>4. \A k \in Job : k # j => start'[k] = start[k]
    BY <2>1 DEF JobsTyped
  <2>5. start'[j] = "expiring"
    BY <2>1 DEF JobsTyped
  <2>6. Locked'
    <3>1. \A k \in Job : start'[k] \in Inside <=> lock' = k
      BY <2>1, <2>2, <2>4, <2>5 DEF Inside
    <3>2. now \in Nat /\ began' = now /\ now' = now /\ table' = table /\ left' = table
      BY <1>1 DEF Begin, JobsTyped
    <3>3. \A k \in Elements(table') : start'[k] = "returned"
      <4>1. \A k \in Elements(table) : k \in Job
        BY <1>t, ElementOfSeq DEF Elements
      <4> QED
        BY <3>2, <4>1, <2>1, <2>4 DEF Locked
    <3> QED
      BY <1>t, <3>1, <3>2, <3>3 DEF Locked
  <2>7. Working' /\ Kept' /\ Polled'
    BY <1>1, <2>1, <2>4, <2>5 DEF Begin, Working, Kept, Polled, Whole, JobsTyped
  <2> QED
    BY <2>3, <2>6, <2>7
<1>2. CASE Expire(j)
  <2>1. start[j] = "expiring" /\ left # <<>> /\ lock = j
    BY <1>2 DEF Expire, Locked, Inside
  <2>2. /\ Head(left) \in Elements(left)
        /\ Tail(left) \in Seq(Job) /\ Distinct(Tail(left))
        /\ Elements(Tail(left)) = Elements(left) \ {Head(left)}
    BY <1>t, <2>1, HeadTail
  <2>3. Elements(left) \subseteq Elements(table)
    BY <2>1, ConstantsAssumption DEF Locked, ConstantsAssumption
  <2>4. /\ Drop(Head(left)) \in Seq(Job) /\ Distinct(Drop(Head(left)))
        /\ Elements(Drop(Head(left))) = Elements(table) \ {Head(left)}
    BY <1>t, <2>2, <2>3, Dropping
  <2>5. /\ left' = Tail(left)
        /\ \/ table' = table
           \/ table' = Drop(Head(left)) /\ job[Head(left)].status # "running"
    BY <1>2 DEF Expire, Expired
  <2>6. start' = [start EXCEPT ![j] = "expiring"]
    BY <1>2, <2>1 DEF Expire, JobsTyped
  <2> QED
    BY <1>2, <1>t, <2>1, <2>2, <2>3, <2>4, <2>5, <2>6, Moving DEF Expire, Inside
<1>3. CASE EndExpire(j)
  <2>1. start[j] = "expiring" /\ lock = j
    BY <1>3 DEF EndExpire, Locked, Inside
  <2>2. Elements(left) \subseteq Elements(table)
    BY <2>1, ConstantsAssumption DEF Locked, ConstantsAssumption
  <2>3. PICK place \in Inside : start' = [start EXCEPT ![j] = place]
    BY <1>3 DEF EndExpire, Inside
  <2>4. left' \in {left, table} /\ table' = table
    BY <1>3 DEF EndExpire
  <2> QED
    BY <1>3, <1>t, <2>1, <2>2, <2>3, <2>4, Moving DEF EndExpire, Inside
<1>4. CASE Trim(j)
  <2>1. start[j] = "trimming" /\ left # <<>> /\ lock = j
    BY <1>4 DEF Trim, Locked, Inside
  <2>2. /\ Head(left) \in Elements(left)
        /\ Tail(left) \in Seq(Job) /\ Distinct(Tail(left))
        /\ Elements(Tail(left)) = Elements(left) \ {Head(left)}
    BY <1>t, <2>1, HeadTail
  <2>3. Elements(left) \subseteq Elements(table)
    BY <2>1, ConstantsAssumption DEF Locked, ConstantsAssumption
  <2>4. /\ Drop(Head(left)) \in Seq(Job) /\ Distinct(Drop(Head(left)))
        /\ Elements(Drop(Head(left))) = Elements(table) \ {Head(left)}
    BY <1>t, <2>2, <2>3, Dropping
  <2>5. /\ left' = Tail(left)
        /\ \/ table' = table
           \/ table' = Drop(Head(left)) /\ job[Head(left)].status # "running"
    BY <1>4 DEF Trim
  <2>6. start' = [start EXCEPT ![j] = "trimming"]
    BY <1>4, <2>1 DEF Trim, JobsTyped
  <2> QED
    BY <1>4, <1>t, <2>1, <2>2, <2>3, <2>4, <2>5, <2>6, Moving DEF Trim, Inside
<1>5. CASE EndTrim(j)
  <2>1. start[j] = "trimming" /\ lock = j
    BY <1>5 DEF EndTrim, Locked, Inside
  <2>2. Elements(left) \subseteq Elements(table)
    BY <2>1, ConstantsAssumption DEF Locked, ConstantsAssumption
  <2> QED
    BY <1>5, <1>t, <2>1, <2>2, Moving DEF EndTrim, Inside
<1>6. CASE Insert(j)
  <2>1. /\ start[j] = "inserting" /\ lock = j /\ worker[j] = "none"
        /\ j \notin Elements(table) /\ lock' = NoLock
        /\ start' = [start EXCEPT ![j] = "returned"]
        /\ worker' = [worker EXCEPT ![j] = "ready"]
        /\ job' = [job EXCEPT ![j] = Fresh]
    BY <1>6 DEF Insert, Locked, Working, Inside, JobsTyped
  <2>2. job' = job
    BY <2>1 DEF Working, JobsTyped
  <2>3. /\ table' \in Seq(Job) /\ Distinct(table') /\ Elements(table') = Elements(table) \cup {j}
    <3>1. /\ table' \in Seq(Job) /\ Len(table') = Len(table)+1 /\ Len(table) \in Nat
          /\ \A i \in 1..Len(table) : table'[i] = table[i]
          /\ table'[Len(table)+1] = j
      BY <1>6, <1>t, AppendProperties, LenProperties DEF Insert
    <3>2. \A i \in 1..Len(table) : table[i] # j
      BY <2>1 DEF Elements
    <3>3. Distinct(table')
      BY <1>t, <3>1, <3>2 DEF Distinct
    <3>4. Elements(table') = Elements(table) \cup {j}
      BY <3>1 DEF Elements
    <3> QED
      BY <3>1, <3>3, <3>4
  <2>4. \A k \in Job : k # j => start'[k] = start[k] /\ worker'[k] = worker[k]
    BY <2>1 DEF JobsTyped
  <2>5. start'[j] = "returned" /\ worker'[j] = "ready"
    BY <2>1 DEF JobsTyped
  <2>6. JobsTyped'
    BY <1>6, <2>1, <2>2, <2>3 DEF Insert, JobsTyped, Inside
  <2>7. Locked'
    <3>1. \A k \in Job : start'[k] \in Inside <=> lock' = k
      BY <2>1, <2>4, <2>5, ConstantsAssumption DEF Locked, Inside, ConstantsAssumption
    <3>2. left' = <<>> /\ began' = 0 /\ now' = now /\ now \in Nat
      BY <1>6 DEF Insert, JobsTyped
    <3>3. Distinct(left') /\ Elements(left') = {}
      BY <3>2 DEF Distinct, Elements
    <3>4. \A k \in Elements(table') : start'[k] = "returned"
      <4>1. \A k \in Elements(table) : k \in Job
        BY <1>t, ElementOfSeq DEF Elements
      <4> QED
        BY <4>1, <2>3, <2>4, <2>5 DEF Locked
    <3> QED
      BY <2>3, <3>1, <3>2, <3>3, <3>4 DEF Locked
  <2>8. Working' /\ Kept' /\ Polled'
    BY <1>6, <2>1, <2>2, <2>3, <2>4, <2>5 DEF Insert, Working, Kept, Polled, Whole
  <2> QED
    BY <2>6, <2>7, <2>8
<1> QED
  BY <1>1, <1>2, <1>3, <1>4, <1>5, <1>6 DEF Starter

\* What is left of a worker's assignments after each.
LEMMA Tails ==
    ASSUME NEW rest
    PROVE  /\ rest = <<"report", "blocked", "done">> => Tail(rest) = <<"blocked", "done">>
           /\ rest = <<"blocked", "done">> => Tail(rest) = <<"done">>
           /\ rest = <<"done">> => Tail(rest) = <<>>
           /\ rest = <<"error", "blocked", "refused">> => Tail(rest) = <<"blocked", "refused">>
           /\ rest = <<"blocked", "refused">> => Tail(rest) = <<"refused">>
           /\ rest = <<"refused">> => Tail(rest) = <<>>
           /\ rest = <<"error", "error-status">> => Tail(rest) = <<"error-status">>
           /\ rest = <<"error-status">> => Tail(rest) = <<>>
<1>1. rest = <<"report", "blocked", "done">> => Tail(rest) = <<"blocked", "done">>
  OBVIOUS
<1>2. rest = <<"blocked", "done">> => Tail(rest) = <<"done">>
  OBVIOUS
<1>3. rest = <<"done">> => Tail(rest) = <<>>
  OBVIOUS
<1>4. rest = <<"error", "blocked", "refused">> => Tail(rest) = <<"blocked", "refused">>
  OBVIOUS
<1>5. rest = <<"blocked", "refused">> => Tail(rest) = <<"refused">>
  OBVIOUS
<1>6. rest = <<"refused">> => Tail(rest) = <<>>
  OBVIOUS
<1>7. rest = <<"error", "error-status">> => Tail(rest) = <<"error-status">>
  OBVIOUS
<1>8. rest = <<"error-status">> => Tail(rest) = <<>>
  OBVIOUS
<1> QED
  BY <1>1, <1>2, <1>3, <1>4, <1>5, <1>6, <1>7, <1>8

\* The steps of a worker thread.
LEMMA WorkerKeeps ==
    ASSUME JobsInv, NEW j \in Job, WorkerOf(j)
    PROVE  JobsInv'
<1> USE DEF JobsInv
<1>1. UNCHANGED <<now, table, lock, start, left, began, poll>>
  BY DEF WorkerOf, Recording, Prove, Write, Stamp
<1>2. Locked'
  BY <1>1 DEF Locked
<1>3. CASE Prove(j)
  <2>1. worker[j] = "ready" /\ start[j] = "returned" /\ job[j] = Fresh /\ job' = job
    BY <1>3 DEF Prove, Working
  <2>2. j \in Entries
    BY <2>1 DEF Kept, Fresh, Entries, Elements
  <2>3. PICK outcome \in Ends[j] : todo' = [todo EXCEPT ![j] = Assignments(outcome)]
    BY <1>3, <2>2 DEF Prove
  <2>4. outcome \in {"report", "violation", "exception"}
    BY <2>3, ConstantsAssumption DEF ConstantsAssumption
  <2>5. worker' = [worker EXCEPT ![j] = "writing"]
    BY <1>3, <2>2 DEF Prove
  <2>6. JobsTyped'
    BY <1>1, <2>1, <2>3, <2>5 DEF JobsTyped
  <2>7. todo'[j] = Assignments(outcome) /\ \A k \in Job : k # j => todo'[k] = todo[k]
    BY <2>3 DEF JobsTyped
  <2>8. Progress(todo'[j], job[j])
    BY <2>1, <2>4, <2>7 DEF Progress, Assignments, Fresh
  <2>9. worker'[j] = "writing" /\ \A k \in Job : k # j => worker'[k] = worker[k]
    BY <2>5 DEF JobsTyped
  <2>10. Working'
    BY <1>1, <2>1, <2>7, <2>8, <2>9 DEF Working
  <2>11. Kept' /\ Polled'
    BY <1>1, <2>1 DEF Kept, Polled, Whole
  <2> QED
    BY <1>2, <2>6, <2>10, <2>11
<1>4. CASE Write(j)
  <2> DEFINE rest == todo[j]
             r == job[j]
             s == Written(r, Head(rest))
  <2>1. /\ worker[j] = "writing" /\ rest # <<>> /\ worker' = worker
        /\ job' = [job EXCEPT ![j] = s]
        /\ todo' = [todo EXCEPT ![j] = Tail(rest)]
    BY <1>4 DEF Write, JobsTyped
  <2>2. start[j] = "returned" /\ Progress(rest, r) /\ r \in JobRecord
    BY <2>1 DEF Working, JobsTyped
  <2>3. job'[j] = s /\ todo'[j] = Tail(rest) /\ \A k \in Job : k # j => job'[k] = job[k] /\ todo'[k] = todo[k]
    BY <2>1 DEF JobsTyped
  <2>4. s \in JobRecord /\ Progress(Tail(rest), s) /\ r.status = "running"
    <3> HIDE DEF rest, r
    <3>1. rest # <<>>
      BY <2>1
    <3>2. \/ rest = <<"report", "blocked", "done">> /\ s = [r EXCEPT !.report = TRUE]
          \/ rest = <<"blocked", "done">> /\ s = [r EXCEPT !.blocked = TRUE] /\ r.report
          \/ rest = <<"done">> /\ s = [r EXCEPT !.status = "done"] /\ r.report /\ r.blocked
          \/ rest = <<"error", "blocked", "refused">> /\ s = [r EXCEPT !.error = TRUE]
          \/ rest = <<"blocked", "refused">> /\ s = [r EXCEPT !.blocked = TRUE] /\ r.error
          \/ rest = <<"refused">> /\ s = [r EXCEPT !.status = "refused"] /\ r.error /\ r.blocked
          \/ rest = <<"error", "error-status">> /\ s = [r EXCEPT !.error = TRUE] /\ ~ r.report
          \/ rest = <<"error-status">> /\ s = [r EXCEPT !.status = "error"] /\ r.error /\ ~ r.report
      BY <2>2, <3>1 DEF Progress, Written
    <3>3. \/ Tail(rest) = <<"blocked", "done">> /\ s = [r EXCEPT !.report = TRUE]
          \/ Tail(rest) = <<"done">> /\ s = [r EXCEPT !.blocked = TRUE] /\ r.report
          \/ Tail(rest) = <<>> /\ s = [r EXCEPT !.status = "done"] /\ r.report /\ r.blocked
          \/ Tail(rest) = <<"blocked", "refused">> /\ s = [r EXCEPT !.error = TRUE]
          \/ Tail(rest) = <<"refused">> /\ s = [r EXCEPT !.blocked = TRUE] /\ r.error
          \/ Tail(rest) = <<>> /\ s = [r EXCEPT !.status = "refused"] /\ r.error /\ r.blocked
          \/ Tail(rest) = <<"error-status">> /\ s = [r EXCEPT !.error = TRUE] /\ ~ r.report
          \/ Tail(rest) = <<>> /\ s = [r EXCEPT !.status = "error"] /\ r.error /\ ~ r.report
      <4> HIDE DEF s
      <4> QED
        BY <3>2, Tails
    <3> HIDE DEF s
    <3>4. r.status = "running"
      BY <2>2, <3>1 DEF Progress
    <3>5. s \in JobRecord
      BY <2>2, <3>3 DEF JobRecord, Terminal
    <3>6. \/ Tail(rest) = <<"blocked", "done">> /\ s.status = "running" /\ s.report
          \/ Tail(rest) = <<"done">> /\ s.status = "running" /\ s.report /\ s.blocked
          \/ Tail(rest) = <<>> /\ s.status = "done" /\ s.report /\ s.blocked
          \/ Tail(rest) = <<"blocked", "refused">> /\ s.status = "running" /\ s.error
          \/ Tail(rest) = <<"refused">> /\ s.status = "running" /\ s.error /\ s.blocked
          \/ Tail(rest) = <<>> /\ s.status = "refused" /\ s.error /\ s.blocked
          \/ Tail(rest) = <<"error-status">> /\ s.status = "running" /\ s.error /\ ~ s.report
          \/ Tail(rest) = <<>> /\ s.status = "error" /\ s.error /\ ~ s.report
      BY <2>2, <3>3, <3>4 DEF Progress, JobRecord
    <3>7. Progress(Tail(rest), s)
      <4> HIDE DEF s
      <4> QED
        BY <3>6 DEF Progress, Terminal, Whole
    <3> QED
      BY <3>4, <3>5, <3>7
  <2>5. JobsTyped'
    BY <1>1, <2>1, <2>4 DEF JobsTyped
  <2>6. Working'
    BY <1>1, <2>1, <2>2, <2>3, <2>4 DEF Working
  <2>7. Kept'
    BY <1>1, <2>2, <2>3, <2>4 DEF Kept
  <2>8. Polled'
    <3> SUFFICES ASSUME NEW k \in Watched
                 PROVE  /\ poll[k].at = "rest" =>
                              poll[k].status = job'[k].status /\ job'[k].status \in Terminal
                        /\ poll[k].at = "answered" /\ poll[k].status = "unknown" =>
                              job'[k].status # "running"
      BY <1>1 DEF Polled, Whole
    <3>1. k \in Job
      BY ConstantsAssumption DEF ConstantsAssumption
    <3>2. CASE k # j
      BY <2>3, <3>1, <3>2 DEF Polled
    <3>3. CASE k = j
      BY <2>4, <3>3 DEF Polled, Terminal
    <3> QED
      BY <3>2, <3>3
  <2> QED
    BY <1>2, <2>5, <2>6, <2>7, <2>8
<1>5. CASE Stamp(j)
  <2>1. /\ worker[j] = "writing" /\ todo[j] = <<>> /\ todo' = todo
        /\ job' = [job EXCEPT ![j] = [job[j] EXCEPT !.finished = now]]
        /\ worker' = [worker EXCEPT ![j] = "ended"]
    BY <1>5 DEF Stamp, JobsTyped
  <2>2. job[j] \in JobRecord /\ job[j].status \in Terminal /\ Whole(job[j]) /\ start[j] = "returned"
    BY <2>1 DEF Working, Progress, JobsTyped
  <2>3. /\ job'[j] \in JobRecord /\ worker'[j] = "ended"
        /\ \A k \in Job : k # j => job'[k] = job[k] /\ worker'[k] = worker[k]
    BY <2>1, <2>2 DEF JobsTyped, JobRecord
  <2>4. \A k \in Job : /\ job'[k].status = job[k].status /\ job'[k].report = job[k].report
                       /\ job'[k].error = job[k].error /\ job'[k].blocked = job[k].blocked
    BY <2>1, <2>2 DEF JobsTyped, JobRecord
  <2>5. JobsTyped'
    BY <1>1, <2>1, <2>3 DEF JobsTyped
  <2>6. Working'
    BY <1>1, <2>1, <2>2, <2>3, <2>4 DEF Working, Whole
  <2>7. Kept' /\ Polled'
    BY <1>1, <2>4, ConstantsAssumption DEF Kept, Polled, Whole, ConstantsAssumption
  <2> QED
    BY <1>2, <2>5, <2>6, <2>7
<1> QED
  BY <1>3, <1>4, <1>5 DEF WorkerOf, Recording

\* The steps of a client.
LEMMA PollingKeeps ==
    ASSUME JobsInv, NEW j \in Watched, Polling(j)
    PROVE  JobsInv'
<1> USE DEF JobsInv
<1>1. UNCHANGED <<now, table, job, lock, start, left, began, worker, todo>> /\ j \in Job
  BY ConstantsAssumption DEF Polling, Ask, ReadStatus, ReadRest, ConstantsAssumption
<1>2. PICK answer : poll' = [poll EXCEPT ![j] = answer]
  BY DEF Polling, Ask, ReadStatus, ReadRest
<1>3. poll'[j] = answer /\ \A k \in Watched : k # j => poll'[k] = poll[k]
  BY <1>2 DEF JobsTyped
<1>4. JobsTyped' /\ Locked' /\ Working' /\ Kept'
  BY <1>1, <1>2 DEF JobsTyped, Locked, Working, Kept
<1>5. job[j] \in JobRecord
  BY <1>1 DEF JobsTyped
<1>6. start[j] = "returned" /\
      \/ answer = [at |-> "status"]
      \/ answer = [at |-> "answered", status |-> "unknown"] /\ j \notin Elements(table)
      \/ answer = [at |-> "answered", status |-> job[j].status] /\ job[j].status = "running"
      \/ answer = [at |-> "rest", status |-> job[j].status] /\ job[j].status # "running"
      \/ /\ poll[j].at = "rest"
         /\ answer = [at |-> "answered", status |-> poll[j].status, report |-> job[j].report,
                      error |-> job[j].error, blocked |-> job[j].blocked]
  <2>1. CASE Ask(j)
    BY <1>3, <2>1 DEF Ask, Entries, Elements, JobsTyped
  <2>2. CASE ReadStatus(j)
    BY <1>3, <2>2 DEF ReadStatus, JobsTyped, Polled
  <2>3. CASE ReadRest(j)
    BY <1>3, <2>3 DEF ReadRest, JobsTyped, Polled
  <2> QED
    BY <2>1, <2>2, <2>3 DEF Polling
<1>7. Whole(job[j]) \/ job[j].status = "running"
  BY <1>1, <1>5 DEF Working, JobsTyped, Progress, Fresh
<1>8. Polled'
  <2> SUFFICES ASSUME NEW k \in Watched
               PROVE  /\ poll'[k].at # "idle" => start[k] = "returned"
                      /\ poll'[k].at = "rest" =>
                            poll'[k].status = job[k].status /\ job[k].status \in Terminal
                      /\ poll'[k].at = "answered" =>
                            /\ poll'[k].status = "unknown" => job[k].status # "running"
                            /\ Whole(poll'[k])
    BY <1>1 DEF Polled, Whole
  <2>1. CASE k # j
    BY <1>3, <2>1 DEF Polled
  <2>2. CASE k = j
    <3>1. CASE answer = [at |-> "status"]
      BY <1>3, <1>6, <2>2, <3>1
    <3>2. CASE answer = [at |-> "answered", status |-> "unknown"] /\ j \notin Elements(table)
      BY <1>1, <1>3, <1>6, <2>2, <3>2 DEF Kept, Whole
    <3>3. CASE answer = [at |-> "answered", status |-> job[j].status] /\ job[j].status = "running"
      BY <1>3, <1>6, <2>2, <3>3 DEF Whole
    <3>4. CASE answer = [at |-> "rest", status |-> job[j].status] /\ job[j].status # "running"
      BY <1>3, <1>5, <1>6, <2>2, <3>4 DEF JobRecord
    <3>5. CASE /\ poll[j].at = "rest"
               /\ answer = [at |-> "answered", status |-> poll[j].status, report |-> job[j].report,
                            error |-> job[j].error, blocked |-> job[j].blocked]
      <4>1. poll[j].status = job[j].status /\ job[j].status \in Terminal
        BY <3>5 DEF Polled
      <4> QED
        BY <1>3, <1>6, <1>7, <2>2, <3>5, <4>1 DEF Whole, Terminal
    <3> QED
      BY <1>6, <3>1, <3>2, <3>3, <3>4, <3>5
  <2> QED
    BY <2>1, <2>2
<1> QED
  BY <1>4, <1>8

LEMMA JobsNext == JobsInv /\ [Next]_vars => JobsInv'
<1> SUFFICES ASSUME JobsInv, [Next]_vars PROVE JobsInv'
  OBVIOUS
<1>1. CASE \E j \in Job : Starter(j) \/ WorkerOf(j)
  BY <1>1, StarterKeeps, WorkerKeeps
<1>2. CASE \E j \in Watched : Polling(j)
  BY <1>2, PollingKeeps
<1>3. CASE Tick
  BY <1>3 DEF Tick, JobsInv, JobsTyped, Locked, Working, Kept, Polled, Whole
<1>4. CASE UNCHANGED vars
  BY <1>4 DEF vars, JobsInv, JobsTyped, Locked, Working, Kept, Polled, Whole
<1> QED
  BY <1>1, <1>2, <1>3, <1>4 DEF Next

LEMMA JobsAlways == Spec => []JobsInv
<1> QED
  BY JobsInit, JobsNext, PTL DEF Spec

-----------------------------------------------------------------------------
\* A running job is never evicted, for any number of jobs, ceiling and time to live: its
\* worker finds its entry, and no client is told that its id is unknown
\* (_evict_finished, _run_prove).
THEOREM RunningSurvives == Spec => []RunningJobsAreKept
<1>1. JobsInv => RunningJobsAreKept
  BY DEF JobsInv, JobsTyped, Kept, Polled, RunningJobsAreKept, Running, Entries, Elements
<1> QED
  BY <1>1, JobsAlways, PTL

\* What a client is told of a finished job is the whole of it, although neither the
\* worker's assignments nor the client's reads are under the lock (tainted_prove_result).
THEOREM AnswersAreWhole == Spec => []FinalAnswersAreWhole
<1>1. JobsInv => FinalAnswersAreWhole
  BY DEF JobsInv, Polled, Whole, FinalAnswersAreWhole
<1> QED
  BY <1>1, JobsAlways, PTL

\* An entry leaves the table only past its time to live or over the ceiling
\* (_evict_finished).
THEOREM ResultsSurvive == Spec => ResultsKeptForCollection
<1>1. JobsInv /\ [Next]_vars =>
        [\A j \in Entries \ Entries' :
            Len(table) > MaxJobs \/ (job[j].finished # NotYet /\ now - job[j].finished > Ttl)]_vars
  <2> SUFFICES ASSUME JobsInv, Next, NEW h \in Entries \ Entries'
               PROVE  Len(table) > MaxJobs \/ (job[h].finished # NotYet /\ now - job[h].finished > Ttl)
    BY DEF Entries
  <2> USE DEF JobsInv
  <2>t. table \in Seq(Job) /\ left \in Seq(Job) /\ Distinct(table) /\ Distinct(left)
    BY DEF JobsTyped, Locked
  <2>1. PICK j \in Job : Expire(j) \/ Trim(j) \/ Insert(j)
    BY DEF Next, Tick, Starter, WorkerOf, Recording, Polling, Begin, EndExpire, EndTrim, Prove, Write, Stamp,
       Ask, ReadStatus, ReadRest, Entries
  <2>2. CASE Trim(j)
    BY <2>2 DEF Trim
  <2>3. CASE Insert(j)
    <3>1. /\ Len(table') = Len(table)+1 /\ Len(table) \in Nat
          /\ \A i \in 1..Len(table) : table'[i] = table[i]
      BY <2>3, <2>t, AppendProperties, LenProperties DEF Insert
    <3> QED
      BY <3>1 DEF Entries
  <2>4. CASE Expire(j)
    <3>1. start[j] = "expiring" /\ left # <<>> /\ lock = j
      BY <2>4 DEF Expire, Locked, Inside
    <3>2. Head(left) \in Elements(table)
      BY <2>t, <3>1, HeadTail, ConstantsAssumption DEF Locked, ConstantsAssumption
    <3>3. Elements(Drop(Head(left))) = Elements(table) \ {Head(left)}
      BY <2>t, <3>2, Dropping
    <3>4. h = Head(left) /\ Expired(h)
      BY <2>4, <3>3 DEF Expire, Entries, Elements
    <3>5. h \in Job
      BY <2>t, <3>1, <3>4, HeadTailProperties
    <3>6. job[h].finished \in Nat \cup {NotYet} /\ now \in Nat /\ began \in Nat /\ Ttl \in Nat /\ began <= now
      BY <3>5, ConstantsAssumption DEF JobsTyped, JobRecord, Locked, ConstantsAssumption
    <3> QED
      BY <3>4, <3>6 DEF Expired, NotYet
  <2> QED
    BY <2>1, <2>2, <2>3, <2>4
<1> QED
  BY <1>1, JobsAlways, PTL DEF Spec, ResultsKeptForCollection

-----------------------------------------------------------------------------
(* What an eviction has done so far.  An entry that was visited may end while *)
(* the eviction goes on, but then after the eviction read the clock.          *)

\* The time of ending is the last thing a worker writes.
Timed == \A j \in Job : job[j].finished # NotYet => worker[j] = "ended"

Ended(h) == job[h].finished # NotYet
Stale(h) == Ended(h) /\ began - job[h].finished > Ttl
Over(h) == Ended(h) /\ job[h].finished < began

Swept ==
    \A j \in Job :
        /\ start[j] = "expiring" => \A h \in Elements(table) \ Elements(left) : ~Stale(h)
        /\ start[j] \in {"trimming", "inserting"} => \A h \in Elements(table) : ~Stale(h)
        /\ start[j] = "trimming" => \A h \in Elements(table) \ Elements(left) : ~Over(h)
        /\ start[j] = "inserting" =>
              Len(table) <= MaxJobs \/ \A h \in Elements(table) : ~Over(h)

LEMMA TimedInit == Init => Timed /\ Swept
  BY DEF Init, Timed, Swept, Fresh

LEMMA TimedNext == JobsInv /\ Timed /\ [Next]_vars => Timed'
<1> SUFFICES ASSUME JobsInv, Timed, [Next]_vars PROVE Timed'
  OBVIOUS
<1> USE DEF JobsInv
<1>1. CASE \E j \in Job : Insert(j)
  <2>1. PICK j \in Job : Insert(j)
    BY <1>1
  <2>2. /\ job' = [job EXCEPT ![j] = Fresh] /\ worker' = [worker EXCEPT ![j] = "ready"]
        /\ worker[j] = "none"
    BY <2>1 DEF Insert, Working, JobsTyped
  <2>3. job[j] = Fresh
    BY <2>2 DEF Working
  <2>4. job' = job /\ \A k \in Job : k # j => worker'[k] = worker[k]
    BY <2>2, <2>3 DEF JobsTyped
  <2> QED
    BY <2>2, <2>3, <2>4 DEF Timed, Fresh
<1>2. CASE \E j \in Job : Prove(j)
  <2>1. PICK j \in Job : Prove(j)
    BY <1>2
  <2>2. worker[j] = "ready" /\ job' = job /\ \A k \in Job : k # j => worker'[k] = worker[k]
    BY <2>1 DEF Prove, JobsTyped
  <2> QED
    BY <2>2 DEF Timed
<1>3. CASE \E j \in Job : Write(j)
  <2>1. PICK j \in Job : Write(j)
    BY <1>3
  <2>2. /\ job' = [job EXCEPT ![j] = Written(job[j], Head(todo[j]))] /\ worker' = worker
        /\ job[j] \in JobRecord
    BY <2>1 DEF Write, JobsTyped
  <2>3. job'[j] = Written(job[j], Head(todo[j])) /\ \A k \in Job : k # j => job'[k] = job[k]
    BY <2>2 DEF JobsTyped
  <2>4. job'[j].finished = job[j].finished
    BY <2>2, <2>3 DEF Written, JobRecord
  <2> QED
    BY <2>2, <2>3, <2>4 DEF Timed
<1>4. CASE \E j \in Job : Stamp(j)
  <2>1. PICK j \in Job : Stamp(j)
    BY <1>4
  <2>2. worker' = [worker EXCEPT ![j] = "ended"] /\ \A k \in Job : k # j => job'[k] = job[k]
    BY <2>1 DEF Stamp, JobsTyped
  <2>3. worker'[j] = "ended" /\ \A k \in Job : k # j => worker'[k] = worker[k]
    BY <2>2 DEF JobsTyped
  <2> QED
    BY <2>2, <2>3 DEF Timed
<1>5. CASE job' = job /\ worker' = worker
  BY <1>5 DEF Timed
<1> QED
  BY <1>1, <1>2, <1>3, <1>4, <1>5 DEF Next, vars, Tick, Starter, WorkerOf, Recording, Polling, Begin, Expire,
     EndExpire, Trim, EndTrim, Ask, ReadStatus, ReadRest

\* An entry that has ended is one an eviction may take out.
LEMMA EndedMayGo ==
    ASSUME JobsInv, Timed, NEW h \in Job, Ended(h)
    PROVE  job[h].status # "running" /\ job[h].finished \in Nat
<1>1. job[h].status \in Terminal /\ job[h] \in JobRecord
  BY DEF JobsInv, JobsTyped, Working, Timed, Ended
<1> QED
  BY <1>1 DEF Terminal, JobRecord, Ended

\* Only the one start request inside the lock has anything swept to keep.
LEMMA SweptByTheHolder ==
    ASSUME JobsInv, NEW j \in Job, start[j] \in Inside, NEW place \in Inside \cup {"returned"},
           start' = [start EXCEPT ![j] = place],
           place = "expiring" => \A h \in Elements(table') \ Elements(left') : ~Stale(h)',
           place \in {"trimming", "inserting"} => \A h \in Elements(table') : ~Stale(h)',
           place = "trimming" => \A h \in Elements(table') \ Elements(left') : ~Over(h)',
           place = "inserting" => Len(table') <= MaxJobs \/ \A h \in Elements(table') : ~Over(h)'
    PROVE  Swept'
<1>1. start'[j] = place /\ \A k \in Job : k # j => start'[k] = start[k]
  BY DEF JobsInv, JobsTyped
<1>2. \A k \in Job : k # j => start[k] \notin Inside
  BY DEF JobsInv, Locked
<1> QED
  BY <1>1, <1>2 DEF Swept, Inside

LEMMA SweptStep ==
    ASSUME JobsInv, Timed, Swept, NEW j \in Job, Starter(j)
    PROVE  Swept'
<1> USE DEF JobsInv
<1>t. table \in Seq(Job) /\ left \in Seq(Job) /\ Distinct(table) /\ Distinct(left)
  BY DEF JobsTyped, Locked
<1>e. left = <<>> => Elements(left) = {}
  BY DEF Elements
<1>1. CASE Begin(j)
  <2>1. /\ lock = NoLock /\ start' = [start EXCEPT ![j] = "expiring"]
        /\ table' = table /\ left' = table
    BY <1>1 DEF Begin
  <2>2. \A k \in Job : start[k] \notin Inside
    BY <2>1, ConstantsAssumption DEF Locked, ConstantsAssumption
  <2>3. start'[j] = "expiring" /\ \A k \in Job : k # j => start'[k] = start[k]
    BY <2>1 DEF JobsTyped
  <2> QED
    BY <2>1, <2>2, <2>3 DEF Swept, Inside
<1>2. ASSUME start[j] \in {"expiring", "trimming"}, left # <<>>, UNCHANGED <<job, began>>,
             left' = Tail(left), table' \in {table, Drop(Head(left))}
      PROVE  /\ Head(left) \in Job
             /\ Elements(table') \subseteq Elements(table)
             /\ Elements(table') \ Elements(left') \subseteq
                   (Elements(table) \ Elements(left)) \cup {Head(left)}
             /\ table' = Drop(Head(left)) => Head(left) \notin Elements(table')
             /\ \A h : Stale(h)' = Stale(h) /\ Over(h)' = Over(h)
  <2>1. lock = j
    BY <1>2 DEF Locked, Inside
  <2>2. Elements(left) \subseteq Elements(table)
    BY <2>1, ConstantsAssumption DEF Locked, ConstantsAssumption
  <2>3. /\ Head(left) \in Elements(left) /\ Elements(Tail(left)) = Elements(left) \ {Head(left)}
    BY <1>t, <1>2, HeadTail
  <2>4. Elements(Drop(Head(left))) = Elements(table) \ {Head(left)}
    BY <1>t, <2>2, <2>3, Dropping
  <2>5. Head(left) \in Job
    BY <1>t, <1>2, HeadTailProperties
  <2>6. \A h : Stale(h)' = Stale(h) /\ Over(h)' = Over(h)
    BY <1>2 DEF Stale, Over, Ended
  <2> QED
    BY <1>2, <2>3, <2>4, <2>5, <2>6
<1>3. CASE Expire(j)
  <2>1. /\ start[j] = "expiring" /\ left # <<>> /\ left' = Tail(left)
        /\ UNCHANGED <<job, began, start>>
        /\ table' = IF Expired(Head(left)) THEN Drop(Head(left)) ELSE table
    BY <1>3 DEF Expire
  <2>2. start' = [start EXCEPT ![j] = "expiring"]
    BY <2>1 DEF JobsTyped
  <2>3. /\ Head(left) \in Job
        /\ Elements(table') \ Elements(left') \subseteq
              (Elements(table) \ Elements(left)) \cup {Head(left)}
        /\ table' = Drop(Head(left)) => Head(left) \notin Elements(table')
        /\ \A h : Stale(h)' = Stale(h)
    BY <1>2, <2>1
  <2>4. Stale(Head(left)) => Expired(Head(left))
    BY <2>3, EndedMayGo DEF Stale, Ended, Expired
  <2>5. \A h \in Elements(table') \ Elements(left') : ~Stale(h)
    BY <2>1, <2>3, <2>4 DEF Swept
  <2> QED
    BY <2>1, <2>2, <2>3, <2>5, SweptByTheHolder DEF Inside
<1>4. CASE EndExpire(j)
  <2>1. /\ start[j] = "expiring" /\ left = <<>> /\ UNCHANGED <<table, job, began>>
        /\ \/ Len(table) <= MaxJobs /\ start' = [start EXCEPT ![j] = "inserting"]
           \/ left' = table /\ start' = [start EXCEPT ![j] = "trimming"]
    BY <1>4 DEF EndExpire
  <2>2. \A h : Stale(h)' = Stale(h) /\ Over(h)' = Over(h)
    BY <2>1 DEF Stale, Over, Ended
  <2>3. \A h \in Elements(table') : ~Stale(h)'
    BY <1>e, <2>1, <2>2 DEF Swept
  <2> QED
    BY <2>1, <2>3, SweptByTheHolder DEF Inside
<1>5. CASE Trim(j)
  <2>1. /\ start[j] = "trimming" /\ left # <<>> /\ left' = Tail(left)
        /\ UNCHANGED <<job, began, start>>
        /\ table' = IF job[Head(left)].status # "running" THEN Drop(Head(left)) ELSE table
    BY <1>5 DEF Trim
  <2>2. start' = [start EXCEPT ![j] = "trimming"]
    BY <2>1 DEF JobsTyped
  <2>3. /\ Head(left) \in Job
        /\ Elements(table') \subseteq Elements(table)
        /\ Elements(table') \ Elements(left') \subseteq
              (Elements(table) \ Elements(left)) \cup {Head(left)}
        /\ table' = Drop(Head(left)) => Head(left) \notin Elements(table')
        /\ \A h : Stale(h)' = Stale(h) /\ Over(h)' = Over(h)
    BY <1>2, <2>1
  <2>4. Over(Head(left)) => job[Head(left)].status # "running"
    BY <2>3, EndedMayGo DEF Over
  <2>5. \A h \in Elements(table') \ Elements(left') : ~Over(h)
    BY <2>1, <2>3, <2>4 DEF Swept
  <2>6. \A h \in Elements(table') : ~Stale(h)
    BY <2>1, <2>3 DEF Swept
  <2> QED
    BY <2>1, <2>2, <2>3, <2>5, <2>6, SweptByTheHolder DEF Inside
<1>6. CASE EndTrim(j)
  <2>1. /\ start[j] = "trimming" /\ UNCHANGED <<table, left, job, began>>
        /\ left = <<>> \/ Len(table) <= MaxJobs
        /\ start' = [start EXCEPT ![j] = "inserting"]
    BY <1>6 DEF EndTrim
  <2>2. \A h : Stale(h)' = Stale(h) /\ Over(h)' = Over(h)
    BY <2>1 DEF Stale, Over, Ended
  <2>3. /\ \A h \in Elements(table') : ~Stale(h)'
        /\ Len(table') <= MaxJobs \/ \A h \in Elements(table') : ~Over(h)'
    BY <1>e, <2>1, <2>2 DEF Swept
  <2> QED
    BY <2>1, <2>3, SweptByTheHolder DEF Inside
<1>7. CASE Insert(j)
  <2>1. start[j] = "inserting" /\ start' = [start EXCEPT ![j] = "returned"]
    BY <1>7 DEF Insert
  <2> QED
    BY <2>1, SweptByTheHolder DEF Inside
<1> QED
  BY <1>1, <1>3, <1>4, <1>5, <1>6, <1>7 DEF Starter

\* A worker that ends its job under an eviction does so after the eviction's clock.
LEMMA SweptWhileWorking ==
    ASSUME JobsInv, Timed, Swept, NEW j \in Job, WorkerOf(j)
    PROVE  Swept'
<1> USE DEF JobsInv
<1>1. UNCHANGED <<table, start, left, began>> /\ now \in Nat /\ began \in Nat /\ began <= now
  BY DEF WorkerOf, Recording, Prove, Write, Stamp, JobsTyped, Locked
<1>2. \A h \in Job : job'[h].finished = job[h].finished \/ job'[h].finished = now
  <2>1. CASE Prove(j)
    BY <2>1 DEF Prove
  <2>2. CASE Write(j)
    <3>1. job' = [job EXCEPT ![j] = Written(job[j], Head(todo[j]))] /\ job[j] \in JobRecord
      BY <2>2 DEF Write, JobsTyped
    <3>2. job'[j] = Written(job[j], Head(todo[j])) /\ \A k \in Job : k # j => job'[k] = job[k]
      BY <3>1 DEF JobsTyped
    <3>3. job'[j].finished = job[j].finished
      BY <3>1, <3>2 DEF Written, JobRecord
    <3> QED
      BY <3>2, <3>3
  <2>3. CASE Stamp(j)
    <3>1. job' = [job EXCEPT ![j] = [job[j] EXCEPT !.finished = now]] /\ job[j] \in JobRecord
      BY <2>3 DEF Stamp, JobsTyped
    <3>2. job'[j] = [job[j] EXCEPT !.finished = now] /\ \A k \in Job : k # j => job'[k] = job[k]
      BY <3>1 DEF JobsTyped
    <3>3. job'[j].finished = now
      BY <3>1, <3>2 DEF JobRecord
    <3> QED
      BY <3>2, <3>3
  <2> QED
    BY <2>1, <2>2, <2>3 DEF WorkerOf, Recording
<1>3. \A h \in Job : (Stale(h)' => Stale(h)) /\ (Over(h)' => Over(h))
  <2> SUFFICES ASSUME NEW h \in Job PROVE (Stale(h)' => Stale(h)) /\ (Over(h)' => Over(h))
    OBVIOUS
  <2>1. CASE job'[h].finished = job[h].finished
    BY <1>1, <2>1 DEF Stale, Over, Ended
  <2>2. CASE job'[h].finished = now
    BY <1>1, <2>2, ConstantsAssumption DEF Stale, Over, ConstantsAssumption
  <2> QED
    BY <1>2, <2>1, <2>2
<1>4. \A h \in Elements(table) : h \in Job
  BY ElementOfSeq DEF JobsTyped, Elements
<1> QED
  BY <1>1, <1>3, <1>4 DEF Swept

LEMMA SweptNext == JobsInv /\ Timed /\ Swept /\ [Next]_vars => Swept'
<1> SUFFICES ASSUME JobsInv, Timed, Swept, [Next]_vars PROVE Swept'
  OBVIOUS
<1>1. CASE \E j \in Job : Starter(j) \/ WorkerOf(j)
  BY <1>1, SweptStep, SweptWhileWorking
<1>2. CASE UNCHANGED <<table, job, start, left, began>>
  BY <1>2 DEF Swept, Stale, Over, Ended
<1> QED
  BY <1>1, <1>2 DEF Next, vars, Tick, Polling, Ask, ReadStatus, ReadRest

\* What a start request finds past its time to live is gone when it puts its own entry
\* in, and above the ceiling so is all that had ended (_evict_finished).
THEOREM EvictionSweeps == Spec => []EvictionIsThorough
<1>1. JobsInv /\ Swept => EvictionIsThorough
  <2> SUFFICES ASSUME JobsInv, Swept, NEW j \in Job, start[j] = "inserting",
                      NEW h \in Entries, job[h].finished # NotYet
               PROVE  /\ began - job[h].finished <= Ttl
                      /\ Len(table) > MaxJobs => job[h].finished >= began
    BY DEF EvictionIsThorough
  <2>1. h \in Elements(table) /\ h \in Job /\ Len(table) \in Nat
    BY ElementOfSeq, LenProperties DEF JobsInv, JobsTyped, Entries, Elements
  <2>2. job[h].finished \in Nat /\ began \in Nat /\ Ttl \in Nat /\ MaxJobs \in Nat
    BY <2>1, ConstantsAssumption DEF JobsInv, JobsTyped, JobRecord, ConstantsAssumption
  <2> QED
    BY <2>1, <2>2 DEF Swept, Stale, Over, Ended
<1>2. Timed /\ Swept /\ JobsInv /\ JobsInv' /\ [Next]_vars => Timed' /\ Swept'
  BY TimedNext, SweptNext
<1> QED
  BY <1>1, <1>2, TimedInit, JobsAlways, PTL DEF Spec

-----------------------------------------------------------------------------
(* The website. *)

Entry == [path : Nat, tree : Nat \cup {None}]

TreesTyped ==
    /\ made \in Nat /\ head \in [Source -> Nat]
    /\ req \in [Slot -> Request \cup {None}]
    /\ cache \in Seq(Entry)
    /\ strays \subseteq 1..made

\* The slots whose request has a directory of its own.
Housed == {s \in Slot : req[s] # None /\ req[s].path # 0}

\* Each directory is that of one request, which may still remove it.
Apart ==
    /\ \A s \in Housed : req[s].path \in (1..made) \ strays
    /\ \A s, x \in Housed : req[s].path = req[x].path => s = x

\* What a request has read is no older than the request, and what it will answer is that.
Sound(r) ==
    /\ r.since <= head[r.source]
    /\ r.at = "checkout" => r.path = 0
    /\ r.at # "checkout" /\ r.source \in Repo => r.path # 0
    /\ r.path # 0 => r.source \in Repo /\ r.since <= r.tree
    /\ r.at \in {"lookup", "storing"} => r.source \in Repo
    /\ r.result # None =>
          /\ r.at \in {"storing", "leaving"}
          /\ r.result >= r.since
          /\ r.path # 0 => r.result = r.tree

Current == \A s \in Slot : req[s] # None => Sound(req[s])

\* No entry of the cache is under the directory of a request that may yet look for it.
Unseen ==
    \A e \in Elements(cache) :
        /\ e.path \in 1..made
        /\ \A s \in Housed : req[s].at \in {"lookup", "analysing", "storing"} => e.path # req[s].path

TreesInv == TreesTyped /\ Apart /\ Current /\ Unseen /\ TreesLiveOneRequest
-----------------------------------------------------------------------------
\* The directory a slot's request has, 0 for none.
House(q) == IF q = None THEN 0 ELSE q.path

LEMMA Serving ==
    ASSUME TreesTyped, NEW s \in Slot, NEW r \in Request \cup {None}, Serve(s, r)
    PROVE  /\ req'[s] = r
           /\ \A x \in Slot : x # s => req'[x] = req[x]
           /\ req' \in [Slot -> Request \cup {None}]
BY DEF TreesTyped, Serve

\* A request that keeps its directory, or goes on having none, leaves the directories
\* as they are.
LEMMA SameHouse ==
    ASSUME TreesInv, NEW s \in Slot, NEW r \in Request \cup {None}, Serve(s, r),
           House(r) = House(req[s]), UNCHANGED <<made, disk, strays>>
    PROVE  Apart' /\ TreesLiveOneRequest'
<1> USE DEF TreesInv
<1>1. /\ req'[s] = r
      /\ \A x \in Slot : x # s => req'[x] = req[x]
  BY Serving
<1>2. \A x \in Slot : House(req'[x]) = House(req[x])
  BY <1>1
<1>3. Housed = {x \in Slot : House(req[x]) # 0} /\ Housed' = {x \in Slot : House(req'[x]) # 0}
  BY DEF Housed, House
<1>4. Housed' = Housed
  BY <1>2, <1>3
<1>5. \A x \in Housed : req'[x].path = req[x].path
  BY <1>2, <1>4 DEF Housed, House
<1>6. Apart'
  BY <1>4, <1>5 DEF Apart
<1>7. {req'[x].path : x \in Housed'} = {req[x].path : x \in Housed}
  BY <1>4, <1>5
<1> QED
  BY <1>6, <1>7 DEF TreesLiveOneRequest, Housed

\* A step of one slot keeps what the others have read current.
LEMMA StillCurrent ==
    ASSUME TreesInv, NEW s \in Slot, NEW r \in Request \cup {None}, Serve(s, r), head' = head,
           r # None => Sound(r)
    PROVE  Current'
<1>1. /\ req'[s] = r
      /\ \A x \in Slot : x # s => req'[x] = req[x]
  BY Serving DEF TreesInv
<1>2. \A x \in Slot : req'[x] # None => Sound(req'[x])
  BY <1>1 DEF TreesInv, Current
<1> QED
  BY <1>2 DEF Current, Sound

\* The cache stays unseen when the slot's request looks under a directory of its own or
\* not at all.
LEMMA StillUnseen ==
    ASSUME TreesInv, NEW s \in Slot, NEW r \in Request \cup {None}, Serve(s, r),
           cache' = cache, made' \in {made, made + 1},
           r # None /\ r.path # 0 /\ r.at \in {"lookup", "analysing", "storing"} =>
              \/ req[s] # None /\ req[s].at \in {"lookup", "analysing", "storing"} /\ r.path = req[s].path
              \/ r.path = made + 1
    PROVE  Unseen'
<1>1. /\ req'[s] = r
      /\ \A x \in Slot : x # s => req'[x] = req[x]
  BY Serving DEF TreesInv
<1>2. made \in Nat /\ made' >= made
  BY DEF TreesInv, TreesTyped
<1> SUFFICES ASSUME NEW e \in Elements(cache)
             PROVE  /\ e.path \in 1..made'
                    /\ \A x \in Housed' :
                          req'[x].at \in {"lookup", "analysing", "storing"} => e.path # req'[x].path
  BY DEF Unseen
<1>3. /\ e.path \in 1..made
      /\ \A x \in Housed : req[x].at \in {"lookup", "analysing", "storing"} => e.path # req[x].path
  BY DEF TreesInv, Unseen
<1>4. e.path \in 1..made' /\ e.path # made + 1
  BY <1>2, <1>3
<1>5. ASSUME NEW x \in Slot, req'[x] # None, req'[x].path # 0,
             req'[x].at \in {"lookup", "analysing", "storing"}
      PROVE  e.path # req'[x].path
  BY <1>1, <1>3, <1>4, <1>5 DEF Housed
<1> QED
  BY <1>4, <1>5 DEF Housed

\* The steps of a request that neither make nor remove a directory.
LEMMA QuietKeeps ==
    ASSUME TreesInv, NEW s \in Slot, Arrive(s) \/ Open(s) \/ NoSession(s) \/ Analyse(s)
    PROVE  TreesInv'
<1> USE DEF TreesInv
<1>1. UNCHANGED <<local, process, head, made, disk, strays, cache>>
  BY DEF Arrive, Open, NoSession, Analyse
<1>2. ASSUME NEW r \in Request \cup {None}, Serve(s, r), House(r) = House(req[s]),
             r # None => Sound(r),
             r # None /\ r.path # 0 /\ r.at \in {"lookup", "analysing", "storing"} =>
                req[s] # None /\ req[s].at \in {"lookup", "analysing", "storing"} /\ r.path = req[s].path
      PROVE  TreesInv'
  <2>1. TreesTyped'
    BY <1>1, <1>2, Serving DEF TreesTyped
  <2>2. Apart' /\ TreesLiveOneRequest'
    BY <1>1, <1>2, SameHouse
  <2>3. Current'
    BY <1>1, <1>2, StillCurrent
  <2>4. Unseen'
    BY <1>1, <1>2, StillUnseen
  <2> QED
    BY <2>1, <2>2, <2>3, <2>4
<1>3. CASE Arrive(s)
  <2>1. PICK kind \in Kind, source \in Source :
            Serve(s, [at |-> "checkout", kind |-> kind, source |-> source, since |-> head[source],
                      path |-> 0, tree |-> 0, result |-> None])
    BY <1>3 DEF Arrive
  <2> DEFINE r == [at |-> "checkout", kind |-> kind, source |-> source, since |-> head[source],
                   path |-> 0, tree |-> 0, result |-> None]
  <2>2. head[source] \in Nat
    BY DEF TreesTyped
  <2>3. r \in Request
    BY <2>2 DEF Request
  <2>4. Sound(r)
    BY <2>2 DEF Sound
  <2>5. House(r) = 0 /\ House(req[s]) = 0
    BY <1>3, <2>3, NoneIsNoRequest DEF House, Arrive
  <2> QED
    BY <1>2, <2>1, <2>3, <2>4, <2>5
<1>4. CASE NoSession(s)
  <2>1. Serve(s, None) /\ House(req[s]) = 0
    BY <1>4 DEF NoSession, Refuse, House, At, Current, Sound
  <2> QED
    BY <1>2, <2>1 DEF House
<1>5. CASE Open(s)
  <2>1. /\ req[s] \in Request /\ req[s].at = "checkout" /\ req[s].source \in Folder
        /\ req[s].source \notin Repo /\ Sound(req[s])
    BY <1>5, TreesAssumption DEF Open, At, TreesTyped, Current, TreesAssumption
  <2>2. House(req[s]) = 0 /\ req[s].path = 0
    BY <2>1 DEF House, Sound
  <2>3. CASE Serve(s, None)
    BY <1>2, <2>2, <2>3 DEF House
  <2>4. CASE GoTo(s, Onward(req[s]))
    <3> DEFINE r == [req[s] EXCEPT !.at = Onward(req[s])]
    <3>1. Onward(req[s]) \in {"firing", "analysing"}
      BY <2>1 DEF Onward, Caches
    <3>2. /\ r \in Request /\ r.at \in {"firing", "analysing"} /\ r.source = req[s].source
          /\ r.path = 0 /\ r.since = req[s].since /\ r.result = req[s].result /\ r.tree = req[s].tree
      BY <2>1, <2>2, <3>1 DEF Request
    <3>3. Sound(r)
      <4> HIDE DEF r
      <4> QED
        BY <2>1, <3>2 DEF Sound
    <3>4. House(r) = 0 /\ Serve(s, r)
      BY <2>4, <3>2, NoneIsNoRequest DEF House, GoTo
    <3> HIDE DEF r
    <3> QED
      BY <1>2, <2>2, <3>2, <3>3, <3>4
  <2> QED
    BY <1>5, <2>3, <2>4 DEF Open, Refuse
<1>6. CASE Analyse(s)
  <2>1. /\ req[s] \in Request /\ req[s].at = "analysing" /\ Sound(req[s]) /\ req[s] # None
        /\ House(req[s]) = req[s].path
    BY <1>6 DEF Analyse, At, TreesTyped, Current, House
  <2>2. head[req[s].source] \in Nat /\ req[s].since <= head[req[s].source]
    BY <2>1 DEF TreesTyped, Sound, Request
  <2>3. CASE GoTo(s, "leaving")
    <3> DEFINE r == [req[s] EXCEPT !.at = "leaving"]
    <3>1. /\ r \in Request /\ r.at = "leaving" /\ r.source = req[s].source
          /\ r.path = req[s].path /\ r.since = req[s].since /\ r.result = req[s].result
          /\ r.tree = req[s].tree
      BY <2>1 DEF Request
    <3>2. Serve(s, r)
      BY <2>3 DEF GoTo
    <3> HIDE DEF r
    <3>3. Sound(r)
      BY <2>1, <3>1 DEF Sound
    <3>4. House(r) = House(req[s])
      BY <2>1, <3>1, NoneIsNoRequest DEF House
    <3> QED
      BY <1>2, <3>1, <3>2, <3>3, <3>4
  <2>4. CASE Serve(s, [req[s] EXCEPT
                  !.at = IF Caches(req[s]) THEN "storing" ELSE "leaving",
                  !.result = IF req[s].source \in Folder THEN head[req[s].source] ELSE req[s].tree])
    <3> DEFINE place == IF Caches(req[s]) THEN "storing" ELSE "leaving"
               result == IF req[s].source \in Folder THEN head[req[s].source] ELSE req[s].tree
               r == [req[s] EXCEPT !.at = place, !.result = result]
    <3>1. /\ place \in {"storing", "leaving"} /\ result \in Nat
          /\ place = "storing" => req[s].source \in Repo
          /\ result >= req[s].since
          /\ req[s].path # 0 => result = req[s].tree
      <4>1. req[s].source \in Repo \/ req[s].source \in Folder
        BY <2>1 DEF Request, Source
      <4>2. CASE req[s].source \in Folder
        <5>1. req[s].source \notin Repo /\ result = head[req[s].source] /\ req[s].path = 0
          BY <2>1, <4>2, TreesAssumption DEF TreesAssumption, Sound
        <5> QED
          BY <2>1, <2>2, <5>1 DEF Caches, Request
      <4>3. CASE req[s].source \in Repo
        <5>1. /\ result = req[s].tree /\ req[s].path # 0 /\ req[s].since <= req[s].tree
          BY <2>1, <4>3, TreesAssumption DEF TreesAssumption, Sound
        <5> QED
          BY <2>1, <4>3, <5>1 DEF Request
      <4> QED
        BY <4>1, <4>2, <4>3
    <3> HIDE DEF place, result
    <3>2. /\ r \in Request /\ r.at = place /\ r.source = req[s].source
          /\ r.path = req[s].path /\ r.since = req[s].since /\ r.result = result
          /\ r.tree = req[s].tree
      BY <2>1, <3>1 DEF Request
    <3>3. Serve(s, r)
      BY <2>4 DEF place, result
    <3> HIDE DEF r
    <3>4. Sound(r)
      BY <2>1, <3>1, <3>2 DEF Sound
    <3>5. House(r) = House(req[s])
      BY <2>1, <3>2, NoneIsNoRequest DEF House
    <3> QED
      BY <1>2, <2>1, <3>1, <3>2, <3>3, <3>4, <3>5
  <2> QED
    BY <1>6, <2>3, <2>4 DEF Analyse
<1> QED
  BY <1>3, <1>4, <1>5, <1>6
\* The cache is looked at, and never has what the request looks for.
LEMMA LookupKeeps ==
    ASSUME TreesInv, NEW s \in Slot, Lookup(s)
    PROVE  TreesInv'
<1> USE DEF TreesInv
<1>1. /\ req[s] \in Request /\ req[s].at = "lookup" /\ Sound(req[s]) /\ req[s] # None
      /\ House(req[s]) = req[s].path
  BY DEF Lookup, At, TreesTyped, Current, House
<1>2. s \in Housed
  BY <1>1 DEF Sound, Housed
<1>3. Cached(req[s].path) = {}
  <2>1. cache \in Seq(Entry)
    BY DEF TreesTyped
  <2>2. DOMAIN cache = 1..Len(cache)
    BY <2>1
  <2> QED
    BY <1>1, <1>2, <2>2 DEF Unseen, Elements, Cached
<1> DEFINE r == [req[s] EXCEPT !.at = "analysing"]
<1>4. /\ r \in Request /\ r.at = "analysing" /\ r.source = req[s].source
      /\ r.path = req[s].path /\ r.since = req[s].since /\ r.result = req[s].result
      /\ r.tree = req[s].tree
  BY <1>1 DEF Request
<1>5. Serve(s, r) /\ UNCHANGED <<local, process, head, made, disk, strays, cache>>
  BY <1>3 DEF Lookup, GoTo
<1> HIDE DEF r
<1>6. Sound(r)
  BY <1>1, <1>4 DEF Sound
<1>7. House(r) = House(req[s])
  BY <1>1, <1>4, NoneIsNoRequest DEF House
<1>8. TreesTyped'
  BY <1>4, <1>5, Serving DEF TreesTyped
<1>9. Apart' /\ TreesLiveOneRequest'
  BY <1>4, <1>5, <1>7, SameHouse
<1>10. Current'
  BY <1>4, <1>5, <1>6, StillCurrent
<1>11. Unseen'
  BY <1>1, <1>4, <1>5, StillUnseen
<1> QED
  BY <1>8, <1>9, <1>10, <1>11

\* A directory is made for one request, which nobody else has.
LEMMA FetchKeeps ==
    ASSUME TreesInv, NEW s \in Slot, Fetch(s) \/ FetchFails(s)
    PROVE  TreesInv'
<1> USE DEF TreesInv
<1>1. /\ req[s] \in Request /\ req[s].at = "checkout" /\ req[s].source \in Repo
      /\ Sound(req[s]) /\ req[s] # None /\ req[s].path = 0
      /\ made' = made + 1 /\ UNCHANGED <<local, process, head, cache>>
  BY DEF Fetch, FetchFails, At, TreesTyped, Current, Sound
<1>2. made \in Nat /\ s \notin Housed
  BY <1>1 DEF TreesTyped, Housed
<1>3. \A x \in Housed : req[x].path # made + 1
  BY <1>2 DEF Apart
<1>4. CASE Fetch(s)
  <2> DEFINE r == [req[s] EXCEPT !.at = Onward(req[s]), !.path = made + 1,
                                 !.tree = head[req[s].source]]
  <2>1. Serve(s, r) /\ disk' = disk \cup {made + 1} /\ strays' = strays
    BY <1>1, <1>4 DEF Fetch
  <2>2. head[req[s].source] \in Nat /\ req[s].since <= head[req[s].source]
    BY <1>1 DEF TreesTyped, Sound, Request
  <2>3. /\ Onward(req[s]) \in {"firing", "lookup", "analysing"}
    BY DEF Onward
  <2>4. /\ r \in Request /\ r.at \in {"firing", "lookup", "analysing"} /\ r.source = req[s].source
        /\ r.path = made + 1 /\ r.since = req[s].since /\ r.result = req[s].result
        /\ r.tree = head[req[s].source]
    <3>1. made + 1 \in Nat
      BY <1>2
    <3> QED
      BY <1>1, <2>2, <2>3, <3>1 DEF Request
  <2> HIDE DEF r
  <2>5. Sound(r)
    BY <1>1, <1>2, <2>2, <2>4 DEF Sound
  <2>6. r # None /\ r \in Request \cup {None}
    BY <2>4, NoneIsNoRequest
  <2>7. /\ req'[s] = r
        /\ \A x \in Slot : x # s => req'[x] = req[x]
        /\ req' \in [Slot -> Request \cup {None}]
    BY <2>1, <2>6, Serving
  <2>8. TreesTyped'
    BY <1>1, <1>2, <2>1, <2>7 DEF TreesTyped
  <2>9. Housed' = Housed \cup {s}
    BY <1>2, <2>4, <2>6, <2>7 DEF Housed
  <2>10. \A x \in Housed : x # s /\ req'[x] = req[x]
    BY <1>2, <2>7 DEF Housed
  <2>11. Apart'
    <3>1. \A x \in Housed' : req'[x].path \in (1..made') \ strays'
      BY <1>1, <1>2, <2>1, <2>4, <2>7, <2>9, <2>10 DEF Apart, TreesTyped
    <3>2. \A x, y \in Housed' : req'[x].path = req'[y].path => x = y
      BY <1>3, <2>4, <2>7, <2>9, <2>10 DEF Apart
    <3> QED
      BY <3>1, <3>2 DEF Apart
  <2>12. TreesLiveOneRequest'
    <3>1. {req'[x].path : x \in Housed'} = {req[x].path : x \in Housed} \cup {made + 1}
      BY <2>4, <2>7, <2>9, <2>10
    <3> QED
      BY <2>1, <3>1 DEF TreesLiveOneRequest, Housed
  <2>13. Current'
    BY <1>1, <2>1, <2>5, <2>6, StillCurrent
  <2>14. Unseen'
    BY <1>1, <2>1, <2>4, <2>6, StillUnseen
  <2> QED
    BY <2>8, <2>11, <2>12, <2>13, <2>14
<1>5. CASE FetchFails(s)
  <2>1. /\ Serve(s, None)
        /\ \/ UNCHANGED <<disk, strays>>
           \/ disk' = disk \cup {made + 1} /\ strays' = strays \cup {made + 1}
    BY <1>1, <1>5 DEF FetchFails, Refuse
  <2>2. /\ req'[s] = None
        /\ \A x \in Slot : x # s => req'[x] = req[x]
        /\ req' \in [Slot -> Request \cup {None}]
    BY <2>1, Serving
  <2>s. strays' \subseteq 1..made + 1
    <3>1. strays \subseteq 1..made /\ 1..made \subseteq 1..made + 1 /\ made + 1 \in 1..made + 1
      BY <1>2 DEF TreesTyped
    <3> QED
      BY <2>1, <3>1
  <2>3. TreesTyped'
    BY <1>1, <1>2, <2>s, <2>2 DEF TreesTyped
  <2>4. Housed' = Housed /\ \A x \in Housed : req'[x] = req[x]
    BY <1>2, <2>2 DEF Housed
  <2>5. Apart'
    BY <1>1, <1>2, <1>3, <2>1, <2>4 DEF Apart
  <2>6. {req'[x].path : x \in Housed'} = {req[x].path : x \in Housed}
    BY <2>4
  <2>7. TreesLiveOneRequest'
    BY <2>1, <2>6 DEF TreesLiveOneRequest, Housed
  <2>8. Current'
    BY <1>1, <2>1, StillCurrent
  <2>9. Unseen'
    BY <1>1, <2>1, StillUnseen
  <2> QED
    BY <2>3, <2>5, <2>7, <2>8, <2>9
<1> QED
  BY <1>4, <1>5

\* A request that ends gives its directory up, to nobody or to the strays.
LEMMA EndKeeps ==
    ASSUME TreesInv, NEW s \in Slot, req[s] # None, Serve(s, None),
           UNCHANGED <<head, made, cache>>,
           \/ disk' = disk \ {req[s].path} /\ strays' = strays
           \/ disk' = disk /\ req[s].path # 0 /\ strays' = strays \cup {req[s].path}
    PROVE  TreesInv'
<1> USE DEF TreesInv
<1>1. /\ req'[s] = None
      /\ \A x \in Slot : x # s => req'[x] = req[x]
      /\ req' \in [Slot -> Request \cup {None}]
  BY Serving
<1>2. Housed' = Housed \ {s} /\ \A x \in Housed' : req'[x] = req[x]
  BY <1>1 DEF Housed
<1>3. req[s].path # 0 => s \in Housed
  BY DEF Housed
<1>4. \A x \in Housed' : req'[x].path # req[s].path
  BY <1>2, <1>3 DEF Apart, Housed
<1>5. {req[x].path : x \in Housed} \ {req[s].path} = {req'[x].path : x \in Housed'}
  BY <1>2, <1>4
<1>6. req[s].path \notin strays
  <2>1. CASE req[s].path = 0
    BY <2>1 DEF TreesTyped
  <2>2. CASE req[s].path # 0
    BY <1>3, <2>2 DEF Apart
  <2> QED
    BY <2>1, <2>2
<1>7. disk = strays \cup {req[x].path : x \in Housed}
  BY DEF TreesLiveOneRequest, Housed
<1>8. TreesLiveOneRequest'
  <2>1. disk' = strays' \cup {req'[x].path : x \in Housed'}
    <3>1. CASE disk' = disk \ {req[s].path} /\ strays' = strays
      BY <1>5, <1>6, <1>7, <3>1
    <3>2. CASE disk' = disk /\ req[s].path # 0 /\ strays' = strays \cup {req[s].path}
      <4>1. req[s].path \in {req[x].path : x \in Housed}
        BY <1>3, <3>2
      <4> QED
        BY <1>5, <1>7, <3>2, <4>1
    <3> QED
      BY <3>1, <3>2
  <2> QED
    BY <2>1 DEF TreesLiveOneRequest, Housed
<1>9. strays' \subseteq 1..made
  <2>1. req[s].path # 0 => req[s].path \in 1..made
    BY <1>3 DEF Apart
  <2> QED
    BY <2>1 DEF TreesTyped
<1>10. TreesTyped'
  BY <1>1, <1>9 DEF TreesTyped
<1>11. Apart'
  BY <1>2, <1>4 DEF Apart
<1>12. Current'
  BY StillCurrent
<1>13. Unseen'
  BY StillUnseen
<1> QED
  BY <1>8, <1>10, <1>11, <1>12, <1>13
\* What is left of the cache when the entry under a path is taken out.
LEMMA Remaining ==
    ASSUME cache \in Seq(Entry), NEW path
    PROVE  Others(path) \in Seq(Entry) /\ Elements(Others(path)) \subseteq Elements(cache)
<1>1. DOMAIN cache = 1..Len(cache) /\ Len(cache) \in Nat
  BY LenProperties
<1>2. CASE Cached(path) = {}
  BY <1>2 DEF Others
<1>3. CASE Cached(path) # {}
  <2> DEFINE i == CHOOSE k \in Cached(path) : TRUE
  <2>1. i \in 1..Len(cache) /\ Others(path) = RemoveAt(cache, i)
    BY <1>1, <1>3 DEF Cached, Others
  <2> HIDE DEF i
  <2>2. /\ RemoveAt(cache, i) \in Seq(Entry) /\ Len(RemoveAt(cache, i)) = Len(cache)-1
        /\ \A k \in 1..Len(cache)-1 :
              RemoveAt(cache, i)[k] = IF k < i THEN cache[k] ELSE cache[k+1]
    BY <2>1, Cutting
  <2>3. \A k \in 1..Len(cache)-1 : RemoveAt(cache, i)[k] \in Elements(cache)
    BY <1>1, <2>1, <2>2 DEF Elements
  <2> QED
    BY <2>1, <2>2, <2>3 DEF Elements
<1> QED
  BY <1>2, <1>3

\* The entry a request leaves in the cache is under its own directory.
LEMMA StoreKeeps ==
    ASSUME TreesInv, NEW s \in Slot, Store(s)
    PROVE  TreesInv'
<1> USE DEF TreesInv
<1>1. /\ req[s] \in Request /\ req[s].at = "storing" /\ Sound(req[s]) /\ req[s] # None
      /\ House(req[s]) = req[s].path
  BY DEF Store, At, TreesTyped, Current, House
<1>2. s \in Housed /\ cache \in Seq(Entry)
  BY <1>1 DEF Sound, Housed, TreesTyped
<1> DEFINE r == [req[s] EXCEPT !.at = "leaving"]
           rest == Others(req[s].path)
           entry == [path |-> req[s].path, tree |-> req[s].result]
           all == Append(rest, entry)
<1>3. /\ r \in Request /\ r.at = "leaving" /\ r.source = req[s].source
      /\ r.path = req[s].path /\ r.since = req[s].since /\ r.result = req[s].result
      /\ r.tree = req[s].tree
  BY <1>1 DEF Request
<1>4. /\ Serve(s, r) /\ UNCHANGED <<local, process, head, made, disk, strays>>
      /\ cache' = IF Len(all) > CacheMax THEN Tail(all) ELSE all
  BY DEF Store, GoTo
<1>5. rest \in Seq(Entry) /\ Elements(rest) \subseteq Elements(cache)
  BY <1>2, Remaining
<1>6. entry \in Entry
  BY <1>1 DEF Request, Entry
<1> HIDE DEF r, rest, entry
<1>7. /\ all \in Seq(Entry) /\ Len(all) = Len(rest)+1 /\ Len(rest) \in Nat
      /\ \A k \in 1..Len(rest) : all[k] = rest[k]
      /\ all[Len(rest)+1] = entry
  BY <1>5, <1>6, AppendProperties, LenProperties
<1>8. \A e \in Elements(all) : e \in Elements(rest) \/ e = entry
  BY <1>7 DEF Elements
<1>9. /\ all # <<>> /\ Tail(all) \in Seq(Entry) /\ Len(Tail(all)) = Len(all)-1
      /\ \A k \in 1..Len(Tail(all)) : Tail(all)[k] = all[k+1]
  <2>1. all # <<>>
    BY <1>7
  <2> HIDE DEF all
  <2> QED
    BY <1>7, <2>1, HeadTailProperties
<1>10. Elements(Tail(all)) \subseteq Elements(all)
  BY <1>7, <1>9 DEF Elements
<1>11. cache' \in Seq(Entry) /\ \A e \in Elements(cache)' : e \in Elements(cache) \/ e = entry
  BY <1>4, <1>5, <1>7, <1>8, <1>9, <1>10 DEF Elements
<1>12. Sound(r)
  BY <1>1, <1>3 DEF Sound
<1>13. House(r) = House(req[s])
  BY <1>1, <1>3, NoneIsNoRequest DEF House
<1>14. TreesTyped'
  BY <1>3, <1>4, <1>11, Serving DEF TreesTyped
<1>15. Apart' /\ TreesLiveOneRequest'
  BY <1>3, <1>4, <1>13, SameHouse
<1>16. Current'
  BY <1>3, <1>4, <1>12, StillCurrent
<1>17. Unseen'
  <2>1. /\ req'[s] = r
        /\ \A x \in Slot : x # s => req'[x] = req[x]
    BY <1>3, <1>4, Serving
  <2>2. entry.path = req[s].path /\ entry.path \in 1..made
    BY <1>2 DEF entry, Apart
  <2>3. \A x \in Slot : req'[x] # None /\ req'[x].path # 0
            /\ req'[x].at \in {"lookup", "analysing", "storing"} =>
                x \in Housed /\ x # s /\ req'[x] = req[x] /\ req[x].path # entry.path
    BY <1>2, <1>3, <2>1, <2>2 DEF Housed, Apart
  <2>4. \A e \in Elements(cache)' :
            /\ e.path \in 1..made
            /\ \A x \in Housed' :
                  req'[x].at \in {"lookup", "analysing", "storing"} => e.path # req'[x].path
    BY <1>11, <2>2, <2>3 DEF Unseen, Housed
  <2> QED
    BY <1>4, <2>4 DEF Unseen
<1> QED
  BY <1>14, <1>15, <1>16, <1>17

LEMMA HandleKeeps ==
    ASSUME TreesInv, NEW s \in Slot, Handle(s)
    PROVE  TreesInv'
<1>1. CASE Fire(s)
  <2>1. req[s] \in Request /\ req[s].at = "firing" /\ Sound(req[s]) /\ req[s] # None
    BY <1>1 DEF Fire, At, TreesInv, TreesTyped, Current
  <2>2. CASE GoTo(s, "leaving") /\ UNCHANGED strays
    <3> DEFINE r == [req[s] EXCEPT !.at = "leaving"]
    <3>1. /\ r \in Request /\ r.at = "leaving" /\ r.source = req[s].source
          /\ r.path = req[s].path /\ r.since = req[s].since /\ r.result = req[s].result
          /\ r.tree = req[s].tree
      BY <2>1 DEF Request
    <3>2. Serve(s, r) /\ UNCHANGED <<head, made, disk, strays, cache>>
      BY <1>1, <2>2 DEF GoTo, Fire
    <3> HIDE DEF r
    <3>3. Sound(r) /\ House(r) = House(req[s])
      BY <2>1, <3>1, NoneIsNoRequest DEF Sound, House
    <3>4. TreesTyped'
      BY <3>1, <3>2, Serving DEF TreesInv, TreesTyped
    <3> QED
      BY <3>1, <3>2, <3>3, <3>4, SameHouse, StillCurrent, StillUnseen DEF TreesInv
  <2>3. CASE req[s].path # 0 /\ strays' = strays \cup {req[s].path} /\ Refuse(s)
    BY <1>1, <2>1, <2>3, EndKeeps DEF Fire, Refuse
  <2> QED
    BY <1>1, <2>2, <2>3 DEF Fire
<1>2. CASE Leave(s)
  BY <1>2, EndKeeps DEF Leave, At, Cleanup, Refuse
<1> QED
  BY <1>1, <1>2, QuietKeeps, LookupKeeps, FetchKeeps, StoreKeeps DEF Handle

LEMMA TreesNextKeeps == TreesInv /\ [TreesNext]_treesvars => TreesInv'
<1> SUFFICES ASSUME TreesInv, [TreesNext]_treesvars PROVE TreesInv'
  OBVIOUS
<1> USE DEF TreesInv
<1>1. CASE \E s \in Slot : Handle(s)
  BY <1>1, HandleKeeps
<1>2. ASSUME NEW source \in Source, Change(source)
      PROVE  TreesInv'
  <2>1. /\ head' = [head EXCEPT ![source] = head[source] + 1]
        /\ UNCHANGED <<local, process, req, made, disk, strays, cache>>
    BY <1>2 DEF Change
  <2>2. /\ head' \in [Source -> Nat]
        /\ \A x \in Source : head[x] \in Nat /\ head'[x] \in Nat /\ head[x] <= head'[x]
    BY <2>1 DEF TreesTyped
  <2>3. Current'
    <3> SUFFICES ASSUME NEW s \in Slot, req[s] # None
                 PROVE  req[s].since <= head'[req[s].source]
      BY <2>1 DEF Current, Sound
    <3>1. req[s].source \in Source /\ req[s].since \in Nat /\ req[s].since <= head[req[s].source]
      BY DEF TreesTyped, Request, Current, Sound
    <3> QED
      BY <2>2, <3>1
  <2> QED
    BY <2>1, <2>2, <2>3 DEF TreesTyped, Apart, Unseen, TreesLiveOneRequest, Housed
<1>3. CASE Restart
  <2>1. /\ req' = [s \in Slot |-> None] /\ strays' = disk /\ cache' = <<>>
        /\ UNCHANGED <<local, head, made, disk>>
    BY <1>3 DEF Restart
  <2>2. disk \subseteq 1..made
    BY DEF TreesTyped, TreesLiveOneRequest, Apart, Housed
  <2>3. Housed' = {} /\ Elements(cache)' = {}
    BY <2>1 DEF Housed, Elements
  <2>4. TreesTyped'
    BY <2>1, <2>2 DEF TreesTyped
  <2>5. Apart' /\ Current' /\ Unseen'
    BY <2>1, <2>3 DEF Apart, Current, Unseen
  <2>6. TreesLiveOneRequest'
    BY <2>1, <2>3 DEF TreesLiveOneRequest, Housed
  <2> QED
    BY <2>4, <2>5, <2>6
<1>4. CASE UNCHANGED treesvars
  BY <1>4 DEF treesvars, TreesTyped, Apart, Current, Sound, Unseen, TreesLiveOneRequest, Housed, Elements
<1> QED
  BY <1>1, <1>2, <1>3, <1>4 DEF TreesNext

LEMMA TreesAlways == TreesSpec => []TreesInv
<1>1. TreesInit => TreesInv
  BY DEF TreesInit, TreesInv, TreesTyped, Apart, Current, Unseen, TreesLiveOneRequest, Housed, Elements
<1> QED
  BY <1>1, TreesNextKeeps, PTL DEF TreesSpec

-----------------------------------------------------------------------------
\* An answer describes the tree the request fetched, and never one older than the click,
\* however many requests share the cache and however often it is emptied: no entry is ever
\* under the directory of a request that has yet to look (_analysis_for, _checkout).
THEOREM AnswersDescribeTheClick == TreesSpec => []AnswersAreCurrent
<1>1. TreesInv => AnswersAreCurrent
  BY DEF TreesInv, Current, Sound, AnswersAreCurrent, At
<1> QED
  BY <1>1, TreesAlways, PTL

\* The directories on disk are those of the requests being served and those whose request
\* could not remove its own (_checkout, fetch_repo).
THEOREM TreesAreRemoved == TreesSpec => []TreesLiveOneRequest
<1>1. TreesInv => TreesLiveOneRequest
  BY DEF TreesInv
<1> QED
  BY <1>1, TreesAlways, PTL
=============================================================================
