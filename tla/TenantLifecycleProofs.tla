------------------------ MODULE TenantLifecycleProofs ------------------------
(***************************************************************************)
(* The tenant's row and the danger zone of the settings are accounted for, *)
(* for any bounds.  Handlers read the row, decide and write back without a *)
(* lock, so none of it is inductive: one needs to know what a handler that *)
(* has read the row relies on (ReadsAccepted), whether that still holds    *)
(* (SnapsFresh, WithdrawalsNoticed), which of Paddle's webhooks are still  *)
(* to come (WebhooksInOrder) and what the page is waiting for              *)
(* (ZoneExplained).                                                        *)
(***************************************************************************)
EXTENDS TenantLifecycle, FiniteSetTheorems, TLAPS

Rows == [there : BOOLEAN, active : BOOLEAN, request : 0 .. requests, scheduled : 0 .. requests]
JobsOfType ==
  [id : 1 .. MaxJobs, op : Operations, n : Nat, right : BOOLEAN, mine : BOOLEAN,
   phase : {"sent", "read", "done"}, snap : Rows, ok : BOOLEAN, overtaken : BOOLEAN, stale : BOOLEAN]

\* The jobs are finitely many records, told apart by operation and id.
JobsOK ==
  /\ IsFiniteSet(jobs) /\ jobs \subseteq JobsOfType
  /\ \A j, k \in jobs : j.op = k.op /\ j.id = k.id => j = k
  /\ \A j \in jobs : j.mine => j.op \in AdminOps

\* A job that has read the row found there what its endpoint asks for.
ReadsAccepted ==
  \A j \in jobs : j.phase = "read" =>
    /\ j.op # "profile"
    /\ j.op = "request" => j.snap.request = 0
    /\ j.op \in {"cancel"} \cup Decisions => j.snap.request # 0

\* The row is as a job read it, until someone changes it.
SnapsFresh == \A j \in jobs : j.phase = "read" /\ ~j.stale => j.snap = tenant

\* A handler that acts on a pending request acts on one that pends, or knows
\* that it was withdrawn.
WithdrawalsNoticed ==
  \A j \in jobs : j.phase = "read" /\ j.op \in Decisions /\ ~j.overtaken /\ tenant.there =>
    tenant.request # 0

\* A date that outlived its request has its reason, also while none pends.
SchedulesExplained ==
  tenant.scheduled # 0 => tenant.scheduled = tenant.request \/ carried # {}

\* The last writer of is_active is known, and what it wrote is there.
ActiveExplained ==
  /\ tenant.request # 0 /\ tenant.active => activeBy \in {"activate", "subscribed", "overlap"}
  /\ tenant.there => (activeBy = "subscribed" => tenant.active) /\ (activeBy = "canceled" => ~tenant.active)

\* Until a webhook comes late, twice or while another is handled, the ones
\* still to be handled are the last that Paddle announced, and the one that
\* has read the row is the first of them.
Due == Handled(Webhooks)
WebhooksInOrder ==
  tenant.there =>
    /\ \A j \in Due : j.n \in DOMAIN announced /\ j.op = announced[j.n] /\ ~j.mine /\ j.phase # "done"
    /\ ~disorder =>
         /\ \A j, k \in Due : j.n = k.n => j = k
         /\ \A j \in Due : j.phase = "read" => \A k \in Due \ {j} : k.n > j.n
         /\ \E c \in 0 .. Len(announced) :
              /\ \A i \in DOMAIN announced : i > c <=> \E j \in Due : j.n = i
              /\ activeBy \in Webhooks => c >= 1 /\ activeBy = announced[c]

\* What the page waits for is its only request, and its answer will be true.
ZoneAgrees == zone = "pending" <=> tenant.request # 0
Foretells(j) ==
  /\ j.op = "profile" =>
       /\ zone = "idle"
       /\ j.phase = "done" => j.ok /\ (j.snap.request # 0 <=> tenant.request # 0)
  /\ j.op # "profile" /\ j.phase = "done" /\ j.ok => (j.op = "request" <=> tenant.request # 0)
  /\ j.op # "profile" /\ ~(j.phase = "done" /\ j.ok) => ZoneAgrees
ZoneExplained ==
  excuse = {} =>
    /\ \A j, k \in jobs : j.mine /\ k.mine => j = k
    /\ \A j \in jobs : j.mine => Foretells(j)
    /\ (\A j \in jobs : ~j.mine) => ZoneAgrees

\* Every deletion asked for, or still to be, was asked for by the admin.
ToAsk == {j \in jobs : j.op = "request" /\ j.phase # "done"}
AsksCounted ==
  asks \in 0 .. MaxAsks /\ requests + Cardinality({j.id : j \in ToAsk}) <= asks

IndInv ==
  /\ TypeOK /\ JobsOK /\ AsksCounted /\ ReadsAccepted /\ SnapsFresh
  /\ WithdrawalsNoticed /\ SchedulesExplained /\ ActiveExplained
  /\ WebhooksInOrder /\ ZoneExplained

----------------------------------------------------------------------------
(* Jobs are counted: a changed set of jobs is no larger than the one it      *)
(* comes from.                                                               *)
LEMMA ImageOfFinite ==
  ASSUME NEW S, IsFiniteSet(S), NEW f, f = [x \in S |-> f[x]]
  PROVE  IsFiniteSet({f[x] : x \in S}) /\ Cardinality({f[x] : x \in S}) <= Cardinality(S)
<1> DEFINE T == {f[x] : x \in S}
<1>1. f \in Surjection(S, T)
  BY DEF Surjection
<1> HIDE DEF T
<1>2. IsFiniteSet(T) /\ Cardinality(T) <= Cardinality(S)
  BY <1>1, FS_Surjection
<1> QED BY <1>2 DEF T

(* Start and OpenSettings find a free number for their job.                  *)
LEMMA FreeId ==
  ASSUME IndInv, Cardinality(jobs) < MaxJobs, NEW op \in Operations, NEW n \in Nat
  PROVE  /\ Job(op, n) = NewJob(Job(op, n).id, op, n)
         /\ Job(op, n).id \in 1 .. MaxJobs
         /\ \A j \in jobs : j.op = op => j.id # Job(op, n).id
<1> DEFINE f == [j \in jobs |-> j.id]
           Taken == {f[j] : j \in jobs}
           Free(i) == \A j \in Handled({op}) : j.id # i
<1>1. IsFiniteSet(jobs) /\ Cardinality(jobs) \in Nat
  BY FS_CardinalityType DEF IndInv, JobsOK
<1>2. IsFiniteSet(Taken) /\ Cardinality(Taken) <= Cardinality(jobs) /\ Cardinality(Taken) \in Nat
  <2>1. f = [x \in jobs |-> f[x]]
    OBVIOUS
  <2> HIDE DEF f
  <2>2. IsFiniteSet(Taken) /\ Cardinality(Taken) <= Cardinality(jobs)
    BY <1>1, <2>1, ImageOfFinite
  <2> QED BY <2>2, FS_CardinalityType
<1>3. MaxJobs \in Nat
  BY LifecycleAssumption
<1>4. \E i \in 1 .. MaxJobs : i \notin Taken
  <2> SUFFICES ASSUME 1 .. MaxJobs \subseteq Taken PROVE FALSE
    OBVIOUS
  <2>1. Cardinality(1 .. MaxJobs) = MaxJobs
    BY <1>1, <1>3, FS_Interval
  <2>2. Cardinality(1 .. MaxJobs) <= Cardinality(Taken)
    BY <1>2, FS_Subset
  <2> QED BY <1>1, <1>2, <1>3, <2>1, <2>2
<1>5. \E i \in 1 .. MaxJobs : Free(i)
  BY <1>4 DEF Handled
<1> DEFINE id == CHOOSE i \in 1 .. MaxJobs : Free(i)
<1>6. id \in 1 .. MaxJobs /\ Free(id)
  BY <1>5
<1>7. Job(op, n) = NewJob(id, op, n)
  BY DEF Job
<1> HIDE DEF id, Free
<1>8. Job(op, n).id = id
  BY <1>7 DEF NewJob
<1> QED BY <1>6, <1>7, <1>8 DEF Handled, Free

Fresh(new) ==
  /\ new \in JobsOfType /\ (new.mine => new.op \in AdminOps)
  /\ \A j \in jobs : j.op = new.op => j.id # new.id

\* What a job keeps all its life.
SameJob(k, j) == k.op = j.op /\ k.id = j.id /\ k.n = j.n /\ (k.mine => j.mine)

(* One element more is at most one more.                                     *)
LEMMA OneMore ==
  ASSUME NEW S, IsFiniteSet(S), NEW x
  PROVE  /\ IsFiniteSet(S \cup {x}) /\ Cardinality(S \cup {x}) <= Cardinality(S) + 1
         /\ Cardinality(S) \in Nat /\ Cardinality(S \cup {x}) \in Nat
         /\ x \in S => Cardinality(S \ {x}) = Cardinality(S) - 1 /\ IsFiniteSet(S \ {x})
<1>1. IsFiniteSet(S \cup {x}) /\ Cardinality(S) \in Nat
  BY FS_AddElement, FS_CardinalityType
<1>2. Cardinality(S \cup {x}) = IF x \in S THEN Cardinality(S) ELSE Cardinality(S) + 1
  BY FS_AddElement
<1>3. x \in S => Cardinality(S \ {x}) = Cardinality(S) - 1 /\ IsFiniteSet(S \ {x})
  BY FS_RemoveElement
<1> QED BY <1>1, <1>2, <1>3

(* Start, and OpenSettings, which also disowns the jobs of the page that was *)
(* open before.                                                              *)
LEMMA JobAdded ==
  ASSUME IndInv, Cardinality(jobs) < MaxJobs, requests' = requests, NEW new, Fresh(new),
         \/ jobs' = jobs \cup {new}
         \/ jobs' = {[j EXCEPT !.mine = FALSE] : j \in jobs} \cup {new}
  PROVE  JobsOK' /\ Cardinality(jobs') <= MaxJobs
<1> USE DEF IndInv, JobsOK
<1>1. JobsOfType' = JobsOfType
  BY DEF JobsOfType, Rows
<1>2. Cardinality(jobs) \in Nat /\ MaxJobs \in Nat
  BY FS_CardinalityType, LifecycleAssumption
<1>3. CASE jobs' = jobs \cup {new}
  <2>1. IsFiniteSet(jobs') /\ Cardinality(jobs') <= MaxJobs
    <3>1. IsFiniteSet(jobs \cup {new}) /\ Cardinality(jobs \cup {new}) <= Cardinality(jobs) + 1
          /\ Cardinality(jobs \cup {new}) \in Nat
      BY OneMore
    <3> QED BY <1>2, <1>3, <3>1
  <2> QED BY <1>1, <1>3, <2>1 DEF Fresh
<1>4. CASE jobs' = {[j EXCEPT !.mine = FALSE] : j \in jobs} \cup {new}
  <2> DEFINE f == [j \in jobs |-> [j EXCEPT !.mine = FALSE]]
             old == {f[j] : j \in jobs}
  <2>1. jobs' = old \cup {new}
    BY <1>4
  <2>2. \A j \in jobs : f[j] \in JobsOfType /\ SameJob(f[j], j) /\ ~f[j].mine
    BY DEF JobsOfType, SameJob
  <2>3. \A k \in jobs' : k = new \/ \E j \in jobs : k = f[j]
    BY <2>1
  <2>4. f = [x \in jobs |-> f[x]]
    OBVIOUS
  <2> HIDE DEF f
  <2>5. IsFiniteSet(old) /\ Cardinality(old) <= Cardinality(jobs) /\ Cardinality(old) \in Nat
    BY <2>4, ImageOfFinite, FS_CardinalityType
  <2>6. IsFiniteSet(jobs') /\ Cardinality(jobs') <= MaxJobs
    <3> HIDE DEF old
    <3>1. IsFiniteSet(old \cup {new}) /\ Cardinality(old \cup {new}) <= Cardinality(old) + 1
          /\ Cardinality(old \cup {new}) \in Nat
      BY <2>5, OneMore
    <3> QED BY <1>2, <2>1, <2>5, <3>1
  <2>7. ASSUME NEW k \in jobs', NEW l \in jobs', k.op = l.op, k.id = l.id
        PROVE  k = l
    BY <2>2, <2>3, <2>7 DEF SameJob, Fresh
  <2> QED BY <1>1, <2>2, <2>3, <2>6, <2>7 DEF Fresh
<1> QED BY <1>3, <1>4

(* A handler or an answer moves one job on, or ends it.                      *)
LEMMA JobReplaced ==
  ASSUME IndInv, requests' = requests, NEW j \in jobs, NEW moved,
         moved \in jobs' => moved \in JobsOfType /\ SameJob(moved, j),
         jobs' \subseteq (jobs \ {j}) \cup {moved}
  PROVE  JobsOK' /\ Cardinality(jobs') <= MaxJobs
<1> USE DEF IndInv, JobsOK
<1>1. JobsOfType' = JobsOfType
  BY DEF JobsOfType, Rows
<1>2. Cardinality(jobs) \in Nat /\ MaxJobs \in Nat /\ Cardinality(jobs) <= MaxJobs
  BY FS_CardinalityType, LifecycleAssumption DEF TypeOK
<1>3. IsFiniteSet(jobs') /\ Cardinality(jobs') <= MaxJobs
  <2> DEFINE rest == jobs \ {j}
  <2>1. IsFiniteSet(rest) /\ Cardinality(rest) = Cardinality(jobs) - 1
    BY OneMore
  <2> HIDE DEF rest
  <2>2. IsFiniteSet(rest \cup {moved}) /\ Cardinality(rest \cup {moved}) <= Cardinality(rest) + 1
        /\ Cardinality(rest \cup {moved}) \in Nat
    BY <2>1, OneMore
  <2>3. IsFiniteSet(jobs') /\ Cardinality(jobs') <= Cardinality(rest \cup {moved})
    BY <2>2, FS_Subset DEF rest
  <2> QED BY <1>2, <2>1, <2>2, <2>3, FS_CardinalityType
<1>4. \A k \in jobs' : (k = moved /\ SameJob(k, j)) \/ k \in jobs \ {j}
  OBVIOUS
<1>5. ASSUME NEW k \in jobs', NEW l \in jobs', k.op = l.op, k.id = l.id
      PROVE  k = l
  BY <1>4, <1>5 DEF SameJob
<1> QED BY <1>1, <1>3, <1>4, <1>5 DEF SameJob

(* A commit marks the jobs that have read the row, and answers its own.      *)
LEMMA JobsOvertaken ==
  ASSUME IndInv, requests' \in {requests, requests + 1}, NEW j \in jobs, NEW done,
         done \in jobs' => done \in JobsOfType' /\ SameJob(done, j),
         jobs' \subseteq Overtaken(j) \cup {done}
  PROVE  JobsOK' /\ Cardinality(jobs') <= MaxJobs
<1> USE DEF IndInv, JobsOK
<1> DEFINE rest == jobs \ {j}
           f == [k \in rest |-> [k EXCEPT !.overtaken = @ \/ (k.phase = "read" /\ j.op \in Withdrawals),
                                          !.stale = @ \/ k.phase = "read"]]
           old == {f[k] : k \in rest}
<1>1. requests \in Nat /\ JobsOfType \subseteq JobsOfType'
  <2>1. requests \in Nat
    BY LifecycleAssumption DEF TypeOK
  <2>2. Rows \subseteq Rows'
    BY <2>1 DEF Rows
  <2> QED BY <2>1, <2>2 DEF JobsOfType
<1>2. Cardinality(jobs) \in Nat /\ MaxJobs \in Nat /\ Cardinality(jobs) <= MaxJobs
  BY FS_CardinalityType, LifecycleAssumption DEF TypeOK
<1>3. Overtaken(j) = old
  BY DEF Overtaken
<1>4. ASSUME NEW k \in rest
      PROVE  f[k] \in JobsOfType /\ SameJob(f[k], k)
  <2> DEFINE over == k.overtaken \/ (k.phase = "read" /\ j.op \in Withdrawals)
             late == k.stale \/ k.phase = "read"
  <2>1. k \in JobsOfType /\ over \in BOOLEAN /\ late \in BOOLEAN
    OBVIOUS
  <2>2. f[k] = [k EXCEPT !.overtaken = over, !.stale = late]
    OBVIOUS
  <2> HIDE DEF f, over, late
  <2> QED BY <2>1, <2>2 DEF JobsOfType, SameJob
<1>5. f = [x \in rest |-> f[x]]
  OBVIOUS
<1> HIDE DEF f
<1>6. IsFiniteSet(jobs') /\ Cardinality(jobs') <= MaxJobs
  <2>1. IsFiniteSet(rest) /\ Cardinality(rest) = Cardinality(jobs) - 1
    BY OneMore
  <2> HIDE DEF rest
  <2>2. IsFiniteSet(old) /\ Cardinality(old) <= Cardinality(rest) /\ Cardinality(old) \in Nat
    BY <1>5, <2>1, ImageOfFinite, FS_CardinalityType
  <2> HIDE DEF old
  <2>3. IsFiniteSet(old \cup {done}) /\ Cardinality(old \cup {done}) <= Cardinality(old) + 1
        /\ Cardinality(old \cup {done}) \in Nat
    BY <2>2, OneMore
  <2>4. IsFiniteSet(jobs') /\ Cardinality(jobs') <= Cardinality(old \cup {done})
    BY <1>3, <2>3, FS_Subset
  <2> QED BY <1>2, <2>1, <2>2, <2>3, <2>4, FS_CardinalityType
<1>7. \A k \in jobs' : (k = done /\ SameJob(k, j)) \/ \E i \in rest : k = f[i]
  BY <1>3
<1>8. ASSUME NEW k \in jobs', NEW l \in jobs', k.op = l.op, k.id = l.id
      PROVE  k = l
  BY <1>4, <1>7, <1>8 DEF SameJob
<1> QED BY <1>1, <1>4, <1>6, <1>7, <1>8 DEF SameJob

(* Nobody asks for another deletion.                                         *)
LEMMA AsksQuiet ==
  ASSUME IndInv, requests' = requests, asks' \in asks .. MaxAsks,
         \A k \in ToAsk' : \E l \in ToAsk : k.id = l.id
  PROVE  AsksCounted'
<1> DEFINE ids == {j.id : j \in ToAsk}
<1>1. ids \subseteq 1 .. MaxJobs /\ MaxJobs \in Nat
  BY LifecycleAssumption DEF IndInv, TypeOK, ToAsk
<1>2. IsFiniteSet(ids) /\ Cardinality(ids) \in Nat
  <2> HIDE DEF ids
  <2>1. IsFiniteSet(1 .. MaxJobs)
    BY <1>1, FS_Interval
  <2> QED BY <1>1, <2>1, FS_Subset, FS_CardinalityType
<1>3. ids' \subseteq ids
  OBVIOUS
<1>4. IsFiniteSet(ids') /\ Cardinality(ids') <= Cardinality(ids) /\ Cardinality(ids') \in Nat
  BY <1>2, <1>3, FS_Subset, FS_CardinalityType
<1>5. requests \in Nat /\ asks \in Nat /\ MaxAsks \in Nat /\ requests + Cardinality(ids) <= asks
  BY LifecycleAssumption DEF IndInv, TypeOK, AsksCounted
<1> HIDE DEF ids
<1>6. asks' \in 0 .. MaxAsks /\ requests' + Cardinality(ids') <= asks'
  BY <1>2, <1>4, <1>5
<1> QED BY <1>6 DEF AsksCounted, ids

----------------------------------------------------------------------------
(* Init establishes the inductive invariant: the page has asked for the      *)
(* profile of a tenant whose deletion nobody has asked for.                  *)
LEMMA InitIndInv == Init => IndInv
<1> SUFFICES ASSUME Init PROVE IndInv
  OBVIOUS
<1> DEFINE first == NewJob(1, "profile", 0)
<1> USE LifecycleAssumption DEF Init
<1>1. /\ requests = 0 /\ NoTenant \in Rows /\ tenant \in Rows /\ tenant.request = 0 /\ tenant.scheduled = 0
      /\ jobs = {first} /\ first \in JobsOfType /\ first.op = "profile" /\ first.phase = "sent"
  <2>1. NoTenant \in Rows /\ tenant \in Rows /\ tenant.request = 0 /\ tenant.scheduled = 0
    <3>1. 0 \in 0 .. requests
      OBVIOUS
    <3> QED BY <3>1 DEF NoTenant, Rows
  <2>2. first \in JobsOfType /\ first.op = "profile" /\ first.phase = "sent"
    BY <2>1 DEF JobsOfType, NewJob, AdminOps, Operations
  <2> QED BY <2>1, <2>2
<1>2. IsFiniteSet(jobs) /\ Cardinality(jobs) = 1
  BY <1>1, FS_Singleton
<1>3. TypeOK
  <2>1. \A j \in jobs : j.op \in Operations /\ j.phase \in {"sent", "read", "done"} /\ j.id \in 1 .. MaxJobs
    BY <1>1 DEF JobsOfType
  <2>2. /\ session \in {"none", "live", "expired"} /\ {kept, billing, busy, disorder} \subseteq BOOLEAN
        /\ announced \in Seq(Webhooks)
    <3>1. announced \in Seq(Webhooks)
      OBVIOUS
    <3>2. kept \in BOOLEAN /\ billing \in BOOLEAN /\ busy \in BOOLEAN /\ disorder \in BOOLEAN
      OBVIOUS
    <3> QED BY <3>1, <3>2
  <2>3. requests \in 0 .. MaxAsks
    BY <1>1
  <2> QED BY <1>1, <1>2, <2>1, <2>2, <2>3 DEF TypeOK, Rows
<1>4. JobsOK
  BY <1>1, <1>2 DEF JobsOK, JobsOfType, AdminOps, NewJob
<1>5. ReadsAccepted /\ SnapsFresh /\ WithdrawalsNoticed
  BY <1>1 DEF ReadsAccepted, SnapsFresh, WithdrawalsNoticed
<1>6. SchedulesExplained /\ ActiveExplained
  BY <1>1 DEF SchedulesExplained, ActiveExplained
<1>7. Due = {}
  BY <1>1 DEF Due, Handled, Webhooks
<1>8. WebhooksInOrder
  <2>1. Len(announced) = 0 /\ DOMAIN announced = {} /\ 0 \in 0 .. Len(announced)
    OBVIOUS
  <2> QED BY <1>7, <2>1 DEF WebhooksInOrder, Webhooks
<1>9. ZoneExplained
  BY <1>1 DEF ZoneExplained, Foretells, ZoneAgrees
<1>10. AsksCounted
  <2>1. {j.id : j \in ToAsk} = {}
    BY <1>1 DEF ToAsk
  <2>2. Cardinality({j.id : j \in ToAsk}) = 0
    BY <2>1, FS_EmptySet
  <2> QED BY <1>1, <2>2 DEF AsksCounted
<1> QED BY <1>3, <1>4, <1>5, <1>6, <1>8, <1>9, <1>10 DEF IndInv

(* Nobody writes the row: the jobs that have read it stand as they did, and  *)
(* so do the reasons for what it holds.                                      *)
LEMMA RowQuiet ==
  ASSUME IndInv, UNCHANGED <<tenant, activeBy, carried>>,
         \A k \in jobs' : k.phase = "read" =>
           \E l \in jobs : /\ l.phase = "read" /\ l.op = k.op /\ l.snap = k.snap
                           /\ l.stale = k.stale /\ l.overtaken = k.overtaken
  PROVE  ReadsAccepted' /\ SnapsFresh' /\ WithdrawalsNoticed' /\ SchedulesExplained' /\ ActiveExplained'
<1> USE DEF IndInv
<1>1. ReadsAccepted'
  BY DEF ReadsAccepted
<1>2. SnapsFresh'
  BY DEF SnapsFresh
<1>3. WithdrawalsNoticed'
  BY DEF WithdrawalsNoticed
<1>4. SchedulesExplained' /\ ActiveExplained'
  BY DEF SchedulesExplained, ActiveExplained
<1> QED BY <1>1, <1>2, <1>3, <1>4

(* The webhooks still to be handled stay the same ones, in the same state.   *)
LEMMA WebhooksQuiet ==
  ASSUME IndInv, JobsOK', announced' = announced, tenant'.there => tenant.there,
         activeBy' = activeBy \/ activeBy' \notin Webhooks, disorder \in BOOLEAN, disorder' = disorder,
         tenant.there =>
           /\ \A k \in Due' : \E l \in Due : SameJob(k, l) /\ k.phase = l.phase
           /\ \A l \in Due : \E k \in Due' : SameJob(k, l)
  PROVE  WebhooksInOrder'
<1> SUFFICES ASSUME tenant'.there PROVE WebhooksInOrder'
  BY DEF WebhooksInOrder
<1> USE DEF IndInv, SameJob
<1>1. \A j \in Due' : j.n \in DOMAIN announced /\ j.op = announced[j.n] /\ ~j.mine /\ j.phase # "done"
  BY DEF WebhooksInOrder
<1>2. ASSUME ~disorder, NEW j \in Due', NEW k \in Due', j.n = k.n
      PROVE  j = k
  <2>0. \A i, l \in Due : i.n = l.n => i = l
    BY <1>2 DEF WebhooksInOrder
  <2>1. PICK i \in Due : SameJob(j, i)
    OBVIOUS
  <2>2. PICK l \in Due : SameJob(k, l)
    OBVIOUS
  <2>3. i = l
    <3>1. i.n = l.n
      BY <1>2, <2>1, <2>2
    <3> QED BY ONLY <2>0, <2>1, <2>2, <3>1
  <2> QED BY <2>1, <2>2, <2>3 DEF JobsOK, Due, Handled
<1>3. ASSUME ~disorder, NEW j \in Due', j.phase = "read", NEW k \in Due' \ {j}
      PROVE  k.n > j.n
  <2>1. PICK i \in Due : SameJob(j, i) /\ j.phase = i.phase
    OBVIOUS
  <2>2. PICK l \in Due : SameJob(k, l)
    OBVIOUS
  <2>3. i # l
    BY <1>3, <2>1, <2>2 DEF JobsOK, Due, Handled
  <2> QED BY <1>3, <2>1, <2>2, <2>3 DEF WebhooksInOrder
<1>4. ASSUME ~disorder
      PROVE  \E c \in 0 .. Len(announced) :
               /\ \A i \in DOMAIN announced : i > c <=> \E j \in Due' : j.n = i
               /\ activeBy' \in Webhooks => c >= 1 /\ activeBy' = announced[c]
  <2>1. PICK c \in 0 .. Len(announced) :
          /\ \A i \in DOMAIN announced : i > c <=> \E j \in Due : j.n = i
          /\ activeBy \in Webhooks => c >= 1 /\ activeBy = announced[c]
    BY <1>4 DEF WebhooksInOrder
  <2>2. \A i : (\E j \in Due' : j.n = i) <=> (\E j \in Due : j.n = i)
    OBVIOUS
  <2> QED BY <2>1, <2>2
<1> QED BY <1>1, <1>2, <1>3, <1>4 DEF WebhooksInOrder

(* What the page waits for stays the same, and so does the truth about it.   *)
LEMMA ZoneQuiet ==
  ASSUME IndInv, JobsOK', excuse' = {} => excuse = {}, zone' = zone, tenant'.request = tenant.request,
         \A k \in jobs' : k.mine =>
           \E l \in jobs : SameJob(k, l) /\ k.phase = l.phase /\ k.ok = l.ok /\ k.snap = l.snap,
         \A l \in jobs : l.mine => \E k \in jobs' : k.mine
  PROVE  ZoneExplained'
<1> SUFFICES ASSUME excuse' = {} PROVE ZoneExplained'
  BY DEF ZoneExplained
<1> USE DEF IndInv, SameJob
<1>1. excuse = {} /\ (ZoneAgrees' <=> ZoneAgrees)
  BY DEF ZoneAgrees
<1>2. ASSUME NEW j \in jobs', NEW k \in jobs', j.mine, k.mine
      PROVE  j = k
  <2>1. PICK i \in jobs : SameJob(j, i)
    BY <1>2
  <2>2. PICK l \in jobs : SameJob(k, l)
    BY <1>2
  <2>3. i = l
    BY <1>1, <1>2, <2>1, <2>2 DEF ZoneExplained
  <2> QED BY <2>1, <2>2, <2>3 DEF JobsOK
<1>3. ASSUME NEW k \in jobs', k.mine
      PROVE  Foretells(k)'
  <2>1. PICK l \in jobs : SameJob(k, l) /\ k.phase = l.phase /\ k.ok = l.ok /\ k.snap = l.snap
    BY <1>3
  <2>2. Foretells(l)
    BY <1>1, <1>3, <2>1 DEF ZoneExplained
  <2> QED BY <1>1, <2>1, <2>2 DEF Foretells
<1>4. (\A j \in jobs' : ~j.mine) => ZoneAgrees'
  BY <1>1 DEF ZoneExplained
<1> QED BY <1>2, <1>3, <1>4 DEF ZoneExplained

(* A new job has not been read by anyone and has a number of its own; the    *)
(* password that came with it may be wrong.                                  *)
LEMMA FreshJob ==
  ASSUME IndInv, Cardinality(jobs) < MaxJobs, NEW op \in Operations, NEW n \in Nat,
         NEW new, new = Job(op, n) \/ \E right \in BOOLEAN : new = [Job(op, n) EXCEPT !.right = right]
  PROVE  Fresh(new) /\ new.op = op /\ new.n = n /\ new.phase = "sent" /\ (new.mine <=> op \in AdminOps)
<1> DEFINE id == Job(op, n).id
<1>1. Job(op, n) = NewJob(id, op, n) /\ id \in 1 .. MaxJobs /\ \A j \in jobs : j.op = op => j.id # id
  BY FreeId
<1> HIDE DEF id
<1>2. NoTenant \in Rows
  <2>1. 0 \in 0 .. requests
    BY LifecycleAssumption DEF IndInv, TypeOK
  <2> QED BY <2>1 DEF NoTenant, Rows
<1>3. PICK mine \in BOOLEAN : mine = (op \in AdminOps)
  <2>1. (op \in AdminOps) \in BOOLEAN
    OBVIOUS
  <2>2. \E mine \in BOOLEAN : mine = (op \in AdminOps)
    <3> WITNESS (op \in AdminOps) \in BOOLEAN
    <3> QED OBVIOUS
  <2> QED BY ONLY <2>2
<1> DEFINE job == [id |-> id, op |-> op, n |-> n, right |-> TRUE, mine |-> mine, phase |-> "sent",
                   snap |-> NoTenant, ok |-> FALSE, overtaken |-> FALSE, stale |-> FALSE]
<1>4. Job(op, n) = job
  BY ONLY <1>1, <1>3, Zenon DEF NewJob
<1>5. /\ job \in JobsOfType
      /\ job.op = op /\ job.id = id /\ job.n = n /\ job.phase = "sent" /\ (job.mine <=> op \in AdminOps)
  BY <1>1, <1>2, <1>3 DEF JobsOfType
<1> HIDE DEF job
<1>6. new = job \/ \E right \in BOOLEAN : new = [job EXCEPT !.right = right]
  BY ONLY <1>4, new = Job(op, n) \/ \E right \in BOOLEAN : new = [Job(op, n) EXCEPT !.right = right]
<1>7. /\ new \in JobsOfType
      /\ new.op = op /\ new.id = id /\ new.n = n /\ new.phase = "sent" /\ (new.mine <=> op \in AdminOps)
  BY <1>5, <1>6 DEF JobsOfType
<1> QED BY <1>1, <1>7 DEF Fresh

(* Types of everything but the tenant's row and the set of jobs.             *)
LEMMA JobTypes ==
  ASSUME JobsOK, NEW j \in jobs
  PROVE  /\ j.op \in Operations /\ j.phase \in {"sent", "read", "done"} /\ j.id \in 1 .. MaxJobs
         /\ j.n \in Nat /\ j.mine \in BOOLEAN /\ j.ok \in BOOLEAN /\ j.stale \in BOOLEAN
         /\ j.overtaken \in BOOLEAN /\ j.right \in BOOLEAN /\ j.snap \in Rows
BY DEF JobsOK, JobsOfType

(* What the staff, Paddle and the browser ask for adds a job and no more.    *)
LEMMA DecideStep ==
  ASSUME IndInv, NEW op \in Decisions \cup Toggles, Decide(op)
  PROVE  IndInv'
<1> USE DEF Decide, Start, Ask, fixed, page
<1>1. PICK new : /\ jobs' = jobs \cup {new} /\ Fresh(new) /\ new.phase = "sent" /\ new.op = op
                 /\ ~new.mine /\ Cardinality(jobs) < MaxJobs
  <2>1. op \in Operations /\ op \notin AdminOps
    BY DEF Operations, Decisions, Toggles, AdminOps
  <2> QED BY <2>1, FreshJob
<1>2. JobsOK' /\ Cardinality(jobs') <= MaxJobs
  BY <1>1, JobAdded
<1>3. TypeOK'
  BY <1>2, JobTypes DEF IndInv, TypeOK, JobsOK, JobsOfType
<1>4. ReadsAccepted' /\ SnapsFresh' /\ WithdrawalsNoticed' /\ SchedulesExplained' /\ ActiveExplained'
  BY <1>1, RowQuiet
<1>5. WebhooksInOrder'
  <2>1. Due' = Due
    BY <1>1 DEF Due, Handled, Webhooks, Decisions, Toggles
  <2> QED BY <1>2, <2>1, WebhooksQuiet DEF SameJob, IndInv, TypeOK
<1>6. ZoneExplained'
  BY <1>1, <1>2, ZoneQuiet DEF SameJob
<1>7. AsksCounted'
  <2>1. asks' \in asks .. MaxAsks
    BY LifecycleAssumption DEF IndInv, AsksCounted
  <2>2. ToAsk' = ToAsk
    BY <1>1 DEF ToAsk, Decisions, Toggles
  <2> QED BY <2>1, <2>2, AsksQuiet
<1> QED BY <1>2, <1>3, <1>4, <1>5, <1>6, <1>7 DEF IndInv

(* OpenSettings: the zone is idle and waits for the profile; what was under  *)
(* way before that could change the request is an excuse.                    *)
LEMMA OpenSettingsStep ==
  ASSUME IndInv, OpenSettings
  PROVE  IndInv'
<1> USE DEF OpenSettings, Ask, fixed
<1>1. PICK new : /\ jobs' = {[j EXCEPT !.mine = FALSE] : j \in jobs} \cup {new} /\ Fresh(new)
                 /\ new.phase = "sent" /\ new.op = "profile" /\ new.mine /\ Cardinality(jobs) < MaxJobs
  <2>1. "profile" \in Operations /\ "profile" \in AdminOps /\ 0 \in Nat
    BY DEF Operations, AdminOps
  <2>2. PICK new : new = Job("profile", 0)
    OBVIOUS
  <2>3. Fresh(new) /\ new.phase = "sent" /\ new.op = "profile" /\ new.mine
    BY <2>1, <2>2, FreshJob
  <2> QED BY <2>2, <2>3
<1>2. JobsOK' /\ Cardinality(jobs') <= MaxJobs
  BY <1>1, JobAdded
<1>3. ASSUME NEW l \in jobs, NEW k, k = [l EXCEPT !.mine = FALSE]
      PROVE  /\ SameJob(k, l) /\ k.phase = l.phase /\ k.snap = l.snap /\ k.stale = l.stale
             /\ k.overtaken = l.overtaken /\ ~k.mine /\ k \in jobs'
  BY <1>1, <1>3 DEF SameJob, IndInv, JobsOK, JobsOfType
<1>4. ASSUME NEW k \in jobs'
      PROVE  k = new \/ \E l \in jobs : /\ SameJob(k, l) /\ k.phase = l.phase /\ k.snap = l.snap
                                        /\ k.stale = l.stale /\ k.overtaken = l.overtaken /\ ~k.mine
  BY <1>1, <1>3
<1>5. TypeOK'
  BY <1>2, JobTypes DEF IndInv, TypeOK, JobsOK, JobsOfType
<1>6. ReadsAccepted' /\ SnapsFresh' /\ WithdrawalsNoticed' /\ SchedulesExplained' /\ ActiveExplained'
  <2>1. ASSUME NEW k \in jobs', k.phase = "read"
        PROVE  \E l \in jobs : /\ l.phase = "read" /\ l.op = k.op /\ l.snap = k.snap
                               /\ l.stale = k.stale /\ l.overtaken = k.overtaken
    BY <1>1, <1>4, <2>1 DEF SameJob
  <2> QED BY <2>1, RowQuiet
<1>7. WebhooksInOrder'
  <2>1. \A k \in Due' : \E l \in Due : SameJob(k, l) /\ k.phase = l.phase
    BY <1>1, <1>4 DEF Due, Handled, Webhooks, SameJob
  <2>2. \A l \in Due : \E k \in Due' : SameJob(k, l)
    BY <1>3 DEF Due, Handled, SameJob
  <2> QED BY <1>2, <2>1, <2>2, WebhooksQuiet DEF IndInv, TypeOK
<1>8. ZoneExplained'
  <2>1. \A k \in jobs' : k.mine => k = new
    BY <1>4
  <2>2. Foretells(new)'
    BY <1>1 DEF Foretells
  <2> QED BY <1>1, <2>1, <2>2 DEF ZoneExplained
<1>9. AsksCounted'
  <2>1. asks' \in asks .. MaxAsks
    BY LifecycleAssumption DEF IndInv, AsksCounted
  <2>2. \A k \in ToAsk' : \E l \in ToAsk : k.id = l.id
    BY <1>1, <1>4 DEF ToAsk, SameJob
  <2> QED BY <2>1, <2>2, AsksQuiet
<1> QED BY <1>2, <1>5, <1>6, <1>7, <1>8, <1>9 DEF IndInv

(* Submit: the page asks only what agrees with what it shows.                *)
LEMMA SubmitStep ==
  ASSUME IndInv, NEW op \in {"request", "cancel"}, NEW right \in BOOLEAN, Submit(op, right)
  PROVE  IndInv'
<1> USE DEF Submit, Start, Ask, fixed
<1>1. PICK new : /\ jobs' = jobs \cup {new} /\ Fresh(new) /\ new.phase = "sent" /\ new.op = op
                 /\ new.mine /\ Cardinality(jobs) < MaxJobs
  <2>1. op \in Operations /\ op \in AdminOps
    BY DEF Operations, AdminOps
  <2> QED BY <2>1, FreshJob
<1>2. JobsOK' /\ Cardinality(jobs') <= MaxJobs
  BY <1>1, JobAdded
<1>3. TypeOK'
  <2>1. busy' \in BOOLEAN /\ excuse' \subseteq {"other", "overlap", "lost", "refused"}
    BY DEF IndInv, TypeOK
  <2> QED BY <1>2, <2>1, JobTypes DEF IndInv, TypeOK, JobsOK, JobsOfType
<1>4. ReadsAccepted' /\ SnapsFresh' /\ WithdrawalsNoticed' /\ SchedulesExplained' /\ ActiveExplained'
  BY <1>1, RowQuiet
<1>5. WebhooksInOrder'
  <2>1. Due' = Due
    BY <1>1 DEF Due, Handled, Webhooks
  <2> QED BY <1>2, <2>1, WebhooksQuiet DEF SameJob, IndInv, TypeOK
<1>6. ZoneExplained'
  <2> SUFFICES ASSUME excuse' = {} PROVE ZoneExplained'
    BY DEF ZoneExplained
  <2>1. excuse = {} /\ \A j \in jobs : ~j.mine
    OBVIOUS
  <2>2. ZoneAgrees'
    BY <2>1 DEF IndInv, ZoneExplained, ZoneAgrees
  <2>3. \A k \in jobs' : k.mine => k = new
    BY <1>1, <2>1
  <2>4. Foretells(new)'
    BY <1>1, <2>2 DEF Foretells
  <2> QED BY <1>1, <2>3, <2>4 DEF ZoneExplained
<1>7. AsksCounted'
  <2> DEFINE ids == {j.id : j \in ToAsk}
  <2>1. /\ requests \in Nat /\ asks \in Nat /\ MaxAsks \in Nat /\ MaxJobs \in Nat
        /\ requests + Cardinality(ids) <= asks /\ ids \subseteq 1 .. MaxJobs
    BY LifecycleAssumption DEF IndInv, TypeOK, AsksCounted, ToAsk
  <2>2. IsFiniteSet(ids) /\ Cardinality(ids) \in Nat
    <3> HIDE DEF ids
    <3>1. 1 \in Int /\ MaxJobs \in Int
      BY <2>1
    <3>2. IsFiniteSet(1 .. MaxJobs)
      BY ONLY <3>1, FS_Interval
    <3> QED BY <2>1, <3>2, FS_Subset, FS_CardinalityType
  <2>3. ids' \subseteq ids \cup {new.id}
    BY <1>1 DEF ToAsk
  <2> HIDE DEF ids
  <2>4. IsFiniteSet(ids \cup {new.id}) /\ Cardinality(ids \cup {new.id}) <= Cardinality(ids) + 1
        /\ Cardinality(ids \cup {new.id}) \in Nat
    BY <2>2, OneMore
  <2>5. Cardinality(ids') <= Cardinality(ids \cup {new.id}) /\ Cardinality(ids') \in Nat
    BY <2>3, <2>4, FS_Subset, FS_CardinalityType
  <2>6. asks' \in 0 .. MaxAsks /\ requests' + Cardinality(ids') <= asks'
    BY <2>1, <2>2, <2>4, <2>5
  <2> QED BY <2>6 DEF AsksCounted, ids
<1> QED BY <1>2, <1>3, <1>4, <1>5, <1>6, <1>7 DEF IndInv

(* The admin's session ends; no handler notices before its next check.       *)
LEMMA SessionStep ==
  ASSUME IndInv, SignOut \/ SessionExpires
  PROVE  IndInv'
<1> USE DEF SignOut, SessionExpires, Ask, Mishap, fixed, page
<1>1. /\ UNCHANGED <<tenant, kept, billing, requests, announced, jobs, zone, busy, activeBy, carried, disorder, excuse>>
      /\ session' \in {"none", "live", "expired"} /\ asks' \in asks .. MaxAsks
  BY LifecycleAssumption DEF IndInv, AsksCounted
<1> USE <1>1
<1>2. TypeOK'
  BY DEF IndInv, TypeOK
<1>3. JobsOK'
  BY DEF IndInv, JobsOK, JobsOfType, Rows
<1>4. AsksCounted'
  BY AsksQuiet DEF ToAsk
<1>5. ReadsAccepted' /\ SnapsFresh' /\ WithdrawalsNoticed' /\ SchedulesExplained' /\ ActiveExplained'
  BY RowQuiet
<1>6. WebhooksInOrder'
  BY DEF IndInv, WebhooksInOrder, Due, Handled
<1>7. ZoneExplained'
  BY DEF IndInv, ZoneExplained, Foretells, ZoneAgrees
<1> QED BY <1>2, <1>3, <1>4, <1>5, <1>6, <1>7 DEF IndInv

(* Announce: the new webhook is the last of those still to be handled.       *)
LEMMA AnnounceStep ==
  ASSUME IndInv, NEW kind \in Webhooks, Announce(kind)
  PROVE  IndInv'
<1> USE DEF Announce, Start, Ask, fixed, page
<1>1. announced \in Seq(Webhooks) /\ Len(announced) \in Nat /\ announced' = Append(announced, kind)
  BY DEF IndInv, TypeOK
<1>2. PICK new : /\ jobs' = jobs \cup {new} /\ Fresh(new) /\ new.phase = "sent" /\ new.op = kind
                 /\ new.n = Len(announced) + 1 /\ ~new.mine /\ Cardinality(jobs) < MaxJobs
  <2>1. kind \in Operations /\ kind \notin AdminOps /\ Len(announced) + 1 \in Nat
    BY <1>1 DEF Operations, Webhooks, AdminOps
  <2> QED BY <2>1, FreshJob
<1>3. JobsOK' /\ Cardinality(jobs') <= MaxJobs
  BY <1>2, JobAdded
<1>4. TypeOK'
  <2>1. announced' \in Seq(Webhooks)
    BY <1>1
  <2> QED BY <1>3, <2>1, JobTypes DEF IndInv, TypeOK, JobsOK, JobsOfType
<1>5. AsksCounted'
  <2>1. asks' \in asks .. MaxAsks
    BY LifecycleAssumption DEF IndInv, AsksCounted
  <2>2. ToAsk' = ToAsk
    BY <1>2 DEF ToAsk, Webhooks
  <2> QED BY <2>1, <2>2, AsksQuiet
<1>6. ReadsAccepted' /\ SnapsFresh' /\ WithdrawalsNoticed' /\ SchedulesExplained' /\ ActiveExplained'
  BY <1>2, RowQuiet
<1>7. WebhooksInOrder'
  <2> SUFFICES ASSUME tenant.there PROVE WebhooksInOrder'
    BY DEF WebhooksInOrder
  <2> DEFINE N == Len(announced) + 1
  <2>1. /\ DOMAIN announced = 1 .. Len(announced) /\ DOMAIN announced' = 1 .. N /\ Len(announced') = N
        /\ announced'[N] = kind /\ \A i \in DOMAIN announced : announced'[i] = announced[i]
    BY <1>1
  <2>2. Due' = Due \cup {new}
    BY <1>2 DEF Due, Handled
  <2>3. \A k \in Due : k.n \in DOMAIN announced /\ k.op = announced[k.n] /\ ~k.mine /\ k.phase # "done"
    BY DEF IndInv, WebhooksInOrder
  <2>4. \A k \in Due' : k.n \in DOMAIN announced' /\ k.op = announced'[k.n] /\ ~k.mine /\ k.phase # "done"
    BY <1>1, <1>2, <2>1, <2>2, <2>3
  <2>5. ASSUME ~disorder
        PROVE  /\ \A i, k \in Due' : i.n = k.n => i = k
               /\ \A i \in Due' : i.phase = "read" => \A k \in Due' \ {i} : k.n > i.n
    BY <1>1, <1>2, <2>1, <2>2, <2>3, <2>5 DEF IndInv, WebhooksInOrder
  <2>6. ASSUME ~disorder
        PROVE  \E c \in 0 .. Len(announced') :
                 /\ \A i \in DOMAIN announced' : i > c <=> \E k \in Due' : k.n = i
                 /\ activeBy' \in Webhooks => c >= 1 /\ activeBy' = announced'[c]
    <3>1. PICK c \in 0 .. Len(announced) :
            /\ \A i \in DOMAIN announced : i > c <=> \E k \in Due : k.n = i
            /\ activeBy \in Webhooks => c >= 1 /\ activeBy = announced[c]
      BY <2>6 DEF IndInv, WebhooksInOrder
    <3>2. ASSUME NEW i \in DOMAIN announced' PROVE i > c <=> \E k \in Due' : k.n = i
      <4>1. CASE i = N
        BY <1>1, <1>2, <2>2, <4>1
      <4>2. CASE i \in DOMAIN announced
        <5>1. i # N
          BY <1>1, <2>1, <4>2
        <5> QED BY <1>2, <2>2, <3>1, <4>2, <5>1
      <4> QED BY <1>1, <2>1, <4>1, <4>2
    <3>3. c \in 0 .. Len(announced') /\ (c >= 1 => announced'[c] = announced[c])
      BY <1>1, <2>1
    <3> QED BY <3>1, <3>2, <3>3
  <2> QED BY <2>4, <2>5, <2>6 DEF WebhooksInOrder
<1>8. ZoneExplained'
  BY <1>2, <1>3, ZoneQuiet DEF SameJob
<1> QED BY <1>3, <1>4, <1>5, <1>6, <1>7, <1>8 DEF IndInv

(* Redeliver: the order of the webhooks is lost from now on.                 *)
LEMMA RedeliverStep ==
  ASSUME IndInv, NEW i \in DOMAIN announced, Redeliver(i)
  PROVE  IndInv'
<1> USE DEF Redeliver, Start, Mishap, fixed, page
<1>1. announced \in Seq(Webhooks) /\ announced[i] \in Webhooks /\ i \in Nat
  BY DEF IndInv, TypeOK
<1>2. PICK new : /\ jobs' = jobs \cup {new} /\ Fresh(new) /\ new.phase = "sent" /\ new.op = announced[i]
                 /\ new.n = i /\ ~new.mine /\ Cardinality(jobs) < MaxJobs
  <2>1. announced[i] \in Operations /\ announced[i] \notin AdminOps
    BY <1>1 DEF Operations, Webhooks, AdminOps
  <2> QED BY <1>1, <2>1, FreshJob
<1>3. JobsOK' /\ Cardinality(jobs') <= MaxJobs
  BY <1>2, JobAdded
<1>4. TypeOK'
  <2>1. disorder' \in BOOLEAN
    OBVIOUS
  <2> QED BY <1>3, <2>1, JobTypes DEF IndInv, TypeOK, JobsOK, JobsOfType
<1>5. AsksCounted'
  <2>1. asks' \in asks .. MaxAsks
    BY LifecycleAssumption DEF IndInv, AsksCounted
  <2>2. ToAsk' = ToAsk
    BY <1>1, <1>2 DEF ToAsk, Webhooks
  <2> QED BY <2>1, <2>2, AsksQuiet
<1>6. ReadsAccepted' /\ SnapsFresh' /\ WithdrawalsNoticed' /\ SchedulesExplained' /\ ActiveExplained'
  BY <1>2, RowQuiet
<1>7. WebhooksInOrder'
  <2>1. Due' = Due \cup {new}
    BY <1>1, <1>2 DEF Due, Handled
  <2> QED BY <1>2, <2>1 DEF IndInv, WebhooksInOrder
<1>8. ZoneExplained'
  BY <1>2, <1>3, ZoneQuiet DEF SameJob
<1> QED BY <1>3, <1>4, <1>5, <1>6, <1>7, <1>8 DEF IndInv

(* Answer: the page learns the truth, if the answer was not overtaken.       *)
LEMMA AnswerStep ==
  ASSUME IndInv, NEW j \in jobs, Answer(j)
  PROVE  IndInv'
<1> USE DEF Answer, fixed
<1>1. JobsOK' /\ Cardinality(jobs') <= MaxJobs
  BY JobReplaced DEF SameJob
<1>2. /\ j.ok /\ j.op = "profile" => Show(j) = IF j.snap.request # 0 THEN "pending" ELSE zone
      /\ j.ok /\ j.op = "request" => Show(j) = "pending"
      /\ j.ok /\ j.op = "cancel" => Show(j) = "idle"
      /\ ~j.ok => Show(j) = zone
      /\ j.op \notin AdminOps => Show(j) = zone
  BY DEF Show, AdminOps
<1>3. j.op \in Operations /\ (j.mine => j.op \in AdminOps) /\ zone \in {"idle", "pending"}
  BY JobTypes DEF IndInv, JobsOK, TypeOK
<1>4. TypeOK'
  <2>1. zone' \in {"idle", "pending"}
    BY <1>2, <1>3 DEF AdminOps
  <2>2. busy' \in BOOLEAN
    OBVIOUS
  <2> QED BY <1>1, <2>1, <2>2, JobTypes DEF IndInv, TypeOK, JobsOK, JobsOfType
<1>5. AsksCounted'
  <2>1. asks' \in asks .. MaxAsks
    BY LifecycleAssumption DEF IndInv, AsksCounted
  <2>2. ToAsk' \subseteq ToAsk
    BY DEF ToAsk
  <2> QED BY <2>1, <2>2, AsksQuiet
<1>6. ReadsAccepted' /\ SnapsFresh' /\ WithdrawalsNoticed' /\ SchedulesExplained' /\ ActiveExplained'
  BY RowQuiet
<1>7. WebhooksInOrder'
  <2>1. tenant.there => j \notin Due
    BY DEF IndInv, WebhooksInOrder
  <2>2. tenant.there => Due' = Due
    BY <2>1 DEF Due, Handled
  <2> QED BY <1>1, <2>2, WebhooksQuiet DEF SameJob, IndInv, TypeOK
<1>8. ZoneExplained'
  <2>1. CASE ~j.mine
    BY <1>1, <2>1, ZoneQuiet DEF SameJob
  <2>2. CASE j.mine
    <3> SUFFICES ASSUME excuse = {} PROVE ZoneExplained'
      BY DEF ZoneExplained
    <3>1. Foretells(j) /\ \A k \in jobs' : ~k.mine
      BY <2>2 DEF IndInv, ZoneExplained
    <3>2. ZoneAgrees'
      <4>1. CASE j.op = "profile"
        BY <1>2, <2>2, <3>1, <4>1 DEF Foretells, ZoneAgrees
      <4>2. CASE j.op # "profile" /\ j.ok
        BY <1>2, <1>3, <2>2, <3>1, <4>2 DEF Foretells, ZoneAgrees, AdminOps
      <4>3. CASE j.op # "profile" /\ ~j.ok
        BY <1>2, <2>2, <3>1, <4>3 DEF Foretells, ZoneAgrees
      <4> QED BY <4>1, <4>2, <4>3
    <3> QED BY <3>1, <3>2 DEF ZoneExplained
  <2> QED BY <2>1, <2>2
<1> QED BY <1>1, <1>4, <1>5, <1>6, <1>7, <1>8 DEF IndInv

(* LoseAnswer: the page takes for failed what was done.                      *)
LEMMA LoseAnswerStep ==
  ASSUME IndInv, NEW j \in jobs, LoseAnswer(j)
  PROVE  IndInv'
<1> USE DEF LoseAnswer, Mishap, fixed, page
<1>1. PICK moved : moved = [j EXCEPT !.ok = FALSE]
  OBVIOUS
<1>2. moved \in JobsOfType /\ SameJob(moved, j) /\ moved.phase = "done"
  BY <1>1 DEF IndInv, JobsOK, JobsOfType, SameJob
<1>3. jobs' = (jobs \ {j}) \cup {moved}
  BY <1>1
<1>4. JobsOK' /\ Cardinality(jobs') <= MaxJobs
  BY <1>2, <1>3, JobReplaced
<1>5. TypeOK'
  BY <1>4, JobTypes DEF IndInv, TypeOK, JobsOK, JobsOfType
<1>6. AsksCounted'
  <2>1. asks' \in asks .. MaxAsks
    BY LifecycleAssumption DEF IndInv, AsksCounted
  <2>2. ToAsk' \subseteq ToAsk
    BY <1>2, <1>3 DEF ToAsk
  <2> QED BY <2>1, <2>2, AsksQuiet
<1>7. ReadsAccepted' /\ SnapsFresh' /\ WithdrawalsNoticed' /\ SchedulesExplained' /\ ActiveExplained'
  BY <1>2, <1>3, RowQuiet
<1>8. WebhooksInOrder'
  <2>1. tenant.there => j.op \notin Webhooks
    BY DEF IndInv, WebhooksInOrder, Due, Handled
  <2>2. tenant.there => Due' = Due
    BY <1>2, <1>3, <2>1 DEF Due, Handled, SameJob
  <2> QED BY <1>4, <2>2, WebhooksQuiet DEF SameJob, IndInv, TypeOK
<1>9. ZoneExplained'
  BY DEF ZoneExplained
<1> QED BY <1>4, <1>5, <1>6, <1>7, <1>8, <1>9 DEF IndInv

(* What Accepts promises a handler.                                          *)
LEMMA AcceptsFacts ==
  ASSUME NEW j
  PROVE  /\ Accepts(j) => tenant.there
         /\ Accepts(j) /\ j.op = "request" => tenant.request = 0
         /\ Accepts(j) /\ j.op \in {"cancel"} \cup Decisions => tenant.request # 0
         /\ tenant.there /\ j.op \in Webhooks => Accepts(j)
BY DEF Accepts, Decisions, Webhooks, AdminOps

(* Read: a handler takes in the row as it is, and what it asks of it holds.  *)
LEMMA ReadStep ==
  ASSUME IndInv, NEW j \in jobs, Read(j)
  PROVE  IndInv'
<1> USE DEF Read, fixed, page
<1>1. PICK moved :
        /\ moved = [j EXCEPT !.phase = IF Accepts(j) /\ j.op # "profile" THEN "read" ELSE "done",
                             !.ok = Accepts(j), !.snap = tenant]
        /\ jobs' = (jobs \ {j}) \cup {moved}
  OBVIOUS
<1>2. /\ moved \in JobsOfType /\ SameJob(moved, j) /\ (moved.mine <=> j.mine)
      /\ moved.snap = tenant /\ (moved.ok <=> Accepts(j))
      /\ moved.phase = IF Accepts(j) /\ j.op # "profile" THEN "read" ELSE "done"
      /\ moved.overtaken = j.overtaken /\ moved.stale = j.stale
  <2>1. Accepts(j) \in BOOLEAN /\ tenant \in Rows /\ j \in JobsOfType
    BY DEF IndInv, TypeOK, Rows, JobsOK, Accepts
  <2> QED BY <1>1, <2>1 DEF JobsOfType, SameJob
<1>3. JobsOK' /\ Cardinality(jobs') <= MaxJobs
  BY <1>1, <1>2, JobReplaced
<1>4. TypeOK'
  <2>1. disorder' \in BOOLEAN /\ excuse' \subseteq {"other", "overlap", "lost", "refused"}
    BY DEF IndInv, TypeOK
  <2> QED BY <1>3, <2>1, JobTypes DEF IndInv, TypeOK, JobsOK, JobsOfType
<1>5. AsksCounted'
  <2>1. asks' \in asks .. MaxAsks
    BY LifecycleAssumption DEF IndInv, AsksCounted
  <2>2. \A k \in ToAsk' : \E l \in ToAsk : k.id = l.id
    BY <1>1, <1>2 DEF ToAsk, SameJob
  <2> QED BY <2>1, <2>2, AsksQuiet
<1>6. moved.phase = "read" =>
        /\ tenant.there /\ j.op # "profile" /\ (j.op = "request" => tenant.request = 0)
        /\ j.op \in {"cancel"} \cup Decisions => tenant.request # 0
  BY <1>2, AcceptsFacts
<1>7. ReadsAccepted' /\ SnapsFresh' /\ WithdrawalsNoticed'
  <2>1. ASSUME NEW k \in jobs', k.phase = "read"
        PROVE  /\ k.op # "profile"
               /\ k.op = "request" => k.snap.request = 0
               /\ k.op \in {"cancel"} \cup Decisions => k.snap.request # 0
               /\ ~k.stale => k.snap = tenant
               /\ k.op \in Decisions /\ ~k.overtaken /\ tenant.there => tenant.request # 0
    <3>1. CASE k = moved
      BY <1>2, <1>6, <2>1, <3>1 DEF SameJob
    <3>2. CASE k \in jobs
      BY <2>1, <3>2 DEF IndInv, ReadsAccepted, SnapsFresh, WithdrawalsNoticed
    <3> QED BY <1>1, <3>1, <3>2
  <2>2. tenant' = tenant
    OBVIOUS
  <2> QED BY ONLY <2>1, <2>2 DEF ReadsAccepted, SnapsFresh, WithdrawalsNoticed
<1>8. SchedulesExplained' /\ ActiveExplained'
  BY DEF IndInv, SchedulesExplained, ActiveExplained
<1>9. WebhooksInOrder'
  <2> SUFFICES ASSUME tenant.there PROVE WebhooksInOrder'
    BY DEF WebhooksInOrder
  <2>1. CASE j.op \notin Webhooks
    <3>1. Due' = Due /\ disorder' = disorder
      BY <1>1, <1>2, <2>1 DEF Due, Handled, SameJob, IndInv, TypeOK
    <3> QED BY <1>3, <3>1, WebhooksQuiet DEF SameJob, IndInv, TypeOK
  <2>2. CASE j.op \in Webhooks
    <3>1. moved.phase = "read" /\ j \in Due /\ Due' = (Due \ {j}) \cup {moved}
      BY <1>1, <1>2, <2>2, AcceptsFacts DEF Due, Handled, SameJob, Webhooks
    <3>2. \A k \in Due : k.n \in DOMAIN announced /\ k.op = announced[k.n] /\ ~k.mine /\ k.phase # "done"
      BY DEF IndInv, WebhooksInOrder
    <3>3. \A k \in Due' : k.n \in DOMAIN announced' /\ k.op = announced'[k.n] /\ ~k.mine /\ k.phase # "done"
      BY <1>2, <3>1, <3>2 DEF SameJob
    <3>4. ASSUME ~disorder'
          PROVE  /\ ~disorder /\ \A k \in Due \ {j} : k.phase # "read" /\ ~(k.n < j.n) /\ k.n # j.n
      BY <2>2, <3>1, <3>4 DEF IndInv, WebhooksInOrder, Due
    <3>5. ASSUME ~disorder'
          PROVE  \A i, k \in Due' : i.n = k.n => i = k
      BY <1>2, <3>1, <3>4, <3>5 DEF IndInv, WebhooksInOrder, SameJob
    <3>6. ASSUME ~disorder', NEW i \in Due', i.phase = "read", NEW k \in Due' \ {i}
          PROVE  k.n > i.n
      <4>1. i = moved /\ k \in Due \ {j} /\ k.n \in Nat /\ j.n \in Nat
        BY <3>1, <3>4, <3>6, JobTypes DEF IndInv, Due, Handled
      <4> QED BY <1>2, <3>4, <3>6, <4>1 DEF SameJob
    <3>7. \A n : (\E k \in Due' : k.n = n) <=> (\E k \in Due : k.n = n)
      BY <1>2, <3>1 DEF SameJob
    <3> QED BY <3>3, <3>4, <3>5, <3>6, <3>7 DEF IndInv, WebhooksInOrder
  <2> QED BY <2>1, <2>2
<1>10. ZoneExplained'
  <2>1. CASE ~j.mine
    BY <1>1, <1>2, <1>3, <2>1, ZoneQuiet DEF SameJob
  <2>2. CASE j.mine
    <3> SUFFICES ASSUME excuse' = {} PROVE ZoneExplained'
      BY DEF ZoneExplained
    <3>1. excuse = {} /\ (j.op = "profile" => Accepts(j))
      OBVIOUS
    <3>2. Foretells(j) /\ \A k \in jobs' : k.mine => k = moved
      BY <1>1, <2>2, <3>1 DEF IndInv, ZoneExplained
    <3>3. Foretells(moved)'
      BY <1>2, <3>1, <3>2 DEF Foretells, ZoneAgrees, SameJob
    <3> QED BY <1>1, <1>2, <2>2, <3>2, <3>3 DEF ZoneExplained
  <2> QED BY <2>1, <2>2
<1> QED BY <1>3, <1>4, <1>5, <1>6, <1>7, <1>8, <1>9, <1>10 DEF IndInv

(* Fail: nothing was written, and the page hears of it.                      *)
LEMMA FailStep ==
  ASSUME IndInv, NEW j \in jobs, Fail(j)
  PROVE  IndInv'
<1> USE DEF Fail, fixed, page
<1>1. PICK moved :
        /\ moved = [j EXCEPT !.phase = "done", !.ok = FALSE, !.snap = NoTenant]
        /\ jobs' = (jobs \ {j}) \cup {k \in {moved} : j.mine}
  BY DEF Answered
<1>2. NoTenant \in Rows
  <2>1. 0 \in 0 .. requests
    BY LifecycleAssumption DEF IndInv, TypeOK
  <2> QED BY <2>1 DEF NoTenant, Rows
<1>3. /\ moved \in JobsOfType /\ SameJob(moved, j) /\ (moved.mine <=> j.mine)
      /\ moved.phase = "done" /\ ~moved.ok
  BY <1>1, <1>2 DEF IndInv, JobsOK, JobsOfType, SameJob
<1>4. JobsOK' /\ Cardinality(jobs') <= MaxJobs
  BY <1>1, <1>3, JobReplaced
<1>5. TypeOK'
  BY <1>4, JobTypes DEF IndInv, TypeOK, JobsOK, JobsOfType
<1>6. AsksCounted'
  <2>1. asks' \in asks .. MaxAsks
    BY LifecycleAssumption DEF IndInv, AsksCounted
  <2>2. ToAsk' \subseteq ToAsk
    BY <1>1, <1>3 DEF ToAsk
  <2> QED BY <2>1, <2>2, AsksQuiet
<1>7. ReadsAccepted' /\ SnapsFresh' /\ WithdrawalsNoticed' /\ SchedulesExplained' /\ ActiveExplained'
  BY <1>1, <1>3, RowQuiet
<1>8. WebhooksInOrder'
  <2>1. tenant.there => j.op \notin Webhooks
    BY DEF Webhooks
  <2>2. tenant.there => Due' = Due
    BY <1>1, <1>3, <2>1 DEF Due, Handled, SameJob
  <2> QED BY <1>4, <2>2, WebhooksQuiet DEF SameJob, IndInv, TypeOK
<1>9. ZoneExplained'
  <2>1. CASE ~j.mine
    BY <1>1, <1>4, <2>1, ZoneQuiet DEF SameJob
  <2>2. CASE j.mine
    <3> SUFFICES ASSUME excuse = {} PROVE ZoneExplained'
      BY DEF ZoneExplained
    <3>1. Foretells(j) /\ j.op # "profile" /\ \A k \in jobs' : k.mine => k = moved
      BY <1>1, <2>2 DEF IndInv, ZoneExplained, ReadsAccepted
    <3>2. Foretells(moved)'
      BY <1>3, <3>1 DEF Foretells, ZoneAgrees, SameJob
    <3> QED BY <1>1, <1>3, <2>2, <3>1, <3>2 DEF ZoneExplained
  <2> QED BY <2>1, <2>2
<1> QED BY <1>4, <1>5, <1>6, <1>7, <1>8, <1>9 DEF IndInv

(* What a commit writes, by operation: the columns its handler assigned that *)
(* differ from those it read.                                                *)
LEMMA AssignedFacts ==
  ASSUME NEW j
  PROVE  /\ j.op = "request" => Assigned(j) = [request |-> requests + 1, active |-> FALSE]
         /\ j.op = "cancel" => Assigned(j) = [request |-> 0, active |-> TRUE]
         /\ j.op = "schedule" => Assigned(j) = [scheduled |-> j.snap.request]
         /\ j.op = "reject" => Assigned(j) = [request |-> 0, scheduled |-> 0, active |-> TRUE]
         /\ j.op \in {"suspend", "canceled"} => Assigned(j) = [active |-> FALSE]
         /\ j.op \in {"activate", "subscribed"} => Assigned(j) = [active |-> TRUE]
BY DEF Assigned

Committable == {"request", "cancel", "schedule", "reject", "suspend", "canceled", "activate", "subscribed"}
TurnsOff == {"request", "suspend", "canceled"}
TurnsOn == {"cancel", "reject", "activate", "subscribed"}

(* What a handler's UPDATE makes of the tenant's row.                         *)
LEMMA WrittenFacts ==
  ASSUME NEW j, j.op \in Committable, requests \in Nat, j.snap \in Rows,
         j.op = "request" => j.snap.request = 0, j.op \in {"cancel", "schedule", "reject"} => j.snap.request # 0
  PROVE  /\ "there" \notin Written(j)
         /\ "request" \in Written(j) <=> j.op \in {"request"} \cup Withdrawals
         /\ "request" \in Written(j) => Assigned(j).request = IF j.op = "request" THEN requests + 1 ELSE 0
         /\ "scheduled" \in Written(j) <=> j.op = "schedule" \/ (j.op = "reject" /\ j.snap.scheduled # 0)
         /\ "scheduled" \in Written(j) => Assigned(j).scheduled = IF j.op = "schedule" THEN j.snap.request ELSE 0
         /\ "active" \in DOMAIN Assigned(j) <=> j.op # "schedule"
         /\ j.op \in TurnsOff => Assigned(j).active = FALSE /\ ("active" \in Written(j) <=> j.snap.active)
         /\ j.op \in TurnsOn => Assigned(j).active = TRUE /\ ("active" \in Written(j) <=> ~j.snap.active)
<1> USE DEF Committable, TurnsOff, TurnsOn, Withdrawals
<1>1. j.snap.active \in BOOLEAN /\ requests + 1 # 0
  BY DEF Rows
<1>2. \A a : a \in Written(j) <=> a \in DOMAIN Assigned(j) /\ (j.op = "schedule" \/ Assigned(j)[a] # j.snap[a])
  BY DEF Written
<1>3. CASE j.op = "request"
  <2>1. DOMAIN Assigned(j) = {"request", "active"} /\ Assigned(j).request = requests + 1 /\ Assigned(j).active = FALSE
    BY <1>3, AssignedFacts
  <2>2. Assigned(j).active # j.snap.active <=> j.snap.active
    BY ONLY <1>1, <2>1
  <2> QED BY <1>1, <1>2, <1>3, <2>1, <2>2
<1>4. CASE j.op = "cancel"
  <2>1. DOMAIN Assigned(j) = {"request", "active"} /\ Assigned(j).request = 0 /\ Assigned(j).active = TRUE
    BY <1>4, AssignedFacts
  <2>2. Assigned(j).active # j.snap.active <=> ~j.snap.active
    BY ONLY <1>1, <2>1
  <2> QED BY <1>1, <1>2, <1>4, <2>1, <2>2
<1>5. CASE j.op = "schedule"
  <2>1. DOMAIN Assigned(j) = {"scheduled"} /\ Assigned(j).scheduled = j.snap.request
    BY <1>5, AssignedFacts
  <2> QED BY <1>1, <1>2, <1>5, <2>1
<1>6. CASE j.op = "reject"
  <2>1. DOMAIN Assigned(j) = {"request", "scheduled", "active"} /\ Assigned(j).request = 0 /\ Assigned(j).scheduled = 0 /\ Assigned(j).active = TRUE
    BY <1>6, AssignedFacts
  <2>2. Assigned(j).active # j.snap.active <=> ~j.snap.active
    BY ONLY <1>1, <2>1
  <2> QED BY <1>1, <1>2, <1>6, <2>1, <2>2
<1>7. CASE j.op \in {"suspend", "canceled"}
  <2>1. DOMAIN Assigned(j) = {"active"} /\ Assigned(j).active = FALSE
    BY <1>7, AssignedFacts
  <2>2. Assigned(j).active # j.snap.active <=> j.snap.active
    BY ONLY <1>1, <2>1
  <2> QED BY <1>1, <1>2, <1>7, <2>1, <2>2
<1>8. CASE j.op \in {"activate", "subscribed"}
  <2>1. DOMAIN Assigned(j) = {"active"} /\ Assigned(j).active = TRUE
    BY <1>8, AssignedFacts
  <2>2. Assigned(j).active # j.snap.active <=> ~j.snap.active
    BY ONLY <1>1, <2>1
  <2> QED BY <1>1, <1>2, <1>8, <2>1, <2>2
<1> QED BY <1>3, <1>4, <1>5, <1>6, <1>7, <1>8

(* A job that is overtaken by another's commit stays what it is; if it has   *)
(* read the row, it is marked.                                               *)
Marked(k, l, j) ==
  /\ SameJob(k, l) /\ (k.mine <=> l.mine) /\ k.phase = l.phase /\ k.ok = l.ok /\ k.snap = l.snap
  /\ k.stale <=> l.stale \/ l.phase = "read"
  /\ k.overtaken <=> l.overtaken \/ (l.phase = "read" /\ j.op \in Withdrawals)

(* A commit marks the other jobs that read the row before it, and no more.    *)
LEMMA OvertakenFacts ==
  ASSUME JobsOK, NEW j \in jobs
  PROVE  /\ \A k \in Overtaken(j) : \E l \in jobs \ {j} : Marked(k, l, j)
         /\ \A l \in jobs \ {j} : \E k \in Overtaken(j) : Marked(k, l, j)
<1>1. ASSUME NEW l \in jobs \ {j}, NEW k,
             k = [l EXCEPT !.overtaken = @ \/ (l.phase = "read" /\ j.op \in Withdrawals),
                           !.stale = @ \/ l.phase = "read"]
      PROVE  Marked(k, l, j)
  <2> DEFINE over == l.overtaken \/ (l.phase = "read" /\ j.op \in Withdrawals)
             late == l.stale \/ l.phase = "read"
  <2>1. k = [l EXCEPT !.overtaken = over, !.stale = late]
    BY <1>1
  <2>2. l \in JobsOfType /\ over \in BOOLEAN /\ late \in BOOLEAN
    BY DEF JobsOK
  <2> HIDE DEF over, late
  <2>3. /\ SameJob(k, l) /\ (k.mine <=> l.mine) /\ k.phase = l.phase /\ k.ok = l.ok /\ k.snap = l.snap
        /\ (k.stale <=> late) /\ (k.overtaken <=> over)
    BY <2>1, <2>2 DEF SameJob, JobsOfType
  <2> QED BY <2>3 DEF Marked, over, late
<1> QED BY <1>1 DEF Overtaken

(* Who wrote is_active last, by whether the commit names the column.         *)
LEMMA LastActiveFacts ==
  ASSUME NEW j
  PROVE  /\ "active" \in Written(j) => LastActive(j) = j.op
         /\ "active" \in DOMAIN Assigned(j) /\ "active" \notin Written(j) =>
              LastActive(j) = IF tenant.active # Assigned(j).active THEN "overlap" ELSE activeBy
         /\ "active" \notin DOMAIN Assigned(j) => "active" \notin Written(j) /\ LastActive(j) = activeBy
<1>1. Written(j) \subseteq DOMAIN Assigned(j)
  BY DEF Written
<1> QED BY <1>1 DEF LastActive

(* The row after a commit, and what is known of it.                          *)
LEMMA CommitEffect ==
  ASSUME IndInv, NEW j \in jobs, Commit(j)
  PROVE  /\ j.op \in Committable /\ j.snap \in Rows /\ tenant.there /\ tenant'.there
         /\ tenant'.request = IF j.op = "request" THEN requests + 1
                              ELSE IF j.op \in Withdrawals THEN 0 ELSE tenant.request
         /\ tenant'.scheduled = IF j.op = "schedule" THEN j.snap.request
                                ELSE IF j.op = "reject" /\ j.snap.scheduled # 0 THEN 0 ELSE tenant.scheduled
         /\ j.op = "schedule" => tenant'.active = tenant.active /\ activeBy' = activeBy
         /\ j.op \in TurnsOff =>
              /\ j.snap.active => ~tenant'.active /\ activeBy' = j.op
              /\ ~j.snap.active => /\ tenant'.active = tenant.active
                                   /\ activeBy' = IF tenant.active THEN "overlap" ELSE activeBy
         /\ j.op \in TurnsOn =>
              /\ ~j.snap.active => tenant'.active /\ activeBy' = j.op
              /\ j.snap.active => /\ tenant'.active = tenant.active
                                  /\ activeBy' = IF tenant.active THEN activeBy ELSE "overlap"
         /\ excuse' = {} => excuse = {} /\ (j.mine \/ j.op \notin {"request"} \cup Withdrawals)
         /\ tenant' \in Rows' /\ requests' \in {requests, requests + 1}
<1> USE DEF Commit
<1>1. /\ j.op \in Committable /\ j.snap \in Rows /\ requests \in Nat /\ tenant \in Rows
      /\ j.op = "request" => j.snap.request = 0
      /\ j.op \in {"cancel", "schedule", "reject"} => j.snap.request # 0
  <2>1. j.op \in Operations /\ j.op # "profile" /\ j.snap \in Rows
    BY JobTypes DEF IndInv, ReadsAccepted
  <2>2. j.op \in Committable
    BY <2>1 DEF Operations, Decisions, Toggles, Webhooks, AdminOps, Committable
  <2>3. requests \in Nat /\ tenant \in Rows
    BY LifecycleAssumption DEF IndInv, TypeOK, Rows
  <2> QED BY <2>1, <2>2, <2>3 DEF IndInv, ReadsAccepted, Decisions
<1>2. /\ DOMAIN tenant = {"there", "active", "request", "scheduled"} /\ tenant.active \in BOOLEAN
      /\ tenant.request \in 0 .. requests /\ tenant.scheduled \in 0 .. requests /\ tenant.there
      /\ j.snap.request \in 0 .. requests
  BY <1>1 DEF Rows
<1>3. /\ tenant'.there = (IF "there" \in Written(j) THEN Assigned(j).there ELSE tenant.there)
      /\ tenant'.request = (IF "request" \in Written(j) THEN Assigned(j).request ELSE tenant.request)
      /\ tenant'.scheduled = (IF "scheduled" \in Written(j) THEN Assigned(j).scheduled ELSE tenant.scheduled)
      /\ tenant'.active = (IF "active" \in Written(j) THEN Assigned(j).active ELSE tenant.active)
      /\ DOMAIN tenant' = {"there", "active", "request", "scheduled"}
  BY <1>2
<1>4. tenant'.there /\ tenant'.there = tenant.there
  BY <1>1, <1>2, <1>3, WrittenFacts
<1>5. tenant'.request = IF j.op = "request" THEN requests + 1
                        ELSE IF j.op \in Withdrawals THEN 0 ELSE tenant.request
  BY <1>1, <1>3, WrittenFacts DEF Withdrawals
<1>6. tenant'.scheduled = IF j.op = "schedule" THEN j.snap.request
                          ELSE IF j.op = "reject" /\ j.snap.scheduled # 0 THEN 0 ELSE tenant.scheduled
  BY <1>1, <1>3, WrittenFacts
<1>7. j.op = "schedule" => tenant'.active = tenant.active /\ activeBy' = activeBy
  BY <1>1, <1>3, WrittenFacts, LastActiveFacts
<1>8. ASSUME j.op \in TurnsOff
      PROVE  /\ j.snap.active => ~tenant'.active /\ activeBy' = j.op
             /\ ~j.snap.active => /\ tenant'.active = tenant.active
                                  /\ activeBy' = IF tenant.active THEN "overlap" ELSE activeBy
  <2>1. /\ Assigned(j).active = FALSE /\ ("active" \in Written(j) <=> j.snap.active)
        /\ "active" \in DOMAIN Assigned(j)
    BY <1>1, <1>8, WrittenFacts DEF TurnsOff
  <2>2. tenant.active # Assigned(j).active <=> tenant.active
    BY ONLY <1>2, <2>1
  <2>3. CASE j.snap.active
    BY <1>3, <2>1, <2>3, LastActiveFacts
  <2>4. CASE ~j.snap.active
    BY <1>3, <2>1, <2>2, <2>4, LastActiveFacts
  <2> QED BY <2>3, <2>4
<1>9. ASSUME j.op \in TurnsOn
      PROVE  /\ ~j.snap.active => tenant'.active /\ activeBy' = j.op
             /\ j.snap.active => /\ tenant'.active = tenant.active
                                 /\ activeBy' = IF tenant.active THEN activeBy ELSE "overlap"
  <2>1. /\ Assigned(j).active = TRUE /\ ("active" \in Written(j) <=> ~j.snap.active)
        /\ "active" \in DOMAIN Assigned(j)
    BY <1>1, <1>9, WrittenFacts DEF TurnsOn
  <2>2. tenant.active # Assigned(j).active <=> ~tenant.active
    BY ONLY <1>2, <2>1
  <2>3. CASE j.snap.active
    BY <1>3, <2>1, <2>2, <2>3, LastActiveFacts
  <2>4. CASE ~j.snap.active
    BY <1>3, <2>1, <2>4, LastActiveFacts
  <2> QED BY <2>3, <2>4
<1>10. excuse' = {} => excuse = {} /\ (j.mine \/ j.op \notin {"request"} \cup Withdrawals)
  BY <1>1, WrittenFacts
<1>11. requests' = IF j.op = "request" THEN requests + 1 ELSE requests
  OBVIOUS
<1>12. tenant' \in Rows'
  <2>1. tenant'.active \in BOOLEAN
    <3>1. j.op = "schedule" \/ j.op \in TurnsOff \/ j.op \in TurnsOn
      BY <1>1 DEF Committable, TurnsOff, TurnsOn
    <3>2. CASE j.op = "schedule"
      BY ONLY <1>2, <1>7, <3>2
    <3>3. CASE j.op # "schedule" /\ "active" \notin Written(j)
      BY ONLY <1>2, <1>3, <3>3
    <3>4. CASE j.op # "schedule" /\ "active" \in Written(j)
      <4>1. Assigned(j).active = FALSE \/ Assigned(j).active = TRUE
        BY <1>1, <3>1, <3>4, WrittenFacts
      <4>2. tenant'.active = Assigned(j).active
        BY ONLY <1>3, <3>4
      <4> QED BY ONLY <4>1, <4>2
    <3> QED BY <3>2, <3>3, <3>4
  <2>2. tenant'.request \in 0 .. requests' /\ tenant'.scheduled \in 0 .. requests'
    BY <1>1, <1>2, <1>5, <1>6, <1>11
  <2>3. tenant'.there \in BOOLEAN
    BY ONLY <1>2, <1>4
  <2>4. tenant' = [a \in DOMAIN tenant |-> tenant'[a]]
    BY <1>2
  <2> QED BY ONLY <1>2, <2>1, <2>2, <2>3, <2>4 DEF Rows
<1> QED BY <1>1, <1>2, <1>4, <1>5, <1>6, <1>7, <1>8, <1>9, <1>10, <1>11, <1>12

(* A date that stays, or that was set on a stale row, has its reason.        *)
LEMMA CarriedFacts ==
  ASSUME NEW j
  PROVE  /\ Carried(j) \subseteq carried \cup {"cancel", "overlap"}
         /\ tenant'.scheduled # 0 /\ ~(j.op = "schedule" /\ ~j.stale) =>
              /\ carried \subseteq Carried(j)
              /\ j.op = "cancel" => "cancel" \in Carried(j)
              /\ j.stale => "overlap" \in Carried(j)
BY DEF Carried

(* Whose jobs there are after a commit.                                      *)
LEMMA CommitJobs ==
  ASSUME IndInv, NEW j \in jobs, Commit(j)
  PROVE  \E done :
           /\ jobs' = Overtaken(j) \cup {k \in {done} : j.mine}
           /\ done \in JobsOfType' /\ SameJob(done, j) /\ (done.mine <=> j.mine)
           /\ done.phase = "done" /\ done.ok
<1>1. PICK done : /\ done = [j EXCEPT !.phase = "done", !.ok = TRUE, !.snap = NoTenant]
                  /\ jobs' = Overtaken(j) \cup {k \in {done} : j.mine}
  BY DEF Commit, Answered
<1>2. requests \in Nat /\ requests' \in {requests, requests + 1}
  BY LifecycleAssumption, CommitEffect DEF IndInv, TypeOK
<1>3. NoTenant \in Rows'
  <2>1. 0 \in 0 .. requests'
    BY <1>2
  <2> QED BY <2>1 DEF NoTenant, Rows
<1>4. j \in JobsOfType
  BY DEF IndInv, JobsOK
<1>5. /\ done \in JobsOfType' /\ SameJob(done, j) /\ (done.mine <=> j.mine)
      /\ done.phase = "done" /\ done.ok
  BY <1>1, <1>3, <1>4 DEF JobsOfType, SameJob
<1> QED BY <1>1, <1>5

(* Commit: what it writes has its reason, a webhook is handled in its turn,  *)
(* and the page's own write is what it is told.                              *)
LEMMA CommitStep ==
  ASSUME IndInv, NEW j \in jobs, Commit(j)
  PROVE  IndInv'
<1>1. PICK done :
        /\ jobs' = Overtaken(j) \cup {k \in {done} : j.mine}
        /\ done \in JobsOfType' /\ SameJob(done, j) /\ (done.mine <=> j.mine)
        /\ done.phase = "done" /\ done.ok
  BY CommitJobs
<1>2. /\ j.op \in Committable /\ j.snap \in Rows /\ tenant.there /\ tenant'.there
      /\ tenant' \in Rows' /\ requests' \in {requests, requests + 1} /\ requests \in Nat
      /\ j.phase = "read"
  <2>1. requests \in Nat
    BY LifecycleAssumption DEF IndInv, TypeOK
  <2>2. j.phase = "read"
    BY DEF Commit
  <2> QED BY <2>1, <2>2, CommitEffect
<1>3. JobsOK' /\ Cardinality(jobs') <= MaxJobs
  BY <1>1, <1>2, JobsOvertaken
<1>4. \A k \in jobs' : \/ k = done /\ j.mine
                       \/ k \in Overtaken(j) /\ \E l \in jobs \ {j} : Marked(k, l, j)
  <2>1. JobsOK
    BY DEF IndInv
  <2>2. \A k \in Overtaken(j) : \E l \in jobs \ {j} : Marked(k, l, j)
    BY <2>1, OvertakenFacts
  <2>3. ASSUME NEW k \in jobs', k \notin Overtaken(j)
        PROVE  k = done /\ j.mine
    BY ONLY <1>1, <2>3
  <2> QED BY ONLY <2>2, <2>3
<1>5. requests' \in 0 .. MaxAsks /\ AsksCounted'
  <2> DEFINE ids == {k.id : k \in ToAsk}
  <2>1. /\ requests \in 0 .. MaxAsks /\ asks \in Nat /\ asks <= MaxAsks /\ asks' = asks
        /\ MaxAsks \in Nat /\ MaxJobs \in Nat
        /\ requests + Cardinality(ids) <= asks /\ ids \subseteq 1 .. MaxJobs
    BY LifecycleAssumption DEF IndInv, TypeOK, AsksCounted, ToAsk, Commit
  <2>2. IsFiniteSet(ids) /\ Cardinality(ids) \in Nat
    <3> HIDE DEF ids
    <3>1. 1 \in Int /\ MaxJobs \in Int
      BY <2>1
    <3>2. IsFiniteSet(1 .. MaxJobs)
      BY ONLY <3>1, FS_Interval
    <3> QED BY <2>1, <3>2, FS_Subset, FS_CardinalityType
  <2>3. ASSUME NEW k \in ToAsk'
        PROVE  \E l \in ToAsk \ {j} : k.id = l.id /\ (j.op = "request" => k.id # j.id)
    <3>1. k \in jobs' /\ k.op = "request" /\ k.phase # "done"
      BY DEF ToAsk
    <3>2. PICK l \in jobs \ {j} : Marked(k, l, j)
      BY <1>1, <1>4, <3>1
    <3> QED BY <3>1, <3>2 DEF ToAsk, Marked, SameJob, IndInv, JobsOK
  <2>4. CASE j.op # "request"
    <3>1. requests' = requests
      BY <2>4 DEF Commit
    <3>2. \A k \in ToAsk' : \E l \in ToAsk : k.id = l.id
      BY <2>3
    <3>3. asks' \in asks .. MaxAsks
      BY <2>1
    <3> QED BY <2>1, <3>1, <3>2, <3>3, AsksQuiet
  <2>5. CASE j.op = "request"
    <3>1. j.id \in ids /\ requests' = requests + 1
      BY <1>2, <2>5 DEF ToAsk, Commit
    <3>2. ids' \subseteq ids \ {j.id}
      BY <2>3, <2>5
    <3> HIDE DEF ids
    <3>3. Cardinality(ids \ {j.id}) = Cardinality(ids) - 1 /\ IsFiniteSet(ids \ {j.id})
      BY <2>2, <3>1, OneMore
    <3>4. Cardinality(ids') <= Cardinality(ids \ {j.id}) /\ Cardinality(ids') \in Nat
      BY <3>2, <3>3, FS_Subset, FS_CardinalityType
    <3>5. requests' \in 0 .. MaxAsks /\ asks' \in 0 .. MaxAsks /\ requests' + Cardinality(ids') <= asks'
      BY <2>1, <2>2, <3>1, <3>3, <3>4
    <3> QED BY <3>5 DEF AsksCounted, ids
  <2> QED BY <2>4, <2>5
<1>6. TypeOK'
  <2>1. /\ tenant'.there \in BOOLEAN /\ tenant' \in [there : BOOLEAN, active : BOOLEAN,
                                                 request : 0 .. requests', scheduled : 0 .. requests']
    BY <1>2 DEF Rows
  <2>2. activeBy' \in Operations \cup {"signup", "overlap"}
    <3>1. activeBy' \in {activeBy, j.op, "overlap"}
      BY LastActiveFacts DEF Commit
    <3>2. activeBy \in Operations \cup {"signup", "overlap"} /\ j.op \in Operations
      BY JobTypes DEF IndInv, TypeOK
    <3> QED BY ONLY <3>1, <3>2
  <2>3. carried' \subseteq {"cancel", "overlap"}
    BY CarriedFacts DEF Commit, IndInv, TypeOK
  <2>4. excuse' \subseteq {"other", "overlap", "lost", "refused"}
    BY DEF Commit, IndInv, TypeOK
  <2>5. \A k \in jobs' : k.op \in Operations /\ k.phase \in {"sent", "read", "done"} /\ k.id \in 1 .. MaxJobs
    BY <1>3 DEF JobsOK, JobsOfType
  <2>6. UNCHANGED <<session, kept, billing, announced, zone, busy, disorder>>
    BY DEF Commit, fixed, page
  <2> QED BY <1>3, <1>5, <2>1, <2>2, <2>3, <2>4, <2>5, <2>6 DEF IndInv, TypeOK
<1>7. ReadsAccepted' /\ SnapsFresh'
  BY <1>1, <1>4 DEF ReadsAccepted, SnapsFresh, Marked, SameJob, IndInv
<1>8. WithdrawalsNoticed'
  <2>1. ASSUME NEW k \in jobs', k.phase = "read", k.op \in Decisions, ~k.overtaken
        PROVE  tenant'.request # 0
    <3>1. PICK l \in jobs \ {j} : Marked(k, l, j)
      BY <1>1, <1>4, <2>1
    <3>2. l.phase = "read" /\ l.op \in Decisions /\ ~l.overtaken /\ j.op \notin Withdrawals
      BY <2>1, <3>1 DEF Marked, SameJob
    <3>3. tenant.request # 0
      BY <1>2, <3>2 DEF IndInv, WithdrawalsNoticed
    <3>4. tenant'.request = IF j.op = "request" THEN requests + 1 ELSE tenant.request
      BY <3>2, CommitEffect
    <3> QED BY <1>2, <3>3, <3>4
  <2> QED BY <2>1 DEF WithdrawalsNoticed
<1>9. SchedulesExplained'
  <2> SUFFICES ASSUME tenant'.scheduled # 0
               PROVE  tenant'.scheduled = tenant'.request \/ carried' # {}
    BY DEF SchedulesExplained
  <2>1. ~j.stale => j.snap = tenant
    BY <1>2 DEF IndInv, SnapsFresh
  <2>2. tenant.scheduled # 0 => tenant.scheduled = tenant.request \/ carried # {}
    BY DEF IndInv, SchedulesExplained
  <2>3. carried' = Carried(j)
    BY DEF Commit
  <2>4. CASE j.stale \/ j.op = "cancel"
    BY <2>3, <2>4, CarriedFacts
  <2>5. CASE ~j.stale /\ j.op = "schedule"
    BY <2>1, <2>5, CommitEffect DEF Withdrawals
  <2>6. CASE ~j.stale /\ j.op \notin {"schedule", "cancel"}
    <3>1. tenant'.scheduled = tenant.scheduled /\ j.op # "reject"
      BY <2>1, <2>6, CommitEffect
    <3>2. carried \subseteq carried'
      BY <2>3, <2>6, CarriedFacts
    <3>3. j.op = "request" => tenant.request = 0
      BY <1>2, <2>1, <2>6 DEF IndInv, ReadsAccepted
    <3>4. j.op # "request" => tenant'.request = tenant.request
      BY <2>6, <3>1, CommitEffect DEF Withdrawals
    <3> QED BY <2>2, <3>1, <3>2, <3>3, <3>4
  <2> QED BY <2>4, <2>5, <2>6
<1>10. ActiveExplained'
  <2>1. /\ tenant.request # 0 /\ tenant.active => activeBy \in {"activate", "subscribed", "overlap"}
        /\ (activeBy = "subscribed" => tenant.active) /\ (activeBy = "canceled" => ~tenant.active)
    BY <1>2 DEF IndInv, ActiveExplained
  <2>2. j.snap.active \in BOOLEAN /\ tenant.active \in BOOLEAN /\ tenant'.active \in BOOLEAN
    BY <1>2 DEF IndInv, TypeOK, Rows
  <2>3. CASE j.op = "schedule"
    <3>1. tenant'.request = tenant.request
      BY <2>3, CommitEffect DEF Withdrawals
    <3>2. tenant'.active = tenant.active /\ activeBy' = activeBy
      BY <2>3, CommitEffect
    <3> QED BY <2>1, <3>1, <3>2 DEF ActiveExplained
  <2>4. CASE j.op \in TurnsOff
    <3>1. /\ j.snap.active => ~tenant'.active /\ activeBy' = j.op
          /\ ~j.snap.active => /\ tenant'.active = tenant.active
                               /\ activeBy' = IF tenant.active THEN "overlap" ELSE activeBy
      BY <2>4, CommitEffect
    <3> QED BY <2>1, <2>4, <3>1 DEF ActiveExplained, TurnsOff
  <2>5. CASE j.op \in TurnsOn
    <3>1. /\ ~j.snap.active => tenant'.active /\ activeBy' = j.op
          /\ j.snap.active => /\ tenant'.active = tenant.active
                              /\ activeBy' = IF tenant.active THEN activeBy ELSE "overlap"
      BY <2>5, CommitEffect
    <3>2. tenant'.request = IF j.op \in Withdrawals THEN 0 ELSE tenant.request
      BY <2>5, CommitEffect DEF TurnsOn
    <3> QED BY <2>1, <2>5, <3>1, <3>2 DEF ActiveExplained, TurnsOn, Withdrawals
  <2> QED BY <1>2, <2>3, <2>4, <2>5 DEF Committable, TurnsOff, TurnsOn
<1>11. WebhooksInOrder'
  <2>0. UNCHANGED <<announced, disorder>> /\ disorder \in BOOLEAN
    BY DEF Commit, IndInv, TypeOK
  <2>1. \A k \in Due : k.n \in DOMAIN announced /\ k.op = announced[k.n] /\ ~k.mine /\ k.phase # "done"
    BY <1>2 DEF IndInv, WebhooksInOrder
  <2>2. ASSUME NEW k \in Due'
        PROVE  \E l \in Due \ {j} : Marked(k, l, j)
    <3>1. k \in jobs' /\ k.op \in Webhooks
      BY DEF Due, Handled
    <3>2. ~(k = done /\ j.mine)
      BY <1>1, <3>1 DEF SameJob, IndInv, JobsOK, Webhooks, AdminOps
    <3>3. PICK l \in jobs \ {j} : Marked(k, l, j)
      BY <1>4, <3>1, <3>2
    <3> QED BY <3>1, <3>3 DEF Due, Handled, Marked, SameJob
  <2>3. ASSUME NEW l \in Due \ {j}
        PROVE  \E k \in Due' : Marked(k, l, j)
    <3>1. l \in jobs \ {j} /\ l.op \in Webhooks /\ JobsOK
      BY DEF Due, Handled, IndInv
    <3>2. PICK k \in Overtaken(j) : Marked(k, l, j)
      BY <3>1, OvertakenFacts
    <3> QED BY <1>1, <3>1, <3>2 DEF Due, Handled, Marked, SameJob
  <2>4. CASE j.op \notin Webhooks
    <3>1. activeBy' = activeBy \/ activeBy' \notin Webhooks
      BY <2>4, LastActiveFacts DEF Commit, Webhooks
    <3>2. \A k \in Due' : \E l \in Due : SameJob(k, l) /\ k.phase = l.phase
      BY <2>2 DEF Marked
    <3>3. \A l \in Due : \E k \in Due' : SameJob(k, l)
      BY <2>3, <2>4 DEF Marked, Due, Handled
    <3> QED BY <1>2, <1>3, <2>0, <3>1, <3>2, <3>3, WebhooksQuiet
  <2>5. CASE j.op \in Webhooks
    <3>1. j \in Due /\ j.n \in DOMAIN announced /\ j.op = announced[j.n]
      BY <2>1, <2>5 DEF Due, Handled
    <3>2. \A k \in Due' : k.n \in DOMAIN announced' /\ k.op = announced'[k.n] /\ ~k.mine /\ k.phase # "done"
      BY <2>0, <2>1, <2>2 DEF Marked, SameJob
    <3>3. ASSUME ~disorder
          PROVE  /\ \A i, k \in Due : i.n = k.n => i = k
                 /\ \A i \in Due : i.phase = "read" => \A k \in Due \ {i} : k.n > i.n
      BY <1>2, <3>3 DEF IndInv, WebhooksInOrder
    <3>4. ASSUME ~disorder, NEW i \in Due', NEW k \in Due', i.n = k.n
          PROVE  i = k
      <4>1. PICK l \in Due \ {j} : Marked(i, l, j)
        BY <2>2
      <4>2. PICK m \in Due \ {j} : Marked(k, m, j)
        BY <2>2
      <4>3. l = m
        BY <3>3, <3>4, <4>1, <4>2 DEF Marked, SameJob
      <4> QED BY <1>3, <4>1, <4>2, <4>3 DEF Marked, SameJob, JobsOK, Due, Handled
    <3>5. ASSUME ~disorder, NEW i \in Due', i.phase = "read", NEW k \in Due' \ {i}
          PROVE  k.n > i.n
      <4>1. PICK l \in Due \ {j} : Marked(i, l, j)
        BY <2>2
      <4>2. PICK m \in Due \ {j} : Marked(k, m, j)
        BY <2>2
      <4>3. l # m
        BY <1>3, <3>5, <4>1, <4>2 DEF Marked, SameJob, JobsOK, Due, Handled
      <4> QED BY <3>3, <3>5, <4>1, <4>2, <4>3 DEF Marked, SameJob
    <3>6. ASSUME ~disorder
          PROVE  \E c \in 0 .. Len(announced') :
                   /\ \A i \in DOMAIN announced' : i > c <=> \E k \in Due' : k.n = i
                   /\ activeBy' \in Webhooks => c >= 1 /\ activeBy' = announced'[c]
      <4>1. PICK c \in 0 .. Len(announced) :
              /\ \A i \in DOMAIN announced : i > c <=> \E k \in Due : k.n = i
              /\ activeBy \in Webhooks => c >= 1 /\ activeBy = announced[c]
        BY <1>2, <3>6 DEF IndInv, WebhooksInOrder
      <4>2. announced \in Seq(Webhooks) /\ DOMAIN announced = 1 .. Len(announced) /\ Len(announced) \in Nat
        BY DEF IndInv, TypeOK
      <4>3. \A k \in Due \ {j} : k.n > j.n
        BY <1>2, <3>1, <3>3, <3>6
      <4>4. j.n = c + 1
        <5>1. j.n > c /\ j.n \in 1 .. Len(announced)
          BY <3>1, <4>1, <4>2
        <5>2. ASSUME j.n > c + 1 PROVE FALSE
          <6>1. c + 1 \in DOMAIN announced /\ c + 1 > c
            BY <4>2, <5>1, <5>2
          <6>2. PICK k \in Due : k.n = c + 1
            BY <4>1, <6>1
          <6> QED BY <4>2, <4>3, <5>1, <5>2, <6>2
        <5> QED BY <4>2, <5>1, <5>2
      <4>5. ASSUME NEW i \in DOMAIN announced
            PROVE  i > c + 1 <=> \E k \in Due' : k.n = i
        <5>1. ASSUME i > c + 1 PROVE \E k \in Due' : k.n = i
          <6>1. PICK l \in Due : l.n = i
            BY <4>1, <4>2, <5>1
          <6>2. l \in Due \ {j}
            BY <4>2, <4>4, <5>1, <6>1
          <6> QED BY <2>3, <6>1, <6>2 DEF Marked, SameJob
        <5>2. ASSUME NEW k \in Due', k.n = i PROVE i > c + 1
          BY <2>2, <4>3, <4>4, <5>2 DEF Marked, SameJob
        <5> QED BY <5>1, <5>2
      <4>6. activeBy' \in Webhooks => activeBy' = announced[c + 1]
        <5>1. (activeBy = "subscribed" => tenant.active) /\ (activeBy = "canceled" => ~tenant.active)
          BY <1>2 DEF IndInv, ActiveExplained
        <5>2. j.snap.active \in BOOLEAN /\ tenant.active \in BOOLEAN
          BY <1>2 DEF IndInv, TypeOK, Rows
        <5>3. CASE j.op = "subscribed"
          <6>1. /\ ~j.snap.active => activeBy' = j.op
                /\ j.snap.active => activeBy' = IF tenant.active THEN activeBy ELSE "overlap"
            BY <5>3, CommitEffect DEF TurnsOn
          <6> QED BY <3>1, <4>4, <5>1, <5>2, <5>3, <6>1 DEF Webhooks
        <5>4. CASE j.op = "canceled"
          <6>1. /\ j.snap.active => activeBy' = j.op
                /\ ~j.snap.active => activeBy' = IF tenant.active THEN "overlap" ELSE activeBy
            BY <5>4, CommitEffect DEF TurnsOff
          <6> QED BY <3>1, <4>4, <5>1, <5>2, <5>4, <6>1 DEF Webhooks
        <5> QED BY <2>5, <5>3, <5>4 DEF Webhooks
      <4>7. c + 1 \in 0 .. Len(announced) /\ c + 1 >= 1
        BY <3>1, <4>2, <4>4
      <4> QED BY <2>0, <4>5, <4>6, <4>7
    <3> QED BY <2>0, <3>2, <3>4, <3>5, <3>6 DEF WebhooksInOrder
  <2> QED BY <2>4, <2>5
<1>12. ZoneExplained'
  <2> SUFFICES ASSUME excuse' = {} PROVE ZoneExplained'
    BY DEF ZoneExplained
  <2>1. excuse = {} /\ (j.mine \/ j.op \notin {"request"} \cup Withdrawals) /\ zone' = zone
    BY CommitEffect DEF Commit, page
  <2>2. CASE ~j.mine
    <3>1. tenant'.request = tenant.request
      BY <2>1, <2>2, CommitEffect
    <3>2. ASSUME NEW k \in jobs', k.mine
          PROVE  \E l \in jobs : SameJob(k, l) /\ k.phase = l.phase /\ k.ok = l.ok /\ k.snap = l.snap
      BY <1>4, <2>2, <3>2 DEF Marked
    <3>3. ASSUME NEW l \in jobs, l.mine
          PROVE  \E k \in jobs' : k.mine
      <4>1. PICK k \in Overtaken(j) : Marked(k, l, j)
        BY <2>2, <3>3, OvertakenFacts DEF IndInv
      <4> QED BY <1>1, <3>3, <4>1 DEF Marked
    <3> QED BY <1>3, <2>1, <3>1, <3>2, <3>3, ZoneQuiet
  <2>3. CASE j.mine
    <3>1. ASSUME NEW k \in jobs', k.mine PROVE k = done
      <4>1. \A l \in jobs \ {j} : ~l.mine
        BY <2>1, <2>3 DEF IndInv, ZoneExplained
      <4> QED BY <1>4, <3>1, <4>1 DEF Marked
    <3>2. j.op \in {"request", "cancel"}
      BY <1>2, <2>3 DEF IndInv, JobsOK, AdminOps, Committable
    <3>3. tenant'.request # 0 <=> j.op = "request"
      BY <1>2, <3>2, CommitEffect DEF Withdrawals
    <3>4. Foretells(done)'
      BY <1>1, <3>2, <3>3 DEF Foretells, SameJob
    <3> QED BY <1>1, <2>3, <3>1, <3>4 DEF ZoneExplained
  <2> QED BY <2>2, <2>3
<1> QED BY <1>3, <1>5, <1>6, <1>7, <1>8, <1>9, <1>10, <1>11, <1>12 DEF IndInv

(* Erase: nothing of the tenant is left to account for.                      *)
LEMMA EraseStep ==
  ASSUME IndInv, NEW j \in jobs, Erase(j)
  PROVE  IndInv'
<1>1. /\ tenant' = NoTenant /\ jobs' = Overtaken(j) /\ carried' = {} /\ excuse' = excuse \cup {"other"}
      /\ UNCHANGED <<session, kept, billing, requests, announced, zone, busy, asks, mishaps, activeBy, disorder>>
      /\ requests \in Nat /\ JobsOK
  BY LifecycleAssumption DEF Erase, fixed, page, IndInv, TypeOK
<1>2. \A k \in jobs' : \E l \in jobs \ {j} : Marked(k, l, j)
  BY <1>1, OvertakenFacts
<1>3. JobsOK' /\ Cardinality(jobs') <= MaxJobs
  <2>1. PICK done : done = j
    OBVIOUS
  <2>2. done \in JobsOfType' /\ SameJob(done, j)
    BY <1>1, <2>1 DEF JobsOK, JobsOfType, Rows, SameJob
  <2>3. jobs' \subseteq Overtaken(j) \cup {done} /\ requests' \in {requests, requests + 1}
    BY <1>1
  <2> QED BY <2>2, <2>3, JobsOvertaken
<1>4. NoTenant \in [there : BOOLEAN, active : BOOLEAN, request : 0 .. requests, scheduled : 0 .. requests]
      /\ ~NoTenant.there /\ NoTenant.request = 0 /\ NoTenant.scheduled = 0
  <2>1. 0 \in 0 .. requests
    BY <1>1
  <2> QED BY <2>1 DEF NoTenant
<1>5. TypeOK'
  <2>1. \A k \in jobs' : k.op \in Operations /\ k.phase \in {"sent", "read", "done"} /\ k.id \in 1 .. MaxJobs
    BY <1>3 DEF JobsOK, JobsOfType
  <2> QED BY <1>1, <1>3, <1>4, <2>1 DEF IndInv, TypeOK
<1>6. AsksCounted'
  <2>1. \A k \in ToAsk' : \E l \in ToAsk : k.id = l.id
    BY <1>2 DEF ToAsk, Marked, SameJob
  <2>2. asks' \in asks .. MaxAsks
    BY <1>1, LifecycleAssumption DEF IndInv, AsksCounted
  <2> QED BY <1>1, <2>1, <2>2, AsksQuiet
<1>7. ReadsAccepted'
  BY <1>2 DEF ReadsAccepted, Marked, SameJob, IndInv
<1>8. SnapsFresh' /\ WithdrawalsNoticed'
  BY <1>1, <1>2, <1>4 DEF SnapsFresh, WithdrawalsNoticed, Marked
<1>9. SchedulesExplained' /\ ActiveExplained' /\ WebhooksInOrder'
  BY <1>1, <1>4 DEF SchedulesExplained, ActiveExplained, WebhooksInOrder
<1>10. ZoneExplained'
  BY <1>1 DEF ZoneExplained
<1> QED BY <1>3, <1>5, <1>6, <1>7, <1>8, <1>9, <1>10 DEF IndInv

(* Every operation, handler and answer preserves the inductive invariant.    *)
LEMMA StepIndInv == IndInv /\ [Next]_vars => IndInv'
<1> SUFFICES ASSUME IndInv, [Next]_vars PROVE IndInv'
  OBVIOUS
<1>1. CASE UNCHANGED vars
  BY <1>1 DEF vars, IndInv, TypeOK, JobsOK, JobsOfType, Rows, AsksCounted, ToAsk, ReadsAccepted, SnapsFresh,
              WithdrawalsNoticed, SchedulesExplained, ActiveExplained, WebhooksInOrder, Due, Handled,
              ZoneExplained, Foretells, ZoneAgrees
<1>2. CASE OpenSettings
  BY <1>2, OpenSettingsStep
<1>3. CASE SignOut \/ SessionExpires
  BY <1>3, SessionStep
<1>4. ASSUME NEW op \in {"request", "cancel"}, NEW right \in BOOLEAN, Submit(op, right) PROVE IndInv'
  BY <1>4, SubmitStep
<1>5. ASSUME NEW op \in Decisions \cup Toggles, Decide(op) PROVE IndInv'
  BY <1>5, DecideStep
<1>6. ASSUME NEW kind \in Webhooks, Announce(kind) PROVE IndInv'
  BY <1>6, AnnounceStep
<1>7. ASSUME NEW i \in DOMAIN announced, Redeliver(i) PROVE IndInv'
  BY <1>7, RedeliverStep
<1>8. ASSUME NEW j \in jobs, Read(j) \/ Fail(j) \/ Answer(j) \/ LoseAnswer(j) PROVE IndInv'
  BY <1>8, ReadStep, FailStep, AnswerStep, LoseAnswerStep
<1>9. ASSUME NEW j \in jobs, Commit(j) \/ Erase(j) PROVE IndInv'
  BY <1>9, CommitStep, EraseStep
<1> QED BY <1>1, <1>2, <1>3, <1>4, <1>5, <1>6, <1>7, <1>8, <1>9 DEF Next, Admin, Handlers

(* The inductive invariant holds of every run: requests, staff decisions,    *)
(* webhooks, lost answers and ended sessions in any order.                   *)
THEOREM Invariance == Spec => []IndInv
<1>1. Init => IndInv
  BY InitIndInv
<1>2. IndInv /\ [Next]_vars => IndInv'
  BY StepIndInv
<1> QED BY <1>1, <1>2, PTL DEF Spec

(* Every variable keeps its type; in particular the handlers at work and the *)
(* deletions asked for stay within their bounds.                             *)
THEOREM TypeCorrect == Spec => []TypeOK
<1>1. IndInv => TypeOK
  BY DEF IndInv
<1> QED BY <1>1, Invariance, PTL

(* The date the staff see beside a request is that request's, unless a       *)
(* cancellation kept an older one or handlers overlapped                     *)
(* (cancel_deletion and schedule_deletion write without a lock).             *)
THEOREM ScheduledDatesExplained == Spec => []SchedulesBelongToRequests
<1>1. IndInv => SchedulesBelongToRequests
  BY DEF IndInv, SchedulesExplained, SchedulesBelongToRequests
<1> QED BY <1>1, Invariance, PTL

(* A tenant that waits for its deletion is suspended unless staff or billing *)
(* activated it; and when no webhook is under way, what billing wrote last   *)
(* is what Paddle announced last, if they came in order.                     *)
THEOREM ActivityExplained == Spec => []ActiveIsAccountedFor
<1>1. ASSUME IndInv, tenant.there, activeBy \in Webhooks, Handled(Webhooks) = {}, ~disorder
      PROVE  activeBy = announced[Len(announced)]
  <2>1. PICK c \in 0 .. Len(announced) :
          /\ \A i \in DOMAIN announced : i > c <=> \E j \in Due : j.n = i
          /\ activeBy \in Webhooks => c >= 1 /\ activeBy = announced[c]
    BY <1>1 DEF IndInv, WebhooksInOrder
  <2>2. announced \in Seq(Webhooks) /\ Len(announced) \in Nat /\ DOMAIN announced = 1 .. Len(announced)
    BY <1>1 DEF IndInv, TypeOK
  <2>3. \A i \in DOMAIN announced : ~(i > c)
    BY <1>1, <2>1 DEF Due
  <2>4. c = Len(announced)
    <3>1. c \in 0 .. Len(announced)
      BY <2>1
    <3>2. PICK N : N = Len(announced)
      OBVIOUS
    <3>3. N \in Nat /\ c \in 0 .. N
      BY <2>2, <3>1, <3>2
    <3>4. N \in 1 .. N => ~(N > c)
      BY <2>2, <2>3, <3>2
    <3>5. c = N
      BY ONLY <3>3, <3>4
    <3> QED BY <3>2, <3>5
  <2> QED BY <1>1, <2>1, <2>4
<1>2. IndInv => ActiveIsAccountedFor
  BY <1>1 DEF IndInv, ActiveExplained, ActiveIsAccountedFor
<1> QED BY <1>2, Invariance, PTL

(* With no request of the page under way and no excuse, the danger zone      *)
(* shows a pending deletion exactly when the row holds one.                  *)
THEOREM DangerZoneTellsTheTruth == Spec => []DangerZoneAgrees
<1>1. IndInv => DangerZoneAgrees
  BY DEF IndInv, ZoneExplained, ZoneAgrees, DangerZoneAgrees
<1> QED BY <1>1, Invariance, PTL

(* _hard_delete_tenant erases only a tenant nobody is signed in to, whose    *)
(* request still pends or was withdrawn under the handler's eyes.            *)
THEOREM ErasuresJustified == Spec => ErasureIsJustified
<1> DEFINE Justified ==
      tenant.there /\ ~tenant'.there =>
        /\ session = "none" /\ ~kept
        /\ tenant.request # 0 \/ \E j \in jobs \ jobs' : j.overtaken
<1>1. ASSUME IndInv, Next PROVE Justified
  <2> SUFFICES ASSUME tenant.there, ~tenant'.there PROVE Justified
    OBVIOUS
  <2>1. ASSUME NEW j \in jobs, Erase(j) PROVE Justified
    <3>1. /\ session = "none" /\ ~kept /\ j.phase = "read" /\ j.op \in Decisions
          /\ jobs' = Overtaken(j) /\ JobsOK
      BY <1>1, <2>1 DEF Erase, Decisions, IndInv
    <3>2. ~j.overtaken => tenant.request # 0
      BY <1>1, <3>1 DEF IndInv, WithdrawalsNoticed
    <3>3. j \notin jobs'
      <4> SUFFICES ASSUME j \in jobs' PROVE FALSE
        OBVIOUS
      <4>1. PICK l \in jobs \ {j} : Marked(j, l, j)
        BY <3>1, OvertakenFacts
      <4> QED BY <3>1, <4>1 DEF Marked, SameJob, JobsOK
    <3> QED BY <3>1, <3>2, <3>3
  <2>2. ASSUME NEW j \in jobs, Commit(j) PROVE FALSE
    BY <1>1, <2>2, CommitEffect
  <2>3. ASSUME tenant' = tenant PROVE FALSE
    BY <2>3
  <2>4. \/ tenant' = tenant \/ \E j \in jobs : Erase(j) \/ Commit(j)
    BY <1>1 DEF Next, Admin, Handlers, OpenSettings, SignOut, SessionExpires, Submit, Decide, Announce,
                Redeliver, Read, Fail, Answer, LoseAnswer
  <2> QED BY <2>1, <2>2, <2>3, <2>4
<1>2. IndInv /\ [Next]_vars => [Justified]_vars
  BY <1>1
<1> QED BY <1>2, Invariance, PTL DEF Spec, ErasureIsJustified
=============================================================================
