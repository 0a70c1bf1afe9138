--------------------------- MODULE SchedulerProofs ---------------------------
(* Theorems about Scheduler, for any tasks, providers, bounds and tables    *)
(* the program is started with.                                             *)
EXTENDS Scheduler, FiniteSetTheorems, FunctionTheorems, SequenceTheorems,
        WellFoundedInduction, TLAPS

-----------------------------------------------------------------------------
(* The invariant.                                                          *)

PaneState == [provider : Providers, id : {"minted", "thread"},
          turn : {"spawning", "busy", "idle", "dead", "closed"}]
Attempt == [provider : Providers, end : {"open", "failed", "ok"}]

(* What is on its way to the writer.                                       *)
Table == UNION {[D -> Task] : D \in SUBSET Tasks}
Event == [kind : {"tasks"}, tasks : Table]
           \cup [kind : {"run"}, run : Nat \ {0}, row : Row]
           \cup [kind : {"delete"}, task : Tasks]

TypeInv ==
  /\ now \in Nat
  /\ IsTable(tasks)
  /\ IsHistory(runs)
  /\ pending \in Seq(Fire)
  /\ DOMAIN active \subseteq DOMAIN panes
  /\ \A p \in DOMAIN active :
       active[p] \in [run : 1 .. minted, task : Tasks, attempt : {1, 2}]
  /\ announced \in BOOLEAN
  /\ handing \in Seq(Fire)
  /\ panes \in Seq(PaneState)
  /\ window \in BOOLEAN
  /\ IsTable(disk.tasks) /\ IsHistory(disk.runs)
  /\ disk = [tasks |-> disk.tasks, runs |-> disk.runs]
  /\ log \in Seq(Event)
  /\ \A k \in DOMAIN log : log[k].kind = "run" => log[k].run <= minted
  /\ minted \in Nat
  /\ clicks \in Nat
  /\ launches \in Nat
  /\ tried \in [1 .. minted -> Seq(Attempt)]

(* A task has at most one attempt, and it is that of its newest run, which *)
(* is running.                                                             *)
Apart ==
  /\ \A i, j \in DOMAIN pending : pending[i].task = pending[j].task => i = j
  /\ \A i, j \in DOMAIN handing : handing[i].task = handing[j].task => i = j
  /\ \A p, q \in DOMAIN active : active[p].task = active[q].task => p = q
  /\ \A i \in DOMAIN pending, j \in DOMAIN handing : pending[i].task # handing[j].task
  /\ \A i \in DOMAIN pending, p \in DOMAIN active : pending[i].task # active[p].task
  /\ \A j \in DOMAIN handing, p \in DOMAIN active : handing[j].task # active[p].task

Current(r, t) ==
  /\ Recordable(r, t)
  /\ \A s \in DOMAIN runs : runs[s].task = t => s <= r
CurrentInv ==
  /\ \A p \in DOMAIN active : Current(active[p].run, active[p].task)
  /\ \A k \in DOMAIN pending : Current(pending[k].run, pending[k].task)
  /\ \A k \in DOMAIN handing : Current(handing[k].run, handing[k].task)

(* A run is retried while a window is open, at once, and with another      *)
(* provider than the task's own, by which the retry is told from a first   *)
(* attempt.                                                                *)
Retrying(f) ==
  /\ Len(tried[f.run]) = 1
  /\ tried[f.run][1].end = "failed"
  /\ f.task \in DOMAIN tasks => runs[f.run].provider # tasks[f.task].provider
WindowInv ==
  /\ handing # <<>> => window
  /\ ~window => \A p \in DOMAIN panes : panes[p].turn = "closed"
AttemptInv ==
  /\ \A r \in 1 .. minted :
       /\ Len(tried[r]) <= 2
       /\ Len(tried[r]) = 2 => tried[r][1].end = "failed"
  /\ \A k \in DOMAIN pending :
       tried[pending[k].run] = <<>> \/ (Retrying(pending[k]) /\ announced /\ window)
  /\ \A k \in DOMAIN handing : tried[handing[k].run] = <<>> \/ Retrying(handing[k])
  /\ \A p \in DOMAIN active :
       /\ tried[active[p].run] # <<>>
       /\ EndOf(active[p].run) = "open"
       /\ active[p].attempt = 1 => Len(tried[active[p].run]) = 1

(* What any copy of a run's row says of it agrees with its attempts and    *)
(* with the copies that were made later.                                   *)
Says(r, row) ==
  /\ row.outcome = "Success" => EndOf(r) = "ok"
  /\ row.outcome = "BothFailed" => EndOf(r) = "failed"
Agree(old, new) == old.outcome # "Running" => new.outcome = old.outcome
RowInv ==
  /\ \A r \in DOMAIN runs :
       Says(r, runs[r]) /\ (runs[r].outcome = "Running" => EndOf(r) = "open" \/ Waiting(r))
  /\ \A r \in DOMAIN disk.runs : Says(r, disk.runs[r])
  /\ \A k \in DOMAIN log : log[k].kind = "run" => Says(log[k].run, log[k].row)
Copies(table, events, rs) ==
  /\ \A r \in DOMAIN table :
       /\ r \in DOMAIN rs => Agree(table[r], rs[r])
       /\ \A k \in DOMAIN events :
            events[k].kind = "run" /\ events[k].run = r => Agree(table[r], events[k].row)
  /\ \A k \in DOMAIN events : events[k].kind = "run" =>
       /\ events[k].run \in DOMAIN rs => Agree(events[k].row, rs[events[k].run])
       /\ \A l \in DOMAIN events :
            k < l /\ events[l].kind = "run" /\ events[l].run = events[k].run =>
              Agree(events[k].row, events[l].row)
CopyInv == Copies(disk.runs, log, runs)

(* The rows of the task of row r that are newer.                           *)
Newer(rs, r) == {s \in DOMAIN rs : s > r /\ rs[s].task = rs[r].task}
Pruned(rs) == \A r \in DOMAIN rs : Cardinality(Newer(rs, r)) < RunsKept

(* The tables go from d to e when the events are written.                  *)
Writes(d, events, after) ==
  /\ DOMAIN after = 0 .. Len(events)
  /\ after[0] = d
  /\ \A k \in 1 .. Len(events) : after[k] = Applied(after[k - 1], events[k])
Leads(d, events, e) == \E after : Writes(d, events, after) /\ after[Len(events)] = e

MirrorInv ==
  /\ Pruned(runs) /\ Pruned(disk.runs)
  /\ Leads(disk, log, [tasks |-> tasks, runs |-> runs])

AttemptsInv == Apart /\ CurrentInv /\ WindowInv /\ AttemptInv
Inv == TypeInv /\ AttemptsInv /\ RowInv /\ CopyInv /\ MirrorInv

-----------------------------------------------------------------------------
(* Operators of functions and sequences.                                   *)

LEMMA PutIs ==
  ASSUME NEW f, NEW x, NEW v
  PROVE  /\ DOMAIN Put(f, x, v) = DOMAIN f \cup {x}
         /\ Put(f, x, v)[x] = v
         /\ \A y \in DOMAIN f : y # x => Put(f, x, v)[y] = f[y]
BY DEF Put

LEMMA KeepIs ==
  ASSUME NEW f, NEW S
  PROVE  /\ DOMAIN Keep(f, S) = DOMAIN f \cap S
         /\ \A y \in DOMAIN f \cap S : Keep(f, S)[y] = f[y]
BY DEF Keep

LEMMA ListIs ==
  ASSUME NEW S, NEW n \in Nat, NEW f \in [1 .. n -> S]
  PROVE  f \in Seq(S) /\ Len(f) = n /\ DOMAIN f = 1 .. n
OBVIOUS

Joins(u, s, t, i, j, S) ==
  /\ u \in Seq(S) /\ Len(u) = i + j /\ i \in Nat /\ j \in Nat
  /\ \A k \in 1 .. i : u[k] = s[k]
  /\ \A k \in 1 .. j : u[i + k] = t[k]
LEMMA JoinIs ==
  ASSUME NEW S, NEW s \in Seq(S), NEW t \in Seq(S), NEW i, NEW j, i = Len(s), j = Len(t),
         NEW u, u = s \o t
  PROVE  Joins(u, s, t, i, j, S)
BY DEF Joins

(* A list without repetition that is as long as a finite set has elements  *)
(* names them all.                                                         *)
LEMMA ListingIs ==
  ASSUME NEW S, IsFiniteSet(S), NEW f \in [1 .. Cardinality(S) -> S],
         \A i, j \in 1 .. Cardinality(S) : f[i] = f[j] => i = j
  PROVE  /\ Cardinality(S) \in Nat /\ f \in Seq(S) /\ Len(f) = Cardinality(S)
         /\ DOMAIN f = 1 .. Len(f)
         /\ \A x \in S : \E i \in 1 .. Len(f) : f[i] = x
<1>1. PICK n : n = Cardinality(S)
  OBVIOUS
<1>2. n \in Nat
  BY <1>1, FS_CardinalityType
<1>3. f \in Seq(S) /\ Len(f) = n /\ DOMAIN f = 1 .. n
  BY <1>1, <1>2
<1>4. IsFiniteSet(1 .. n) /\ Cardinality(1 .. n) = n
  <2>1. 1 \in Int /\ n \in Int
    BY <1>2
  <2>2. IsFiniteSet(1 .. n) /\ Cardinality(1 .. n) = IF 1 > n THEN 0 ELSE n - 1 + 1
    BY ONLY <2>1, FS_Interval
  <2> QED
    BY <1>2, <2>2
<1>5. PICK image : image = {f[i] : i \in 1 .. n}
  OBVIOUS
<1>6. image \in SUBSET S /\ \A i \in 1 .. n : f[i] \in image
  BY <1>1, <1>5
<1>7. f \in Bijection(1 .. n, image)
  <2>1. f \in [1 .. n -> image]
    BY <1>1, <1>3, <1>6
  <2>2. f \in Surjection(1 .. n, image)
    BY <2>1, <1>5 DEF Surjection
  <2>3. f \in Injection(1 .. n, image)
    BY <2>1, <1>1 DEF Injection, IsInjective
  <2> QED
    BY <2>2, <2>3 DEF Bijection
<1>8. IsFiniteSet(image) /\ Cardinality(image) <= Cardinality(S)
      /\ (Cardinality(S) = Cardinality(image) => S = image)
  BY <1>6, FS_Subset
<1>9. Cardinality(1 .. n) = Cardinality(image)
  <2>1. ExistsBijection(1 .. n, image)
    BY <1>7 DEF ExistsBijection
  <2> QED
    BY <1>4, <1>8, <2>1, FS_Bijection
<1>10. S = image
  BY <1>1, <1>4, <1>8, <1>9
<1> QED
  BY <1>1, <1>2, <1>3, <1>5, <1>10

LEMMA AscendingIs ==
  ASSUME NEW S \in SUBSET Int, IsFiniteSet(S), NEW f \in Ascending(S)
  PROVE  /\ f \in Seq(S) /\ Len(f) \in Nat /\ DOMAIN f = 1 .. Len(f)
         /\ \A i, j \in 1 .. Len(f) : f[i] = f[j] => i = j
         /\ \A x \in S : \E i \in 1 .. Len(f) : f[i] = x
<1>1. PICK n : n = Cardinality(S)
  OBVIOUS
<1>2. n \in Nat
  BY <1>1, FS_CardinalityType
<1>3. f \in [1 .. n -> S] /\ DOMAIN f = 1 .. n
      /\ \A i, j \in 1 .. n : i < j => f[i] < f[j]
  BY <1>1 DEF Ascending
<1>4. \A i, j \in 1 .. n : f[i] = f[j] => i = j
  <2> SUFFICES ASSUME NEW i \in 1 .. n, NEW j \in 1 .. n, f[i] = f[j], i # j
               PROVE  FALSE
    OBVIOUS
  <2>1. i < j \/ j < i
    BY <1>2
  <2>2. f[i] \in Int /\ f[j] \in Int
    BY <1>3
  <2> QED
    BY <1>3, <2>1, <2>2
<1>5. f \in [1 .. Cardinality(S) -> S]
      /\ \A i, j \in 1 .. Cardinality(S) : f[i] = f[j] => i = j
  BY <1>1, <1>3, <1>4
<1>6. /\ Cardinality(S) \in Nat /\ f \in Seq(S) /\ Len(f) = Cardinality(S)
      /\ DOMAIN f = 1 .. Len(f)
      /\ \A x \in S : \E i \in 1 .. Len(f) : f[i] = x
  BY <1>5, ListingIs
<1> QED
  BY <1>1, <1>4, <1>6

LEMMA DescendingIs ==
  ASSUME NEW S \in SUBSET Int, IsFiniteSet(S), NEW f \in Descending(S)
  PROVE  /\ f \in Seq(S) /\ Len(f) \in Nat /\ DOMAIN f = 1 .. Len(f)
         /\ \A i, j \in 1 .. Len(f) : f[i] = f[j] => i = j
         /\ \A x \in S : \E i \in 1 .. Len(f) : f[i] = x
<1>1. PICK n : n = Cardinality(S)
  OBVIOUS
<1>2. n \in Nat
  BY <1>1, FS_CardinalityType
<1>3. f \in [1 .. n -> S] /\ DOMAIN f = 1 .. n
      /\ \A i, j \in 1 .. n : i < j => f[i] > f[j]
  BY <1>1 DEF Descending
<1>4. \A i, j \in 1 .. n : f[i] = f[j] => i = j
  <2> SUFFICES ASSUME NEW i \in 1 .. n, NEW j \in 1 .. n, f[i] = f[j], i # j
               PROVE  FALSE
    OBVIOUS
  <2>1. i < j \/ j < i
    BY <1>2
  <2>2. f[i] \in Int /\ f[j] \in Int
    BY <1>3
  <2> QED
    BY <1>3, <2>1, <2>2
<1>5. f \in [1 .. Cardinality(S) -> S]
      /\ \A i, j \in 1 .. Cardinality(S) : f[i] = f[j] => i = j
  BY <1>1, <1>3, <1>4
<1>6. /\ Cardinality(S) \in Nat /\ f \in Seq(S) /\ Len(f) = Cardinality(S)
      /\ DOMAIN f = 1 .. Len(f)
      /\ \A x \in S : \E i \in 1 .. Len(f) : f[i] = x
  BY <1>5, ListingIs
<1> QED
  BY <1>1, <1>4, <1>6

-----------------------------------------------------------------------------
(* Pruning.                                                                *)

LEMMA PruneIs ==
  ASSUME NEW rs
  PROVE  /\ DOMAIN Prune(rs) \subseteq DOMAIN rs
         /\ \A r \in DOMAIN rs :
              r \in DOMAIN Prune(rs) <=> Cardinality(Newer(rs, r)) < RunsKept
         /\ \A r \in DOMAIN Prune(rs) : Prune(rs)[r] = rs[r]
<1>1. PICK K : K = {r \in DOMAIN rs :
                      Cardinality({s \in DOMAIN rs : s > r /\ rs[s].task = rs[r].task}) < RunsKept}
  OBVIOUS
<1>2. Prune(rs) = Keep(rs, K)
  BY <1>1 DEF Prune
<1>3. \A r \in DOMAIN rs : r \in K <=> Cardinality(Newer(rs, r)) < RunsKept
  BY <1>1 DEF Newer
<1>4. /\ DOMAIN Keep(rs, K) = DOMAIN rs \cap K
      /\ \A y \in DOMAIN rs \cap K : Keep(rs, K)[y] = rs[y]
  BY KeepIs
<1>5. PICK qs : qs = Prune(rs)
  OBVIOUS
<1>6. DOMAIN qs = DOMAIN rs \cap K /\ \A y \in DOMAIN rs \cap K : qs[y] = rs[y]
  BY <1>2, <1>4, <1>5
<1>7. /\ DOMAIN qs \subseteq DOMAIN rs
      /\ \A r \in DOMAIN rs : r \in DOMAIN qs <=> Cardinality(Newer(rs, r)) < RunsKept
      /\ \A r \in DOMAIN qs : qs[r] = rs[r]
  BY <1>3, <1>6
<1> QED
  BY <1>5, <1>7

LEMMA NewerFinite ==
  ASSUME NEW m \in Nat, NEW rs, DOMAIN rs \subseteq 1 .. m, NEW r
  PROVE  IsFiniteSet(Newer(rs, r)) /\ Cardinality(Newer(rs, r)) \in Nat
<1>1. 1 \in Int /\ m \in Int
  OBVIOUS
<1>2. IsFiniteSet(1 .. m)
  BY ONLY <1>1, FS_Interval
<1>3. Newer(rs, r) \in SUBSET (1 .. m)
  BY DEF Newer
<1>4. IsFiniteSet(Newer(rs, r))
  BY <1>2, <1>3, FS_Subset
<1> QED
  BY <1>4, FS_CardinalityType

(* Fewer newer rows.                                                       *)
LEMMA FewerNewer ==
  ASSUME NEW m \in Nat, NEW rs, DOMAIN rs \subseteq 1 .. m, NEW r, NEW qs, NEW q,
         Newer(qs, q) \subseteq Newer(rs, r), Cardinality(Newer(rs, r)) < RunsKept
  PROVE  Cardinality(Newer(qs, q)) < RunsKept
<1>1. PICK S, T : S = Newer(rs, r) /\ T = Newer(qs, q)
  OBVIOUS
<1>2. IsFiniteSet(S) /\ Cardinality(S) \in Nat
  BY <1>1, NewerFinite
<1>3. T \in SUBSET S
  BY <1>1
<1>4. IsFiniteSet(T) /\ Cardinality(T) <= Cardinality(S)
  BY <1>2, <1>3, FS_Subset
<1>5. Cardinality(T) \in Nat
  BY <1>4, FS_CardinalityType
<1>6. RunsKept \in Nat
  BY SchedulerAssumption
<1> QED
  BY <1>1, <1>2, <1>4, <1>5, <1>6

LEMMA NoneNewer ==
  ASSUME NEW rs, NEW r, Newer(rs, r) = {}
  PROVE  Cardinality(Newer(rs, r)) < RunsKept
<1>1. Cardinality(Newer(rs, r)) = 0
  BY FS_EmptySet
<1> QED
  BY <1>1, SchedulerAssumption

LEMMA PrunePruned ==
  ASSUME NEW m \in Nat, NEW rs, DOMAIN rs \subseteq 1 .. m
  PROVE  Pruned(Prune(rs))
<1>1. PICK qs : qs = Prune(rs)
  OBVIOUS
<1>2. /\ DOMAIN qs \subseteq DOMAIN rs
      /\ \A r \in DOMAIN rs : r \in DOMAIN qs <=> Cardinality(Newer(rs, r)) < RunsKept
      /\ \A r \in DOMAIN qs : qs[r] = rs[r]
  BY <1>1, PruneIs
<1>3. ASSUME NEW r \in DOMAIN qs
      PROVE  Cardinality(Newer(qs, r)) < RunsKept
  <2>1. Newer(qs, r) \subseteq Newer(rs, r)
    BY <1>2 DEF Newer
  <2>2. Cardinality(Newer(rs, r)) < RunsKept
    BY <1>2
  <2> QED
    BY <2>1, <2>2, FewerNewer
<1> QED
  BY <1>1, <1>3 DEF Pruned

LEMMA PruneKeepsAll ==
  ASSUME NEW rs, rs = [r \in DOMAIN rs |-> rs[r]], Pruned(rs)
  PROVE  Prune(rs) = rs
<1>1. PICK qs : qs = Prune(rs)
  OBVIOUS
<1>2. DOMAIN qs = DOMAIN rs /\ \A r \in DOMAIN qs : qs[r] = rs[r]
  BY <1>1, PruneIs DEF Pruned
<1>3. qs = [r \in DOMAIN qs |-> qs[r]]
  <2>1. qs = [r \in DOMAIN rs \cap {r \in DOMAIN rs :
      Cardinality({s \in DOMAIN rs : s > r /\ rs[s].task = rs[r].task}) < RunsKept} |-> rs[r]]
    BY <1>1 DEF Prune, Keep
  <2> QED
    BY <2>1
<1> QED
  BY <1>1, <1>2, <1>3

(* The same tasks in the same rows.                                        *)
LEMMA SameTasksPruned ==
  ASSUME NEW rs, NEW qs, DOMAIN qs = DOMAIN rs, \A r \in DOMAIN rs : qs[r].task = rs[r].task,
         Pruned(rs)
  PROVE  Pruned(qs)
<1>1. \A r \in DOMAIN rs : Newer(qs, r) = Newer(rs, r)
  BY DEF Newer
<1> QED
  BY <1>1 DEF Pruned

LEMMA WithoutTaskIs ==
  ASSUME NEW m \in Nat, NEW rs, DOMAIN rs \subseteq 1 .. m, NEW t
  PROVE  /\ DOMAIN WithoutTask(rs, t) = {r \in DOMAIN rs : rs[r].task # t}
         /\ \A r \in DOMAIN WithoutTask(rs, t) : WithoutTask(rs, t)[r] = rs[r]
         /\ Pruned(rs) => Pruned(WithoutTask(rs, t))
<1>1. PICK qs : qs = WithoutTask(rs, t)
  OBVIOUS
<1>2. /\ DOMAIN qs = {r \in DOMAIN rs : rs[r].task # t}
      /\ \A r \in DOMAIN qs : qs[r] = rs[r]
  <2>1. PICK K : K = {r \in DOMAIN rs : rs[r].task # t}
    OBVIOUS
  <2>2. /\ DOMAIN Keep(rs, K) = DOMAIN rs \cap K
        /\ \A y \in DOMAIN rs \cap K : Keep(rs, K)[y] = rs[y]
    BY KeepIs
  <2>3. qs = Keep(rs, K)
    BY <1>1, <2>1 DEF WithoutTask
  <2>4. DOMAIN rs \cap K = K
    BY <2>1
  <2> QED
    BY <2>1, <2>2, <2>3, <2>4
<1>3. ASSUME Pruned(rs), NEW r \in DOMAIN qs
      PROVE  Cardinality(Newer(qs, r)) < RunsKept
  <2>1. Newer(qs, r) \subseteq Newer(rs, r)
    BY <1>2 DEF Newer
  <2>2. Cardinality(Newer(rs, r)) < RunsKept
    BY <1>2, <1>3 DEF Pruned
  <2> QED
    BY <2>1, <2>2, FewerNewer
<1> QED
  BY <1>1, <1>2, <1>3 DEF Pruned

(* Pruning before a newest row is put makes no difference after it.        *)
LEMMA PrunePut ==
  ASSUME NEW m \in Nat, NEW rs, DOMAIN rs \subseteq 1 .. m, NEW n \in Nat, n > m, NEW row
  PROVE  Prune(Put(Prune(rs), n, row)) = Prune(Put(rs, n, row))
<1>1. PICK qs, A, B : qs = Prune(rs) /\ A = Put(rs, n, row) /\ B = Put(qs, n, row)
  OBVIOUS
<1>2. /\ DOMAIN qs \subseteq DOMAIN rs
      /\ \A r \in DOMAIN rs : r \in DOMAIN qs <=> Cardinality(Newer(rs, r)) < RunsKept
      /\ \A r \in DOMAIN qs : qs[r] = rs[r]
  BY <1>1, PruneIs
<1>3. /\ DOMAIN A = DOMAIN rs \cup {n} /\ A[n] = row
      /\ \A r \in DOMAIN rs : r # n => A[r] = rs[r]
  <2>1. /\ DOMAIN Put(rs, n, row) = DOMAIN rs \cup {n}
        /\ Put(rs, n, row)[n] = row
        /\ \A y \in DOMAIN rs : y # n => Put(rs, n, row)[y] = rs[y]
    BY DEF Put
  <2> QED
    BY <1>1, <2>1
<1>4. /\ DOMAIN B = DOMAIN qs \cup {n} /\ B[n] = row
      /\ \A r \in DOMAIN qs : r # n => B[r] = qs[r]
  <2>1. /\ DOMAIN Put(qs, n, row) = DOMAIN qs \cup {n}
        /\ Put(qs, n, row)[n] = row
        /\ \A y \in DOMAIN qs : y # n => Put(qs, n, row)[y] = qs[y]
    BY DEF Put
  <2> QED
    BY <1>1, <2>1
<1>5. n \notin DOMAIN rs /\ DOMAIN A \subseteq 1 .. n /\ DOMAIN B \subseteq 1 .. n
      /\ \A r \in DOMAIN B : B[r] = A[r] /\ r \in DOMAIN A
  BY <1>2, <1>3, <1>4
<1>6. ASSUME NEW r \in DOMAIN A, Cardinality(Newer(A, r)) < RunsKept
      PROVE  r \in DOMAIN B /\ Cardinality(Newer(B, r)) < RunsKept
  <2>1. r \in DOMAIN B
    <3>1. CASE r = n
      BY <1>4, <3>1
    <3>2. CASE r # n
      <4>1. r \in DOMAIN rs
        BY <1>3, <3>2
      <4>2. Newer(rs, r) \subseteq Newer(A, r)
        BY <1>3, <1>5, <4>1 DEF Newer
      <4>3. Cardinality(Newer(rs, r)) < RunsKept
        BY <1>5, <1>6, <4>2, FewerNewer
      <4> QED
        BY <1>2, <1>4, <4>1, <4>3
    <3> QED
      BY <3>1, <3>2
  <2>2. Newer(B, r) \subseteq Newer(A, r)
    BY <1>5, <2>1 DEF Newer
  <2>3. Cardinality(Newer(B, r)) < RunsKept
    BY <1>5, <1>6, <2>2, FewerNewer
  <2> QED
    BY <2>1, <2>3
<1>7. ASSUME NEW r \in DOMAIN B, Cardinality(Newer(B, r)) < RunsKept
      PROVE  Cardinality(Newer(A, r)) < RunsKept
  <2>1. ASSUME NEW s \in Newer(A, r)
        PROVE  s \in Newer(B, r)
    <3>1. s \in DOMAIN A /\ s > r /\ A[s].task = A[r].task
      BY <2>1 DEF Newer
    <3>2. s \in DOMAIN B
      <4>1. CASE s = n
        BY <1>4, <4>1
      <4>2. CASE s # n
        <5>1. s \in DOMAIN rs /\ r \in 1 .. n /\ s \in 1 .. m
          BY <1>3, <1>5, <3>1, <4>2
        <5>2. r # n
          BY <3>1, <5>1
        <5>3. r \in DOMAIN qs /\ r \in DOMAIN rs /\ rs[s].task = rs[r].task
          BY <1>2, <1>3, <1>4, <3>1, <4>2, <5>1, <5>2
        <5>4. Newer(rs, s) \subseteq Newer(rs, r)
          <6>1. \A q \in DOMAIN rs : q \in Int
            OBVIOUS
          <6> QED
            BY <3>1, <5>1, <5>3, <6>1 DEF Newer
        <5>5. Cardinality(Newer(rs, r)) < RunsKept
          BY <1>2, <5>3
        <5>6. Cardinality(Newer(rs, s)) < RunsKept
          BY <5>4, <5>5, FewerNewer
        <5> QED
          BY <1>2, <1>4, <5>1, <5>6
      <4> QED
        BY <4>1, <4>2
    <3> QED
      BY <1>5, <3>1, <3>2 DEF Newer
  <2>2. Newer(A, r) \subseteq Newer(B, r)
    BY <2>1
  <2> QED
    BY <1>5, <1>7, <2>2, FewerNewer
<1>8. PICK PA, PB : PA = Prune(A) /\ PB = Prune(B)
  OBVIOUS
<1>9. /\ DOMAIN PA \subseteq DOMAIN A
      /\ \A r \in DOMAIN A : r \in DOMAIN PA <=> Cardinality(Newer(A, r)) < RunsKept
      /\ \A r \in DOMAIN PA : PA[r] = A[r]
  BY <1>8, PruneIs
<1>10. /\ DOMAIN PB \subseteq DOMAIN B
       /\ \A r \in DOMAIN B : r \in DOMAIN PB <=> Cardinality(Newer(B, r)) < RunsKept
       /\ \A r \in DOMAIN PB : PB[r] = B[r]
  BY <1>8, PruneIs
<1>11. DOMAIN PA = DOMAIN PB
  BY <1>5, <1>6, <1>7, <1>9, <1>10
<1>12. \A r \in DOMAIN PA : PA[r] = PB[r]
  BY <1>5, <1>9, <1>10, <1>11
<1>13. PA = [r \in DOMAIN PA |-> PA[r]] /\ PB = [r \in DOMAIN PB |-> PB[r]]
  BY <1>8 DEF Prune, Keep
<1> QED
  BY <1>1, <1>8, <1>11, <1>12, <1>13

-----------------------------------------------------------------------------
(* What the writer makes of a list of events.                              *)

LEMMA LeadsEmpty ==
  ASSUME NEW d
  PROVE  Leads(d, <<>>, d)
<1>1. PICK after : after = [k \in 0 .. 0 |-> d]
  OBVIOUS
<1>2. Writes(d, <<>>, after) /\ after[Len(<<>>)] = d
  BY <1>1 DEF Writes
<1> QED
  BY <1>2 DEF Leads

LEMMA LeadsAppend ==
  ASSUME NEW S, NEW d, NEW l \in Seq(S), NEW e, NEW ev \in S, Leads(d, l, e)
  PROVE  Leads(d, Append(l, ev), Applied(e, ev))
<1>1. PICK after : Writes(d, l, after) /\ after[Len(l)] = e
  BY DEF Leads
<1>2. PICK n, m : n = Len(l) /\ m = Append(l, ev)
  OBVIOUS
<1>3. /\ n \in Nat /\ Len(m) = n + 1 /\ m[n + 1] = ev
      /\ \A k \in 1 .. n : m[k] = l[k]
  BY <1>2
<1>4. PICK x : x = Applied(e, ev)
  OBVIOUS
<1>5. PICK next : next = [k \in 0 .. n + 1 |-> IF k = n + 1 THEN x ELSE after[k]]
  OBVIOUS
<1>6. after[0] = d /\ after[n] = e
      /\ \A k \in 1 .. n : after[k] = Applied(after[k - 1], l[k])
  BY <1>1, <1>2 DEF Writes
<1>7. DOMAIN next = 0 .. n + 1 /\ next[0] = d /\ next[n + 1] = x
      /\ \A k \in 0 .. n : next[k] = after[k]
  BY <1>3, <1>5, <1>6
<1>8. ASSUME NEW k \in 1 .. n + 1
      PROVE  next[k] = Applied(next[k - 1], m[k])
  <2>1. CASE k = n + 1
    <3>1. next[k] = x /\ next[k - 1] = e /\ m[k] = ev
      BY <1>3, <1>6, <1>7, <2>1
    <3> QED
      BY <1>4, <3>1
  <2>2. CASE k # n + 1
    <3>1. k \in 1 .. n /\ k - 1 \in 0 .. n
      BY <1>3, <2>2
    <3>2. next[k] = after[k] /\ next[k - 1] = after[k - 1] /\ m[k] = l[k]
      BY <1>3, <1>7, <3>1
    <3> QED
      BY <1>6, <3>1, <3>2
  <2> QED
    BY <2>1, <2>2
<1>9. Writes(d, m, next) /\ next[Len(m)] = x
  BY <1>3, <1>7, <1>8 DEF Writes
<1> QED
  BY <1>2, <1>4, <1>9 DEF Leads

LEMMA LeadsTail ==
  ASSUME NEW S, NEW d, NEW l \in Seq(S), NEW e, Leads(d, l, e), l # <<>>
  PROVE  Leads(Applied(d, Head(l)), Tail(l), e)
<1>1. PICK after : Writes(d, l, after) /\ after[Len(l)] = e
  BY DEF Leads
<1>2. PICK n, m : n = Len(l) /\ m = Tail(l)
  OBVIOUS
<1>3. /\ n \in Nat /\ n > 0 /\ Len(m) = n - 1 /\ Head(l) = l[1]
      /\ \A k \in 1 .. n - 1 : m[k] = l[k + 1]
  BY <1>2
<1>4. after[0] = d /\ after[n] = e
      /\ \A k \in 1 .. n : after[k] = Applied(after[k - 1], l[k])
  BY <1>1, <1>2 DEF Writes
<1>5. PICK next : next = [k \in 0 .. n - 1 |-> after[k + 1]]
  OBVIOUS
<1>6. DOMAIN next = 0 .. n - 1 /\ next[n - 1] = e
      /\ \A k \in 0 .. n - 1 : next[k] = after[k + 1]
  BY <1>3, <1>4, <1>5
<1>7. next[0] = Applied(d, Head(l))
  <2>1. next[0] = after[1] /\ 1 \in 1 .. n
    BY <1>3, <1>6
  <2>2. after[1] = Applied(after[1 - 1], l[1])
    BY <1>4, <2>1
  <2>3. 1 - 1 = 0
    OBVIOUS
  <2> QED
    BY <1>3, <1>4, <2>1, <2>2, <2>3
<1>8. ASSUME NEW k \in 1 .. n - 1
      PROVE  next[k] = Applied(next[k - 1], m[k])
  <2>1. k + 1 \in 1 .. n /\ k - 1 \in 0 .. n - 1 /\ k \in 0 .. n - 1 /\ k + 1 - 1 = k
        /\ k - 1 + 1 = k
    BY <1>3
  <2>2. next[k] = after[k + 1] /\ next[k - 1] = after[k] /\ m[k] = l[k + 1]
    <3>1. next[k - 1] = after[k - 1 + 1]
      BY <1>6, <2>1
    <3> QED
      BY <1>3, <1>6, <2>1, <3>1
  <2>3. after[k + 1] = Applied(after[k + 1 - 1], l[k + 1])
    BY <1>4, <2>1
  <2> QED
    BY <2>1, <2>2, <2>3
<1>9. Writes(Applied(d, Head(l)), m, next) /\ next[Len(m)] = e
  BY <1>3, <1>6, <1>7, <1>8 DEF Writes
<1> QED
  BY <1>2, <1>9 DEF Leads

LEMMA LeadsConcat ==
  ASSUME NEW S, NEW d, NEW l \in Seq(S), NEW x, NEW m \in Seq(S), NEW e,
         Leads(d, l, x), Leads(x, m, e)
  PROVE  Leads(d, l \o m, e)
<1>1. PICK first : Writes(d, l, first) /\ first[Len(l)] = x
  BY DEF Leads
<1>2. PICK second : Writes(x, m, second) /\ second[Len(m)] = e
  BY DEF Leads
<1>3. PICK i, j, both : i = Len(l) /\ j = Len(m) /\ both = l \o m
  OBVIOUS
<1>4. /\ i \in Nat /\ j \in Nat /\ Len(both) = i + j
      /\ \A k \in 1 .. i : both[k] = l[k]
      /\ \A k \in i + 1 .. i + j : both[k] = m[k - i]
  BY <1>3
<1>5. /\ first[0] = d /\ first[i] = x
      /\ \A k \in 1 .. i : first[k] = Applied(first[k - 1], l[k])
  BY <1>1, <1>3 DEF Writes
<1>6. /\ second[0] = x /\ second[j] = e
      /\ \A k \in 1 .. j : second[k] = Applied(second[k - 1], m[k])
  BY <1>2, <1>3 DEF Writes
<1>7. PICK next : next = [k \in 0 .. i + j |-> IF k <= i THEN first[k] ELSE second[k - i]]
  OBVIOUS
<1>8. /\ DOMAIN next = 0 .. i + j
      /\ \A k \in 0 .. i : next[k] = first[k]
      /\ \A k \in i + 1 .. i + j : next[k] = second[k - i]
  BY <1>4, <1>7
<1>9. \A k \in i .. i + j : next[k] = second[k - i]
  <2>1. ASSUME NEW k \in i .. i + j
        PROVE  next[k] = second[k - i]
    <3>1. CASE k = i
      <4>1. k - i = 0 /\ k \in 0 .. i
        BY <1>4, <3>1
      <4>2. next[k] = first[i]
        BY <1>8, <3>1, <4>1
      <4> QED
        BY <1>5, <1>6, <4>1, <4>2
    <3>2. CASE k # i
      <4>1. k \in i + 1 .. i + j
        BY <1>4, <3>2
      <4> QED
        BY <1>8, <4>1
    <3> QED
      BY <3>1, <3>2
  <2> QED
    BY <2>1
<1>10. ASSUME NEW k \in 1 .. i + j
       PROVE  next[k] = Applied(next[k - 1], both[k])
  <2>1. CASE k <= i
    <3>1. k \in 1 .. i /\ k \in 0 .. i /\ k - 1 \in 0 .. i
      BY <1>4, <2>1
    <3>2. next[k] = first[k] /\ next[k - 1] = first[k - 1] /\ both[k] = l[k]
      BY <1>4, <1>8, <3>1
    <3> QED
      BY <1>5, <3>1, <3>2
  <2>2. CASE k > i
    <3>1. k \in i + 1 .. i + j /\ k - 1 \in i .. i + j /\ k - i \in 1 .. j
          /\ k - 1 - i = k - i - 1
      BY <1>4, <2>2
    <3>2. next[k] = second[k - i] /\ both[k] = m[k - i]
      BY <1>4, <1>8, <3>1
    <3>3. next[k - 1] = second[k - i - 1]
      BY <1>9, <3>1
    <3> QED
      BY <1>6, <3>1, <3>2, <3>3
  <2> QED
    BY <1>4, <2>1, <2>2
<1>11. next[0] = d /\ next[i + j] = e
  <2>1. next[0] = first[0]
    BY <1>4, <1>8
  <2>2. next[i + j] = second[i + j - i] /\ i + j - i = j
    BY <1>4, <1>9
  <2> QED
    BY <1>5, <1>6, <2>1, <2>2
<1>12. Writes(d, both, next) /\ next[Len(both)] = e
  BY <1>4, <1>8, <1>10, <1>11 DEF Writes
<1> QED
  BY <1>3, <1>12 DEF Leads

(* Folding the events over the tables.                                     *)

LEMMA LeastNat ==
  ASSUME NEW S \in SUBSET Nat, S # {}
  PROVE  \E n \in S : \A m \in S : n <= m
<1>1. PICK Less : Less = {pair \in Nat \X Nat : pair[1] < pair[2]}
  OBVIOUS
<1>2. IsWellFoundedOn(Less, Nat)
  BY <1>1, NatLessThanWellFounded DEF OpToRel
<1>3. \A m, n \in Nat : <<m, n>> \in Less <=> m < n
  BY <1>1
<1>4. S \subseteq Nat /\ S # {}
  OBVIOUS
<1>5. \E n \in S : \A m \in S : ~(<<m, n>> \in Less)
  BY ONLY <1>2, <1>4, WFMin
<1>6. PICK n \in S : \A m \in S : ~(<<m, n>> \in Less)
  BY <1>5
<1>7. ASSUME NEW m \in S
      PROVE  n <= m
  <2>1. m \in Nat /\ n \in Nat /\ ~(<<m, n>> \in Less)
    BY <1>4, <1>6
  <2>2. <<m, n>> \in Less <=> m < n
    BY <1>3, <2>1
  <2> QED
    BY <2>1, <2>2
<1> QED
  BY <1>7

LEMMA MaxIs ==
  ASSUME NEW n \in Nat, NEW S \in SUBSET (1 .. n), S # {}
  PROVE  Max(S) \in S /\ \A y \in S : Max(S) >= y
<1>1. PICK D : D = {x \in Nat : n - x \in S}
  OBVIOUS
<1>2. \A y \in S : y \in Int /\ n - y \in Nat /\ n - (n - y) = y
  OBVIOUS
<1>3. D \in SUBSET Nat /\ \A y \in S : n - y \in D
  BY <1>1, <1>2
<1>4. D # {}
  BY <1>3
<1>5. PICK x \in D : \A y \in D : x <= y
  BY <1>3, <1>4, LeastNat
<1>6. n - x \in S /\ \A y \in S : n - x >= y
  BY <1>1, <1>2, <1>3, <1>5
<1>7. \E x0 \in S : \A y \in S : x0 >= y
  BY <1>6
<1> QED
  BY <1>7 DEF Max

Folding(it, d, l, k) ==
  it = [s \in SUBSET (1 .. k) |-> IF s = {} THEN d ELSE Applied(it[s \ {Max(s)}], l[Max(s)])]

LEMMA FoldingExists ==
  ASSUME NEW d, NEW l, NEW n \in Nat
  PROVE  \E it : Folding(it, d, l, n)
<1> DEFINE Foldable(k) == \E it : Folding(it, d, l, k)
<1>1. PICK bad : bad = {k \in Nat : ~Foldable(k)}
  OBVIOUS
<1> HIDE DEF Foldable
<1>2. SUFFICES ASSUME bad # {}
               PROVE  FALSE
  <2>1. n \notin bad
    BY <1>2
  <2> QED
    BY <1>1, <2>1 DEF Foldable
<1>3. bad \in SUBSET Nat /\ \A k \in bad : k \in Nat /\ ~Foldable(k)
  BY <1>1
<1>4. PICK k \in bad : \A m \in bad : k <= m
  BY <1>2, <1>3, LeastNat
<1>5. k \in Nat /\ ~Foldable(k)
  BY <1>3
<1>6. k # 0
  <2>1. PICK it : it = [s \in SUBSET (1 .. 0) |-> d]
    OBVIOUS
  <2>2. \A s \in SUBSET (1 .. 0) : s = {}
    OBVIOUS
  <2>3. Folding(it, d, l, 0)
    BY <2>1, <2>2 DEF Folding
  <2> QED
    BY <1>5, <2>3 DEF Foldable
<1>7. PICK i : i = k - 1
  OBVIOUS
<1>8. i \in Nat /\ k = i + 1 /\ i \notin bad
  BY <1>4, <1>5, <1>6, <1>7
<1>9. PICK it : Folding(it, d, l, i)
  BY <1>1, <1>8 DEF Foldable
<1>10. \A s \in SUBSET (1 .. i) :
         it[s] = IF s = {} THEN d ELSE Applied(it[s \ {Max(s)}], l[Max(s)])
  BY <1>9 DEF Folding
<1>11. PICK next : next = [s \in SUBSET (1 .. k) |->
                             IF k \in s THEN Applied(it[s \ {k}], l[k]) ELSE it[s]]
  OBVIOUS
<1>12. \A s \in SUBSET (1 .. k) :
         next[s] = IF k \in s THEN Applied(it[s \ {k}], l[k]) ELSE it[s]
  BY <1>11
<1>13. ASSUME NEW s \in SUBSET (1 .. k)
       PROVE  next[s] = IF s = {} THEN d ELSE Applied(next[s \ {Max(s)}], l[Max(s)])
  <2>1. CASE k \in s
    <3>1. s # {} /\ Max(s) \in s /\ \A y \in s : Max(s) >= y
      BY <1>5, <2>1, MaxIs
    <3>2. Max(s) = k
      <4>1. PICK m : m = Max(s)
        OBVIOUS
      <4>2. m \in 1 .. k /\ m >= k
        BY <2>1, <3>1, <4>1
      <4> QED
        BY <1>5, <4>1, <4>2
    <3>3. s \ {k} \in SUBSET (1 .. k) /\ k \notin s \ {k}
      OBVIOUS
    <3>4. next[s \ {k}] = it[s \ {k}] /\ next[s] = Applied(it[s \ {k}], l[k])
      BY <1>12, <2>1, <3>3
    <3> QED
      BY <3>1, <3>2, <3>4
  <2>2. CASE k \notin s
    <3>1. s \in SUBSET (1 .. i) /\ next[s] = it[s]
      BY <1>8, <1>12, <2>2
    <3>2. CASE s = {}
      BY <1>10, <3>1, <3>2
    <3>3. CASE s # {}
      <4>1. PICK m : m = Max(s)
        OBVIOUS
      <4>2. s \ {m} \in SUBSET (1 .. k) /\ k \notin s \ {m}
        BY <2>2
      <4>3. next[s \ {m}] = it[s \ {m}]
        BY <1>12, <4>2
      <4>4. it[s] = Applied(it[s \ {m}], l[m])
        BY <1>10, <3>1, <3>3, <4>1
      <4> QED
        BY <3>1, <3>3, <4>1, <4>3, <4>4
    <3> QED
      BY <3>2, <3>3
  <2> QED
    BY <2>1, <2>2
<1>14. Folding(next, d, l, k)
  <2>1. next = [s \in SUBSET (1 .. k) |-> next[s]]
    BY <1>11
  <2> QED
    BY <1>13, <2>1 DEF Folding
<1> QED
  BY <1>5, <1>14 DEF Foldable

LEMMA LeadsFold ==
  ASSUME NEW S, NEW d, NEW l \in Seq(S), NEW e, Leads(d, l, e)
  PROVE  FoldLeft(Applied, d, l) = e
<1>1. PICK n : n = Len(l)
  OBVIOUS
<1>2. n \in Nat /\ DOMAIN l = 1 .. n
  BY <1>1
<1>3. PICK some : Folding(some, d, l, n)
  BY <1>2, FoldingExists
<1>4. PICK it : Folding(it, d, l, n) /\ FoldLeft(Applied, d, l) = it[1 .. n]
  BY <1>2, <1>3 DEF FoldLeft, MapThenFoldSet, Folding
<1>5. \A s \in SUBSET (1 .. n) :
        it[s] = IF s = {} THEN d ELSE Applied(it[s \ {Max(s)}], l[Max(s)])
  BY <1>4 DEF Folding
<1>6. PICK after : Writes(d, l, after) /\ after[n] = e
  BY <1>1 DEF Leads
<1>7. after[0] = d /\ \A k \in 1 .. n : after[k] = Applied(after[k - 1], l[k])
  BY <1>1, <1>6 DEF Writes
<1>8. PICK bad : bad = {k \in 0 .. n : it[1 .. k] # after[k]}
  OBVIOUS
<1>9. ASSUME bad # {}
      PROVE  FALSE
  <2>1. bad \in SUBSET Nat /\ \A k \in bad : k \in 0 .. n /\ it[1 .. k] # after[k]
    BY <1>2, <1>8
  <2>2. PICK k \in bad : \A m \in bad : k <= m
    BY <1>9, <2>1, LeastNat
  <2>3. k \in 0 .. n /\ it[1 .. k] # after[k]
    BY <2>1
  <2>4. k # 0
    <3>1. 1 .. 0 = {} /\ 1 .. 0 \in SUBSET (1 .. n)
      OBVIOUS
    <3>2. it[1 .. 0] = d
      BY <1>5, <3>1
    <3> QED
      BY <1>7, <2>3, <3>2
  <2>5. PICK i : i = k - 1
    OBVIOUS
  <2>6. i \in 0 .. n /\ k = i + 1 /\ k \in 1 .. n /\ i \notin bad
    BY <1>2, <2>2, <2>3, <2>4, <2>5
  <2>7. it[1 .. i] = after[i]
    BY <1>8, <2>6
  <2>8. PICK s : s = 1 .. k
    OBVIOUS
  <2>9. s \in SUBSET (1 .. n) /\ s \in SUBSET (1 .. k) /\ k \in s /\ k \in Nat /\ s # {}
    <3>1. k \in Nat /\ k \in 1 .. k /\ \A x \in 1 .. k : x \in 1 .. n
      BY <1>2, <2>6
    <3> QED
      BY <2>8, <3>1
  <2>10. Max(s) \in s /\ \A y \in s : Max(s) >= y
    BY <2>9, MaxIs
  <2>11. Max(s) = k
    <3>1. PICK m : m = Max(s)
      OBVIOUS
    <3>2. m \in 1 .. k /\ m >= k
      BY <2>8, <2>9, <2>10, <3>1
    <3> QED
      BY <2>9, <3>1, <3>2
  <2>12. s \ {k} = 1 .. i
    BY <1>2, <2>6, <2>8
  <2>13. it[s] = Applied(it[s \ {k}], l[k])
    BY <1>5, <2>9, <2>11
  <2>14. after[k] = Applied(after[i], l[k])
    BY <1>7, <2>5, <2>6
  <2> QED
    BY <2>3, <2>7, <2>8, <2>12, <2>13, <2>14
<1>10. n \in 0 .. n /\ n \notin bad
  BY <1>2, <1>9
<1>11. it[1 .. n] = after[n]
  BY <1>8, <1>10
<1> QED
  BY <1>4, <1>6, <1>11

-----------------------------------------------------------------------------
(* The events of new rows.                                                 *)

LEMMA UpsertApplied ==
  ASSUME NEW T, NEW rs, NEW r, NEW row
  PROVE  Applied([tasks |-> T, runs |-> rs], UpsertRun(r, row))
           = [tasks |-> T, runs |-> Prune(Put(rs, r, row))]
BY DEF Applied, UpsertRun

LEMMA DeleteApplied ==
  ASSUME NEW T, NEW rs, NEW t
  PROVE  Applied([tasks |-> T, runs |-> rs], DeleteRuns(t))
           = [tasks |-> T, runs |-> WithoutTask(rs, t)]
BY DEF Applied, DeleteRuns

LEMMA ReplaceApplied ==
  ASSUME NEW T, NEW rs, NEW U
  PROVE  Applied([tasks |-> T, runs |-> rs], ReplaceTasks(U)) = [tasks |-> U, runs |-> rs]
BY DEF Applied, ReplaceTasks

Upserts(m, n, row) == [k \in 1 .. n |-> UpsertRun(m + k, row[k])]
With(rs, m, row, k) ==
  [r \in DOMAIN rs \cup (m + 1 .. m + k) |-> IF r > m THEN row[r - m] ELSE rs[r]]

LEMMA NewRows ==
  ASSUME NEW m \in Nat, NEW n \in Nat, NEW rs, DOMAIN rs \subseteq 1 .. m,
         rs = [r \in DOMAIN rs |-> rs[r]], Pruned(rs), NEW row, NEW T,
         NEW es, es = Upserts(m, n, row)
  PROVE  Leads([tasks |-> T, runs |-> rs], es, [tasks |-> T, runs |-> Prune(With(rs, m, row, n))])
<1>1. PICK after : after = [k \in 0 .. n |-> [tasks |-> T, runs |-> Prune(With(rs, m, row, k))]]
  OBVIOUS
<1>2. after[0] = [tasks |-> T, runs |-> rs]
  <2>1. With(rs, m, row, 0) = rs
    <3>1. DOMAIN rs \cup (m + 1 .. m + 0) = DOMAIN rs
      <4>1. m + 1 .. m + 0 = {}
        OBVIOUS
      <4> QED
        BY <4>1
    <3>2. \A r \in DOMAIN rs : ~(r > m)
      OBVIOUS
    <3> QED
      BY <3>1, <3>2 DEF With
  <2>2. Prune(rs) = rs
    BY PruneKeepsAll
  <2> QED
    BY <1>1, <2>1, <2>2
<1>3. ASSUME NEW k \in 1 .. n
      PROVE  after[k] = Applied(after[k - 1], es[k])
  <2>1. PICK i : i = k - 1
    OBVIOUS
  <2>2. i \in 0 .. n /\ k = i + 1 /\ m + i \in Nat /\ m + k \in Nat /\ m + k > m + i
        /\ k \in 0 .. n
    BY <2>1
  <2>3. PICK A, B : A = With(rs, m, row, i) /\ B = With(rs, m, row, k)
    OBVIOUS
  <2>4. DOMAIN A = DOMAIN rs \cup (m + 1 .. m + i) /\ DOMAIN A \subseteq 1 .. m + i
    BY <2>2, <2>3 DEF With
  <2>5. Prune(Put(Prune(A), m + k, row[k])) = Prune(Put(A, m + k, row[k]))
    BY <2>2, <2>4, PrunePut
  <2>6. Put(A, m + k, row[k]) = B
    <3>1. DOMAIN A \cup {m + k} = DOMAIN rs \cup (m + 1 .. m + k)
      BY <2>2, <2>4
    <3>2. ASSUME NEW r \in DOMAIN rs \cup (m + 1 .. m + k)
          PROVE  (IF r = m + k THEN row[k] ELSE A[r]) = IF r > m THEN row[r - m] ELSE rs[r]
      <4>1. CASE r = m + k
        <5>1. r > m /\ r - m = k
          BY <2>2, <4>1
        <5> QED
          BY <4>1, <5>1
      <4>2. CASE r # m + k
        <5>1. r \in DOMAIN rs \cup (m + 1 .. m + i)
          BY <2>2, <4>2
        <5> QED
          BY <2>3, <4>2, <5>1 DEF With
      <4> QED
        BY <4>1, <4>2
    <3> QED
      BY <2>3, <3>1, <3>2 DEF With, Put
  <2>7. after[k] = [tasks |-> T, runs |-> Prune(B)]
        /\ after[k - 1] = [tasks |-> T, runs |-> Prune(A)]
    BY <1>1, <2>1, <2>2, <2>3
  <2>8. es[k] = UpsertRun(m + k, row[k])
    BY DEF Upserts
  <2>9. Applied([tasks |-> T, runs |-> Prune(A)], UpsertRun(m + k, row[k]))
          = [tasks |-> T, runs |-> Prune(Put(Prune(A), m + k, row[k]))]
    <3>1. PICK P, j, x : P = Prune(A) /\ j = m + k /\ x = row[k]
      OBVIOUS
    <3>2. Applied([tasks |-> T, runs |-> P], UpsertRun(j, x))
            = [tasks |-> T, runs |-> Prune(Put(P, j, x))]
      BY UpsertApplied
    <3> QED
      BY <3>1, <3>2
  <2> QED
    BY <2>5, <2>6, <2>7, <2>8, <2>9
<1>4. Len(es) = n
  BY DEF Upserts
<1>5. Writes([tasks |-> T, runs |-> rs], es, after)
      /\ after[n] = [tasks |-> T, runs |-> Prune(With(rs, m, row, n))]
  <2>1. DOMAIN after = 0 .. n /\ n \in 0 .. n
    BY <1>1
  <2>2. after[n] = [tasks |-> T, runs |-> Prune(With(rs, m, row, n))]
    BY <1>1, <2>1
  <2> QED
    BY <1>2, <1>3, <1>4, <2>1, <2>2 DEF Writes
<1> QED
  BY <1>4, <1>5 DEF Leads

Requests(m, fs, row) == [k \in DOMAIN fs |-> FireRequest(m + k, fs[k], row[k].provider)]
FiredRows(fs, ts) ==
  [k \in DOMAIN fs |-> [task |-> fs[k], provider |-> ts[fs[k]].provider, outcome |-> "Running"]]

FiresThese(fs, n, row, rs, queue, es) ==
  /\ runs' = Prune(With(rs, minted, row, n))
  /\ pending' = queue \o Requests(minted, fs, row)
  /\ log' = es \o Upserts(minted, n, row)
  /\ minted' = minted + n
  /\ tried' = [r \in 1 .. minted + n |-> IF r > minted THEN <<>> ELSE tried[r]]

LEMMA FireAllIs ==
  ASSUME NEW fs \in Seq(Tasks), NEW ts, NEW rs, NEW queue, NEW es,
         FireAll(fs, ts, rs, queue, es),
         minted \in Nat, DOMAIN rs \subseteq 1 .. minted, DOMAIN tried = 1 .. minted,
         NEW row, row = FiredRows(fs, ts), NEW n, n = Len(fs)
  PROVE  FiresThese(fs, n, row, rs, queue, es)
<1>1. n \in Nat /\ DOMAIN fs = 1 .. n
  OBVIOUS
<1>2. PICK m : m = minted
  OBVIOUS
<1>3. PICK number : number = [k \in DOMAIN fs |-> minted + k]
  OBVIOUS
<1>4. PICK fresh : fresh = {number[k] : k \in DOMAIN fs}
  OBVIOUS
<1>5. /\ runs' = Prune([r \in DOMAIN rs \cup fresh |->
                          IF r \in fresh THEN row[r - minted] ELSE rs[r]])
      /\ pending' = queue \o [k \in DOMAIN fs |->
                                FireRequest(number[k], fs[k], row[k].provider)]
      /\ log' = es \o [k \in DOMAIN fs |-> UpsertRun(number[k], row[k])]
      /\ minted' = minted + n
      /\ tried' = [r \in DOMAIN tried \cup fresh |->
                     IF r \in fresh THEN <<>> ELSE tried[r]]
  BY <1>3, <1>4 DEF FireAll, FiredRows
<1>6. fresh = m + 1 .. m + n
  <2>1. \A k \in 1 .. n : number[k] = m + k
    BY <1>1, <1>2, <1>3
  <2>2. \A x \in m + 1 .. m + n : x - m \in 1 .. n /\ m + (x - m) = x
    BY <1>1, <1>2
  <2>3. \A k \in 1 .. n : m + k \in m + 1 .. m + n
    BY <1>1, <1>2
  <2>4. \A x \in m + 1 .. m + n : \E k \in 1 .. n : x = number[k]
    BY <2>1, <2>2
  <2>5. fresh = {number[k] : k \in 1 .. n}
    BY <1>1, <1>4
  <2> QED
    BY <2>1, <2>3, <2>4, <2>5
<1>7. [r \in DOMAIN rs \cup fresh |-> IF r \in fresh THEN row[r - minted] ELSE rs[r]]
        = With(rs, minted, row, n)
  <2>1. \A r \in DOMAIN rs \cup fresh : r \in fresh <=> r > m
    BY <1>1, <1>2, <1>6
  <2> QED
    BY <1>2, <1>6, <2>1 DEF With
<1>8. [r \in DOMAIN tried \cup fresh |-> IF r \in fresh THEN <<>> ELSE tried[r]]
        = [r \in 1 .. minted + n |-> IF r > minted THEN <<>> ELSE tried[r]]
  <2>1. DOMAIN tried \cup fresh = 1 .. m + n
    BY <1>1, <1>2, <1>6
  <2>2. \A r \in 1 .. m + n : r \in fresh <=> r > m
    BY <1>1, <1>2, <1>6
  <2> QED
    BY <1>2, <2>1, <2>2
<1>9. [k \in DOMAIN fs |-> FireRequest(number[k], fs[k], row[k].provider)]
        = Requests(minted, fs, row)
  BY <1>1, <1>3 DEF Requests
<1>10. [k \in DOMAIN fs |-> UpsertRun(number[k], row[k])] = Upserts(minted, n, row)
  BY <1>1, <1>3 DEF Upserts
<1> QED
  BY <1>5, <1>7, <1>8, <1>9, <1>10 DEF FiresThese

(* The history rs, with the rows of the tasks fs put in and pruned, is qs. *)
Extends(m, n, fs, rs, row, qs) ==
  /\ \A k \in 1 .. n : row[k] \in Row /\ row[k].task = fs[k] /\ row[k].outcome = "Running"
  /\ DOMAIN qs \subseteq 1 .. m + n /\ qs \in [DOMAIN qs -> Row]
  /\ Pruned(qs)
  /\ \A r \in DOMAIN qs : \/ r \in DOMAIN rs /\ qs[r] = rs[r]
                          \/ \E k \in 1 .. n : r = m + k /\ qs[r] = row[k]
  /\ \A k \in 1 .. n : /\ m + k \in DOMAIN qs /\ qs[m + k] = row[k]
                       /\ \A r \in DOMAIN qs : qs[r].task = fs[k] => r <= m + k
  /\ Pruned(rs) =>
       \A r \in DOMAIN rs : (\A k \in 1 .. n : fs[k] # rs[r].task) => r \in DOMAIN qs

LEMMA FiredHistory ==
  ASSUME NEW m \in Nat, NEW n \in Nat, NEW fs \in Seq(Tasks), n = Len(fs),
         \A i, j \in 1 .. n : fs[i] = fs[j] => i = j,
         NEW ts, IsTable(ts), \A k \in 1 .. n : fs[k] \in DOMAIN ts,
         NEW rs, DOMAIN rs \subseteq 1 .. m, rs \in [DOMAIN rs -> Row],
         NEW row, row = FiredRows(fs, ts), NEW qs, qs = Prune(With(rs, m, row, n))
  PROVE  Extends(m, n, fs, rs, row, qs)
<1>1. DOMAIN fs = 1 .. n /\ DOMAIN row = 1 .. n
  BY DEF FiredRows
<1>2. ASSUME NEW k \in 1 .. n
      PROVE  row[k] \in Row /\ row[k].task = fs[k] /\ row[k].outcome = "Running"
  <2>1. fs[k] \in Tasks /\ fs[k] \in DOMAIN ts
    BY <1>1
  <2>2. ts[fs[k]].provider \in Providers
    BY <2>1 DEF IsTable, Task
  <2>3. row[k] = [task |-> fs[k], provider |-> ts[fs[k]].provider, outcome |-> "Running"]
    BY <1>1 DEF FiredRows
  <2> QED
    BY <2>1, <2>2, <2>3 DEF Row, Outcomes
<1>3. PICK all : all = With(rs, m, row, n)
  OBVIOUS
<1>4. DOMAIN all = DOMAIN rs \cup (m + 1 .. m + n) /\ DOMAIN all \subseteq 1 .. m + n
  BY <1>3 DEF With
<1>5. \A r \in DOMAIN rs : all[r] = rs[r]
  BY <1>3 DEF With
<1>6. ASSUME NEW k \in 1 .. n
      PROVE  m + k \in DOMAIN all /\ all[m + k] = row[k]
  <2>1. m + k \in m + 1 .. m + n /\ m + k > m /\ m + k - m = k
    OBVIOUS
  <2> QED
    BY <1>3, <2>1 DEF With
<1>7. ASSUME NEW r \in DOMAIN all
      PROVE  \/ r \in DOMAIN rs /\ all[r] = rs[r]
             \/ \E k \in 1 .. n : r = m + k /\ all[r] = row[k]
  <2>1. CASE r \in DOMAIN rs
    BY <1>5, <2>1
  <2>2. CASE r \notin DOMAIN rs
    <3>1. r \in m + 1 .. m + n
      BY <1>4, <2>2
    <3>2. r - m \in 1 .. n /\ r = m + (r - m)
      BY <3>1
    <3>3. all[r] = row[r - m]
      BY <1>6, <3>2
    <3> QED
      BY <3>2, <3>3
  <2> QED
    BY <2>1, <2>2
<1>8. /\ DOMAIN qs \subseteq DOMAIN all
      /\ \A r \in DOMAIN all : r \in DOMAIN qs <=> Cardinality(Newer(all, r)) < RunsKept
      /\ \A r \in DOMAIN qs : qs[r] = all[r]
  BY <1>3, PruneIs
<1>9. Pruned(qs)
  <2>1. m + n \in Nat
    OBVIOUS
  <2> QED
    BY <1>3, <1>4, <2>1, PrunePruned
<1>10. ASSUME NEW k \in 1 .. n, NEW r \in DOMAIN all, all[r].task = fs[k]
       PROVE  r <= m + k
  <2>1. CASE r \in DOMAIN rs
    <3>1. r \in 1 .. m
      BY <2>1
    <3> QED
      BY <3>1
  <2>2. CASE r \notin DOMAIN rs
    <3>1. PICK j \in 1 .. n : r = m + j /\ all[r] = row[j]
      BY <1>7, <2>2
    <3>2. fs[j] = fs[k]
      BY <1>2, <1>10, <3>1
    <3> QED
      BY <3>1, <3>2
  <2> QED
    BY <2>1, <2>2
<1>11. ASSUME NEW k \in 1 .. n
       PROVE  /\ m + k \in DOMAIN qs /\ qs[m + k] = row[k]
              /\ \A r \in DOMAIN qs : qs[r].task = fs[k] => r <= m + k
  <2>1. m + k \in DOMAIN all /\ all[m + k] = row[k] /\ row[k].task = fs[k]
    BY <1>2, <1>6
  <2>2. Newer(all, m + k) = {}
    <3>1. ASSUME NEW s \in Newer(all, m + k)
          PROVE  FALSE
      <4>1. s \in DOMAIN all /\ s > m + k /\ all[s].task = fs[k]
        BY <2>1, <3>1 DEF Newer
      <4>2. s <= m + k /\ s \in 1 .. m + n
        BY <1>4, <1>10, <4>1
      <4> QED
        BY <4>1, <4>2
    <3> QED
      BY <3>1
  <2>3. Cardinality(Newer(all, m + k)) < RunsKept
    BY <2>2, NoneNewer
  <2>4. m + k \in DOMAIN qs
    BY <1>8, <2>1, <2>3
  <2> QED
    BY <1>8, <1>10, <2>1, <2>4
<1>12. ASSUME Pruned(rs), NEW r \in DOMAIN rs, \A k \in 1 .. n : fs[k] # rs[r].task
       PROVE  r \in DOMAIN qs
  <2>1. r \in DOMAIN all /\ all[r] = rs[r]
    BY <1>4, <1>5
  <2>2. Newer(all, r) \subseteq Newer(rs, r)
    <3>1. ASSUME NEW s \in Newer(all, r)
          PROVE  s \in Newer(rs, r)
      <4>1. s \in DOMAIN all /\ s > r /\ all[s].task = rs[r].task
        BY <2>1, <3>1 DEF Newer
      <4>2. s \in DOMAIN rs
        <5>1. ASSUME NEW k \in 1 .. n
              PROVE  all[s] # row[k]
          BY <1>2, <1>12, <4>1, <5>1
        <5> QED
          BY <1>7, <4>1, <5>1
      <4>3. all[s] = rs[s]
        BY <1>5, <4>2
      <4> QED
        BY <4>1, <4>2, <4>3 DEF Newer
    <3> QED
      BY <3>1
  <2>3. Cardinality(Newer(rs, r)) < RunsKept
    BY <1>12 DEF Pruned
  <2>4. Cardinality(Newer(all, r)) < RunsKept
    BY <2>2, <2>3, FewerNewer
  <2> QED
    BY <1>8, <2>1, <2>4
<1>13. qs \in [DOMAIN qs -> Row]
  <2>1. qs = [r \in DOMAIN qs |-> qs[r]]
    BY DEF Prune, Keep
  <2>2. \A r \in DOMAIN rs : rs[r] \in Row
    OBVIOUS
  <2>3. \A r \in DOMAIN qs : qs[r] \in Row
    BY <1>2, <1>7, <1>8, <2>2
  <2> QED
    BY <2>1, <2>3
<1>14. \A r \in DOMAIN qs : \/ r \in DOMAIN rs /\ qs[r] = rs[r]
                            \/ \E k \in 1 .. n : r = m + k /\ qs[r] = row[k]
  BY <1>7, <1>8
<1>15. DOMAIN qs \subseteq 1 .. m + n
  BY <1>4, <1>8
<1> QED
  BY <1>2, <1>9, <1>11, <1>12, <1>13, <1>14, <1>15 DEF Extends

(* What firing does, for the tasks fs with entries in the table ts, on the *)
(* history rs, the queue and the events es.                                *)
HistoryFired(fs, n, rs) ==
  /\ n \in Nat /\ minted \in Nat /\ minted' = minted + n /\ minted' \in Nat
  /\ tried' \in [1 .. minted' -> Seq(Attempt)]
  /\ \A r \in 1 .. minted : tried'[r] = tried[r]
  /\ \A r \in 1 .. minted' : r > minted => tried'[r] = <<>>
  /\ IsHistory(runs)' /\ Pruned(runs')
  /\ \A r \in DOMAIN runs' :
       \/ r \in DOMAIN rs /\ runs'[r] = rs[r]
       \/ \E k \in 1 .. n : r = minted + k /\ runs'[r].task = fs[k]
                            /\ runs'[r].outcome = "Running"
  /\ \A k \in 1 .. n :
       /\ minted + k \in DOMAIN runs'
       /\ runs'[minted + k].task = fs[k] /\ runs'[minted + k].outcome = "Running"
       /\ \A r \in DOMAIN runs' : runs'[r].task = fs[k] => r <= minted + k
  /\ Pruned(rs) => \A r \in DOMAIN rs :
       (\A k \in 1 .. n : fs[k] # rs[r].task) => r \in DOMAIN runs' /\ runs'[r] = rs[r]

EventsFired(fs, n, queue, es, q, e) ==
  /\ n \in Nat /\ q \in Nat /\ e \in Nat
  /\ pending' \in Seq(Fire) /\ Len(pending') = q + n
  /\ \A k \in 1 .. q : pending'[k] = queue[k]
  /\ \A k \in 1 .. n : pending'[q + k].run = minted + k /\ pending'[q + k].task = fs[k]
  /\ log' \in Seq(Event) /\ Len(log') = e + n
  /\ \A k \in 1 .. e : log'[k] = es[k]
  /\ \A k \in 1 .. n : log'[e + k].kind = "run" /\ log'[e + k].run = minted + k
                       /\ log'[e + k].row.outcome = "Running"
LEMMA FireHistory ==
  ASSUME TypeInv, NEW fs \in Seq(Tasks), NEW n, n = Len(fs),
         \A i, j \in 1 .. n : fs[i] = fs[j] => i = j,
         NEW ts, IsTable(ts), \A k \in 1 .. n : fs[k] \in DOMAIN ts,
         NEW rs, IsHistory(rs), NEW queue, NEW es, FireAll(fs, ts, rs, queue, es)
  PROVE  HistoryFired(fs, n, rs)
<1>1. PICK row : row = FiredRows(fs, ts)
  OBVIOUS
<1>2. PICK m : m = minted
  OBVIOUS
<1>3. m \in Nat /\ n \in Nat /\ DOMAIN rs \subseteq 1 .. m /\ DOMAIN tried = 1 .. m
      /\ rs \in [DOMAIN rs -> Row] /\ tried \in [1 .. m -> Seq(Attempt)]
  BY <1>2 DEF TypeInv, IsHistory
<1>4. /\ runs' = Prune(With(rs, minted, row, n))
      /\ minted' = minted + n
      /\ tried' = [r \in 1 .. minted + n |-> IF r > minted THEN <<>> ELSE tried[r]]
  <2>1. FiresThese(fs, n, row, rs, queue, es)
    BY <1>1, <1>2, <1>3, FireAllIs
  <2> QED
    BY ONLY <2>1 DEF FiresThese
<1>5. PICK qs : qs = runs'
  OBVIOUS
<1>6. qs = Prune(With(rs, m, row, n))
  BY <1>2, <1>4, <1>5
<1>7. /\ \A k \in 1 .. n : row[k] \in Row /\ row[k].task = fs[k] /\ row[k].outcome = "Running"
      /\ DOMAIN qs \subseteq 1 .. m + n /\ qs \in [DOMAIN qs -> Row]
      /\ Pruned(qs)
      /\ \A r \in DOMAIN qs : \/ r \in DOMAIN rs /\ qs[r] = rs[r]
                              \/ \E k \in 1 .. n : r = m + k /\ qs[r] = row[k]
      /\ \A k \in 1 .. n : /\ m + k \in DOMAIN qs /\ qs[m + k] = row[k]
                           /\ \A r \in DOMAIN qs : qs[r].task = fs[k] => r <= m + k
      /\ Pruned(rs) =>
           \A r \in DOMAIN rs : (\A k \in 1 .. n : fs[k] # rs[r].task) => r \in DOMAIN qs
  <2>1. Extends(m, n, fs, rs, row, qs)
    BY <1>1, <1>3, <1>6, FiredHistory
  <2> QED
    BY ONLY <2>1 DEF Extends
<1>8. minted' = m + n /\ minted' \in Nat
  BY <1>2, <1>3, <1>4
<1>9. /\ tried' \in [1 .. minted' -> Seq(Attempt)]
      /\ \A r \in 1 .. m : tried'[r] = tried[r]
      /\ \A r \in 1 .. minted' : r > m => tried'[r] = <<>>
  <2>1. tried' = [r \in 1 .. m + n |-> IF r > m THEN <<>> ELSE tried[r]]
    BY <1>2, <1>4
  <2>2. \A r \in 1 .. m : r \in 1 .. m + n /\ ~(r > m) /\ tried'[r] = tried[r]
    BY <1>3, <2>1
  <2>3. \A r \in 1 .. minted' : r > m => tried'[r] = <<>>
    BY <1>8, <2>1
  <2>4. \A r \in 1 .. m + n : ~(r > m) => r \in 1 .. m
    BY <1>3
  <2>5. <<>> \in Seq(Attempt)
    OBVIOUS
  <2>6. \A r \in 1 .. m : tried[r] \in Seq(Attempt)
    BY <1>3
  <2>7. \A r \in 1 .. m + n : (IF r > m THEN <<>> ELSE tried[r]) \in Seq(Attempt)
    BY <2>4, <2>5, <2>6
  <2> QED
    BY <1>8, <2>1, <2>2, <2>3, <2>7
<1>10. IsHistory(runs)'
  BY <1>5, <1>7, <1>8 DEF IsHistory
<1>11. /\ \A r \in DOMAIN qs :
            \/ r \in DOMAIN rs /\ qs[r] = rs[r]
            \/ \E k \in 1 .. n : r = m + k /\ qs[r].task = fs[k]
                                 /\ qs[r].outcome = "Running"
       /\ \A k \in 1 .. n :
            /\ m + k \in DOMAIN qs
            /\ qs[m + k].task = fs[k] /\ qs[m + k].outcome = "Running"
            /\ \A r \in DOMAIN qs : qs[r].task = fs[k] => r <= m + k
  BY <1>7
<1>12. Pruned(rs) => \A r \in DOMAIN rs :
         (\A k \in 1 .. n : fs[k] # rs[r].task) => r \in DOMAIN qs /\ qs[r] = rs[r]
  <2> SUFFICES ASSUME Pruned(rs), NEW r \in DOMAIN rs, \A k \in 1 .. n : fs[k] # rs[r].task
               PROVE  r \in DOMAIN qs /\ qs[r] = rs[r]
    OBVIOUS
  <2>1. r \in DOMAIN qs
    BY <1>7
  <2>2. ~ \E k \in 1 .. n : r = m + k
    BY <1>3
  <2> QED
    BY <1>7, <2>1, <2>2
<1> QED
  BY <1>2, <1>3, <1>5, <1>7, <1>8, <1>9, <1>10, <1>11, <1>12 DEF HistoryFired

LEMMA FireEvents ==
  ASSUME TypeInv, NEW fs \in Seq(Tasks), NEW n, n = Len(fs),
         \A i, j \in 1 .. n : fs[i] = fs[j] => i = j,
         NEW ts, IsTable(ts), \A k \in 1 .. n : fs[k] \in DOMAIN ts,
         NEW rs, IsHistory(rs), NEW queue \in Seq(Fire), NEW es \in Seq(Event),
         FireAll(fs, ts, rs, queue, es), NEW q, q = Len(queue), NEW e, e = Len(es)
  PROVE  /\ EventsFired(fs, n, queue, es, q, e)
         /\ \A d : Pruned(rs) /\ Leads(d, es, [tasks |-> ts, runs |-> rs])
                     => Leads(d, log', [tasks |-> ts, runs |-> runs'])
<1>1. PICK row : row = FiredRows(fs, ts)
  OBVIOUS
<1>2. PICK m : m = minted
  OBVIOUS
<1>3. m \in Nat /\ n \in Nat /\ DOMAIN rs \subseteq 1 .. m /\ DOMAIN tried = 1 .. m
      /\ rs \in [DOMAIN rs -> Row] /\ q \in Nat /\ e \in Nat
  BY <1>2 DEF TypeInv, IsHistory
<1>4. PICK fires, news : fires = Requests(m, fs, row) /\ news = Upserts(m, n, row)
  OBVIOUS
<1>5. /\ runs' = Prune(With(rs, m, row, n))
      /\ pending' = queue \o fires
      /\ log' = es \o news
  <2>1. /\ runs' = Prune(With(rs, minted, row, n))
        /\ pending' = queue \o Requests(minted, fs, row)
        /\ log' = es \o Upserts(minted, n, row)
    <3>1. FiresThese(fs, n, row, rs, queue, es)
      BY <1>1, <1>2, <1>3, FireAllIs
    <3> QED
      BY ONLY <3>1 DEF FiresThese
  <2> QED
    BY <1>2, <1>4, <2>1
<1>6. \A k \in 1 .. n : row[k] \in Row /\ row[k].task = fs[k] /\ row[k].outcome = "Running"
  <2>1. PICK qs : qs = Prune(With(rs, m, row, n))
    OBVIOUS
  <2>2. Extends(m, n, fs, rs, row, qs)
    BY <1>1, <1>3, <2>1, FiredHistory
  <2> QED
    BY ONLY <2>2 DEF Extends
<1>7. \A k \in 1 .. n : row[k].provider \in Providers /\ m + k \in Nat \ {0} /\ fs[k] \in Tasks
  BY <1>3, <1>6 DEF Row
<1>8. fires \in Seq(Fire) /\ Len(fires) = n
      /\ \A k \in 1 .. n : fires[k].run = m + k /\ fires[k].task = fs[k]
  <2>1. \A k \in 1 .. n : fires[k] \in Fire /\ fires[k].run = m + k /\ fires[k].task = fs[k]
    <3>1. DOMAIN fs = 1 .. n
      OBVIOUS
    <3>2. \A k \in 1 .. n : fires[k] = FireRequest(m + k, fs[k], row[k].provider)
      BY <1>4, <3>1 DEF Requests
    <3> TAKE k \in 1 .. n
    <3>3. PICK number, task, provider :
            number = m + k /\ task = fs[k] /\ provider = row[k].provider
      OBVIOUS
    <3>4. number \in Nat \ {0} /\ task \in Tasks /\ provider \in Providers
      BY <1>7, <3>3
    <3>5. fires[k] = [run |-> number, task |-> task, provider |-> provider]
      BY <3>2, <3>3 DEF FireRequest
    <3> QED
      BY ONLY <3>3, <3>4, <3>5 DEF Fire
  <2>2. fires \in [1 .. n -> Fire]
    <3>1. DOMAIN fires = 1 .. n /\ fires = [k \in DOMAIN fires |-> fires[k]]
      BY <1>4 DEF Requests
    <3> QED
      BY <2>1, <3>1
  <2> QED
    BY <1>3, <2>1, <2>2, ListIs
<1>9. news \in Seq(Event) /\ Len(news) = n
      /\ \A k \in 1 .. n : news[k].kind = "run" /\ news[k].run = m + k /\ news[k].row = row[k]
  <2>1. \A k \in 1 .. n : /\ news[k] \in [kind : {"run"}, run : Nat \ {0}, row : Row]
                          /\ news[k].kind = "run" /\ news[k].run = m + k /\ news[k].row = row[k]
    BY <1>4, <1>6, <1>7 DEF UpsertRun, Upserts
  <2>2. news \in [1 .. n -> Event]
    <3>1. \A k \in 1 .. n : news[k] \in Event
      BY <2>1 DEF Event
    <3> QED
      BY <1>4, <3>1 DEF Upserts
  <2>3. news \in Seq(Event) /\ Len(news) = n
    BY <1>3, <2>2, ListIs
  <2> QED
    BY <2>1, <2>3
<1>10. /\ pending' \in Seq(Fire) /\ Len(pending') = q + n
       /\ \A k \in 1 .. q : pending'[k] = queue[k]
       /\ \A k \in 1 .. n : pending'[q + k] = fires[k]
  <2>1. Joins(pending', queue, fires, q, n, Fire)
    BY <1>5, <1>8, JoinIs
  <2> QED
    BY ONLY <2>1 DEF Joins
<1>11. /\ log' \in Seq(Event) /\ Len(log') = e + n
       /\ \A k \in 1 .. e : log'[k] = es[k]
       /\ \A k \in 1 .. n : log'[e + k] = news[k]
  <2>1. Joins(log', es, news, e, n, Event)
    BY <1>5, <1>9, JoinIs
  <2> QED
    BY ONLY <2>1 DEF Joins
<1>12. ASSUME NEW d, Pruned(rs), Leads(d, es, [tasks |-> ts, runs |-> rs])
       PROVE  Leads(d, log', [tasks |-> ts, runs |-> runs'])
  <2>1. rs = [r \in DOMAIN rs |-> rs[r]]
    BY <1>3
  <2>2. PICK x, y : x = [tasks |-> ts, runs |-> rs]
                    /\ y = [tasks |-> ts, runs |-> Prune(With(rs, m, row, n))]
    OBVIOUS
  <2>3. Leads(x, news, y)
    <3>1. Leads([tasks |-> ts, runs |-> rs], news,
                [tasks |-> ts, runs |-> Prune(With(rs, m, row, n))])
      BY <1>3, <1>4, <1>12, <2>1, NewRows
    <3> QED
      BY <2>2, <3>1
  <2>4. Leads(d, es, x)
    BY <1>12, <2>2
  <2>5. Leads(d, es \o news, y)
    BY <1>9, <2>3, <2>4, LeadsConcat
  <2> QED
    BY <1>5, <2>2, <2>5
<1>13. \A k \in 1 .. n : pending'[q + k].run = m + k /\ pending'[q + k].task = fs[k]
  BY <1>8, <1>10
<1>14. \A k \in 1 .. n : log'[e + k].kind = "run" /\ log'[e + k].run = m + k
                         /\ log'[e + k].row.outcome = "Running"
  <2> TAKE k \in 1 .. n
  <2>1. log'[e + k] = news[k]
    BY <1>11
  <2>2. news[k].kind = "run" /\ news[k].run = m + k /\ news[k].row = row[k]
    BY <1>9
  <2>3. row[k].outcome = "Running"
    BY <1>6
  <2> QED
    BY ONLY <2>1, <2>2, <2>3
<1> QED
  BY <1>2, <1>3, <1>10, <1>11, <1>12, <1>13, <1>14 DEF EventsFired

-----------------------------------------------------------------------------
(* A step that fires the tasks fs keeps the invariant, when the state      *)
(* before the firing, with the history rs, the queue and the events es,    *)
(* agrees with it.                                                         *)

Newest(rs, ts, r, t) ==
  /\ t \in DOMAIN ts /\ r \in DOMAIN rs
  /\ rs[r].task = t /\ rs[r].outcome = "Running"
  /\ \A s \in DOMAIN rs : rs[s].task = t => s <= r

FiresOf(fs, n, ts) ==
  /\ n = Len(fs) /\ fs \in Seq(Tasks)
  /\ \A i, j \in 1 .. n : fs[i] = fs[j] => i = j
  /\ IsTable(ts) /\ \A k \in 1 .. n : fs[k] \in DOMAIN ts

ReadyAttempts(fs, n, ts, rs, queue, live) ==
  /\ Pruned(rs)
  /\ queue \in Seq(Fire)
  /\ \A i, j \in DOMAIN queue : queue[i].task = queue[j].task => i = j
  /\ \A i, j \in DOMAIN live : live[i].task = live[j].task => i = j
  /\ \A i \in DOMAIN queue, p \in DOMAIN live : queue[i].task # live[p].task
  /\ \A i \in DOMAIN queue, k \in 1 .. n : queue[i].task # fs[k]
  /\ \A p \in DOMAIN live, k \in 1 .. n : live[p].task # fs[k]
  /\ \A i \in DOMAIN queue : /\ Newest(rs, ts, queue[i].run, queue[i].task)
                             /\ tried[queue[i].run] = <<>>
  /\ \A p \in DOMAIN live :
       /\ Newest(rs, ts, live[p].run, live[p].task)
       /\ tried[live[p].run] # <<>> /\ EndOf(live[p].run) = "open"
       /\ live[p].attempt = 1 => Len(tried[live[p].run]) = 1

ReadyRows(rs, queue, es) ==
  /\ \A r \in DOMAIN rs :
       /\ Says(r, rs[r])
       /\ rs[r].outcome = "Running" =>
            EndOf(r) = "open" \/ \E k \in DOMAIN queue : queue[k].run = r
  /\ es \in Seq(Event)
  /\ \A k \in DOMAIN es : es[k].kind = "run" => es[k].run <= minted /\ Says(es[k].run, es[k].row)
  /\ Copies(disk.runs, es, rs)

LEMMA FireAttempts ==
  ASSUME TypeInv, AttemptInv, NEW fs, NEW n, NEW ts, FiresOf(fs, n, ts),
         NEW rs, IsHistory(rs), NEW queue, NEW es,
         ReadyAttempts(fs, n, ts, rs, queue, active'),
         HistoryFired(fs, n, rs), NEW q, q = Len(queue), NEW e, EventsFired(fs, n, queue, es, q, e),
         tasks' = ts, handing' = <<>>, ~window' => \A p \in DOMAIN panes' : panes'[p].turn = "closed"
  PROVE  AttemptsInv'
<1>1. PICK m : m = minted
  OBVIOUS
<1>2. m \in Nat /\ n \in Nat /\ q \in Nat /\ DOMAIN queue = 1 .. q /\ DOMAIN pending' = 1 .. q + n
      /\ handing' = <<>> /\ DOMAIN handing' = {}
  BY <1>1 DEF TypeInv, EventsFired, ReadyAttempts
<1>3. /\ \A k \in 1 .. q : pending'[k] = queue[k]
      /\ \A k \in 1 .. n : pending'[q + k].run = m + k /\ pending'[q + k].task = fs[k]
  BY <1>1 DEF EventsFired
<1>4. \A k \in DOMAIN pending' : k \in 1 .. q \/ \E j \in 1 .. n : k = q + j
  <2> SUFFICES ASSUME NEW k \in 1 .. q + n, k \notin 1 .. q
               PROVE  \E j \in 1 .. n : k = q + j
    BY <1>2
  <2>1. k - q \in 1 .. n /\ k = q + (k - q)
    BY <1>2
  <2> QED
    BY <2>1
<1>5. Apart'
  <2>1. ASSUME NEW i \in DOMAIN pending', NEW j \in DOMAIN pending',
               pending'[i].task = pending'[j].task
        PROVE  i = j
    <3>1. CASE i \in 1 .. q /\ j \in 1 .. q
      <4>1. queue[i].task = queue[j].task /\ i \in DOMAIN queue /\ j \in DOMAIN queue
        BY <1>2, <1>3, <2>1, <3>1
      <4> QED
        BY <4>1 DEF ReadyAttempts
    <3>2. CASE i \in 1 .. q /\ j \notin 1 .. q
      <4>1. PICK k \in 1 .. n : j = q + k
        BY <1>4, <3>2
      <4>2. queue[i].task = fs[k] /\ i \in DOMAIN queue
        BY <1>2, <1>3, <2>1, <3>2, <4>1
      <4> QED
        BY <4>2 DEF ReadyAttempts
    <3>3. CASE i \notin 1 .. q /\ j \in 1 .. q
      <4>1. PICK k \in 1 .. n : i = q + k
        BY <1>4, <3>3
      <4>2. queue[j].task = fs[k] /\ j \in DOMAIN queue
        BY <1>2, <1>3, <2>1, <3>3, <4>1
      <4> QED
        BY <4>2 DEF ReadyAttempts
    <3>4. CASE i \notin 1 .. q /\ j \notin 1 .. q
      <4>1. PICK k \in 1 .. n : i = q + k
        BY <1>4, <3>4
      <4>2. PICK l \in 1 .. n : j = q + l
        BY <1>4, <3>4
      <4>3. fs[k] = fs[l]
        BY <1>3, <2>1, <4>1, <4>2
      <4> QED
        BY <4>1, <4>2, <4>3 DEF FiresOf
    <3> QED
      BY <3>1, <3>2, <3>3, <3>4
  <2>2. ASSUME NEW i \in DOMAIN pending', NEW p \in DOMAIN active'
        PROVE  pending'[i].task # active'[p].task
    <3>1. CASE i \in 1 .. q
      BY <1>2, <1>3, <3>1 DEF ReadyAttempts
    <3>2. CASE i \notin 1 .. q
      <4>1. PICK k \in 1 .. n : i = q + k
        BY <1>4, <3>2
      <4>2. pending'[i].task = fs[k]
        BY <1>3, <4>1
      <4> QED
        BY <4>2 DEF ReadyAttempts
    <3> QED
      BY <3>1, <3>2
  <2>3. \A p, r \in DOMAIN active' : active'[p].task = active'[r].task => p = r
    BY DEF ReadyAttempts
  <2> QED
    BY <1>2, <2>1, <2>2, <2>3 DEF Apart
<1>6. ASSUME NEW r, NEW t, Newest(rs, ts, r, t), \A k \in 1 .. n : t # fs[k]
      PROVE  Newest(runs', tasks', r, t)
  <2>1. r \in DOMAIN rs /\ rs[r].task = t /\ rs[r].outcome = "Running" /\ t \in DOMAIN tasks'
        /\ \A s \in DOMAIN rs : rs[s].task = t => s <= r
    BY <1>6 DEF Newest
  <2>2. r \in DOMAIN runs' /\ runs'[r] = rs[r]
    BY <1>6, <2>1 DEF HistoryFired, ReadyAttempts
  <2>3. ASSUME NEW s \in DOMAIN runs', runs'[s].task = t
        PROVE  s <= r
    <3>1. s \in DOMAIN rs /\ runs'[s] = rs[s]
      BY <1>6, <2>3 DEF HistoryFired
    <3> QED
      BY <2>1, <2>3, <3>1
  <2> QED
    BY <2>1, <2>2, <2>3 DEF Newest
<1>7. CurrentInv'
  <2>1. ASSUME NEW p \in DOMAIN active'
        PROVE  Newest(runs', tasks', active'[p].run, active'[p].task)
    <3>1. Newest(rs, ts, active'[p].run, active'[p].task)
          /\ \A k \in 1 .. n : active'[p].task # fs[k]
      BY DEF ReadyAttempts
    <3> QED
      BY <1>6, <3>1
  <2>2. ASSUME NEW k \in DOMAIN pending'
        PROVE  Newest(runs', tasks', pending'[k].run, pending'[k].task)
    <3>1. CASE k \in 1 .. q
      <4>1. Newest(rs, ts, queue[k].run, queue[k].task)
            /\ \A j \in 1 .. n : queue[k].task # fs[j]
        BY <1>2, <3>1 DEF ReadyAttempts
      <4>2. Newest(runs', tasks', queue[k].run, queue[k].task)
        BY <1>6, <4>1
      <4> QED
        BY <1>3, <3>1, <4>2
    <3>2. CASE k \notin 1 .. q
      <4>1. PICK j \in 1 .. n : k = q + j
        BY <1>4, <3>2
      <4>2. pending'[k].run = m + j /\ pending'[k].task = fs[j]
        BY <1>3, <4>1
      <4>3. fs[j] \in DOMAIN tasks'
        BY DEF FiresOf
      <4>4. /\ m + j \in DOMAIN runs'
            /\ runs'[m + j].task = fs[j] /\ runs'[m + j].outcome = "Running"
            /\ \A r \in DOMAIN runs' : runs'[r].task = fs[j] => r <= m + j
        BY <1>1 DEF HistoryFired
      <4> QED
        BY ONLY <4>2, <4>3, <4>4 DEF Newest
    <3> QED
      BY <3>1, <3>2
  <2> QED
    BY ONLY <1>2, <2>1, <2>2 DEF CurrentInv, Current, Recordable, Newest
<1>8. WindowInv'
  BY <1>2 DEF WindowInv
<1>9. \A r \in DOMAIN rs : r \in 1 .. m /\ tried'[r] = tried[r]
  BY <1>1 DEF HistoryFired, IsHistory
<1>10. AttemptInv'
  <2>1. /\ minted' = m + n
        /\ \A r \in 1 .. m : tried'[r] = tried[r]
        /\ \A r \in 1 .. minted' : r > m => tried'[r] = <<>>
    BY <1>1 DEF HistoryFired
  <2>2. ASSUME NEW r \in 1 .. minted'
        PROVE  Len(tried'[r]) <= 2 /\ (Len(tried'[r]) = 2 => tried'[r][1].end = "failed")
    <3>1. CASE r \in 1 .. m
      BY <1>1, <2>1, <3>1 DEF AttemptInv
    <3>2. CASE r \notin 1 .. m
      <4>1. r > m
        BY <1>2, <2>1, <3>2
      <4>2. tried'[r] = <<>>
        BY <2>1, <4>1
      <4> QED
        BY <4>2
    <3> QED
      BY <3>1, <3>2
  <2>3. ASSUME NEW k \in DOMAIN pending'
        PROVE  tried'[pending'[k].run] = <<>>
    <3>1. CASE k \in 1 .. q
      <4>1. queue[k].run \in DOMAIN rs /\ tried[queue[k].run] = <<>>
        BY <1>2, <3>1 DEF ReadyAttempts, Newest
      <4> QED
        BY <1>3, <1>9, <3>1, <4>1
    <3>2. CASE k \notin 1 .. q
      <4>1. PICK j \in 1 .. n : k = q + j
        BY <1>4, <3>2
      <4>2. PICK r : r = pending'[k].run
        OBVIOUS
      <4>3. r = m + j
        BY <1>3, <4>1, <4>2
      <4>4. r \in 1 .. minted' /\ r > m
        BY <1>2, <2>1, <4>3
      <4> QED
        BY <2>1, <4>2, <4>4
    <3> QED
      BY <3>1, <3>2
  <2>4. ASSUME NEW p \in DOMAIN active'
        PROVE  /\ tried'[active'[p].run] # <<>>
               /\ Last(tried'[active'[p].run]).end = "open"
               /\ active'[p].attempt = 1 => Len(tried'[active'[p].run]) = 1
    <3>1. PICK r : r = active'[p].run
      OBVIOUS
    <3>2. /\ r \in DOMAIN rs /\ tried[r] # <<>> /\ EndOf(r) = "open"
          /\ active'[p].attempt = 1 => Len(tried[r]) = 1
      BY <3>1 DEF ReadyAttempts, Newest
    <3>3. tried'[r] = tried[r]
      BY <1>9, <3>2
    <3>4. Last(tried'[r]).end = "open"
      BY <3>2, <3>3 DEF EndOf
    <3> QED
      BY <3>1, <3>2, <3>3, <3>4
  <2> QED
    BY ONLY <1>2, <2>2, <2>3, <2>4 DEF AttemptInv, EndOf
<1> QED
  BY <1>5, <1>7, <1>8, <1>10 DEF AttemptsInv

LEMMA FireRows ==
  ASSUME TypeInv, RowInv, NEW fs, NEW n, NEW ts, NEW rs, IsHistory(rs), NEW queue \in Seq(Fire),
         NEW es, ReadyRows(rs, queue, es),
         HistoryFired(fs, n, rs), NEW q, q = Len(queue), NEW e, e = Len(es),
         EventsFired(fs, n, queue, es, q, e), disk' = disk
  PROVE  RowInv' /\ CopyInv'
<1>1. PICK m : m = minted
  OBVIOUS
<1>2. /\ m \in Nat /\ n \in Nat /\ q \in Nat /\ e \in Nat
      /\ DOMAIN queue = 1 .. q /\ DOMAIN pending' = 1 .. q + n
      /\ DOMAIN es = 1 .. e /\ DOMAIN log' = 1 .. e + n
  BY <1>1 DEF TypeInv, EventsFired, ReadyRows
<1>3. /\ \A k \in 1 .. q : pending'[k] = queue[k]
      /\ \A k \in 1 .. n : pending'[q + k].run = m + k
      /\ \A k \in 1 .. e : log'[k] = es[k]
      /\ \A k \in 1 .. n : /\ log'[e + k].run = m + k
                           /\ log'[e + k].row.outcome = "Running"
  BY <1>1 DEF EventsFired
<1>4. /\ \A r \in 1 .. m : tried'[r] = tried[r]
      /\ \A r \in DOMAIN runs' :
           \/ r \in DOMAIN rs /\ runs'[r] = rs[r]
           \/ \E k \in 1 .. n : r = m + k /\ runs'[r].outcome = "Running"
  BY <1>1 DEF HistoryFired
<1>5. /\ \A r \in DOMAIN rs : r \in 1 .. m
      /\ \A r \in DOMAIN disk.runs : r \in 1 .. m
      /\ \A k \in DOMAIN es : es[k].kind = "run" => es[k].run \in 1 .. m
  <2>1. ASSUME NEW k \in DOMAIN es, es[k].kind = "run"
        PROVE  es[k].run \in 1 .. m
    <3>1. es[k] \in Event /\ es[k].run <= m
      BY <1>1, <1>2, <2>1 DEF ReadyRows
    <3>2. es[k].run \in Nat \ {0}
      BY <2>1, <3>1 DEF Event
    <3> QED
      BY <1>2, <3>1, <3>2
  <2> QED
    BY <1>1, <2>1 DEF TypeInv, IsHistory
<1>6. \A k \in DOMAIN log' : k \in 1 .. e \/ \E j \in 1 .. n : k = e + j
  <2> SUFFICES ASSUME NEW k \in 1 .. e + n, k \notin 1 .. e
               PROVE  \E j \in 1 .. n : k = e + j
    BY <1>2
  <2>1. k - e \in 1 .. n /\ k = e + (k - e)
    BY <1>2
  <2> QED
    BY <2>1
<1>7. ASSUME NEW r \in 1 .. m, NEW row, Says(r, row)
      PROVE  Says(r, row)'
  <2>1. tried'[r] = tried[r]
    BY <1>4
  <2> QED
    BY <1>7, <2>1 DEF Says, EndOf
<1>8. ASSUME NEW r, NEW row, row.outcome = "Running"
      PROVE  Says(r, row)'
  BY <1>8 DEF Says
<1>9. RowInv'
  <2>1. ASSUME NEW r \in DOMAIN runs'
        PROVE  /\ Says(r, runs[r])'
               /\ runs'[r].outcome = "Running" =>
                    EndOf(r)' = "open" \/ \E k \in DOMAIN pending' : pending'[k].run = r
    <3>1. PICK row : row = runs'[r]
      OBVIOUS
    <3>2. CASE r \in DOMAIN rs /\ row = rs[r]
      <4>1. /\ Says(r, row)
            /\ row.outcome = "Running" =>
                 EndOf(r) = "open" \/ \E k \in DOMAIN queue : queue[k].run = r
        BY <3>2 DEF ReadyRows
      <4>2. Says(r, row)' /\ tried'[r] = tried[r]
        BY <1>4, <1>5, <1>7, <3>2, <4>1
      <4>3. EndOf(r)' = EndOf(r)
        BY <4>2 DEF EndOf
      <4>4. Says(r, runs[r])'
        BY <3>1, <4>2 DEF Says
      <4>5. ASSUME NEW k \in DOMAIN queue
            PROVE  k \in DOMAIN pending' /\ pending'[k].run = queue[k].run
        BY <1>2, <1>3
      <4> QED
        BY <3>1, <4>1, <4>3, <4>4, <4>5
    <3>3. CASE \E k \in 1 .. n : r = m + k /\ row.outcome = "Running"
      <4>1. PICK k \in 1 .. n : r = m + k /\ row.outcome = "Running"
        BY <3>3
      <4>2. q + k \in DOMAIN pending' /\ pending'[q + k].run = r
        BY <1>2, <1>3, <4>1
      <4>3. Says(r, runs[r])'
        BY <3>1, <4>1 DEF Says
      <4> QED
        BY <4>2, <4>3
    <3> QED
      BY <1>4, <3>1, <3>2, <3>3
  <2>2. ASSUME NEW r \in DOMAIN disk'.runs
        PROVE  Says(r, disk.runs[r])'
    <3>1. r \in DOMAIN disk.runs /\ r \in 1 .. m /\ disk'.runs[r] = disk.runs[r]
      BY <1>5
    <3>2. Says(r, disk.runs[r])
      BY <3>1 DEF RowInv
    <3>3. PICK row : row = disk.runs[r]
      OBVIOUS
    <3>4. Says(r, row)'
      BY <1>7, <3>1, <3>2, <3>3
    <3> QED
      BY <3>1, <3>3, <3>4 DEF Says
  <2>3. ASSUME NEW k \in DOMAIN log', log'[k].kind = "run"
        PROVE  Says(log[k].run, log[k].row)'
    <3>1. PICK r, row : r = log'[k].run /\ row = log'[k].row
      OBVIOUS
    <3>2. Says(r, row)'
      <4>1. CASE k \in 1 .. e
        <5>1. k \in DOMAIN es /\ log'[k] = es[k]
          BY <1>2, <1>3, <4>1
        <5>2. Says(r, row) /\ r \in 1 .. m
          BY <1>5, <2>3, <3>1, <5>1 DEF ReadyRows
        <5> QED
          BY <1>7, <5>2
      <4>2. CASE k \notin 1 .. e
        <5>1. PICK j \in 1 .. n : k = e + j
          BY <1>6, <4>2
        <5>2. row.outcome = "Running"
          BY <1>3, <3>1, <5>1
        <5> QED
          BY <1>8, <5>2
      <4> QED
        BY <4>1, <4>2
    <3> QED
      BY <3>1, <3>2 DEF Says
  <2> QED
    BY <2>1, <2>2, <2>3 DEF RowInv, Waiting
<1>10. Copies(disk.runs, log', runs')
  <2>1. Copies(disk.runs, es, rs)
    BY DEF ReadyRows
  <2>2. ASSUME NEW r \in DOMAIN disk.runs, r \in DOMAIN runs'
        PROVE  Agree(disk.runs[r], runs'[r])
    <3>1. r \in 1 .. m
      BY <1>5
    <3>2. r \in DOMAIN rs /\ runs'[r] = rs[r]
      <4>1. ~ \E k \in 1 .. n : r = m + k
        BY <1>2, <3>1
      <4> QED
        BY <1>4, <2>2, <4>1
    <3> QED
      BY <2>1, <3>2 DEF Copies
  <2>3. ASSUME NEW k \in DOMAIN log', log'[k].kind = "run"
        PROVE  \/ k \in DOMAIN es /\ log'[k] = es[k] /\ es[k].kind = "run"
                  /\ log'[k].run \in 1 .. m
               \/ log'[k].row.outcome = "Running" /\ log'[k].run > m /\ k > e
    <3>1. CASE k \in 1 .. e
      BY <1>2, <1>3, <1>5, <2>3, <3>1
    <3>2. CASE k \notin 1 .. e
      <4>1. PICK j \in 1 .. n : k = e + j
        BY <1>6, <3>2
      <4> QED
        BY <1>2, <1>3, <4>1
    <3> QED
      BY <3>1, <3>2
  <2>4. ASSUME NEW r \in DOMAIN disk.runs, NEW k \in DOMAIN log',
               log'[k].kind = "run", log'[k].run = r
        PROVE  Agree(disk.runs[r], log'[k].row)
    <3>1. r \in 1 .. m
      BY <1>5
    <3>2. k \in DOMAIN es /\ log'[k] = es[k]
      BY <1>2, <2>3, <2>4, <3>1
    <3> QED
      BY <2>1, <2>4, <3>2 DEF Copies
  <2>5. ASSUME NEW k \in DOMAIN log', log'[k].kind = "run"
        PROVE  /\ log'[k].run \in DOMAIN runs' => Agree(log'[k].row, runs'[log'[k].run])
               /\ \A l \in DOMAIN log' :
                    k < l /\ log'[l].kind = "run" /\ log'[l].run = log'[k].run =>
                      Agree(log'[k].row, log'[l].row)
    <3>1. CASE log'[k].row.outcome = "Running"
      BY <3>1 DEF Agree
    <3>2. CASE k \in DOMAIN es /\ log'[k] = es[k] /\ es[k].kind = "run"
               /\ log'[k].run \in 1 .. m
      <4>1. PICK r : r = es[k].run
        OBVIOUS
      <4>2. ASSUME r \in DOMAIN runs'
            PROVE  Agree(es[k].row, runs'[r])
        <5>1. ~ \E j \in 1 .. n : r = m + j
          BY <1>2, <3>2, <4>1
        <5>2. r \in DOMAIN rs /\ runs'[r] = rs[r]
          BY <1>4, <4>2, <5>1
        <5> QED
          BY <2>1, <3>2, <4>1, <5>2 DEF Copies
      <4>3. ASSUME NEW l \in DOMAIN log', k < l, log'[l].kind = "run", log'[l].run = r
            PROVE  Agree(es[k].row, log'[l].row)
        <5>1. l \in DOMAIN es /\ log'[l] = es[l]
          BY <1>2, <2>3, <3>2, <4>1, <4>3
        <5> QED
          BY <2>1, <3>2, <4>1, <4>3, <5>1 DEF Copies
      <4> QED
        BY <3>2, <4>1, <4>2, <4>3
    <3> QED
      BY <2>3, <2>5, <3>1, <3>2
  <2> QED
    BY <2>2, <2>4, <2>5 DEF Copies
<1> QED
  BY <1>9, <1>10 DEF CopyInv

LEMMA FireStep ==
  ASSUME Inv, NEW fs, NEW n, NEW ts, FiresOf(fs, n, ts), NEW rs, IsHistory(rs), NEW queue, NEW es,
         FireAll(fs, ts, rs, queue, es),
         ReadyAttempts(fs, n, ts, rs, queue, active'), ReadyRows(rs, queue, es),
         Leads(disk, es, [tasks |-> ts, runs |-> rs]),
         tasks' = ts, handing' = <<>>, disk' = disk, now' = now, announced' \in BOOLEAN,
         panes' \in Seq(PaneState), window' \in BOOLEAN, clicks' \in Nat, launches' \in Nat,
         DOMAIN active' \subseteq DOMAIN panes',
         \A p \in DOMAIN active' :
           active'[p] \in [run : 1 .. minted, task : Tasks, attempt : {1, 2}],
         ~window' => \A p \in DOMAIN panes' : panes'[p].turn = "closed"
  PROVE  Inv'
<1>1. TypeInv /\ AttemptInv /\ RowInv /\ Pruned(disk.runs)
  BY DEF Inv, AttemptsInv, MirrorInv
<1>2. PICK q, e : q = Len(queue) /\ e = Len(es)
  OBVIOUS
<1>3. /\ fs \in Seq(Tasks) /\ n = Len(fs) /\ IsTable(ts)
      /\ \A i, j \in 1 .. n : fs[i] = fs[j] => i = j
      /\ \A k \in 1 .. n : fs[k] \in DOMAIN ts
      /\ queue \in Seq(Fire) /\ es \in Seq(Event) /\ Pruned(rs)
  BY DEF FiresOf, ReadyAttempts, ReadyRows
<1>4. HistoryFired(fs, n, rs)
  BY <1>1, <1>3, FireHistory
<1>5. /\ EventsFired(fs, n, queue, es, q, e)
      /\ \A d : Pruned(rs) /\ Leads(d, es, [tasks |-> ts, runs |-> rs])
                  => Leads(d, log', [tasks |-> ts, runs |-> runs'])
  BY <1>1, <1>2, <1>3, FireEvents
<1>6. AttemptsInv'
  BY <1>1, <1>2, <1>4, <1>5, FireAttempts
<1>7. RowInv' /\ CopyInv'
  BY <1>1, <1>2, <1>3, <1>4, <1>5, FireRows
<1>8. MirrorInv'
  <2>1. Leads(disk, log', [tasks |-> ts, runs |-> runs'])
    BY <1>3, <1>5
  <2>2. Pruned(runs')
    BY <1>4 DEF HistoryFired
  <2> QED
    BY <1>1, <2>1, <2>2 DEF MirrorInv
<1>9. PICK m : m = minted
  OBVIOUS
<1>10. /\ m \in Nat /\ n \in Nat /\ minted' = m + n /\ minted' \in Nat
       /\ tried' \in [1 .. minted' -> Seq(Attempt)] /\ IsHistory(runs)'
  BY <1>9, <1>4 DEF HistoryFired
<1>11. log' \in Seq(Event) /\ pending' \in Seq(Fire)
  BY <1>5 DEF EventsFired
<1>12. \A k \in DOMAIN log' : log'[k].kind = "run" => log'[k].run <= minted'
  <2>1. /\ e \in Nat /\ Len(log') = e + n /\ DOMAIN es = 1 .. e /\ DOMAIN log' = 1 .. e + n
        /\ \A k \in 1 .. e : log'[k] = es[k]
        /\ \A k \in 1 .. n : log'[e + k].run = m + k
    BY <1>2, <1>3, <1>5, <1>9, <1>11 DEF EventsFired
  <2>2. ASSUME NEW k \in DOMAIN log', log'[k].kind = "run"
        PROVE  log'[k].run <= minted'
    <3>1. CASE k \in 1 .. e
      <4>1. es[k].kind = "run" /\ k \in DOMAIN es /\ log'[k].run = es[k].run
        BY <2>1, <2>2, <3>1
      <4>2. es[k].run <= m
        BY <1>9, <4>1 DEF ReadyRows
      <4>3. es[k].run \in Nat
        BY <1>3, <4>1 DEF Event
      <4> QED
        BY <1>10, <4>1, <4>2, <4>3
    <3>2. CASE k \notin 1 .. e
      <4>1. PICK j : j = k - e
        OBVIOUS
      <4>2. j \in 1 .. n /\ k = e + j
        <5>1. k \in 1 .. e + n /\ e \in Nat /\ n \in Nat
          BY <1>10, <2>1
        <5> QED
          BY ONLY <3>2, <4>1, <5>1
      <4>3. log'[k].run = m + j
        BY <2>1, <4>2
      <4> QED
        BY <1>10, <4>2, <4>3
    <3> QED
      BY <3>1, <3>2
  <2> QED
    BY <2>2
<1>13. \A p \in DOMAIN active' :
         active'[p] \in [run : 1 .. minted', task : Tasks, attempt : {1, 2}]
  <2>1. \A x \in 1 .. m : x \in 1 .. minted'
    BY <1>10
  <2>2. ASSUME NEW p \in DOMAIN active'
        PROVE  active'[p] \in [run : 1 .. minted', task : Tasks, attempt : {1, 2}]
    <3>1. active'[p] \in [run : 1 .. m, task : Tasks, attempt : {1, 2}]
      BY <1>9
    <3> QED
      BY <2>1, <3>1
  <2> QED
    BY <2>2
<1>14. /\ IsTable(disk.tasks) /\ IsHistory(disk.runs)' /\ now \in Nat
       /\ disk = [tasks |-> disk.tasks, runs |-> disk.runs]
  BY <1>1, <1>9, <1>10 DEF TypeInv, IsHistory
<1>15. TypeInv'
  <2>1. IsTable(disk.tasks)' /\ IsTable(tasks)' /\ handing' \in Seq(Fire) /\ now' \in Nat
    BY <1>3, <1>14 DEF IsTable
  <2> QED
    BY <1>10, <1>11, <1>12, <1>13, <1>14, <2>1 DEF TypeInv
<1> QED
  BY <1>6, <1>7, <1>8, <1>15 DEF Inv

-----------------------------------------------------------------------------
(* The steps that fire: Run now, the tick and the start of the program.    *)

LEMMA ReadyNow ==
  ASSUME Inv, Idle, NEW fs, NEW n, NEW ts, DOMAIN ts = DOMAIN tasks,
         \A k \in 1 .. n : ~IsRunning(fs[k])
  PROVE  ReadyAttempts(fs, n, ts, runs, pending, active) /\ ReadyRows(runs, pending, log)
<1>1. /\ Pruned(runs) /\ Apart /\ CurrentInv /\ AttemptInv /\ RowInv /\ CopyInv /\ TypeInv
      /\ ~announced /\ handing = <<>>
  BY DEF Inv, AttemptsInv, MirrorInv, Idle
<1>2. ASSUME NEW r, NEW t, Current(r, t)
      PROVE  Newest(runs, ts, r, t)
  BY <1>2 DEF Current, Recordable, Newest
<1>3. /\ \A i \in DOMAIN pending, k \in 1 .. n : pending[i].task # fs[k]
      /\ \A p \in DOMAIN active, k \in 1 .. n : active[p].task # fs[k]
  BY DEF IsRunning
<1>4. \A i \in DOMAIN pending : /\ Newest(runs, ts, pending[i].run, pending[i].task)
                                /\ tried[pending[i].run] = <<>>
  BY <1>1, <1>2 DEF CurrentInv, AttemptInv
<1>5. \A p \in DOMAIN active :
        /\ Newest(runs, ts, active[p].run, active[p].task)
        /\ tried[active[p].run] # <<>> /\ EndOf(active[p].run) = "open"
        /\ active[p].attempt = 1 => Len(tried[active[p].run]) = 1
  BY <1>1, <1>2 DEF CurrentInv, AttemptInv
<1>6. ReadyAttempts(fs, n, ts, runs, pending, active)
  BY <1>1, <1>3, <1>4, <1>5 DEF ReadyAttempts, Apart, TypeInv
<1>7. ASSUME NEW r \in DOMAIN runs
      PROVE  /\ Says(r, runs[r])
             /\ runs[r].outcome = "Running" =>
                  EndOf(r) = "open" \/ \E k \in DOMAIN pending : pending[k].run = r
  <2>1. DOMAIN handing = {}
    BY <1>1
  <2> QED
    BY <1>1, <2>1 DEF RowInv, Waiting
<1>8. ReadyRows(runs, pending, log)
  BY <1>1, <1>7 DEF ReadyRows, TypeInv, RowInv, CopyInv
<1> QED
  BY <1>6, <1>8

LEMMA TableEvent ==
  ASSUME NEW ts, IsTable(ts)
  PROVE  ReplaceTasks(ts) \in Event /\ ReplaceTasks(ts).kind = "tasks"
<1>1. ts \in [DOMAIN ts -> Task] /\ DOMAIN ts \in SUBSET Tasks
  BY DEF IsTable
<1>2. ts \in Table
  BY <1>1 DEF Table
<1> QED
  BY <1>2 DEF ReplaceTasks, Event

LEMMA DeleteEvent ==
  ASSUME NEW t \in Tasks
  PROVE  DeleteRuns(t) \in Event /\ DeleteRuns(t).kind = "delete"
BY DEF DeleteRuns, Event

(* An event that is about no row, after the others.                        *)
LEMMA RowsThenOther ==
  ASSUME NEW rs, NEW queue, NEW es, ReadyRows(rs, queue, es), NEW ev \in Event, ev.kind # "run"
  PROVE  ReadyRows(rs, queue, Append(es, ev))
<1>1. ev \in Event /\ ev.kind # "run"
  OBVIOUS
<1>2. PICK n, fs : n = Len(es) /\ fs = Append(es, ev)
  OBVIOUS
<1>3. es \in Seq(Event)
  BY DEF ReadyRows
<1>4. /\ n \in Nat /\ fs \in Seq(Event) /\ DOMAIN es = 1 .. n /\ DOMAIN fs = 1 .. n + 1
      /\ fs[n + 1] = ev
      /\ \A k \in 1 .. n : fs[k] = es[k]
  BY <1>1, <1>2, <1>3
<1>5. \A k \in DOMAIN fs : fs[k].kind = "run" => k \in DOMAIN es /\ fs[k] = es[k]
  <2> SUFFICES ASSUME NEW k \in 1 .. n + 1, fs[k].kind = "run"
               PROVE  k \in 1 .. n
    BY <1>4
  <2>1. k # n + 1
    BY <1>1, <1>4
  <2> QED
    BY <1>4, <2>1
<1>6. Copies(disk.runs, fs, rs)
  <2>1. Copies(disk.runs, es, rs)
    BY DEF ReadyRows
  <2> QED
    BY <1>5, <2>1 DEF Copies
<1>7. \A k \in DOMAIN fs : fs[k].kind = "run" => fs[k].run <= minted /\ Says(fs[k].run, fs[k].row)
  BY <1>5 DEF ReadyRows
<1>8. ReadyRows(rs, queue, fs)
  BY <1>4, <1>6, <1>7 DEF ReadyRows
<1> QED
  BY <1>2, <1>8

LEMMA RunNowKeeps ==
  ASSUME Inv, NEW t, RunNow(t)
  PROVE  Inv'
<1>1. /\ Idle /\ clicks \in Nat /\ clicks' \in Nat /\ t \in DOMAIN tasks /\ ~IsRunning(t)
      /\ FireAll(<<t>>, tasks, runs, pending, log)
      /\ announced' = TRUE
      /\ now' = now /\ tasks' = tasks /\ active' = active /\ handing' = handing
      /\ panes' = panes /\ window' = window /\ disk' = disk /\ launches' = launches
  BY DEF RunNow, Click, Outside, Inv, TypeInv
<1>2. TypeInv /\ WindowInv /\ handing = <<>>
      /\ Leads(disk, log, [tasks |-> tasks, runs |-> runs])
  BY <1>1 DEF Inv, AttemptsInv, MirrorInv, Idle
<1>3. PICK fs : fs = <<t>>
  OBVIOUS
<1>4. t \in Tasks
  BY <1>1, <1>2 DEF TypeInv, IsTable
<1>5. fs \in Seq(Tasks) /\ Len(fs) = 1 /\ \A k \in 1 .. 1 : fs[k] = t
  BY <1>3, <1>4
<1>6. FiresOf(fs, 1, tasks)
  <2>1. IsTable(tasks)
    BY <1>2 DEF TypeInv
  <2> QED
    BY <1>1, <1>5, <2>1 DEF FiresOf
<1>7. \A k \in 1 .. 1 : ~IsRunning(fs[k])
  BY <1>1, <1>5
<1>8. ReadyAttempts(fs, 1, tasks, runs, pending, active') /\ ReadyRows(runs, pending, log)
  BY <1>1, <1>7, ReadyNow
<1>9. FireAll(fs, tasks, runs, pending, log)
  BY <1>1, <1>3
<1>10. /\ IsHistory(runs) /\ panes' \in Seq(PaneState) /\ window' \in BOOLEAN /\ launches' \in Nat
       /\ DOMAIN active' \subseteq DOMAIN panes'
       /\ \A p \in DOMAIN active' :
            active'[p] \in [run : 1 .. minted, task : Tasks, attempt : {1, 2}]
       /\ ~window' => \A p \in DOMAIN panes' : panes'[p].turn = "closed"
       /\ handing' = <<>> /\ announced' \in BOOLEAN
  BY <1>1, <1>2 DEF TypeInv, WindowInv
<1> QED
  BY <1>1, <1>2, <1>6, <1>8, <1>9, <1>10, FireStep

LEMMA TickKeeps ==
  ASSUME Inv, Tick
  PROVE  Inv'
<1>1. PICK due : due = {t \in DOMAIN tasks : tasks[t].enabled /\ tasks[t].next \in 1 .. now}
  OBVIOUS
<1>2. PICK ts : ts = [t \in DOMAIN tasks |->
                        IF t \in due THEN [tasks[t] EXCEPT !.next = NextRunAfter(now)]
                        ELSE tasks[t]]
  OBVIOUS
<1>3. PICK S : S = {t \in due : ~IsRunning(t)}
  OBVIOUS
<1>4. PICK es : es = IF due = {} THEN log ELSE Append(log, ReplaceTasks(ts))
  OBVIOUS
<1>5. PICK fs \in Ascending(S) : FireAll(fs, ts, runs, pending, es) /\ announced' = Reannounce(fs)
  BY <1>1, <1>2, <1>3, <1>4 DEF Tick
<1>6. /\ Idle /\ tasks' = ts
      /\ now' = now /\ active' = active /\ handing' = handing /\ clicks' = clicks
      /\ panes' = panes /\ window' = window /\ disk' = disk /\ launches' = launches
  BY <1>1, <1>2 DEF Tick
<1>7. TypeInv /\ WindowInv /\ handing = <<>>
      /\ Leads(disk, log, [tasks |-> tasks, runs |-> runs])
  BY <1>6 DEF Inv, AttemptsInv, MirrorInv, Idle
<1>8. IsTable(ts) /\ DOMAIN ts = DOMAIN tasks
  <2>1. ASSUME NEW t \in DOMAIN tasks
        PROVE  ts[t] \in Task
    <3>1. tasks[t] \in Task /\ now + 1 \in Nat
      BY <1>7 DEF TypeInv, IsTable
    <3> QED
      BY <1>2, <3>1 DEF Task, NextRunAfter
  <2> QED
    BY <1>2, <1>7, <2>1 DEF TypeInv, IsTable
<1>9. S \in SUBSET Int /\ IsFiniteSet(S) /\ S \subseteq Tasks /\ S \subseteq DOMAIN tasks
  <2>1. S \subseteq Tasks /\ S \subseteq DOMAIN tasks
    BY <1>1, <1>3, <1>7 DEF TypeInv, IsTable
  <2>2. IsFiniteSet(S)
    BY <2>1, FS_Subset, SchedulerAssumption
  <2> QED
    BY <2>1, <2>2, SchedulerAssumption
<1>10. PICK n : n = Len(fs)
  OBVIOUS
<1>11. /\ fs \in Seq(S) /\ n \in Nat /\ DOMAIN fs = 1 .. n
       /\ \A i, j \in 1 .. n : fs[i] = fs[j] => i = j
  BY <1>5, <1>9, <1>10, AscendingIs
<1>12. \A k \in 1 .. n : fs[k] \in S
  BY <1>10, <1>11
<1>13. FiresOf(fs, n, ts)
  <2>1. fs \in Seq(S) /\ S \subseteq Tasks
    BY <1>9, <1>11
  <2>2. fs \in Seq(Tasks)
    BY ONLY <2>1, SeqMonotonic
  <2> QED
    BY <1>8, <1>9, <1>10, <1>11, <1>12, <2>2 DEF FiresOf
<1>14. \A k \in 1 .. n : ~IsRunning(fs[k])
  BY <1>3, <1>12
<1>15. ReadyAttempts(fs, n, ts, runs, pending, active') /\ ReadyRows(runs, pending, log)
  BY <1>6, <1>8, <1>14, ReadyNow
<1>16. ReadyRows(runs, pending, es) /\ Leads(disk, es, [tasks |-> ts, runs |-> runs])
  <2>1. CASE due = {}
    <3>1. ts = tasks
      <4>1. tasks = [t \in DOMAIN tasks |-> tasks[t]]
        BY <1>7 DEF TypeInv, IsTable
      <4> QED
        BY <1>2, <2>1, <4>1
    <3> QED
      BY <1>4, <1>7, <1>15, <2>1, <3>1
  <2>2. CASE due # {}
    <3>1. PICK ev, x : ev = ReplaceTasks(ts) /\ x = [tasks |-> tasks, runs |-> runs]
      OBVIOUS
    <3>2. ev \in Event /\ log \in Seq(Event) /\ Leads(disk, log, x)
      BY <1>7, <1>8, <3>1, TableEvent DEF TypeInv
    <3>3. Leads(disk, Append(log, ev), Applied(x, ev))
      BY <3>2, LeadsAppend
    <3>4. Applied(x, ev) = [tasks |-> ts, runs |-> runs]
      BY <3>1, ReplaceApplied
    <3>5. ReadyRows(runs, pending, Append(log, ev))
      <4>1. ev.kind # "run"
        BY <1>8, <3>1, TableEvent
      <4> QED
        BY <1>15, <3>2, <4>1, RowsThenOther
    <3> QED
      BY <1>4, <2>2, <3>1, <3>3, <3>4, <3>5
  <2> QED
    BY <2>1, <2>2
<1>17. /\ IsHistory(runs) /\ panes' \in Seq(PaneState) /\ window' \in BOOLEAN /\ launches' \in Nat
       /\ DOMAIN active' \subseteq DOMAIN panes' /\ clicks' \in Nat
       /\ \A p \in DOMAIN active' :
            active'[p] \in [run : 1 .. minted, task : Tasks, attempt : {1, 2}]
       /\ ~window' => \A p \in DOMAIN panes' : panes'[p].turn = "closed"
  BY <1>6, <1>7 DEF TypeInv, WindowInv
<1>18. handing' = <<>> /\ announced' \in BOOLEAN
  BY <1>5, <1>6, <1>7 DEF Reannounce
<1> QED
  BY <1>5, <1>6, <1>13, <1>15, <1>16, <1>17, <1>18, FireStep

(* The run history of a program that has just started.                     *)
Interrupted(rs) ==
  [r \in DOMAIN rs |-> IF rs[r].outcome = "Running" THEN [rs[r] EXCEPT !.outcome = "Error"]
                       ELSE rs[r]]

LEMMA InterruptedIs ==
  ASSUME NEW rs, IsHistory(rs), NEW qs, qs = Interrupted(rs)
  PROVE  /\ IsHistory(qs) /\ DOMAIN qs = DOMAIN rs
         /\ \A r \in DOMAIN rs : /\ qs[r].task = rs[r].task
                                 /\ qs[r].outcome # "Running" /\ Agree(rs[r], qs[r])
                                 /\ rs[r].outcome # "Running" => qs[r] = rs[r]
                                 /\ rs[r].outcome = "Running" => qs[r].outcome = "Error"
<1>1. DOMAIN qs = DOMAIN rs
  BY DEF Interrupted
<1>2. ASSUME NEW r \in DOMAIN rs
      PROVE  /\ qs[r] \in Row /\ qs[r].task = rs[r].task
             /\ qs[r].outcome # "Running" /\ Agree(rs[r], qs[r])
             /\ rs[r].outcome # "Running" => qs[r] = rs[r]
             /\ rs[r].outcome = "Running" => qs[r].outcome = "Error"
  <2>1. rs[r] \in Row
    BY DEF IsHistory
  <2>2. qs[r] = IF rs[r].outcome = "Running" THEN [rs[r] EXCEPT !.outcome = "Error"] ELSE rs[r]
    BY DEF Interrupted
  <2> QED
    BY <2>1, <2>2 DEF Row, Outcomes, Agree
<1>3. qs \in [DOMAIN qs -> Row]
  BY <1>1, <1>2 DEF Interrupted
<1> QED
  BY <1>1, <1>2, <1>3 DEF IsHistory

(* The rows that are marked as interrupted, one by one.                    *)
LEMMA MarksLead ==
  ASSUME NEW D, IsHistory(D), Pruned(D), minted \in Nat, NEW T, NEW qs, qs = Interrupted(D),
         NEW n \in Nat, NEW rows, DOMAIN rows = 1 .. n,
         \A k \in 1 .. n : rows[k] \in DOMAIN D,
         \A r \in DOMAIN D : D[r].outcome = "Running" => \E k \in 1 .. n : rows[k] = r,
         NEW marks, Len(marks) = n, \A k \in 1 .. n : marks[k] = UpsertRun(rows[k], qs[rows[k]])
  PROVE  Leads([tasks |-> T, runs |-> D], marks, [tasks |-> T, runs |-> qs])
<1> DEFINE Marked(k) == [r \in DOMAIN D |-> IF \E i \in 1 .. k : rows[i] = r THEN qs[r] ELSE D[r]]
<1>1. /\ DOMAIN qs = DOMAIN D
      /\ \A r \in DOMAIN D : /\ qs[r].task = D[r].task
                             /\ D[r].outcome # "Running" => qs[r] = D[r]
  BY InterruptedIs
<1>2. /\ D = [r \in DOMAIN D |-> D[r]] /\ qs = [r \in DOMAIN qs |-> qs[r]]
  BY DEF IsHistory, Interrupted
<1>3. PICK after : after = [k \in 0 .. n |-> [tasks |-> T, runs |-> Marked(k)]]
  OBVIOUS
<1>4. Marked(0) = D
  <2>1. \A r \in DOMAIN D : ~ \E i \in 1 .. 0 : rows[i] = r
    OBVIOUS
  <2> QED
    BY <1>2, <2>1
<1>5. Marked(n) = qs
  <2>1. ASSUME NEW r \in DOMAIN D
        PROVE  qs[r] = IF \E i \in 1 .. n : rows[i] = r THEN qs[r] ELSE D[r]
    BY <1>1
  <2> QED
    BY <1>1, <1>2, <2>1
<1>6. ASSUME NEW k \in 1 .. n
      PROVE  after[k] = Applied(after[k - 1], marks[k])
  <2>1. PICK i : i = k - 1
    OBVIOUS
  <2>2. i \in 0 .. n /\ k = i + 1 /\ k \in 0 .. n
    BY <2>1
  <2>3. PICK A, B, x : A = Marked(i) /\ B = Marked(k) /\ x = rows[k]
    OBVIOUS
  <2>4. x \in DOMAIN D /\ DOMAIN A = DOMAIN D /\ DOMAIN B = DOMAIN D
    BY <2>3
  <2>5. Put(A, x, qs[x]) = B
    <3>1. ASSUME NEW r \in DOMAIN D
          PROVE  B[r] = IF r = x THEN qs[x] ELSE A[r]
      <4>1. (\E j \in 1 .. k : rows[j] = r) <=> (r = x \/ \E j \in 1 .. i : rows[j] = r)
        <5>1. \A j \in 1 .. k : j = k \/ j \in 1 .. i
          BY <2>2
        <5>2. k \in 1 .. k /\ \A j \in 1 .. i : j \in 1 .. k
          BY <2>2
        <5> QED
          BY <2>3, <5>1, <5>2
      <4> QED
        BY <2>3, <4>1
    <3>2. DOMAIN A \cup {x} = DOMAIN D
      BY <2>4
    <3>3. Put(A, x, qs[x]) = [r \in DOMAIN D |-> IF r = x THEN qs[x] ELSE A[r]]
      BY <3>2 DEF Put
    <3>4. B = [r \in DOMAIN D |-> B[r]]
      BY <2>3
    <3> QED
      BY <3>1, <3>3, <3>4
  <2>6. Prune(B) = B
    <3>1. \A r \in DOMAIN D : B[r].task = D[r].task
      BY <1>1, <2>3
    <3>2. Pruned(B)
      BY <2>4, <3>1, SameTasksPruned
    <3>3. B = [r \in DOMAIN B |-> B[r]]
      BY <2>3
    <3> QED
      BY <3>2, <3>3, PruneKeepsAll
  <2>7. after[k] = [tasks |-> T, runs |-> B] /\ after[k - 1] = [tasks |-> T, runs |-> A]
    BY <1>3, <2>1, <2>2, <2>3
  <2>8. PICK row : row = qs[x]
    OBVIOUS
  <2>9. marks[k] = UpsertRun(x, row)
    BY <2>3, <2>8
  <2>10. Applied([tasks |-> T, runs |-> A], UpsertRun(x, row))
           = [tasks |-> T, runs |-> Prune(Put(A, x, row))]
    BY UpsertApplied
  <2> QED
    BY <2>5, <2>6, <2>7, <2>8, <2>9, <2>10
<1>7. /\ DOMAIN after = 0 .. n
      /\ after[0] = [tasks |-> T, runs |-> D] /\ after[n] = [tasks |-> T, runs |-> qs]
  <2>1. 0 \in 0 .. n /\ n \in 0 .. n
    OBVIOUS
  <2> QED
    BY <1>3, <1>4, <1>5, <2>1
<1> QED
  BY <1>6, <1>7 DEF Leads, Writes

LEMMA RelaunchKeeps ==
  ASSUME Inv, Relaunch
  PROVE  Inv'
<1>1. PICK D, qs, orphaned :
        /\ D = disk.runs /\ qs = Interrupted(D)
        /\ orphaned = {r \in DOMAIN disk.runs : disk.runs[r].outcome = "Running"}
  OBVIOUS
<1>2. PICK overdue : overdue = {t \in DOMAIN disk.tasks :
                                  disk.tasks[t].enabled /\ disk.tasks[t].next \in 1 .. now}
  OBVIOUS
<1>3. PICK ts : ts = [t \in DOMAIN disk.tasks |->
                        IF t \in overdue \/ (disk.tasks[t].enabled /\ disk.tasks[t].next = 0)
                        THEN [disk.tasks[t] EXCEPT !.next = NextRunAfter(now)]
                        ELSE disk.tasks[t]]
  OBVIOUS
<1>4. PICK S : S = {t \in overdue : disk.tasks[t].catchUp}
  OBVIOUS
<1> DEFINE orphans == {r \in DOMAIN disk.runs : disk.runs[r].outcome = "Running"}
           marked == [r \in DOMAIN disk.runs |->
                        IF r \in orphans THEN [disk.runs[r] EXCEPT !.outcome = "Error"]
                        ELSE disk.runs[r]]
           late == {t \in DOMAIN disk.tasks :
                      disk.tasks[t].enabled /\ disk.tasks[t].next \in 1 .. now}
           table == [t \in DOMAIN disk.tasks |->
                       IF t \in late \/ (disk.tasks[t].enabled /\ disk.tasks[t].next = 0)
                       THEN [disk.tasks[t] EXCEPT !.next = NextRunAfter(now)]
                       ELSE disk.tasks[t]]
           events(rows) == [k \in DOMAIN rows |-> UpsertRun(rows[k], marked[rows[k]])]
<1>5. PICK rows \in Descending(orphans), fs \in Ascending({t \in late : disk.tasks[t].catchUp}) :
        /\ FireAll(fs, table, marked, <<>>,
                   IF table = disk.tasks THEN events(rows)
                   ELSE Append(events(rows), ReplaceTasks(table)))
        /\ announced' = (fs # <<>>)
  BY DEF Relaunch
<1>6. qs = marked /\ orphaned = orphans /\ overdue = late /\ ts = table
      /\ rows \in Descending(orphaned) /\ fs \in Ascending(S)
  BY <1>1, <1>2, <1>3, <1>4 DEF Interrupted
<1>7. PICK marks : marks = [k \in DOMAIN rows |-> UpsertRun(rows[k], qs[rows[k]])]
  OBVIOUS
<1>8. PICK es : es = IF ts = disk.tasks THEN marks ELSE Append(marks, ReplaceTasks(ts))
  OBVIOUS
<1>9. FireAll(fs, ts, qs, <<>>, es) /\ announced' \in BOOLEAN
  <2>1. marks = events(rows)
    BY <1>6, <1>7
  <2> HIDE DEF orphans, marked, late, table, events
  <2> QED
    BY <1>5, <1>6, <1>8, <2>1
<1> HIDE DEF orphans, marked, late, table, events
<1>10. /\ launches' = launches + 1 /\ tasks' = ts /\ active' = [p \in {} |-> {}]
       /\ handing' = <<>> /\ panes' = <<>> /\ window' = FALSE
       /\ now' = now /\ disk' = disk /\ clicks' = clicks
  BY <1>2, <1>3 DEF Relaunch
<1>11. /\ TypeInv /\ RowInv /\ Pruned(D) /\ IsHistory(D) /\ IsTable(disk.tasks)
       /\ disk = [tasks |-> disk.tasks, runs |-> D]
  BY <1>1 DEF Inv, MirrorInv, TypeInv
<1>12. /\ IsHistory(qs) /\ DOMAIN qs = DOMAIN D
       /\ \A r \in DOMAIN D : /\ qs[r].task = D[r].task
                              /\ qs[r].outcome # "Running" /\ Agree(D[r], qs[r])
                              /\ D[r].outcome # "Running" => qs[r] = D[r]
                              /\ D[r].outcome = "Running" => qs[r].outcome = "Error"
  BY <1>1, <1>11, InterruptedIs
<1>13. Pruned(qs)
  BY <1>11, <1>12, SameTasksPruned
<1>14. PICK m : m = minted
  OBVIOUS
<1>15. /\ m \in Nat /\ DOMAIN D \subseteq 1 .. m /\ orphaned \subseteq DOMAIN D
       /\ \A r \in orphaned : r \in 1 .. m
  BY <1>1, <1>11, <1>14 DEF TypeInv, IsHistory
<1>16. PICK u : u = Len(rows)
  OBVIOUS
<1>17. /\ u \in Nat /\ DOMAIN rows = 1 .. u
       /\ \A k \in 1 .. u : rows[k] \in orphaned
       /\ \A r \in orphaned : \E k \in 1 .. u : rows[k] = r
  <2>1. orphaned \in SUBSET Int /\ orphaned \in SUBSET (1 .. m)
    BY <1>15
  <2>2. IsFiniteSet(orphaned)
    <3>1. 1 \in Int /\ m \in Int
      BY <1>15
    <3>2. IsFiniteSet(1 .. m)
      BY ONLY <3>1, FS_Interval
    <3> QED
      BY <2>1, <3>2, FS_Subset
  <2>3. /\ rows \in Seq(orphaned) /\ Len(rows) \in Nat /\ DOMAIN rows = 1 .. Len(rows)
        /\ \A r \in orphaned : \E k \in 1 .. Len(rows) : rows[k] = r
    BY <1>6, <2>1, <2>2, DescendingIs
  <2>4. \A k \in 1 .. u : rows[k] \in orphaned
    BY <1>16, <2>3
  <2> QED
    BY <1>16, <2>3, <2>4
<1>18. /\ marks \in Seq(Event) /\ Len(marks) = u /\ DOMAIN marks = 1 .. u
       /\ \A k \in 1 .. u : marks[k] = UpsertRun(rows[k], qs[rows[k]])
  <2>1. \A k \in 1 .. u : marks[k] = UpsertRun(rows[k], qs[rows[k]])
    BY <1>7, <1>17
  <2>2. ASSUME NEW k \in 1 .. u
        PROVE  marks[k] \in Event
    <3>1. rows[k] \in 1 .. m /\ rows[k] \in DOMAIN qs
      BY <1>12, <1>15, <1>17
    <3>2. rows[k] \in Nat \ {0} /\ qs[rows[k]] \in Row
      BY <1>12, <1>15, <3>1 DEF IsHistory
    <3>3. marks[k] = [kind |-> "run", run |-> rows[k], row |-> qs[rows[k]]]
      BY <2>1 DEF UpsertRun
    <3>4. marks[k] \in [kind : {"run"}, run : Nat \ {0}, row : Row]
      BY <3>2, <3>3
    <3> QED
      BY <3>4 DEF Event
  <2>3. marks \in [1 .. u -> Event]
    BY <1>7, <1>17, <2>2
  <2>4. marks \in Seq(Event) /\ Len(marks) = u /\ DOMAIN marks = 1 .. u
    BY <1>17, <2>3, ListIs
  <2> QED
    BY <2>1, <2>4
<1>19. IsTable(ts) /\ DOMAIN ts = DOMAIN disk.tasks
  <2>1. ASSUME NEW t \in DOMAIN disk.tasks
        PROVE  ts[t] \in Task
    <3>1. disk.tasks[t] \in Task /\ now + 1 \in Nat
      BY <1>11 DEF TypeInv, IsTable
    <3> QED
      BY <1>3, <3>1 DEF Task, NextRunAfter
  <2> QED
    BY <1>3, <1>11, <2>1 DEF IsTable
<1>20. PICK n : n = Len(fs)
  OBVIOUS
<1>21. FiresOf(fs, n, ts)
  <2>1. S \subseteq Tasks /\ S \subseteq DOMAIN ts
    BY <1>2, <1>4, <1>11, <1>19 DEF IsTable
  <2>2. IsFiniteSet(S)
    BY <2>1, FS_Subset, SchedulerAssumption
  <2>3. S \in SUBSET Int
    BY <2>1, SchedulerAssumption
  <2>4. /\ fs \in Seq(S) /\ n \in Nat /\ DOMAIN fs = 1 .. n
        /\ \A i, j \in 1 .. n : fs[i] = fs[j] => i = j
    BY <1>6, <1>20, <2>2, <2>3, AscendingIs
  <2>5. \A k \in 1 .. n : fs[k] \in S
    BY <1>20, <2>4
  <2>6. fs \in Seq(Tasks)
    BY ONLY <2>1, <2>4, SeqMonotonic
  <2> QED
    BY <1>19, <1>20, <2>1, <2>4, <2>5, <2>6 DEF FiresOf
<1>22. DOMAIN active' = {}
  BY <1>10
<1>23. ReadyAttempts(fs, n, ts, qs, <<>>, active')
  <2>1. <<>> \in Seq(Fire) /\ DOMAIN <<>> = {}
    OBVIOUS
  <2> QED
    BY <1>13, <1>22, <2>1 DEF ReadyAttempts
<1>24. ReadyRows(qs, <<>>, marks)
  <2>1. ASSUME NEW r \in DOMAIN qs
        PROVE  Says(r, qs[r]) /\ qs[r].outcome # "Running"
    <3>1. CASE D[r].outcome = "Running"
      BY <1>12, <3>1 DEF Says
    <3>2. CASE D[r].outcome # "Running"
      <4>1. qs[r] = D[r] /\ r \in DOMAIN disk.runs
        BY <1>1, <1>12, <3>2
      <4>2. Says(r, disk.runs[r])
        BY <1>11, <4>1 DEF RowInv
      <4> QED
        BY <1>1, <1>12, <4>1, <4>2
    <3> QED
      BY <3>1, <3>2
  <2>2. ASSUME NEW k \in DOMAIN marks
        PROVE  /\ marks[k].run \in DOMAIN qs /\ marks[k].run <= m
               /\ marks[k].row = qs[marks[k].run]
    <3>1. marks[k].run = rows[k] /\ marks[k].row = qs[rows[k]]
      BY <1>18 DEF UpsertRun
    <3> QED
      BY <1>12, <1>15, <1>17, <1>18, <3>1
  <2>3. Copies(disk.runs, marks, qs)
    <3>1. \A r \in DOMAIN qs : Agree(qs[r], qs[r]) /\ Agree(D[r], qs[r])
      BY <1>12 DEF Agree
    <3> QED
      BY <1>1, <1>12, <2>2, <3>1 DEF Copies
  <2>4. \A k \in DOMAIN marks : marks[k].run <= minted /\ Says(marks[k].run, marks[k].row)
    BY <1>14, <2>1, <2>2
  <2> QED
    BY <1>18, <2>1, <2>3, <2>4 DEF ReadyRows
<1>25. Leads(disk, marks, [tasks |-> disk.tasks, runs |-> qs])
  <2>1. PICK T : T = disk.tasks
    OBVIOUS
  <2>2. /\ \A k \in 1 .. u : rows[k] \in DOMAIN D
        /\ \A r \in DOMAIN D : D[r].outcome = "Running" => \E k \in 1 .. u : rows[k] = r
    BY <1>1, <1>15, <1>17
  <2>3. minted \in Nat
    BY <1>14, <1>15
  <2>4. Leads([tasks |-> T, runs |-> D], marks, [tasks |-> T, runs |-> qs])
    BY <1>1, <1>11, <1>17, <1>18, <2>2, <2>3, MarksLead
  <2> QED
    BY <1>11, <2>1, <2>4
<1>26. ReadyRows(qs, <<>>, es) /\ Leads(disk, es, [tasks |-> ts, runs |-> qs])
  <2>1. CASE ts = disk.tasks
    BY <1>8, <1>24, <1>25, <2>1
  <2>2. CASE ts # disk.tasks
    <3>1. PICK ev, x, T : ev = ReplaceTasks(ts) /\ T = disk.tasks /\ x = [tasks |-> T, runs |-> qs]
      OBVIOUS
    <3>2. ev \in Event /\ Leads(disk, marks, x)
      BY <1>19, <1>25, <3>1, TableEvent
    <3>3. Leads(disk, Append(marks, ev), Applied(x, ev))
      BY <1>18, <3>2, LeadsAppend
    <3>4. Applied(x, ev) = [tasks |-> ts, runs |-> qs]
      BY <3>1, ReplaceApplied
    <3>5. ReadyRows(qs, <<>>, Append(marks, ev))
      <4>1. ev.kind # "run"
        BY <1>19, <3>1, TableEvent
      <4> QED
        BY <1>24, <3>2, <4>1, RowsThenOther
    <3> QED
      BY <1>8, <2>2, <3>1, <3>3, <3>4, <3>5
  <2> QED
    BY <2>1, <2>2
<1>27. /\ panes' \in Seq(PaneState) /\ window' \in BOOLEAN /\ launches' \in Nat
       /\ DOMAIN active' \subseteq DOMAIN panes' /\ clicks' \in Nat
       /\ \A p \in DOMAIN active' :
            active'[p] \in [run : 1 .. minted, task : Tasks, attempt : {1, 2}]
       /\ ~window' => \A p \in DOMAIN panes' : panes'[p].turn = "closed"
  <2>1. launches \in Nat /\ clicks \in Nat
    BY <1>11 DEF TypeInv
  <2>2. DOMAIN panes' = {} /\ panes' \in Seq(PaneState)
    BY <1>10
  <2>3. window' \in BOOLEAN
    BY <1>10
  <2>4. clicks' \in Nat /\ launches' \in Nat
    BY ONLY <1>10, <2>1
  <2> QED
    BY ONLY <1>10, <1>22, <2>2, <2>3, <2>4
<1> QED
  BY <1>9, <1>10, <1>12, <1>21, <1>23, <1>26, <1>27, FireStep

-----------------------------------------------------------------------------
(* Steps that leave the scheduler, its tables and their events alone.      *)

LEMMA UntouchedKeeps ==
  ASSUME Inv, UNCHANGED <<main, handing, disk, log, minted, clicks, launches, tried>>,
         now' \in Nat, panes' \in Seq(PaneState), DOMAIN panes' = DOMAIN panes,
         window' \in BOOLEAN,
         ~window' => \A p \in DOMAIN panes' : panes'[p].turn = "closed",
         Idle
  PROVE  Inv'
<1>1. /\ tasks' = tasks /\ runs' = runs /\ pending' = pending /\ active' = active
      /\ announced' = announced /\ handing' = handing /\ disk' = disk /\ log' = log
      /\ minted' = minted /\ clicks' = clicks /\ launches' = launches /\ tried' = tried
  BY DEF main
<1>2. TypeInv /\ Apart /\ CurrentInv /\ WindowInv /\ AttemptInv /\ RowInv /\ CopyInv /\ MirrorInv
  BY DEF Inv, AttemptsInv
<1>3. TypeInv'
  BY <1>1, <1>2 DEF TypeInv, IsTable, IsHistory
<1>4. Apart'
  BY <1>1, <1>2 DEF Apart
<1>5. CurrentInv'
  BY <1>1, <1>2 DEF CurrentInv, Current, Recordable
<1>6. WindowInv'
  BY <1>1 DEF WindowInv, Idle
<1>7. AttemptInv'
  <2>1. /\ ~announced /\ DOMAIN handing = {}
        /\ \A k \in DOMAIN pending : tried[pending[k].run] = <<>>
    BY <1>2 DEF Idle, AttemptInv
  <2> QED
    BY <1>1, <1>2, <2>1 DEF AttemptInv, EndOf
<1>8. RowInv'
  BY <1>1, <1>2 DEF RowInv, Says, Waiting, EndOf
<1>9. CopyInv' /\ MirrorInv'
  BY <1>1, <1>2 DEF CopyInv, MirrorInv
<1> QED
  BY <1>3, <1>4, <1>5, <1>6, <1>7, <1>8, <1>9 DEF Inv, AttemptsInv

LEMMA PaneOpen ==
  ASSUME Inv, NEW p \in DOMAIN panes, panes[p].turn # "closed"
  PROVE  window = TRUE
BY DEF Inv, AttemptsInv, WindowInv, TypeInv

(* One pane changes.                                                       *)
LEMMA PaneKeeps ==
  ASSUME Inv, UNCHANGED <<now, main, handing, window, disk, log, minted, clicks, launches, tried>>,
         Idle, NEW p \in DOMAIN panes, panes[p].turn # "closed", NEW pane \in PaneState,
         panes' = [panes EXCEPT ![p] = pane]
  PROVE  Inv'
<1>1. window' = TRUE /\ now' = now
  BY PaneOpen
<1>2. now \in Nat /\ panes \in Seq(PaneState)
  BY DEF Inv, TypeInv
<1>3. panes' \in Seq(PaneState) /\ DOMAIN panes' = DOMAIN panes
  BY <1>2
<1> QED
  BY <1>1, <1>2, <1>3, UntouchedKeeps

LEMMA PaneStepKeeps ==
  ASSUME Inv, NEW p \in DOMAIN panes,
         Spawned(p) \/ SessionInit(p) \/ UserMessage(p) \/ Detach(p)
  PROVE  Inv'
<1>1. panes[p] \in PaneState
  BY DEF Inv, TypeInv
<1>2. UNCHANGED <<now, main, handing, window, disk, log, minted, clicks, launches, tried>>
  BY DEF Spawned, SessionInit, UserMessage, Detach
<1>3. Idle /\ panes[p].turn # "closed"
  BY DEF Spawned, SessionInit, UserMessage, Detach, Outside
<1>4. \E pane \in PaneState : panes' = [panes EXCEPT ![p] = pane]
  <2>1. CASE \E turn \in {"spawning", "busy", "dead"} : Turn(p, turn)
    <3>1. PICK turn \in {"spawning", "busy", "dead"} : Turn(p, turn)
      BY <2>1
    <3>2. PICK pane : pane = [panes[p] EXCEPT !.turn = turn]
      OBVIOUS
    <3>3. pane \in PaneState
      BY <1>1, <3>2 DEF PaneState
    <3> QED
      BY <3>1, <3>2, <3>3 DEF Turn
  <2>2. CASE SessionInit(p)
    <3>1. PICK pane : pane = [panes[p] EXCEPT !.id = "thread"]
      OBVIOUS
    <3>2. pane \in PaneState
      BY <1>1, <3>1 DEF PaneState
    <3> QED
      BY <2>2, <3>1, <3>2 DEF SessionInit
  <2> QED
    BY <2>1, <2>2 DEF Spawned, UserMessage, Detach
<1> QED
  BY <1>2, <1>3, <1>4, PaneKeeps

LEMMA CloseKeeps ==
  ASSUME Inv, (\E p \in DOMAIN panes : ClosePane(p)) \/ CloseWindow \/ OpenWindow \/ TimePasses
  PROVE  Inv'
<1>1. /\ now \in Nat /\ panes \in Seq(PaneState) /\ window \in BOOLEAN
      /\ ~window => \A p \in DOMAIN panes : panes[p].turn = "closed"
  BY DEF Inv, TypeInv, AttemptsInv, WindowInv
<1>2. ASSUME NEW ps
      PROVE  /\ Closed(ps) \in Seq(PaneState) /\ DOMAIN Closed(ps) = DOMAIN panes
             /\ \A p \in DOMAIN panes : p \in ps => Closed(ps)[p].turn = "closed"
             /\ \A p \in DOMAIN panes : panes[p].turn = "closed" => Closed(ps)[p].turn = "closed"
  <2>1. PICK n : n = Len(panes)
    OBVIOUS
  <2>2. n \in Nat /\ DOMAIN panes = 1 .. n /\ \A p \in 1 .. n : panes[p] \in PaneState
    BY <1>1, <2>1
  <2>3. PICK f : f = Closed(ps)
    OBVIOUS
  <2>4. /\ DOMAIN f = 1 .. n
        /\ \A p \in 1 .. n : f[p] = IF p \in ps THEN [panes[p] EXCEPT !.turn = "closed"]
                                    ELSE panes[p]
    BY <2>2, <2>3 DEF Closed
  <2>5. \A p \in 1 .. n : /\ f[p] \in PaneState
                          /\ p \in ps => f[p].turn = "closed"
                          /\ panes[p].turn = "closed" => f[p].turn = "closed"
    BY <2>2, <2>4 DEF PaneState
  <2>6. f \in [1 .. n -> PaneState]
    BY <2>2, <2>3, <2>5 DEF Closed
  <2>7. f \in Seq(PaneState)
    BY <2>2, <2>6, ListIs
  <2> QED
    BY <2>2, <2>3, <2>4, <2>5, <2>7
<1>3. CASE \E p \in DOMAIN panes : ClosePane(p)
  <2>1. PICK p \in DOMAIN panes : ClosePane(p)
    BY <1>3
  <2>2. /\ UNCHANGED <<now, main, handing, window, disk, log, minted, clicks, launches, tried>>
        /\ Idle /\ panes' = Closed({p})
    BY <2>1 DEF ClosePane, Outside
  <2>3. /\ panes' \in Seq(PaneState) /\ DOMAIN panes' = DOMAIN panes
        /\ window' = window /\ now' = now
        /\ ~window' => \A x \in DOMAIN panes' : panes'[x].turn = "closed"
    BY <1>1, <1>2, <2>2
  <2> QED
    BY <1>1, <2>2, <2>3, UntouchedKeeps
<1>4. CASE CloseWindow
  <2>1. /\ UNCHANGED <<now, main, handing, disk, log, minted, clicks, launches, tried>>
        /\ Idle /\ window' = FALSE /\ panes' = Closed(DOMAIN panes)
    BY <1>4 DEF CloseWindow, Outside
  <2>2. /\ panes' \in Seq(PaneState) /\ DOMAIN panes' = DOMAIN panes /\ now' = now
        /\ \A x \in DOMAIN panes' : panes'[x].turn = "closed"
    BY <1>2, <2>1
  <2> QED
    BY <1>1, <2>1, <2>2, UntouchedKeeps
<1>5. CASE OpenWindow
  <2>1. /\ UNCHANGED <<now, main, handing, panes, disk, log, minted, clicks, launches, tried>>
        /\ Idle /\ window' = TRUE
    BY <1>5 DEF OpenWindow, Outside
  <2> QED
    BY <1>1, <2>1, UntouchedKeeps
<1>6. CASE TimePasses
  <2>1. /\ UNCHANGED <<main, handing, panes, window, disk, log, minted, clicks, launches, tried>>
        /\ Idle /\ now' = now + 1
    BY <1>6 DEF TimePasses, Outside
  <2> QED
    BY <1>1, <2>1, UntouchedKeeps
<1> QED
  BY <1>3, <1>4, <1>5, <1>6

-----------------------------------------------------------------------------
(* The writer.                                                             *)

LEMMA PutPruned ==
  ASSUME NEW m \in Nat, NEW rs, DOMAIN rs \subseteq 1 .. m, rs \in [DOMAIN rs -> Row],
         NEW r \in 1 .. m, NEW row \in Row, NEW qs, qs = Prune(Put(rs, r, row))
  PROVE  /\ DOMAIN qs \subseteq 1 .. m /\ qs \in [DOMAIN qs -> Row] /\ Pruned(qs)
         /\ \A x \in DOMAIN qs : \/ x = r /\ qs[x] = row
                                 \/ x \in DOMAIN rs /\ x # r /\ qs[x] = rs[x]
<1>1. PICK put : put = Put(rs, r, row)
  OBVIOUS
<1>2. /\ DOMAIN put = DOMAIN rs \cup {r} /\ put[r] = row
      /\ \A x \in DOMAIN rs : x # r => put[x] = rs[x]
  BY <1>1 DEF Put
<1>3. /\ DOMAIN qs \subseteq DOMAIN put
      /\ \A x \in DOMAIN qs : qs[x] = put[x]
  BY <1>1, PruneIs
<1>4. DOMAIN put \subseteq 1 .. m
  BY <1>2
<1>5. Pruned(qs)
  BY <1>1, <1>4, PrunePruned
<1>6. \A x \in DOMAIN qs : \/ x = r /\ qs[x] = row
                           \/ x \in DOMAIN rs /\ x # r /\ qs[x] = rs[x]
  BY <1>2, <1>3
<1>7. qs \in [DOMAIN qs -> Row]
  <2>1. qs = [x \in DOMAIN qs |-> qs[x]]
    BY DEF Prune, Keep
  <2>2. \A x \in DOMAIN rs : rs[x] \in Row
    OBVIOUS
  <2>3. \A x \in DOMAIN qs : qs[x] \in Row
    BY <1>6, <2>2
  <2> QED
    BY <2>1, <2>3
<1> QED
  BY <1>3, <1>4, <1>5, <1>6, <1>7

(* The tables go to U and E, with numbers of runs up to m.                 *)
Written(ev, D, m, U, E) ==
  /\ disk' = [tasks |-> U, runs |-> E]
  /\ IsTable(U) /\ DOMAIN E \subseteq 1 .. m /\ E \in [DOMAIN E -> Row] /\ Pruned(E)
  /\ \A r \in DOMAIN E :
       \/ ev.kind = "run" /\ ev.run = r /\ E[r] = ev.row
       \/ r \in DOMAIN D /\ E[r] = D[r] /\ (ev.kind = "run" => ev.run # r)
LEMMA WriteIs ==
  ASSUME Inv, Write
  PROVE  \E U, E : Written(Head(log), disk.runs, minted, U, E)
<1>1. /\ TypeInv /\ Apart /\ CurrentInv /\ WindowInv /\ AttemptInv /\ RowInv /\ MirrorInv
      /\ Copies(disk.runs, log, runs)
  BY DEF Inv, AttemptsInv, CopyInv
<1>2. /\ log # <<>> /\ disk' = Applied(disk, Head(log)) /\ log' = Tail(log)
      /\ now' = now /\ tasks' = tasks /\ runs' = runs /\ pending' = pending /\ active' = active
      /\ announced' = announced /\ handing' = handing /\ panes' = panes /\ window' = window
      /\ minted' = minted /\ clicks' = clicks /\ launches' = launches /\ tried' = tried
  BY DEF Write, main
<1>3. PICK n, m, ev, T, D :
        n = Len(log) /\ m = minted /\ ev = Head(log) /\ T = disk.tasks /\ D = disk.runs
  OBVIOUS
<1>4. log \in Seq(Event)
  BY <1>1 DEF TypeInv
<1>5. /\ n \in Nat /\ n > 0 /\ DOMAIN log = 1 .. n /\ ev = log[1] /\ ev \in Event
      /\ log' \in Seq(Event) /\ DOMAIN log' = 1 .. n - 1
      /\ \A k \in 1 .. n - 1 : log'[k] = log[k + 1] /\ k + 1 \in 1 .. n
      /\ 1 \in DOMAIN log
  BY <1>2, <1>3, <1>4
<1>6. /\ m \in Nat /\ DOMAIN D \subseteq 1 .. m /\ D \in [DOMAIN D -> Row] /\ Pruned(D)
      /\ IsTable(T) /\ disk = [tasks |-> T, runs |-> D]
  BY <1>1, <1>3 DEF TypeInv, IsHistory, MirrorInv
<1>7. \E U, E : Written(ev, D, m, U, E)
  <2>1. CASE ev.kind = "tasks"
    <3>1. ev \in [kind : {"tasks"}, tasks : Table]
      BY <1>5, <2>1 DEF Event
    <3>2. PICK U : U = ev.tasks
      OBVIOUS
    <3>3. IsTable(U)
      <4>1. PICK S \in SUBSET Tasks : U \in [S -> Task]
        BY <3>1, <3>2 DEF Table
      <4> QED
        BY <4>1 DEF IsTable
    <3>4. disk' = [tasks |-> U, runs |-> D]
      BY <1>2, <1>3, <1>6, <2>1, <3>2 DEF Applied
    <3> QED
      BY <1>6, <2>1, <3>3, <3>4 DEF Written
  <2>2. CASE ev.kind = "run"
    <3>1. PICK r, row : r = ev.run /\ row = ev.row
      OBVIOUS
    <3>2. ev \in [kind : {"run"}, run : Nat \ {0}, row : Row]
      BY <1>5, <2>2 DEF Event
    <3>3. r <= m
      BY <1>1, <1>3, <1>5, <2>2, <3>1 DEF TypeInv
    <3>4. r \in 1 .. m /\ row \in Row
      BY <1>6, <3>1, <3>2, <3>3
    <3>5. PICK E : E = Prune(Put(D, r, row))
      OBVIOUS
    <3>6. disk' = [tasks |-> T, runs |-> E]
      BY <1>2, <1>3, <1>6, <2>2, <3>1, <3>5 DEF Applied
    <3>7. /\ DOMAIN E \subseteq 1 .. m /\ E \in [DOMAIN E -> Row] /\ Pruned(E)
          /\ \A x \in DOMAIN E : \/ x = r /\ E[x] = row
                                 \/ x \in DOMAIN D /\ x # r /\ E[x] = D[x]
      BY <1>6, <3>4, <3>5, PutPruned
    <3> QED
      BY <1>6, <2>2, <3>1, <3>6, <3>7 DEF Written
  <2>3. CASE ev.kind = "delete"
    <3>1. PICK t, E : t = ev.task /\ E = WithoutTask(D, t)
      OBVIOUS
    <3>2. disk' = [tasks |-> T, runs |-> E]
      BY <1>2, <1>3, <1>6, <2>3, <3>1 DEF Applied
    <3>3. /\ DOMAIN E = {r \in DOMAIN D : D[r].task # t}
          /\ \A r \in DOMAIN E : E[r] = D[r]
          /\ Pruned(E)
      <4>1. /\ DOMAIN WithoutTask(D, t) = {r \in DOMAIN D : D[r].task # t}
            /\ \A r \in DOMAIN WithoutTask(D, t) : WithoutTask(D, t)[r] = D[r]
            /\ Pruned(D) => Pruned(WithoutTask(D, t))
        BY <1>6, WithoutTaskIs
      <4> QED
        BY <1>6, <3>1, <4>1
    <3>4. E \in [DOMAIN E -> Row]
      <4>1. E = [r \in DOMAIN E |-> E[r]]
        BY <3>1 DEF WithoutTask, Keep
      <4>2. \A r \in DOMAIN E : E[r] \in Row
        BY <1>6, <3>3
      <4> QED
        BY <4>1, <4>2
    <3> QED
      BY <1>6, <2>3, <3>2, <3>3, <3>4 DEF Written
  <2> QED
    BY <1>5, <2>1, <2>2, <2>3 DEF Event
<1> QED
  BY <1>3, <1>7

LEMMA WriteKeeps ==
  ASSUME Inv, Write
  PROVE  Inv'
<1>1. /\ TypeInv /\ Apart /\ CurrentInv /\ WindowInv /\ AttemptInv /\ RowInv /\ MirrorInv
      /\ Copies(disk.runs, log, runs)
  BY DEF Inv, AttemptsInv, CopyInv
<1>2. /\ log # <<>> /\ disk' = Applied(disk, Head(log)) /\ log' = Tail(log)
      /\ now' = now /\ tasks' = tasks /\ runs' = runs /\ pending' = pending /\ active' = active
      /\ announced' = announced /\ handing' = handing /\ panes' = panes /\ window' = window
      /\ minted' = minted /\ clicks' = clicks /\ launches' = launches /\ tried' = tried
  BY DEF Write, main
<1>3. PICK n, m, ev, T, D :
        n = Len(log) /\ m = minted /\ ev = Head(log) /\ T = disk.tasks /\ D = disk.runs
  OBVIOUS
<1>4. log \in Seq(Event)
  BY <1>1 DEF TypeInv
<1>5. /\ n \in Nat /\ n > 0 /\ DOMAIN log = 1 .. n /\ ev = log[1] /\ ev \in Event
      /\ log' \in Seq(Event) /\ DOMAIN log' = 1 .. n - 1
      /\ \A k \in 1 .. n - 1 : log'[k] = log[k + 1] /\ k + 1 \in 1 .. n
      /\ 1 \in DOMAIN log
  BY <1>2, <1>3, <1>4
<1>6. /\ m \in Nat /\ DOMAIN D \subseteq 1 .. m /\ D \in [DOMAIN D -> Row] /\ Pruned(D)
      /\ IsTable(T) /\ disk = [tasks |-> T, runs |-> D]
  BY <1>1, <1>3 DEF TypeInv, IsHistory, MirrorInv
<1>7. PICK U, E : /\ disk' = [tasks |-> U, runs |-> E]
                  /\ IsTable(U) /\ DOMAIN E \subseteq 1 .. m /\ E \in [DOMAIN E -> Row] /\ Pruned(E)
                  /\ \A r \in DOMAIN E :
                       \/ ev.kind = "run" /\ ev.run = r /\ E[r] = ev.row
                       \/ r \in DOMAIN D /\ E[r] = D[r] /\ (ev.kind = "run" => ev.run # r)
  <2>1. PICK U, E : Written(ev, D, m, U, E)
    BY <1>3, WriteIs
  <2> QED
    BY <2>1 DEF Written
<1>8. disk'.runs = E /\ disk'.tasks = U
  BY <1>7
<1>9. TypeInv'
  <2>1. \A k \in DOMAIN log' : log'[k].kind = "run" => log'[k].run <= minted'
    BY <1>1, <1>2, <1>5 DEF TypeInv
  <2>2. IsTable(tasks)' /\ IsHistory(runs)'
    BY <1>1, <1>2 DEF TypeInv, IsTable, IsHistory
  <2>3. IsTable(disk.tasks)' /\ IsHistory(disk.runs)'
    BY <1>2, <1>3, <1>7, <1>8 DEF IsTable, IsHistory
  <2>4. disk' = [tasks |-> disk'.tasks, runs |-> disk'.runs]
    BY <1>7, <1>8
  <2> QED
    BY <1>1, <1>2, <1>5, <2>1, <2>2, <2>3, <2>4 DEF TypeInv
<1>10. Apart' /\ CurrentInv' /\ WindowInv' /\ AttemptInv'
  <2>1. Apart'
    BY <1>1, <1>2 DEF Apart
  <2>2. CurrentInv'
    BY <1>1, <1>2 DEF CurrentInv, Current, Recordable
  <2>3. WindowInv'
    BY <1>1, <1>2 DEF WindowInv
  <2>4. AttemptInv'
    BY <1>1, <1>2 DEF AttemptInv, Retrying, EndOf
  <2> QED
    BY <2>1, <2>2, <2>3, <2>4
<1>11. \A r \in DOMAIN E : Says(r, E[r])
  <2>1. ASSUME NEW r \in DOMAIN E
        PROVE  Says(r, E[r])
    <3>1. CASE ev.kind = "run" /\ ev.run = r /\ E[r] = ev.row
      BY <1>1, <1>5, <3>1 DEF RowInv
    <3>2. CASE r \in DOMAIN D /\ E[r] = D[r]
      BY <1>1, <1>3, <3>2 DEF RowInv
    <3> QED
      BY <1>7, <3>1, <3>2
  <2> QED
    BY <2>1
<1>12. RowInv'
  <2>1. /\ \A r \in DOMAIN runs :
             Says(r, runs[r]) /\ (runs[r].outcome = "Running" => EndOf(r) = "open" \/ Waiting(r))
        /\ \A k \in DOMAIN log : log[k].kind = "run" => Says(log[k].run, log[k].row)
    BY <1>1 DEF RowInv
  <2>2. \A k \in DOMAIN log' : log'[k].kind = "run" => Says(log'[k].run, log'[k].row)
    BY <1>5, <2>1
  <2> QED
    BY <1>2, <1>8, <1>11, <2>1, <2>2 DEF RowInv, Says, EndOf, Waiting
<1>13. Copies(E, log', runs)
  <2>1. ASSUME NEW k \in DOMAIN log'
        PROVE  k + 1 \in DOMAIN log /\ log'[k] = log[k + 1] /\ k \in Nat /\ 1 < k + 1
    BY <1>5
  <2>2. ASSUME NEW r \in DOMAIN E
        PROVE  /\ r \in DOMAIN runs => Agree(E[r], runs[r])
               /\ \A k \in DOMAIN log' :
                    log'[k].kind = "run" /\ log'[k].run = r => Agree(E[r], log'[k].row)
    <3>1. CASE ev.kind = "run" /\ ev.run = r /\ E[r] = ev.row
      BY <1>1, <1>5, <2>1, <3>1 DEF Copies
    <3>2. CASE r \in DOMAIN D /\ E[r] = D[r]
      BY <1>1, <1>3, <2>1, <3>2 DEF Copies
    <3> QED
      BY <1>7, <3>1, <3>2
  <2>3. ASSUME NEW k \in DOMAIN log', log'[k].kind = "run"
        PROVE  /\ log'[k].run \in DOMAIN runs => Agree(log'[k].row, runs[log'[k].run])
               /\ \A l \in DOMAIN log' :
                    k < l /\ log'[l].kind = "run" /\ log'[l].run = log'[k].run =>
                      Agree(log'[k].row, log'[l].row)
    <3>1. PICK i : i = k + 1
      OBVIOUS
    <3>2. i \in DOMAIN log /\ log'[k] = log[i]
      BY <2>1, <3>1
    <3>3. ASSUME NEW l \in DOMAIN log', k < l
          PROVE  l + 1 \in DOMAIN log /\ log'[l] = log[l + 1] /\ i < l + 1
      BY <2>1, <3>1, <3>3
    <3> QED
      BY <1>1, <2>3, <3>2, <3>3 DEF Copies
  <2> QED
    BY <2>2, <2>3 DEF Copies
<1>14. CopyInv'
  BY <1>2, <1>8, <1>13 DEF CopyInv
<1>15. MirrorInv'
  <2>1. Leads(disk, log, [tasks |-> tasks, runs |-> runs]) /\ Pruned(runs)
    BY <1>1 DEF MirrorInv
  <2>2. PICK x : x = [tasks |-> tasks, runs |-> runs]
    OBVIOUS
  <2>3. Leads(Applied(disk, Head(log)), Tail(log), x)
    BY <1>2, <1>4, <2>1, <2>2, LeadsTail
  <2>4. Leads(disk', log', x)
    BY <1>2, <2>3
  <2> QED
    BY <1>2, <1>7, <1>8, <2>1, <2>2, <2>4 DEF MirrorInv
<1> QED
  BY <1>9, <1>10, <1>12, <1>14, <1>15 DEF Inv, AttemptsInv

-----------------------------------------------------------------------------
(* The Scheduled Tasks page.                                               *)

LEMMA RowsAfter ==
  ASSUME RowInv, NEW rs, NEW queue, NEW es, ReadyRows(rs, queue, es),
         runs' = rs, pending' = queue, log' = es, disk' = disk, tried' = tried
  PROVE  RowInv' /\ CopyInv'
<1>1. ASSUME NEW r \in DOMAIN rs
      PROVE  /\ Says(r, rs[r])
             /\ rs[r].outcome = "Running" =>
                  EndOf(r) = "open" \/ \E k \in DOMAIN queue : queue[k].run = r
  BY DEF ReadyRows
<1>2. /\ \A k \in DOMAIN es : es[k].kind = "run" => Says(es[k].run, es[k].row)
      /\ Copies(disk.runs, es, rs)
  BY DEF ReadyRows
<1>3. \A r \in DOMAIN disk.runs : Says(r, disk.runs[r])
  BY DEF RowInv
<1>4. RowInv'
  BY <1>1, <1>2, <1>3 DEF RowInv, Says, EndOf, Waiting
<1> QED
  BY <1>2, <1>4 DEF CopyInv

LEMMA SaveKeeps ==
  ASSUME Inv, Idle, NEW ts, IsTable(ts), DOMAIN tasks \subseteq DOMAIN ts, SaveTasks(ts),
         UNCHANGED <<now, runs, pending, active, announced, handing, panes, window, disk,
                     minted, launches, tried>>,
         clicks' \in Nat
  PROVE  Inv'
<1>1. /\ TypeInv /\ Apart /\ CurrentInv /\ WindowInv /\ AttemptInv /\ RowInv /\ MirrorInv
  BY DEF Inv, AttemptsInv
<1>2. PICK ev, x : ev = ReplaceTasks(ts) /\ x = [tasks |-> tasks, runs |-> runs]
  OBVIOUS
<1>3. /\ tasks' = ts /\ log' = Append(log, ev)
      /\ now' = now /\ runs' = runs /\ pending' = pending /\ active' = active
      /\ announced' = announced /\ handing' = handing /\ panes' = panes /\ window' = window
      /\ disk' = disk /\ minted' = minted /\ launches' = launches /\ tried' = tried
  BY <1>2 DEF SaveTasks
<1>4. ev \in Event /\ ev.kind = "tasks" /\ log \in Seq(Event)
  BY <1>1, <1>2, TableEvent DEF TypeInv
<1>5. ReadyRows(runs, pending, log)
  <2>1. PICK fs : fs = <<>>
    OBVIOUS
  <2>2. \A k \in 1 .. 0 : ~IsRunning(fs[k])
    OBVIOUS
  <2> QED
    BY <2>2, ReadyNow
<1>6. ReadyRows(runs, pending, log')
  <2>1. ev.kind # "run"
    BY <1>4
  <2> QED
    BY <1>3, <1>4, <1>5, <2>1, RowsThenOther
<1>7. RowInv' /\ CopyInv'
  BY <1>1, <1>3, <1>6, RowsAfter
<1>8. MirrorInv'
  <2>1. Leads(disk, log, x) /\ Pruned(runs) /\ Pruned(disk.runs)
    BY <1>1, <1>2 DEF MirrorInv
  <2>2. Leads(disk, Append(log, ev), Applied(x, ev))
    BY <1>4, <2>1, LeadsAppend
  <2>3. Applied(x, ev) = [tasks |-> ts, runs |-> runs]
    BY <1>2, ReplaceApplied
  <2> QED
    BY <1>3, <2>1, <2>2, <2>3 DEF MirrorInv
<1>9. TypeInv'
  <2>1. log' \in Seq(Event)
    BY <1>3, <1>4
  <2>2. \A k \in DOMAIN log' : log'[k].kind = "run" => log'[k].run <= minted'
    BY <1>3, <1>6 DEF ReadyRows
  <2>3. IsTable(tasks)' /\ IsHistory(runs)' /\ IsTable(disk.tasks)' /\ IsHistory(disk.runs)'
    BY <1>1, <1>3 DEF TypeInv, IsTable, IsHistory
  <2> QED
    BY <1>1, <1>3, <2>1, <2>2, <2>3 DEF TypeInv
<1>10. Apart'
  BY <1>1, <1>3 DEF Apart
<1>11. CurrentInv'
  BY <1>1, <1>3 DEF CurrentInv, Current, Recordable
<1>12. WindowInv'
  BY <1>1, <1>3 DEF WindowInv
<1>13. AttemptInv'
  <2>1. /\ ~announced /\ DOMAIN handing = {}
        /\ \A k \in DOMAIN pending : tried[pending[k].run] = <<>>
    BY <1>1 DEF Idle, AttemptInv
  <2> QED
    BY <1>1, <1>3, <2>1 DEF AttemptInv, EndOf
<1> QED
  BY <1>7, <1>8, <1>9, <1>10, <1>11, <1>12, <1>13 DEF Inv, AttemptsInv

LEMMA EditKeeps ==
  ASSUME Inv, NEW t \in Tasks, ToggleEnabled(t) \/ \E s \in Settings : Upsert(t, s)
  PROVE  Inv'
<1>1. TypeInv
  BY DEF Inv
<1>2. now + 1 \in Nat /\ \A enabled \in BOOLEAN : NextOf(enabled) \in Nat
  BY <1>1 DEF TypeInv, NextOf, NextRunAfter
<1>3. /\ DOMAIN tasks \subseteq Tasks /\ tasks = [x \in DOMAIN tasks |-> tasks[x]]
      /\ \A x \in DOMAIN tasks : tasks[x] \in Task
  BY <1>1 DEF TypeInv, IsTable
<1>4. CASE ToggleEnabled(t)
  <2>1. PICK ts : ts = [tasks EXCEPT ![t].enabled = ~@, ![t].next = NextOf(~tasks[t].enabled)]
    OBVIOUS
  <2>2. /\ Idle /\ t \in DOMAIN tasks /\ SaveTasks(ts) /\ clicks' \in Nat
        /\ UNCHANGED <<now, runs, pending, active, announced, handing, panes, window, disk,
                       minted, launches, tried>>
    BY <1>1, <1>4, <2>1 DEF ToggleEnabled, Click, Outside, TypeInv
  <2>3. DOMAIN ts = DOMAIN tasks
    BY <2>1
  <2>4. ASSUME NEW x \in DOMAIN tasks
        PROVE  ts[x] \in Task
    <3>1. CASE x = t
      <4>1. tasks[t] \in Task /\ tasks[t].enabled \in BOOLEAN
        BY <1>3, <2>2 DEF Task
      <4>2. PICK n : n = NextOf(~tasks[t].enabled)
        OBVIOUS
      <4>3. n \in Nat
        BY <1>2, <4>1, <4>2
      <4>4. ts[t] = [tasks[t] EXCEPT !.enabled = ~tasks[t].enabled, !.next = n]
        BY <2>1, <2>2, <4>2
      <4>5. ts[t] \in Task
        BY <4>1, <4>3, <4>4 DEF Task
      <4> QED
        BY <3>1, <4>5
    <3>2. CASE x # t
      BY <1>3, <2>1, <3>2
    <3> QED
      BY <3>1, <3>2
  <2>5. ts = [x \in DOMAIN ts |-> ts[x]]
    BY <2>1
  <2>6. IsTable(ts)
    BY <1>3, <2>3, <2>4, <2>5 DEF IsTable
  <2> QED
    BY <2>2, <2>3, <2>6, SaveKeeps
<1>5. CASE \E s \in Settings : Upsert(t, s)
  <2>1. PICK s \in Settings : Upsert(t, s)
    BY <1>5
  <2>2. PICK enabled : enabled = (t \in DOMAIN tasks => tasks[t].enabled)
    OBVIOUS
  <2>3. PICK row : row = [provider |-> s.provider, fallback |-> s.fallback, enabled |-> enabled,
                          catchUp |-> s.catchUp, next |-> NextOf(enabled)]
    OBVIOUS
  <2>4. PICK ts : ts = Put(tasks, t, row)
    OBVIOUS
  <2>5. /\ Idle /\ SaveTasks(ts) /\ clicks' \in Nat
        /\ UNCHANGED <<now, runs, pending, active, announced, handing, panes, window, disk,
                       minted, launches, tried>>
    BY <1>1, <2>1, <2>2, <2>3, <2>4 DEF Upsert, Click, Outside, TypeInv
  <2>6. row \in Task
    <3>1. s \in [provider : Providers, fallback : Providers \cup {None}, catchUp : BOOLEAN]
      BY SchedulerAssumption
    <3>2. enabled \in BOOLEAN
      BY <2>2
    <3>3. NextOf(enabled) \in Nat
      BY <1>2, <3>2
    <3> QED
      BY <2>3, <3>1, <3>2, <3>3 DEF Task
  <2>7. ts = [x \in DOMAIN tasks \cup {t} |-> IF x = t THEN row ELSE tasks[x]]
    BY <2>4 DEF Put
  <2>8. IsTable(ts) /\ DOMAIN tasks \subseteq DOMAIN ts
    BY <1>3, <2>6, <2>7 DEF IsTable
  <2> QED
    BY <2>5, <2>8, SaveKeeps
<1> QED
  BY <1>4, <1>5

LEMMA DeleteKeeps ==
  ASSUME Inv, NEW t \in Tasks, Delete(t)
  PROVE  Inv'
<1>1. PICK ts, rs, live, S :
        /\ ts = Keep(tasks, Tasks \ {t}) /\ rs = WithoutTask(runs, t)
        /\ live = Keep(active, {p \in DOMAIN active : active[p].task # t})
        /\ S = {k \in DOMAIN pending : pending[k].task # t}
  OBVIOUS
<1>2. /\ Idle /\ clicks \in Nat /\ clicks' \in Nat
      /\ tasks' = ts /\ runs' = rs /\ active' = live
      /\ log' = log \o <<ReplaceTasks(ts), DeleteRuns(t)>>
      /\ now' = now /\ announced' = announced /\ handing' = handing /\ panes' = panes
      /\ window' = window /\ disk' = disk /\ minted' = minted /\ launches' = launches
      /\ tried' = tried
  BY <1>1 DEF Delete, Click, Outside, Forget, Inv, TypeInv
<1>3. PICK kept \in Ascending(S) : pending' = [k \in DOMAIN kept |-> pending[kept[k]]]
  BY <1>1 DEF Delete, Forget
<1>4. PICK queue : queue = [k \in DOMAIN kept |-> pending[kept[k]]]
  OBVIOUS
<1>5. /\ TypeInv /\ Apart /\ CurrentInv /\ WindowInv /\ AttemptInv /\ RowInv /\ MirrorInv
  BY DEF Inv, AttemptsInv
<1>6. PICK m, q, n : m = minted /\ q = Len(pending) /\ n = Len(kept)
  OBVIOUS
<1>7. /\ m \in Nat /\ DOMAIN runs \subseteq 1 .. m /\ runs \in [DOMAIN runs -> Row] /\ Pruned(runs)
      /\ q \in Nat /\ DOMAIN pending = 1 .. q /\ pending \in Seq(Fire)
      /\ \A k \in 1 .. q : pending[k] \in Fire
      /\ DOMAIN handing = {} /\ ~announced /\ handing = <<>>
  BY <1>2, <1>5, <1>6 DEF TypeInv, IsHistory, MirrorInv, Idle
<1>8. /\ n \in Nat /\ DOMAIN kept = 1 .. n
      /\ \A k \in 1 .. n : kept[k] \in S
      /\ \A i, j \in 1 .. n : kept[i] = kept[j] => i = j
      /\ \A k \in S : \E i \in 1 .. n : kept[i] = k
  <2>1. S \in SUBSET (1 .. q) /\ S \in SUBSET Int
    BY <1>1, <1>7
  <2>2. IsFiniteSet(S)
    <3>1. 1 \in Int /\ q \in Int
      BY <1>7
    <3>2. IsFiniteSet(1 .. q)
      BY ONLY <3>1, FS_Interval
    <3> QED
      BY <2>1, <3>2, FS_Subset
  <2>3. /\ kept \in Seq(S) /\ Len(kept) \in Nat /\ DOMAIN kept = 1 .. Len(kept)
        /\ \A i, j \in 1 .. Len(kept) : kept[i] = kept[j] => i = j
        /\ \A x \in S : \E i \in 1 .. Len(kept) : kept[i] = x
    BY <2>1, <2>2, AscendingIs
  <2>4. \A k \in 1 .. n : kept[k] \in S
    BY <1>6, <2>3
  <2> QED
    BY <1>6, <2>3, <2>4
<1>9. /\ queue \in Seq(Fire) /\ DOMAIN queue = 1 .. n /\ pending' = queue
      /\ \A k \in 1 .. n : /\ kept[k] \in DOMAIN pending /\ queue[k] = pending[kept[k]]
                           /\ queue[k].task # t
  <2>1. \A k \in 1 .. n : /\ kept[k] \in DOMAIN pending /\ queue[k] = pending[kept[k]]
                          /\ queue[k].task # t
    BY <1>1, <1>4, <1>8
  <2>2. queue \in [1 .. n -> Fire]
    BY <1>4, <1>7, <1>8, <2>1
  <2>3. queue \in Seq(Fire) /\ DOMAIN queue = 1 .. n
    BY <1>8, <2>2, ListIs
  <2> QED
    BY <1>3, <1>4, <2>1, <2>3
<1>10. /\ DOMAIN rs = {r \in DOMAIN runs : runs[r].task # t}
       /\ \A r \in DOMAIN rs : rs[r] = runs[r]
       /\ Pruned(rs)
  <2>1. /\ DOMAIN WithoutTask(runs, t) = {r \in DOMAIN runs : runs[r].task # t}
        /\ \A r \in DOMAIN WithoutTask(runs, t) : WithoutTask(runs, t)[r] = runs[r]
        /\ Pruned(runs) => Pruned(WithoutTask(runs, t))
    BY <1>7, WithoutTaskIs
  <2> QED
    BY <1>1, <1>7, <2>1
<1>11. /\ DOMAIN live = {p \in DOMAIN active : active[p].task # t}
       /\ \A p \in DOMAIN live : live[p] = active[p]
  BY <1>1 DEF Keep
<1>12. IsTable(ts) /\ DOMAIN ts = DOMAIN tasks \ {t}
  <2>1. DOMAIN tasks \subseteq Tasks /\ tasks \in [DOMAIN tasks -> Task]
    BY <1>5 DEF TypeInv, IsTable
  <2>2. DOMAIN ts = DOMAIN tasks \ {t} /\ \A x \in DOMAIN ts : ts[x] = tasks[x]
    BY <1>1, <2>1 DEF Keep
  <2>3. ts = [x \in DOMAIN ts |-> ts[x]]
    BY <1>1 DEF Keep
  <2>4. \A x \in DOMAIN ts : ts[x] \in Task
    BY <2>1, <2>2
  <2> QED
    BY <2>1, <2>2, <2>3, <2>4 DEF IsTable
<1>13. ReadyRows(rs, queue, log)
  <2>1. ASSUME NEW r \in DOMAIN rs
        PROVE  /\ Says(r, rs[r])
               /\ rs[r].outcome = "Running" =>
                    EndOf(r) = "open" \/ \E k \in DOMAIN queue : queue[k].run = r
    <3>1. r \in DOMAIN runs /\ rs[r] = runs[r] /\ runs[r].task # t
      BY <1>10
    <3>2. Says(r, runs[r])
          /\ (runs[r].outcome = "Running" => EndOf(r) = "open" \/ Waiting(r))
      BY <1>5, <3>1 DEF RowInv
    <3>3. ASSUME Waiting(r)
          PROVE  \E k \in DOMAIN queue : queue[k].run = r
      <4>1. PICK k \in DOMAIN pending : pending[k].run = r
        BY <1>7, <3>3 DEF Waiting
      <4>2. pending[k].task = runs[r].task
        BY <1>5, <4>1 DEF CurrentInv, Current, Recordable
      <4>3. k \in S
        BY <1>1, <3>1, <4>2
      <4>4. PICK i \in 1 .. n : kept[i] = k
        BY <1>8, <4>3
      <4> QED
        BY <1>9, <4>1, <4>4
    <3> QED
      BY <3>1, <3>2, <3>3
  <2>2. Copies(disk.runs, log, rs)
    <3>1. Copies(disk.runs, log, runs)
      BY DEF Inv, CopyInv
    <3> QED
      BY <1>10, <3>1 DEF Copies
  <2> QED
    BY <1>5, <2>1, <2>2 DEF ReadyRows, TypeInv, RowInv
<1>14. PICK replaced, deleted, x, y :
         /\ replaced = ReplaceTasks(ts) /\ deleted = DeleteRuns(t)
         /\ x = [tasks |-> tasks, runs |-> runs] /\ y = [tasks |-> ts, runs |-> runs]
  OBVIOUS
<1>15. /\ replaced \in Event /\ replaced.kind # "run" /\ deleted \in Event /\ deleted.kind # "run"
  <2>1. replaced \in Event /\ replaced.kind = "tasks"
    BY <1>12, <1>14, TableEvent
  <2>2. deleted \in Event /\ deleted.kind = "delete"
    BY <1>14, DeleteEvent
  <2> QED
    BY <2>1, <2>2
<1>16. PICK mid : mid = Append(log, replaced)
  OBVIOUS
<1>17. log \in Seq(Event) /\ mid \in Seq(Event) /\ log' = Append(mid, deleted)
       /\ log' \in Seq(Event)
  <2>1. log \in Seq(Event)
    BY <1>5 DEF TypeInv
  <2>2. log \o <<replaced, deleted>> = Append(Append(log, replaced), deleted)
    BY <1>15, <2>1
  <2> QED
    BY <1>2, <1>14, <1>15, <1>16, <2>1, <2>2
<1>18. ReadyRows(rs, queue, mid)
  BY <1>13, <1>15, <1>16, RowsThenOther
<1>19. ReadyRows(rs, queue, log')
  BY <1>15, <1>17, <1>18, RowsThenOther
<1>20. RowInv' /\ CopyInv'
  BY <1>2, <1>5, <1>9, <1>19, RowsAfter
<1>21. MirrorInv'
  <2>1. Leads(disk, log, x) /\ Pruned(disk.runs)
    BY <1>5, <1>14 DEF MirrorInv
  <2>2. Leads(disk, mid, Applied(x, replaced))
    BY <1>15, <1>16, <1>17, <2>1, LeadsAppend
  <2>3. Applied(x, replaced) = y
    BY <1>14, ReplaceApplied
  <2>4. Leads(disk, log', Applied(y, deleted))
    BY <1>15, <1>17, <2>2, <2>3, LeadsAppend
  <2>5. Applied(y, deleted) = [tasks |-> ts, runs |-> rs]
    <3>1. Applied([tasks |-> ts, runs |-> runs], DeleteRuns(t))
            = [tasks |-> ts, runs |-> WithoutTask(runs, t)]
      BY DeleteApplied
    <3> QED
      BY <1>1, <1>14, <3>1
  <2> QED
    BY <1>2, <1>10, <2>1, <2>4, <2>5 DEF MirrorInv
<1>22. TypeInv'
  <2>1. \A k \in DOMAIN log' : log'[k].kind = "run" => log'[k].run <= minted'
    BY <1>2, <1>19 DEF ReadyRows
  <2>2. IsTable(tasks)' /\ IsTable(disk.tasks)' /\ IsHistory(disk.runs)'
    BY <1>2, <1>5, <1>12 DEF TypeInv, IsTable, IsHistory
  <2>3. IsHistory(runs)'
    <3>1. rs = [r \in DOMAIN rs |-> rs[r]]
      BY <1>1 DEF WithoutTask, Keep
    <3>2. \A r \in DOMAIN rs : rs[r] \in Row
      BY <1>7, <1>10
    <3>3. DOMAIN rs \subseteq 1 .. m /\ rs \in [DOMAIN rs -> Row]
      BY <1>7, <1>10, <3>1, <3>2
    <3> QED
      BY <1>2, <1>6, <3>3 DEF IsHistory
  <2>4. /\ DOMAIN active' \subseteq DOMAIN panes'
        /\ \A p \in DOMAIN active' :
             active'[p] \in [run : 1 .. minted', task : Tasks, attempt : {1, 2}]
    BY <1>2, <1>5, <1>11 DEF TypeInv
  <2> QED
    BY <1>2, <1>5, <1>9, <1>17, <2>1, <2>2, <2>3, <2>4 DEF TypeInv
<1>23. Apart'
  <2>1. \A i, j \in DOMAIN queue : queue[i].task = queue[j].task => i = j
    <3> SUFFICES ASSUME NEW i \in 1 .. n, NEW j \in 1 .. n, queue[i].task = queue[j].task
                 PROVE  i = j
      BY <1>9
    <3>1. kept[i] = kept[j]
      BY <1>5, <1>9 DEF Apart
    <3> QED
      BY <1>8, <3>1
  <2>2. \A i \in DOMAIN queue, p \in DOMAIN live : queue[i].task # live[p].task
    BY <1>5, <1>9, <1>11 DEF Apart
  <2>3. \A p, r \in DOMAIN live : live[p].task = live[r].task => p = r
    BY <1>5, <1>11 DEF Apart
  <2> QED
    BY <1>2, <1>7, <1>9, <2>1, <2>2, <2>3 DEF Apart
<1>24. ASSUME NEW r, NEW u, Current(r, u), u # t
       PROVE  Newest(rs, ts, r, u)
  BY <1>10, <1>12, <1>24 DEF Current, Recordable, Newest
<1>25. CurrentInv'
  <2>1. \A k \in DOMAIN queue : Newest(rs, ts, queue[k].run, queue[k].task)
    BY <1>5, <1>9, <1>24 DEF CurrentInv
  <2>2. \A p \in DOMAIN live : Newest(rs, ts, live[p].run, live[p].task)
    BY <1>5, <1>11, <1>24 DEF CurrentInv
  <2> QED
    BY <1>2, <1>7, <1>9, <2>1, <2>2 DEF CurrentInv, Current, Recordable, Newest
<1>26. WindowInv'
  BY <1>2, <1>5 DEF WindowInv
<1>27. AttemptInv'
  <2>1. \A k \in DOMAIN queue : tried[queue[k].run] = <<>>
    BY <1>5, <1>7, <1>9 DEF AttemptInv
  <2> QED
    BY <1>2, <1>5, <1>7, <1>9, <1>11, <2>1 DEF AttemptInv, EndOf
<1> QED
  BY <1>20, <1>21, <1>22, <1>23, <1>25, <1>26, <1>27 DEF Inv, AttemptsInv

LEMMA HandleFiresKeeps ==
  ASSUME Inv, HandleFires
  PROVE  Inv'
<1>1. /\ TypeInv /\ Apart /\ CurrentInv /\ WindowInv /\ AttemptInv /\ RowInv /\ CopyInv /\ MirrorInv
  BY DEF Inv, AttemptsInv
<1>2. /\ announced /\ handing = <<>> /\ announced' = FALSE
      /\ tasks' = tasks /\ runs' = runs /\ active' = active /\ now' = now /\ panes' = panes
      /\ window' = window /\ disk' = disk /\ log' = log /\ minted' = minted /\ clicks' = clicks
      /\ launches' = launches /\ tried' = tried
      /\ window => handing' = pending /\ pending' = <<>>
      /\ ~window => handing' = handing /\ pending' = pending
  BY DEF HandleFires
<1>3. DOMAIN handing = {} /\ <<>> \in Seq(Fire) /\ DOMAIN <<>> = {} /\ window \in BOOLEAN
      /\ handing \in Seq(Fire) /\ pending \in Seq(Fire)
  BY <1>1, <1>2 DEF TypeInv
<1>4. TypeInv'
  <2>1. /\ IsTable(tasks)' /\ IsHistory(runs)' /\ IsTable(disk.tasks)' /\ IsHistory(disk.runs)'
    BY <1>1, <1>2 DEF TypeInv, IsTable, IsHistory
  <2>2. handing' \in Seq(Fire) /\ pending' \in Seq(Fire)
    BY <1>2, <1>3
  <2> QED
    BY <1>1, <1>2, <2>1, <2>2 DEF TypeInv
<1>5. CASE window
  <2>1. handing' = pending /\ DOMAIN pending' = {} /\ pending' = <<>>
    BY <1>2, <1>3, <1>5
  <2>2. Apart'
    BY <1>1, <1>2, <2>1 DEF Apart
  <2>3. CurrentInv'
    BY <1>1, <1>2, <2>1 DEF CurrentInv, Current, Recordable
  <2>4. WindowInv'
    BY <1>2, <1>5 DEF WindowInv
  <2>5. AttemptInv'
    BY <1>1, <1>2, <2>1 DEF AttemptInv, Retrying, EndOf
  <2>6. RowInv'
    <3>1. ASSUME NEW r, Waiting(r)
          PROVE  Waiting(r)'
      BY <1>2, <1>3, <2>1, <3>1 DEF Waiting
    <3>2. \A r \in DOMAIN runs :
            Says(r, runs[r]) /\ (runs[r].outcome = "Running" => EndOf(r) = "open" \/ Waiting(r))
      BY <1>1 DEF RowInv
    <3> QED
      BY <1>1, <1>2, <3>1, <3>2 DEF RowInv, Says, EndOf
  <2> QED
    BY <1>1, <1>2, <1>4, <2>2, <2>3, <2>4, <2>5, <2>6 DEF Inv, AttemptsInv, CopyInv, MirrorInv
<1>6. CASE ~window
  <2>1. handing' = <<>> /\ pending' = pending /\ DOMAIN handing' = {} /\ handing' = handing
    BY <1>2, <1>3, <1>6
  <2>2. Apart'
    BY <1>1, <1>2, <2>1 DEF Apart
  <2>3. CurrentInv'
    BY <1>1, <1>2, <2>1 DEF CurrentInv, Current, Recordable
  <2>4. WindowInv'
    BY <1>1, <1>2, <2>1 DEF WindowInv
  <2>5. AttemptInv'
    BY <1>1, <1>2, <1>6, <2>1 DEF AttemptInv, EndOf
  <2>6. RowInv'
    BY <1>1, <1>2, <2>1 DEF RowInv, Says, EndOf, Waiting
  <2> QED
    BY <1>1, <1>2, <1>4, <2>2, <2>3, <2>4, <2>5, <2>6 DEF Inv, AttemptsInv, CopyInv, MirrorInv
<1> QED
  BY <1>5, <1>6

-----------------------------------------------------------------------------
(* The attempts of a run.                                                  *)

LEMMA TailIs ==
  ASSUME NEW S, NEW s \in Seq(S), s # <<>>
  PROVE  /\ Tail(s) \in Seq(S) /\ Head(s) = s[1] /\ 1 \in DOMAIN s
         /\ \A j \in DOMAIN Tail(s) : j + 1 \in DOMAIN s /\ j + 1 # 1 /\ Tail(s)[j] = s[j + 1]
         /\ \A k \in DOMAIN s : k = 1 \/ (k - 1 \in DOMAIN Tail(s) /\ s[k] = Tail(s)[k - 1])
OBVIOUS

(* The row of a run under way changes, which no copy of it has ended.      *)
RowChanged(r, row) ==
  /\ DOMAIN runs' = DOMAIN runs /\ runs' \in [DOMAIN runs -> Row]
  /\ runs'[r] = row /\ \A s \in DOMAIN runs : s # r => runs'[s] = runs[s]
  /\ log' \in Seq(Event)
  /\ \A k \in DOMAIN log' : log'[k].kind = "run" =>
       /\ log'[k].run <= minted
       /\ \/ log'[k].run = r /\ log'[k].row = row
          \/ k \in DOMAIN log /\ log'[k] = log[k]
  /\ Copies(disk.runs, log', runs')
  /\ Pruned(runs') /\ Leads(disk, log', [tasks |-> tasks, runs |-> runs'])
LEMMA SetRowIs ==
  ASSUME Inv, NEW r, NEW t, Current(r, t), NEW row \in Row, row.task = t, SetRow(r, row)
  PROVE  RowChanged(r, row)
<1>1. TypeInv /\ MirrorInv /\ Copies(disk.runs, log, runs)
  BY DEF Inv, CopyInv
<1>2. r \in DOMAIN runs /\ runs[r].task = t /\ runs[r].outcome = "Running"
  BY DEF Current, Recordable
<1>3. PICK m : m = minted
  OBVIOUS
<1>4. /\ m \in Nat /\ DOMAIN runs \subseteq 1 .. m /\ runs \in [DOMAIN runs -> Row]
      /\ \A s \in DOMAIN runs : runs[s] \in Row
      /\ log \in Seq(Event) /\ \A k \in DOMAIN log : log[k].kind = "run" => log[k].run <= m
  BY <1>1, <1>3 DEF TypeInv, IsHistory
<1>5. PICK rs, ev, n : rs = Put(runs, r, row) /\ ev = UpsertRun(r, row) /\ n = Len(log)
  OBVIOUS
<1>6. runs' = rs /\ log' = Append(log, ev)
  BY <1>2, <1>5 DEF SetRow
<1>7. rs = [y \in DOMAIN runs |-> IF y = r THEN row ELSE runs[y]]
  <2>1. DOMAIN runs \cup {r} = DOMAIN runs
    BY <1>2
  <2> QED
    BY <1>5, <2>1 DEF Put
<1>8. /\ DOMAIN rs = DOMAIN runs /\ rs \in [DOMAIN runs -> Row]
      /\ rs[r] = row /\ \A s \in DOMAIN runs : s # r => rs[s] = runs[s]
  BY <1>2, <1>4, <1>7
<1>9. ev.kind = "run" /\ ev.run = r /\ ev.row = row /\ ev \in Event
  <2>1. r \in Nat \ {0}
    BY <1>2, <1>4
  <2> QED
    BY <1>5, <2>1 DEF UpsertRun, Event
<1>10. /\ n \in Nat /\ DOMAIN log = 1 .. n /\ DOMAIN log' = 1 .. n + 1
       /\ log' \in Seq(Event) /\ log'[n + 1] = ev
       /\ \A k \in 1 .. n : log'[k] = log[k]
  BY <1>4, <1>5, <1>6, <1>9
<1>11. \A k \in 1 .. n + 1 : k = n + 1 \/ k \in 1 .. n
  BY <1>10
<1>12. \A k \in DOMAIN log' : log'[k].kind = "run" =>
         /\ log'[k].run <= m
         /\ \/ log'[k].run = r /\ log'[k].row = row
            \/ k \in DOMAIN log /\ log'[k] = log[k]
  <2>1. r <= m
    BY <1>2, <1>4
  <2> QED
    BY <1>4, <1>9, <1>10, <1>11, <2>1
<1>13. /\ r \in DOMAIN disk.runs => disk.runs[r].outcome = "Running"
       /\ \A k \in 1 .. n : log[k].kind = "run" /\ log[k].run = r => log[k].row.outcome = "Running"
  BY <1>1, <1>2, <1>10 DEF Copies, Agree
<1>14. Copies(disk.runs, log', rs)
  <2>1. ASSUME NEW s \in DOMAIN disk.runs
        PROVE  /\ s \in DOMAIN rs => Agree(disk.runs[s], rs[s])
               /\ \A k \in DOMAIN log' :
                    log'[k].kind = "run" /\ log'[k].run = s => Agree(disk.runs[s], log'[k].row)
    <3>1. CASE s = r
      BY <1>13, <3>1 DEF Agree
    <3>2. CASE s # r
      <4>1. /\ s \in DOMAIN runs => Agree(disk.runs[s], runs[s])
            /\ \A k \in 1 .. n :
                 log[k].kind = "run" /\ log[k].run = s => Agree(disk.runs[s], log[k].row)
        BY <1>1, <1>10 DEF Copies
      <4> QED
        BY <1>8, <1>9, <1>10, <1>11, <3>2, <4>1
    <3> QED
      BY <3>1, <3>2
  <2>2. ASSUME NEW k \in DOMAIN log', log'[k].kind = "run"
        PROVE  /\ log'[k].run \in DOMAIN rs => Agree(log'[k].row, rs[log'[k].run])
               /\ \A l \in DOMAIN log' :
                    k < l /\ log'[l].kind = "run" /\ log'[l].run = log'[k].run =>
                      Agree(log'[k].row, log'[l].row)
    <3>1. CASE k = n + 1
      <4>1. log'[k] = ev /\ \A l \in DOMAIN log' : ~(k < l)
        BY <1>10, <3>1
      <4>2. Agree(row, row)
        BY DEF Agree
      <4> QED
        BY <1>8, <1>9, <4>1, <4>2
    <3>2. CASE k \in 1 .. n /\ log[k].run = r
      <4>1. log'[k] = log[k] /\ log[k].row.outcome = "Running"
        BY <1>10, <1>13, <2>2, <3>2
      <4> QED
        BY <4>1 DEF Agree
    <3>3. CASE k \in 1 .. n /\ log[k].run # r
      <4>1. log'[k] = log[k] /\ log[k].kind = "run"
        BY <1>10, <2>2, <3>3
      <4>2. /\ log[k].run \in DOMAIN runs => Agree(log[k].row, runs[log[k].run])
            /\ \A l \in 1 .. n :
                 k < l /\ log[l].kind = "run" /\ log[l].run = log[k].run =>
                   Agree(log[k].row, log[l].row)
        BY <1>1, <1>10, <3>3, <4>1 DEF Copies
      <4> QED
        BY <1>8, <1>9, <1>10, <1>11, <3>3, <4>1, <4>2
    <3> QED
      BY <1>10, <1>11, <3>1, <3>2, <3>3
  <2> QED
    BY <2>1, <2>2 DEF Copies
<1>15. Pruned(rs)
  <2>1. \A s \in DOMAIN runs : rs[s].task = runs[s].task
    BY <1>2, <1>8
  <2>2. Pruned(runs)
    BY <1>1 DEF MirrorInv
  <2> QED
    BY <1>8, <2>1, <2>2, SameTasksPruned
<1>16. Leads(disk, log', [tasks |-> tasks, runs |-> rs])
  <2>1. PICK x : x = [tasks |-> tasks, runs |-> runs]
    OBVIOUS
  <2>2. Leads(disk, Append(log, ev), Applied(x, ev))
    BY <1>1, <1>4, <1>9, <2>1, LeadsAppend DEF MirrorInv
  <2>3. Applied(x, ev) = [tasks |-> tasks, runs |-> Prune(rs)]
    BY <1>5, <2>1, UpsertApplied
  <2>4. Prune(rs) = rs
    <3>1. rs = [s \in DOMAIN rs |-> rs[s]]
      BY <1>8
    <3> QED
      BY <1>15, <3>1, PruneKeepsAll
  <2> QED
    BY <1>6, <2>2, <2>3, <2>4
<1> QED
  BY <1>3, <1>6, <1>8, <1>10, <1>12, <1>14, <1>15, <1>16 DEF RowChanged

(* What the attempt of run r of task t leaves to the others when it is     *)
(* taken from the fires or the panes, and what becomes of its tries.       *)
Rest(r, t) ==
  /\ handing' \in Seq(Fire)
  /\ \A i, j \in DOMAIN handing' : handing'[i].task = handing'[j].task => i = j
  /\ \A j \in DOMAIN handing' :
       /\ handing'[j].task # t
       /\ \E k \in DOMAIN handing : handing'[j] = handing[k]
  /\ \A k \in DOMAIN handing :
       handing[k].run = r \/ \E j \in DOMAIN handing' : handing'[j] = handing[k]
  /\ DOMAIN active' \subseteq DOMAIN active
  /\ \A p \in DOMAIN active' : active'[p] = active[p] /\ active[p].task # t
  /\ \A k \in DOMAIN pending : pending[k].task # t
Tries(r, attempt, end) ==
  /\ tried' \in [1 .. minted -> Seq(Attempt)]
  /\ \A s \in 1 .. minted : s # r => tried'[s] = tried[s]
  /\ tried'[r] # <<>> /\ Len(tried'[r]) <= 2
  /\ Len(tried'[r]) = 2 => tried'[r][1].end = "failed"
  /\ attempt = 1 => Len(tried'[r]) = 1
  /\ Last(tried'[r]).end = end
Queues(r, t, row) ==
  /\ pending' \in Seq(Fire) /\ announced' \in BOOLEAN
  /\ DOMAIN pending \subseteq DOMAIN pending'
  /\ \A i, j \in DOMAIN pending' : pending'[i].task = pending'[j].task => i = j
  /\ announced => announced'
  /\ \A k \in DOMAIN pending : pending'[k] = pending[k]
  /\ \A k \in DOMAIN pending' :
       k \in DOMAIN pending \/ (pending'[k] = FireRequest(r, t, row.provider) /\ announced')

(* The attempt ends: its run is over, or is queued for its retry.          *)
Over(row, end) ==
  /\ row.outcome # "Running"
  /\ row.outcome = "Success" => end = "ok"
  /\ row.outcome = "BothFailed" => end = "failed"
  /\ UNCHANGED <<pending, announced>>
Retried(r, t, row, attempt, end) ==
  /\ row.outcome = "Running" /\ attempt = 1 /\ end = "failed"
  /\ row.provider # tasks[t].provider
  /\ pending' = Append(pending, FireRequest(r, t, row.provider))
  /\ announced' = TRUE

LEMMA QueuesIs ==
  ASSUME TypeInv, Apart, NEW r, NEW t, Current(r, t), NEW row \in Row, row.task = t,
         NEW attempt, NEW end, \A k \in DOMAIN pending : pending[k].task # t,
         Over(row, end) \/ Retried(r, t, row, attempt, end)
  PROVE  /\ Queues(r, t, row)
         /\ row.outcome # "Running" => pending' = pending
         /\ row.outcome = "Running" => \E k \in DOMAIN pending' : pending'[k].run = r
<1>1. /\ pending \in Seq(Fire) /\ announced \in BOOLEAN
      /\ \A i, j \in DOMAIN pending : pending[i].task = pending[j].task => i = j
  BY DEF TypeInv, Apart
<1>2. CASE Over(row, end)
  BY <1>1, <1>2 DEF Over, Queues
<1>3. CASE Retried(r, t, row, attempt, end)
  <2>1. PICK n, f : n = Len(pending) /\ f = FireRequest(r, t, row.provider)
    OBVIOUS
  <2>2. f.task = t /\ f.run = r
    BY <2>1 DEF FireRequest
  <2>3. f \in Fire
    <3>1. r \in Nat \ {0}
      BY DEF TypeInv, IsHistory, Current, Recordable
    <3>2. t \in Tasks /\ row.provider \in Providers
      BY DEF Row
    <3> QED
      BY <2>1, <3>1, <3>2 DEF FireRequest, Fire
  <2>4. /\ n \in Nat /\ DOMAIN pending = 1 .. n /\ DOMAIN pending' = 1 .. n + 1
        /\ pending' \in Seq(Fire) /\ pending'[n + 1] = f
        /\ \A k \in 1 .. n : pending'[k] = pending[k]
    BY <1>1, <1>3, <2>1, <2>3 DEF Retried
  <2>5. announced' = TRUE /\ row.outcome = "Running"
    BY <1>3 DEF Retried
  <2>6. \A k \in 1 .. n + 1 : k = n + 1 \/ k \in 1 .. n
    BY <2>4
  <2>7. \A i, j \in DOMAIN pending' : pending'[i].task = pending'[j].task => i = j
    BY <1>1, <2>2, <2>4, <2>6
  <2>8. n + 1 \in DOMAIN pending' /\ pending'[n + 1].run = r
    BY <2>2, <2>4
  <2> QED
    BY <2>1, <2>4, <2>5, <2>6, <2>7, <2>8 DEF Queues
<1> QED
  BY <1>2, <1>3

(* The copies of rows, on their way and in the table, agree with attempts  *)
(* of which that of run r changes.                                         *)
LEMMA CopiesSay ==
  ASSUME Inv, NEW r \in DOMAIN runs, runs[r].outcome = "Running", NEW row, RowChanged(r, row),
         Says(r, row)', \A s \in 1 .. minted : s # r => EndOf(s)' = EndOf(s), disk' = disk
  PROVE  /\ (\A s \in DOMAIN disk.runs : Says(s, disk.runs[s]))'
         /\ (\A k \in DOMAIN log : log[k].kind = "run" => Says(log[k].run, log[k].row))'
<1>1. TypeInv /\ RowInv /\ CopyInv
  BY DEF Inv
<1>2. PICK m : m = minted
  OBVIOUS
<1>3. ASSUME NEW s \in 1 .. m, NEW o, Says(s, o), s = r => o.outcome = "Running"
      PROVE  Says(s, o)'
  <2>1. CASE s = r
    BY <1>3, <2>1 DEF Says
  <2>2. CASE s # r
    BY <1>2, <1>3, <2>2 DEF Says
  <2> QED
    BY <2>1, <2>2
<1>4. ASSUME NEW s \in DOMAIN disk.runs
      PROVE  Says(s, disk.runs[s])'
  <2>1. s \in 1 .. m /\ Says(s, disk.runs[s])
    BY <1>1, <1>2 DEF TypeInv, IsHistory, RowInv
  <2>2. s = r => disk.runs[s].outcome = "Running"
    BY <1>1 DEF CopyInv, Copies, Agree
  <2>3. PICK o : o = disk.runs[s]
    OBVIOUS
  <2>4. Says(s, o)'
    BY <1>3, <2>1, <2>2, <2>3
  <2> QED
    BY <2>3, <2>4 DEF Says
<1>5. ASSUME NEW k \in DOMAIN log', log'[k].kind = "run"
      PROVE  Says(log[k].run, log[k].row)'
  <2>1. CASE log'[k].run = r /\ log'[k].row = row
    BY <2>1 DEF Says
  <2>2. CASE k \in DOMAIN log /\ log'[k] = log[k]
    <3>1. PICK s, o : s = log[k].run /\ o = log[k].row
      OBVIOUS
    <3>2. log[k].kind = "run" /\ log[k] \in Event
      BY <1>1, <1>5, <2>2 DEF TypeInv
    <3>3. s \in 1 .. m
      <4>1. s <= m /\ m \in Nat
        BY <1>1, <1>2, <2>2, <3>1, <3>2 DEF TypeInv
      <4>2. s \in Nat \ {0}
        BY <3>1, <3>2 DEF Event
      <4> QED
        BY <4>1, <4>2
    <3>4. Says(s, o)
      BY <1>1, <2>2, <3>1, <3>2 DEF RowInv
    <3>5. s = r => o.outcome = "Running"
      BY <1>1, <2>2, <3>1, <3>2 DEF CopyInv, Copies, Agree
    <3>6. Says(s, o)'
      BY <1>3, <3>3, <3>4, <3>5
    <3> QED
      BY <2>2, <3>1, <3>6 DEF Says
  <2> QED
    BY <1>5, <2>1, <2>2 DEF RowChanged
<1> QED
  BY <1>4, <1>5

LEMMA AttemptEnds ==
  ASSUME Inv, NEW r, NEW t, Current(r, t), NEW row \in Row, row.task = t, SetRow(r, row),
         NEW attempt, NEW end, Rest(r, t), Tries(r, attempt, end),
         Over(row, end) \/ Retried(r, t, row, attempt, end),
         UNCHANGED <<now, tasks, window, disk, minted, clicks, launches>>, window = TRUE,
         panes' \in Seq(PaneState), DOMAIN panes' = DOMAIN panes
  PROVE  Inv'
<1>1. TypeInv /\ Apart /\ CurrentInv /\ WindowInv /\ AttemptInv /\ RowInv /\ CopyInv /\ MirrorInv
  BY DEF Inv, AttemptsInv
<1>2. /\ now' = now /\ tasks' = tasks /\ window' = window /\ disk' = disk /\ minted' = minted
      /\ clicks' = clicks /\ launches' = launches
  OBVIOUS
<1>3. RowChanged(r, row)
  BY SetRowIs
<1>4. /\ Queues(r, t, row)
      /\ row.outcome # "Running" => pending' = pending
      /\ row.outcome = "Running" => \E k \in DOMAIN pending' : pending'[k].run = r
  <2>1. \A k \in DOMAIN pending : pending[k].task # t
    BY DEF Rest
  <2> QED
    BY <1>1, <2>1, QueuesIs
<1>5. /\ t \in DOMAIN tasks /\ r \in DOMAIN runs /\ runs[r].task = t
      /\ runs[r].outcome = "Running" /\ \A s \in DOMAIN runs : runs[s].task = t => s <= r
  BY DEF Current, Recordable
<1>6. PICK m : m = minted
  OBVIOUS
<1>7. /\ m \in Nat /\ DOMAIN runs \subseteq 1 .. m /\ r \in 1 .. m
      /\ pending \in Seq(Fire) /\ handing \in Seq(Fire)
      /\ DOMAIN active \subseteq DOMAIN panes
      /\ \A p \in DOMAIN active : active[p] \in [run : 1 .. m, task : Tasks, attempt : {1, 2}]
  BY <1>1, <1>5, <1>6 DEF TypeInv, IsHistory
<1>8. TypeInv'
  <2>1. IsTable(tasks)' /\ IsTable(disk.tasks)' /\ IsHistory(disk.runs)'
    BY <1>1, <1>2 DEF TypeInv, IsTable, IsHistory
  <2>2. IsHistory(runs)'
    BY <1>1, <1>2, <1>3 DEF TypeInv, IsHistory, RowChanged
  <2>3. pending' \in Seq(Fire) /\ announced' \in BOOLEAN /\ handing' \in Seq(Fire)
    BY <1>4 DEF Queues, Rest
  <2>4. /\ DOMAIN active' \subseteq DOMAIN panes'
        /\ \A p \in DOMAIN active' :
             active'[p] \in [run : 1 .. minted', task : Tasks, attempt : {1, 2}]
    <3>1. DOMAIN active' \subseteq DOMAIN active /\ \A p \in DOMAIN active' : active'[p] = active[p]
      BY DEF Rest
    <3> QED
      BY <1>2, <1>6, <1>7, <3>1
  <2>5. /\ log' \in Seq(Event)
        /\ \A k \in DOMAIN log' : log'[k].kind = "run" => log'[k].run <= minted'
    BY <1>2, <1>3 DEF RowChanged
  <2>6. tried' \in [1 .. minted' -> Seq(Attempt)]
    BY <1>2 DEF Tries
  <2> QED
    BY <1>1, <1>2, <2>1, <2>2, <2>3, <2>4, <2>5, <2>6 DEF TypeInv
<1>9. \A k \in DOMAIN pending' :
        \/ k \in DOMAIN pending /\ pending'[k] = pending[k] /\ pending[k].task # t
        \/ /\ k \notin DOMAIN pending /\ pending'[k].task = t /\ pending'[k].run = r /\ announced'
           /\ row.outcome = "Running"
  <2>1. FireRequest(r, t, row.provider).task = t /\ FireRequest(r, t, row.provider).run = r
    BY DEF FireRequest
  <2>2. /\ \A k \in DOMAIN pending : pending'[k] = pending[k] /\ pending[k].task # t
        /\ \A k \in DOMAIN pending' :
             k \in DOMAIN pending \/ (pending'[k] = FireRequest(r, t, row.provider) /\ announced')
    BY <1>4 DEF Queues, Rest
  <2>3. \A k \in DOMAIN pending' : k \notin DOMAIN pending => row.outcome = "Running"
    BY <1>4
  <2> QED
    BY <2>1, <2>2, <2>3
<1>10. /\ \A j \in DOMAIN handing' : handing'[j].task # t
                                     /\ \E k \in DOMAIN handing : handing'[j] = handing[k]
       /\ \A p \in DOMAIN active' : p \in DOMAIN active /\ active'[p] = active[p]
                                    /\ active[p].task # t
       /\ \A i, j \in DOMAIN handing' : handing'[i].task = handing'[j].task => i = j
       /\ \A k \in DOMAIN handing :
            handing[k].run = r \/ \E j \in DOMAIN handing' : handing'[j] = handing[k]
  BY DEF Rest
<1>11. Apart'
  <2>1. \A i, j \in DOMAIN pending' : pending'[i].task = pending'[j].task => i = j
    BY <1>4 DEF Queues
  <2>2. \A i \in DOMAIN pending', j \in DOMAIN handing' : pending'[i].task # handing'[j].task
    BY <1>1, <1>9, <1>10 DEF Apart
  <2>3. \A i \in DOMAIN pending', p \in DOMAIN active' : pending'[i].task # active'[p].task
    BY <1>1, <1>9, <1>10 DEF Apart
  <2>4. \A j \in DOMAIN handing', p \in DOMAIN active' : handing'[j].task # active'[p].task
    BY <1>1, <1>10 DEF Apart
  <2>5. \A p, q \in DOMAIN active' : active'[p].task = active'[q].task => p = q
    BY <1>1, <1>10 DEF Apart
  <2> QED
    BY <1>10, <2>1, <2>2, <2>3, <2>4, <2>5 DEF Apart
<1>12. ASSUME NEW s, NEW u, Current(s, u), s = r => row.outcome = "Running"
       PROVE  Current(s, u)'
  <2>1. /\ DOMAIN runs' = DOMAIN runs /\ runs'[r] = row
        /\ \A x \in DOMAIN runs : x # r => runs'[x] = runs[x]
    BY <1>3 DEF RowChanged
  <2>2. \A x \in DOMAIN runs : runs'[x].task = runs[x].task
    BY <1>5, <2>1
  <2>3. /\ u \in DOMAIN tasks /\ s \in DOMAIN runs /\ runs[s].task = u
        /\ runs[s].outcome = "Running" /\ \A x \in DOMAIN runs : runs[x].task = u => x <= s
    BY <1>12 DEF Current, Recordable
  <2>4. runs'[s].outcome = "Running"
    BY <1>12, <2>1, <2>3
  <2> QED
    BY <1>2, <2>1, <2>2, <2>3, <2>4 DEF Current, Recordable
<1>13. \A s, u : Current(s, u) /\ u # t => s # r /\ s \in DOMAIN runs
  BY <1>5 DEF Current, Recordable
<1>14. /\ \A k \in DOMAIN pending : Current(pending[k].run, pending[k].task)
       /\ \A k \in DOMAIN handing : Current(handing[k].run, handing[k].task)
       /\ \A p \in DOMAIN active : Current(active[p].run, active[p].task)
  BY <1>1 DEF CurrentInv
<1>15. CurrentInv'
  <2>1. (\A p \in DOMAIN active : Current(active[p].run, active[p].task))'
    BY <1>10, <1>12, <1>13, <1>14
  <2>2. (\A k \in DOMAIN pending : Current(pending[k].run, pending[k].task))'
    <3>1. ASSUME NEW k \in DOMAIN pending'
          PROVE  Current(pending[k].run, pending[k].task)'
      <4>1. CASE k \in DOMAIN pending /\ pending'[k] = pending[k] /\ pending[k].task # t
        BY <1>12, <1>13, <1>14, <4>1
      <4>2. CASE pending'[k].task = t /\ pending'[k].run = r /\ row.outcome = "Running"
        BY <1>12, <4>2
      <4> QED
        BY <1>9, <4>1, <4>2
    <3> QED
      BY <3>1
  <2>3. (\A k \in DOMAIN handing : Current(handing[k].run, handing[k].task))'
    BY <1>10, <1>12, <1>13, <1>14
  <2> QED
    BY <2>1, <2>2, <2>3 DEF CurrentInv
<1>16. WindowInv'
  BY <1>2 DEF WindowInv
<1>17. /\ \A s \in 1 .. m : s # r => tried'[s] = tried[s] /\ EndOf(s)' = EndOf(s)
       /\ tried'[r] # <<>> /\ EndOf(r)' = end
  <2>1. /\ \A s \in 1 .. m : s # r => tried'[s] = tried[s]
        /\ tried'[r] # <<>> /\ Last(tried'[r]).end = end
    BY <1>6 DEF Tries
  <2> QED
    BY <2>1 DEF EndOf
<1>18. /\ \A k \in DOMAIN pending : pending[k].task # t => pending[k].run \in 1 .. m
                                                          /\ pending[k].run # r
       /\ \A k \in DOMAIN handing : handing[k].task # t => handing[k].run \in 1 .. m
                                                          /\ handing[k].run # r
       /\ \A p \in DOMAIN active : active[p].task # t => active[p].run \in 1 .. m
                                                       /\ active[p].run # r
  BY <1>7, <1>13, <1>14
<1>19. AttemptInv'
  <2>1. /\ \A s \in 1 .. m : /\ Len(tried[s]) <= 2
                            /\ Len(tried[s]) = 2 => tried[s][1].end = "failed"
        /\ \A k \in DOMAIN pending :
             tried[pending[k].run] = <<>> \/ (Retrying(pending[k]) /\ announced /\ window)
        /\ \A k \in DOMAIN handing : tried[handing[k].run] = <<>> \/ Retrying(handing[k])
        /\ \A p \in DOMAIN active :
             /\ tried[active[p].run] # <<>>
             /\ EndOf(active[p].run) = "open"
             /\ active[p].attempt = 1 => Len(tried[active[p].run]) = 1
    BY <1>1, <1>6 DEF AttemptInv
  <2>2. \A s \in 1 .. m : /\ Len(tried'[s]) <= 2
                          /\ Len(tried'[s]) = 2 => tried'[s][1].end = "failed"
    <3>1. /\ Len(tried'[r]) <= 2
          /\ Len(tried'[r]) = 2 => tried'[r][1].end = "failed"
      BY DEF Tries
    <3>2. \A s \in 1 .. m : s # r => tried'[s] = tried[s]
      BY <1>17
    <3>3. ASSUME NEW s \in 1 .. m
          PROVE  Len(tried'[s]) <= 2 /\ (Len(tried'[s]) = 2 => tried'[s][1].end = "failed")
      <4>1. CASE s = r
        BY <3>1, <4>1
      <4>2. CASE s # r
        <5>1. tried'[s] = tried[s]
          BY <3>2, <4>2
        <5>2. Len(tried[s]) <= 2 /\ (Len(tried[s]) = 2 => tried[s][1].end = "failed")
          BY <1>1, <1>6 DEF AttemptInv
        <5> QED
          BY <5>1, <5>2
      <4> QED
        BY <4>1, <4>2
    <3> QED
      BY <3>3
  <2>3. ASSUME NEW f, f.run \in 1 .. m, f.run # r, f.run \in DOMAIN runs, Retrying(f)
        PROVE  Retrying(f)'
    <3>1. runs'[f.run] = runs[f.run]
      BY <1>3, <2>3 DEF RowChanged
    <3>2. tried'[f.run] = tried[f.run]
      BY <1>17, <2>3
    <3> QED
      BY <1>2, <2>3, <3>1, <3>2 DEF Retrying
  <2>4. (\A p \in DOMAIN active :
           /\ tried[active[p].run] # <<>>
           /\ EndOf(active[p].run) = "open"
           /\ active[p].attempt = 1 => Len(tried[active[p].run]) = 1)'
    BY <1>10, <1>17, <1>18, <2>1
  <2>5. \A s \in 1 .. m : s # r => tried'[s] = tried[s]
    BY <1>17
  <2>6. (\A k \in DOMAIN pending :
           tried[pending[k].run] = <<>> \/ (Retrying(pending[k]) /\ announced /\ window))'
    <3>1. ASSUME NEW k \in DOMAIN pending'
          PROVE  (tried[pending[k].run] = <<>> \/ (Retrying(pending[k]) /\ announced /\ window))'
      <4>1. CASE k \in DOMAIN pending /\ pending'[k] = pending[k] /\ pending[k].task # t
        <5>1. PICK f : f = pending[k]
          OBVIOUS
        <5>2. /\ f.run \in 1 .. m /\ f.run # r /\ f.run \in DOMAIN runs
              /\ tried[f.run] = <<>> \/ (Retrying(f) /\ announced)
          BY <1>13, <1>14, <1>18, <2>1, <4>1, <5>1
        <5>3. tried'[f.run] = tried[f.run] /\ (announced => announced')
          BY <1>4, <2>5, <5>2 DEF Queues
        <5>4. tried'[f.run] = <<>> \/ (Retrying(f)' /\ announced' /\ window')
          BY <1>2, <2>3, <5>2, <5>3
        <5> QED
          BY <4>1, <5>1, <5>4 DEF Retrying
      <4>2. CASE /\ pending'[k].task = t /\ pending'[k].run = r /\ announced'
                 /\ row.outcome = "Running"
        <5>1. attempt = 1 /\ end = "failed" /\ row.provider # tasks[t].provider
          BY <4>2 DEF Over, Retried
        <5>2. /\ Len(tried'[r]) = 1 /\ Last(tried'[r]).end = "failed"
          BY <5>1 DEF Tries
        <5>3. tried'[r][1].end = "failed"
          BY <5>2 DEF Last
        <5>4. runs'[r] = row
          BY <1>3 DEF RowChanged
        <5> QED
          BY <1>2, <4>2, <5>1, <5>2, <5>3, <5>4 DEF Retrying
      <4> QED
        BY <1>9, <4>1, <4>2
    <3> QED
      BY <3>1
  <2>7. (\A k \in DOMAIN handing : tried[handing[k].run] = <<>> \/ Retrying(handing[k]))'
    <3>1. ASSUME NEW k \in DOMAIN handing'
          PROVE  (tried[handing[k].run] = <<>> \/ Retrying(handing[k]))'
      <4>1. PICK j \in DOMAIN handing : handing'[k] = handing[j] /\ handing[j].task # t
        BY <1>10
      <4>2. PICK f : f = handing[j]
        OBVIOUS
      <4>3. /\ f.run \in 1 .. m /\ f.run # r /\ f.run \in DOMAIN runs
            /\ tried[f.run] = <<>> \/ Retrying(f)
        BY <1>13, <1>14, <1>18, <2>1, <4>1, <4>2
      <4>4. tried'[f.run] = <<>> \/ Retrying(f)'
        BY <2>3, <2>5, <4>3
      <4> QED
        BY <4>1, <4>2, <4>4 DEF Retrying
    <3> QED
      BY <3>1
  <2> QED
    BY <1>2, <1>6, <2>2, <2>4, <2>6, <2>7 DEF AttemptInv
<1>20. RowInv'
  <2>1. /\ DOMAIN runs' = DOMAIN runs /\ runs'[r] = row
        /\ \A s \in DOMAIN runs : s # r => runs'[s] = runs[s]
        /\ \A k \in DOMAIN log' : log'[k].kind = "run" =>
             \/ log'[k].run = r /\ log'[k].row = row
             \/ k \in DOMAIN log /\ log'[k] = log[k]
    BY <1>3 DEF RowChanged
  <2>2. /\ row.outcome = "Success" => end = "ok"
        /\ row.outcome = "BothFailed" => end = "failed"
    BY DEF Over, Retried
  <2>3. Says(r, row)'
    BY <1>17, <2>2 DEF Says
  <2>4. ASSUME NEW s \in 1 .. m, NEW o, Says(s, o), s = r => o.outcome = "Running"
        PROVE  Says(s, o)'
    <3>1. CASE s = r
      BY <2>4, <3>1 DEF Says
    <3>2. CASE s # r
      BY <1>17, <2>4, <3>2 DEF Says
    <3> QED
      BY <3>1, <3>2
  <2>5. ASSUME NEW s \in DOMAIN runs'
        PROVE  /\ Says(s, runs[s])'
               /\ runs'[s].outcome = "Running" => EndOf(s)' = "open" \/ Waiting(s)'
    <3>1. CASE s = r
      <4>1. runs'[s].outcome = "Running" => Waiting(s)'
        BY <1>4, <2>1, <3>1 DEF Waiting
      <4> QED
        BY <2>1, <2>3, <3>1, <4>1
    <3>2. CASE s # r
      <4>1. s \in DOMAIN runs /\ s \in 1 .. m /\ runs'[s] = runs[s]
        BY <1>7, <2>1, <3>2
      <4>2. Says(s, runs[s]) /\ (runs[s].outcome = "Running" => EndOf(s) = "open" \/ Waiting(s))
        BY <1>1, <4>1 DEF RowInv
      <4>3. PICK o : o = runs[s]
        OBVIOUS
      <4>4. Says(s, o)'
        BY <2>4, <3>2, <4>1, <4>2, <4>3
      <4>5. Waiting(s) => Waiting(s)'
        <5>1. ASSUME NEW k \in DOMAIN pending, pending[k].run = s
              PROVE  k \in DOMAIN pending' /\ pending'[k].run = s
          BY <1>4, <5>1 DEF Queues
        <5>2. ASSUME NEW k \in DOMAIN handing, handing[k].run = s
              PROVE  \E j \in DOMAIN handing' : handing'[j].run = s
          BY <1>10, <3>2, <5>2
        <5> QED
          BY <5>1, <5>2 DEF Waiting
      <4>6. EndOf(s)' = EndOf(s)
        BY <1>17, <3>2, <4>1
      <4> QED
        BY <4>1, <4>2, <4>3, <4>4, <4>5, <4>6 DEF Says
    <3> QED
      BY <3>1, <3>2
  <2>6. /\ (\A s \in DOMAIN disk.runs : Says(s, disk.runs[s]))'
        /\ (\A k \in DOMAIN log : log[k].kind = "run" => Says(log[k].run, log[k].row))'
    BY <1>2, <1>3, <1>5, <1>6, <1>17, <2>3, CopiesSay
  <2> QED
    BY <1>2, <2>5, <2>6 DEF RowInv
<1>21. CopyInv' /\ MirrorInv'
  <2>1. /\ Copies(disk.runs, log', runs')
        /\ Pruned(runs') /\ Leads(disk, log', [tasks |-> tasks, runs |-> runs'])
    BY <1>3 DEF RowChanged
  <2>2. Pruned(disk.runs)
    BY <1>1 DEF MirrorInv
  <2> QED
    BY <1>2, <2>1, <2>2 DEF CopyInv, MirrorInv
<1> QED
  BY <1>8, <1>11, <1>15, <1>16, <1>19, <1>20, <1>21 DEF Inv, AttemptsInv

LEMMA FinishIs ==
  ASSUME TypeInv, NEW a, Current(a.run, a.task), a.attempt \in {1, 2}, NEW success \in BOOLEAN,
         FinishAttempt(a, success), NEW end, end = IF success THEN "ok" ELSE "failed"
  PROVE  \E row \in Row : /\ row.task = a.task /\ SetRow(a.run, row)
                          /\ Over(row, end) \/ Retried(a.run, a.task, row, a.attempt, end)
<1>1. PICK r, t, old : r = a.run /\ t = a.task /\ old = runs[r]
  OBVIOUS
<1>2. r \in DOMAIN runs /\ old.task = t /\ old.outcome = "Running" /\ old \in Row
      /\ t \in DOMAIN tasks /\ tasks[t] \in Task
  BY <1>1 DEF Current, Recordable, TypeInv, IsHistory, IsTable
<1>3. CASE Retries(a, success)
  <2>1. PICK row : row = [old EXCEPT !.provider = Fallback(t)]
    OBVIOUS
  <2>2. ~success /\ a.attempt = 1 /\ Fallback(t) # None
    BY <1>1, <1>3 DEF Retries
  <2>3. Fallback(t) \in Providers /\ Fallback(t) # tasks[t].provider
    BY <1>2, <2>2 DEF Fallback, Task
  <2>4. /\ row \in Row /\ row.task = t /\ row.outcome = "Running" /\ row.provider = Fallback(t)
    BY <1>2, <2>1, <2>3 DEF Row
  <2>5. /\ SetRow(r, row)
        /\ pending' = Append(pending, FireRequest(r, t, Fallback(t))) /\ announced' = TRUE
    BY <1>1, <1>3, <2>1 DEF FinishAttempt
  <2>6. Retried(r, t, row, a.attempt, end)
    BY <2>2, <2>3, <2>4, <2>5 DEF Retried
  <2> QED
    BY <1>1, <2>4, <2>5, <2>6
<1>4. CASE ~Retries(a, success)
  <2>1. PICK o : o = IF success THEN "Success" ELSE IF a.attempt = 1 THEN "Error" ELSE "BothFailed"
    OBVIOUS
  <2>2. o \in Outcomes /\ o # "Running"
        /\ (o = "Success" => end = "ok") /\ (o = "BothFailed" => end = "failed")
    BY <2>1 DEF Outcomes
  <2>3. PICK row : row = [old EXCEPT !.outcome = o]
    OBVIOUS
  <2>4. row \in Row /\ row.task = t /\ row.outcome = o
    BY <1>2, <2>2, <2>3 DEF Row
  <2>5. SetRow(r, row) /\ UNCHANGED <<pending, announced>>
    BY <1>1, <1>4, <2>1, <2>3 DEF FinishAttempt
  <2>6. Over(row, end)
    BY <2>2, <2>4, <2>5 DEF Over
  <2> QED
    BY <1>1, <2>4, <2>5, <2>6
<1> QED
  BY <1>3, <1>4

LEMMA SessionEndedKeeps ==
  ASSUME Inv, NEW p \in DOMAIN panes, NEW success \in BOOLEAN, SessionEnded(p, success)
  PROVE  Inv'
<1>1. TypeInv /\ Apart /\ CurrentInv /\ AttemptInv
  BY DEF Inv, AttemptsInv
<1>2. panes[p] \in PaneState /\ panes \in Seq(PaneState)
  BY <1>1 DEF TypeInv
<1>3. /\ Idle /\ panes[p].turn # "closed"
      /\ \E turn \in {"idle", "dead"} : Turn(p, turn)
      /\ UNCHANGED <<now, tasks, handing, window, disk, minted, clicks, launches>>
  BY DEF SessionEnded, Outside
<1>4. \E pane \in PaneState : panes' = [panes EXCEPT ![p] = pane]
  <2>1. PICK turn \in {"idle", "dead"} : Turn(p, turn)
    BY <1>3
  <2>2. PICK pane : pane = [panes[p] EXCEPT !.turn = turn]
    OBVIOUS
  <2>3. pane \in PaneState
    BY <1>2, <2>2 DEF PaneState
  <2> QED
    BY <2>1, <2>2, <2>3 DEF Turn
<1>5. CASE ~(panes[p].id = "minted" /\ p \in DOMAIN active)
  <2>1. UNCHANGED <<active, runs, log, pending, announced, tried>>
    BY <1>5 DEF SessionEnded
  <2>2. UNCHANGED <<now, main, handing, window, disk, log, minted, clicks, launches, tried>>
    BY <1>3, <2>1 DEF main
  <2> QED
    BY <1>3, <1>4, <2>2, PaneKeeps
<1>6. CASE panes[p].id = "minted" /\ p \in DOMAIN active
  <2>1. PICK a, r, t : a = active[p] /\ r = a.run /\ t = a.task
    OBVIOUS
  <2>2. PICK end : end = IF success THEN "ok" ELSE "failed"
    OBVIOUS
  <2>3. /\ active' = Keep(active, DOMAIN active \ {p}) /\ FinishAttempt(a, success)
        /\ tried' = [tried EXCEPT ![r][Len(tried[r])].end = end]
    BY <1>6, <2>1, <2>2 DEF SessionEnded, Consumed
  <2>4. /\ Current(r, t) /\ a.attempt \in {1, 2} /\ r \in 1 .. minted
        /\ tried[r] # <<>>
        /\ a.attempt = 1 => Len(tried[r]) = 1
    BY <1>1, <1>6, <2>1 DEF CurrentInv, AttemptInv, TypeInv
  <2>5. PICK row \in Row : /\ row.task = t /\ SetRow(r, row)
                           /\ Over(row, end) \/ Retried(r, t, row, a.attempt, end)
    BY <1>1, <2>1, <2>2, <2>3, <2>4, FinishIs
  <2>6. handing = <<>> /\ handing' = handing /\ DOMAIN handing = {} /\ handing \in Seq(Fire)
    BY <1>1, <1>3 DEF Idle, TypeInv
  <2>7. DOMAIN active' = DOMAIN active \ {p} /\ \A q \in DOMAIN active' : active'[q] = active[q]
    <3>1. PICK live, S : live = Keep(active, S) /\ S = DOMAIN active \ {p}
      OBVIOUS
    <3>2. /\ DOMAIN Keep(active, S) = DOMAIN active \cap S
          /\ \A q \in DOMAIN active \cap S : Keep(active, S)[q] = active[q]
      BY KeepIs
    <3> QED
      BY <2>3, <3>1, <3>2
  <2>8. /\ \A q \in DOMAIN active' : active[q].task # t
        /\ \A k \in DOMAIN pending : pending[k].task # t
    BY <1>1, <1>6, <2>1, <2>7 DEF Apart
  <2>9. Rest(r, t)
    BY <2>6, <2>7, <2>8 DEF Rest
  <2>10. Tries(r, a.attempt, end)
    <3>1. PICK u, n : u = tried[r] /\ n = Len(tried[r])
      OBVIOUS
    <3>2. /\ tried \in [1 .. minted -> Seq(Attempt)] /\ u \in Seq(Attempt)
          /\ n \in Nat /\ n = Len(u) /\ n <= 2 /\ n # 0
          /\ n = 2 => u[1].end = "failed"
      <4>1. tried \in [1 .. minted -> Seq(Attempt)] /\ u \in Seq(Attempt)
        BY <1>1, <2>4, <3>1 DEF TypeInv
      <4>2. n \in Nat /\ n = Len(u) /\ n # 0
        BY <2>4, <3>1, <4>1
      <4>3. n <= 2 /\ (n = 2 => u[1].end = "failed")
        BY <1>1, <2>4, <3>1 DEF AttemptInv
      <4> QED
        BY <4>1, <4>2, <4>3
    <3>3. PICK last : last = [u[n] EXCEPT !.end = end]
      OBVIOUS
    <3>4. u[n] \in Attempt /\ n \in 1 .. n
      BY <3>2
    <3>5. last \in Attempt /\ last.end = end
      BY <2>2, <3>3, <3>4 DEF Attempt
    <3>6. PICK v : v = [u EXCEPT ![n] = last]
      OBVIOUS
    <3>7. /\ v \in Seq(Attempt) /\ Len(v) = n /\ v[n] = last
          /\ \A i \in 1 .. n : i # n => v[i] = u[i]
      BY <3>2, <3>4, <3>5, <3>6
    <3>8. tried' = [tried EXCEPT ![r] = v]
      BY <2>3, <3>1, <3>3, <3>6
    <3>9. /\ tried' \in [1 .. minted -> Seq(Attempt)] /\ tried'[r] = v
          /\ \A s \in 1 .. minted : s # r => tried'[s] = tried[s]
      BY <2>4, <3>2, <3>7, <3>8
    <3>10. v # <<>> /\ Last(v).end = end /\ (n = 2 => v[1].end = "failed")
      BY <3>2, <3>5, <3>7 DEF Last
    <3>11. a.attempt = 1 => n = 1
      BY <2>4, <3>1
    <3>12. /\ tried'[r] # <<>> /\ Len(tried'[r]) <= 2 /\ Last(tried'[r]).end = end
           /\ Len(tried'[r]) = 2 => tried'[r][1].end = "failed"
           /\ a.attempt = 1 => Len(tried'[r]) = 1
      <4>1. Len(v) = n /\ n <= 2 /\ tried'[r] = v
        BY <3>2, <3>7, <3>9
      <4> QED
        BY <3>10, <3>11, <4>1
    <3> QED
      BY <3>9, <3>12 DEF Tries
  <2>11. panes' \in Seq(PaneState) /\ DOMAIN panes' = DOMAIN panes /\ window = TRUE
    <3>1. window = TRUE
      BY <1>3, PaneOpen
    <3>2. PICK pane \in PaneState : panes' = [panes EXCEPT ![p] = pane]
      BY <1>4
    <3> QED
      BY <1>2, <3>1, <3>2
  <2>12. UNCHANGED <<now, tasks, window, disk, minted, clicks, launches>>
    BY <1>3
  <2> QED
    BY <2>4, <2>5, <2>9, <2>10, <2>11, <2>12, AttemptEnds
<1> QED
  BY <1>5, <1>6

(* The fire that is handled next.                                          *)
Handled(f) ==
  /\ handing \in Seq(Fire) /\ handing # <<>> /\ f = handing[1] /\ f = Head(handing)
  /\ 1 \in DOMAIN handing /\ f \in Fire
  /\ Current(f.run, f.task) /\ f.run \in 1 .. minted
  /\ window = TRUE
  /\ tried[f.run] = <<>> \/ Retrying(f)
LEMMA HandledIs ==
  ASSUME Inv, handing # <<>>, NEW f, f = Head(handing)
  PROVE  Handled(f)
<1>1. TypeInv /\ CurrentInv /\ WindowInv /\ AttemptInv
  BY DEF Inv, AttemptsInv
<1>2. handing \in Seq(Fire) /\ f = handing[1] /\ 1 \in DOMAIN handing /\ f \in Fire
  BY <1>1 DEF TypeInv
<1>3. Current(f.run, f.task) /\ (tried[f.run] = <<>> \/ Retrying(f))
  BY <1>1, <1>2 DEF CurrentInv, AttemptInv
<1>4. f.run \in 1 .. minted
  BY <1>1, <1>3 DEF Current, Recordable, TypeInv, IsHistory
<1>5. window = TRUE
  BY <1>1 DEF WindowInv, TypeInv
<1> QED
  BY <1>2, <1>3, <1>4, <1>5 DEF Handled

(* A pane of the retry sees that it is one.                                *)
LEMMA FirstTry ==
  ASSUME TypeInv, NEW f, Handled(f)
  PROVE  /\ AttemptOf(f.run) \in {1, 2}
         /\ AttemptOf(f.run) = 1 => tried[f.run] = <<>>
BY DEF Handled, Retrying, AttemptOf, Current, Recordable

LEMMA TryAgain ==
  ASSUME Inv, NEW f, Handled(f), NEW try \in Attempt,
         tried' = [tried EXCEPT ![f.run] = Append(@, try)]
  PROVE  Tries(f.run, AttemptOf(f.run), try.end)
<1>1. PICK r, u, n : r = f.run /\ u = tried[r] /\ n = Len(u)
  OBVIOUS
<1>2. /\ tried \in [1 .. minted -> Seq(Attempt)] /\ r \in 1 .. minted /\ u \in Seq(Attempt)
      /\ n \in Nat
  BY <1>1 DEF Inv, TypeInv, Handled
<1>3. n = 0 \/ (n = 1 /\ u[1].end = "failed")
  BY <1>1, <1>2 DEF Handled, Retrying
<1>4. PICK v : v = Append(u, try)
  OBVIOUS
<1>5. /\ v \in Seq(Attempt) /\ Len(v) = n + 1 /\ v[n + 1] = try
      /\ \A i \in 1 .. n : v[i] = u[i]
  BY <1>1, <1>2, <1>4
<1>6. /\ tried' \in [1 .. minted -> Seq(Attempt)] /\ tried'[r] = v
      /\ \A s \in 1 .. minted : s # r => tried'[s] = tried[s]
  BY <1>1, <1>2, <1>4, <1>5
<1>7. v # <<>> /\ Last(v).end = try.end /\ (Len(v) = 2 => v[1].end = "failed") /\ Len(v) <= 2
  BY <1>2, <1>3, <1>5 DEF Last
<1>8. AttemptOf(r) = 1 => Len(v) = 1
  <2>1. AttemptOf(r) = 1 => u = <<>>
    BY <1>1, FirstTry DEF Inv
  <2> QED
    BY <1>5, <2>1, <1>1
<1> QED
  BY <1>1, <1>6, <1>7, <1>8 DEF Tries

LEMMA HandingRest ==
  ASSUME Inv, NEW f, Handled(f), handing' = Tail(handing)
  PROVE  /\ handing' \in Seq(Fire)
         /\ \A i, j \in DOMAIN handing' : handing'[i].task = handing'[j].task => i = j
         /\ \A j \in DOMAIN handing' :
              /\ handing'[j].task # f.task
              /\ \E k \in DOMAIN handing : handing'[j] = handing[k]
         /\ \A k \in DOMAIN handing :
              handing[k].run = f.run \/ \E j \in DOMAIN handing' : handing'[j] = handing[k]
         /\ \A p \in DOMAIN active : active[p].task # f.task
         /\ \A k \in DOMAIN pending : pending[k].task # f.task
<1>1. Apart
  BY DEF Inv, AttemptsInv
<1>2. /\ handing \in Seq(Fire) /\ handing # <<>> /\ f = handing[1] /\ 1 \in DOMAIN handing
  BY DEF Handled
<1>3. /\ handing' \in Seq(Fire)
      /\ \A j \in DOMAIN handing' : j \in Int /\ j + 1 \in DOMAIN handing /\ j + 1 # 1
                                    /\ handing'[j] = handing[j + 1]
      /\ \A k \in DOMAIN handing :
           k = 1 \/ (k - 1 \in DOMAIN handing' /\ handing[k] = handing'[k - 1])
  BY <1>2, TailIs
<1>4. \A i, j \in DOMAIN handing : handing[i].task = handing[j].task => i = j
  BY <1>1 DEF Apart
<1>5. \A i, j \in DOMAIN handing' : handing'[i].task = handing'[j].task => i = j
  BY <1>3, <1>4
<1>6. \A j \in DOMAIN handing' : handing'[j].task # f.task
  BY <1>2, <1>3, <1>4
<1>7. /\ \A p \in DOMAIN active : active[p].task # f.task
      /\ \A k \in DOMAIN pending : pending[k].task # f.task
  BY <1>1, <1>2 DEF Apart
<1> QED
  BY <1>2, <1>3, <1>5, <1>6, <1>7

LEMMA FireFailedKeeps ==
  ASSUME Inv, FireFailed
  PROVE  Inv'
<1>1. PICK f : f = Head(handing)
  OBVIOUS
<1>2. Handled(f) /\ TypeInv /\ panes \in Seq(PaneState)
  BY <1>1, HandledIs DEF FireFailed, Inv, TypeInv
<1>3. PICK r, t, try : r = f.run /\ t = f.task /\ try = [provider |-> f.provider, end |-> "failed"]
  OBVIOUS
<1>4. /\ r \in DOMAIN runs /\ runs[r].task = t /\ Current(r, t) /\ window = TRUE
      /\ try \in Attempt /\ try.end = "failed"
  BY <1>2, <1>3 DEF Handled, Current, Recordable, Attempt, Fire
<1>5. PICK a : a = [run |-> r, task |-> t, attempt |-> AttemptOf(r)]
  OBVIOUS
<1>6. /\ FinishAttempt(a, FALSE) /\ tried' = [tried EXCEPT ![r] = Append(@, try)]
      /\ handing' = Tail(handing)
      /\ UNCHANGED <<now, tasks, active, panes, window, disk, minted, clicks, launches>>
  BY <1>1, <1>3, <1>4, <1>5 DEF FireFailed
<1>7. AttemptOf(r) \in {1, 2}
  BY <1>2, <1>3, FirstTry
<1>8. PICK row \in Row : /\ row.task = t /\ SetRow(r, row)
                         /\ Over(row, "failed") \/ Retried(r, t, row, AttemptOf(r), "failed")
  <2>1. a.run = r /\ a.task = t /\ a.attempt = AttemptOf(r)
    BY <1>5
  <2>2. "failed" = IF FALSE THEN "ok" ELSE "failed"
    OBVIOUS
  <2>3. \E row \in Row : /\ row.task = a.task /\ SetRow(a.run, row)
                         /\ Over(row, "failed") \/ Retried(a.run, a.task, row, a.attempt, "failed")
    BY <1>2, <1>4, <1>6, <1>7, <2>1, <2>2, FinishIs
  <2> QED
    BY <2>1, <2>3
<1>9. Tries(r, AttemptOf(r), "failed")
  BY <1>2, <1>3, <1>4, <1>6, TryAgain
<1>10. Rest(r, t)
  BY <1>2, <1>3, <1>6, HandingRest DEF Rest
<1>11. UNCHANGED <<now, tasks, window, disk, minted, clicks, launches>>
  BY <1>6
<1>12. panes' \in Seq(PaneState) /\ DOMAIN panes' = DOMAIN panes
  BY <1>2, <1>6
<1> QED
  BY <1>4, <1>8, <1>9, <1>10, <1>11, <1>12, AttemptEnds

(* The pane p of run r of task t is active.                                *)
Opened(r, t, p) ==
  /\ DOMAIN active' = DOMAIN active \cup {p} /\ p \notin DOMAIN active
  /\ \A q \in DOMAIN active : active'[q] = active[q]
  /\ active'[p].run = r /\ active'[p].task = t /\ active'[p].attempt \in {1, 2}
  /\ active'[p].attempt = 1 => Len(tried'[r]) = 1
LEMMA OpenPaneKeeps ==
  ASSUME Inv, OpenPane
  PROVE  Inv'
<1>1. PICK f, m : f = Head(handing) /\ m = minted
  OBVIOUS
<1>2. /\ Handled(f) /\ TypeInv /\ Apart /\ CurrentInv /\ AttemptInv /\ RowInv /\ CopyInv
      /\ MirrorInv
  BY <1>1, HandledIs DEF OpenPane, Inv, AttemptsInv
<1>3. PICK r, t, p, try :
        /\ r = f.run /\ t = f.task /\ p = Len(panes) + 1
        /\ try = [provider |-> f.provider, end |-> "open"]
  OBVIOUS
<1>4. /\ r \in DOMAIN runs /\ runs[r].task = t /\ Current(r, t) /\ window = TRUE
      /\ runs[r].outcome = "Running" /\ t \in Tasks
      /\ try \in Attempt /\ try.end = "open" /\ f.provider \in Providers
  BY <1>2, <1>3 DEF Handled, Current, Recordable, Attempt, Fire
<1>5. PICK new, pane : /\ new = [run |-> r, task |-> t, attempt |-> AttemptOf(r)]
                       /\ pane = [provider |-> f.provider, id |-> "minted", turn |-> "spawning"]
  OBVIOUS
<1>6. /\ panes' = Append(panes, pane) /\ active' = Put(active, p, new)
      /\ SetRow(r, runs[r]) /\ tried' = [tried EXCEPT ![r] = Append(@, try)]
      /\ handing' = Tail(handing)
      /\ now' = now /\ tasks' = tasks /\ pending' = pending /\ announced' = announced
      /\ window' = window /\ disk' = disk /\ minted' = minted /\ clicks' = clicks
      /\ launches' = launches
  BY <1>1, <1>3, <1>4, <1>5 DEF OpenPane
<1>7. AttemptOf(r) \in {1, 2} /\ Tries(r, AttemptOf(r), "open")
  BY <1>2, <1>3, <1>4, <1>6, FirstTry, TryAgain
<1>8. RowChanged(r, runs[r])
  <2>1. runs[r] \in Row
    BY <1>2, <1>4 DEF TypeInv, IsHistory
  <2> QED
    BY <1>4, <1>6, <2>1, SetRowIs
<1>9. runs' = runs
  BY <1>2, <1>8 DEF RowChanged, TypeInv, IsHistory
<1>10. /\ handing' \in Seq(Fire)
       /\ \A i, j \in DOMAIN handing' : handing'[i].task = handing'[j].task => i = j
       /\ \A j \in DOMAIN handing' :
            /\ handing'[j].task # t
            /\ \E k \in DOMAIN handing : handing'[j] = handing[k]
       /\ \A k \in DOMAIN handing :
            handing[k].run = r \/ \E j \in DOMAIN handing' : handing'[j] = handing[k]
       /\ \A q \in DOMAIN active : active[q].task # t
       /\ \A k \in DOMAIN pending : pending[k].task # t
  BY <1>2, <1>3, <1>6, HandingRest
<1>11. /\ panes' \in Seq(PaneState) /\ p \in DOMAIN panes' /\ p \notin DOMAIN panes
       /\ DOMAIN panes \subseteq DOMAIN panes'
  <2>1. panes \in Seq(PaneState) /\ pane \in PaneState
    BY <1>2, <1>4, <1>5 DEF TypeInv, PaneState
  <2> QED
    BY <1>3, <1>6, <2>1
<1>12. /\ m \in Nat /\ DOMAIN runs \subseteq 1 .. m /\ r \in 1 .. m
       /\ DOMAIN active \subseteq DOMAIN panes
       /\ \A q \in DOMAIN active : active[q] \in [run : 1 .. m, task : Tasks, attempt : {1, 2}]
  BY <1>1, <1>2, <1>4 DEF TypeInv, IsHistory
<1>13. Opened(r, t, p)
  <2>1. /\ DOMAIN active' = DOMAIN active \cup {p} /\ active'[p] = new
        /\ \A q \in DOMAIN active : q # p => active'[q] = active[q]
    BY <1>6 DEF Put
  <2>2. new.run = r /\ new.task = t /\ new.attempt = AttemptOf(r)
    BY <1>5
  <2>3. AttemptOf(r) = 1 => Len(tried'[r]) = 1
    BY <1>7 DEF Tries
  <2> QED
    BY <1>7, <1>11, <1>12, <2>1, <2>2, <2>3 DEF Opened
<1>14. \A q \in DOMAIN active' : \/ q \in DOMAIN active /\ active'[q] = active[q]
                                 \/ q = p /\ active'[q].run = r /\ active'[q].task = t
  BY <1>13 DEF Opened
<1>15. TypeInv'
  <2>1. IsTable(tasks)' /\ IsTable(disk.tasks)' /\ IsHistory(disk.runs)' /\ IsHistory(runs)'
    BY <1>2, <1>6, <1>9 DEF TypeInv, IsTable, IsHistory
  <2>2. ASSUME NEW q \in DOMAIN active'
        PROVE  active'[q] \in [run : 1 .. m, task : Tasks, attempt : {1, 2}]
    <3>1. CASE q \in DOMAIN active /\ active'[q] = active[q]
      BY <1>12, <3>1
    <3>2. CASE q = p
      <4>1. active'[p] = new
        BY <1>6 DEF Put
      <4> QED
        BY <1>4, <1>5, <1>7, <1>12, <3>2, <4>1
    <3> QED
      BY <1>14, <3>1, <3>2
  <2>3. DOMAIN active' \subseteq DOMAIN panes'
    BY <1>11, <1>12, <1>13 DEF Opened
  <2>4. /\ log' \in Seq(Event)
        /\ \A k \in DOMAIN log' : log'[k].kind = "run" => log'[k].run <= minted'
    BY <1>6, <1>8 DEF RowChanged
  <2>5. tried' \in [1 .. minted' -> Seq(Attempt)]
    BY <1>6, <1>7 DEF Tries
  <2> QED
    BY <1>1, <1>2, <1>6, <1>10, <1>11, <2>1, <2>2, <2>3, <2>4, <2>5 DEF TypeInv
<1>16. Apart'
  <2>1. \A i \in DOMAIN pending', j \in DOMAIN handing' : pending'[i].task # handing'[j].task
    BY <1>2, <1>6, <1>10 DEF Apart
  <2>2. \A i \in DOMAIN pending', q \in DOMAIN active' : pending'[i].task # active'[q].task
    BY <1>2, <1>6, <1>10, <1>14 DEF Apart
  <2>3. \A j \in DOMAIN handing', q \in DOMAIN active' : handing'[j].task # active'[q].task
    BY <1>2, <1>10, <1>14 DEF Apart
  <2>4. \A q, x \in DOMAIN active' : active'[q].task = active'[x].task => q = x
    BY <1>2, <1>10, <1>14 DEF Apart
  <2>5. \A i, j \in DOMAIN pending' : pending'[i].task = pending'[j].task => i = j
    BY <1>2, <1>6 DEF Apart
  <2> QED
    BY <1>10, <2>1, <2>2, <2>3, <2>4, <2>5 DEF Apart
<1>17. CurrentInv'
  <2>1. ASSUME NEW s, NEW u, Current(s, u)
        PROVE  Current(s, u)'
    BY <1>6, <1>9, <2>1 DEF Current, Recordable
  <2>2. (\A q \in DOMAIN active : Current(active[q].run, active[q].task))'
    BY <1>2, <1>4, <1>14, <2>1 DEF CurrentInv
  <2>3. (\A k \in DOMAIN pending : Current(pending[k].run, pending[k].task))'
    BY <1>2, <1>6, <2>1 DEF CurrentInv
  <2>4. (\A k \in DOMAIN handing : Current(handing[k].run, handing[k].task))'
    BY <1>2, <1>10, <2>1 DEF CurrentInv
  <2> QED
    BY <2>2, <2>3, <2>4 DEF CurrentInv
<1>18. WindowInv'
  BY <1>4, <1>6 DEF WindowInv
<1>19. /\ \A s \in 1 .. m : s # r => tried'[s] = tried[s] /\ EndOf(s)' = EndOf(s)
       /\ tried'[r] # <<>> /\ EndOf(r)' = "open"
  <2>1. /\ \A s \in 1 .. m : s # r => tried'[s] = tried[s]
        /\ tried'[r] # <<>> /\ Last(tried'[r]).end = "open"
    BY <1>1, <1>7 DEF Tries
  <2> QED
    BY <2>1 DEF EndOf
<1>20. \A s, u : Current(s, u) /\ u # t => s # r /\ s \in 1 .. m
  BY <1>4, <1>12 DEF Current, Recordable
<1>21. AttemptInv'
  <2>1. ASSUME NEW s \in 1 .. m
        PROVE  Len(tried'[s]) <= 2 /\ (Len(tried'[s]) = 2 => tried'[s][1].end = "failed")
    <3>1. CASE s = r
      BY <1>7, <3>1 DEF Tries
    <3>2. CASE s # r
      <4>1. tried'[s] = tried[s]
        BY <1>19, <3>2
      <4>2. Len(tried[s]) <= 2 /\ (Len(tried[s]) = 2 => tried[s][1].end = "failed")
        BY <1>1, <1>2 DEF AttemptInv
      <4> QED
        BY <4>1, <4>2
    <3> QED
      BY <3>1, <3>2
  <2>2. ASSUME NEW e, e.run \in 1 .. m, e.run # r, Retrying(e)
        PROVE  Retrying(e)'
    <3>1. tried'[e.run] = tried[e.run]
      BY <1>19, <2>2
    <3> QED
      BY <1>6, <1>9, <2>2, <3>1 DEF Retrying
  <2>3. \A s \in 1 .. m : s # r => tried'[s] = tried[s]
    BY <1>19
  <2>4. (\A k \in DOMAIN pending :
           tried[pending[k].run] = <<>> \/ (Retrying(pending[k]) /\ announced /\ window))'
    <3>1. ASSUME NEW k \in DOMAIN pending'
          PROVE  (tried[pending[k].run] = <<>> \/ (Retrying(pending[k]) /\ announced /\ window))'
      <4>1. PICK e : e = pending[k]
        OBVIOUS
      <4>2. /\ e.run \in 1 .. m /\ e.run # r /\ pending'[k] = e
            /\ tried[e.run] = <<>> \/ (Retrying(e) /\ announced)
        BY <1>2, <1>6, <1>10, <1>20, <3>1, <4>1 DEF AttemptInv, CurrentInv
      <4>3. tried'[e.run] = <<>> \/ (Retrying(e)' /\ announced' /\ window')
        BY <1>4, <1>6, <2>2, <2>3, <4>2
      <4> QED
        BY <4>2, <4>3 DEF Retrying
    <3> QED
      BY <3>1
  <2>5. (\A k \in DOMAIN handing : tried[handing[k].run] = <<>> \/ Retrying(handing[k]))'
    <3>1. ASSUME NEW k \in DOMAIN handing'
          PROVE  (tried[handing[k].run] = <<>> \/ Retrying(handing[k]))'
      <4>1. PICK j \in DOMAIN handing : handing'[k] = handing[j] /\ handing[j].task # t
        BY <1>10
      <4>2. PICK e : e = handing[j]
        OBVIOUS
      <4>3. /\ e.run \in 1 .. m /\ e.run # r
            /\ tried[e.run] = <<>> \/ Retrying(e)
        BY <1>2, <1>20, <4>1, <4>2 DEF AttemptInv, CurrentInv
      <4>4. tried'[e.run] = <<>> \/ Retrying(e)'
        BY <2>2, <2>3, <4>3
      <4> QED
        BY <4>1, <4>2, <4>4 DEF Retrying
    <3> QED
      BY <3>1
  <2>6. (\A q \in DOMAIN active :
           /\ tried[active[q].run] # <<>>
           /\ EndOf(active[q].run) = "open"
           /\ active[q].attempt = 1 => Len(tried[active[q].run]) = 1)'
    <3>1. ASSUME NEW q \in DOMAIN active
          PROVE  /\ active[q].run \in 1 .. m /\ active[q].run # r /\ tried[active[q].run] # <<>>
                 /\ EndOf(active[q].run) = "open"
                 /\ active[q].attempt = 1 => Len(tried[active[q].run]) = 1
      BY <1>2, <1>10, <1>20 DEF AttemptInv, CurrentInv
    <3>2. active'[p].run = r /\ (active'[p].attempt = 1 => Len(tried'[r]) = 1)
      BY <1>13 DEF Opened
    <3> QED
      BY <1>14, <1>19, <3>1, <3>2
  <2> QED
    BY <1>1, <1>6, <2>1, <2>4, <2>5, <2>6 DEF AttemptInv
<1>22. RowInv'
  <2>1. \A k \in DOMAIN log' : log'[k].kind = "run" =>
          \/ log'[k].run = r /\ log'[k].row = runs[r]
          \/ k \in DOMAIN log /\ log'[k] = log[k]
    BY <1>8 DEF RowChanged
  <2>2. ASSUME NEW s \in 1 .. m, NEW o, Says(s, o), s = r => o.outcome = "Running"
        PROVE  Says(s, o)'
    <3>1. CASE s = r
      BY <2>2, <3>1 DEF Says
    <3>2. CASE s # r
      BY <1>19, <2>2, <3>2 DEF Says
    <3> QED
      BY <3>1, <3>2
  <2>3. PICK row : row = runs[r]
    OBVIOUS
  <2>4. Says(r, row)'
    BY <1>4, <2>3 DEF Says
  <2>5. ASSUME NEW s \in DOMAIN runs'
        PROVE  /\ Says(s, runs[s])'
               /\ runs'[s].outcome = "Running" => EndOf(s)' = "open" \/ Waiting(s)'
    <3>1. CASE s = r
      BY <1>9, <1>19, <2>3, <2>4, <3>1 DEF Says
    <3>2. CASE s # r
      <4>1. s \in DOMAIN runs /\ s \in 1 .. m
        BY <1>9, <1>12
      <4>2. Says(s, runs[s]) /\ (runs[s].outcome = "Running" => EndOf(s) = "open" \/ Waiting(s))
        BY <1>2, <4>1 DEF RowInv
      <4>3. PICK o : o = runs[s]
        OBVIOUS
      <4>4. Says(s, o)'
        BY <2>2, <3>2, <4>1, <4>2, <4>3
      <4>5. Waiting(s) => Waiting(s)'
        <5>1. ASSUME NEW k \in DOMAIN handing, handing[k].run = s
              PROVE  \E j \in DOMAIN handing' : handing'[j].run = s
          BY <1>10, <3>2, <5>1
        <5> QED
          BY <1>6, <5>1 DEF Waiting
      <4>6. EndOf(s)' = EndOf(s)
        BY <1>19, <3>2, <4>1
      <4> QED
        BY <1>9, <4>1, <4>2, <4>3, <4>4, <4>5, <4>6 DEF Says
    <3> QED
      BY <3>1, <3>2
  <2>6. /\ (\A s \in DOMAIN disk.runs : Says(s, disk.runs[s]))'
        /\ (\A k \in DOMAIN log : log[k].kind = "run" => Says(log[k].run, log[k].row))'
    BY <1>1, <1>4, <1>6, <1>8, <1>19, <2>3, <2>4, CopiesSay
  <2> QED
    BY <1>6, <2>5, <2>6 DEF RowInv
<1>23. CopyInv' /\ MirrorInv'
  <2>1. /\ Copies(disk.runs, log', runs')
        /\ Pruned(runs') /\ Leads(disk, log', [tasks |-> tasks, runs |-> runs'])
    BY <1>8 DEF RowChanged
  <2>2. Pruned(disk.runs)
    BY <1>2 DEF MirrorInv
  <2> QED
    BY <1>6, <2>1, <2>2 DEF CopyInv, MirrorInv
<1> QED
  BY <1>15, <1>16, <1>17, <1>18, <1>21, <1>22, <1>23 DEF Inv, AttemptsInv

-----------------------------------------------------------------------------
(* Every step.                                                             *)

LEMMA InitKeeps ==
  ASSUME Init
  PROVE  Inv
<1>1. /\ now = 0 /\ tasks \in StartTasks /\ runs = [r \in {} |-> {}] /\ pending = <<>>
      /\ active = [p \in {} |-> {}] /\ announced = FALSE /\ handing = <<>> /\ panes = <<>>
      /\ window = FALSE /\ disk = [tasks |-> tasks, runs |-> runs] /\ log = <<>>
      /\ minted = 0 /\ clicks = MaxClicks[tasks] /\ launches = 1 /\ tried = runs
  BY DEF Init
<1>2. disk.tasks = tasks /\ disk.runs = runs
  BY <1>1
<1>3. /\ DOMAIN runs = {} /\ DOMAIN active = {} /\ DOMAIN pending = {} /\ DOMAIN handing = {}
      /\ DOMAIN panes = {} /\ DOMAIN log = {} /\ 1 .. minted = {}
  BY <1>1
<1>4. IsTable(tasks) /\ IsHistory(runs) /\ clicks \in Nat /\ tried \in [1 .. minted -> Seq(Attempt)]
  <2>1. IsTable(tasks)
    BY <1>1, SchedulerAssumption DEF IsTable
  <2>2. clicks \in Nat
    BY <1>1, SchedulerAssumption
  <2>3. IsHistory(runs)
    BY <1>1, <1>3 DEF IsHistory
  <2>4. tried \in [1 .. minted -> Seq(Attempt)]
    BY <1>1, <1>3
  <2> QED
    BY <2>1, <2>2, <2>3, <2>4
<1>5. TypeInv
  <2>1. pending \in Seq(Fire) /\ handing \in Seq(Fire) /\ panes \in Seq(PaneState)
        /\ log \in Seq(Event)
    BY <1>1
  <2> QED
    BY <1>1, <1>2, <1>3, <1>4, <2>1 DEF TypeInv
<1>6. Apart /\ CurrentInv /\ AttemptInv
  BY <1>3 DEF Apart, CurrentInv, AttemptInv
<1>7. WindowInv
  BY <1>1, <1>3 DEF WindowInv
<1>8. RowInv
  BY <1>2, <1>3 DEF RowInv
<1>9. CopyInv
  BY <1>2, <1>3 DEF CopyInv, Copies
<1>10. MirrorInv
  <2>1. Leads(disk, log, disk)
    BY <1>1, LeadsEmpty
  <2> QED
    BY <1>1, <1>2, <1>3, <2>1 DEF MirrorInv, Pruned
<1> QED
  BY <1>5, <1>6, <1>7, <1>8, <1>9, <1>10 DEF Inv, AttemptsInv

LEMMA StutterKeeps ==
  ASSUME Inv, UNCHANGED vars
  PROVE  Inv'
<1>1. /\ now' = now /\ tasks' = tasks /\ runs' = runs /\ pending' = pending /\ active' = active
      /\ announced' = announced /\ handing' = handing /\ panes' = panes /\ window' = window
      /\ disk' = disk /\ log' = log /\ minted' = minted /\ clicks' = clicks
      /\ launches' = launches /\ tried' = tried
  BY DEF vars, main
<1>2. TypeInv /\ Apart /\ CurrentInv /\ WindowInv /\ AttemptInv /\ RowInv /\ CopyInv /\ MirrorInv
  BY DEF Inv, AttemptsInv
<1>3. TypeInv'
  BY <1>1, <1>2 DEF TypeInv, IsTable, IsHistory
<1>4. Apart' /\ WindowInv'
  BY <1>1, <1>2 DEF Apart, WindowInv
<1>5. CurrentInv'
  BY <1>1, <1>2 DEF CurrentInv, Current, Recordable
<1>6. AttemptInv'
  BY <1>1, <1>2 DEF AttemptInv, Retrying, EndOf
<1>7. RowInv'
  BY <1>1, <1>2 DEF RowInv, Says, Waiting, EndOf
<1>8. CopyInv' /\ MirrorInv'
  BY <1>1, <1>2 DEF CopyInv, MirrorInv
<1> QED
  BY <1>3, <1>4, <1>5, <1>6, <1>7, <1>8 DEF Inv, AttemptsInv

(* The invariant that every other theorem of this module follows from: the *)
(* attempts, rows and tables are what main thread and writer make of them. *)
THEOREM InvHolds == Spec => []Inv
<1>1. ASSUME Inv, [Next]_vars
      PROVE  Inv'
  <2>1. CASE Write
    BY <1>1, <2>1, WriteKeeps
  <2>2. CASE Tick
    BY <1>1, <2>2, TickKeeps
  <2>3. CASE TimePasses \/ OpenWindow \/ CloseWindow
    BY <1>1, <2>3, CloseKeeps
  <2>4. CASE Page
    <3>1. PICK t \in Tasks : ToggleEnabled(t) \/ Delete(t) \/ RunNow(t)
                             \/ \E s \in Settings : Upsert(t, s)
      BY <2>4 DEF Page
    <3>2. CASE ToggleEnabled(t) \/ \E s \in Settings : Upsert(t, s)
      BY <1>1, <3>2, EditKeeps
    <3>3. CASE Delete(t)
      BY <1>1, <3>3, DeleteKeeps
    <3>4. CASE RunNow(t)
      BY <1>1, <3>4, RunNowKeeps
    <3> QED
      BY <3>1, <3>2, <3>3, <3>4
  <2>5. CASE HandleFires
    BY <1>1, <2>5, HandleFiresKeeps
  <2>6. CASE OpenPane
    BY <1>1, <2>6, OpenPaneKeeps
  <2>7. CASE FireFailed
    BY <1>1, <2>7, FireFailedKeeps
  <2>8. CASE \E p \in DOMAIN panes : Pane(p)
    <3>1. PICK p \in DOMAIN panes : Pane(p)
      BY <2>8
    <3>2. CASE ClosePane(p)
      BY <1>1, <3>2, CloseKeeps
    <3>3. CASE Spawned(p) \/ SessionInit(p) \/ UserMessage(p) \/ Detach(p)
      BY <1>1, <3>3, PaneStepKeeps
    <3>4. CASE \E success \in BOOLEAN : SessionEnded(p, success)
      BY <1>1, <3>4, SessionEndedKeeps
    <3> QED
      BY <3>1, <3>2, <3>3, <3>4 DEF Pane
  <2>9. CASE Relaunch
    BY <1>1, <2>9, RelaunchKeeps
  <2>10. CASE UNCHANGED vars
    BY <1>1, <2>10, StutterKeeps
  <2> QED
    BY <1>1, <2>1, <2>2, <2>3, <2>4, <2>5, <2>6, <2>7, <2>8, <2>9, <2>10 DEF Next
<1> QED
  BY <1>1, InitKeeps, PTL DEF Spec

(* Every variable stays in its range.                                      *)
THEOREM TypeCorrect == Spec => []TypeOK
<1>1. ASSUME Inv
      PROVE  TypeOK
  <2>1. TypeInv
    BY <1>1 DEF Inv
  <2>2. DOMAIN tried = 1 .. minted
    BY <2>1 DEF TypeInv
  <2> QED
    BY <2>1, <2>2 DEF TypeInv, TypeOK, PaneState
<1> QED
  BY <1>1, InvHolds, PTL

LEMMA AtMostOne ==
  ASSUME NEW S, \A x, y \in S : x = y
  PROVE  Cardinality(S) = IF S = {} THEN 0 ELSE 1
<1>1. CASE S = {}
  BY <1>1, FS_EmptySet
<1>2. CASE S # {}
  <2>1. PICK x : x \in S
    BY <1>2
  <2>2. S = {x}
    BY <2>1
  <2> QED
    BY <1>2, <2>2, FS_Singleton
<1> QED
  BY <1>1, <1>2

(* However ticks, Run now, edits, retries and relaunches interleave, no    *)
(* task has two attempts queued or in panes, so that is_running's guard of *)
(* on_tick and run_now is enough.                                          *)
THEOREM OneAttempt == Spec => []OneAttemptPerTask
<1>1. ASSUME Inv, NEW t \in Tasks
      PROVE  Cardinality(Queued(t)) + Cardinality(Handed(t)) + Cardinality(Live(t)) <= 1
  <2>1. Apart
    BY <1>1 DEF Inv, AttemptsInv
  <2>2. PICK Q, H, L : Q = Queued(t) /\ H = Handed(t) /\ L = Live(t)
    OBVIOUS
  <2>3. /\ \A x, y \in Q : x = y
        /\ \A x, y \in H : x = y
        /\ \A x, y \in L : x = y
    BY <2>1, <2>2 DEF Apart, Queued, Handed, Live
  <2>4. /\ Q # {} => H = {} /\ L = {}
        /\ H # {} => L = {}
    BY <2>1, <2>2 DEF Apart, Queued, Handed, Live
  <2>5. /\ Cardinality(Q) = IF Q = {} THEN 0 ELSE 1
        /\ Cardinality(H) = IF H = {} THEN 0 ELSE 1
        /\ Cardinality(L) = IF L = {} THEN 0 ELSE 1
    BY <2>3, AtMostOne
  <2>6. Cardinality(Q) + Cardinality(H) + Cardinality(L) <= 1
    BY <2>4, <2>5
  <2> QED
    BY <2>2, <2>6
<1>2. Inv => OneAttemptPerTask
  BY <1>1 DEF OneAttemptPerTask
<1> QED
  BY <1>2, InvHolds, PTL

(* An attempt that is queued or in a pane has its task and its row, still  *)
(* unpruned and running: finish_attempt will find where to record its end. *)
THEOREM AttemptsRecorded == Spec => []AttemptsAreRecorded
<1>1. Inv => AttemptsAreRecorded
  BY DEF Inv, AttemptsInv, CurrentInv, Current, AttemptsAreRecorded
<1> QED
  BY <1>1, InvHolds, PTL

(* resolve_attempt retries once: a run is tried at most twice, the second  *)
(* time after a failure, and its row tells how the last attempt ended.     *)
THEOREM AtMostOneRetry == Spec => []RetriedOnce
<1>1. ASSUME Inv, NEW r \in 1 .. minted
      PROVE  /\ Len(tried[r]) <= 2
             /\ Len(tried[r]) = 2 => tried[r][1].end = "failed"
  BY <1>1 DEF Inv, AttemptsInv, AttemptInv
<1>2. ASSUME Inv, NEW r \in DOMAIN runs
      PROVE  /\ runs[r].outcome = "Success" => EndOf(r) = "ok"
             /\ runs[r].outcome = "BothFailed" => EndOf(r) = "failed"
             /\ runs[r].outcome = "Running" => EndOf(r) = "open" \/ Waiting(r)
  BY <1>2 DEF Inv, RowInv, Says
<1>3. Inv => RetriedOnce
  BY <1>1, <1>2 DEF RetriedOnce
<1> QED
  BY <1>3, InvHolds, PTL

(* Whatever is still in the writer's channel, writing it brings the tables *)
(* to the tasks and the history that are in memory.                        *)
THEOREM TablesMirror == Spec => []Mirrored
<1>1. ASSUME Inv
      PROVE  FoldLeft(Applied, disk, log) = [tasks |-> tasks, runs |-> runs]
  <2>1. log \in Seq(Event) /\ Leads(disk, log, [tasks |-> tasks, runs |-> runs])
    BY <1>1 DEF Inv, TypeInv, MirrorInv
  <2> QED
    BY <2>1, LeadsFold
<1>2. Inv => Mirrored
  BY <1>1 DEF Mirrored
<1> QED
  BY <1>2, InvHolds, PTL

-----------------------------------------------------------------------------
(* Outcomes are final.                                                     *)

(* Rows that were there before a fire stay as they were.                   *)
LEMMA FiredAgree ==
  ASSUME minted \in Nat, NEW rs, DOMAIN rs \subseteq 1 .. minted,
         NEW fs, DOMAIN fs \subseteq Nat \ {0}, NEW ts, NEW queue, NEW es,
         FireAll(fs, ts, rs, queue, es)
  PROVE  \A r \in DOMAIN rs : r \in DOMAIN runs' => runs'[r] = rs[r]
<1>1. PICK m, number, row :
        /\ m = minted
        /\ number = [k \in DOMAIN fs |-> minted + k]
        /\ row = [k \in DOMAIN fs |->
                    [task |-> fs[k], provider |-> ts[fs[k]].provider, outcome |-> "Running"]]
  OBVIOUS
<1>2. PICK fresh : fresh = {number[k] : k \in DOMAIN fs}
  OBVIOUS
<1>3. PICK qs : qs = [r \in DOMAIN rs \cup fresh |->
                        IF r \in fresh THEN row[r - minted] ELSE rs[r]]
  OBVIOUS
<1>4. runs' = Prune(qs)
  BY <1>1, <1>2, <1>3 DEF FireAll
<1>5. ASSUME NEW r \in DOMAIN rs
      PROVE  qs[r] = rs[r]
  <2>1. m \in Nat /\ r \in 1 .. m
    BY <1>1
  <2>2. \A k \in DOMAIN fs : number[k] = m + k /\ k \in Nat \ {0}
    BY <1>1
  <2>3. \A k \in DOMAIN fs : number[k] > m
    BY <2>1, <2>2
  <2>4. r \notin fresh
    BY <1>2, <2>1, <2>3
  <2> QED
    BY <1>3, <2>4
<1>6. /\ DOMAIN Prune(qs) \subseteq DOMAIN qs
      /\ \A r \in DOMAIN Prune(qs) : Prune(qs)[r] = qs[r]
  BY PruneIs
<1> QED
  BY <1>4, <1>5, <1>6

LEMMA ListDomain ==
  ASSUME NEW S, IsFiniteSet(S), NEW fs \in [1 .. Cardinality(S) -> S]
  PROVE  DOMAIN fs \subseteq Nat \ {0}
BY FS_CardinalityType

(* No run that has ended runs again or ends otherwise while the program    *)
(* goes on.                                                                *)
LEMMA RunsFinal ==
  ASSUME Inv, Next, ~Relaunch
  PROVE  Final(runs, runs')
<1>1. TypeInv /\ CurrentInv
  BY DEF Inv, AttemptsInv
<1>2. /\ minted \in Nat /\ DOMAIN runs \subseteq 1 .. minted
      /\ DOMAIN tasks \subseteq Tasks
  BY <1>1 DEF TypeInv, IsHistory, IsTable
<1>3. ASSUME \A r \in DOMAIN runs : r \in DOMAIN runs' => runs'[r] = runs[r]
      PROVE  Final(runs, runs')
  BY <1>3 DEF Final
<1>4. ASSUME NEW r, NEW t, Current(r, t), NEW row \in Row, row.task = t, SetRow(r, row)
      PROVE  Final(runs, runs')
  <2>1. runs[r].outcome = "Running"
    BY <1>4 DEF Current, Recordable
  <2>2. \A s \in DOMAIN runs : s # r => runs'[s] = runs[s]
    BY <1>4, SetRowIs DEF RowChanged
  <2> QED
    BY <2>1, <2>2 DEF Final
<1>5. CASE runs' = runs
  BY <1>3, <1>5
<1>6. CASE Tick
  <2>1. PICK due : due = {t \in DOMAIN tasks : tasks[t].enabled /\ tasks[t].next \in 1 .. now}
    OBVIOUS
  <2>2. PICK ts : ts = [t \in DOMAIN tasks |->
                          IF t \in due THEN [tasks[t] EXCEPT !.next = NextRunAfter(now)]
                          ELSE tasks[t]]
    OBVIOUS
  <2>3. PICK S : S = {t \in due : ~IsRunning(t)}
    OBVIOUS
  <2>4. PICK es : es = IF due = {} THEN log ELSE Append(log, ReplaceTasks(ts))
    OBVIOUS
  <2>5. PICK fs \in Ascending(S) : FireAll(fs, ts, runs, pending, es)
    BY <1>6, <2>1, <2>2, <2>3, <2>4 DEF Tick
  <2>6. IsFiniteSet(S)
    BY <1>2, <2>1, <2>3, SchedulerAssumption, FS_Subset
  <2>7. DOMAIN fs \subseteq Nat \ {0}
    <3>1. fs \in [1 .. Cardinality(S) -> S]
      BY DEF Ascending
    <3> QED
      BY <2>6, <3>1, ListDomain
  <2> QED
    BY <1>2, <1>3, <2>5, <2>7, FiredAgree
<1>7. CASE Page
  <2>1. PICK t \in Tasks : ToggleEnabled(t) \/ Delete(t) \/ RunNow(t)
                           \/ \E s \in Settings : Upsert(t, s)
    BY <1>7 DEF Page
  <2>2. CASE ToggleEnabled(t) \/ \E s \in Settings : Upsert(t, s)
    BY <1>5, <2>2 DEF ToggleEnabled, Upsert
  <2>3. CASE Delete(t)
    <3>1. runs' = WithoutTask(runs, t)
      BY <2>3 DEF Delete, Forget
    <3>2. \A r \in DOMAIN WithoutTask(runs, t) : WithoutTask(runs, t)[r] = runs[r]
      BY <1>2, WithoutTaskIs
    <3> QED
      BY <1>3, <3>1, <3>2
  <2>4. CASE RunNow(t)
    <3>1. PICK fs : fs = <<t>>
      OBVIOUS
    <3>2. FireAll(fs, tasks, runs, pending, log) /\ DOMAIN fs \subseteq Nat \ {0}
      BY <2>4, <3>1 DEF RunNow
    <3> QED
      BY <1>2, <1>3, <3>2, FiredAgree
  <2> QED
    BY <2>1, <2>2, <2>3, <2>4
<1>8. CASE OpenPane \/ FireFailed
  <2>1. PICK f : f = Head(handing)
    OBVIOUS
  <2>2. Handled(f)
    BY <1>8, <2>1, HandledIs DEF OpenPane, FireFailed
  <2>3. /\ f.run \in DOMAIN runs /\ runs[f.run].task = f.task /\ Current(f.run, f.task)
        /\ runs[f.run] \in Row
    BY <1>1, <2>2 DEF Handled, Current, Recordable, TypeInv, IsHistory
  <2>4. CASE OpenPane
    <3>1. SetRow(f.run, runs[f.run])
      BY <2>1, <2>3, <2>4 DEF OpenPane
    <3> QED
      BY <1>4, <2>3, <3>1
  <2>5. CASE FireFailed
    <3>1. PICK a : a = [run |-> f.run, task |-> f.task, attempt |-> AttemptOf(f.run)]
      OBVIOUS
    <3>2. FinishAttempt(a, FALSE)
      BY <2>1, <2>3, <2>5, <3>1 DEF FireFailed
    <3>3. a.run = f.run /\ a.task = f.task /\ a.attempt \in {1, 2}
      BY <1>1, <2>2, <3>1, FirstTry
    <3>4. \E row \in Row : row.task = a.task /\ SetRow(a.run, row)
      <4>1. "failed" = IF FALSE THEN "ok" ELSE "failed"
        OBVIOUS
      <4> QED
        BY <1>1, <2>3, <3>2, <3>3, <4>1, FinishIs
    <3> QED
      BY <1>4, <2>3, <3>3, <3>4
  <2> QED
    BY <1>8, <2>4, <2>5
<1>9. CASE \E p \in DOMAIN panes, success \in BOOLEAN : SessionEnded(p, success)
  <2>1. PICK p \in DOMAIN panes, success \in BOOLEAN : SessionEnded(p, success)
    BY <1>9
  <2>2. CASE panes[p].id = "minted" /\ p \in DOMAIN active
    <3>1. PICK a, end : a = active[p] /\ end = IF success THEN "ok" ELSE "failed"
      OBVIOUS
    <3>2. FinishAttempt(a, success) /\ Current(a.run, a.task) /\ a.attempt \in {1, 2}
      BY <1>1, <2>1, <2>2, <3>1 DEF SessionEnded, CurrentInv, TypeInv
    <3>3. \E row \in Row : row.task = a.task /\ SetRow(a.run, row)
      BY <1>1, <3>1, <3>2, FinishIs
    <3> QED
      BY <1>4, <3>2, <3>3
  <2>3. CASE ~(panes[p].id = "minted" /\ p \in DOMAIN active)
    BY <1>5, <2>1, <2>3 DEF SessionEnded
  <2> QED
    BY <2>2, <2>3
<1>10. CASE \/ Write \/ TimePasses \/ HandleFires \/ OpenWindow \/ CloseWindow
            \/ \E p \in DOMAIN panes : ClosePane(p) \/ Spawned(p) \/ SessionInit(p)
                                       \/ UserMessage(p) \/ Detach(p)
  BY <1>5, <1>10 DEF Write, TimePasses, HandleFires, OpenWindow, CloseWindow, ClosePane,
                     Spawned, SessionInit, UserMessage, Detach, main
<1> QED
  BY <1>6, <1>7, <1>8, <1>9, <1>10 DEF Next, Pane

(* Nor does the table lose an outcome to a write that comes late.          *)
LEMMA DiskFinal ==
  ASSUME Inv, [Next]_vars
  PROVE  Final(disk.runs, disk'.runs)
<1>1. CASE Write
  <2>1. PICK ev, D : ev = Head(log) /\ D = disk.runs
    OBVIOUS
  <2>2. PICK U, E : Written(ev, D, minted, U, E)
    BY <1>1, <2>1, WriteIs
  <2>3. /\ disk'.runs = E
        /\ \A r \in DOMAIN E : \/ ev.kind = "run" /\ ev.run = r /\ E[r] = ev.row
                               \/ E[r] = D[r]
    BY <2>2 DEF Written
  <2>4. \A r \in DOMAIN D : ev.kind = "run" /\ ev.run = r => Agree(D[r], ev.row)
    <3>1. log \in Seq(Event) /\ log # <<>> /\ Copies(D, log, runs)
      BY <1>1, <2>1 DEF Inv, TypeInv, CopyInv, Write
    <3>2. 1 \in DOMAIN log /\ ev = log[1]
      BY <2>1, <3>1
    <3> QED
      BY <3>1, <3>2 DEF Copies
  <2> QED
    BY <2>1, <2>3, <2>4 DEF Final, Agree
<1>2. CASE ~Write
  <2>1. disk' = disk
    BY <1>2 DEF Next, Tick, TimePasses, Page, HandleFires, OpenPane, FireFailed, OpenWindow,
                CloseWindow, Pane, Relaunch, ToggleEnabled, Delete, RunNow, Upsert, ClosePane,
                Spawned, SessionInit, UserMessage, Detach, SessionEnded, vars
  <2> QED
    BY <2>1 DEF Final
<1> QED
  BY <1>1, <1>2

(* A relaunch ends the runs the table has as running, and no other.        *)
LEMMA RelaunchFinal ==
  ASSUME Inv, Relaunch
  PROVE  Final(disk.runs, runs')
<1>1. PICK D, qs, orphaned, overdue :
        /\ D = disk.runs /\ qs = Interrupted(D)
        /\ orphaned = {r \in DOMAIN disk.runs : disk.runs[r].outcome = "Running"}
        /\ overdue = {t \in DOMAIN disk.tasks :
                        disk.tasks[t].enabled /\ disk.tasks[t].next \in 1 .. now}
  OBVIOUS
<1>2. PICK S : S = {t \in overdue : disk.tasks[t].catchUp}
  OBVIOUS
<1>3. qs = [r \in DOMAIN disk.runs |->
              IF r \in orphaned THEN [disk.runs[r] EXCEPT !.outcome = "Error"]
              ELSE disk.runs[r]]
  BY <1>1 DEF Interrupted
<1>4. \E fs \in Ascending(S) : \E ts, es : FireAll(fs, ts, qs, <<>>, es)
  <2> DEFINE orphans == {r \in DOMAIN disk.runs : disk.runs[r].outcome = "Running"}
             marked == [r \in DOMAIN disk.runs |->
                          IF r \in orphans THEN [disk.runs[r] EXCEPT !.outcome = "Error"]
                          ELSE disk.runs[r]]
             late == {t \in DOMAIN disk.tasks :
                        disk.tasks[t].enabled /\ disk.tasks[t].next \in 1 .. now}
             table == [t \in DOMAIN disk.tasks |->
                         IF t \in late \/ (disk.tasks[t].enabled /\ disk.tasks[t].next = 0)
                         THEN [disk.tasks[t] EXCEPT !.next = NextRunAfter(now)]
                         ELSE disk.tasks[t]]
             events(rows) == [k \in DOMAIN rows |-> UpsertRun(rows[k], marked[rows[k]])]
  <2>1. PICK rows \in Descending(orphans), fs \in Ascending({t \in late : disk.tasks[t].catchUp}) :
          FireAll(fs, table, marked, <<>>,
                  IF table = disk.tasks THEN events(rows)
                  ELSE Append(events(rows), ReplaceTasks(table)))
    BY DEF Relaunch
  <2>2. qs = marked /\ fs \in Ascending(S)
    BY <1>1, <1>2, <1>3
  <2> HIDE DEF orphans, marked, late, table, events
  <2> QED
    BY <2>1, <2>2
<1>5. PICK fs \in Ascending(S) : \E ts, es : FireAll(fs, ts, qs, <<>>, es)
  BY <1>4
<1>5b. PICK ts, es : FireAll(fs, ts, qs, <<>>, es)
  BY <1>5
<1>6. IsHistory(D) /\ IsTable(disk.tasks) /\ minted \in Nat
  BY <1>1 DEF Inv, TypeInv
<1>7. DOMAIN qs = DOMAIN D /\ \A r \in DOMAIN D : D[r].outcome # "Running" => qs[r] = D[r]
  BY <1>1, <1>6, InterruptedIs
<1>8. DOMAIN fs \subseteq Nat \ {0}
  <2>1. IsFiniteSet(S)
    BY <1>1, <1>2, <1>6, SchedulerAssumption, FS_Subset DEF IsTable
  <2>2. fs \in [1 .. Cardinality(S) -> S]
    BY DEF Ascending
  <2> QED
    BY <2>1, <2>2, ListDomain
<1>9. \A r \in DOMAIN qs : r \in DOMAIN runs' => runs'[r] = qs[r]
  <2>1. DOMAIN qs \subseteq 1 .. minted
    BY <1>6, <1>7 DEF IsHistory
  <2> QED
    BY <1>5b, <1>6, <1>8, <2>1, FiredAgree
<1> QED
  BY <1>1, <1>7, <1>9 DEF Final

(* A run's outcome is final: in memory until the program ends, in the      *)
(* table whatever order its rows are written in, and through a relaunch    *)
(* for the runs whose outcome had been written.                            *)
THEOREM FinalOutcomes == Spec => OutcomesAreFinal
<1>1. ASSUME Inv, [Next]_vars
      PROVE  /\ launches' = launches => Final(runs, runs')
             /\ Final(disk.runs, disk'.runs)
             /\ launches' # launches => Final(disk.runs, runs')
  <2>1. Final(disk.runs, disk'.runs)
    BY <1>1, DiskFinal
  <2>2. CASE Relaunch
    <3>1. launches' # launches
      BY <1>1, <2>2 DEF Relaunch, Inv, TypeInv
    <3> QED
      BY <1>1, <2>1, <2>2, <3>1, RelaunchFinal
  <2>3. CASE Next /\ ~Relaunch
    <3>1. launches' = launches
      BY <2>3 DEF Next, Write, Tick, TimePasses, Page, HandleFires, OpenPane, FireFailed,
                  OpenWindow, CloseWindow, Pane, ToggleEnabled, Delete, RunNow, Upsert,
                  ClosePane, Spawned, SessionInit, UserMessage, Detach, SessionEnded
    <3> QED
      BY <1>1, <2>1, <2>3, <3>1, RunsFinal
  <2>4. CASE UNCHANGED vars
    <3>1. launches' = launches /\ runs' = runs
      BY <2>4 DEF vars, main
    <3> QED
      BY <2>1, <3>1 DEF Final
  <2> QED
    BY <1>1, <2>2, <2>3, <2>4
<1> QED
  BY <1>1, InvHolds, PTL DEF Spec, OutcomesAreFinal
==============================================================================
