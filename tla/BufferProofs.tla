----------------------------- MODULE BufferProofs -----------------------------
(* Theorems about Buffer, for any set of replicas and any base text:       *)
(* replicas that have seen the same operations hold the same characters,   *)
(* all replicas agree on their order and on what an edit deleted, nothing  *)
(* that could be applied stays deferred, and the undo stack and the undo   *)
(* history agree.                                                          *)
EXTENDS Buffer, FiniteSetTheorems, SequenceTheorems, WellFoundedInduction, TLAPS

-----------------------------------------------------------------------------
(* The inductive invariant.  It speaks of two things that no replica       *)
(* holds: ops, the operations issued so far, and order, a strict order of  *)
(* all the positions that these place.                                     *)

EditOps ==
  [kind : {"edit"}, time : Times, versions : [Replicas -> Nat],
   start : Positions, end : Positions, length : Nat]
UndoOps ==
  [kind : {"undo"}, time : Times, versions : [Replicas -> Nat], edits : SUBSET (Nat \ {0})]
Chars == [edit : Times \cup {BaseEdit}, offset : Nat, deletions : SUBSET Times]
BufferTypes ==
  [chars : Seq(Chars), versions : [Replicas -> Nat], clock : Nat,
   deferred : Seq(EditOps \cup UndoOps), history : SUBSET [edit : Times, value : Nat],
   stack : Seq(SUBSET (Nat \ {0})), current : Nat, recent : BOOLEAN]

Edits(ops) == {o \in ops : o.kind = "edit"}
Undos(ops) == {o \in ops : o.kind = "undo"}

(* The base text, and the text of each edit.                               *)
Placed(ops) ==
  {p \in {BaseEdit} \X Nat : p[2] <= BaseLength}
    \cup {p \in Times \X Nat : \E o \in Edits(ops) : p[1] = o.time /\ p[2] \in 1 .. o.length}

(* An operation says where its author stood: it follows all that its       *)
(* author had seen, all its author's earlier operations among them.        *)
Issued(ops) ==
  /\ ops \subseteq EditOps \cup UndoOps
  /\ \A o, p \in ops : o.time = p.time => o = p
  /\ \A o \in ops : \A x \in Replicas :
       /\ o.versions[x] < o.time[1]
       /\ o.versions[x] = 0 \/ \E p \in ops : p.time = <<o.versions[x], x>>
  /\ \A o, p \in ops :
       o.time[2] = p.time[2] /\ p.time[1] < o.time[1] => p.time[1] <= o.versions[o.time[2]]
  /\ \A o \in Edits(ops) :
       /\ o.start \in Placed(ops) /\ Observed(o.versions, o.start[1])
       /\ o.end \in Placed(ops) /\ Observed(o.versions, o.end[1])
  /\ \A o \in Undos(ops) : \A v \in o.edits : v < o.time[1]

Before(order, p, q) == <<p, q>> \in order

(* A text follows the start of its edit, and what stands between the two   *)
(* comes of later edits.                                                   *)
Ordered(ops, order) ==
  /\ order \subseteq Placed(ops) \X Placed(ops)
  /\ \A p \in Placed(ops) : ~Before(order, p, p)
  /\ \A p, q, s \in Placed(ops) : Before(order, p, q) /\ Before(order, q, s) => Before(order, p, s)
  /\ \A p, q \in Placed(ops) : p = q \/ Before(order, p, q) \/ Before(order, q, p)
  /\ \A o \in Edits(ops) : \A i \in 1 .. o.length :
       /\ Before(order, o.start, <<o.time, i>>)
       /\ \A j \in 1 .. o.length : i < j => Before(order, <<o.time, i>>, <<o.time, j>>)
       /\ \A q \in Placed(ops) :
            Before(order, o.start, q) /\ Before(order, q, <<o.time, i>>) =>
              q[1] = o.time \/ Later(q[1], o.time)

(* What an edit deletes: what its author saw of the text from its start to *)
(* its end.                                                                *)
Deletes(order, o, p) ==
  /\ Before(order, o.start, p)
  /\ p = o.end \/ Before(order, p, o.end)
  /\ Observed(o.versions, p[1])
DeletionsOf(ops, order, versions, p) ==
  {t \in Times : \E o \in Edits(ops) :
     o.time = t /\ Observed(versions, t) /\ Deletes(order, o, p)}

(* A replica holds the characters of the edits it has observed, in order.  *)
Holds(ops, order, versions, chars) ==
  /\ \A i \in DOMAIN chars :
       Position(chars[i]) \in Placed(ops) /\ Observed(versions, Position(chars[i])[1])
  /\ \A p \in Placed(ops) :
       Observed(versions, p[1]) => \E i \in DOMAIN chars : Position(chars[i]) = p
  /\ \A i, j \in DOMAIN chars : i < j => Before(order, Position(chars[i]), Position(chars[j]))
  /\ \A i \in DOMAIN chars :
       chars[i].deletions = DeletionsOf(ops, order, versions, Position(chars[i]))

(* It has seen what the operations it has observed depend on.              *)
Closed(ops, versions, clock) ==
  /\ \A o \in ops : Observed(versions, o.time) => Precedes(o.versions, versions)
  /\ \A x \in Replicas :
       /\ versions[x] <= clock
       /\ versions[x] = 0 \/ \E o \in ops : o.time = <<versions[x], x>>

HistoryOf(ops, versions) ==
  {u \in [edit : Times, value : Nat] : \E o \in Undos(ops) :
     /\ Observed(versions, o.time) /\ u.value = o.time[1]
     /\ u.edit[2] = o.time[2] /\ u.edit[1] \in o.edits}

UndosOf(history, edit) == {u \in history : u.edit = edit}

(* The entries of the undo stack share no edit, and the history has undone *)
(* those above the current one.                                            *)
StackKept(r, clock, history, stack, current) ==
  /\ current \in DOMAIN stack
  /\ \A i \in DOMAIN stack : \A v \in stack[i] :
       /\ v <= clock
       /\ \A j \in DOMAIN stack : v \in stack[j] => i = j
       /\ IsEditUndone(history, <<v, r>>) <=> i > current
  /\ \A u \in history : u.edit[2] = r => u.value <= clock
  /\ \A v \in Nat : IsFiniteSet(UndosOf(history, <<v, r>>))

(* Applied, or waiting to be.                                              *)
Accounted(b, o) == Observed(b.versions, o.time) \/ \E i \in DOMAIN b.deferred : b.deferred[i] = o

(* Operations of others that wait here.                                    *)
FromOthers(ops, r, S) == S \subseteq {o \in ops : o.time[2] # r}

InOrder(l) == \A i, j \in DOMAIN l : i < j => ~Later(l[i].time, l[j].time)

Kept(ops, order, r, b) ==
  /\ b \in BufferTypes
  /\ Closed(ops, b.versions, b.clock)
  /\ Holds(ops, order, b.versions, b.chars)
  /\ b.history = HistoryOf(ops, b.versions)
  /\ StackKept(r, b.clock, b.history, b.stack, b.current)
  /\ b.deferred \in Seq({o \in ops : o.time[2] # r})

Misses(o, versions) == \E x \in Replicas : versions[x] < o.versions[x]

Settled(b) == InOrder(b.deferred) /\ \A i \in DOMAIN b.deferred : Misses(b.deferred[i], b.versions)

Invariant(ops, order) ==
  /\ Issued(ops)
  /\ Ordered(ops, order)
  /\ \A r \in Replicas :
       /\ Kept(ops, order, r, buffers[r])
       /\ Settled(buffers[r])
       /\ FromOthers(ops, r, inbox[r])
       /\ \A o \in ops : Accounted(buffers[r], o) \/ o \in inbox[r]
  /\ \A o \in ops : Observed(buffers[o.time[2]].versions, o.time)
  /\ buffers \in [Replicas -> BufferTypes]
  /\ inbox \in [Replicas -> SUBSET ops]
  /\ budget \in [edits : [Replicas -> Nat], undos : [Replicas -> Nat], copies : Nat]

Inv == \E ops, order : Invariant(ops, order)

-----------------------------------------------------------------------------
(* Timestamps.                                                             *)

LEMMA ReplicaFacts ==
  /\ \A r \in Replicas : r \in Nat /\ r # 0 /\ r # BaseReplica
  /\ BaseReplica = 0 /\ BaseEdit = <<0, 0>> /\ BaseEdit[1] = 0 /\ BaseEdit[2] = 0
  /\ BaseEdit \notin Times
  /\ \A t \in Times : t[1] \in Nat /\ t[2] \in Replicas /\ t = <<t[1], t[2]>>
BY BufferAssumption DEF BaseReplica, BaseEdit, Lamport, Times

LEMMA LaterIs ==
  /\ \A s, t \in Times \cup {BaseEdit} :
       /\ s = t \/ Later(s, t) \/ Later(t, s)
       /\ ~(Later(s, t) /\ Later(t, s))
       /\ ~Later(s, s)
       /\ s[1] > t[1] => Later(s, t)
  /\ \A s, t, u \in Times \cup {BaseEdit} : Later(s, t) /\ Later(t, u) => Later(s, u)
  /\ \A t \in Times : Later(t, BaseEdit)
<1>1. \A t \in Times \cup {BaseEdit} : t[1] \in Nat /\ t[2] \in Nat /\ t = <<t[1], t[2]>>
  BY ReplicaFacts
<1>2. \A t \in Times : t[1] >= 0 /\ t[2] > 0
  BY ReplicaFacts
<1>3. \A s, t \in Times \cup {BaseEdit} :
        s[1] = t[1] /\ s[2] = t[2] => s = t
  BY <1>1
<1>4. \A s, t \in Times \cup {BaseEdit} :
       /\ s = t \/ Later(s, t) \/ Later(t, s)
       /\ ~(Later(s, t) /\ Later(t, s))
       /\ ~Later(s, s)
       /\ s[1] > t[1] => Later(s, t)
  BY <1>1, <1>3 DEF Later
<1>5. \A s, t, u \in Times \cup {BaseEdit} : Later(s, t) /\ Later(t, u) => Later(s, u)
  BY <1>1 DEF Later
<1>6. \A t \in Times : Later(t, BaseEdit)
  BY <1>2, ReplicaFacts DEF Later
<1> QED
  BY <1>4, <1>5, <1>6

LEMMA OpFacts ==
  /\ \A o \in EditOps : o.kind = "edit" /\ o.time \in Times /\ o.versions \in [Replicas -> Nat]
                         /\ o.start \in Positions /\ o.end \in Positions /\ o.length \in Nat
  /\ \A o \in UndoOps : o.kind = "undo" /\ o.time \in Times /\ o.versions \in [Replicas -> Nat]
                         /\ o.edits \in SUBSET (Nat \ {0})
BY DEF EditOps, UndoOps

(* What has been observed was done no later than the versions say.         *)
LEMMA PlacedFacts ==
  ASSUME NEW ops, ops \subseteq EditOps \cup UndoOps
  PROVE  /\ \A p \in Placed(ops) : p[1] \in Times \cup {BaseEdit} /\ p[2] \in Nat
                                   /\ p = <<p[1], p[2]>>
         /\ \A o \in Edits(ops) : o \in EditOps /\ \A i \in 1 .. o.length : <<o.time, i>> \in Placed(ops)
         /\ \A o \in Undos(ops) : o \in UndoOps
         /\ \A p \in Placed(ops) :
              p[1] = BaseEdit \/ \E o \in Edits(ops) : p[1] = o.time /\ p[2] \in 1 .. o.length
<1>1. \A p \in Placed(ops) : p[1] \in Times \cup {BaseEdit} /\ p[2] \in Nat /\ p = <<p[1], p[2]>>
  BY DEF Placed
<1>2. \A o \in Edits(ops) : o \in EditOps /\ o.length \in Nat /\ o.time \in Times
  BY OpFacts DEF Edits
<1>3. \A o \in Undos(ops) : o \in UndoOps
  BY OpFacts DEF Undos
<1>4. \A o \in Edits(ops) : \A i \in 1 .. o.length : <<o.time, i>> \in Placed(ops)
  BY <1>2 DEF Placed
<1>5. \A p \in Placed(ops) :
        p[1] = BaseEdit \/ \E o \in Edits(ops) : p[1] = o.time /\ p[2] \in 1 .. o.length
  BY DEF Placed
<1> QED
  BY <1>1, <1>2, <1>3, <1>4, <1>5

-----------------------------------------------------------------------------
(* A new edit finds its place in the order.                                *)

LEMMA PlacedGrows ==
  ASSUME NEW ops, ops \subseteq EditOps \cup UndoOps, NEW o \in EditOps,
         \A p \in ops : p.time # o.time
  PROVE  /\ Placed(ops \cup {o}) = Placed(ops) \cup {<<o.time, i>> : i \in 1 .. o.length}
         /\ \A p \in Placed(ops) : p[1] # o.time
         /\ Edits(ops \cup {o}) = Edits(ops) \cup {o}
<1>1. Edits(ops \cup {o}) = Edits(ops) \cup {o}
  BY OpFacts DEF Edits
<1>2. o.time \in Times /\ o.length \in Nat
  BY OpFacts
<1>3. \A p \in Placed(ops) : p[1] # o.time
  BY <1>2, PlacedFacts, ReplicaFacts DEF Edits
<1>4. \A p : p \in {p1 \in Times \X Nat : p1[1] = o.time /\ p1[2] \in 1 .. o.length}
             <=> p \in {<<o.time, i>> : i \in 1 .. o.length}
  BY <1>2
<1>5. Placed(ops \cup {o})
        = Placed(ops) \cup {p \in Times \X Nat : p[1] = o.time /\ p[2] \in 1 .. o.length}
  BY <1>1, Zenon DEF Placed
<1> QED
  BY <1>1, <1>3, <1>4, <1>5

LEMMA OrderGrows ==
  ASSUME NEW ops, NEW order, ops \subseteq EditOps \cup UndoOps, Ordered(ops, order),
         NEW o \in EditOps, o.start \in Placed(ops), \A p \in ops : p.time # o.time
  PROVE  \E wider : /\ Ordered(ops \cup {o}, wider)
                    /\ \A p, q \in Placed(ops) : Before(wider, p, q) <=> Before(order, p, q)
<1> DEFINE P == Placed(ops)
           New == {<<o.time, i>> : i \in 1 .. o.length}
           Low(p) == \A q \in P : Before(order, o.start, q) /\ (q = p \/ Before(order, q, p))
                                    => Later(q[1], o.time)
<1>1. PICK wider : wider = {pq \in (P \cup New) \X (P \cup New) :
         \/ pq[1] \in P /\ pq[2] \in P /\ pq \in order
         \/ pq[1] \in P /\ pq[2] \in New /\ Low(pq[1])
         \/ pq[1] \in New /\ pq[2] \in P /\ ~Low(pq[2])
         \/ pq[1] \in New /\ pq[2] \in New /\ pq[1][2] < pq[2][2]}
  OBVIOUS
<1>2. /\ Placed(ops \cup {o}) = P \cup New
      /\ Edits(ops \cup {o}) = Edits(ops) \cup {o}
      /\ \A p \in P : p[1] # o.time
      /\ \A p \in P : p[1] \in Times \cup {BaseEdit}
      /\ o.time \in Times /\ o.length \in Nat
      /\ \A e \in Edits(ops) : e \in EditOps /\ e.start \in Positions /\ e.time \in Times
                               /\ \A i \in 1 .. e.length : <<e.time, i>> \in P
  BY PlacedGrows, PlacedFacts, OpFacts
<1>3. \A p \in New : p[1] = o.time /\ p[2] \in 1 .. o.length /\ p = <<o.time, p[2]>> /\ p \notin P
  BY <1>2
<1>4. /\ \A p, q \in P : Before(wider, p, q) <=> Before(order, p, q)
      /\ \A p \in P, q \in New : Before(wider, p, q) <=> Low(p)
      /\ \A p \in New, q \in P : Before(wider, p, q) <=> ~Low(q)
      /\ \A p, q \in New : Before(wider, p, q) <=> p[2] < q[2]
  <2> HIDE DEF P, New, Low
  <2>1. \A p, q \in P \cup New : <<p, q>>[1] = p /\ <<p, q>>[2] = q /\ <<p, q>> \in (P \cup New) \X (P \cup New)
    OBVIOUS
  <2>2. \A p \in New : p \notin P
    BY <1>3
  <2> QED
    BY <1>1, <2>1, <2>2 DEF Before
<1>5. /\ \A p \in P : ~Before(order, p, p)
      /\ \A p, q, s \in P : Before(order, p, q) /\ Before(order, q, s) => Before(order, p, s)
      /\ \A p, q \in P : p = q \/ Before(order, p, q) \/ Before(order, q, p)
      /\ \A e \in Edits(ops) : \A i \in 1 .. e.length :
          /\ Before(order, e.start, <<e.time, i>>)
          /\ \A j \in 1 .. e.length : i < j => Before(order, <<e.time, i>>, <<e.time, j>>)
          /\ \A q \in P : Before(order, e.start, q) /\ Before(order, q, <<e.time, i>>) =>
                            q[1] = e.time \/ Later(q[1], e.time)
      /\ order \subseteq P \X P
  BY DEF Ordered
<1>6. /\ \A p, q \in P : Before(order, p, q) /\ Low(q) => Low(p)
      /\ Low(o.start)
  BY <1>5
<1>7. \A p \in P : Before(order, o.start, p) /\ Low(p) => Later(p[1], o.time)
  OBVIOUS
<1>8. ASSUME NEW e \in Edits(ops), NEW i \in 1 .. e.length, Low(e.start), ~Low(<<e.time, i>>)
      PROVE  Later(o.time, e.time)
  <2>1. PICK q \in P : /\ Before(order, o.start, q)
                       /\ q = <<e.time, i>> \/ Before(order, q, <<e.time, i>>)
                       /\ ~Later(q[1], o.time)
    BY <1>8
  <2>2. Later(o.time, q[1]) /\ q[1] \in Times \cup {BaseEdit} /\ e.time \in Times /\ o.time \in Times
    BY <1>2, <2>1, LaterIs
  <2>3. e.start \in P /\ <<e.time, i>> \in P /\ <<e.time, i>>[1] = e.time
    <3>1. <<e.start, <<e.time, i>>>> \in P \X P
      BY <1>5 DEF Before
    <3> QED
      BY <3>1
  <2>4. ~Before(order, q, e.start) /\ q # e.start
    BY <1>8, <2>1, <2>3
  <2>5. Before(order, e.start, q)
    BY <1>5, <2>3, <2>4
  <2>6. q[1] = e.time \/ Later(q[1], e.time)
    BY <1>5, <2>1, <2>3, <2>5
  <2> QED
    BY <2>2, <2>6, LaterIs
<1> HIDE DEF P, New, Low
<1>9. wider \subseteq (P \cup New) \X (P \cup New)
  BY <1>1
<1>10. \A p \in P \cup New : ~Before(wider, p, p)
  BY <1>2, <1>3, <1>4, <1>5
<1>11. \A p, q, s \in P \cup New : Before(wider, p, q) /\ Before(wider, q, s) => Before(wider, p, s)
  <2>1. TAKE p, q, s \in P \cup New
  <2>2. HAVE Before(wider, p, q) /\ Before(wider, q, s)
  <2>3. \A x \in New : x[2] \in Nat
    BY <1>2, <1>3
  <2>4. CASE p \in P /\ q \in P /\ s \in P
    BY <1>4, <1>5, <2>2, <2>4
  <2>5. CASE p \in P /\ q \in P /\ s \in New
    BY <1>4, <1>6, <2>2, <2>5
  <2>6. CASE p \in P /\ q \in New /\ s \in P
    BY <1>4, <1>5, <1>6, <2>2, <2>6
  <2>7. CASE p \in P /\ q \in New /\ s \in New
    BY <1>4, <2>2, <2>7
  <2>8. CASE p \in New /\ q \in P /\ s \in P
    BY <1>4, <1>6, <2>2, <2>8
  <2>9. CASE p \in New /\ q \in P /\ s \in New
    BY <1>4, <2>2, <2>9
  <2>10. CASE p \in New /\ q \in New /\ s \in P
    BY <1>4, <2>2, <2>10
  <2>11. CASE p \in New /\ q \in New /\ s \in New
    BY <1>4, <2>2, <2>3, <2>11
  <2> QED
    BY <2>4, <2>5, <2>6, <2>7, <2>8, <2>9, <2>10, <2>11
<1>12. \A p, q \in P \cup New : p = q \/ Before(wider, p, q) \/ Before(wider, q, p)
  <2>1. \A x \in New : x[2] \in Nat /\ x = <<o.time, x[2]>>
    BY <1>2, <1>3
  <2>2. \A p, q \in New : p = q \/ Before(wider, p, q) \/ Before(wider, q, p)
    BY <1>4, <2>1
  <2> QED
    BY <1>4, <1>5, <2>2
<1>13. ASSUME NEW e \in Edits(ops) \cup {o}, NEW i \in 1 .. e.length
       PROVE  /\ Before(wider, e.start, <<e.time, i>>)
              /\ \A j \in 1 .. e.length : i < j => Before(wider, <<e.time, i>>, <<e.time, j>>)
              /\ \A q \in P \cup New : Before(wider, e.start, q) /\ Before(wider, q, <<e.time, i>>) =>
                                         q[1] = e.time \/ Later(q[1], e.time)
  <2>1. CASE e \in Edits(ops)
    <3>1. e.start \in P /\ <<e.time, i>> \in P
      <4>1. <<e.start, <<e.time, i>>>> \in P \X P
        BY <1>5, <2>1 DEF Before
      <4> QED
        BY <4>1
    <3>2. \A j \in 1 .. e.length : <<e.time, j>> \in P
      BY <1>2, <2>1
    <3>3. \A q \in New : Before(wider, e.start, q) /\ Before(wider, q, <<e.time, i>>) =>
                           Later(q[1], e.time)
      BY <1>3, <1>4, <1>8, <2>1, <3>1
    <3> QED
      BY <1>4, <1>5, <2>1, <3>1, <3>2, <3>3
  <2>2. CASE e = o
    <3>1. \A j \in 1 .. o.length : <<o.time, j>> \in New /\ <<o.time, j>>[2] = j
      BY DEF New
    <3>2. o.start \in P
      BY DEF P
    <3>3. Before(wider, o.start, <<o.time, i>>)
      BY <1>4, <1>6, <2>2, <3>1, <3>2
    <3>4. \A j \in 1 .. o.length : i < j => Before(wider, <<o.time, i>>, <<o.time, j>>)
      BY <1>4, <2>2, <3>1
    <3>5. \A q \in P : Before(wider, o.start, q) /\ Before(wider, q, <<o.time, i>>) => Later(q[1], o.time)
      BY <1>4, <1>7, <2>2, <3>1, <3>2
    <3> QED
      BY <1>3, <2>2, <3>3, <3>4, <3>5
  <2> QED
    BY <2>1, <2>2
<1>14. Ordered(ops \cup {o}, wider)
  BY <1>2, <1>9, <1>10, <1>11, <1>12, <1>13 DEF Ordered, P, New
<1> QED
  BY <1>4, <1>14 DEF P

-----------------------------------------------------------------------------
(* The characters after an edit.                                           *)

LEMMA ConcatIs ==
  ASSUME NEW S, NEW s \in Seq(S), NEW t \in Seq(S), NEW u, u = s \o t
  PROVE  /\ u \in Seq(S) /\ Len(u) = Len(s) + Len(t)
         /\ \A j \in 1 .. Len(s) : u[j] = s[j]
         /\ \A j \in 1 .. Len(t) : u[Len(s) + j] = t[j]
<1>1. /\ u \in Seq(S) /\ Len(u) = Len(s) + Len(t)
      /\ \A i \in 1 .. Len(s) + Len(t) : u[i] = IF i <= Len(s) THEN s[i] ELSE t[i - Len(s)]
  BY ConcatProperties
<1>2. Len(s) \in Nat /\ Len(t) \in Nat
  OBVIOUS
<1>3. \A j \in 1 .. Len(s) : j \in 1 .. Len(s) + Len(t) /\ j <= Len(s)
  BY <1>2
<1>4. \A j \in 1 .. Len(t) : /\ Len(s) + j \in 1 .. Len(s) + Len(t) /\ ~(Len(s) + j <= Len(s))
                             /\ Len(s) + j - Len(s) = j
  BY <1>2
<1> QED
  BY <1>1, <1>3, <1>4

LEMMA SplicedIs ==
  ASSUME NEW S, NEW chars \in Seq(S), NEW text \in Seq(S), NEW at \in 1 .. Len(chars) + 1
  PROVE  /\ Spliced(chars, at, text) \in Seq(S)
         /\ Len(Spliced(chars, at, text)) = Len(chars) + Len(text)
         /\ \A j \in 1 .. at - 1 : Spliced(chars, at, text)[j] = chars[j]
         /\ \A j \in 1 .. Len(text) : Spliced(chars, at, text)[at - 1 + j] = text[j]
         /\ \A j \in at .. Len(chars) : Spliced(chars, at, text)[Len(text) + j] = chars[j]
<1> DEFINE left == SubSeq(chars, 1, at - 1)
           right == SubSeq(chars, at, Len(chars))
<1>1. at \in Nat /\ at >= 1 /\ Len(chars) \in Nat /\ at - 1 \in Nat /\ at <= Len(chars) + 1
  OBVIOUS
<1>2. left \in Seq(S) /\ Len(left) = at - 1 /\ \A j \in 1 .. at - 1 : left[j] = chars[j]
  <2>1. \A i \in 1 .. at - 1 : chars[i] \in S
    BY <1>1
  <2>2. /\ left \in Seq(S) /\ Len(left) = IF 1 <= at - 1 THEN at - 1 - 1 + 1 ELSE 0
        /\ \A j \in 1 .. at - 1 - 1 + 1 : left[j] = chars[1 + j - 1]
    BY <1>1, <2>1, SubSeqProperties
  <2> QED
    BY <1>1, <2>2
<1>3. right \in Seq(S) /\ Len(right) = Len(chars) - at + 1
      /\ \A j \in 1 .. Len(chars) - at + 1 : right[j] = chars[at + j - 1]
  <2>1. \A i \in at .. Len(chars) : chars[i] \in S
    BY <1>1
  <2>2. /\ right \in Seq(S) /\ Len(right) = IF at <= Len(chars) THEN Len(chars) - at + 1 ELSE 0
        /\ \A j \in 1 .. Len(chars) - at + 1 : right[j] = chars[at + j - 1]
    BY <1>1, <2>1, SubSeqProperties
  <2> QED
    BY <1>1, <2>2
<1> HIDE DEF left, right
<1>4. PICK s : s = left \o text
  OBVIOUS
<1>5. /\ s \in Seq(S) /\ Len(s) = at - 1 + Len(text)
      /\ \A j \in 1 .. at - 1 : s[j] = chars[j]
      /\ \A j \in 1 .. Len(text) : s[at - 1 + j] = text[j]
  <2>1. /\ s \in Seq(S) /\ Len(s) = Len(left) + Len(text)
        /\ \A j \in 1 .. Len(left) : s[j] = left[j]
        /\ \A j \in 1 .. Len(text) : s[Len(left) + j] = text[j]
    <3>1. left \in Seq(S) /\ text \in Seq(S)
      BY <1>2
    <3> QED
      BY ONLY <1>4, <3>1, ConcatIs
  <2> QED
    BY <1>1, <1>2, <2>1
<1>6. PICK w : w = s \o right
  OBVIOUS
<1>7. /\ w \in Seq(S) /\ Len(w) = Len(chars) + Len(text)
      /\ \A j \in 1 .. at - 1 : w[j] = chars[j]
      /\ \A j \in 1 .. Len(text) : w[at - 1 + j] = text[j]
      /\ \A j \in at .. Len(chars) : w[Len(text) + j] = chars[j]
  <2>1. /\ w \in Seq(S) /\ Len(w) = Len(s) + Len(right)
        /\ \A j \in 1 .. Len(s) : w[j] = s[j]
        /\ \A j \in 1 .. Len(right) : w[Len(s) + j] = right[j]
    <3>1. s \in Seq(S) /\ right \in Seq(S)
      BY <1>3, <1>5
    <3> QED
      BY ONLY <1>6, <3>1, ConcatIs
  <2>2. Len(text) \in Nat
    OBVIOUS
  <2>3. ASSUME NEW j \in at .. Len(chars)
        PROVE  w[Len(text) + j] = chars[j]
    <3>1. PICK m : m = j - at + 1
      OBVIOUS
    <3>2. m \in 1 .. Len(right) /\ Len(s) + m = Len(text) + j /\ at + m - 1 = j
      BY <1>1, <1>3, <1>5, <2>2, <3>1
    <3> QED
      BY <1>3, <2>1, <3>2
  <2> QED
    BY <1>1, <1>3, <1>5, <2>1, <2>2, <2>3
<1>8. Spliced(chars, at, text) = w
  BY <1>4, <1>6 DEF Spliced, left, right
<1> QED
  BY <1>7, <1>8

LEMMA CharFacts ==
  /\ \A c \in Chars : Position(c) = <<c.edit, c.offset>> /\ Position(c)[1] = c.edit
                      /\ c.deletions \in SUBSET Times
  /\ \A t \in Times \cup {BaseEdit} : \A k \in Nat :
       Char(t, k) \in Chars /\ Position(Char(t, k)) = <<t, k>> /\ Char(t, k).deletions = {}
  /\ \A c \in Chars, t \in Times :
       /\ [c EXCEPT !.deletions = @ \cup {t}] \in Chars
       /\ Position([c EXCEPT !.deletions = @ \cup {t}]) = Position(c)
       /\ [c EXCEPT !.deletions = @ \cup {t}].deletions = c.deletions \cup {t}
BY DEF Chars, Position, Char

LEMMA InsertionIs ==
  ASSUME NEW t \in Times \cup {BaseEdit}, NEW k \in Nat
  PROVE  /\ Insertion(t, k) \in Seq(Chars)
         /\ Len(Insertion(t, k)) = k
         /\ \A i \in 1 .. k : Position(Insertion(t, k)[i]) = <<t, i>> /\ Insertion(t, k)[i].deletions = {}
<1>1. Insertion(t, k) = [i \in 1 .. k |-> Char(t, i)] /\ \A i \in 1 .. k : i \in Nat
  BY DEF Insertion
<1>2. \A i \in 1 .. k : /\ Char(t, i) \in Chars /\ Position(Char(t, i)) = <<t, i>>
                        /\ Char(t, i).deletions = {}
  BY <1>1, CharFacts
<1> QED
  BY <1>1, <1>2

MarkOf(D, i, t) == IF i \in D THEN {t} ELSE {}

LEMMA MarkedIs ==
  ASSUME NEW chars \in Seq(Chars), NEW D, NEW t \in Times
  PROVE  /\ MarkDeletion(chars, D, t) \in Seq(Chars)
         /\ Len(MarkDeletion(chars, D, t)) = Len(chars)
         /\ \A i \in 1 .. Len(chars) :
              /\ Position(MarkDeletion(chars, D, t)[i]) = Position(chars[i])
              /\ MarkDeletion(chars, D, t)[i].deletions
                   = chars[i].deletions \cup MarkOf(D, i, t)
<1>1. PICK m : m = MarkDeletion(chars, D, t)
  OBVIOUS
<1>2. DOMAIN chars = 1 .. Len(chars) /\ \A i \in 1 .. Len(chars) : chars[i] \in Chars
  OBVIOUS
<1>3. /\ m = [i \in 1 .. Len(chars) |-> m[i]]
      /\ \A i \in 1 .. Len(chars) :
           m[i] = IF i \in D THEN [chars[i] EXCEPT !.deletions = @ \cup {t}] ELSE chars[i]
  BY <1>1, <1>2 DEF MarkDeletion
<1>4. \A i \in 1 .. Len(chars) :
        /\ m[i] \in Chars /\ Position(m[i]) = Position(chars[i])
        /\ m[i].deletions = chars[i].deletions \cup MarkOf(D, i, t)
  <2>1. TAKE i \in 1 .. Len(chars)
  <2>2. chars[i] \in Chars /\ chars[i].deletions \cup {} = chars[i].deletions
    BY <1>2
  <2>3. CASE i \in D
    <3>1. m[i] = [chars[i] EXCEPT !.deletions = @ \cup {t}]
      BY <1>3, <2>3
    <3>2. MarkOf(D, i, t) = {t}
      BY <2>3 DEF MarkOf
    <3> QED
      BY <2>2, <3>1, <3>2, CharFacts
  <2>4. CASE i \notin D
    BY <1>3, <2>2, <2>4 DEF MarkOf
  <2> QED
    BY <2>3, <2>4
<1>5. m \in Seq(Chars) /\ Len(m) = Len(chars)
  BY <1>3, <1>4
<1> QED
  BY <1>1, <1>4, <1>5

(* Every character after the edit is one of before it, with its place kept *)
(* or moved, or one of the new text.                                       *)
Grown(chars, D, t, k, at, new) ==
  /\ new \in Seq(Chars)
  /\ Len(new) = Len(chars) + k
  /\ \A j \in 1 .. at - 1 :
       /\ Position(new[j]) = Position(chars[j])
       /\ new[j].deletions = chars[j].deletions \cup MarkOf(D, j, t)
  /\ \A j \in 1 .. k : Position(new[at - 1 + j]) = <<t, j>> /\ new[at - 1 + j].deletions = {}
  /\ \A j \in at .. Len(chars) :
       /\ Position(new[k + j]) = Position(chars[j])
       /\ new[k + j].deletions = chars[j].deletions \cup MarkOf(D, j, t)

LEMMA GrownIs ==
  ASSUME NEW chars \in Seq(Chars), NEW D, NEW t \in Times, NEW k \in Nat,
         NEW at \in 1 .. Len(chars) + 1, NEW new,
         new = Spliced(MarkDeletion(chars, D, t), at, Insertion(t, k))
  PROVE  Grown(chars, D, t, k, at, new)
<1>1. PICK m : m = MarkDeletion(chars, D, t)
  OBVIOUS
<1>2. PICK text : text = Insertion(t, k)
  OBVIOUS
<1>3. /\ m \in Seq(Chars) /\ Len(m) = Len(chars)
      /\ \A i \in 1 .. Len(chars) :
           /\ Position(m[i]) = Position(chars[i])
           /\ m[i].deletions = chars[i].deletions \cup MarkOf(D, i, t)
  BY <1>1, MarkedIs
<1>4. /\ text \in Seq(Chars) /\ Len(text) = k
      /\ \A i \in 1 .. k : Position(text[i]) = <<t, i>> /\ text[i].deletions = {}
  BY <1>2, InsertionIs
<1>5. /\ Spliced(m, at, text) \in Seq(Chars)
      /\ Len(Spliced(m, at, text)) = Len(m) + Len(text)
      /\ \A j \in 1 .. at - 1 : Spliced(m, at, text)[j] = m[j]
      /\ \A j \in 1 .. Len(text) : Spliced(m, at, text)[at - 1 + j] = text[j]
      /\ \A j \in at .. Len(m) : Spliced(m, at, text)[Len(text) + j] = m[j]
  <2>1. at \in 1 .. Len(m) + 1
    BY <1>3
  <2>2. m \in Seq(Chars) /\ text \in Seq(Chars)
    BY <1>3, <1>4
  <2> QED
    BY ONLY <2>1, <2>2, SplicedIs
<1>6. new = Spliced(m, at, text)
  BY <1>1, <1>2
<1>7. at >= 1 /\ at \in Nat /\ at - 1 <= Len(chars) /\ Len(chars) \in Nat
  OBVIOUS
<1>8. \A j \in 1 .. at - 1 : j \in 1 .. Len(chars)
  BY <1>7
<1>9. \A j \in at .. Len(chars) : j \in 1 .. Len(chars)
  BY <1>7
<1> QED
  BY <1>3, <1>4, <1>5, <1>6, <1>8, <1>9 DEF Grown

-----------------------------------------------------------------------------
(* What is observed.                                                       *)

LEMMA ObserveIs ==
  ASSUME NEW v \in [Replicas -> Nat], NEW t \in Times
  PROVE  /\ ObserveVersion(v, t) \in [Replicas -> Nat]
         /\ \A x \in Replicas :
              ObserveVersion(v, t)[x] = IF x = t[2] /\ t[1] > v[x] THEN t[1] ELSE v[x]
         /\ Precedes(v, ObserveVersion(v, t))
         /\ Observed(ObserveVersion(v, t), t)
<1>1. t[1] \in Nat /\ t[2] \in Replicas
  BY ReplicaFacts
<1>2. ObserveVersion(v, t) = [v EXCEPT ![t[2]] = IF t[1] > v[t[2]] THEN t[1] ELSE v[t[2]]]
  BY DEF ObserveVersion
<1>3. \A x \in Replicas :
        ObserveVersion(v, t)[x] = IF x = t[2] /\ t[1] > v[x] THEN t[1] ELSE v[x]
  BY <1>1, <1>2
<1>4. ObserveVersion(v, t) \in [Replicas -> Nat]
  BY <1>1, <1>2
<1> QED
  BY <1>1, <1>3, <1>4 DEF Precedes, Observed

LEMMA ObservedGrows ==
  ASSUME NEW v \in [Replicas -> Nat], NEW w \in [Replicas -> Nat], Precedes(v, w)
  PROVE  \A t \in Times \cup {BaseEdit} : Observed(v, t) => Observed(w, t)
BY ReplicaFacts DEF Precedes, Observed

LEMMA PrecedesTrans ==
  ASSUME NEW u \in [Replicas -> Nat], NEW v \in [Replicas -> Nat], NEW w \in [Replicas -> Nat],
         Precedes(u, v), Precedes(v, w)
  PROVE  Precedes(u, w)
BY DEF Precedes

(* An operation that can be applied is the only one that becomes observed. *)
LEMMA NewlyObserved ==
  ASSUME NEW ops, Issued(ops), NEW op \in ops, NEW v \in [Replicas -> Nat],
         Precedes(op.versions, v)
  PROVE  \A o \in ops : Observed(ObserveVersion(v, op.time), o.time) <=> Observed(v, o.time) \/ o = op
<1>1. \A o \in ops : o.time \in Times /\ o.time[1] \in Nat /\ o.time[2] \in Replicas
                     /\ o.time = <<o.time[1], o.time[2]>> /\ o.versions \in [Replicas -> Nat]
  BY OpFacts, ReplicaFacts DEF Issued
<1>2. /\ Observed(ObserveVersion(v, op.time), op.time)
      /\ \A x \in Replicas : ObserveVersion(v, op.time)[x]
           = IF x = op.time[2] /\ op.time[1] > v[x] THEN op.time[1] ELSE v[x]
      /\ ObserveVersion(v, op.time) \in [Replicas -> Nat]
      /\ Precedes(v, ObserveVersion(v, op.time))
  BY <1>1, ObserveIs
<1>3. TAKE o \in ops
<1>4. Observed(v, o.time) => Observed(ObserveVersion(v, op.time), o.time)
  BY <1>1, <1>2, ObservedGrows
<1>5. ASSUME Observed(ObserveVersion(v, op.time), o.time), ~Observed(v, o.time)
      PROVE  o = op
  <2>1. o.time[2] # BaseReplica
    BY <1>1, ReplicaFacts
  <2>2. o.time[2] = op.time[2] /\ o.time[1] <= op.time[1] /\ v[o.time[2]] < o.time[1]
    BY <1>1, <1>2, <1>5, <2>1 DEF Observed
  <2>3. CASE o.time[1] < op.time[1]
    <3>1. o.time[1] <= op.versions[op.time[2]]
      BY <2>2, <2>3 DEF Issued
    <3>2. op.versions[op.time[2]] <= v[op.time[2]]
      BY <1>1 DEF Precedes
    <3> QED
      BY <1>1, <2>2, <3>1, <3>2
  <2>4. CASE o.time[1] = op.time[1]
    <3>1. o.time = op.time
      BY <1>1, <2>2, <2>4
    <3> QED
      BY <3>1 DEF Issued
  <2> QED
    BY <1>1, <2>2, <2>3, <2>4
<1> QED
  BY <1>2, <1>4, <1>5

(* An operation does not follow itself.                                    *)
LEMMA NotSeenByAuthor ==
  ASSUME NEW ops, Issued(ops), NEW op \in ops
  PROVE  /\ ~Observed(op.versions, op.time)
         /\ \A t \in Times \cup {BaseEdit} : Observed(op.versions, t) => Later(op.time, t)
<1>1. /\ op.time \in Times /\ op.time[1] \in Nat /\ op.time[2] \in Replicas
      /\ op.versions \in [Replicas -> Nat]
  BY OpFacts, ReplicaFacts DEF Issued
<1>2. op.versions[op.time[2]] < op.time[1]
  BY <1>1 DEF Issued
<1>3. ~Observed(op.versions, op.time)
  BY <1>1, <1>2, ReplicaFacts DEF Observed
<1>4. ASSUME NEW t \in Times, Observed(op.versions, t)
      PROVE  Later(op.time, t)
  <2>1. t[1] \in Nat /\ t[2] \in Replicas /\ t[2] # BaseReplica
    BY ReplicaFacts
  <2>2. t[1] <= op.versions[t[2]]
    BY <1>1, <1>4, <2>1 DEF Observed
  <2>3. op.versions[t[2]] < op.time[1]
    BY <2>1 DEF Issued
  <2> QED
    BY <1>1, <2>1, <2>2, <2>3, LaterIs
<1> QED
  BY <1>1, <1>3, <1>4, LaterIs

LEMMA LeastNat ==
  ASSUME NEW S \in SUBSET Nat, S # {}
  PROVE  \E n \in S : \A m \in S : n <= m
<1>1. PICK Less : Less = {pair \in Nat \X Nat : pair[1] < pair[2]}
  OBVIOUS
<1>2. IsWellFoundedOn(Less, Nat)
  BY <1>1, NatLessThanWellFounded DEF OpToRel
<1>3. \A m, n \in Nat : <<m, n>> \in Less <=> m < n
  BY <1>1
<1>4. S \subseteq Nat /\ S # {}
  OBVIOUS
<1>5. \E n \in S : \A m \in S : ~(<<m, n>> \in Less)
  BY ONLY <1>2, <1>4, WFMin
<1>6. PICK n \in S : \A m \in S : ~(<<m, n>> \in Less)
  BY <1>5
<1>7. ASSUME NEW m \in S
      PROVE  n <= m
  <2>1. m \in Nat /\ n \in Nat /\ ~(<<m, n>> \in Less)
    BY <1>4, <1>6
  <2>2. <<m, n>> \in Less <=> m < n
    BY <1>3, <2>1
  <2> QED
    BY <2>1, <2>2
<1> QED
  BY <1>7

-----------------------------------------------------------------------------
(* Applying an edit.                                                       *)

LEMMA InsertionPointIs ==
  ASSUME NEW chars \in Seq(Chars), NEW s \in 1 .. Len(chars), NEW t
  PROVE  /\ InsertionPoint(chars, s, t) \in s + 1 .. Len(chars) + 1
         /\ InsertionPoint(chars, s, t) <= Len(chars) =>
              Later(t, Position(chars[InsertionPoint(chars, s, t)])[1])
         /\ \A j \in s + 1 .. InsertionPoint(chars, s, t) - 1 : ~Later(t, Position(chars[j])[1])
<1> DEFINE Fits(i) == /\ i <= Len(chars) => Later(t, chars[i].edit)
                      /\ \A j \in s + 1 .. i - 1 : ~Later(t, chars[j].edit)
<1>1. Len(chars) \in Nat /\ s \in Nat /\ s <= Len(chars)
  OBVIOUS
<1>2. PICK S : S = {i \in s + 1 .. Len(chars) + 1 : i <= Len(chars) => Later(t, chars[i].edit)}
  OBVIOUS
<1>3. S \in SUBSET Nat /\ Len(chars) + 1 \in S
  BY <1>1, <1>2
<1>4. PICK i \in S : \A m \in S : i <= m
  BY <1>3, LeastNat
<1>5. \E i1 \in s + 1 .. Len(chars) + 1 : Fits(i1)
  <2>1. i \in s + 1 .. Len(chars) + 1 /\ (i <= Len(chars) => Later(t, chars[i].edit))
    BY <1>2
  <2>2. ASSUME NEW j \in s + 1 .. i - 1, Later(t, chars[j].edit)
        PROVE  FALSE
    <3>1. j \in S /\ j < i
      BY <1>1, <1>2, <2>1, <2>2
    <3> QED
      BY <1>1, <1>4, <2>1, <3>1
  <2> QED
    BY <2>1, <2>2
<1>6. InsertionPoint(chars, s, t) = CHOOSE i1 \in s + 1 .. Len(chars) + 1 : Fits(i1)
  BY DEF InsertionPoint
<1> HIDE DEF Fits
<1>7. PICK at : at = InsertionPoint(chars, s, t)
  OBVIOUS
<1>8. at \in s + 1 .. Len(chars) + 1 /\ Fits(at)
  BY <1>5, <1>6, <1>7
<1>9. \A j \in 1 .. Len(chars) : Position(chars[j])[1] = chars[j].edit
  BY CharFacts
<1>10. \A j \in s + 1 .. at - 1 : j \in 1 .. Len(chars)
  BY <1>1, <1>8
<1>11. at <= Len(chars) => at \in 1 .. Len(chars)
  BY <1>1, <1>8
<1> QED
  BY <1>7, <1>8, <1>9, <1>10, <1>11 DEF Fits

(* The characters a replica holds are distinct, and among them is the      *)
(* start of every edit observed.                                           *)
LEMMA HoldsFacts ==
  ASSUME NEW ops, NEW order, NEW v \in [Replicas -> Nat], NEW chars \in Seq(Chars),
         Issued(ops), Ordered(ops, order), Holds(ops, order, v, chars)
  PROVE  /\ \A i \in 1 .. Len(chars) : /\ Position(chars[i]) \in Placed(ops)
                                       /\ Observed(v, Position(chars[i])[1])
         /\ \A i, j \in 1 .. Len(chars) : i < j <=> Before(order, Position(chars[i]), Position(chars[j]))
         /\ \A i, j \in 1 .. Len(chars) : Position(chars[i]) = Position(chars[j]) => i = j
         /\ \A p \in Placed(ops) : Observed(v, p[1]) =>
              /\ Index(chars, p) \in 1 .. Len(chars)
              /\ Position(chars[Index(chars, p)]) = p
<1>1. DOMAIN chars = 1 .. Len(chars) /\ \A i \in 1 .. Len(chars) : i \in Nat
  OBVIOUS
<1>2. \A i \in 1 .. Len(chars) : /\ Position(chars[i]) \in Placed(ops)
                                 /\ Observed(v, Position(chars[i])[1])
  BY <1>1 DEF Holds
<1>3. \A i, j \in 1 .. Len(chars) : i < j => Before(order, Position(chars[i]), Position(chars[j]))
  BY <1>1 DEF Holds
<1>4. \A i, j \in 1 .. Len(chars) : Before(order, Position(chars[i]), Position(chars[j])) => i < j
  <2>1. TAKE i, j \in 1 .. Len(chars)
  <2>2. HAVE Before(order, Position(chars[i]), Position(chars[j]))
  <2>3. i # j
    BY <1>2, <2>2 DEF Ordered
  <2>4. ASSUME j < i
        PROVE  FALSE
    <3>1. Before(order, Position(chars[j]), Position(chars[i]))
      BY <1>3, <2>4
    <3> QED
      BY <1>2, <2>2, <3>1 DEF Ordered
  <2> QED
    BY <1>1, <2>3, <2>4
<1>5. \A i, j \in 1 .. Len(chars) : Position(chars[i]) = Position(chars[j]) => i = j
  <2>1. TAKE i, j \in 1 .. Len(chars)
  <2>2. HAVE Position(chars[i]) = Position(chars[j])
  <2>3. ~(i < j) /\ ~(j < i)
    BY <1>2, <1>3, <2>2 DEF Ordered
  <2> QED
    BY <1>1, <2>3
<1>6. ASSUME NEW p \in Placed(ops), Observed(v, p[1])
      PROVE  Index(chars, p) \in 1 .. Len(chars) /\ Position(chars[Index(chars, p)]) = p
  <2>1. \E i \in DOMAIN chars : Position(chars[i]) = p
    BY <1>6 DEF Holds
  <2> QED
    BY <1>1, <2>1 DEF Index
<1> QED
  BY <1>2, <1>3, <1>4, <1>5, <1>6

(* The text of an edit goes just where the order wants it: after whatever  *)
(* stands before the insertion point, and before whatever stands after it. *)
LEMMA PlaceFound ==
  ASSUME NEW ops, NEW order, NEW v \in [Replicas -> Nat], NEW chars \in Seq(Chars),
         Issued(ops), Ordered(ops, order), Holds(ops, order, v, chars),
         \A o \in ops : Observed(v, o.time) => Precedes(o.versions, v),
         NEW op \in Edits(ops), Precedes(op.versions, v), ~Observed(v, op.time),
         NEW s \in 1 .. Len(chars), Position(chars[s]) = op.start,
         NEW at, at = InsertionPoint(chars, s, op.time),
         NEW i \in 1 .. op.length
  PROVE  /\ \A j \in 1 .. at - 1 : Before(order, Position(chars[j]), <<op.time, i>>)
         /\ \A j \in at .. Len(chars) : Before(order, <<op.time, i>>, Position(chars[j]))
<1> DEFINE new == <<op.time, i>>
<1>1. /\ op \in ops /\ op \in EditOps /\ op.time \in Times
      /\ new \in Placed(ops) /\ new[1] = op.time
      /\ op.start \in Placed(ops)
  BY PlacedFacts, OpFacts DEF Issued, Edits
<1>2. /\ \A j \in 1 .. Len(chars) : /\ Position(chars[j]) \in Placed(ops)
                                    /\ Observed(v, Position(chars[j])[1])
      /\ \A j, m \in 1 .. Len(chars) : j < m <=> Before(order, Position(chars[j]), Position(chars[m]))
      /\ \A j, m \in 1 .. Len(chars) : Position(chars[j]) = Position(chars[m]) => j = m
      /\ \A p \in Placed(ops) : Observed(v, p[1]) =>
              /\ Index(chars, p) \in 1 .. Len(chars)
              /\ Position(chars[Index(chars, p)]) = p
  BY HoldsFacts
<1>3. /\ \A p, q, r \in Placed(ops) : Before(order, p, q) /\ Before(order, q, r) => Before(order, p, r)
      /\ \A p, q \in Placed(ops) : p = q \/ Before(order, p, q) \/ Before(order, q, p)
      /\ \A p \in Placed(ops) : ~Before(order, p, p)
  BY DEF Ordered
<1>4. /\ Before(order, op.start, new)
      /\ \A q \in Placed(ops) : Before(order, op.start, q) /\ Before(order, q, new) =>
                                  q[1] = op.time \/ Later(q[1], op.time)
  BY DEF Ordered
<1>5. \A j \in 1 .. Len(chars) : /\ Position(chars[j])[1] # op.time
                                 /\ Position(chars[j]) # new
                                 /\ Position(chars[j])[1] \in Times \cup {BaseEdit}
  BY <1>1, <1>2, PlacedFacts DEF Issued
<1>6. /\ at \in s + 1 .. Len(chars) + 1
      /\ at <= Len(chars) => Later(op.time, Position(chars[at])[1])
      /\ \A j \in s + 1 .. at - 1 : ~Later(op.time, Position(chars[j])[1])
  BY InsertionPointIs
<1>7. Len(chars) \in Nat /\ s \in Nat /\ at \in Nat
  BY <1>6
<1> HIDE DEF new
<1>8. ASSUME NEW j \in at .. Len(chars)
      PROVE  Before(order, new, Position(chars[j]))
  <2>1. at \in 1 .. Len(chars) /\ at <= Len(chars) /\ j \in 1 .. Len(chars) /\ s < at /\ at <= j
    BY <1>6, <1>7
  <2>2. Before(order, op.start, Position(chars[at]))
    BY <1>2, <2>1
  <2>3. ~Later(Position(chars[at])[1], op.time)
    BY <1>1, <1>5, <1>6, <2>1, LaterIs
  <2>4. ~Before(order, Position(chars[at]), new)
    BY <1>2, <1>4, <1>5, <2>1, <2>2, <2>3
  <2>5. Before(order, new, Position(chars[at]))
    BY <1>1, <1>2, <1>3, <1>5, <2>1, <2>4 DEF new
  <2>6. CASE j = at
    BY <2>5, <2>6
  <2>7. CASE at < j
    <3>1. Before(order, Position(chars[at]), Position(chars[j]))
      BY <1>2, <2>1, <2>7
    <3> QED
      BY <1>1, <1>2, <1>3, <2>1, <2>5, <3>1
  <2> QED
    BY <1>7, <2>1, <2>6, <2>7
<1>9. PICK bad : bad = {j \in s + 1 .. at - 1 : ~Before(order, Position(chars[j]), new)}
  OBVIOUS
<1>10. ASSUME bad # {}
       PROVE  FALSE
  <2>1. bad \in SUBSET Nat
    BY <1>7, <1>9
  <2>2. PICK j \in bad : \A m \in bad : j <= m
    BY <1>10, <2>1, LeastNat
  <2>3. j \in s + 1 .. at - 1 /\ j \in 1 .. Len(chars) /\ ~Before(order, Position(chars[j]), new)
    BY <1>6, <1>7, <1>9
  <2>4. Before(order, new, Position(chars[j]))
    BY <1>1, <1>2, <1>3, <1>5, <2>3 DEF new
  <2>5. PICK u : u = Position(chars[j])[1]
    OBVIOUS
  <2>6. Later(u, op.time) /\ u \in Times \cup {BaseEdit} /\ ~Later(op.time, u) /\ u # BaseEdit
    BY <1>1, <1>5, <1>6, <2>3, <2>5, LaterIs
  <2>7. Position(chars[j]) \in Placed(ops) /\ Position(chars[j]) = <<u, Position(chars[j])[2]>>
    BY <1>2, <2>3, <2>5, PlacedFacts DEF Issued
  <2>8. PICK o \in Edits(ops) : u = o.time /\ Position(chars[j])[2] \in 1 .. o.length
    BY <2>5, <2>6, <2>7, PlacedFacts DEF Issued
  <2>9. o \in ops /\ Observed(v, o.time) /\ o.versions \in [Replicas -> Nat]
    BY <1>2, <2>3, <2>5, <2>8, OpFacts DEF Edits, Issued
  <2>10. o.start \in Placed(ops) /\ Observed(v, o.start[1])
    <3>1. o.start \in Placed(ops) /\ Observed(o.versions, o.start[1]) /\ Precedes(o.versions, v)
      BY <2>8, <2>9 DEF Issued
    <3>2. o.start[1] \in Times \cup {BaseEdit}
      BY <3>1, PlacedFacts DEF Issued
    <3> QED
      BY <2>9, <3>1, <3>2, ObservedGrows
  <2>11. PICK l : l = Index(chars, o.start)
    OBVIOUS
  <2>12. l \in 1 .. Len(chars) /\ Position(chars[l]) = o.start
    BY <1>2, <2>10, <2>11
  <2>13. Before(order, o.start, Position(chars[j]))
    BY <2>7, <2>8 DEF Ordered
  <2>14. l < j
    BY <1>2, <2>3, <2>12, <2>13
  <2>15. Before(order, o.start, new)
    <3>1. CASE l <= s
      <4>1. l = s \/ Before(order, o.start, op.start)
        BY <1>2, <1>7, <2>12, <3>1
      <4> QED
        BY <1>1, <1>3, <1>4, <2>10, <2>12, <4>1 DEF new
    <3>2. CASE l > s
      <4>1. l \in s + 1 .. at - 1 /\ l \notin bad
        BY <1>7, <2>1, <2>2, <2>3, <2>12, <2>14, <3>2
      <4> QED
        BY <1>9, <2>12, <4>1
    <3> QED
      BY <1>7, <2>12, <3>1, <3>2
  <2>16. new[1] = o.time \/ Later(new[1], o.time)
    BY <1>1, <2>4, <2>7, <2>8, <2>15 DEF Ordered, new
  <2> QED
    BY <1>1, <2>6, <2>8, <2>16, LaterIs DEF new
<1>11. ASSUME NEW j \in 1 .. at - 1
       PROVE  Before(order, Position(chars[j]), new)
  <2>1. CASE j > s
    <3>1. j \in s + 1 .. at - 1
      BY <1>7, <2>1
    <3> QED
      BY <1>9, <1>10, <3>1
  <2>2. CASE j <= s
    <3>1. j \in 1 .. Len(chars)
      BY <1>7, <2>2
    <3>2. j = s \/ Before(order, Position(chars[j]), op.start)
      BY <1>2, <1>7, <2>2, <3>1
    <3> QED
      BY <1>1, <1>2, <1>3, <1>4, <3>1, <3>2 DEF new
  <2> QED
    BY <1>7, <2>1, <2>2
<1> QED
  BY <1>8, <1>11 DEF new

LEMMA EditHolds ==
  ASSUME NEW ops, NEW order, NEW v \in [Replicas -> Nat], NEW chars \in Seq(Chars),
         Issued(ops), Ordered(ops, order), Holds(ops, order, v, chars),
         \A o \in ops : Observed(v, o.time) => Precedes(o.versions, v),
         NEW op \in Edits(ops), Precedes(op.versions, v), ~Observed(v, op.time),
         NEW s, s = Index(chars, op.start), NEW e, e = Index(chars, op.end),
         NEW D, D = DeletedInRange(chars, s, e, op.versions),
         NEW new, new = Spliced(MarkDeletion(chars, D, op.time),
                                InsertionPoint(chars, s, op.time), Insertion(op.time, op.length))
  PROVE  new \in Seq(Chars) /\ Holds(ops, order, ObserveVersion(v, op.time), new)
<1>1. PICK w : w = ObserveVersion(v, op.time)
  OBVIOUS
<1>2. PICK at : at = InsertionPoint(chars, s, op.time)
  OBVIOUS
<1>3. PICK k : k = op.length
  OBVIOUS
<1>4. PICK n : n = Len(chars)
  OBVIOUS
<1>5. /\ op \in ops /\ op \in EditOps /\ op.time \in Times /\ k \in Nat
      /\ op.versions \in [Replicas -> Nat]
      /\ op.start \in Placed(ops) /\ op.end \in Placed(ops)
      /\ \A i \in 1 .. k : <<op.time, i>> \in Placed(ops)
  BY <1>3, PlacedFacts, OpFacts DEF Issued, Edits
<1>6. Observed(v, op.start[1]) /\ Observed(v, op.end[1])
  <2>1. op.start[1] \in Times \cup {BaseEdit} /\ op.end[1] \in Times \cup {BaseEdit}
    BY <1>5, PlacedFacts DEF Issued
  <2>2. Observed(op.versions, op.start[1]) /\ Observed(op.versions, op.end[1])
    BY DEF Issued
  <2> QED
    BY <1>5, <2>1, <2>2, ObservedGrows
<1>7. /\ \A j \in 1 .. n : /\ Position(chars[j]) \in Placed(ops)
                           /\ Observed(v, Position(chars[j])[1])
      /\ \A j, m \in 1 .. n : j < m <=> Before(order, Position(chars[j]), Position(chars[m]))
      /\ \A j, m \in 1 .. n : Position(chars[j]) = Position(chars[m]) => j = m
      /\ \A p \in Placed(ops) : Observed(v, p[1]) =>
              /\ Index(chars, p) \in 1 .. n
              /\ Position(chars[Index(chars, p)]) = p
  <2>1. /\ \A j \in 1 .. Len(chars) : /\ Position(chars[j]) \in Placed(ops)
                                      /\ Observed(v, Position(chars[j])[1])
        /\ \A j, m \in 1 .. Len(chars) :
             j < m <=> Before(order, Position(chars[j]), Position(chars[m]))
        /\ \A j, m \in 1 .. Len(chars) : Position(chars[j]) = Position(chars[m]) => j = m
        /\ \A p \in Placed(ops) : Observed(v, p[1]) =>
              /\ Index(chars, p) \in 1 .. Len(chars)
              /\ Position(chars[Index(chars, p)]) = p
    BY HoldsFacts
  <2> QED
    BY <1>4, <2>1
<1>8. /\ s \in 1 .. n /\ Position(chars[s]) = op.start
      /\ e \in 1 .. n /\ Position(chars[e]) = op.end
  BY <1>5, <1>6, <1>7
<1>9. n \in Nat /\ at \in s + 1 .. n + 1 /\ at \in 1 .. n + 1 /\ at \in Nat /\ at >= 1
  BY <1>2, <1>4, <1>8, InsertionPointIs
<1>10. /\ new \in Seq(Chars) /\ Len(new) = n + k
       /\ \A j \in 1 .. at - 1 :
              /\ Position(new[j]) = Position(chars[j])
              /\ new[j].deletions = chars[j].deletions \cup MarkOf(D, j, op.time)
       /\ \A j \in 1 .. k : Position(new[at - 1 + j]) = <<op.time, j>> /\ new[at - 1 + j].deletions = {}
       /\ \A j \in at .. n :
              /\ Position(new[k + j]) = Position(chars[j])
              /\ new[k + j].deletions = chars[j].deletions \cup MarkOf(D, j, op.time)
  <2>1. PICK t : t = op.time
    OBVIOUS
  <2>2. new = Spliced(MarkDeletion(chars, D, t), at, Insertion(t, k))
    BY <1>2, <1>3, <2>1
  <2>3. at \in 1 .. Len(chars) + 1 /\ t \in Times /\ k \in Nat /\ chars \in Seq(Chars)
    BY <1>4, <1>5, <1>9, <2>1
  <2>4. Grown(chars, D, t, k, at, new)
    BY ONLY <2>2, <2>3, GrownIs
  <2> QED
    BY <1>4, <2>1, <2>4 DEF Grown
<1>11. \A i \in 1 .. k :
         /\ \A j \in 1 .. at - 1 : Before(order, Position(chars[j]), <<op.time, i>>)
         /\ \A j \in at .. n : Before(order, <<op.time, i>>, Position(chars[j]))
  BY <1>2, <1>3, <1>4, <1>8, PlaceFound
<1>12. /\ w \in [Replicas -> Nat] /\ Precedes(v, w) /\ Observed(w, op.time)
       /\ \A o \in ops : Observed(w, o.time) <=> Observed(v, o.time) \/ o = op
       /\ \A t \in Times \cup {BaseEdit} : Observed(v, t) => Observed(w, t)
  <2>1. /\ w \in [Replicas -> Nat] /\ Precedes(v, w) /\ Observed(w, op.time)
    BY <1>1, <1>5, ObserveIs
  <2>2. \A o \in ops : Observed(w, o.time) <=> Observed(v, o.time) \/ o = op
    BY <1>1, <1>5, NewlyObserved
  <2> QED
    BY <2>1, <2>2, ObservedGrows
<1> DEFINE Stays(m, j) == (m = j /\ j < at) \/ (m = k + j /\ j >= at)
<1>13. \A m \in 1 .. n + k :
         \/ \E j \in 1 .. n : Stays(m, j)
         \/ \E i \in 1 .. k : m = at - 1 + i
  <2>1. TAKE m \in 1 .. n + k
  <2>2. CASE m < at
    <3>1. m \in 1 .. n /\ Stays(m, m)
      BY <1>9, <2>2
    <3> QED
      BY <3>1
  <2>3. CASE m >= at + k
    <3>1. m - k \in 1 .. n /\ Stays(m, m - k)
      BY <1>5, <1>9, <2>3
    <3> QED
      BY <3>1
  <2>4. CASE m >= at /\ m < at + k
    <3>1. m - at + 1 \in 1 .. k /\ m = at - 1 + (m - at + 1)
      BY <1>5, <1>9, <2>4
    <3> QED
      BY <3>1
  <2> QED
    BY <1>5, <1>9, <2>2, <2>3, <2>4
<1>14. \A m \in 1 .. n + k, j \in 1 .. n : Stays(m, j) =>
         /\ Position(new[m]) = Position(chars[j])
         /\ new[m].deletions = chars[j].deletions \cup MarkOf(D, j, op.time)
  <2>1. TAKE m \in 1 .. n + k, j \in 1 .. n
  <2>2. CASE m = j /\ j < at
    <3>1. j \in 1 .. at - 1
      BY <1>9, <2>2
    <3> QED
      BY <1>10, <2>2, <3>1
  <2>3. CASE m = k + j /\ j >= at
    <3>1. j \in at .. n
      BY <1>9, <2>3
    <3> QED
      BY <1>10, <2>3, <3>1
  <2> QED
    BY <2>2, <2>3
<1>15. \A j \in 1 .. n : \E m \in 1 .. n + k : Stays(m, j)
  <2>1. TAKE j \in 1 .. n
  <2>2. CASE j < at
    <3>1. j \in 1 .. n + k /\ Stays(j, j)
      BY <1>5, <1>9, <2>2
    <3> QED
      BY <3>1
  <2>3. CASE j >= at
    <3>1. k + j \in 1 .. n + k /\ Stays(k + j, j)
      BY <1>5, <1>9, <2>3
    <3> QED
      BY <3>1
  <2> QED
    BY <1>9, <2>2, <2>3
<1>16. DOMAIN new = 1 .. n + k /\ DOMAIN chars = 1 .. n
  BY <1>4, <1>10
<1>17. \A m \in 1 .. n + k : Position(new[m]) \in Placed(ops) /\ Observed(w, Position(new[m])[1])
  <2>1. TAKE m \in 1 .. n + k
  <2>2. ASSUME NEW j \in 1 .. n, Stays(m, j)
        PROVE  Position(new[m]) \in Placed(ops) /\ Observed(w, Position(new[m])[1])
    <3>1. /\ Position(new[m]) = Position(chars[j])
          /\ Position(chars[j]) \in Placed(ops) /\ Observed(v, Position(chars[j])[1])
      BY <1>7, <1>14, <2>2
    <3>2. Position(chars[j])[1] \in Times \cup {BaseEdit}
      BY <3>1, PlacedFacts DEF Issued
    <3> QED
      BY <1>12, <3>1, <3>2
  <2>3. ASSUME NEW i \in 1 .. k, m = at - 1 + i
        PROVE  Position(new[m]) \in Placed(ops) /\ Observed(w, Position(new[m])[1])
    <3>1. Position(new[m]) = <<op.time, i>> /\ Position(new[m])[1] = op.time
      BY <1>10, <2>3
    <3> QED
      BY <1>5, <1>12, <3>1
  <2> QED
    BY <1>13, <2>2, <2>3
<1>18. ASSUME NEW p \in Placed(ops), Observed(w, p[1])
       PROVE  \E m \in 1 .. n + k : Position(new[m]) = p
  <2>1. ASSUME Observed(v, p[1])
        PROVE  \E m \in 1 .. n + k : Position(new[m]) = p
    <3>1. PICK j \in 1 .. n : Position(chars[j]) = p
      BY <1>7, <2>1
    <3> QED
      BY <1>14, <1>15, <3>1
  <2>2. ASSUME p[1] = op.time
        PROVE  \E m \in 1 .. n + k : Position(new[m]) = p
    <3>1. p = <<op.time, p[2]>>
      BY <2>2, PlacedFacts DEF Issued
    <3>2. p[1] # BaseEdit
      BY <1>5, <2>2, ReplicaFacts
    <3>3. PICK o \in Edits(ops) : p[1] = o.time /\ p[2] \in 1 .. o.length
      BY <3>2, PlacedFacts DEF Issued
    <3>4. o = op
      BY <1>5, <2>2, <3>3 DEF Issued, Edits
    <3>5. PICK i \in 1 .. k : p = <<op.time, i>>
      BY <1>3, <3>1, <3>3, <3>4
    <3>6. at - 1 + i \in 1 .. n + k
      BY <1>5, <1>9
    <3> QED
      BY <1>10, <3>5, <3>6
  <2>3. p[1] = BaseEdit \/ \E o \in Edits(ops) : p[1] = o.time
    BY PlacedFacts DEF Issued
  <2>4. ASSUME p[1] = BaseEdit
        PROVE  Observed(v, p[1])
    BY <2>4, ReplicaFacts DEF Observed
  <2>5. ASSUME NEW o \in Edits(ops), p[1] = o.time
        PROVE  Observed(v, p[1]) \/ p[1] = op.time
    BY <1>12, <1>18, <2>5 DEF Edits
  <2> QED
    BY <2>1, <2>2, <2>3, <2>4, <2>5
<1>19. \A m, l \in 1 .. n + k : m < l => Before(order, Position(new[m]), Position(new[l]))
  <2>1. TAKE m, l \in 1 .. n + k
  <2>2. HAVE m < l
  <2>3. ASSUME NEW j \in 1 .. n, Stays(m, j), NEW h \in 1 .. n, Stays(l, h)
        PROVE  Before(order, Position(new[m]), Position(new[l]))
    <3>1. j < h
      BY <1>5, <1>9, <2>2, <2>3
    <3> QED
      BY <1>7, <1>14, <2>3, <3>1
  <2>4. ASSUME NEW j \in 1 .. n, Stays(m, j), NEW i \in 1 .. k, l = at - 1 + i
        PROVE  Before(order, Position(new[m]), Position(new[l]))
    <3>1. j \in 1 .. at - 1
      BY <1>5, <1>9, <2>2, <2>4
    <3> QED
      BY <1>10, <1>11, <1>14, <2>4, <3>1
  <2>5. ASSUME NEW i \in 1 .. k, m = at - 1 + i, NEW h \in 1 .. n, Stays(l, h)
        PROVE  Before(order, Position(new[m]), Position(new[l]))
    <3>1. h \in at .. n
      BY <1>5, <1>9, <2>2, <2>5
    <3> QED
      BY <1>10, <1>11, <1>14, <2>5, <3>1
  <2>6. ASSUME NEW i \in 1 .. k, m = at - 1 + i, NEW h \in 1 .. k, l = at - 1 + h
        PROVE  Before(order, Position(new[m]), Position(new[l]))
    <3>1. i < h
      BY <1>5, <1>9, <2>2, <2>6
    <3>2. Before(order, <<op.time, i>>, <<op.time, h>>)
      BY <1>3, <3>1 DEF Ordered
    <3> QED
      BY <1>10, <2>6, <3>2
  <2> HIDE DEF Stays
  <2> QED
    BY <1>13, <2>3, <2>4, <2>5, <2>6
<1>20. \A o \in Edits(ops) : o \in ops /\ o.time \in Times /\ o.versions \in [Replicas -> Nat]
  BY OpFacts DEF Edits, Issued
<1>21. ASSUME NEW j \in 1 .. n
       PROVE  j \in D <=> Deletes(order, op, Position(chars[j]))
  <2>1. j \in D <=> s < j /\ j <= e /\ Observed(op.versions, Position(chars[j])[1])
    <3>1. Position(chars[j])[1] = chars[j].edit
      BY <1>4, CharFacts
    <3>2. j \in s + 1 .. e <=> s < j /\ j <= e
      BY <1>8
    <3> QED
      BY <3>1, <3>2 DEF DeletedInRange
  <2>2. s < j <=> Before(order, op.start, Position(chars[j]))
    BY <1>7, <1>8
  <2>3. j <= e <=> Position(chars[j]) = op.end \/ Before(order, Position(chars[j]), op.end)
    <3>1. j < e <=> Before(order, Position(chars[j]), op.end)
      BY <1>7, <1>8
    <3>2. j = e <=> Position(chars[j]) = op.end
      BY <1>7, <1>8
    <3>3. j \in Nat /\ e \in Nat
      BY <1>8
    <3> QED
      BY <3>1, <3>2, <3>3
  <2> QED
    BY <2>1, <2>2, <2>3 DEF Deletes
<1>22. ASSUME NEW j \in 1 .. n
       PROVE  chars[j].deletions \cup MarkOf(D, j, op.time)
                = DeletionsOf(ops, order, w, Position(chars[j]))
  <2>1. PICK p : p = Position(chars[j])
    OBVIOUS
  <2>2. chars[j].deletions = DeletionsOf(ops, order, v, p)
    BY <1>16, <2>1 DEF Holds
  <2>3. \A t : t \in DeletionsOf(ops, order, w, p)
               <=> t \in DeletionsOf(ops, order, v, p) \/ (t = op.time /\ Deletes(order, op, p))
    <3>1. \A t : t \in DeletionsOf(ops, order, w, p)
                  <=> \E o \in Edits(ops) : o.time = t /\ Observed(w, o.time) /\ Deletes(order, o, p)
      BY <1>20 DEF DeletionsOf
    <3>2. \A t : t \in DeletionsOf(ops, order, v, p)
                  <=> \E o \in Edits(ops) : o.time = t /\ Observed(v, o.time) /\ Deletes(order, o, p)
      BY <1>20 DEF DeletionsOf
    <3>3. \A o \in Edits(ops) : Observed(w, o.time) <=> Observed(v, o.time) \/ o = op
      BY <1>12, <1>20
    <3> QED
      BY <3>1, <3>2, <3>3
  <2>4. j \in D <=> Deletes(order, op, p)
    BY <1>21, <2>1
  <2> QED
    BY <2>1, <2>2, <2>3, <2>4 DEF MarkOf
<1>23. ASSUME NEW i \in 1 .. k
       PROVE  DeletionsOf(ops, order, w, <<op.time, i>>) = {}
  <2>1. ASSUME NEW o \in Edits(ops), Observed(w, o.time), Deletes(order, o, <<op.time, i>>)
        PROVE  FALSE
    <3>1. Observed(o.versions, op.time)
      BY <2>1 DEF Deletes
    <3>2. o # op
      BY <1>5, <3>1, NotSeenByAuthor
    <3>3. Observed(v, o.time) /\ Precedes(o.versions, v)
      BY <1>12, <1>20, <2>1, <3>2
    <3> QED
      BY <1>5, <1>20, <3>1, <3>3, ObservedGrows
  <2> QED
    BY <2>1 DEF DeletionsOf
<1>24. \A m \in 1 .. n + k : new[m].deletions = DeletionsOf(ops, order, w, Position(new[m]))
  <2>1. TAKE m \in 1 .. n + k
  <2>2. ASSUME NEW j \in 1 .. n, Stays(m, j)
        PROVE  new[m].deletions = DeletionsOf(ops, order, w, Position(new[m]))
    <3> HIDE DEF Stays
    <3> QED
      BY <1>14, <1>22, <2>2
  <2>3. ASSUME NEW i \in 1 .. k, m = at - 1 + i
        PROVE  new[m].deletions = DeletionsOf(ops, order, w, Position(new[m]))
    BY <1>10, <1>23, <2>3
  <2> QED
    BY <1>13, <2>2, <2>3
<1>25. Holds(ops, order, w, new)
  <2>1. \A i \in DOMAIN new : Position(new[i]) \in Placed(ops) /\ Observed(w, Position(new[i])[1])
    BY <1>16, <1>17
  <2>2. \A p \in Placed(ops) : Observed(w, p[1]) => \E i \in DOMAIN new : Position(new[i]) = p
    BY <1>16, <1>18
  <2>3. \A i, j \in DOMAIN new : i < j => Before(order, Position(new[i]), Position(new[j]))
    BY <1>16, <1>19
  <2>4. \A i \in DOMAIN new : new[i].deletions = DeletionsOf(ops, order, w, Position(new[i]))
    BY <1>16, <1>24
  <2> QED
    BY <2>1, <2>2, <2>3, <2>4 DEF Holds
<1> QED
  BY <1>1, <1>10, <1>25

-----------------------------------------------------------------------------
(* A new operation, to a replica that has not observed it.                 *)

(* wider is an order after op is issued, if order was one before.          *)
Extends(ops, order, op, wider) ==
  /\ Ordered(ops \cup {op}, wider)
  /\ \A p, q \in Placed(ops) : Before(wider, p, q) <=> Before(order, p, q)

LEMMA PlacedMore ==
  ASSUME NEW ops, ops \subseteq EditOps \cup UndoOps, NEW op \in EditOps \cup UndoOps,
         \A p \in ops : p.time # op.time
  PROVE  /\ Placed(ops) \subseteq Placed(ops \cup {op})
         /\ \A p \in Placed(ops \cup {op}) : p \in Placed(ops) \/ p[1] = op.time
         /\ \A p \in Placed(ops) : p[1] # op.time
         /\ \A o : o \in Edits(ops \cup {op}) <=> o \in Edits(ops) \/ (o = op /\ op.kind = "edit")
         /\ \A o : o \in Undos(ops \cup {op}) <=> o \in Undos(ops) \/ (o = op /\ op.kind = "undo")
<1>1. (op.kind = "edit" /\ op \in EditOps) \/ (op.kind = "undo" /\ op \in UndoOps)
  <2>1. CASE op \in EditOps
    BY <2>1, OpFacts
  <2>2. CASE op \in UndoOps
    BY <2>2, OpFacts
  <2> QED
    BY <2>1, <2>2
<1>2. /\ \A o : o \in Edits(ops \cup {op}) <=> o \in Edits(ops) \/ (o = op /\ op.kind = "edit")
      /\ \A o : o \in Undos(ops \cup {op}) <=> o \in Undos(ops) \/ (o = op /\ op.kind = "undo")
  BY DEF Edits, Undos
<1>3. CASE op.kind = "edit" /\ op \in EditOps
  <2>1. /\ Placed(ops \cup {op}) = Placed(ops) \cup {<<op.time, i>> : i \in 1 .. op.length}
        /\ \A p \in Placed(ops) : p[1] # op.time
    BY <1>3, PlacedGrows
  <2>2. \A p \in {<<op.time, i>> : i \in 1 .. op.length} : p[1] = op.time
    OBVIOUS
  <2> QED
    BY <1>2, <2>1, <2>2
<1>4. CASE op.kind = "undo" /\ op \in UndoOps
  <2>1. Edits(ops \cup {op}) = Edits(ops)
    <3>1. op.kind # "edit"
      BY <1>4
    <3> QED
      BY <1>2, <3>1
  <2>2. Placed(ops \cup {op}) = Placed(ops)
    BY <2>1 DEF Placed
  <2>3. \A p \in Placed(ops) : p[1] # op.time
    <3>1. op.time # BaseEdit
      BY <1>4, OpFacts, ReplicaFacts
    <3> QED
      BY <3>1, PlacedFacts DEF Edits
  <2> QED
    BY <1>2, <2>2, <2>3
<1> QED
  BY <1>1, <1>3, <1>4

LEMMA HoldsExtends ==
  ASSUME NEW ops, NEW order, NEW v \in [Replicas -> Nat], NEW chars,
         Issued(ops), Holds(ops, order, v, chars),
         NEW op \in EditOps \cup UndoOps, \A p \in ops : p.time # op.time, ~Observed(v, op.time),
         NEW wider, Extends(ops, order, op, wider)
  PROVE  Holds(ops \cup {op}, wider, v, chars)
<1>1. /\ Placed(ops) \subseteq Placed(ops \cup {op})
      /\ \A p \in Placed(ops \cup {op}) : p \in Placed(ops) \/ p[1] = op.time
      /\ Edits(ops) \subseteq Edits(ops \cup {op})
      /\ \A o \in Edits(ops \cup {op}) : o \in Edits(ops) \/ o = op
  <2>1. ops \subseteq EditOps \cup UndoOps
    BY DEF Issued
  <2>2. \A o : o \in Edits(ops \cup {op}) <=> o \in Edits(ops) \/ (o = op /\ op.kind = "edit")
    BY <2>1, PlacedMore
  <2> QED
    BY <2>1, <2>2, PlacedMore
<1>2. \A p, q \in Placed(ops) : Before(wider, p, q) <=> Before(order, p, q)
  BY DEF Extends
<1>3. \A o \in Edits(ops), p \in Placed(ops) : Deletes(wider, o, p) <=> Deletes(order, o, p)
  <2>1. \A o \in Edits(ops) : o.start \in Placed(ops) /\ o.end \in Placed(ops)
    BY DEF Issued
  <2> QED
    BY <1>2, <2>1 DEF Deletes
<1>4. ASSUME NEW p \in Placed(ops)
      PROVE  DeletionsOf(ops \cup {op}, wider, v, p) = DeletionsOf(ops, order, v, p)
  <2>1. \A t \in Times :
          (\E o \in Edits(ops \cup {op}) : o.time = t /\ Observed(v, t) /\ Deletes(wider, o, p))
          <=> (\E o \in Edits(ops) : o.time = t /\ Observed(v, t) /\ Deletes(order, o, p))
    BY <1>1, <1>3
  <2> QED
    BY <2>1 DEF DeletionsOf
<1>5. \A i \in DOMAIN chars :
        /\ Position(chars[i]) \in Placed(ops) /\ Observed(v, Position(chars[i])[1])
        /\ chars[i].deletions = DeletionsOf(ops, order, v, Position(chars[i]))
  BY DEF Holds
<1>6. \A i \in DOMAIN chars :
        /\ Position(chars[i]) \in Placed(ops \cup {op}) /\ Observed(v, Position(chars[i])[1])
        /\ chars[i].deletions = DeletionsOf(ops \cup {op}, wider, v, Position(chars[i]))
  BY <1>1, <1>4, <1>5
<1>7. \A i, j \in DOMAIN chars : i < j => Before(wider, Position(chars[i]), Position(chars[j]))
  BY <1>2, <1>5 DEF Holds
<1>8. \A p \in Placed(ops \cup {op}) : Observed(v, p[1]) => \E i \in DOMAIN chars : Position(chars[i]) = p
  BY <1>1 DEF Holds
<1> QED
  BY <1>6, <1>7, <1>8 DEF Holds

LEMMA ClosedExtends ==
  ASSUME NEW ops, NEW v, NEW clock, Closed(ops, v, clock), NEW op, ~Observed(v, op.time)
  PROVE  Closed(ops \cup {op}, v, clock)
BY DEF Closed

LEMMA HistoryExtends ==
  ASSUME NEW ops, Issued(ops), NEW op \in EditOps \cup UndoOps, \A p \in ops : p.time # op.time,
         NEW v, ~Observed(v, op.time)
  PROVE  HistoryOf(ops \cup {op}, v) = HistoryOf(ops, v)
<1>1. /\ Undos(ops) \subseteq Undos(ops \cup {op})
      /\ \A o \in Undos(ops \cup {op}) : o \in Undos(ops) \/ o = op
  BY PlacedMore DEF Issued
<1>2. \A u \in [edit : Times, value : Nat] :
        (\E o \in Undos(ops \cup {op}) : /\ Observed(v, o.time) /\ u.value = o.time[1]
                                         /\ u.edit[2] = o.time[2] /\ u.edit[1] \in o.edits)
        <=> (\E o \in Undos(ops) : /\ Observed(v, o.time) /\ u.value = o.time[1]
                                   /\ u.edit[2] = o.time[2] /\ u.edit[1] \in o.edits)
  BY <1>1
<1> QED
  BY <1>2 DEF HistoryOf

LEMMA KeptExtends ==
  ASSUME NEW ops, NEW order, NEW q, NEW b, Issued(ops), Kept(ops, order, q, b),
         NEW op \in EditOps \cup UndoOps, \A p \in ops : p.time # op.time,
         ~Observed(b.versions, op.time),
         NEW wider, Extends(ops, order, op, wider)
  PROVE  Kept(ops \cup {op}, wider, q, b)
<1>1. b \in BufferTypes /\ b.versions \in [Replicas -> Nat]
  BY DEF Kept, BufferTypes
<1>2. /\ Closed(ops \cup {op}, b.versions, b.clock)
      /\ Holds(ops \cup {op}, wider, b.versions, b.chars)
      /\ b.history = HistoryOf(ops \cup {op}, b.versions)
  BY <1>1, ClosedExtends, HoldsExtends, HistoryExtends DEF Kept
<1>3. b.deferred \in Seq({o \in ops \cup {op} : o.time[2] # q})
  <2>1. b.deferred \in Seq({o \in ops : o.time[2] # q})
    BY DEF Kept
  <2>2. {o \in ops : o.time[2] # q} \subseteq {o \in ops \cup {op} : o.time[2] # q}
    OBVIOUS
  <2> QED
    BY <2>1, <2>2
<1> QED
  BY <1>1, <1>2, <1>3 DEF Kept

(* What an author issues. *)
LEMMA IssuedGrows ==
  ASSUME NEW ops, NEW r \in Replicas, NEW v \in [Replicas -> Nat], NEW clock \in Nat,
         Issued(ops), Closed(ops, v, clock),
         \A o \in ops : o.time[2] = r => Observed(v, o.time),
         NEW op \in EditOps \cup UndoOps, op.time = <<clock + 1, r>>, op.versions = v,
         op.kind = "edit" => /\ op.start \in Placed(ops) /\ Observed(v, op.start[1])
                             /\ op.end \in Placed(ops) /\ Observed(v, op.end[1]),
         op.kind = "undo" => \A u \in op.edits : u <= clock
  PROVE  Issued(ops \cup {op}) /\ \A p \in ops : p.time # op.time
<1>1. \A o \in ops : o.time \in Times /\ o.time[1] \in Nat /\ o.time[2] \in Replicas
  BY OpFacts, ReplicaFacts DEF Issued
<1>2. r # BaseReplica /\ op.time[1] = clock + 1 /\ op.time[2] = r
  BY ReplicaFacts
<1>3. \A o \in ops : o.time[2] = r => o.time[1] <= v[r] /\ o.time[1] <= clock
  <2>1. v[r] <= clock /\ v[r] \in Nat
    BY DEF Closed
  <2> QED
    BY <1>1, <1>2, <2>1 DEF Observed
<1>4. \A p \in ops : p.time # op.time
  BY <1>1, <1>2, <1>3
<1>5. /\ Placed(ops) \subseteq Placed(ops \cup {op})
      /\ \A o \in Edits(ops \cup {op}) : o \in Edits(ops) \/ (o = op /\ op.kind = "edit")
      /\ \A o \in Undos(ops \cup {op}) : o \in Undos(ops) \/ (o = op /\ op.kind = "undo")
  <2>1. op.kind = "edit" \/ op.kind = "undo"
    BY OpFacts
  <2> QED
    BY <1>4, <2>1, PlacedMore DEF Issued
<1>6. \A o \in ops \cup {op} : \A x \in Replicas :
        /\ o.versions[x] < o.time[1]
        /\ o.versions[x] = 0 \/ \E p \in ops \cup {op} : p.time = <<o.versions[x], x>>
  <2>1. \A x \in Replicas : v[x] < clock + 1 /\ (v[x] = 0 \/ \E p \in ops : p.time = <<v[x], x>>)
    <3>1. \A x \in Replicas : v[x] \in Nat /\ v[x] <= clock
      BY DEF Closed
    <3> QED
      BY <3>1 DEF Closed
  <2>2. ASSUME NEW o \in ops, NEW x \in Replicas
        PROVE  /\ o.versions[x] < o.time[1]
               /\ o.versions[x] = 0 \/ \E p \in ops : p.time = <<o.versions[x], x>>
    BY DEF Issued
  <2>3. \A x \in Replicas :
          /\ op.versions[x] < op.time[1]
          /\ op.versions[x] = 0 \/ \E p \in ops : p.time = <<op.versions[x], x>>
    BY <1>2, <2>1
  <2> QED
    BY <2>2, <2>3
<1>7. ASSUME NEW o \in ops \cup {op}, NEW p \in ops \cup {op},
             o.time[2] = p.time[2], p.time[1] < o.time[1]
      PROVE  p.time[1] <= o.versions[o.time[2]]
  <2>1. CASE o \in ops /\ p \in ops
    BY <1>7, <2>1 DEF Issued
  <2>2. CASE o = op /\ p \in ops
    BY <1>2, <1>3, <1>7, <2>2
  <2>3. CASE p = op
    BY <1>1, <1>2, <1>3, <1>7, <2>3
  <2> QED
    BY <2>1, <2>2, <2>3
<1>8. \A o \in Edits(ops \cup {op}) :
       /\ o.start \in Placed(ops \cup {op}) /\ Observed(o.versions, o.start[1])
       /\ o.end \in Placed(ops \cup {op}) /\ Observed(o.versions, o.end[1])
  BY <1>5 DEF Issued
<1>9. \A o \in Undos(ops \cup {op}) : \A u \in o.edits : u < o.time[1]
  <2>1. \A u \in op.edits : op.kind = "undo" => u < op.time[1]
    <3>1. op.kind = "undo" => op.edits \subseteq Nat
      BY OpFacts
    <3> QED
      BY <1>2, <3>1
  <2> QED
    BY <1>5, <2>1 DEF Issued
<1>10. /\ ops \cup {op} \subseteq EditOps \cup UndoOps
       /\ \A o, p \in ops \cup {op} : o.time = p.time => o = p
  BY <1>4 DEF Issued
<1> QED
  BY <1>4, <1>6, <1>7, <1>8, <1>9, <1>10 DEF Issued

-----------------------------------------------------------------------------
(* Applying an operation of another replica.                               *)

MayIssue(ops, r, v, clock, op) ==
  /\ Issued(ops) /\ Closed(ops, v, clock)
  /\ r \in Replicas /\ v \in [Replicas -> Nat] /\ clock \in Nat
  /\ \A o \in ops : o.time[2] = r => Observed(v, o.time)
  /\ op \in EditOps \cup UndoOps /\ op.time = <<clock + 1, r>> /\ op.versions = v
  /\ op.kind = "edit" => /\ op.start \in Placed(ops) /\ Observed(v, op.start[1])
                         /\ op.end \in Placed(ops) /\ Observed(v, op.end[1])
  /\ op.kind = "undo" => \A u \in op.edits : u <= clock

IssuedWith(ops, op) == Issued(ops \cup {op}) /\ \A p \in ops : p.time # op.time

LEMMA MayBeIssued ==
  ASSUME NEW ops, NEW r, NEW v, NEW clock, NEW op, MayIssue(ops, r, v, clock, op)
  PROVE  IssuedWith(ops, op)
<1>1. /\ Issued(ops) /\ Closed(ops, v, clock)
      /\ r \in Replicas /\ v \in [Replicas -> Nat] /\ clock \in Nat
      /\ \A o \in ops : o.time[2] = r => Observed(v, o.time)
      /\ op \in EditOps \cup UndoOps /\ op.time = <<clock + 1, r>> /\ op.versions = v
      /\ op.kind = "edit" => /\ op.start \in Placed(ops) /\ Observed(v, op.start[1])
                             /\ op.end \in Placed(ops) /\ Observed(v, op.end[1])
      /\ op.kind = "undo" => \A u \in op.edits : u <= clock
  BY DEF MayIssue
<1>2. Issued(ops \cup {op}) /\ \A p \in ops : p.time # op.time
  BY ONLY <1>1, IssuedGrows
<1> QED
  BY <1>2 DEF IssuedWith

LEMMA UndoneIs ==
  ASSUME NEW ops, Issued(ops), NEW op \in Undos(ops), NEW v, NEW w,
         \A o \in ops : Observed(w, o.time) <=> Observed(v, o.time) \/ o = op
  PROVE  HistoryOf(ops, w) = HistoryOf(ops, v)
           \cup {[edit |-> Lamport(x, op.time[2]), value |-> op.time[1]] : x \in op.edits}
<1>1. /\ op \in ops /\ op.time \in Times /\ op.time[1] \in Nat /\ op.time[2] \in Replicas
      /\ op.edits \subseteq Nat /\ \A o \in Undos(ops) : o \in ops
  <2>1. op \in ops /\ op \in UndoOps
    BY PlacedFacts DEF Issued, Undos
  <2> QED
    BY <2>1, OpFacts, ReplicaFacts DEF Undos
<1> DEFINE U == [edit : Times, value : Nat]
           Of(u, o) == u.value = o.time[1] /\ u.edit[2] = o.time[2] /\ u.edit[1] \in o.edits
           New == {[edit |-> Lamport(x, op.time[2]), value |-> op.time[1]] : x \in op.edits}
<1>2. \A u : u \in New <=> u \in U /\ Of(u, op)
  <2>1. ASSUME NEW u \in New
        PROVE  u \in U /\ Of(u, op)
    <3>1. PICK x \in op.edits : u = [edit |-> <<x, op.time[2]>>, value |-> op.time[1]]
      BY DEF Lamport
    <3>2. u.edit = <<x, op.time[2]>> /\ u.value = op.time[1] /\ u.edit[1] = x /\ u.edit[2] = op.time[2]
      BY <3>1
    <3>3. x \in Nat /\ <<x, op.time[2]>> \in Times
      BY <1>1 DEF Times
    <3> QED
      BY <1>1, <3>1, <3>2, <3>3
  <2>2. ASSUME NEW u \in U, Of(u, op)
        PROVE  u \in New
    <3>1. u = [edit |-> u.edit, value |-> u.value] /\ u.edit \in Times
      OBVIOUS
    <3>2. u.edit = <<u.edit[1], u.edit[2]>>
      BY <3>1, ReplicaFacts
    <3>3. u = [edit |-> Lamport(u.edit[1], op.time[2]), value |-> op.time[1]] /\ u.edit[1] \in op.edits
      BY <2>2, <3>1, <3>2 DEF Lamport
    <3> QED
      BY <3>3
  <2> QED
    BY <2>1, <2>2
<1>3. \A u : u \in HistoryOf(ops, w) <=> u \in U /\ \E o \in Undos(ops) : Observed(w, o.time) /\ Of(u, o)
  BY DEF HistoryOf
<1>4. \A u : u \in HistoryOf(ops, v) <=> u \in U /\ \E o \in Undos(ops) : Observed(v, o.time) /\ Of(u, o)
  BY DEF HistoryOf
<1>5. \A o \in Undos(ops) : Observed(w, o.time) <=> Observed(v, o.time) \/ o = op
  BY <1>1
<1> HIDE DEF U, Of, New
<1>6. \A u : u \in HistoryOf(ops, w) <=> u \in HistoryOf(ops, v) \/ u \in New
  BY <1>2, <1>3, <1>4, <1>5
<1>7. HistoryOf(ops, w) = HistoryOf(ops, v) \cup New
  BY <1>6
<1> QED
  BY <1>7 DEF New

LEMMA NothingUndone ==
  ASSUME NEW ops, Issued(ops), NEW op \in Edits(ops), NEW v, NEW w,
         \A o \in ops : Observed(w, o.time) <=> Observed(v, o.time) \/ o = op
  PROVE  HistoryOf(ops, w) = HistoryOf(ops, v)
<1>1. \A o \in Undos(ops) : o \in ops /\ o # op
  BY DEF Edits, Undos
<1>2. \A o \in Undos(ops) : Observed(w, o.time) <=> Observed(v, o.time)
  BY <1>1
<1> QED
  BY <1>2 DEF HistoryOf

LEMMA ClosedAfter ==
  ASSUME NEW ops, Issued(ops), NEW op \in ops, NEW v \in [Replicas -> Nat], NEW clock \in Nat,
         Closed(ops, v, clock), Precedes(op.versions, v),
         NEW later \in Nat, clock <= later, op.time[1] <= later
  PROVE  Closed(ops, ObserveVersion(v, op.time), later)
<1>1. PICK w : w = ObserveVersion(v, op.time)
  OBVIOUS
<1>2. \A o \in ops : o.time \in Times /\ o.versions \in [Replicas -> Nat]
                     /\ o.time = <<o.time[1], o.time[2]>> /\ o.time[1] \in Nat
  BY OpFacts, ReplicaFacts DEF Issued
<1>3. /\ w \in [Replicas -> Nat] /\ Precedes(v, w)
      /\ \A x \in Replicas : w[x] = IF x = op.time[2] /\ op.time[1] > v[x] THEN op.time[1] ELSE v[x]
  BY <1>1, <1>2, ObserveIs
<1>4. \A o \in ops : Observed(w, o.time) <=> Observed(v, o.time) \/ o = op
  BY <1>1, NewlyObserved
<1>5. \A o \in ops : Observed(w, o.time) => Precedes(o.versions, w)
  <2>1. \A o \in ops : Observed(w, o.time) => Precedes(o.versions, v)
    BY <1>4 DEF Closed
  <2> QED
    BY <1>2, <1>3, <2>1, PrecedesTrans
<1>6. ASSUME NEW x \in Replicas
      PROVE  w[x] <= later /\ (w[x] = 0 \/ \E o \in ops : o.time = <<w[x], x>>)
  <2>1. /\ v[x] \in Nat /\ v[x] <= clock /\ (v[x] = 0 \/ \E o \in ops : o.time = <<v[x], x>>)
    BY DEF Closed
  <2>2. CASE x = op.time[2] /\ op.time[1] > v[x]
    BY <1>2, <1>3, <2>2
  <2>3. CASE ~(x = op.time[2] /\ op.time[1] > v[x])
    BY <1>3, <2>1, <2>3
  <2> QED
    BY <2>2, <2>3
<1> QED
  BY <1>1, <1>5, <1>6 DEF Closed

LEMMA StackUntouched ==
  ASSUME NEW r, NEW clock \in Nat, NEW later \in Nat, clock <= later, NEW history, NEW wider,
         NEW stack \in Seq(SUBSET (Nat \ {0})), NEW current,
         StackKept(r, clock, history, stack, current),
         wider \subseteq [edit : Times, value : Nat],
         \A u : u.edit[2] = r => (u \in wider <=> u \in history)
  PROVE  StackKept(r, later, wider, stack, current)
<1>1. \A v : UndosOf(wider, <<v, r>>) = UndosOf(history, <<v, r>>)
  <2>1. \A v : \A u : u.edit = <<v, r>> => u.edit[2] = r
    OBVIOUS
  <2> QED
    BY <2>1 DEF UndosOf
<1>2. \A v : IsEditUndone(wider, <<v, r>>) <=> IsEditUndone(history, <<v, r>>)
  <2>1. \A v : /\ {u \in wider : u.edit = <<v, r>>} = UndosOf(wider, <<v, r>>)
               /\ {u \in history : u.edit = <<v, r>>} = UndosOf(history, <<v, r>>)
    BY DEF UndosOf
  <2> QED
    BY <1>1, <2>1 DEF IsEditUndone
<1>3. \A u \in wider : u.edit[2] = r => u.value <= later
  BY DEF StackKept
<1>4. \A i \in DOMAIN stack : \A v \in stack[i] : v \in Nat
  OBVIOUS
<1> QED
  BY <1>1, <1>2, <1>3, <1>4 DEF StackKept

LEMMA BufferFacts ==
  /\ \A b \in BufferTypes :
       /\ b.chars \in Seq(Chars) /\ b.versions \in [Replicas -> Nat] /\ b.clock \in Nat
       /\ b.deferred \in Seq(EditOps \cup UndoOps)
       /\ b.history \in SUBSET [edit : Times, value : Nat]
       /\ b.stack \in Seq(SUBSET (Nat \ {0})) /\ b.current \in Nat /\ b.recent \in BOOLEAN
  /\ \A b \in BufferTypes, chars \in Seq(Chars) :
       /\ [b EXCEPT !.chars = chars] \in BufferTypes
       /\ [b EXCEPT !.chars = chars].chars = chars
       /\ [b EXCEPT !.chars = chars].versions = b.versions
       /\ [b EXCEPT !.chars = chars].clock = b.clock
       /\ [b EXCEPT !.chars = chars].deferred = b.deferred
       /\ [b EXCEPT !.chars = chars].history = b.history
       /\ [b EXCEPT !.chars = chars].stack = b.stack
       /\ [b EXCEPT !.chars = chars].current = b.current
  /\ \A b \in BufferTypes, deferred \in Seq(EditOps \cup UndoOps) :
       /\ [b EXCEPT !.deferred = deferred] \in BufferTypes
       /\ [b EXCEPT !.deferred = deferred].chars = b.chars
       /\ [b EXCEPT !.deferred = deferred].versions = b.versions
       /\ [b EXCEPT !.deferred = deferred].clock = b.clock
       /\ [b EXCEPT !.deferred = deferred].deferred = deferred
       /\ [b EXCEPT !.deferred = deferred].history = b.history
       /\ [b EXCEPT !.deferred = deferred].stack = b.stack
       /\ [b EXCEPT !.deferred = deferred].current = b.current
BY DEF BufferTypes

Revised(b, history, a) ==
  /\ a \in BufferTypes /\ a.chars = b.chars /\ a.versions = b.versions
  /\ a.clock = b.clock /\ a.deferred = b.deferred /\ a.history = history
  /\ a.stack = b.stack /\ a.current = b.current

LEMMA WithHistory ==
  ASSUME NEW b \in BufferTypes, NEW history, history \subseteq [edit : Times, value : Nat],
         NEW a, a = [b EXCEPT !.history = history]
  PROVE  Revised(b, history, a)
BY DEF BufferTypes, Revised

LEMMA AcknowledgeIs ==
  ASSUME NEW b \in BufferTypes, NEW t \in Times
  PROVE  /\ Acknowledge(b, t) \in BufferTypes
         /\ Acknowledge(b, t).chars = b.chars
         /\ Acknowledge(b, t).versions = ObserveVersion(b.versions, t)
         /\ Acknowledge(b, t).clock \in Nat
         /\ Acknowledge(b, t).clock >= b.clock /\ Acknowledge(b, t).clock >= t[1]
         /\ Acknowledge(b, t).deferred = b.deferred
         /\ Acknowledge(b, t).history = b.history
         /\ Acknowledge(b, t).stack = b.stack
         /\ Acknowledge(b, t).current = b.current
<1>1. PICK clock : clock = (IF t[1] > b.clock THEN t[1] ELSE b.clock) + 1
  OBVIOUS
<1>2. PICK v : v = ObserveVersion(b.versions, t)
  OBVIOUS
<1>3. b.clock \in Nat /\ t[1] \in Nat /\ b.versions \in [Replicas -> Nat]
  BY BufferFacts, ReplicaFacts
<1>4. clock \in Nat /\ clock >= b.clock /\ clock >= t[1] /\ v \in [Replicas -> Nat]
  BY <1>1, <1>2, <1>3, ObserveIs
<1>5. Acknowledge(b, t) = [b EXCEPT !.clock = clock, !.versions = v]
  BY <1>1, <1>2 DEF Acknowledge
<1> QED
  BY <1>2, <1>4, <1>5 DEF BufferTypes

LEMMA UndoHolds ==
  ASSUME NEW ops, NEW order, Issued(ops), NEW op \in Undos(ops), NEW v, NEW w,
         \A o \in ops : Observed(w, o.time) <=> Observed(v, o.time) \/ o = op,
         NEW chars, Holds(ops, order, v, chars)
  PROVE  Holds(ops, order, w, chars)
<1>1. \A o \in Edits(ops) : o \in ops /\ o # op
  BY DEF Edits, Undos
<1>2. \A o \in Edits(ops) : Observed(w, o.time) <=> Observed(v, o.time)
  BY <1>1
<1>3. \A p \in Placed(ops) : Observed(w, p[1]) <=> Observed(v, p[1])
  <2>1. \A p \in Placed(ops) : p[1] = BaseEdit \/ \E o \in Edits(ops) : p[1] = o.time
    BY PlacedFacts DEF Issued
  <2>2. Observed(w, BaseEdit) /\ Observed(v, BaseEdit)
    BY ReplicaFacts DEF Observed
  <2> QED
    BY <1>2, <2>1, <2>2
<1>4. \A p : DeletionsOf(ops, order, w, p) = DeletionsOf(ops, order, v, p)
  <2>1. \A t : (\E o \in Edits(ops) : o.time = t) => (Observed(w, t) <=> Observed(v, t))
    BY <1>2
  <2> QED
    BY <2>1 DEF DeletionsOf
<1> QED
  BY <1>3, <1>4 DEF Holds

LEMMA ApplyKeeps ==
  ASSUME NEW ops, NEW order, Issued(ops), Ordered(ops, order),
         NEW r \in Replicas, NEW b, Kept(ops, order, r, b),
         NEW op \in ops, op.time[2] # r, Precedes(op.versions, b.versions)
  PROVE  /\ Kept(ops, order, r, ApplyOp(b, op))
         /\ ApplyOp(b, op).deferred = b.deferred
         /\ \A x \in Replicas : ApplyOp(b, op).versions[x] # b.versions[x] =>
              x = op.time[2] /\ ApplyOp(b, op).versions[x] = op.time[1]
         /\ Precedes(b.versions, ApplyOp(b, op).versions)
         /\ Observed(ApplyOp(b, op).versions, op.time)
<1>1. CASE Observed(b.versions, op.time)
  <2>1. b \in BufferTypes /\ b.versions \in [Replicas -> Nat]
    BY BufferFacts DEF Kept
  <2>2. ApplyOp(b, op) = b
    BY <1>1 DEF ApplyOp
  <2> QED
    BY <1>1, <2>1, <2>2 DEF Precedes
<1>2. CASE ~Observed(b.versions, op.time)
  <2>1. /\ b \in BufferTypes /\ b.chars \in Seq(Chars) /\ b.versions \in [Replicas -> Nat]
        /\ b.clock \in Nat /\ b.deferred \in Seq(EditOps \cup UndoOps)
        /\ b.history \in SUBSET [edit : Times, value : Nat]
        /\ b.stack \in Seq(SUBSET (Nat \ {0})) /\ b.current \in Nat
    BY BufferFacts DEF Kept
  <2>2. op \in EditOps \cup UndoOps /\ op.time \in Times /\ op.time[1] \in Nat
    BY OpFacts, ReplicaFacts DEF Issued
  <2>3. PICK w : w = ObserveVersion(b.versions, op.time)
    OBVIOUS
  <2>4. \A o \in ops : Observed(w, o.time) <=> Observed(b.versions, o.time) \/ o = op
    BY <2>1, <2>3, NewlyObserved
  <2>5. /\ Precedes(b.versions, w) /\ Observed(w, op.time)
        /\ \A x \in Replicas : w[x] = IF x = op.time[2] /\ op.time[1] > b.versions[x]
                                      THEN op.time[1] ELSE b.versions[x]
    BY <2>1, <2>2, <2>3, ObserveIs
  <2>6. /\ Closed(ops, b.versions, b.clock) /\ Holds(ops, order, b.versions, b.chars)
        /\ b.history = HistoryOf(ops, b.versions)
        /\ StackKept(r, b.clock, b.history, b.stack, b.current)
        /\ b.deferred \in Seq({o \in ops : o.time[2] # r})
    BY DEF Kept
  <2>7. ASSUME NEW a \in BufferTypes, ApplyOp(b, op) = Acknowledge(a, op.time),
               a.versions = b.versions, a.clock = b.clock, a.deferred = b.deferred,
               a.stack = b.stack, a.current = b.current,
               Holds(ops, order, w, a.chars), a.history = HistoryOf(ops, w),
               \A u : u.edit[2] = r => (u \in a.history <=> u \in b.history)
        PROVE  /\ Kept(ops, order, r, ApplyOp(b, op))
               /\ ApplyOp(b, op).deferred = b.deferred
               /\ \A x \in Replicas : ApplyOp(b, op).versions[x] # b.versions[x] =>
                    x = op.time[2] /\ ApplyOp(b, op).versions[x] = op.time[1]
               /\ Precedes(b.versions, ApplyOp(b, op).versions)
               /\ Observed(ApplyOp(b, op).versions, op.time)
    <3>1. PICK c : c = ApplyOp(b, op)
      OBVIOUS
    <3>2. /\ c \in BufferTypes /\ c.chars = a.chars /\ c.versions = w
          /\ c.clock \in Nat /\ b.clock <= c.clock /\ op.time[1] <= c.clock
          /\ c.deferred = b.deferred /\ c.history = a.history
          /\ c.stack = b.stack /\ c.current = b.current
      BY <2>1, <2>2, <2>3, <2>7, <3>1, AcknowledgeIs
    <3>3. Closed(ops, c.versions, c.clock)
      BY <2>1, <2>3, <2>6, <3>2, ClosedAfter
    <3>4. a.history \subseteq [edit : Times, value : Nat]
      BY <2>7, BufferFacts
    <3>5. StackKept(r, c.clock, c.history, c.stack, c.current)
      BY <2>1, <2>6, <2>7, <3>2, <3>4, StackUntouched
    <3>6. Kept(ops, order, r, c)
      BY <2>6, <2>7, <3>2, <3>3, <3>5 DEF Kept
    <3> QED
      BY <2>5, <3>1, <3>2, <3>6
  <2>8. CASE op.kind = "edit"
    <3>1. op \in Edits(ops) /\ op.length \in Nat
      BY <2>2, <2>8, OpFacts DEF Edits
    <3>2. PICK chars : chars = ApplyEdit(b, op).chars
      OBVIOUS
    <3>3. /\ chars = Spliced(MarkDeletion(b.chars,
                               DeletedInRange(b.chars, Index(b.chars, op.start), Index(b.chars, op.end),
                                              op.versions), op.time),
                             InsertionPoint(b.chars, Index(b.chars, op.start), op.time),
                             Insertion(op.time, op.length))
          /\ ApplyEdit(b, op) = [b EXCEPT !.chars = chars]
      <4>1. "chars" \in DOMAIN b
        BY <2>1 DEF BufferTypes
      <4>2. ApplyEdit(b, op) = [b EXCEPT !.chars =
                       Spliced(MarkDeletion(b.chars,
                               DeletedInRange(b.chars, Index(b.chars, op.start), Index(b.chars, op.end),
                                              op.versions), op.time),
                             InsertionPoint(b.chars, Index(b.chars, op.start), op.time),
                             Insertion(op.time, op.length))]
        BY DEF ApplyEdit
      <4> QED
        BY <3>2, <4>1, <4>2
    <3>4. chars \in Seq(Chars) /\ Holds(ops, order, w, chars)
      <4>1. \A o \in ops : Observed(b.versions, o.time) => Precedes(o.versions, b.versions)
        BY <2>6 DEF Closed
      <4> QED
        BY <1>2, <2>1, <2>3, <2>6, <3>1, <3>3, <4>1, EditHolds
    <3>5. PICK a : a = [b EXCEPT !.chars = chars]
      OBVIOUS
    <3>6. /\ a \in BufferTypes /\ a.chars = chars /\ a.versions = b.versions /\ a.clock = b.clock
          /\ a.deferred = b.deferred /\ a.stack = b.stack /\ a.current = b.current
          /\ a.history = b.history
      BY <2>1, <3>4, <3>5, BufferFacts
    <3>7. b.history = HistoryOf(ops, w)
      BY <2>4, <2>6, <3>1, NothingUndone
    <3>8. ApplyOp(b, op) = Acknowledge(a, op.time)
      BY <1>2, <2>8, <3>3, <3>5 DEF ApplyOp, AppliedAgain
    <3> QED
      BY <2>7, <3>4, <3>6, <3>7, <3>8
  <2>9. CASE op.kind = "undo"
    <3>1. op \in Undos(ops) /\ op.edits \subseteq Nat
      BY <2>2, <2>9, OpFacts DEF Undos
    <3>2. PICK new : new = {[edit |-> Lamport(x, op.time[2]), value |-> op.time[1]] : x \in op.edits}
      OBVIOUS
    <3>3. PICK a : a = [b EXCEPT !.history = b.history \cup new]
      OBVIOUS
    <3>4. b.history \cup new = HistoryOf(ops, w)
      BY <2>4, <2>6, <3>1, <3>2, UndoneIs
    <3>5. b.history \cup new \in SUBSET [edit : Times, value : Nat]
      BY <3>4 DEF HistoryOf
    <3>6. /\ a \in BufferTypes /\ a.chars = b.chars /\ a.versions = b.versions /\ a.clock = b.clock
          /\ a.deferred = b.deferred /\ a.stack = b.stack /\ a.current = b.current
          /\ a.history = b.history \cup new
      <4>1. PICK history : history = b.history \cup new
        OBVIOUS
      <4>2. history \subseteq [edit : Times, value : Nat] /\ a = [b EXCEPT !.history = history]
        BY <3>3, <3>5, <4>1
      <4>3. Revised(b, history, a)
        BY ONLY <2>1, <4>2, WithHistory
      <4> QED
        BY <4>1, <4>3 DEF Revised
    <3>7. \A u \in new : u.edit[2] # r
      BY <3>2 DEF Lamport
    <3>8. ApplyOp(b, op) = Acknowledge(a, op.time)
      BY <1>2, <2>9, <3>2, <3>3 DEF ApplyOp, AppliedAgain, UndoOrRedo
    <3>9. Holds(ops, order, w, b.chars)
      BY <2>4, <2>6, <3>1, UndoHolds
    <3> QED
      BY <2>7, <3>4, <3>6, <3>7, <3>8, <3>9
  <2> QED
    BY <2>2, <2>8, <2>9, OpFacts
<1> QED
  BY <1>1, <1>2

-----------------------------------------------------------------------------
(* Sorting what is deferred.                                               *)

Sorts(p, times, n) ==
  /\ p \in [1 .. n -> 1 .. n]
  /\ \A i, j \in 1 .. n : p[i] = p[j] => i = j
  /\ \A m \in 1 .. n : \E i \in 1 .. n : p[i] = m
  /\ \A i, j \in 1 .. n : i < j => ~Later(times[p[i]], times[p[j]])

(* The next element goes before the first that is later.                   *)
LEMMA InsertOne ==
  ASSUME NEW n \in Nat, NEW times \in [1 .. n + 1 -> Times], NEW p, Sorts(p, times, n)
  PROVE  \E q : Sorts(q, times, n + 1)
<1>1. PICK k : k = n + 1
  OBVIOUS
<1>2. k \in Nat /\ k >= 1 /\ n = k - 1
  BY <1>1
<1>3. PICK S : S = {j \in 1 .. k : j = k \/ Later(times[p[j]], times[k])}
  OBVIOUS
<1>4. S \in SUBSET Nat /\ k \in S
  BY <1>2, <1>3
<1>5. PICK c \in S : \A j \in S : c <= j
  BY <1>4, LeastNat
<1>6. /\ c \in 1 .. k
      /\ \A j \in 1 .. k : j < c => ~Later(times[p[j]], times[k])
      /\ c < k => Later(times[p[c]], times[k])
  BY <1>2, <1>3, <1>5
<1>7. /\ \A j \in 1 .. n : p[j] \in 1 .. n /\ p[j] \in 1 .. k /\ p[j] # k
      /\ \A i, j \in 1 .. n : p[i] = p[j] => i = j
      /\ \A m \in 1 .. n : \E i \in 1 .. n : p[i] = m
      /\ \A i, j \in 1 .. n : i < j => ~Later(times[p[i]], times[p[j]])
  <2>1. \A j \in 1 .. n : p[j] \in 1 .. n
    BY DEF Sorts
  <2>2. \A m \in 1 .. n : m \in 1 .. k /\ m # k
    BY <1>1
  <2> QED
    BY <2>1, <2>2 DEF Sorts
<1>8. PICK q : q = [j \in 1 .. k |-> IF j < c THEN p[j] ELSE IF j = c THEN k ELSE p[j - 1]]
  OBVIOUS
<1>9. /\ \A j \in 1 .. k : j < c => q[j] = p[j] /\ j \in 1 .. n
      /\ q[c] = k
      /\ \A j \in 1 .. k : j > c => \E h \in 1 .. n : q[j] = p[h] /\ j = h + 1 /\ h >= c
  <2>1. \A j \in 1 .. k : j > c => q[j] = p[j - 1] /\ j - 1 \in 1 .. n /\ j = j - 1 + 1 /\ j - 1 >= c
    BY <1>2, <1>6, <1>8
  <2> QED
    BY <1>2, <1>6, <1>8, <2>1
<1>10. \A j \in 1 .. k : q[j] \in 1 .. k
  <2>1. k \in 1 .. k
    BY <1>2
  <2>2. TAKE j \in 1 .. k
  <2>3. CASE j < c
    BY <1>7, <1>9, <2>3
  <2>4. CASE j = c
    BY <1>9, <2>1, <2>4
  <2>5. CASE j > c
    BY <1>7, <1>9, <2>5
  <2> QED
    BY <1>6, <2>3, <2>4, <2>5
<1>11. q \in [1 .. k -> 1 .. k]
  BY <1>8, <1>10
<1>12. \A i, j \in 1 .. k : i < j => q[i] # q[j]
  <2>1. TAKE i, j \in 1 .. k
  <2>2. HAVE i < j
  <2>3. CASE j < c
    <3>1. i < c
      BY <1>6, <2>2, <2>3
    <3>2. q[i] = p[i] /\ q[j] = p[j] /\ i \in 1 .. n /\ j \in 1 .. n /\ i # j
      BY <1>9, <2>2, <2>3, <3>1
    <3> QED
      BY <1>7, <3>2
  <2>4. CASE j = c
    BY <1>7, <1>9, <2>2, <2>4
  <2>5. CASE j > c /\ i = c
    <3>1. PICK h \in 1 .. n : q[j] = p[h]
      BY <1>9, <2>5
    <3> QED
      BY <1>7, <1>9, <2>5, <3>1
  <2>6. CASE j > c /\ i < c
    <3>1. PICK h \in 1 .. n : q[j] = p[h] /\ j = h + 1 /\ h >= c
      BY <1>9, <2>6
    <3>2. q[i] = p[i] /\ i \in 1 .. n /\ i # h
      BY <1>6, <1>9, <2>6, <3>1
    <3> QED
      BY <1>7, <3>1, <3>2
  <2>7. CASE j > c /\ i > c
    <3>1. PICK h \in 1 .. n : q[j] = p[h] /\ j = h + 1
      BY <1>9, <2>7
    <3>2. PICK g \in 1 .. n : q[i] = p[g] /\ i = g + 1
      BY <1>9, <2>7
    <3>3. g # h
      BY <2>2, <3>1, <3>2
    <3> QED
      BY <1>7, <3>1, <3>2, <3>3
  <2> QED
    BY <1>6, <2>2, <2>3, <2>4, <2>5, <2>6, <2>7
<1>13. \A i, j \in 1 .. k : q[i] = q[j] => i = j
  <2>1. TAKE i, j \in 1 .. k
  <2>2. i = j \/ i < j \/ j < i
    OBVIOUS
  <2> QED
    BY <1>12, <2>2
<1>14. \A m \in 1 .. k : \E i \in 1 .. k : q[i] = m
  <2>1. TAKE m \in 1 .. k
  <2>2. CASE m = k
    BY <1>6, <1>9, <2>2
  <2>3. CASE m # k
    <3>1. m \in 1 .. n
      BY <1>2, <2>3
    <3>2. PICK i \in 1 .. n : p[i] = m
      BY <1>7, <3>1
    <3>3. CASE i < c
      <4>1. i \in 1 .. k /\ q[i] = m
        BY <1>2, <1>9, <3>2, <3>3
      <4> QED
        BY <4>1
    <3>4. CASE i >= c
      <4>1. i + 1 \in 1 .. k /\ i + 1 > c /\ i + 1 - 1 = i
        BY <1>2, <1>6, <3>4
      <4>2. q[i + 1] = m
        BY <1>9, <3>2, <4>1
      <4> QED
        BY <4>1, <4>2
    <3> QED
      BY <1>6, <3>3, <3>4
  <2> QED
    BY <2>2, <2>3
<1>15. \A i, j \in 1 .. k : i < j => ~Later(times[q[i]], times[q[j]])
  <2>1. TAKE i, j \in 1 .. k
  <2>2. HAVE i < j
  <2>3. \A m \in 1 .. k : times[m] \in Times
    BY <1>1
  <2>4. CASE j < c
    <3>1. i < c
      BY <1>6, <2>2, <2>4
    <3>2. q[i] = p[i] /\ q[j] = p[j] /\ i \in 1 .. n /\ j \in 1 .. n
      BY <1>9, <2>4, <3>1
    <3> QED
      BY <1>7, <2>2, <3>2
  <2>5. CASE j = c
    BY <1>6, <1>9, <2>2, <2>5
  <2>6. CASE j > c /\ i = c
    <3>1. PICK h \in 1 .. n : q[j] = p[h] /\ j = h + 1 /\ h >= c
      BY <1>9, <2>6
    <3>2. q[i] = k /\ c < k /\ c \in 1 .. n
      BY <1>2, <1>6, <1>9, <2>6
    <3>3. Later(times[p[c]], times[k])
      BY <1>6, <3>2
    <3>4. c = h \/ ~Later(times[p[c]], times[p[h]])
      BY <1>7, <3>1, <3>2
    <3>5. times[p[c]] \in Times /\ times[k] \in Times /\ times[p[h]] \in Times
      <4>1. p[c] \in 1 .. k /\ p[h] \in 1 .. k
        BY <1>7, <3>1, <3>2
      <4>2. k \in 1 .. k
        BY <1>2
      <4> QED
        BY <2>3, <4>1, <4>2
    <3> QED
      BY <3>1, <3>2, <3>3, <3>4, <3>5, LaterIs
  <2>7. CASE j > c /\ i < c
    <3>1. PICK h \in 1 .. n : q[j] = p[h] /\ j = h + 1 /\ h >= c
      BY <1>9, <2>7
    <3>2. q[i] = p[i] /\ i \in 1 .. n /\ i < h
      BY <1>6, <1>9, <2>7, <3>1
    <3> QED
      BY <1>7, <3>1, <3>2
  <2>8. CASE j > c /\ i > c
    <3>1. PICK h \in 1 .. n : q[j] = p[h] /\ j = h + 1
      BY <1>9, <2>8
    <3>2. PICK g \in 1 .. n : q[i] = p[g] /\ i = g + 1
      BY <1>9, <2>8
    <3>3. g < h
      BY <2>2, <3>1, <3>2
    <3> QED
      BY <1>7, <3>1, <3>2, <3>3
  <2> QED
    BY <1>6, <2>2, <2>4, <2>5, <2>6, <2>7, <2>8
<1>16. Sorts(q, times, k)
  BY <1>11, <1>13, <1>14, <1>15 DEF Sorts
<1> QED
  BY <1>1, <1>16

LEMMA SortExists ==
  ASSUME NEW n \in Nat, NEW times \in [1 .. n -> Times]
  PROVE  \E p : Sorts(p, times, n)
<1> DEFINE Sortable(k) == \E p : Sorts(p, times, k)
<1>1. PICK bad : bad = {k \in 0 .. n : ~Sortable(k)}
  OBVIOUS
<1> HIDE DEF Sortable
<1>2. SUFFICES ASSUME bad # {}
               PROVE  FALSE
  <2>1. n \in 0 .. n /\ n \notin bad
    BY <1>2
  <2> QED
    BY <1>1, <2>1 DEF Sortable
<1>3. bad \in SUBSET Nat
  BY <1>1
<1>4. PICK k \in bad : \A m \in bad : k <= m
  BY <1>2, <1>3, LeastNat
<1>5. k \in 0 .. n /\ ~Sortable(k)
  BY <1>1
<1>6. k # 0
  <2>1. Sorts([j \in 1 .. 0 |-> 0], times, 0)
    BY DEF Sorts
  <2> QED
    BY <1>5, <2>1 DEF Sortable
<1>7. PICK i : i = k - 1
  OBVIOUS
<1>8. i \in Nat /\ i \in 0 .. n /\ i + 1 = k /\ i \notin bad
  BY <1>4, <1>5, <1>6, <1>7
<1>9. PICK p : Sorts(p, times, i)
  BY <1>1, <1>8 DEF Sortable
<1>10. PICK first : first = [j \in 1 .. i + 1 |-> times[j]]
  OBVIOUS
<1>11. first \in [1 .. i + 1 -> Times] /\ \A j \in 1 .. k : first[j] = times[j]
  BY <1>5, <1>8, <1>10
<1>12. \A m : \A q : m \in 0 .. k => (Sorts(q, first, m) <=> Sorts(q, times, m))
  <2>1. ASSUME NEW m \in 0 .. k, NEW q, q \in [1 .. m -> 1 .. m]
        PROVE  \A j \in 1 .. m : first[q[j]] = times[q[j]]
    BY <1>5, <1>11, <2>1
  <2>2. TAKE m
  <2>3. TAKE q
  <2>4. HAVE m \in 0 .. k
  <2>5. CASE q \in [1 .. m -> 1 .. m]
    <3>1. \A j \in 1 .. m : first[q[j]] = times[q[j]]
      BY <2>1, <2>4, <2>5
    <3> QED
      BY <3>1 DEF Sorts
  <2>6. CASE q \notin [1 .. m -> 1 .. m]
    BY <2>6 DEF Sorts
  <2> QED
    BY <2>5, <2>6
<1>13. i \in 0 .. k /\ k \in 0 .. k
  BY <1>5, <1>8
<1>14. \E q : Sorts(q, first, k)
  BY <1>8, <1>9, <1>11, <1>12, <1>13, InsertOne
<1> QED
  BY <1>5, <1>12, <1>13, <1>14 DEF Sortable

LEMMA SortedIs ==
  ASSUME NEW S, S \subseteq EditOps \cup UndoOps, NEW l \in Seq(S)
  PROVE  /\ Sorted(l) \in Seq(S)
         /\ InOrder(Sorted(l))
         /\ Len(Sorted(l)) = Len(l)
         /\ \A i \in 1 .. Len(l) : \E j \in 1 .. Len(l) : Sorted(l)[i] = l[j]
         /\ \A j \in 1 .. Len(l) : \E i \in 1 .. Len(l) : Sorted(l)[i] = l[j]
<1>1. PICK n : n = Len(l)
  OBVIOUS
<1>2. n \in Nat /\ DOMAIN l = 1 .. n /\ \A i \in 1 .. n : l[i] \in S /\ l[i].time \in Times
  BY <1>1, OpFacts
<1>3. PICK times : times = [i \in 1 .. n |-> l[i].time]
  OBVIOUS
<1>4. times \in [1 .. n -> Times]
  BY <1>2, <1>3
<1>5. PICK p : Sorts(p, times, n)
  BY <1>2, <1>4, SortExists
<1>6. PICK B : B = Bijection(1 .. n, 1 .. n)
  OBVIOUS
<1>7. /\ \A q \in B : /\ q \in [1 .. n -> 1 .. n]
                      /\ \A j \in 1 .. n : \E i \in 1 .. n : q[i] = j
      /\ p \in B
  BY <1>5, <1>6 DEF Bijection, Injection, Surjection, IsInjective, Sorts
<1>8. \A i, j \in 1 .. n : i < j => ~Later(l[p[i]].time, l[p[j]].time)
  <2>1. \A i \in 1 .. n : p[i] \in 1 .. n /\ times[p[i]] = l[p[i]].time
    BY <1>3, <1>5 DEF Sorts
  <2> QED
    BY <1>5, <2>1 DEF Sorts
<1>9. PICK q : q = CHOOSE q1 \in B : \A i, j \in 1 .. n : i < j => ~Later(l[q1[i]].time, l[q1[j]].time)
  OBVIOUS
<1>10. q \in B /\ \A i, j \in 1 .. n : i < j => ~Later(l[q[i]].time, l[q[j]].time)
  BY <1>7, <1>8, <1>9
<1>11. PICK s : s = Sorted(l)
  OBVIOUS
<1>12. s = [i \in 1 .. n |-> l[q[i]]]
  BY <1>2, <1>6, <1>9, <1>11 DEF Sorted
<1>13. \A i \in 1 .. n : q[i] \in 1 .. n /\ s[i] = l[q[i]] /\ s[i] \in S
  BY <1>2, <1>7, <1>10, <1>12
<1>14. s \in Seq(S) /\ Len(s) = n /\ DOMAIN s = 1 .. n
  BY <1>2, <1>12, <1>13
<1>15. InOrder(s)
  BY <1>10, <1>13, <1>14 DEF InOrder
<1>16. \A j \in 1 .. n : \E i \in 1 .. n : s[i] = l[j]
  <2>1. TAKE j \in 1 .. n
  <2>2. PICK i \in 1 .. n : q[i] = j
    BY <1>7, <1>10
  <2>3. s[i] = l[j]
    BY <1>13, <2>2
  <2> QED
    BY <2>3
<1> QED
  BY <1>1, <1>11, <1>13, <1>14, <1>15, <1>16

-----------------------------------------------------------------------------
(* One pass over operations: each is applied or set aside, in turn.        *)

LEMMA MaxIs ==
  ASSUME NEW n \in Nat, NEW S \in SUBSET (1 .. n), S # {}
  PROVE  Max(S) \in S /\ \A y \in S : Max(S) >= y
<1>1. PICK D : D = {x \in Nat : n - x \in S}
  OBVIOUS
<1>2. \A y \in S : y \in Int /\ n - y \in Nat /\ n - (n - y) = y
  OBVIOUS
<1>3. D \in SUBSET Nat /\ \A y \in S : n - y \in D
  BY <1>1, <1>2
<1>4. D # {}
  BY <1>3
<1>5. PICK x \in D : \A y \in D : x <= y
  BY <1>3, <1>4, LeastNat
<1>6. n - x \in S /\ \A y \in S : n - x >= y
  BY <1>1, <1>2, <1>3, <1>5
<1>7. \E x0 \in S : \A y \in S : x0 >= y
  BY <1>6
<1> QED
  BY <1>7 DEF Max

Folding(it, d, l, k) ==
  it = [s \in SUBSET (1 .. k) |-> IF s = {} THEN d ELSE TryOp(it[s \ {Max(s)}], l[Max(s)])]

LEMMA FoldingExists ==
  ASSUME NEW d, NEW l, NEW n \in Nat
  PROVE  \E it : Folding(it, d, l, n)
<1> DEFINE Foldable(k) == \E it : Folding(it, d, l, k)
<1>1. PICK bad : bad = {k \in Nat : ~Foldable(k)}
  OBVIOUS
<1> HIDE DEF Foldable
<1>2. SUFFICES ASSUME bad # {}
               PROVE  FALSE
  <2>1. n \notin bad
    BY <1>2
  <2> QED
    BY <1>1, <2>1 DEF Foldable
<1>3. bad \in SUBSET Nat /\ \A k \in bad : k \in Nat /\ ~Foldable(k)
  BY <1>1
<1>4. PICK k \in bad : \A m \in bad : k <= m
  BY <1>2, <1>3, LeastNat
<1>5. k \in Nat /\ ~Foldable(k)
  BY <1>3
<1>6. k # 0
  <2>1. PICK it : it = [s \in SUBSET (1 .. 0) |-> d]
    OBVIOUS
  <2>2. \A s \in SUBSET (1 .. 0) : s = {}
    OBVIOUS
  <2>3. Folding(it, d, l, 0)
    BY <2>1, <2>2 DEF Folding
  <2> QED
    BY <1>5, <2>3 DEF Foldable
<1>7. PICK i : i = k - 1
  OBVIOUS
<1>8. i \in Nat /\ k = i + 1 /\ i \notin bad
  BY <1>4, <1>5, <1>6, <1>7
<1>9. PICK it : Folding(it, d, l, i)
  BY <1>1, <1>8 DEF Foldable
<1>10. \A s \in SUBSET (1 .. i) :
         it[s] = IF s = {} THEN d ELSE TryOp(it[s \ {Max(s)}], l[Max(s)])
  BY <1>9 DEF Folding
<1>11. PICK next : next = [s \in SUBSET (1 .. k) |->
                             IF k \in s THEN TryOp(it[s \ {k}], l[k]) ELSE it[s]]
  OBVIOUS
<1>12. \A s \in SUBSET (1 .. k) :
         next[s] = IF k \in s THEN TryOp(it[s \ {k}], l[k]) ELSE it[s]
  BY <1>11
<1>13. ASSUME NEW s \in SUBSET (1 .. k)
       PROVE  next[s] = IF s = {} THEN d ELSE TryOp(next[s \ {Max(s)}], l[Max(s)])
  <2>1. CASE k \in s
    <3>1. s # {} /\ Max(s) \in s /\ \A y \in s : Max(s) >= y
      BY <1>5, <2>1, MaxIs
    <3>2. Max(s) = k
      <4>1. PICK m : m = Max(s)
        OBVIOUS
      <4>2. m \in 1 .. k /\ m >= k
        BY <2>1, <3>1, <4>1
      <4> QED
        BY <1>5, <4>1, <4>2
    <3>3. s \ {k} \in SUBSET (1 .. k) /\ k \notin s \ {k}
      OBVIOUS
    <3>4. next[s \ {k}] = it[s \ {k}] /\ next[s] = TryOp(it[s \ {k}], l[k])
      BY <1>12, <2>1, <3>3
    <3> QED
      BY <3>1, <3>2, <3>4
  <2>2. CASE k \notin s
    <3>1. s \in SUBSET (1 .. i) /\ next[s] = it[s]
      BY <1>8, <1>12, <2>2
    <3>2. CASE s = {}
      BY <1>10, <3>1, <3>2
    <3>3. CASE s # {}
      <4>1. PICK m : m = Max(s)
        OBVIOUS
      <4>2. s \ {m} \in SUBSET (1 .. k) /\ k \notin s \ {m}
        BY <2>2
      <4>3. next[s \ {m}] = it[s \ {m}]
        BY <1>12, <4>2
      <4>4. it[s] = TryOp(it[s \ {m}], l[m])
        BY <1>10, <3>1, <3>3, <4>1
      <4> QED
        BY <3>1, <3>3, <4>1, <4>3, <4>4
    <3> QED
      BY <3>2, <3>3
  <2> QED
    BY <2>1, <2>2
<1>14. Folding(next, d, l, k)
  <2>1. next = [s \in SUBSET (1 .. k) |-> next[s]]
    BY <1>11
  <2> QED
    BY <1>13, <2>1 DEF Folding
<1> QED
  BY <1>5, <1>14 DEF Foldable

Passes(d, l, after) ==
  /\ after[0] = d
  /\ \A k \in 1 .. Len(l) : after[k] = TryOp(after[k - 1], l[k])
  /\ FoldLeft(TryOp, d, l) = after[Len(l)]

LEMMA FoldIs ==
  ASSUME NEW S, NEW d, NEW l \in Seq(S)
  PROVE  \E after : Passes(d, l, after)
<1>1. PICK n : n = Len(l)
  OBVIOUS
<1>2. n \in Nat /\ DOMAIN l = 1 .. n
  BY <1>1
<1>3. PICK some : Folding(some, d, l, n)
  BY <1>2, FoldingExists
<1>4. PICK it : Folding(it, d, l, n) /\ FoldLeft(TryOp, d, l) = it[1 .. n]
  BY <1>2, <1>3 DEF FoldLeft, MapThenFoldSet, Folding
<1>5. \A s \in SUBSET (1 .. n) :
        it[s] = IF s = {} THEN d ELSE TryOp(it[s \ {Max(s)}], l[Max(s)])
  BY <1>4 DEF Folding
<1>6. PICK after : after = [k \in 0 .. n |-> it[1 .. k]]
  OBVIOUS
<1>7. \A k \in 0 .. n : after[k] = it[1 .. k]
  BY <1>6
<1>8. after[0] = d
  <2>1. 1 .. 0 = {} /\ 1 .. 0 \in SUBSET (1 .. n) /\ 0 \in 0 .. n
    BY <1>2
  <2>2. it[1 .. 0] = d
    BY <1>5, <2>1
  <2> QED
    BY <1>7, <2>1, <2>2
<1>9. ASSUME NEW k \in 1 .. n
      PROVE  after[k] = TryOp(after[k - 1], l[k])
  <2>1. PICK s : s = 1 .. k
    OBVIOUS
  <2>2. s \in SUBSET (1 .. n) /\ s \in SUBSET (1 .. k) /\ k \in s /\ k \in Nat /\ s # {}
    <3>1. k \in Nat /\ k \in 1 .. k /\ \A x \in 1 .. k : x \in 1 .. n
      BY <1>2
    <3> QED
      BY <2>1, <3>1
  <2>3. Max(s) \in s /\ \A y \in s : Max(s) >= y
    BY <2>2, MaxIs
  <2>4. Max(s) = k
    <3>1. PICK m : m = Max(s)
      OBVIOUS
    <3>2. m \in 1 .. k /\ m >= k
      BY <2>1, <2>2, <2>3, <3>1
    <3> QED
      BY <2>2, <3>1, <3>2
  <2>5. PICK i : i = k - 1
    OBVIOUS
  <2>6. i \in 0 .. n /\ k \in 0 .. n /\ s \ {k} = 1 .. i
    BY <1>2, <2>1, <2>5
  <2>7. it[s] = TryOp(it[s \ {k}], l[k])
    BY <1>5, <2>2, <2>4
  <2> QED
    BY <1>7, <2>1, <2>5, <2>6, <2>7
<1>10. n \in 0 .. n
  BY <1>2
<1>11. Passes(d, l, after)
  BY <1>1, <1>4, <1>7, <1>8, <1>9, <1>10 DEF Passes
<1> QED
  BY <1>11

Others(ops, r) == {o \in ops : o.time[2] # r}

LEMMA CanApplyIs ==
  ASSUME NEW ops, Issued(ops), NEW op \in ops, NEW b \in BufferTypes
  PROVE  /\ CanApplyOp(b, op) => Precedes(op.versions, b.versions)
         /\ b.deferred = <<>> /\ ~CanApplyOp(b, op) => Misses(op, b.versions)
<1>1. b.versions \in [Replicas -> Nat]
  BY BufferFacts
<1>2. op.versions \in [Replicas -> Nat]
  BY OpFacts DEF Issued
<1>3. ASSUME b.deferred = <<>>, Precedes(op.versions, b.versions)
      PROVE  CanApplyOp(b, op)
  <2>1. ~ReplicaDeferred(b, op.time[2])
    <3>1. DOMAIN b.deferred = {}
      BY <1>3
    <3> QED
      BY <3>1 DEF ReplicaDeferred
  <2>2. ASSUME op.kind = "edit"
        PROVE  Observed(b.versions, op.start[1]) /\ Observed(b.versions, op.end[1])
    <3>1. op \in Edits(ops)
      BY <2>2 DEF Edits
    <3>2. /\ op.start \in Placed(ops) /\ Observed(op.versions, op.start[1])
          /\ op.end \in Placed(ops) /\ Observed(op.versions, op.end[1])
      BY <3>1 DEF Issued
    <3>3. op.start[1] \in Times \cup {BaseEdit} /\ op.end[1] \in Times \cup {BaseEdit}
      BY <3>2, PlacedFacts DEF Issued
    <3> QED
      BY <1>1, <1>2, <1>3, <3>2, <3>3, ObservedGrows
  <2> QED
    BY <1>3, <2>1, <2>2 DEF CanApplyOp
<1>4. ASSUME ~Precedes(op.versions, b.versions)
      PROVE  Misses(op, b.versions)
  <2>1. PICK x \in Replicas : ~(op.versions[x] <= b.versions[x])
    BY <1>4 DEF Precedes
  <2>2. op.versions[x] \in Nat /\ b.versions[x] \in Nat
    BY <1>1, <1>2
  <2>3. b.versions[x] < op.versions[x]
    BY <2>1, <2>2
  <2> QED
    BY <2>3 DEF Misses
<1> QED
  BY <1>3, <1>4 DEF CanApplyOp

(* An operation set aside is still missing something after a later one has *)
(* been applied: had that one brought what it misses, it would itself have *)
(* depended on what the first one misses.                                  *)
LEMMA StillMisses ==
  ASSUME NEW ops, Issued(ops), NEW e \in ops, NEW op \in ops, ~Later(e.time, op.time),
         NEW v \in [Replicas -> Nat], NEW w, Precedes(op.versions, v),
         \A x \in Replicas : w[x] # v[x] => x = op.time[2] /\ w[x] = op.time[1],
         Misses(e, v)
  PROVE  Misses(e, w)
<1>1. PICK x \in Replicas : v[x] < e.versions[x]
  BY DEF Misses
<1>2. /\ e.versions \in [Replicas -> Nat] /\ op.versions \in [Replicas -> Nat]
      /\ e.time[1] \in Nat /\ op.time[1] \in Nat
  BY OpFacts, ReplicaFacts DEF Issued
<1>3. e.time[1] <= op.time[1]
  BY <1>2 DEF Later
<1>4. e.versions[x] \in Nat /\ v[x] \in Nat /\ op.versions[x] \in Nat /\ e.versions[x] # 0
  BY <1>1, <1>2
<1>5. PICK p \in ops : p.time = <<e.versions[x], x>>
  BY <1>4 DEF Issued
<1>6. e.versions[x] < e.time[1]
  BY DEF Issued
<1>7. p.time[1] = e.versions[x] /\ p.time[2] = x /\ p.time[1] < op.time[1]
  BY <1>2, <1>3, <1>4, <1>5, <1>6
<1>8. x # op.time[2]
  <2>1. SUFFICES ASSUME x = op.time[2]
                 PROVE  FALSE
    OBVIOUS
  <2>2. p.time[1] <= op.versions[x]
    BY <1>7, <2>1 DEF Issued
  <2>3. op.versions[x] <= v[x]
    BY DEF Precedes
  <2> QED
    BY <1>1, <1>4, <1>7, <2>2, <2>3
<1>9. w[x] = v[x]
  BY <1>8
<1> QED
  BY <1>1, <1>9 DEF Misses

Tried(ops, order, r, b, done) ==
  /\ Kept(ops, order, r, done.b)
  /\ done.b.deferred = b.deferred
  /\ Precedes(b.versions, done.b.versions)
  /\ done.rest \in Seq(Others(ops, r))

Waiting(done) == \A i \in DOMAIN done.rest : Misses(done.rest[i], done.b.versions)

LEMMA TryKeeps ==
  ASSUME NEW ops, NEW order, Issued(ops), Ordered(ops, order), NEW r \in Replicas,
         NEW b, b.versions \in [Replicas -> Nat], NEW done, Tried(ops, order, r, b, done),
         NEW op \in Others(ops, r), NEW next, next = TryOp(done, op)
  PROVE  /\ Tried(ops, order, r, b, next)
         /\ \A i \in DOMAIN next.rest :
              next.rest[i] = op \/ \E j \in DOMAIN done.rest : next.rest[i] = done.rest[j]
         /\ /\ b.deferred = <<>> /\ Waiting(done)
            /\ \A i \in DOMAIN done.rest : ~Later(done.rest[i].time, op.time)
            => Waiting(next)
<1>1. op \in ops /\ op.time[2] # r
  BY DEF Others
<1>2. Kept(ops, order, r, done.b) /\ done.b \in BufferTypes /\ done.b.versions \in [Replicas -> Nat]
  BY BufferFacts DEF Tried, Kept
<1>3. done.rest \in Seq(Others(ops, r)) /\ \A i \in DOMAIN done.rest : done.rest[i] \in ops
  BY DEF Tried, Others
<1>4. CASE CanApplyOp(done.b, op)
  <2>1. PICK a : a = ApplyOp(done.b, op)
    OBVIOUS
  <2>2. next.b = a /\ next.rest = done.rest
    BY <1>4, <2>1 DEF TryOp
  <2>3. Precedes(op.versions, done.b.versions)
    BY <1>1, <1>2, <1>4, CanApplyIs
  <2>4. /\ Kept(ops, order, r, a) /\ a.deferred = done.b.deferred
        /\ \A x \in Replicas : a.versions[x] # done.b.versions[x] =>
             x = op.time[2] /\ a.versions[x] = op.time[1]
        /\ Precedes(done.b.versions, a.versions)
    BY <1>1, <1>2, <2>1, <2>3, ApplyKeeps
  <2>5. a.versions \in [Replicas -> Nat]
    BY <2>4, BufferFacts DEF Kept
  <2>6. Precedes(b.versions, a.versions)
    BY <1>2, <2>4, <2>5, PrecedesTrans DEF Tried
  <2>7. Tried(ops, order, r, b, next)
    BY <2>2, <2>4, <2>6 DEF Tried
  <2>8. ASSUME Waiting(done), \A i \in DOMAIN done.rest : ~Later(done.rest[i].time, op.time)
        PROVE  Waiting(next)
    <3>1. ASSUME NEW i \in DOMAIN done.rest
          PROVE  Misses(done.rest[i], a.versions)
      <4>1. PICK e \in ops : e = done.rest[i]
        BY <1>3
      <4>2. Misses(e, done.b.versions) /\ ~Later(e.time, op.time)
        BY <2>8, <4>1 DEF Waiting
      <4>3. Misses(e, a.versions)
        BY <1>1, <1>2, <2>3, <2>4, <4>2, StillMisses
      <4> QED
        BY <4>1, <4>3
    <3> QED
      BY <2>2, <3>1 DEF Waiting
  <2> QED
    BY <2>2, <2>7, <2>8
<1>5. CASE ~CanApplyOp(done.b, op)
  <2>1. next.b = done.b /\ next.rest = Append(done.rest, op)
    BY <1>5 DEF TryOp
  <2>2. /\ next.rest \in Seq(Others(ops, r))
        /\ \A i \in DOMAIN next.rest :
             next.rest[i] = op \/ (i \in DOMAIN done.rest /\ next.rest[i] = done.rest[i])
    <3>1. PICK S : S = Others(ops, r)
      OBVIOUS
    <3>2. PICK l \in Seq(S) : l = done.rest
      BY <1>3, <3>1
    <3>3. PICK m : m = Append(l, op)
      OBVIOUS
    <3>4. m \in Seq(S) /\ \A i \in DOMAIN m : m[i] = op \/ (i \in DOMAIN l /\ m[i] = l[i])
      BY <3>1, <3>3
    <3> QED
      BY <2>1, <3>1, <3>2, <3>3, <3>4
  <2>3. Tried(ops, order, r, b, next)
    BY <2>1, <2>2 DEF Tried
  <2>4. ASSUME b.deferred = <<>>, Waiting(done)
        PROVE  Waiting(next)
    <3>1. done.b.deferred = <<>>
      BY <2>4 DEF Tried
    <3>2. Misses(op, done.b.versions)
      BY <1>1, <1>2, <1>5, <3>1, CanApplyIs
    <3> QED
      BY <2>1, <2>2, <2>4, <3>2 DEF Waiting
  <2> QED
    BY <2>2, <2>3, <2>4
<1> QED
  BY <1>4, <1>5

Carried(S, done) ==
  \A o \in S : Observed(done.b.versions, o.time) \/ \E i \in DOMAIN done.rest : done.rest[i] = o

(* What is tried is applied or set aside. *)
LEMMA TryCarries ==
  ASSUME NEW ops, NEW order, Issued(ops), Ordered(ops, order), NEW r \in Replicas,
         NEW b, NEW done, Tried(ops, order, r, b, done),
         NEW op \in Others(ops, r), NEW next, next = TryOp(done, op),
         NEW S, S \subseteq ops, Carried(S, done)
  PROVE  Carried(S \cup {op}, next)
<1>1. op \in ops /\ op.time[2] # r
  BY DEF Others
<1>2. Kept(ops, order, r, done.b) /\ done.b \in BufferTypes /\ done.b.versions \in [Replicas -> Nat]
  BY BufferFacts DEF Tried, Kept
<1>3. done.rest \in Seq(Others(ops, r))
  BY DEF Tried
<1>4. \A o \in ops : o.time \in Times \cup {BaseEdit}
  BY OpFacts DEF Issued
<1>5. CASE CanApplyOp(done.b, op)
  <2>1. PICK a : a = ApplyOp(done.b, op)
    OBVIOUS
  <2>2. next.b = a /\ next.rest = done.rest
    BY <1>5, <2>1 DEF TryOp
  <2>3. Precedes(op.versions, done.b.versions)
    BY <1>1, <1>2, <1>5, CanApplyIs
  <2>4. Kept(ops, order, r, a) /\ Precedes(done.b.versions, a.versions) /\ Observed(a.versions, op.time)
    BY <1>1, <1>2, <2>1, <2>3, ApplyKeeps
  <2>5. a.versions \in [Replicas -> Nat]
    BY <2>4, BufferFacts DEF Kept
  <2>6. \A o \in S : Observed(done.b.versions, o.time) => Observed(a.versions, o.time)
    BY <1>2, <1>4, <2>4, <2>5, ObservedGrows
  <2> QED
    BY <2>2, <2>4, <2>6 DEF Carried
<1>6. CASE ~CanApplyOp(done.b, op)
  <2>1. next.b = done.b /\ next.rest = Append(done.rest, op)
    BY <1>6 DEF TryOp
  <2>2. PICK l : l = done.rest
    OBVIOUS
  <2>3. PICK m : m = Append(l, op)
    OBVIOUS
  <2>4. /\ \A i \in DOMAIN l : i \in DOMAIN m /\ m[i] = l[i]
        /\ \E i \in DOMAIN m : m[i] = op
    <3>1. l \in Seq(Others(ops, r))
      BY <1>3, <2>2
    <3>2. DOMAIN l = 1 .. Len(l) /\ DOMAIN m = 1 .. Len(l) + 1 /\ Len(l) \in Nat
          /\ m[Len(l) + 1] = op /\ \A i \in 1 .. Len(l) : m[i] = l[i]
      BY <2>3, <3>1
    <3> QED
      BY <3>2
  <2>5. next.b = done.b /\ next.rest = m
    BY <2>1, <2>2, <2>3
  <2>6. \A o \in S : Observed(done.b.versions, o.time) \/ \E i \in DOMAIN l : l[i] = o
    BY <2>2 DEF Carried
  <2>7. \A o \in S : Observed(done.b.versions, o.time) \/ \E i \in DOMAIN m : m[i] = o
    BY <2>4, <2>6
  <2> QED
    BY <2>4, <2>5, <2>7 DEF Carried
<1> QED
  BY <1>5, <1>6

Pass(b, l) == FoldLeft(TryOp, [b |-> b, rest |-> <<>>], l)

LEMMA PassKeeps ==
  ASSUME NEW ops, NEW order, Issued(ops), Ordered(ops, order), NEW r \in Replicas,
         NEW b, Kept(ops, order, r, b), NEW l \in Seq(Others(ops, r)), NEW done, done = Pass(b, l)
  PROVE  /\ Tried(ops, order, r, b, done)
         /\ b.deferred = <<>> /\ InOrder(l) => Waiting(done)
         /\ Carried({l[j] : j \in DOMAIN l}, done)
<1>1. PICK d : d = [b |-> b, rest |-> <<>>]
  OBVIOUS
<1>2. PICK after : Passes(d, l, after)
  BY FoldIs
<1>3. PICK n : n = Len(l)
  OBVIOUS
<1>4. n \in Nat /\ DOMAIN l = 1 .. n /\ \A k \in 1 .. n : l[k] \in Others(ops, r)
  BY <1>3
<1>5. b.versions \in [Replicas -> Nat]
  BY BufferFacts DEF Kept
<1> DEFINE Good(k) ==
      /\ Tried(ops, order, r, b, after[k])
      /\ \A i \in DOMAIN after[k].rest : \E j \in 1 .. k : after[k].rest[i] = l[j]
      /\ b.deferred = <<>> /\ InOrder(l) => Waiting(after[k])
      /\ Carried({l[j] : j \in 1 .. k}, after[k])
<1>6. PICK bad : bad = {k \in 0 .. n : ~Good(k)}
  OBVIOUS
<1>7. Good(0)
  <2>1. d.b = b /\ d.rest = <<>> /\ DOMAIN d.rest = {} /\ d.rest \in Seq(Others(ops, r))
    BY <1>1
  <2>2. Precedes(b.versions, b.versions)
    BY <1>5 DEF Precedes
  <2>3. {l[j] : j \in 1 .. 0} = {}
    OBVIOUS
  <2> QED
    BY <1>2, <2>1, <2>2, <2>3 DEF Tried, Waiting, Passes, Carried
<1>8. ASSUME NEW k \in 1 .. n, NEW i \in 0 .. n, k = i + 1, Good(i)
      PROVE  Good(k)
  <2>1. after[k] = TryOp(after[i], l[k]) /\ i = k - 1
    BY <1>2, <1>3, <1>4, <1>8 DEF Passes
  <2>2. PICK done1 : done1 = after[i]
    OBVIOUS
  <2>3. PICK next : next = after[k]
    OBVIOUS
  <2>4. PICK op \in Others(ops, r) : op = l[k]
    BY <1>4
  <2>5. next = TryOp(done1, op) /\ Tried(ops, order, r, b, done1)
    BY <1>8, <2>1, <2>2, <2>3, <2>4
  <2>6. /\ Tried(ops, order, r, b, next)
        /\ \A m \in DOMAIN next.rest :
             next.rest[m] = op \/ \E j \in DOMAIN done1.rest : next.rest[m] = done1.rest[j]
        /\ /\ b.deferred = <<>> /\ Waiting(done1)
           /\ \A m \in DOMAIN done1.rest : ~Later(done1.rest[m].time, op.time)
           => Waiting(next)
    BY <1>5, <2>5, TryKeeps
  <2>7. \A j \in 1 .. i : j \in 1 .. k /\ j \in 1 .. n /\ j < k
    BY <1>4, <1>8
  <2>8. \A m \in DOMAIN done1.rest : \E j \in 1 .. i : done1.rest[m] = l[j]
    BY <1>8, <2>2
  <2>9. \A m \in DOMAIN next.rest : \E j \in 1 .. k : next.rest[m] = l[j]
    <3>1. TAKE m \in DOMAIN next.rest
    <3>2. CASE next.rest[m] = op
      <4>1. k \in 1 .. k
        BY <1>4
      <4> QED
        BY <2>4, <3>2, <4>1
    <3>3. CASE \E j \in DOMAIN done1.rest : next.rest[m] = done1.rest[j]
      BY <2>7, <2>8, <3>3
    <3> QED
      BY <2>6, <3>2, <3>3
  <2>10. ASSUME b.deferred = <<>>, InOrder(l)
         PROVE  Waiting(next)
    <3>1. Waiting(done1)
      BY <1>8, <2>2, <2>10
    <3>2. \A j \in 1 .. i : ~Later(l[j].time, op.time)
      BY <1>4, <2>4, <2>7, <2>10 DEF InOrder
    <3> QED
      BY <2>6, <2>8, <2>10, <3>1, <3>2
  <2>11. Carried({l[j] : j \in 1 .. k}, next)
    <3>1. PICK S : S = {l[j] : j \in 1 .. i}
      OBVIOUS
    <3>2. PICK W : W = S \cup {op}
      OBVIOUS
    <3>3. S \subseteq ops /\ Carried(S, done1)
      BY <1>4, <1>8, <2>2, <2>7, <3>1 DEF Others
    <3>4. Carried(W, next)
      BY <2>5, <3>2, <3>3, TryCarries
    <3>5. {l[j] : j \in 1 .. k} = W
      <4>1. \A j \in 1 .. k : j = k \/ j \in 1 .. i
        BY <1>4, <1>8
      <4>2. k \in 1 .. k /\ \A j \in 1 .. i : j \in 1 .. k
        BY <1>4, <2>7
      <4> QED
        BY <2>4, <3>1, <3>2, <4>1, <4>2
    <3> QED
      BY <3>4, <3>5
  <2> QED
    BY <2>3, <2>6, <2>9, <2>10, <2>11
<1> HIDE DEF Good
<1>9. ASSUME bad # {}
      PROVE  FALSE
  <2>1. bad \in SUBSET Nat /\ \A k \in bad : k \in 0 .. n /\ ~Good(k)
    BY <1>4, <1>6
  <2>2. PICK k \in bad : \A m \in bad : k <= m
    BY <1>9, <2>1, LeastNat
  <2>3. k \in 0 .. n /\ k # 0
    BY <1>7, <2>1
  <2>4. PICK i : i = k - 1
    OBVIOUS
  <2>5. i \in 0 .. n /\ k \in 1 .. n /\ k = i + 1 /\ i \notin bad
    BY <1>4, <2>1, <2>2, <2>3, <2>4
  <2> QED
    BY <1>6, <1>8, <2>1, <2>5
<1>10. n \in 0 .. n /\ n \notin bad
  BY <1>4, <1>9
<1>11. Good(n)
  BY <1>6, <1>10
<1>12. done = after[n]
  BY <1>1, <1>2, <1>3 DEF Pass, Passes
<1> QED
  BY <1>4, <1>11, <1>12 DEF Good

Extended(ops, order, r, b, rest, a) ==
  /\ Kept(ops, order, r, a)
  /\ a.versions = b.versions
  /\ InOrder(a.deferred)
  /\ b.deferred = <<>> => \A i \in DOMAIN a.deferred : \E j \in DOMAIN rest : a.deferred[i] = rest[j]
  /\ \A j \in DOMAIN b.deferred : \E i \in DOMAIN a.deferred : a.deferred[i] = b.deferred[j]
  /\ \A j \in DOMAIN rest : \E i \in DOMAIN a.deferred : a.deferred[i] = rest[j]

LEMMA ExtendKeeps ==
  ASSUME NEW ops, NEW order, Issued(ops), NEW r \in Replicas,
         NEW b, Kept(ops, order, r, b), NEW rest \in Seq(Others(ops, r)),
         NEW a, a = Extend(b, rest)
  PROVE  Extended(ops, order, r, b, rest, a)
<1>1. PICK S : S = Others(ops, r)
  OBVIOUS
<1>2. S \subseteq EditOps \cup UndoOps
  BY <1>1 DEF Others, Issued
<1>3. b \in BufferTypes /\ b.deferred \in Seq(S) /\ rest \in Seq(S)
  BY <1>1 DEF Kept, Others
<1>4. PICK l : l = b.deferred \o rest
  OBVIOUS
<1>5. l \in Seq(S) /\ (b.deferred = <<>> => l = rest)
  BY <1>3, <1>4
<1>6. PICK s : s = Sorted(l)
  OBVIOUS
<1>7. /\ s \in Seq(S) /\ InOrder(s) /\ Len(s) = Len(l)
      /\ \A i \in 1 .. Len(l) : \E j \in 1 .. Len(l) : s[i] = l[j]
  BY <1>2, <1>5, <1>6, SortedIs
<1>8. s \in Seq(EditOps \cup UndoOps)
  BY <1>2, <1>7
<1>9. a = [b EXCEPT !.deferred = s]
  BY <1>4, <1>6 DEF Extend
<1>10. /\ a \in BufferTypes /\ a.chars = b.chars /\ a.versions = b.versions /\ a.clock = b.clock
       /\ a.deferred = s /\ a.history = b.history /\ a.stack = b.stack /\ a.current = b.current
  <2>1. b \in BufferTypes
    BY <1>3
  <2> QED
    BY ONLY <1>8, <1>9, <2>1, BufferFacts
<1>11. Kept(ops, order, r, a)
  BY <1>1, <1>7, <1>10 DEF Kept, Others
<1>12. ASSUME b.deferred = <<>>
       PROVE  \A i \in DOMAIN a.deferred : \E j \in DOMAIN rest : a.deferred[i] = rest[j]
  <2>1. DOMAIN s = 1 .. Len(l) /\ DOMAIN rest = 1 .. Len(l) /\ l = rest
    BY <1>3, <1>5, <1>7, <1>12
  <2> QED
    BY <1>7, <1>10, <2>1
<1>13. \A j \in 1 .. Len(l) : \E i \in DOMAIN s : s[i] = l[j]
  <2>1. \A j \in 1 .. Len(l) : \E i \in 1 .. Len(l) : s[i] = l[j]
    BY <1>2, <1>5, <1>6, SortedIs
  <2>2. DOMAIN s = 1 .. Len(l)
    BY <1>7
  <2> QED
    BY <2>1, <2>2
<1>14. PICK old : old = b.deferred
  OBVIOUS
<1>15. /\ Len(l) = Len(old) + Len(rest) /\ Len(old) \in Nat /\ Len(rest) \in Nat
       /\ DOMAIN old = 1 .. Len(old) /\ DOMAIN rest = 1 .. Len(rest)
       /\ \A j \in 1 .. Len(old) : l[j] = old[j]
       /\ \A j \in 1 .. Len(rest) : l[Len(old) + j] = rest[j]
  <2>1. old \in Seq(S) /\ rest \in Seq(S) /\ l = old \o rest
    BY <1>3, <1>4, <1>14
  <2>2. /\ Len(l) = Len(old) + Len(rest)
        /\ \A j \in 1 .. Len(old) : l[j] = old[j]
        /\ \A j \in 1 .. Len(rest) : l[Len(old) + j] = rest[j]
    BY ONLY <2>1, ConcatIs
  <2> QED
    BY <2>1, <2>2
<1>16. \A j \in DOMAIN old : \E i \in DOMAIN s : s[i] = old[j]
  <2>1. \A j \in DOMAIN old : j \in 1 .. Len(l) /\ l[j] = old[j]
    BY <1>15
  <2> QED
    BY <1>13, <2>1
<1>17. \A j \in DOMAIN rest : \E i \in DOMAIN s : s[i] = rest[j]
  <2>1. \A j \in DOMAIN rest : Len(old) + j \in 1 .. Len(l) /\ l[Len(old) + j] = rest[j]
    BY <1>15
  <2>2. ASSUME NEW j \in DOMAIN rest
        PROVE  \E i \in DOMAIN s : s[i] = rest[j]
    <3>1. PICK h \in 1 .. Len(l) : l[h] = rest[j]
      BY <2>1
    <3> QED
      BY <1>13, <3>1
  <2> QED
    BY <2>2
<1> QED
  BY <1>7, <1>10, <1>11, <1>12, <1>14, <1>16, <1>17 DEF Extended

(* A replica that handles an operation defers only what misses something,  *)
(* in the order of the timestamps.                                         *)
LEMMA ApplyOpsKeeps ==
  ASSUME NEW ops, NEW order, Issued(ops), Ordered(ops, order), NEW r \in Replicas,
         NEW b, Kept(ops, order, r, b), NEW op \in Others(ops, r),
         NEW a, a = ApplyOps(b, <<op>>)
  PROVE  /\ Kept(ops, order, r, a) /\ Settled(a)
         /\ Precedes(b.versions, a.versions)
         /\ \A o \in ops : o = op \/ Accounted(b, o) => Accounted(a, o)
<1>1. b.versions \in [Replicas -> Nat]
  BY BufferFacts DEF Kept
<1>2. PICK l : l = <<op>>
  OBVIOUS
<1>3. l \in Seq(Others(ops, r))
  BY <1>2
<1>4. PICK first : first = Pass(b, l)
  OBVIOUS
<1>5. Tried(ops, order, r, b, first)
  BY <1>3, <1>4, PassKeeps
<1>6. PICK c : c = Extend(first.b, first.rest)
  OBVIOUS
<1>7. /\ Kept(ops, order, r, first.b) /\ first.rest \in Seq(Others(ops, r))
      /\ Precedes(b.versions, first.b.versions)
  BY <1>5 DEF Tried
<1>8. Kept(ops, order, r, c) /\ c.versions = first.b.versions /\ InOrder(c.deferred)
  <2>1. PICK e : e = first.b
    OBVIOUS
  <2>2. PICK rest \in Seq(Others(ops, r)) : rest = first.rest
    BY <1>7
  <2>3. Kept(ops, order, r, e) /\ c = Extend(e, rest)
    BY <1>6, <1>7, <2>1, <2>2
  <2>4. Extended(ops, order, r, e, rest, c)
    BY <2>3, ExtendKeeps
  <2> QED
    BY <2>1, <2>4 DEF Extended
<1>9. PICK d : d = [c EXCEPT !.deferred = <<>>]
  OBVIOUS
<1>10. Kept(ops, order, r, d) /\ d.deferred = <<>> /\ d.versions = c.versions
  <2>1. c \in BufferTypes /\ <<>> \in Seq(EditOps \cup UndoOps)
    BY <1>8 DEF Kept
  <2>2. /\ d \in BufferTypes /\ d.chars = c.chars /\ d.versions = c.versions /\ d.clock = c.clock
        /\ d.deferred = <<>> /\ d.history = c.history /\ d.stack = c.stack /\ d.current = c.current
    BY <1>9, <2>1, BufferFacts
  <2>3. <<>> \in Seq({o \in ops : o.time[2] # r})
    OBVIOUS
  <2> QED
    BY <1>8, <2>2, <2>3 DEF Kept
<1>11. c.deferred \in Seq(Others(ops, r))
  BY <1>8 DEF Kept, Others
<1>12. PICK second : second = Pass(d, c.deferred)
  OBVIOUS
<1>13. Tried(ops, order, r, d, second) /\ Waiting(second)
  BY <1>8, <1>10, <1>11, <1>12, PassKeeps
<1>14. /\ Kept(ops, order, r, second.b) /\ second.b.deferred = <<>>
       /\ second.rest \in Seq(Others(ops, r))
       /\ Precedes(d.versions, second.b.versions)
  BY <1>10, <1>13 DEF Tried
<1>15. a = Extend(second.b, second.rest)
  BY <1>2, <1>4, <1>6, <1>9, <1>12 DEF ApplyOps, FlushDeferredOps, ApplyOrDefer, Pass
<1>16. /\ Kept(ops, order, r, a) /\ a.versions = second.b.versions /\ InOrder(a.deferred)
       /\ \A i \in DOMAIN a.deferred : \E j \in DOMAIN second.rest : a.deferred[i] = second.rest[j]
  <2>1. PICK e : e = second.b
    OBVIOUS
  <2>2. PICK rest \in Seq(Others(ops, r)) : rest = second.rest
    BY <1>14
  <2>3. Kept(ops, order, r, e) /\ e.deferred = <<>> /\ a = Extend(e, rest)
    BY <1>14, <1>15, <2>1, <2>2
  <2>4. Extended(ops, order, r, e, rest, a)
    BY <2>3, ExtendKeeps
  <2> QED
    BY <2>1, <2>2, <2>3, <2>4 DEF Extended
<1>17. Settled(a)
  BY <1>13, <1>16 DEF Settled, Waiting
<1>18. first.b.versions \in [Replicas -> Nat] /\ second.b.versions \in [Replicas -> Nat]
  BY <1>7, <1>14, BufferFacts DEF Kept
<1>19. Precedes(b.versions, second.b.versions)
  BY <1>1, <1>7, <1>8, <1>10, <1>14, <1>18, PrecedesTrans
<1>20. ASSUME NEW o \in ops, o = op \/ Accounted(b, o)
       PROVE  Accounted(a, o)
  <2>1. o.time \in Times \cup {BaseEdit}
    BY OpFacts DEF Issued
  <2>2. /\ Observed(b.versions, o.time) => Observed(first.b.versions, o.time)
        /\ Observed(first.b.versions, o.time) => Observed(second.b.versions, o.time)
    BY <1>1, <1>7, <1>8, <1>10, <1>14, <1>18, <2>1, ObservedGrows
  <2>3. o = op => Observed(first.b.versions, o.time) \/ \E i \in DOMAIN first.rest : first.rest[i] = o
    <3>1. Carried({l[j] : j \in DOMAIN l}, first)
      BY <1>3, <1>4, PassKeeps
    <3>2. 1 \in DOMAIN l /\ l[1] = op
      BY <1>2
    <3> QED
      BY <3>1, <3>2 DEF Carried
  <2>4. /\ first.b.deferred = b.deferred
        /\ Extended(ops, order, r, first.b, first.rest, c)
    <3>1. PICK e : e = first.b
      OBVIOUS
    <3>2. PICK rest \in Seq(Others(ops, r)) : rest = first.rest
      BY <1>7
    <3>3. Kept(ops, order, r, e) /\ c = Extend(e, rest)
      BY <1>6, <1>7, <3>1, <3>2
    <3>4. Extended(ops, order, r, e, rest, c)
      BY <3>3, ExtendKeeps
    <3> QED
      BY <1>5, <3>1, <3>2, <3>4 DEF Tried
  <2>5. Observed(first.b.versions, o.time) \/ \E i \in DOMAIN c.deferred : c.deferred[i] = o
    BY <1>20, <2>2, <2>3, <2>4 DEF Accounted, Extended
  <2>6. Carried({c.deferred[j] : j \in DOMAIN c.deferred}, second)
    BY <1>10, <1>11, <1>12, PassKeeps
  <2>7. Observed(second.b.versions, o.time) \/ \E i \in DOMAIN second.rest : second.rest[i] = o
    BY <2>2, <2>5, <2>6 DEF Carried
  <2>8. \A j \in DOMAIN second.rest : \E i \in DOMAIN a.deferred : a.deferred[i] = second.rest[j]
    <3>1. PICK e : e = second.b
      OBVIOUS
    <3>2. PICK rest \in Seq(Others(ops, r)) : rest = second.rest
      BY <1>14
    <3>3. Kept(ops, order, r, e) /\ a = Extend(e, rest)
      BY <1>14, <1>15, <3>1, <3>2
    <3>4. Extended(ops, order, r, e, rest, a)
      BY <3>3, ExtendKeeps
    <3> QED
      BY <3>2, <3>4 DEF Extended
  <2> QED
    BY <1>16, <2>7, <2>8 DEF Accounted
<1> QED
  BY <1>16, <1>17, <1>19, <1>20

-----------------------------------------------------------------------------
(* The undo stack.                                                         *)

Stacked(stack, current, value, s, c) ==
  /\ s \in Seq(SUBSET (Nat \ {0})) /\ c \in Nat /\ c \in DOMAIN s /\ current <= c
  /\ \A i \in DOMAIN s : \A v \in s[i] :
       \/ v = value /\ i = c
       \/ i \in DOMAIN stack /\ i <= current /\ v \in stack[i]

LEMMA StackedIs ==
  ASSUME NEW stack \in Seq(SUBSET (Nat \ {0})), NEW current \in 1 .. Len(stack),
         NEW value \in Nat \ {0}, NEW joins, NEW s, NEW c,
         s = IF joins THEN [SubSeq(stack, 1, current) EXCEPT ![current] = @ \cup {value}]
                      ELSE Append(SubSeq(stack, 1, current), {value}),
         c = IF joins THEN current ELSE current + 1
  PROVE  Stacked(stack, current, value, s, c)
<1>1. PICK kept : kept = SubSeq(stack, 1, current)
  OBVIOUS
<1>2. current \in Nat /\ current \in 1 .. current /\ \A i \in 1 .. current : i \in DOMAIN stack
  OBVIOUS
<1>3. /\ kept \in Seq(SUBSET (Nat \ {0})) /\ DOMAIN kept = 1 .. current /\ Len(kept) = current
      /\ \A i \in 1 .. current : kept[i] = stack[i]
  <2>1. kept = [i \in 1 .. current |-> stack[i]]
    BY <1>1, <1>2
  <2>2. \A i \in 1 .. current : stack[i] \in SUBSET (Nat \ {0})
    BY <1>2
  <2> QED
    BY <1>2, <2>1, <2>2
<1>4. CASE joins
  <2>1. PICK top : top = kept[current] \cup {value}
    OBVIOUS
  <2>2. s = [kept EXCEPT ![current] = top] /\ c = current
    BY <1>1, <1>4, <2>1
  <2>3. top \in SUBSET (Nat \ {0})
    BY <1>2, <1>3, <2>1
  <2>4. s \in Seq(SUBSET (Nat \ {0})) /\ DOMAIN s = 1 .. current
        /\ s[current] = top /\ \A i \in 1 .. current : i # current => s[i] = kept[i]
    <3>1. s = [i \in 1 .. current |-> IF i = current THEN top ELSE kept[i]]
      BY <1>3, <2>2
    <3>2. \A i \in 1 .. current : s[i] \in SUBSET (Nat \ {0})
      BY <1>3, <2>3, <3>1
    <3> QED
      BY <1>2, <3>1, <3>2
  <2>5. ASSUME NEW i \in DOMAIN s, NEW v \in s[i]
        PROVE  \/ v = value /\ i = c
               \/ i \in DOMAIN stack /\ i <= current /\ v \in stack[i]
    <3>1. i \in 1 .. current /\ i \in DOMAIN stack /\ i <= current
      BY <1>2, <2>4
    <3>2. CASE i = current
      BY <1>3, <2>1, <2>2, <2>4, <3>1, <3>2
    <3>3. CASE i # current
      BY <1>3, <2>4, <3>1, <3>3
    <3> QED
      BY <3>2, <3>3
  <2>6. c \in Nat /\ c \in DOMAIN s /\ current <= c
    BY <1>2, <2>2, <2>4
  <2> QED
    BY <2>4, <2>5, <2>6 DEF Stacked
<1>5. CASE ~joins
  <2>1. s = Append(kept, {value}) /\ c = current + 1
    BY <1>1, <1>5
  <2>2. {value} \in SUBSET (Nat \ {0})
    OBVIOUS
  <2>3. /\ s \in Seq(SUBSET (Nat \ {0})) /\ DOMAIN s = 1 .. c
        /\ s[c] = {value} /\ \A i \in 1 .. current : s[i] = kept[i]
    BY <1>2, <1>3, <2>1, <2>2
  <2>4. c \in Nat /\ c \in DOMAIN s /\ current <= c /\ \A i \in 1 .. c : i = c \/ i \in 1 .. current
    BY <1>2, <2>1, <2>3
  <2>5. ASSUME NEW i \in DOMAIN s, NEW v \in s[i]
        PROVE  \/ v = value /\ i = c
               \/ i \in DOMAIN stack /\ i <= current /\ v \in stack[i]
    <3>1. CASE i = c
      BY <2>3, <3>1
    <3>2. CASE i \in 1 .. current
      BY <1>2, <1>3, <2>3, <3>2
    <3> QED
      BY <2>3, <2>4, <3>1, <3>2
  <2> QED
    BY <2>3, <2>4, <2>5 DEF Stacked
<1> QED
  BY <1>4, <1>5

LEMMA UndoneMeans ==
  ASSUME NEW history, NEW edit
  PROVE  IsEditUndone(history, edit) <=> Cardinality(UndosOf(history, edit)) % 2 = 1
<1>1. {undo \in history : undo.edit = edit} = UndosOf(history, edit)
  BY DEF UndosOf
<1> QED
  BY <1>1 DEF IsEditUndone

(* A new edit is not undone. *)
LEMMA RecordKept ==
  ASSUME NEW r, NEW clock \in Nat, NEW history,
         NEW stack \in Seq(SUBSET (Nat \ {0})), NEW current \in Nat,
         StackKept(r, clock, history, stack, current),
         \A u \in history : u.edit[2] = r => u.edit[1] < u.value /\ u.value \in Nat /\ u.edit[1] \in Nat,
         NEW s, NEW c, Stacked(stack, current, clock + 1, s, c)
  PROVE  StackKept(r, clock + 1, history, s, c)
<1>1. /\ current \in DOMAIN stack
      /\ \A i \in DOMAIN stack : \A v \in stack[i] :
           /\ v <= clock
           /\ \A j \in DOMAIN stack : v \in stack[j] => i = j
           /\ IsEditUndone(history, <<v, r>>) <=> i > current
      /\ \A u \in history : u.edit[2] = r => u.value <= clock
      /\ \A v \in Nat : IsFiniteSet(UndosOf(history, <<v, r>>))
  BY DEF StackKept
<1>2. ~IsEditUndone(history, <<clock + 1, r>>)
  <2>1. UndosOf(history, <<clock + 1, r>>) = {}
    <3>1. SUFFICES ASSUME NEW u \in history, u.edit = <<clock + 1, r>>
                   PROVE  FALSE
      BY DEF UndosOf
    <3>2. u.edit[1] = clock + 1 /\ u.edit[2] = r
      BY <3>1
    <3>3. u.value <= clock /\ u.edit[1] < u.value /\ u.value \in Nat
      BY <1>1, <3>2
    <3> QED
      BY <3>2, <3>3
  <2> QED
    <3>1. Cardinality(UndosOf(history, <<clock + 1, r>>)) = 0
      BY <2>1, FS_EmptySet
    <3>2. 0 % 2 # 1
      OBVIOUS
    <3> QED
      BY <3>1, <3>2, UndoneMeans
<1>3. /\ c \in Nat /\ c \in DOMAIN s /\ current <= c
      /\ \A i \in DOMAIN s : \A v \in s[i] :
           \/ v = clock + 1 /\ i = c
           \/ i \in DOMAIN stack /\ i <= current /\ v \in stack[i]
  BY DEF Stacked
<1>4. \A i \in DOMAIN stack : \A v \in stack[i] : i \in Nat /\ v \in Nat /\ v # clock + 1
  <2>1. \A i \in DOMAIN stack : i \in Nat /\ \A v \in stack[i] : v \in Nat
    OBVIOUS
  <2>2. \A i \in DOMAIN stack : \A v \in stack[i] : v <= clock
    BY <1>1
  <2> QED
    BY <2>1, <2>2
<1>5. ASSUME NEW i \in DOMAIN s, NEW v \in s[i]
      PROVE  /\ v <= clock + 1
             /\ \A j \in DOMAIN s : v \in s[j] => i = j
             /\ IsEditUndone(history, <<v, r>>) <=> i > c
  <2>1. CASE v = clock + 1 /\ i = c
    BY <1>2, <1>3, <1>4, <2>1
  <2>2. CASE i \in DOMAIN stack /\ i <= current /\ v \in stack[i]
    <3>1. v <= clock /\ v # clock + 1 /\ v \in Nat /\ i \in Nat
      BY <1>1, <1>4, <2>2
    <3>2. \A j \in DOMAIN s : v \in s[j] => i = j
      BY <1>1, <1>3, <2>2, <3>1
    <3>3. ~(i > c) /\ ~(i > current)
      BY <1>3, <2>2, <3>1
    <3> QED
      BY <1>1, <2>2, <3>1, <3>2, <3>3
  <2> QED
    BY <1>3, <2>1, <2>2
<1>6. \A u \in history : u.edit[2] = r => u.value <= clock + 1
  BY <1>1
<1> QED
  BY <1>1, <1>3, <1>5, <1>6 DEF StackKept

(* Undoing, or redoing, an entry flips what the history says of its edits. *)
LEMMA ToggleKept ==
  ASSUME NEW r \in Replicas, NEW clock \in Nat, NEW history,
         NEW stack \in Seq(SUBSET (Nat \ {0})), NEW current \in Nat,
         StackKept(r, clock, history, stack, current),
         \A u \in history : u.value \in Nat,
         NEW i \in DOMAIN stack, NEW c \in DOMAIN stack,
         (i = current /\ c = current - 1) \/ (i = current + 1 /\ c = current + 1),
         NEW new, new = {[edit |-> Lamport(v, r), value |-> clock + 1] : v \in stack[i]},
         NEW wider, wider = history \cup new
  PROVE  StackKept(r, clock + 1, wider, stack, c)
<1>1. /\ \A k \in DOMAIN stack : \A v \in stack[k] :
           /\ v <= clock
           /\ \A j \in DOMAIN stack : v \in stack[j] => k = j
           /\ IsEditUndone(history, <<v, r>>) <=> k > current
      /\ \A u \in history : u.edit[2] = r => u.value <= clock
      /\ \A v \in Nat : IsFiniteSet(UndosOf(history, <<v, r>>))
  BY DEF StackKept
<1>2. /\ \A v \in stack[i] : [edit |-> <<v, r>>, value |-> clock + 1] \in new
      /\ \A u \in new : /\ u.value = clock + 1 /\ u.edit[2] = r
                        /\ \E v \in stack[i] : /\ u = [edit |-> <<v, r>>, value |-> clock + 1]
                                               /\ u.edit = <<v, r>>
  BY DEF Lamport
<1>3. \A k \in DOMAIN stack : k \in Nat /\ \A v \in stack[k] : v \in Nat
  OBVIOUS
<1>4. ASSUME NEW v \in stack[i]
      PROVE  /\ IsFiniteSet(UndosOf(wider, <<v, r>>))
             /\ IsEditUndone(wider, <<v, r>>) <=> ~IsEditUndone(history, <<v, r>>)
  <2>1. PICK u : u = [edit |-> <<v, r>>, value |-> clock + 1]
    OBVIOUS
  <2>2. u.edit = <<v, r>> /\ u.value = clock + 1 /\ u.edit[2] = r /\ u \in new
    BY <1>2, <2>1
  <2>3. PICK U : U = UndosOf(history, <<v, r>>)
    OBVIOUS
  <2>4. \A x : x \in new /\ x.edit = <<v, r>> => x = u
    <3>1. TAKE x
    <3>2. HAVE x \in new /\ x.edit = <<v, r>>
    <3>3. PICK w \in stack[i] : x = [edit |-> <<w, r>>, value |-> clock + 1] /\ x.edit = <<w, r>>
      BY <1>2, <3>2
    <3>4. w = v
      BY <3>2, <3>3
    <3> QED
      BY <2>1, <3>3, <3>4
  <2>5. UndosOf(wider, <<v, r>>) = U \cup {u}
    BY <2>2, <2>3, <2>4 DEF UndosOf
  <2>6. IsFiniteSet(U)
    BY <1>1, <1>3, <2>3
  <2>7. u \notin U
    <3>1. SUFFICES ASSUME u \in history
                   PROVE  FALSE
      BY <2>3 DEF UndosOf
    <3>2. clock + 1 <= clock
      BY <1>1, <2>2, <3>1
    <3> QED
      BY <3>2
  <2>8. PICK n : n = Cardinality(U)
    OBVIOUS
  <2>9. PICK W : W = U \cup {u}
    OBVIOUS
  <2>10. n \in Nat /\ IsFiniteSet(W) /\ Cardinality(W) = n + 1
    BY <2>6, <2>7, <2>8, <2>9, FS_AddElement, FS_CardinalityType
  <2>11. (n + 1) % 2 = 1 <=> n % 2 # 1
    BY <2>10
  <2>12. /\ IsEditUndone(history, <<v, r>>) <=> n % 2 = 1
         /\ IsEditUndone(wider, <<v, r>>) <=> (n + 1) % 2 = 1
    BY <2>3, <2>5, <2>8, <2>9, <2>10, UndoneMeans
  <2> QED
    BY <2>5, <2>9, <2>10, <2>11, <2>12
<1>5. ASSUME NEW v, v \notin stack[i]
      PROVE  /\ UndosOf(wider, <<v, r>>) = UndosOf(history, <<v, r>>)
             /\ IsEditUndone(wider, <<v, r>>) <=> IsEditUndone(history, <<v, r>>)
  <2>1. \A x \in new : x.edit # <<v, r>>
    <3>1. TAKE x \in new
    <3>2. PICK w \in stack[i] : x.edit = <<w, r>>
      BY <1>2
    <3>3. w # v
      BY <1>5
    <3> QED
      BY <3>2, <3>3
  <2>2. UndosOf(wider, <<v, r>>) = UndosOf(history, <<v, r>>)
    BY <2>1 DEF UndosOf
  <2> QED
    BY <2>2, UndoneMeans
<1>6. ASSUME NEW k \in DOMAIN stack, NEW v \in stack[k]
      PROVE  /\ v <= clock + 1
             /\ \A j \in DOMAIN stack : v \in stack[j] => k = j
             /\ IsEditUndone(wider, <<v, r>>) <=> k > c
  <2>1. v <= clock + 1
    <3>1. v \in Nat /\ v <= clock
      BY <1>1, <1>3
    <3> QED
      BY <3>1
  <2>2. c \in Nat /\ i \in Nat /\ k \in Nat
    BY <1>3
  <2>3. CASE k = i
    <3>1. (i > c) <=> ~(i > current)
      BY <2>2
    <3> QED
      BY <1>1, <1>4, <2>1, <2>3, <3>1
  <2>4. CASE k # i
    <3>1. v \notin stack[i]
      BY <1>1, <2>4
    <3>2. (k > c) <=> (k > current)
      BY <2>2, <2>4
    <3> QED
      BY <1>1, <1>5, <2>1, <3>1, <3>2
  <2> QED
    BY <2>3, <2>4
<1>7. \A u \in wider : u.edit[2] = r => u.value <= clock + 1
  <2>1. TAKE u \in wider
  <2>2. HAVE u.edit[2] = r
  <2>3. CASE u \in new
    <3>1. u.value = clock + 1
      BY <1>2, <2>3
    <3> QED
      BY <3>1
  <2>4. CASE u \in history
    <3>1. u.value <= clock /\ u.value \in Nat
      BY <1>1, <2>2, <2>4
    <3> QED
      BY <3>1
  <2> QED
    BY <2>3, <2>4
<1>8. \A v \in Nat : IsFiniteSet(UndosOf(wider, <<v, r>>))
  BY <1>1, <1>4, <1>5
<1> QED
  BY <1>6, <1>7, <1>8 DEF StackKept

-----------------------------------------------------------------------------
(* What a replica does on its own.                                         *)

Mine(ops, r, versions) == \A o \in ops : o.time[2] = r => Observed(versions, o.time)

LEMMA OwnOpFacts ==
  ASSUME NEW ops, NEW r \in Replicas, NEW v \in [Replicas -> Nat], NEW clock \in Nat,
         Closed(ops, v, clock),
         NEW op \in EditOps \cup UndoOps, op.time = <<clock + 1, r>>
  PROVE  op.time \in Times /\ ~Observed(v, op.time)
<1>1. v[r] <= clock /\ v[r] \in Nat
  BY DEF Closed
<1>2. op.time[1] = clock + 1 /\ op.time[2] = r /\ r # BaseReplica /\ op.time \in Times
  BY ReplicaFacts DEF Times
<1>3. ~Observed(v, op.time)
  BY <1>1, <1>2 DEF Observed
<1> QED
  BY <1>2, <1>3

(* An operation that misses something misses it still after the replica    *)
(* has done something itself: nothing waits for what it never did.         *)
LEMMA OwnOpSettles ==
  ASSUME NEW ops, Issued(ops), NEW r \in Replicas, NEW v \in [Replicas -> Nat], Mine(ops, r, v),
         NEW t \in Times, t[2] = r, NEW w, w = ObserveVersion(v, t),
         NEW e \in ops, Misses(e, v)
  PROVE  Misses(e, w)
<1>1. PICK x \in Replicas : v[x] < e.versions[x]
  BY DEF Misses
<1>2. e.versions \in [Replicas -> Nat] /\ e.versions[x] \in Nat /\ v[x] \in Nat
  BY OpFacts DEF Issued
<1>3. x # r
  <2>1. SUFFICES ASSUME x = r
                 PROVE  FALSE
    OBVIOUS
  <2>2. e.versions[x] # 0
    BY <1>1, <1>2
  <2>3. PICK p \in ops : p.time = <<e.versions[x], x>>
    BY <2>2 DEF Issued
  <2>4. p.time[1] = e.versions[x] /\ p.time[2] = r /\ r # BaseReplica
    BY <2>1, <2>3, ReplicaFacts
  <2>5. v[x] >= e.versions[x]
    BY <2>1, <2>4 DEF Mine, Observed
  <2> QED
    BY <1>1, <1>2, <2>5
<1>4. w[x] = v[x]
  BY <1>3, ObserveIs
<1> QED
  BY <1>1, <1>4 DEF Misses

Doing(ops, order, r, b, op, wider) ==
  /\ Issued(ops) /\ Ordered(ops, order)
  /\ r \in Replicas /\ Kept(ops, order, r, b) /\ Settled(b) /\ Mine(ops, r, b.versions)
  /\ op \in EditOps \cup UndoOps /\ op.time = <<b.clock + 1, r>> /\ op.versions = b.versions
  /\ Issued(ops \cup {op}) /\ \A p \in ops : p.time # op.time
  /\ Extends(ops, order, op, wider)

(* The replica has observed its operation, and nothing else. *)
LEMMA DoingFacts ==
  ASSUME NEW ops, NEW order, NEW r, NEW b, NEW op, NEW wider,
         Doing(ops, order, r, b, op, wider),
         NEW w, w = ObserveVersion(b.versions, op.time), NEW all, all = ops \cup {op}
  PROVE  /\ b \in BufferTypes /\ b.versions \in [Replicas -> Nat] /\ w \in [Replicas -> Nat]
         /\ op.time \in Times /\ ~Observed(b.versions, op.time) /\ Observed(w, op.time)
         /\ Kept(all, wider, r, b)
         /\ Issued(all) /\ Ordered(all, wider)
         /\ \A o \in all : Observed(w, o.time) <=> Observed(b.versions, o.time) \/ o = op
         /\ Precedes(b.versions, b.versions) /\ Precedes(b.versions, w)
<1>1. b \in BufferTypes /\ b.versions \in [Replicas -> Nat] /\ b.clock \in Nat
  BY BufferFacts DEF Doing, Kept
<1>2. op.time \in Times /\ ~Observed(b.versions, op.time)
  BY <1>1, OwnOpFacts DEF Doing, Kept
<1>3. Kept(all, wider, r, b)
  BY <1>2, KeptExtends DEF Doing
<1>4. Issued(all) /\ Ordered(all, wider) /\ op \in all /\ op.versions = b.versions
  BY DEF Doing, Extends
<1>5. Precedes(b.versions, b.versions)
  BY <1>1 DEF Precedes
<1>6. \A o \in all : Observed(w, o.time) <=> Observed(b.versions, o.time) \/ o = op
  BY <1>1, <1>4, <1>5, NewlyObserved
<1>7. w \in [Replicas -> Nat] /\ Precedes(b.versions, w) /\ Observed(w, op.time)
  BY <1>1, <1>2, ObserveIs
<1> QED
  BY <1>1, <1>2, <1>3, <1>4, <1>5, <1>6, <1>7

Done(ops, order, r, b, a) ==
  /\ Kept(ops, order, r, a) /\ Settled(a) /\ Mine(ops, r, a.versions)
  /\ \A o \in ops : Accounted(b, o) => Accounted(a, o)

LEMMA DoingKeeps ==
  ASSUME NEW ops, NEW order, NEW r, NEW b, NEW op, NEW wider,
         Doing(ops, order, r, b, op, wider),
         NEW w, w = ObserveVersion(b.versions, op.time), NEW all, all = ops \cup {op},
         NEW a \in BufferTypes, a.versions = w, a.clock = b.clock + 1, a.deferred = b.deferred,
         Holds(all, wider, w, a.chars), a.history = HistoryOf(all, w),
         StackKept(r, a.clock, a.history, a.stack, a.current)
  PROVE  Done(all, wider, r, b, a)
<1>1. /\ b \in BufferTypes /\ b.versions \in [Replicas -> Nat] /\ w \in [Replicas -> Nat]
      /\ op.time \in Times /\ Observed(w, op.time)
      /\ Kept(all, wider, r, b)
      /\ Issued(all) /\ Ordered(all, wider)
      /\ \A o \in all : Observed(w, o.time) <=> Observed(b.versions, o.time) \/ o = op
      /\ Precedes(b.versions, b.versions)
  BY DoingFacts
<1>2. /\ b.clock \in Nat /\ op.time[1] <= b.clock + 1 /\ b.clock <= b.clock + 1 /\ b.clock + 1 \in Nat
      /\ op.time[2] = r /\ op.versions = b.versions /\ op \in all /\ r \in Replicas
      /\ Mine(ops, r, b.versions) /\ Settled(b) /\ Issued(ops)
  BY <1>1, BufferFacts DEF Doing
<1>3. Closed(all, b.versions, b.clock)
  BY <1>1 DEF Kept
<1>4. Closed(all, w, b.clock + 1)
  BY <1>1, <1>2, <1>3, ClosedAfter
<1>5. Kept(all, wider, r, a)
  BY <1>1, <1>4 DEF Kept
<1>6. \A i \in DOMAIN b.deferred : b.deferred[i] \in ops
  <2>1. b.deferred \in Seq({o \in ops : o.time[2] # r})
    BY DEF Doing, Kept
  <2> QED
    BY <2>1
<1>7. \A e \in ops : Misses(e, b.versions) => Misses(e, w)
  BY <1>1, <1>2, OwnOpSettles
<1>8. Settled(a)
  BY <1>2, <1>6, <1>7 DEF Settled
<1>9. Mine(all, r, a.versions)
  BY <1>1, <1>2 DEF Mine
<1>10. \A o \in all : Accounted(b, o) => Accounted(a, o)
  BY <1>1 DEF Accounted
<1> QED
  BY <1>5, <1>8, <1>9, <1>10 DEF Done

LEMMA ToggleDone ==
  ASSUME NEW ops, NEW order, Issued(ops), Ordered(ops, order), NEW r \in Replicas,
         NEW b, Kept(ops, order, r, b), Settled(b), Mine(ops, r, b.versions),
         NEW i \in DOMAIN b.stack, NEW c \in DOMAIN b.stack,
         (i = b.current /\ c = b.current - 1) \/ (i = b.current + 1 /\ c = b.current + 1),
         NEW op, op = [kind |-> "undo", time |-> Lamport(b.clock + 1, r), versions |-> b.versions,
                       edits |-> b.stack[i]],
         NEW a, a = [UndoOrRedo(Tick(b, r), op.time, op.edits) EXCEPT !.current = c, !.recent = FALSE]
  PROVE  Doing(ops, order, r, b, op, order) /\ Done(ops \cup {op}, order, r, b, a)
<1>1. /\ b \in BufferTypes /\ b.chars \in Seq(Chars) /\ b.versions \in [Replicas -> Nat]
      /\ b.clock \in Nat /\ b.deferred \in Seq(EditOps \cup UndoOps)
      /\ b.history \in SUBSET [edit : Times, value : Nat]
      /\ b.stack \in Seq(SUBSET (Nat \ {0})) /\ b.current \in Nat
  BY BufferFacts DEF Kept
<1>2. /\ Closed(ops, b.versions, b.clock)
      /\ StackKept(r, b.clock, b.history, b.stack, b.current)
  BY DEF Kept
<1>3. /\ op.kind = "undo" /\ op.time = <<b.clock + 1, r>> /\ op.versions = b.versions
      /\ op.edits = b.stack[i] /\ op.edits \in SUBSET (Nat \ {0})
      /\ op.time[1] = b.clock + 1 /\ op.time[2] = r
  BY <1>1 DEF Lamport
<1>4. op \in UndoOps
  <2>1. <<b.clock + 1, r>> \in Times
    BY <1>1 DEF Times
  <2> QED
    BY <1>1, <1>3, <2>1 DEF UndoOps, Lamport
<1>5. \A u \in op.edits : u <= b.clock
  BY <1>2, <1>3 DEF StackKept
<1>6. Issued(ops \cup {op}) /\ \A p \in ops : p.time # op.time
  <2>1. op.kind # "edit" /\ op \in EditOps \cup UndoOps
    BY <1>3, <1>4
  <2>2. \A o \in ops : o.time[2] = r => Observed(b.versions, o.time)
    BY DEF Mine
  <2> QED
    <3>1. op.kind = "edit" => /\ op.start \in Placed(ops) /\ Observed(b.versions, op.start[1])
                              /\ op.end \in Placed(ops) /\ Observed(b.versions, op.end[1])
      BY <2>1
    <3>2. op.kind = "undo" => \A u \in op.edits : u <= b.clock
      BY <1>5
    <3>3. MayIssue(ops, r, b.versions, b.clock, op)
      BY <1>1, <1>2, <1>3, <2>1, <2>2, <3>1, <3>2 DEF MayIssue
    <3> QED
      BY <3>3, MayBeIssued DEF IssuedWith
<1>7. Extends(ops, order, op, order)
  <2>1. Edits(ops \cup {op}) = Edits(ops)
    BY <1>3 DEF Edits
  <2>2. Placed(ops \cup {op}) = Placed(ops)
    BY <2>1 DEF Placed
  <2> QED
    BY <2>1, <2>2 DEF Extends, Ordered
<1>8. Doing(ops, order, r, b, op, order)
  BY <1>3, <1>4, <1>6, <1>7 DEF Doing
<1>9. PICK w : w = ObserveVersion(b.versions, op.time)
  OBVIOUS
<1>10. PICK all : all = ops \cup {op}
  OBVIOUS
<1>11. /\ w \in [Replicas -> Nat] /\ Kept(all, order, r, b) /\ Issued(all)
       /\ \A o \in all : Observed(w, o.time) <=> Observed(b.versions, o.time) \/ o = op
  BY <1>8, <1>9, <1>10, DoingFacts
<1>12. op \in Undos(all)
  BY <1>3, <1>10 DEF Undos
<1>13. Holds(all, order, w, b.chars)
  <2>1. Holds(all, order, b.versions, b.chars)
    BY <1>11 DEF Kept
  <2> QED
    BY <1>11, <1>12, <2>1, UndoHolds
<1>14. PICK new : new = {[edit |-> Lamport(v, r), value |-> b.clock + 1] : v \in b.stack[i]}
  OBVIOUS
<1>15. PICK history : history = b.history \cup new
  OBVIOUS
<1>16. history = HistoryOf(all, w)
  <2>1. b.history = HistoryOf(all, b.versions)
    BY <1>11 DEF Kept
  <2>2. new = {[edit |-> Lamport(v, op.time[2]), value |-> op.time[1]] : v \in op.edits}
    BY <1>3, <1>14
  <2> QED
    BY <1>11, <1>12, <1>15, <2>1, <2>2, UndoneIs
<1>17. history \in SUBSET [edit : Times, value : Nat]
  BY <1>16 DEF HistoryOf
<1>18. a = [b EXCEPT !.clock = b.clock + 1, !.versions = w, !.history = history,
                     !.current = c, !.recent = FALSE]
  BY <1>1, <1>3, <1>9, <1>14, <1>15 DEF UndoOrRedo, Tick, BufferTypes, Lamport
<1>19. c \in Nat
  BY <1>1
<1>20. /\ a \in BufferTypes /\ a.versions = w /\ a.clock = b.clock + 1 /\ a.deferred = b.deferred
       /\ a.chars = b.chars /\ a.history = history /\ a.stack = b.stack /\ a.current = c
  <2>1. b.clock + 1 \in Nat /\ b \in BufferTypes
    BY <1>1
  <2>2. PICK clock \in Nat : clock = b.clock + 1
    BY <2>1
  <2>3. a = [b EXCEPT !.clock = clock, !.versions = w, !.history = history,
                      !.current = c, !.recent = FALSE]
    BY <1>18, <2>2
  <2> QED
    BY ONLY <1>11, <1>17, <1>19, <2>1, <2>2, <2>3 DEF BufferTypes
<1>21. StackKept(r, b.clock + 1, history, b.stack, c)
  <2>1. \A u \in b.history : u.value \in Nat
    BY <1>1
  <2> QED
    BY <1>1, <1>2, <1>14, <1>15, <2>1, ToggleKept
<1>22. Done(all, order, r, b, a)
  <2>1. Holds(all, order, w, a.chars) /\ a.history = HistoryOf(all, w)
        /\ StackKept(r, a.clock, a.history, a.stack, a.current)
    BY <1>13, <1>16, <1>20, <1>21
  <2> QED
    BY ONLY <1>8, <1>9, <1>10, <1>20, <2>1, DoingKeeps
<1> QED
  BY <1>8, <1>10, <1>22

Whole(chars, s, e, op) ==
  /\ InsertionPoint(chars, s, op.time) = s + 1
  /\ DeletedInRange(chars, s, e, op.versions) = s + 1 .. e

(* An author's own edit is applied as its peers apply it: nothing stands   *)
(* between its start and its text, and its author has seen all it deletes. *)
LEMMA AuthorsEdit ==
  ASSUME NEW ops, NEW order, NEW op \in ops, NEW chars \in Seq(Chars),
         Issued(ops), Ordered(ops, order), Holds(ops, order, op.versions, chars),
         NEW s \in 1 .. Len(chars), NEW e \in 1 .. Len(chars)
  PROVE  Whole(chars, s, e, op)
<1>1. op.versions \in [Replicas -> Nat]
  BY OpFacts DEF Issued
<1>2. \A i \in 1 .. Len(chars) : /\ Position(chars[i]) \in Placed(ops)
                                 /\ Observed(op.versions, Position(chars[i])[1])
                                 /\ Position(chars[i])[1] = chars[i].edit
  BY <1>1, HoldsFacts, CharFacts
<1>3. \A i \in 1 .. Len(chars) : Later(op.time, Position(chars[i])[1])
  <2>1. \A i \in 1 .. Len(chars) : Position(chars[i])[1] \in Times \cup {BaseEdit}
    BY <1>2, PlacedFacts DEF Issued
  <2> QED
    BY <1>2, <2>1, NotSeenByAuthor
<1>4. PICK at : at = InsertionPoint(chars, s, op.time)
  OBVIOUS
<1>5. at \in s + 1 .. Len(chars) + 1 /\ \A j \in s + 1 .. at - 1 : ~Later(op.time, Position(chars[j])[1])
  BY <1>4, InsertionPointIs
<1>6. at = s + 1
  <2>1. SUFFICES ASSUME at # s + 1
                 PROVE  FALSE
    OBVIOUS
  <2>2. s + 1 \in s + 1 .. at - 1 /\ s + 1 \in 1 .. Len(chars)
    BY <1>5, <2>1
  <2> QED
    BY <1>3, <1>5, <2>2
<1>7. DeletedInRange(chars, s, e, op.versions) = s + 1 .. e
  <2>1. \A i \in s + 1 .. e : i \in 1 .. Len(chars)
    OBVIOUS
  <2>2. \A i \in s + 1 .. e : Observed(op.versions, chars[i].edit)
    BY <1>2, <2>1
  <2> QED
    BY <2>2 DEF DeletedInRange
<1> QED
  BY <1>4, <1>6, <1>7 DEF Whole

LEMMA EditMayBeIssued ==
  ASSUME NEW ops, NEW order, Issued(ops), Ordered(ops, order), NEW r \in Replicas,
         NEW b, Kept(ops, order, r, b), Mine(ops, r, b.versions),
         NEW start \in 1 .. Len(b.chars), NEW end \in 1 .. Len(b.chars), NEW k \in Nat,
         NEW op, op = EditOp(b, r, start, end, k)
  PROVE  /\ op \in EditOps /\ op.kind = "edit" /\ op.time = <<b.clock + 1, r>>
         /\ op.versions = b.versions /\ op.length = k
         /\ op.start = Position(b.chars[start]) /\ op.end = Position(b.chars[end])
         /\ op.start \in Placed(ops)
         /\ IssuedWith(ops, op)
<1>1. /\ b \in BufferTypes /\ b.chars \in Seq(Chars) /\ b.versions \in [Replicas -> Nat]
      /\ b.clock \in Nat
  BY BufferFacts DEF Kept
<1>2. Closed(ops, b.versions, b.clock) /\ Holds(ops, order, b.versions, b.chars)
  BY DEF Kept
<1>3. /\ op.kind = "edit" /\ op.time = <<b.clock + 1, r>> /\ op.versions = b.versions /\ op.length = k
      /\ op.start = Position(b.chars[start]) /\ op.end = Position(b.chars[end])
  BY DEF EditOp, Lamport
<1>4. /\ op.start \in Placed(ops) /\ Observed(b.versions, op.start[1])
      /\ op.end \in Placed(ops) /\ Observed(b.versions, op.end[1])
  <2>1. PICK v \in [Replicas -> Nat] : v = b.versions
    BY <1>1
  <2>2. PICK chars \in Seq(Chars) : chars = b.chars
    BY <1>1
  <2>3. Issued(ops) /\ Ordered(ops, order) /\ Holds(ops, order, v, chars)
    BY <1>2, <2>1, <2>2
  <2>4. \A i \in 1 .. Len(chars) : Position(chars[i]) \in Placed(ops) /\ Observed(v, Position(chars[i])[1])
    BY ONLY <2>3, HoldsFacts
  <2> QED
    BY <1>3, <2>1, <2>2, <2>4
<1>5. op.start \in Positions /\ op.end \in Positions
  <2>1. \A p \in Placed(ops) : p[1] \in Times \cup {BaseEdit} /\ p[2] \in Nat /\ p = <<p[1], p[2]>>
    BY PlacedFacts DEF Issued
  <2>2. \A p \in Placed(ops) : p \in Positions
    BY <2>1 DEF Positions
  <2> QED
    BY <1>4, <2>2
<1>6. op \in EditOps
  <2>1. <<b.clock + 1, r>> \in Times
    BY <1>1 DEF Times
  <2>2. op = [kind |-> "edit", time |-> op.time, versions |-> op.versions,
              start |-> op.start, end |-> op.end, length |-> op.length]
    BY DEF EditOp
  <2> QED
    BY <1>1, <1>3, <1>5, <2>1, <2>2 DEF EditOps
<1>7. MayIssue(ops, r, b.versions, b.clock, op)
  BY <1>1, <1>2, <1>3, <1>4, <1>6 DEF MayIssue, Mine
<1>8. IssuedWith(ops, op)
  BY <1>7, MayBeIssued
<1> QED
  BY <1>3, <1>4, <1>6, <1>8

LEMMA EditDone ==
  ASSUME NEW ops, NEW order, Issued(ops), Ordered(ops, order), NEW r \in Replicas,
         NEW b, Kept(ops, order, r, b), Settled(b), Mine(ops, r, b.versions),
         NEW start \in 1 .. Len(b.chars), NEW end \in 1 .. Len(b.chars), NEW k \in Nat,
         NEW joins, joins => b.current = Len(b.stack),
         NEW op, op = EditOp(b, r, start, end, k),
         NEW a, a = RecordEdit(Tick(UpdateFragmentsForEdit(b, op), r), op.time[1], joins)
  PROVE  \E wider : Doing(ops, order, r, b, op, wider) /\ Done(ops \cup {op}, wider, r, b, a)
<1>1. /\ b \in BufferTypes /\ b.chars \in Seq(Chars) /\ b.versions \in [Replicas -> Nat]
      /\ b.clock \in Nat /\ b.deferred \in Seq(EditOps \cup UndoOps)
      /\ b.history \in SUBSET [edit : Times, value : Nat]
      /\ b.stack \in Seq(SUBSET (Nat \ {0})) /\ b.current \in Nat
  BY BufferFacts DEF Kept
<1>2. /\ op \in EditOps /\ op.kind = "edit" /\ op.time = <<b.clock + 1, r>>
      /\ op.versions = b.versions /\ op.length = k
      /\ op.start = Position(b.chars[start]) /\ op.end = Position(b.chars[end])
      /\ op.start \in Placed(ops)
      /\ IssuedWith(ops, op)
  BY EditMayBeIssued
<1>3. Issued(ops \cup {op}) /\ \A p \in ops : p.time # op.time
  BY <1>2 DEF IssuedWith
<1>4. PICK wider : Extends(ops, order, op, wider)
  <2>1. ops \subseteq EditOps \cup UndoOps
    BY DEF Issued
  <2> QED
    BY <1>2, <1>3, <2>1, OrderGrows DEF Extends
<1>5. Doing(ops, order, r, b, op, wider)
  BY <1>2, <1>3, <1>4 DEF Doing
<1>6. PICK w : w = ObserveVersion(b.versions, op.time)
  OBVIOUS
<1>7. PICK all : all = ops \cup {op}
  OBVIOUS
<1>8. /\ w \in [Replicas -> Nat] /\ Kept(all, wider, r, b) /\ Issued(all) /\ Ordered(all, wider)
      /\ \A o \in all : Observed(w, o.time) <=> Observed(b.versions, o.time) \/ o = op
      /\ op.time \in Times /\ ~Observed(b.versions, op.time) /\ Precedes(b.versions, b.versions)
  BY <1>5, <1>6, <1>7, DoingFacts
<1>9. op \in all /\ op \in Edits(all)
  BY <1>2, <1>7 DEF Edits
<1>10. Holds(all, wider, b.versions, b.chars) /\ Closed(all, b.versions, b.clock)
       /\ b.history = HistoryOf(all, b.versions)
  BY <1>8 DEF Kept
<1>11. PICK s : s = Index(b.chars, op.start)
  OBVIOUS
<1>12. PICK e : e = Index(b.chars, op.end)
  OBVIOUS
<1>13. s \in 1 .. Len(b.chars) /\ e \in 1 .. Len(b.chars)
  <2>1. /\ op.start \in Placed(all) /\ Observed(b.versions, op.start[1])
        /\ op.end \in Placed(all) /\ Observed(b.versions, op.end[1])
    BY <1>2, <1>8, <1>9 DEF Issued
  <2> QED
    BY <1>1, <1>8, <1>10, <1>11, <1>12, <2>1, HoldsFacts
<1>14. /\ InsertionPoint(b.chars, s, op.time) = s + 1
       /\ DeletedInRange(b.chars, s, e, op.versions) = s + 1 .. e
  <2>1. PICK old \in Seq(Chars) : old = b.chars
    BY <1>1
  <2>2. Holds(all, wider, op.versions, old)
    BY <1>2, <1>10, <2>1
  <2>3. s \in 1 .. Len(old) /\ e \in 1 .. Len(old)
    BY <1>13, <2>1
  <2>4. Whole(old, s, e, op)
    BY ONLY <1>8, <1>9, <2>2, <2>3, AuthorsEdit
  <2> QED
    BY <2>1, <2>4 DEF Whole
<1>15. PICK chars : chars = Spliced(MarkDeletion(b.chars, s + 1 .. e, op.time), s + 1,
                                    Insertion(op.time, op.length))
  OBVIOUS
<1>16. chars \in Seq(Chars) /\ Holds(all, wider, w, chars)
  <2>1. \A o \in all : Observed(b.versions, o.time) => Precedes(o.versions, b.versions)
    BY <1>10 DEF Closed
  <2>2. PICK D : D = DeletedInRange(b.chars, s, e, op.versions)
    OBVIOUS
  <2>3. chars = Spliced(MarkDeletion(b.chars, D, op.time),
                        InsertionPoint(b.chars, s, op.time), Insertion(op.time, op.length))
    BY <1>14, <1>15, <2>2
  <2>4. Precedes(op.versions, b.versions)
    BY <1>2, <1>8
  <2> QED
    BY ONLY <1>1, <1>6, <1>8, <1>9, <1>10, <1>11, <1>12, <2>1, <2>2, <2>3, <2>4, EditHolds
<1>17. b.history = HistoryOf(all, w)
  BY <1>8, <1>9, <1>10, NothingUndone
<1>18. PICK stack : stack = IF joins
         THEN [SubSeq(b.stack, 1, b.current) EXCEPT ![b.current] = @ \cup {b.clock + 1}]
         ELSE Append(SubSeq(b.stack, 1, b.current), {b.clock + 1})
  OBVIOUS
<1>19. PICK c : c = IF joins THEN b.current ELSE b.current + 1
  OBVIOUS
<1>20. StackKept(r, b.clock, b.history, b.stack, b.current)
  BY DEF Kept
<1>21. Stacked(b.stack, b.current, b.clock + 1, stack, c)
  <2>1. b.current \in 1 .. Len(b.stack) /\ b.clock + 1 \in Nat \ {0}
    BY <1>1, <1>20 DEF StackKept
  <2>2. PICK value \in Nat \ {0} : value = b.clock + 1
    BY <2>1
  <2> QED
    BY <1>1, <1>18, <1>19, <2>1, <2>2, StackedIs
<1>22. StackKept(r, b.clock + 1, b.history, stack, c)
  <2>1. \A u \in b.history : u.edit[1] < u.value /\ u.value \in Nat /\ u.edit[1] \in Nat
    <3>1. \A u \in b.history : u.edit \in Times /\ u.value \in Nat
      BY <1>1
    <3>2. \A u \in b.history : u.edit[1] < u.value
      BY <1>8, <1>10 DEF HistoryOf, Issued
    <3> QED
      BY <3>1, <3>2, ReplicaFacts
  <2> QED
    BY <1>1, <1>20, <1>21, <2>1, RecordKept
<1>23. stack \in Seq(SUBSET (Nat \ {0})) /\ c \in Nat
  BY <1>21 DEF Stacked
<1>24. a = [b EXCEPT !.chars = chars, !.clock = b.clock + 1, !.versions = w,
                     !.stack = stack, !.current = c, !.recent = TRUE]
  <2>1. UpdateFragmentsForEdit(b, op) = [b EXCEPT !.chars = chars]
    BY <1>11, <1>12, <1>15 DEF UpdateFragmentsForEdit
  <2>2. Tick(UpdateFragmentsForEdit(b, op), r)
          = [b EXCEPT !.chars = chars, !.clock = b.clock + 1, !.versions = w]
    BY <1>1, <1>2, <1>6, <2>1 DEF Tick, BufferTypes, Lamport
  <2>3. op.time[1] = b.clock + 1
    BY <1>2
  <2> QED
    BY <1>1, <1>18, <1>19, <2>2, <2>3 DEF RecordEdit, BufferTypes
<1>25. /\ a \in BufferTypes /\ a.versions = w /\ a.clock = b.clock + 1 /\ a.deferred = b.deferred
       /\ a.chars = chars /\ a.history = b.history /\ a.stack = stack /\ a.current = c
  <2>1. b.clock + 1 \in Nat /\ b \in BufferTypes
    BY <1>1
  <2>2. PICK clock \in Nat : clock = b.clock + 1
    BY <2>1
  <2>3. a = [b EXCEPT !.chars = chars, !.clock = clock, !.versions = w,
                      !.stack = stack, !.current = c, !.recent = TRUE]
    BY <1>24, <2>2
  <2> QED
    BY ONLY <1>8, <1>16, <1>23, <2>1, <2>2, <2>3 DEF BufferTypes
<1>26. Done(all, wider, r, b, a)
  <2>1. Holds(all, wider, w, a.chars) /\ a.history = HistoryOf(all, w)
        /\ StackKept(r, a.clock, a.history, a.stack, a.current)
    BY <1>16, <1>17, <1>22, <1>25
  <2> QED
    BY ONLY <1>5, <1>6, <1>7, <1>25, <2>1, DoingKeeps
<1> QED
  BY <1>5, <1>7, <1>26

-----------------------------------------------------------------------------
(* Every step keeps the invariant.                                         *)

BudgetTypes == [edits : [Replicas -> Nat], undos : [Replicas -> Nat], copies : Nat]

(* Nobody has observed an operation that is only now issued. *)
LEMMA NobodyHas ==
  ASSUME NEW ops, NEW order, Invariant(ops, order), NEW r \in Replicas, NEW q \in Replicas,
         NEW op, op.time = <<buffers[r].clock + 1, r>>
  PROVE  ~Observed(buffers[q].versions, op.time)
<1>1. /\ Kept(ops, order, q, buffers[q]) /\ Kept(ops, order, r, buffers[r])
      /\ \A o \in ops : Observed(buffers[o.time[2]].versions, o.time)
  BY DEF Invariant
<1>2. PICK v : v = buffers[r].versions
  OBVIOUS
<1>3. PICK w : w = buffers[q].versions
  OBVIOUS
<1>4. PICK clock : clock = buffers[r].clock
  OBVIOUS
<1>5. v \in [Replicas -> Nat] /\ w \in [Replicas -> Nat] /\ clock \in Nat
  BY <1>1, <1>2, <1>3, <1>4, BufferFacts DEF Kept
<1>6. v[r] <= clock
  BY <1>1, <1>2, <1>4 DEF Kept, Closed
<1>7. w[r] = 0 \/ \E o \in ops : o.time = <<w[r], r>>
  BY <1>1, <1>3 DEF Kept, Closed
<1>8. w[r] <= clock
  <2>1. CASE w[r] = 0
    BY <1>5, <2>1
  <2>2. CASE \E o \in ops : o.time = <<w[r], r>>
    <3>1. PICK o \in ops : o.time = <<w[r], r>>
      BY <2>2
    <3>2. o.time[1] = w[r] /\ o.time[2] = r /\ r # BaseReplica
      BY <3>1, ReplicaFacts
    <3>3. v[r] >= w[r]
      BY <1>1, <1>2, <3>2 DEF Observed
    <3> QED
      BY <1>5, <1>6, <3>3
  <2> QED
    BY <1>7, <2>1, <2>2
<1>9. op.time[1] = clock + 1 /\ op.time[2] = r /\ r # BaseReplica
  BY <1>4, ReplicaFacts
<1>10. ~(w[r] >= clock + 1)
  BY <1>5, <1>8
<1> QED
  BY <1>3, <1>9, <1>10 DEF Observed

LEMMA LocalStep ==
  ASSUME NEW ops, NEW order, Invariant(ops, order), NEW r \in Replicas,
         NEW op, NEW wider, Doing(ops, order, r, buffers[r], op, wider),
         NEW a, Done(ops \cup {op}, wider, r, buffers[r], a),
         buffers' = [buffers EXCEPT ![r] = a], Broadcast(r, op), budget' \in BudgetTypes
  PROVE  Invariant(ops \cup {op}, wider)'
<1>1. PICK all : all = ops \cup {op}
  OBVIOUS
<1>2. /\ Issued(ops) /\ Issued(all) /\ Ordered(all, wider) /\ op.time = <<buffers[r].clock + 1, r>>
      /\ op.time[2] = r /\ op \in EditOps \cup UndoOps /\ \A p \in ops : p.time # op.time
      /\ Extends(ops, order, op, wider)
  BY <1>1 DEF Doing, Extends
<1>3. /\ \A q \in Replicas : /\ Kept(ops, order, q, buffers[q])
                             /\ Settled(buffers[q])
                             /\ FromOthers(ops, q, inbox[q])
                             /\ \A o \in ops : Accounted(buffers[q], o) \/ o \in inbox[q]
      /\ \A o \in ops : Observed(buffers[o.time[2]].versions, o.time)
      /\ buffers \in [Replicas -> BufferTypes]
      /\ inbox \in [Replicas -> SUBSET ops]
  BY DEF Invariant
<1>4. /\ Kept(all, wider, r, a) /\ Settled(a) /\ Mine(all, r, a.versions) /\ a \in BufferTypes
      /\ \A o \in all : Accounted(buffers[r], o) => Accounted(a, o)
  BY <1>1 DEF Done, Kept
<1>5. /\ buffers'[r] = a /\ \A q \in Replicas : q # r => buffers'[q] = buffers[q]
      /\ buffers' \in [Replicas -> BufferTypes]
  BY <1>3, <1>4
<1>6. /\ \A q \in Replicas : inbox'[q] = IF q = r THEN inbox[q] ELSE inbox[q] \cup {op}
      /\ inbox' \in [Replicas -> SUBSET all]
  <2>1. inbox' = [q \in Replicas |-> IF q = r THEN inbox[q] ELSE inbox[q] \cup {op}]
    BY DEF Broadcast
  <2>2. \A q \in Replicas : inbox[q] \in SUBSET all /\ inbox[q] \cup {op} \in SUBSET all
    BY <1>1, <1>3
  <2> QED
    BY <2>1, <2>2
<1>7. ASSUME NEW q \in Replicas
      PROVE  Kept(all, wider, q, buffers'[q]) /\ Settled(buffers'[q]) /\ FromOthers(all, q, inbox'[q])
  <2>1. CASE q = r
    <3>1. FromOthers(all, r, inbox'[r])
      BY <1>1, <1>3, <1>6 DEF FromOthers
    <3> QED
      BY <1>4, <1>5, <2>1, <3>1
  <2>2. CASE q # r
    <3>1. ~Observed(buffers[q].versions, op.time)
      BY <1>2, NobodyHas
    <3>2. PICK b : b = buffers[q]
      OBVIOUS
    <3>3. Kept(ops, order, q, b) /\ ~Observed(b.versions, op.time)
      BY <1>3, <3>1, <3>2
    <3>4. Kept(all, wider, q, b)
      BY <1>1, <1>2, <3>3, KeptExtends
    <3>5. FromOthers(all, q, inbox'[q])
      BY <1>1, <1>2, <1>3, <1>6, <2>2 DEF FromOthers
    <3> QED
      BY <1>3, <1>5, <2>2, <3>2, <3>4, <3>5
  <2> QED
    BY <2>1, <2>2
<1>8. \A o \in all : Observed(buffers'[o.time[2]].versions, o.time)
  <2>1. TAKE o \in all
  <2>2. CASE o.time[2] = r
    BY <1>4, <1>5, <2>2 DEF Mine
  <2>3. CASE o.time[2] # r
    <3>1. o \in ops
      BY <1>1, <1>2, <2>3
    <3>2. o.time[2] \in Replicas
      BY <1>2, <3>1, OpFacts, ReplicaFacts DEF Issued
    <3> QED
      BY <1>3, <1>5, <2>3, <3>1, <3>2
  <2> QED
    BY <2>2, <2>3
<1>9. ASSUME NEW q \in Replicas, NEW o \in all
      PROVE  Accounted(buffers'[q], o) \/ o \in inbox'[q]
  <2>1. CASE q = r /\ o = op
    BY <1>2, <1>4, <1>5, <2>1 DEF Mine, Accounted
  <2>2. CASE q = r /\ o # op
    BY <1>1, <1>3, <1>4, <1>5, <1>6, <2>2
  <2>3. CASE q # r
    BY <1>1, <1>3, <1>5, <1>6, <2>3
  <2> QED
    BY <2>1, <2>2, <2>3
<1> QED
  BY <1>1, <1>2, <1>5, <1>6, <1>7, <1>8, <1>9 DEF Invariant, BudgetTypes

LEMMA ReceiveStep ==
  ASSUME NEW ops, NEW order, Invariant(ops, order), NEW r \in Replicas, NEW op \in inbox[r],
         buffers' = [buffers EXCEPT ![r] = ApplyOps(@, <<op>>)],
         inbox' \in [Replicas -> SUBSET ops], \A q \in Replicas : inbox'[q] \subseteq inbox[q],
         \A q \in Replicas : \A o \in inbox[q] : o \in inbox'[q] \/ (q = r /\ o = op),
         budget' \in BudgetTypes
  PROVE  Invariant(ops, order)'
<1>1. /\ Issued(ops) /\ Ordered(ops, order)
      /\ \A q \in Replicas : /\ Kept(ops, order, q, buffers[q])
                             /\ Settled(buffers[q])
                             /\ FromOthers(ops, q, inbox[q])
                             /\ \A o \in ops : Accounted(buffers[q], o) \/ o \in inbox[q]
      /\ \A o \in ops : Observed(buffers[o.time[2]].versions, o.time)
      /\ buffers \in [Replicas -> BufferTypes]
  BY DEF Invariant
<1>2. PICK b : b = buffers[r]
  OBVIOUS
<1>3. PICK a : a = ApplyOps(b, <<op>>)
  OBVIOUS
<1>4. Kept(ops, order, r, b) /\ op \in Others(ops, r)
  BY <1>1, <1>2 DEF FromOthers, Others
<1>5. /\ Kept(ops, order, r, a) /\ Settled(a) /\ Precedes(b.versions, a.versions)
      /\ \A o \in ops : o = op \/ Accounted(b, o) => Accounted(a, o)
  BY <1>1, <1>3, <1>4, ApplyOpsKeeps
<1>6. a \in BufferTypes /\ b \in BufferTypes
      /\ b.versions \in [Replicas -> Nat] /\ a.versions \in [Replicas -> Nat]
  BY <1>4, <1>5, BufferFacts DEF Kept
<1>7. /\ buffers'[r] = a /\ \A q \in Replicas : q # r => buffers'[q] = buffers[q]
      /\ buffers' \in [Replicas -> BufferTypes]
  BY <1>1, <1>2, <1>3, <1>6
<1>8. ASSUME NEW q \in Replicas
      PROVE  Kept(ops, order, q, buffers'[q]) /\ Settled(buffers'[q]) /\ FromOthers(ops, q, inbox'[q])
  BY <1>1, <1>5, <1>7 DEF FromOthers
<1>9. \A o \in ops : Observed(buffers'[o.time[2]].versions, o.time)
  <2>1. TAKE o \in ops
  <2>2. o.time \in Times /\ o.time[2] \in Replicas
    BY <1>1, OpFacts, ReplicaFacts DEF Issued
  <2>3. CASE o.time[2] = r
    <3>1. Observed(b.versions, o.time)
      BY <1>1, <1>2, <2>3
    <3>2. Observed(a.versions, o.time)
      BY <1>5, <1>6, <2>2, <3>1, ObservedGrows
    <3> QED
      BY <1>7, <2>3, <3>2
  <2>4. CASE o.time[2] # r
    BY <1>1, <1>7, <2>2, <2>4
  <2> QED
    BY <2>3, <2>4
<1>10. ASSUME NEW q \in Replicas, NEW o \in ops
       PROVE  Accounted(buffers'[q], o) \/ o \in inbox'[q]
  BY <1>1, <1>2, <1>5, <1>7
<1> QED
  BY <1>1, <1>7, <1>8, <1>9, <1>10 DEF Invariant, BudgetTypes

LEMMA BudgetIs ==
  ASSUME budget \in BudgetTypes, NEW r \in Replicas
  PROVE  /\ budget.edits[r] > 0 => [budget EXCEPT !.edits[r] = @ - 1] \in BudgetTypes
         /\ budget.undos[r] > 0 => [budget EXCEPT !.undos[r] = @ - 1] \in BudgetTypes
         /\ budget.copies > 0 => [budget EXCEPT !.copies = @ - 1] \in BudgetTypes
<1>1. budget.edits \in [Replicas -> Nat] /\ budget.undos \in [Replicas -> Nat] /\ budget.copies \in Nat
  BY DEF BudgetTypes
<1>2. ASSUME budget.edits[r] > 0
      PROVE  [budget EXCEPT !.edits[r] = @ - 1] \in BudgetTypes
  <2>1. [budget.edits EXCEPT ![r] = @ - 1] \in [Replicas -> Nat]
    BY <1>1, <1>2
  <2> QED
    BY <2>1 DEF BudgetTypes
<1>3. ASSUME budget.undos[r] > 0
      PROVE  [budget EXCEPT !.undos[r] = @ - 1] \in BudgetTypes
  <2>1. [budget.undos EXCEPT ![r] = @ - 1] \in [Replicas -> Nat]
    BY <1>1, <1>3
  <2> QED
    BY <2>1 DEF BudgetTypes
<1>4. ASSUME budget.copies > 0
      PROVE  [budget EXCEPT !.copies = @ - 1] \in BudgetTypes
  BY <1>1, <1>4 DEF BudgetTypes
<1> QED
  BY <1>2, <1>3, <1>4

LEMMA EditStep ==
  ASSUME Inv, NEW r \in Replicas, Edit(r)
  PROVE  Inv'
<1>1. PICK ops, order : Invariant(ops, order)
  BY DEF Inv
<1>2. PICK b : b = buffers[r]
  OBVIOUS
<1>3. Issued(ops) /\ Ordered(ops, order) /\ Kept(ops, order, r, b) /\ Settled(b)
      /\ budget \in BudgetTypes
  BY <1>1, <1>2 DEF Invariant, BudgetTypes
<1>4. Mine(ops, r, b.versions)
  BY <1>1, <1>2 DEF Invariant, Mine
<1>5. b.chars \in Seq(Chars)
  BY <1>3, BufferFacts DEF Kept
<1>6. Len(b.chars) >= 1
  <2>1. <<BaseEdit, 0>> \in Placed(ops)
    BY BufferAssumption DEF Placed
  <2>2. Observed(b.versions, <<BaseEdit, 0>>[1])
    BY ReplicaFacts DEF Observed
  <2>3. \E i \in DOMAIN b.chars : Position(b.chars[i]) = <<BaseEdit, 0>>
    BY <1>3, <2>1, <2>2 DEF Kept, Holds
  <2> QED
    BY <1>5, <2>3
<1>7. PICK first \in Visible(b) \cup {Len(b.chars) + 1} :
        \E end \in {i \in Visible(b) : first <= i} \cup {first - 1}, k \in 0 .. MaxInsert,
           joins \in {FALSE, b.recent /\ b.current > 1 /\ b.current = Len(b.stack)} :
          /\ end = first - 1 => k > 0
          /\ LET op == EditOp(b, r, first - 1, end, k) IN
               /\ buffers' = [buffers EXCEPT ![r] =
                    RecordEdit(Tick(UpdateFragmentsForEdit(b, op), r), op.time[1], joins)]
               /\ Broadcast(r, op)
  BY <1>2 DEF Edit
<1>8. PICK end \in {i \in Visible(b) : first <= i} \cup {first - 1}, k \in 0 .. MaxInsert,
           joins \in {FALSE, b.recent /\ b.current > 1 /\ b.current = Len(b.stack)} :
          LET op == EditOp(b, r, first - 1, end, k) IN
               /\ buffers' = [buffers EXCEPT ![r] =
                    RecordEdit(Tick(UpdateFragmentsForEdit(b, op), r), op.time[1], joins)]
               /\ Broadcast(r, op)
  BY <1>7
<1>9. PICK start : start = first - 1
  OBVIOUS
<1>10. PICK op : op = EditOp(b, r, start, end, k)
  OBVIOUS
<1>11. PICK a : a = RecordEdit(Tick(UpdateFragmentsForEdit(b, op), r), op.time[1], joins)
  OBVIOUS
<1>12. buffers' = [buffers EXCEPT ![r] = a] /\ Broadcast(r, op)
  BY <1>8, <1>9, <1>10, <1>11
<1>13. start \in 1 .. Len(b.chars) /\ end \in 1 .. Len(b.chars) /\ k \in Nat
  <2>1. \A i \in Visible(b) : i \in 1 .. Len(b.chars) /\ i > 1
    BY <1>5 DEF Visible, IsVisible
  <2>2. MaxInsert \in Nat /\ Len(b.chars) \in Nat
    BY <1>5, BufferAssumption
  <2>3. first \in Nat /\ first > 1 /\ first <= Len(b.chars) + 1
    BY <1>6, <2>1, <2>2
  <2>4. start \in 1 .. Len(b.chars)
    BY <1>9, <2>2, <2>3
  <2>5. end \in 1 .. Len(b.chars)
    BY <1>9, <2>1, <2>4
  <2> QED
    BY <2>2, <2>4, <2>5
<1>14. joins => b.current = Len(b.stack)
  BY <1>8
<1>15. PICK wider : Doing(ops, order, r, b, op, wider) /\ Done(ops \cup {op}, wider, r, b, a)
  BY ONLY <1>3, <1>4, <1>10, <1>11, <1>13, <1>14, EditDone
<1>16. budget' \in BudgetTypes
  BY <1>3, BudgetIs DEF Edit
<1>17. Invariant(ops \cup {op}, wider)'
  BY <1>1, <1>2, <1>12, <1>15, <1>16, LocalStep
<1> QED
  BY <1>17 DEF Inv

LEMMA ToggleStep ==
  ASSUME Inv, NEW r \in Replicas, NEW i, NEW c, Toggle(r, i, c),
         i \in DOMAIN buffers[r].stack, c \in DOMAIN buffers[r].stack,
         \/ i = buffers[r].current /\ c = buffers[r].current - 1
         \/ i = buffers[r].current + 1 /\ c = buffers[r].current + 1
  PROVE  Inv'
<1>1. PICK ops, order : Invariant(ops, order)
  BY DEF Inv
<1>2. PICK b : b = buffers[r]
  OBVIOUS
<1>3. Issued(ops) /\ Ordered(ops, order) /\ Kept(ops, order, r, b) /\ Settled(b)
      /\ budget \in BudgetTypes
  BY <1>1, <1>2 DEF Invariant, BudgetTypes
<1>4. Mine(ops, r, b.versions)
  BY <1>1, <1>2 DEF Invariant, Mine
<1>5. PICK op : op = [kind |-> "undo", time |-> Lamport(b.clock + 1, r), versions |-> b.versions,
                      edits |-> b.stack[i]]
  OBVIOUS
<1>6. PICK a : a = [UndoOrRedo(Tick(b, r), op.time, op.edits) EXCEPT !.current = c, !.recent = FALSE]
  OBVIOUS
<1>7. buffers' = [buffers EXCEPT ![r] = a] /\ Broadcast(r, op)
  BY <1>2, <1>5, <1>6 DEF Toggle
<1>8. /\ i \in DOMAIN b.stack /\ c \in DOMAIN b.stack
      /\ (i = b.current /\ c = b.current - 1) \/ (i = b.current + 1 /\ c = b.current + 1)
  BY <1>2
<1>9. Doing(ops, order, r, b, op, order) /\ Done(ops \cup {op}, order, r, b, a)
  BY ONLY <1>3, <1>4, <1>5, <1>6, <1>8, ToggleDone
<1>10. budget' \in BudgetTypes
  BY <1>3, BudgetIs DEF Toggle
<1>11. Invariant(ops \cup {op}, order)'
  BY <1>1, <1>2, <1>7, <1>9, <1>10, LocalStep
<1> QED
  BY <1>11 DEF Inv

LEMMA StackFacts ==
  ASSUME Inv, NEW r \in Replicas
  PROVE  /\ buffers[r].stack \in Seq(SUBSET (Nat \ {0}))
         /\ buffers[r].current \in 1 .. Len(buffers[r].stack)
         /\ Len(buffers[r].stack) \in Nat
<1>1. PICK ops, order : Invariant(ops, order)
  BY DEF Inv
<1>2. PICK b : b = buffers[r]
  OBVIOUS
<1>3. Kept(ops, order, r, b)
  BY <1>1, <1>2 DEF Invariant
<1>4. b.stack \in Seq(SUBSET (Nat \ {0})) /\ b.current \in DOMAIN b.stack
  BY <1>3, BufferFacts DEF Kept, StackKept
<1>5. b.current \in 1 .. Len(b.stack) /\ Len(b.stack) \in Nat
  BY <1>4
<1> QED
  BY <1>2, <1>4, <1>5

LEMMA UndoStep ==
  ASSUME Inv, NEW r \in Replicas, Undo(r)
  PROVE  Inv'
<1>1. PICK c : c = buffers[r].current
  OBVIOUS
<1>2. PICK stack : stack = buffers[r].stack
  OBVIOUS
<1>3. c > 1 /\ Toggle(r, c, c - 1)
  BY <1>1 DEF Undo
<1>4. stack \in Seq(SUBSET (Nat \ {0})) /\ c \in 1 .. Len(stack) /\ Len(stack) \in Nat
  BY <1>1, <1>2, StackFacts
<1>5. c \in DOMAIN stack /\ c - 1 \in DOMAIN stack
  BY <1>3, <1>4
<1> QED
  BY <1>1, <1>2, <1>3, <1>5, ToggleStep

LEMMA RedoStep ==
  ASSUME Inv, NEW r \in Replicas, Redo(r)
  PROVE  Inv'
<1>1. PICK c : c = buffers[r].current
  OBVIOUS
<1>2. PICK stack : stack = buffers[r].stack
  OBVIOUS
<1>3. c < Len(stack) /\ Toggle(r, c + 1, c + 1)
  BY <1>1, <1>2 DEF Redo
<1>4. stack \in Seq(SUBSET (Nat \ {0})) /\ c \in 1 .. Len(stack) /\ Len(stack) \in Nat
  BY <1>1, <1>2, StackFacts
<1>5. c + 1 \in DOMAIN stack
  BY <1>3, <1>4
<1> QED
  BY <1>1, <1>2, <1>3, <1>5, ToggleStep

LEMMA DeliverySteps ==
  ASSUME Inv, NEW r \in Replicas, Receive(r) \/ ReceiveAndKeep(r)
  PROVE  Inv'
<1>1. PICK ops, order : Invariant(ops, order)
  BY DEF Inv
<1>2. inbox \in [Replicas -> SUBSET ops] /\ budget \in BudgetTypes
  BY <1>1 DEF Invariant, BudgetTypes
<1>3. CASE Receive(r)
  <2>1. PICK op \in inbox[r] : Take(r, op) /\ buffers' = [buffers EXCEPT ![r] = ApplyOps(@, <<op>>)]
    BY <1>3 DEF Receive
  <2>2. inbox' = [inbox EXCEPT ![r] = @ \ {op}]
    BY <2>1 DEF Take
  <2>3. /\ inbox' \in [Replicas -> SUBSET ops] /\ \A q \in Replicas : inbox'[q] \subseteq inbox[q]
        /\ \A q \in Replicas : \A o \in inbox[q] : o \in inbox'[q] \/ (q = r /\ o = op)
    BY <1>2, <2>2
  <2>4. budget' \in BudgetTypes
    BY <1>2, <1>3 DEF Receive
  <2>5. Invariant(ops, order)'
    BY <1>1, <2>1, <2>3, <2>4, ReceiveStep
  <2> QED
    BY <2>5 DEF Inv
<1>4. CASE ReceiveAndKeep(r)
  <2>1. PICK op \in inbox[r] : buffers' = [buffers EXCEPT ![r] = ApplyOps(@, <<op>>)]
    BY <1>4 DEF ReceiveAndKeep
  <2>2. /\ inbox' \in [Replicas -> SUBSET ops] /\ \A q \in Replicas : inbox'[q] \subseteq inbox[q]
        /\ \A q \in Replicas : \A o \in inbox[q] : o \in inbox'[q] \/ (q = r /\ o = op)
    BY <1>2, <1>4 DEF ReceiveAndKeep
  <2>3. budget' \in BudgetTypes
    BY <1>2, <1>4, BudgetIs DEF ReceiveAndKeep
  <2>4. Invariant(ops, order)'
    BY <1>1, <2>1, <2>2, <2>3, ReceiveStep
  <2> QED
    BY <2>4 DEF Inv
<1> QED
  BY <1>3, <1>4

LEMMA NextKeeps ==
  ASSUME Inv, [Next]_vars
  PROVE  Inv'
<1>1. CASE UNCHANGED vars
  BY <1>1 DEF vars, Inv, Invariant
<1>2. ASSUME NEW r \in Replicas, Edit(r)
      PROVE  Inv'
  BY <1>2, EditStep
<1>3. ASSUME NEW r \in Replicas, Undo(r)
      PROVE  Inv'
  BY <1>3, UndoStep
<1>4. ASSUME NEW r \in Replicas, Redo(r)
      PROVE  Inv'
  BY <1>4, RedoStep
<1>5. ASSUME NEW r \in Replicas, Receive(r) \/ ReceiveAndKeep(r)
      PROVE  Inv'
  BY <1>5, DeliverySteps
<1> QED
  BY <1>1, <1>2, <1>3, <1>4, <1>5 DEF Next

-----------------------------------------------------------------------------
(* The base text keeps it.                                                 *)

BaseOrder == {pq \in (({BaseEdit} \X Nat) \X ({BaseEdit} \X Nat)) :
                pq[1][2] < pq[2][2] /\ pq[2][2] <= BaseLength}

LEMMA BasePlaced ==
  /\ Placed({}) = {p \in {BaseEdit} \X Nat : p[2] <= BaseLength}
  /\ Edits({}) = {} /\ Undos({}) = {}
  /\ \A p \in Placed({}) : p[1] = BaseEdit /\ p[2] \in 0 .. BaseLength /\ p = <<BaseEdit, p[2]>>
  /\ \A p, q \in Placed({}) : Before(BaseOrder, p, q) <=> p[2] < q[2]
<1>1. Edits({}) = {} /\ Undos({}) = {}
  BY DEF Edits, Undos
<1>2. Placed({}) = {p \in {BaseEdit} \X Nat : p[2] <= BaseLength}
  BY <1>1 DEF Placed
<1>3. BaseLength \in Nat
  BY BufferAssumption
<1>4. \A p \in Placed({}) : p[1] = BaseEdit /\ p[2] \in 0 .. BaseLength /\ p = <<BaseEdit, p[2]>>
                            /\ p \in {BaseEdit} \X Nat
  BY <1>2, <1>3
<1>5. \A p, q \in Placed({}) : Before(BaseOrder, p, q) <=> p[2] < q[2]
  <2>1. TAKE p, q \in Placed({})
  <2>2. PICK pq : pq = <<p, q>>
    OBVIOUS
  <2>3. pq[1] = p /\ pq[2] = q /\ pq \in ({BaseEdit} \X Nat) \X ({BaseEdit} \X Nat)
    BY <1>4, <2>2
  <2>4. q[2] <= BaseLength
    BY <1>3, <1>4
  <2> QED
    BY <2>2, <2>3, <2>4 DEF Before, BaseOrder
<1> QED
  BY <1>1, <1>2, <1>4, <1>5

LEMMA NewBufferKept ==
  ASSUME NEW r \in Replicas
  PROVE  Kept({}, BaseOrder, r, NewBuffer) /\ Settled(NewBuffer)
<1>1. PICK chars : chars = <<Char(BaseEdit, 0)>> \o Insertion(BaseEdit, BaseLength)
  OBVIOUS
<1>2. PICK v : v = [x \in Replicas |-> 0]
  OBVIOUS
<1>3. PICK b : b = NewBuffer
  OBVIOUS
<1>4. b = [chars |-> chars, versions |-> v, clock |-> 0, deferred |-> <<>>, history |-> {},
           stack |-> <<{}>>, current |-> 1, recent |-> FALSE]
  BY <1>1, <1>2, <1>3 DEF NewBuffer
<1>5. PICK text : text = Insertion(BaseEdit, BaseLength)
  OBVIOUS
<1>6. PICK head : head = <<Char(BaseEdit, 0)>>
  OBVIOUS
<1>7. /\ BaseLength \in Nat /\ BaseEdit \in Times \cup {BaseEdit} /\ 0 \in Nat
      /\ text \in Seq(Chars) /\ Len(text) = BaseLength
      /\ \A i \in 1 .. BaseLength : Position(text[i]) = <<BaseEdit, i>> /\ text[i].deletions = {}
  BY <1>5, BufferAssumption, InsertionIs
<1>8. Char(BaseEdit, 0) \in Chars /\ Position(Char(BaseEdit, 0)) = <<BaseEdit, 0>>
      /\ Char(BaseEdit, 0).deletions = {}
  BY <1>7, CharFacts
<1>9. head \in Seq(Chars) /\ Len(head) = 1 /\ head[1] = Char(BaseEdit, 0)
  BY <1>6, <1>8
<1>10. /\ chars \in Seq(Chars) /\ Len(chars) = 1 + BaseLength
       /\ \A j \in 1 .. Len(head) : chars[j] = head[j]
       /\ \A j \in 1 .. Len(text) : chars[Len(head) + j] = text[j]
  <2>1. chars = head \o text
    BY <1>1, <1>5, <1>6
  <2>2. /\ chars \in Seq(Chars) /\ Len(chars) = Len(head) + Len(text)
        /\ \A j \in 1 .. Len(head) : chars[j] = head[j]
        /\ \A j \in 1 .. Len(text) : chars[Len(head) + j] = text[j]
    <3>1. PICK S : S = Chars
      OBVIOUS
    <3>2. head \in Seq(S) /\ text \in Seq(S)
      BY <1>7, <1>9, <3>1
    <3>3. /\ chars \in Seq(S) /\ Len(chars) = Len(head) + Len(text)
          /\ \A j \in 1 .. Len(head) : chars[j] = head[j]
          /\ \A j \in 1 .. Len(text) : chars[Len(head) + j] = text[j]
      BY ONLY <2>1, <3>2, ConcatIs
    <3> QED
      BY <3>1, <3>3
  <2> QED
    BY <1>7, <1>9, <2>2
<1>11. \A i \in 1 .. Len(chars) : /\ Position(chars[i]) = <<BaseEdit, i - 1>>
                                  /\ chars[i].deletions = {}
  <2>1. TAKE i \in 1 .. Len(chars)
  <2>2. CASE i = 1
    BY <1>8, <1>9, <1>10, <2>2
  <2>3. CASE i # 1
    <3>1. PICK j : j = i - 1
      OBVIOUS
    <3>2. j \in 1 .. BaseLength /\ i = 1 + j
      BY <1>7, <1>10, <2>3, <3>1
    <3>3. chars[i] = text[j] /\ Position(text[j]) = <<BaseEdit, j>> /\ text[j].deletions = {}
      BY <1>7, <1>9, <1>10, <3>2
    <3> QED
      BY <3>1, <3>3
  <2> QED
    BY <2>2, <2>3
<1>12. b \in BufferTypes
  <2>1. v \in [Replicas -> Nat] /\ <<>> \in Seq(EditOps \cup UndoOps)
        /\ <<{}>> \in Seq(SUBSET (Nat \ {0})) /\ {} \in SUBSET [edit : Times, value : Nat]
    BY <1>2
  <2> QED
    BY <1>4, <1>10, <2>1 DEF BufferTypes
<1>13. Closed({}, v, 0)
  BY <1>2 DEF Closed
<1>14. Holds({}, BaseOrder, v, chars)
  <2>1. \A i \in DOMAIN chars :
          /\ Position(chars[i]) \in Placed({}) /\ Position(chars[i])[1] = BaseEdit
          /\ Position(chars[i])[2] = i - 1
          /\ i \in Nat
    <3>1. TAKE i \in DOMAIN chars
    <3>2. i \in 1 .. Len(chars) /\ i - 1 \in 0 .. BaseLength
      BY <1>7, <1>10
    <3>3. PICK p : p = Position(chars[i])
      OBVIOUS
    <3>4. p = <<BaseEdit, i - 1>>
      BY <1>11, <3>2, <3>3
    <3>5. p \in {BaseEdit} \X Nat /\ p[2] <= BaseLength /\ p[1] = BaseEdit /\ p[2] = i - 1
      BY <1>7, <3>2, <3>4
    <3> QED
      BY <3>2, <3>3, <3>5, BasePlaced
  <2>2. \A t : t = BaseEdit => Observed(v, t)
    BY ReplicaFacts DEF Observed
  <2>3. \A p \in Placed({}) : \E i \in DOMAIN chars : Position(chars[i]) = p
    <3>1. TAKE p \in Placed({})
    <3>2. p[2] \in 0 .. BaseLength /\ p = <<BaseEdit, p[2]>>
      BY BasePlaced
    <3>3. PICK i : i = p[2] + 1
      OBVIOUS
    <3>4. i \in 1 .. Len(chars) /\ i - 1 = p[2] /\ DOMAIN chars = 1 .. Len(chars)
      BY <1>7, <1>10, <3>2, <3>3
    <3> QED
      BY <1>11, <3>2, <3>4
  <2>4. \A i, j \in DOMAIN chars : i < j => Before(BaseOrder, Position(chars[i]), Position(chars[j]))
    BY <2>1, BasePlaced
  <2>5. \A p : DeletionsOf({}, BaseOrder, v, p) = {}
    BY BasePlaced DEF DeletionsOf
  <2>6. \A i \in DOMAIN chars : chars[i].deletions = {}
    BY <1>10, <1>11
  <2> QED
    BY <2>1, <2>2, <2>3, <2>4, <2>5, <2>6 DEF Holds
<1>15. HistoryOf({}, v) = {}
  BY BasePlaced DEF HistoryOf
<1>16. StackKept(r, 0, {}, <<{}>>, 1)
  <2>1. \A w \in Nat : UndosOf({}, <<w, r>>) = {}
    BY DEF UndosOf
  <2>2. DOMAIN <<{}>> = {1} /\ <<{}>>[1] = {}
    OBVIOUS
  <2> QED
    BY <2>1, <2>2, FS_EmptySet DEF StackKept
<1>17. <<>> \in Seq({o \in {} : o.time[2] # r})
  OBVIOUS
<1>18. Kept({}, BaseOrder, r, b)
  BY <1>4, <1>12, <1>13, <1>14, <1>15, <1>16, <1>17 DEF Kept
<1>19. Settled(b)
  <2>1. b.deferred = <<>> /\ DOMAIN b.deferred = {}
    BY <1>4
  <2> QED
    BY <2>1 DEF Settled, InOrder
<1> QED
  BY <1>3, <1>18, <1>19

LEMMA InitKeeps ==
  ASSUME Init
  PROVE  Inv
<1>1. Issued({})
  BY BasePlaced DEF Issued
<1>2. Ordered({}, BaseOrder)
  <2>1. BaseOrder \subseteq Placed({}) \X Placed({})
    <3>1. SUFFICES ASSUME NEW pq \in BaseOrder
                   PROVE  pq \in Placed({}) \X Placed({})
      OBVIOUS
    <3>2. /\ pq[1] \in {BaseEdit} \X Nat /\ pq[2] \in {BaseEdit} \X Nat /\ pq = <<pq[1], pq[2]>>
          /\ pq[1][2] < pq[2][2] /\ pq[2][2] <= BaseLength
      BY DEF BaseOrder
    <3>3. pq[1][2] \in Nat /\ pq[2][2] \in Nat /\ BaseLength \in Nat
      BY <3>2, BufferAssumption
    <3>4. pq[1][2] <= BaseLength
      BY <3>2, <3>3
    <3> QED
      BY <3>2, <3>4, BasePlaced
  <2>2. \A p, q \in Placed({}) : p[2] = q[2] => p = q
    BY BasePlaced
  <2>3. \A p \in Placed({}) : p[2] \in Nat
    BY BasePlaced, BufferAssumption
  <2>4. \A p \in Placed({}) : ~Before(BaseOrder, p, p)
    BY <2>3, BasePlaced
  <2>5. \A p, q, s \in Placed({}) :
          Before(BaseOrder, p, q) /\ Before(BaseOrder, q, s) => Before(BaseOrder, p, s)
    BY <2>3, BasePlaced
  <2>6. \A p, q \in Placed({}) : p = q \/ Before(BaseOrder, p, q) \/ Before(BaseOrder, q, p)
    BY <2>2, <2>3, BasePlaced
  <2> QED
    BY <2>1, <2>4, <2>5, <2>6, BasePlaced DEF Ordered
<1>3. /\ buffers = [r \in Replicas |-> NewBuffer] /\ inbox = [r \in Replicas |-> {}]
      /\ budget \in BudgetTypes
  BY BufferAssumption DEF Init, BudgetTypes
<1>4. \A r \in Replicas : /\ Kept({}, BaseOrder, r, buffers[r]) /\ Settled(buffers[r])
                          /\ FromOthers({}, r, inbox[r])
  BY <1>3, NewBufferKept DEF FromOthers
<1>5. buffers \in [Replicas -> BufferTypes]
  <2>1. \A r \in Replicas : NewBuffer \in BufferTypes
    BY NewBufferKept DEF Kept
  <2> QED
    BY <1>3, <2>1
<1>6. inbox \in [Replicas -> SUBSET {}]
  BY <1>3
<1>7. Invariant({}, BaseOrder)
  BY <1>1, <1>2, <1>3, <1>4, <1>5, <1>6 DEF Invariant, BudgetTypes
<1> QED
  BY <1>7 DEF Inv

(* There are always operations and an order of their texts that explain    *)
(* what every replica holds.                                               *)
THEOREM Explained == Spec => []Inv
<1>1. Init => Inv
  BY InitKeeps
<1>2. Inv /\ [Next]_vars => Inv'
  BY NextKeeps
<1> QED
  BY <1>1, <1>2, PTL DEF Spec

-----------------------------------------------------------------------------
(* What follows from it.                                                   *)

LEMMA ReplicaKept ==
  ASSUME Inv
  PROVE  \E ops, order :
           /\ Invariant(ops, order) /\ Issued(ops) /\ Ordered(ops, order)
           /\ \A r \in Replicas : \A b : b = buffers[r] =>
                /\ b \in BufferTypes /\ b.chars \in Seq(Chars) /\ b.versions \in [Replicas -> Nat]
                /\ Kept(ops, order, r, b) /\ Settled(b)
                /\ Holds(ops, order, b.versions, b.chars)
                /\ Closed(ops, b.versions, b.clock)
                /\ b.history = HistoryOf(ops, b.versions)
<1>1. PICK ops, order : Invariant(ops, order)
  BY DEF Inv
<1>2. ASSUME NEW r \in Replicas, NEW b, b = buffers[r]
      PROVE  /\ b \in BufferTypes /\ b.chars \in Seq(Chars) /\ b.versions \in [Replicas -> Nat]
             /\ Kept(ops, order, r, b) /\ Settled(b)
             /\ Holds(ops, order, b.versions, b.chars)
             /\ Closed(ops, b.versions, b.clock)
             /\ b.history = HistoryOf(ops, b.versions)
  <2>1. Kept(ops, order, r, b) /\ Settled(b)
    BY <1>1, <1>2 DEF Invariant
  <2> QED
    BY <2>1, BufferFacts DEF Kept
<1>3. Issued(ops) /\ Ordered(ops, order)
  BY <1>1 DEF Invariant
<1> QED
  BY <1>1, <1>2, <1>3

LEMMA OperationIs ==
  \A o \in EditOps \cup UndoOps : Operation(o) /\ o.time \in Times
<1>1. \A o \in EditOps : Operation(o)
  BY OpFacts DEF Operation
<1>2. \A o \in UndoOps : Operation(o)
  BY OpFacts DEF Operation
<1> QED
  BY <1>1, <1>2, OpFacts

LEMMA Typed ==
  ASSUME Inv
  PROVE  TypeOK
<1>1. PICK ops, order :
        /\ Invariant(ops, order) /\ Issued(ops) /\ Ordered(ops, order)
        /\ \A r \in Replicas : \A b : b = buffers[r] =>
             /\ b \in BufferTypes /\ b.chars \in Seq(Chars) /\ b.versions \in [Replicas -> Nat]
             /\ Kept(ops, order, r, b) /\ Settled(b)
             /\ Holds(ops, order, b.versions, b.chars)
             /\ Closed(ops, b.versions, b.clock)
             /\ b.history = HistoryOf(ops, b.versions)
  BY ReplicaKept
<1>2. ops \subseteq EditOps \cup UndoOps
  BY <1>1 DEF Issued
<1>3. ASSUME NEW r \in Replicas, NEW b, b = buffers[r]
      PROVE  /\ \A i \in DOMAIN b.chars :
                  /\ Position(b.chars[i]) \in Positions
                  /\ b.chars[i].deletions \subseteq Times
                  /\ \A j \in 1 .. i - 1 : Position(b.chars[i]) # Position(b.chars[j])
             /\ b.versions \in [Replicas -> Nat]
             /\ b.clock \in Nat
             /\ \A i \in DOMAIN b.deferred :
                  /\ Operation(b.deferred[i])
                  /\ i > 1 => ~Later(b.deferred[i - 1].time, b.deferred[i].time)
             /\ \A undo \in b.history : undo.edit \in Times /\ undo.value > undo.edit[1]
             /\ b.stack \in Seq(SUBSET (Nat \ {0})) /\ b.current \in DOMAIN b.stack
             /\ b.recent \in BOOLEAN
             /\ \A op \in inbox[r] : Operation(op) /\ op.time[2] # r
  <2>1. /\ b \in BufferTypes /\ b.chars \in Seq(Chars) /\ b.versions \in [Replicas -> Nat]
        /\ Kept(ops, order, r, b) /\ Settled(b)
        /\ Holds(ops, order, b.versions, b.chars)
        /\ b.history = HistoryOf(ops, b.versions)
    BY <1>1, <1>3
  <2>2. PICK chars : chars = b.chars
    OBVIOUS
  <2>3. PICK v : v = b.versions
    OBVIOUS
  <2>4. /\ \A i \in 1 .. Len(chars) : Position(chars[i]) \in Placed(ops)
        /\ \A i, j \in 1 .. Len(chars) : Position(chars[i]) = Position(chars[j]) => i = j
    <3>1. Issued(ops) /\ Ordered(ops, order) /\ Holds(ops, order, v, chars)
          /\ v \in [Replicas -> Nat] /\ chars \in Seq(Chars)
      BY <1>1, <2>1, <2>2, <2>3
    <3> QED
      BY ONLY <3>1, HoldsFacts
  <2>5. \A p \in Placed(ops) : p \in Positions
    <3>1. \A p \in Placed(ops) : p[1] \in Times \cup {BaseEdit} /\ p[2] \in Nat /\ p = <<p[1], p[2]>>
      BY <1>2, PlacedFacts
    <3> QED
      BY <3>1 DEF Positions
  <2>6. ASSUME NEW i \in DOMAIN chars
        PROVE  /\ Position(chars[i]) \in Positions
               /\ chars[i].deletions \subseteq Times
               /\ \A j \in 1 .. i - 1 : Position(chars[i]) # Position(chars[j])
    <3>1. chars \in Seq(Chars)
      BY <2>1, <2>2
    <3>2. i \in 1 .. Len(chars) /\ chars[i] \in Chars
      BY <3>1
    <3>3. \A j \in 1 .. i - 1 : j \in 1 .. Len(chars) /\ j # i
      BY <3>1, <3>2
    <3> QED
      BY <2>4, <2>5, <3>2, <3>3, CharFacts
  <2>7. PICK l : l = b.deferred
    OBVIOUS
  <2>8. l \in Seq(ops)
    <3>1. l \in Seq({o \in ops : o.time[2] # r})
      BY <2>1, <2>7 DEF Kept
    <3> QED
      BY <3>1
  <2>9. ASSUME NEW i \in DOMAIN l
        PROVE  Operation(l[i]) /\ (i > 1 => ~Later(l[i - 1].time, l[i].time))
    <3>1. l[i] \in ops /\ InOrder(l)
      BY <2>1, <2>7, <2>8 DEF Settled
    <3>2. i > 1 => i - 1 \in DOMAIN l /\ i - 1 < i
      BY <2>8
    <3> QED
      BY <1>2, <3>1, <3>2, OperationIs DEF InOrder
  <2>10. \A u \in b.history : u.edit \in Times /\ u.value > u.edit[1]
    <3>1. TAKE u \in b.history
    <3>2. PICK o \in Undos(ops) : u.value = o.time[1] /\ u.edit[1] \in o.edits /\ u.edit \in Times
      BY <2>1 DEF HistoryOf
    <3>3. u.edit[1] < o.time[1]
      BY <1>1, <3>2 DEF Issued
    <3>4. u.edit[1] \in Nat /\ o.time[1] \in Nat
      BY <1>2, <3>2, OpFacts, ReplicaFacts DEF Undos
    <3> QED
      BY <3>2, <3>3, <3>4
  <2>11. \A op \in inbox[r] : Operation(op) /\ op.time[2] # r
    <3>1. FromOthers(ops, r, inbox[r])
      BY <1>1 DEF Invariant
    <3> QED
      BY <1>2, <3>1, OperationIs DEF FromOthers
  <2>12. b.clock \in Nat /\ b.stack \in Seq(SUBSET (Nat \ {0})) /\ b.recent \in BOOLEAN
         /\ b.current \in DOMAIN b.stack
    BY <2>1, BufferFacts DEF Kept, StackKept
  <2> QED
    BY <2>1, <2>2, <2>6, <2>7, <2>9, <2>10, <2>11, <2>12
<1>4. budget \in [edits : [Replicas -> Nat], undos : [Replicas -> Nat], copies : Nat]
  BY <1>1 DEF Invariant
<1> QED
  BY <1>3, <1>4 DEF TypeOK

(* Two sequences that hold the same positions in the same order are equal. *)
LEMMA OneLeads ==
  ASSUME NEW ops, NEW order, Issued(ops), Ordered(ops, order), NEW v \in [Replicas -> Nat],
         NEW c \in Seq(Chars), Holds(ops, order, v, c), NEW d \in Seq(Chars), Holds(ops, order, v, d)
  PROVE  Len(c) <= Len(d) /\ \A i \in 1 .. Len(c) : c[i] = d[i]
<1>1. /\ \A i \in 1 .. Len(c) : Position(c[i]) \in Placed(ops) /\ Observed(v, Position(c[i])[1])
      /\ \A i, j \in 1 .. Len(c) : i < j <=> Before(order, Position(c[i]), Position(c[j]))
      /\ \A i, j \in 1 .. Len(c) : Position(c[i]) = Position(c[j]) => i = j
  BY HoldsFacts
<1>2. /\ \A i \in 1 .. Len(d) : Position(d[i]) \in Placed(ops) /\ Observed(v, Position(d[i])[1])
      /\ \A i, j \in 1 .. Len(d) : i < j <=> Before(order, Position(d[i]), Position(d[j]))
      /\ \A i, j \in 1 .. Len(d) : Position(d[i]) = Position(d[j]) => i = j
  BY HoldsFacts
<1>3. /\ \A p \in Placed(ops) : Observed(v, p[1]) => \E i \in 1 .. Len(c) : Position(c[i]) = p
      /\ \A p \in Placed(ops) : Observed(v, p[1]) => \E i \in 1 .. Len(d) : Position(d[i]) = p
  <2>1. DOMAIN c = 1 .. Len(c) /\ DOMAIN d = 1 .. Len(d)
    OBVIOUS
  <2> QED
    BY <2>1 DEF Holds
<1>4. PICK n : n = Len(c)
  OBVIOUS
<1>5. PICK m : m = Len(d)
  OBVIOUS
<1>6. n \in Nat /\ m \in Nat
  BY <1>4, <1>5
<1> DEFINE Same(i) == i <= m /\ Position(c[i]) = Position(d[i])
<1>7. PICK bad : bad = {i \in 1 .. n : ~Same(i)}
  OBVIOUS
<1>8. ASSUME bad # {}
      PROVE  FALSE
  <2>1. bad \in SUBSET Nat
    BY <1>6, <1>7
  <2>2. PICK k \in bad : \A i \in bad : k <= i
    BY <1>8, <2>1, LeastNat
  <2>3. k \in 1 .. n /\ ~Same(k)
    BY <1>7
  <2>4. \A i \in 1 .. n : i < k => i \in 1 .. m /\ Position(c[i]) = Position(d[i])
    <3>1. \A i \in 1 .. n : i < k => i \notin bad
      BY <1>6, <2>1, <2>2
    <3> QED
      BY <1>6, <1>7, <3>1
  <2>5. PICK j \in 1 .. m : Position(d[j]) = Position(c[k])
    BY <1>1, <1>3, <1>4, <1>5, <2>3
  <2>6. ~(j < k)
    <3>1. SUFFICES ASSUME j < k
                   PROVE  FALSE
      OBVIOUS
    <3>2. j \in 1 .. n
      BY <1>6, <2>3, <3>1
    <3>3. Position(c[j]) = Position(c[k])
      BY <2>4, <2>5, <3>1, <3>2
    <3> QED
      BY <1>1, <1>4, <2>3, <3>1, <3>2, <3>3
  <2>7. k \in 1 .. m
    BY <1>6, <2>3, <2>6
  <2>8. ~(k < j)
    <3>1. SUFFICES ASSUME k < j
                   PROVE  FALSE
      OBVIOUS
    <3>2. PICK i \in 1 .. n : Position(c[i]) = Position(d[k])
      BY <1>2, <1>3, <1>4, <1>5, <2>7
    <3>3. Before(order, Position(d[k]), Position(d[j]))
      BY <1>2, <1>5, <2>7, <3>1
    <3>4. Before(order, Position(c[i]), Position(c[k]))
      BY <2>5, <3>2, <3>3
    <3>5. i < k
      BY <1>1, <1>4, <2>3, <3>4
    <3>6. Position(d[i]) = Position(d[k]) /\ i \in 1 .. m
      BY <2>4, <3>2, <3>5
    <3>7. i = k
      BY <1>2, <1>5, <2>7, <3>6
    <3> QED
      BY <1>6, <2>3, <3>5, <3>7
  <2>9. j = k
    BY <1>6, <2>3, <2>6, <2>8
  <2> QED
    BY <1>6, <2>3, <2>5, <2>7, <2>9
<1>9. \A i \in 1 .. n : i \in 1 .. m /\ Position(c[i]) = Position(d[i])
  BY <1>6, <1>7, <1>8
<1>10. ASSUME NEW i \in 1 .. n
       PROVE  c[i] = d[i]
  <2>1. i \in 1 .. m /\ Position(c[i]) = Position(d[i])
    BY <1>9
  <2>2. c[i] \in Chars /\ d[i] \in Chars
    BY <1>4, <1>5, <2>1
  <2>3. /\ c[i].deletions = DeletionsOf(ops, order, v, Position(c[i]))
        /\ d[i].deletions = DeletionsOf(ops, order, v, Position(d[i]))
    BY <1>4, <1>5, <2>1 DEF Holds
  <2>4. c[i].deletions = d[i].deletions
    BY <2>1, <2>3
  <2>5. c[i].edit = d[i].edit /\ c[i].offset = d[i].offset
    BY <2>1 DEF Position
  <2>6. \A x, y \in Chars :
          x.edit = y.edit /\ x.offset = y.offset /\ x.deletions = y.deletions => x = y
    BY DEF Chars
  <2> QED
    BY <2>2, <2>4, <2>5, <2>6
<1>11. n <= m
  <2>1. CASE n = 0
    BY <1>6, <2>1
  <2>2. CASE n # 0
    <3>1. n \in 1 .. n
      BY <1>6, <2>2
    <3>2. n \in 1 .. m
      BY <1>9, <3>1
    <3> QED
      BY <1>6, <3>2
  <2> QED
    BY <2>1, <2>2
<1> QED
  BY <1>4, <1>5, <1>10, <1>11

LEMMA SameText ==
  ASSUME Inv
  PROVE  Converges
<1>1. PICK ops, order :
        /\ Invariant(ops, order) /\ Issued(ops) /\ Ordered(ops, order)
        /\ \A r \in Replicas : \A b : b = buffers[r] =>
             /\ b \in BufferTypes /\ b.chars \in Seq(Chars) /\ b.versions \in [Replicas -> Nat]
             /\ Kept(ops, order, r, b) /\ Settled(b)
             /\ Holds(ops, order, b.versions, b.chars)
             /\ Closed(ops, b.versions, b.clock)
             /\ b.history = HistoryOf(ops, b.versions)
  BY ReplicaKept
<1>2. ASSUME NEW r \in Replicas, NEW q \in Replicas, NEW a, a = buffers[r], NEW b, b = buffers[q],
             a.versions = b.versions
      PROVE  a.chars = b.chars /\ a.history = b.history
  <2>1. /\ a.chars \in Seq(Chars) /\ b.chars \in Seq(Chars) /\ a.versions \in [Replicas -> Nat]
        /\ Holds(ops, order, a.versions, a.chars) /\ Holds(ops, order, a.versions, b.chars)
        /\ a.history = b.history
    BY <1>1, <1>2
  <2>2. PICK c : c = a.chars
    OBVIOUS
  <2>3. PICK d : d = b.chars
    OBVIOUS
  <2>4. PICK v : v = a.versions
    OBVIOUS
  <2>5. /\ c \in Seq(Chars) /\ d \in Seq(Chars) /\ v \in [Replicas -> Nat]
        /\ Holds(ops, order, v, c) /\ Holds(ops, order, v, d)
        /\ Issued(ops) /\ Ordered(ops, order)
    BY <1>1, <2>1, <2>2, <2>3, <2>4
  <2>6. /\ Len(c) <= Len(d) /\ \A i \in 1 .. Len(c) : c[i] = d[i]
        /\ Len(d) <= Len(c)
    BY ONLY <2>5, OneLeads
  <2>7. c = d
    BY <2>5, <2>6
  <2> QED
    BY <2>1, <2>2, <2>3, <2>7
<1> QED
  BY <1>2 DEF Converges

LEMMA SameOrder ==
  ASSUME Inv
  PROVE  OrderAgrees
<1>1. PICK ops, order :
        /\ Invariant(ops, order) /\ Issued(ops) /\ Ordered(ops, order)
        /\ \A r \in Replicas : \A b : b = buffers[r] =>
             /\ b \in BufferTypes /\ b.chars \in Seq(Chars) /\ b.versions \in [Replicas -> Nat]
             /\ Kept(ops, order, r, b) /\ Settled(b)
             /\ Holds(ops, order, b.versions, b.chars)
             /\ Closed(ops, b.versions, b.clock)
             /\ b.history = HistoryOf(ops, b.versions)
  BY ReplicaKept
<1>2. ASSUME NEW r \in Replicas, NEW b, b = buffers[r], NEW c, c = b.chars
      PROVE  \A i, j \in DOMAIN c : i < j <=> Before(order, Position(c[i]), Position(c[j]))
  <2>1. PICK v : v = b.versions
    OBVIOUS
  <2>2. /\ c \in Seq(Chars) /\ v \in [Replicas -> Nat] /\ Holds(ops, order, v, c)
        /\ Issued(ops) /\ Ordered(ops, order)
    BY <1>1, <1>2, <2>1
  <2>3. \A i, j \in 1 .. Len(c) : i < j <=> Before(order, Position(c[i]), Position(c[j]))
    BY ONLY <2>2, HoldsFacts
  <2> QED
    BY <2>2, <2>3
<1>3. ASSUME NEW r \in Replicas, NEW q \in Replicas,
             NEW a, a = buffers[r].chars, NEW b, b = buffers[q].chars,
             NEW k \in DOMAIN b, NEW l \in DOMAIN b, k < l,
             NEW i \in DOMAIN a, Position(a[i]) = Position(b[k]),
             NEW j \in DOMAIN a, Position(a[j]) = Position(b[l])
      PROVE  i < j
  <2>1. i < j <=> Before(order, Position(a[i]), Position(a[j]))
    BY <1>2, <1>3
  <2>2. k < l <=> Before(order, Position(b[k]), Position(b[l]))
    BY <1>2, <1>3
  <2> QED
    BY <1>3, <2>1, <2>2
<1> QED
  BY <1>3 DEF OrderAgrees

(* What an edit deleted, at a replica that has applied it. *)
LEMMA DeletedByIs ==
  ASSUME NEW ops, NEW order, Issued(ops), Ordered(ops, order),
         NEW b \in BufferTypes, Closed(ops, b.versions, b.clock), Holds(ops, order, b.versions, b.chars),
         NEW o \in Edits(ops), Observed(b.versions, o.time)
  PROVE  DeletedBy(b, o.time) = {p \in Placed(ops) : Deletes(order, o, p)}
<1>1. b.chars \in Seq(Chars) /\ b.versions \in [Replicas -> Nat]
  BY BufferFacts
<1>2. PICK t : t = o.time
  OBVIOUS
<1>3. o \in ops /\ t \in Times /\ o.versions \in [Replicas -> Nat]
  BY <1>2, OpFacts DEF Edits, Issued
<1>4. \A e \in Edits(ops) : e.time = t => e = o
  BY <1>2, <1>3 DEF Edits, Issued
<1>5. \A p : t \in DeletionsOf(ops, order, b.versions, p) <=> Deletes(order, o, p)
  BY <1>2, <1>3, <1>4 DEF DeletionsOf
<1>6. Precedes(o.versions, b.versions)
  BY <1>3 DEF Closed
<1>7. \A p \in Placed(ops) : Deletes(order, o, p) => Observed(b.versions, p[1])
  <2>1. \A p \in Placed(ops) : p[1] \in Times \cup {BaseEdit}
    BY PlacedFacts DEF Issued
  <2> QED
    BY <1>1, <1>3, <1>6, <2>1, ObservedGrows DEF Deletes
<1>8. \A p : p \in DeletedBy(b, t) <=> p \in Placed(ops) /\ Deletes(order, o, p)
  <2>1. ASSUME NEW p, p \in DeletedBy(b, t)
        PROVE  p \in Placed(ops) /\ Deletes(order, o, p)
    <3>1. PICK i \in DOMAIN b.chars : t \in b.chars[i].deletions /\ p = Position(b.chars[i])
      BY <2>1 DEF DeletedBy
    <3>2. p \in Placed(ops) /\ t \in DeletionsOf(ops, order, b.versions, p)
      BY <3>1 DEF Holds
    <3> QED
      BY <1>5, <3>2
  <2>2. ASSUME NEW p \in Placed(ops), Deletes(order, o, p)
        PROVE  p \in DeletedBy(b, t)
    <3>1. PICK i \in DOMAIN b.chars : Position(b.chars[i]) = p
      BY <1>7, <2>2 DEF Holds
    <3>2. t \in b.chars[i].deletions
      BY <1>5, <2>2, <3>1 DEF Holds
    <3> QED
      BY <3>1, <3>2 DEF DeletedBy
  <2> QED
    BY <2>1, <2>2
<1> QED
  BY <1>2, <1>8

LEMMA SameDeletions ==
  ASSUME Inv
  PROVE  OnlySeenTextDeleted
<1>1. PICK ops, order :
        /\ Invariant(ops, order) /\ Issued(ops) /\ Ordered(ops, order)
        /\ \A r \in Replicas : \A b : b = buffers[r] =>
             /\ b \in BufferTypes /\ b.chars \in Seq(Chars) /\ b.versions \in [Replicas -> Nat]
             /\ Kept(ops, order, r, b) /\ Settled(b)
             /\ Holds(ops, order, b.versions, b.chars)
             /\ Closed(ops, b.versions, b.clock)
             /\ b.history = HistoryOf(ops, b.versions)
  BY ReplicaKept
<1>2. ASSUME NEW r \in Replicas, NEW i \in DOMAIN buffers[r].chars,
             NEW t \in buffers[r].chars[i].deletions
      PROVE  DeletedBy(buffers[r], t) = DeletedBy(buffers[t[2]], t)
  <2>1. PICK b : b = buffers[r]
    OBVIOUS
  <2>2. /\ b \in BufferTypes /\ Closed(ops, b.versions, b.clock)
        /\ Holds(ops, order, b.versions, b.chars)
    BY <1>1, <2>1
  <2>3. t \in DeletionsOf(ops, order, b.versions, Position(b.chars[i])) /\ i \in DOMAIN b.chars
    BY <1>2, <2>1, <2>2 DEF Holds
  <2>4. PICK o \in Edits(ops) : o.time = t /\ Observed(b.versions, o.time)
    BY <2>3 DEF DeletionsOf
  <2>5. o \in ops /\ t \in Times /\ t[2] \in Replicas
    BY <1>1, <2>4, OpFacts, ReplicaFacts DEF Edits, Issued
  <2>6. PICK a : a = buffers[t[2]]
    OBVIOUS
  <2>7. /\ a \in BufferTypes /\ Closed(ops, a.versions, a.clock)
        /\ Holds(ops, order, a.versions, a.chars)
    BY <1>1, <2>5, <2>6
  <2>8. Observed(a.versions, o.time)
    BY <1>1, <2>4, <2>5, <2>6 DEF Invariant
  <2>9. PICK D : D = {p \in Placed(ops) : Deletes(order, o, p)}
    OBVIOUS
  <2>10. DeletedBy(b, o.time) = D
    BY <1>1, <2>2, <2>4, <2>9, DeletedByIs
  <2>11. DeletedBy(a, o.time) = D
    BY <1>1, <2>7, <2>8, <2>9, DeletedByIs
  <2> QED
    BY <2>1, <2>4, <2>6, <2>10, <2>11
<1> QED
  BY <1>2 DEF OnlySeenTextDeleted

LEMMA NoneStarves ==
  ASSUME Inv
  PROVE  NoStarvation
<1>1. PICK ops, order : Invariant(ops, order)
  BY DEF Inv
<1>2. ASSUME NEW r \in Replicas, NEW i \in DOMAIN buffers[r].deferred
      PROVE  ~CanApplyOp([buffers[r] EXCEPT !.deferred = <<>>], buffers[r].deferred[i])
  <2>1. PICK b : b = buffers[r]
    OBVIOUS
  <2>2. PICK o : o = b.deferred[i]
    OBVIOUS
  <2>3. Kept(ops, order, r, b) /\ Settled(b) /\ Issued(ops)
    BY <1>1, <2>1 DEF Invariant
  <2>4. b \in BufferTypes /\ b.deferred \in Seq({e \in ops : e.time[2] # r}) /\ i \in DOMAIN b.deferred
    BY <2>1, <2>3, <1>2 DEF Kept
  <2>5. o \in ops
    BY <2>2, <2>4
  <2>6. o.versions \in [Replicas -> Nat] /\ b.versions \in [Replicas -> Nat]
    BY <2>3, <2>4, <2>5, OpFacts, BufferFacts DEF Issued
  <2>7. Misses(o, b.versions)
    BY <2>2, <2>3, <2>4 DEF Settled
  <2>8. ~Precedes(o.versions, b.versions)
    <3>1. PICK x \in Replicas : b.versions[x] < o.versions[x]
      BY <2>7 DEF Misses
    <3>2. b.versions[x] \in Nat /\ o.versions[x] \in Nat
      BY <2>6
    <3>3. ~(o.versions[x] <= b.versions[x])
      BY <3>1, <3>2
    <3> QED
      BY <3>3 DEF Precedes
  <2>9. PICK a : a = [b EXCEPT !.deferred = <<>>]
    OBVIOUS
  <2>10. a.versions = b.versions
    <3>1. <<>> \in Seq(EditOps \cup UndoOps)
      OBVIOUS
    <3> QED
      BY <2>4, <2>9, <3>1, BufferFacts
  <2>11. ~CanApplyOp(a, o)
    BY <2>8, <2>10 DEF CanApplyOp
  <2> QED
    BY <2>1, <2>2, <2>9, <2>11
<1> QED
  BY <1>2 DEF NoStarvation

LEMMA StackAgrees ==
  ASSUME Inv
  PROVE  StackMatchesHistory
<1>1. PICK ops, order : Invariant(ops, order)
  BY DEF Inv
<1>2. ASSUME NEW r \in Replicas, NEW b, b = buffers[r], NEW i \in DOMAIN b.stack, NEW v \in b.stack[i]
      PROVE  IsEditUndone(b.history, Lamport(v, r)) <=> i > b.current
  <2>1. StackKept(r, b.clock, b.history, b.stack, b.current)
    BY <1>1, <1>2 DEF Invariant, Kept
  <2> QED
    BY <2>1 DEF StackKept, Lamport
<1> QED
  BY <1>2 DEF StackMatchesHistory

(* Buffers, inboxes and operations have their types, no character is held  *)
(* twice, what is deferred is in the order of its timestamps, and no undo  *)
(* precedes the edit it undoes.                                            *)
THEOREM AlwaysTyped == Spec => []TypeOK
BY Explained, Typed, PTL

(* Replicas that have seen the same operations, in whatever order these    *)
(* came, hold the same characters, deletions and undos.                    *)
THEOREM AlwaysConverges == Spec => []Converges
BY Explained, SameText, PTL

(* Two characters stand in the same order in every replica that holds      *)
(* them both: apply_edit's place for a text does not depend on what has    *)
(* arrived before it.                                                      *)
THEOREM AlwaysInOneOrder == Spec => []OrderAgrees
BY Explained, SameOrder, PTL

(* A replica that has applied an edit holds deleted by it just what its    *)
(* author deleted.                                                         *)
THEOREM OnlySeenTextIsDeleted == Spec => []OnlySeenTextDeleted
BY Explained, SameDeletions, PTL

(* apply_ops leaves nothing deferred that could be applied: its one pass   *)
(* over the deferred operations is enough.                                 *)
THEOREM NothingStarves == Spec => []NoStarvation
BY Explained, NoneStarves, PTL

(* The edits in the undo stack's entries above the current one are undone, *)
(* those in the others are not.                                            *)
THEOREM StackAlwaysMatches == Spec => []StackMatchesHistory
BY Explained, StackAgrees, PTL

-----------------------------------------------------------------------------
(* Agreement, once everything has been delivered.                          *)

(* A replica for which nothing is on its way defers nothing, and two such  *)
(* replicas hold the same text.                                            *)
DeliveredAgree ==
  /\ \A r \in Replicas : inbox[r] = {} => buffers[r].deferred = <<>>
  /\ \A r, q \in Replicas :
       inbox[r] = {} /\ inbox[q] = {} =>
         /\ buffers[r].versions = buffers[q].versions
         /\ buffers[r].chars = buffers[q].chars
         /\ buffers[r].history = buffers[q].history

(* Of the operations that wait the earliest would wait for one that does   *)
(* not.                                                                    *)
LEMMA NothingWaits ==
  ASSUME NEW ops, NEW order, Issued(ops), NEW r \in Replicas,
         NEW b, Kept(ops, order, r, b), Settled(b), \A o \in ops : Accounted(b, o)
  PROVE  b.deferred = <<>>
<1>1. PICK l : l = b.deferred
  OBVIOUS
<1>2. PICK v : v = b.versions
  OBVIOUS
<1>3. v \in [Replicas -> Nat] /\ l \in Seq({o \in ops : o.time[2] # r})
  BY <1>1, <1>2, BufferFacts DEF Kept
<1>4. \A i \in DOMAIN l : l[i] \in ops /\ Misses(l[i], v)
  BY <1>1, <1>2, <1>3 DEF Settled
<1>5. \A o \in ops : /\ o.time \in Times /\ o.time[1] \in Nat /\ o.time[2] \in Replicas
                     /\ o.versions \in [Replicas -> Nat]
                     /\ Observed(v, o.time) \/ \E i \in DOMAIN l : l[i] = o
  BY <1>1, <1>2, OpFacts, ReplicaFacts DEF Issued, Accounted
<1>6. PICK S : S = {l[i].time[1] : i \in DOMAIN l}
  OBVIOUS
<1>7. S \in SUBSET Nat
  BY <1>4, <1>5, <1>6
<1>8. ASSUME S # {}
      PROVE  FALSE
  <2>1. PICK n \in S : \A m \in S : n <= m
    BY <1>7, <1>8, LeastNat
  <2>2. PICK i \in DOMAIN l : n = l[i].time[1]
    BY <1>6
  <2>3. PICK o \in ops : o = l[i]
    BY <1>4
  <2>4. PICK x \in Replicas : v[x] < o.versions[x]
    BY <1>4, <2>3 DEF Misses
  <2>5. v[x] \in Nat /\ o.versions[x] \in Nat /\ o.versions[x] # 0 /\ o.versions[x] < o.time[1]
    BY <1>3, <1>5, <2>4 DEF Issued
  <2>6. PICK p \in ops : p.time = <<o.versions[x], x>>
    BY <2>5 DEF Issued
  <2>7. p.time[1] = o.versions[x] /\ p.time[2] = x /\ x # BaseReplica
    BY <2>6, ReplicaFacts
  <2>8. ~Observed(v, p.time)
    BY <2>4, <2>5, <2>7 DEF Observed
  <2>9. PICK j \in DOMAIN l : l[j] = p
    BY <1>5, <2>8
  <2>10. p.time[1] \in S
    BY <1>6, <2>9
  <2> QED
    BY <1>5, <2>1, <2>2, <2>3, <2>5, <2>7, <2>10
<1>9. DOMAIN l = {}
  BY <1>6, <1>8
<1>10. l = <<>>
  BY <1>3, <1>9
<1> QED
  BY <1>1, <1>10

LEMMA OneSeesNoMore ==
  ASSUME NEW ops, NEW v \in [Replicas -> Nat], NEW w \in [Replicas -> Nat],
         NEW clock, Closed(ops, v, clock), \A o \in ops : Observed(w, o.time)
  PROVE  Precedes(v, w)
<1>1. ASSUME NEW x \in Replicas
      PROVE  v[x] <= w[x]
  <2>1. v[x] \in Nat /\ w[x] \in Nat
    OBVIOUS
  <2>2. CASE v[x] = 0
    BY <2>1, <2>2
  <2>3. CASE v[x] # 0
    <3>1. PICK o \in ops : o.time = <<v[x], x>>
      BY <2>3 DEF Closed
    <3>2. o.time[1] = v[x] /\ o.time[2] = x /\ x # BaseReplica
      BY <3>1, ReplicaFacts
    <3>3. w[x] >= v[x]
      BY <3>2 DEF Observed
    <3> QED
      BY <2>1, <3>3
  <2> QED
    BY <2>2, <2>3
<1> QED
  BY <1>1 DEF Precedes

LEMMA Delivered ==
  ASSUME Inv
  PROVE  DeliveredAgree
<1>1. PICK ops, order :
        /\ Invariant(ops, order) /\ Issued(ops) /\ Ordered(ops, order)
        /\ \A r \in Replicas : \A b : b = buffers[r] =>
             /\ b \in BufferTypes /\ b.chars \in Seq(Chars) /\ b.versions \in [Replicas -> Nat]
             /\ Kept(ops, order, r, b) /\ Settled(b)
             /\ Holds(ops, order, b.versions, b.chars)
             /\ Closed(ops, b.versions, b.clock)
             /\ b.history = HistoryOf(ops, b.versions)
  BY ReplicaKept
<1>2. ASSUME NEW r \in Replicas, NEW b, b = buffers[r], inbox[r] = {}
      PROVE  b.deferred = <<>> /\ \A o \in ops : Observed(b.versions, o.time)
  <2>1. \A o \in ops : Accounted(b, o)
    BY <1>1, <1>2 DEF Invariant
  <2>2. Kept(ops, order, r, b) /\ Settled(b)
    BY <1>1, <1>2
  <2>3. b.deferred = <<>>
    BY <1>1, <2>1, <2>2, NothingWaits
  <2>4. DOMAIN b.deferred = {}
    BY <2>3
  <2> QED
    BY <2>1, <2>3, <2>4 DEF Accounted
<1>3. ASSUME NEW r \in Replicas, NEW q \in Replicas, inbox[r] = {}, inbox[q] = {},
             NEW a, a = buffers[r], NEW b, b = buffers[q]
      PROVE  a.versions = b.versions /\ a.chars = b.chars /\ a.history = b.history
  <2>1. PICK v : v = a.versions
    OBVIOUS
  <2>2. PICK w : w = b.versions
    OBVIOUS
  <2>3. /\ v \in [Replicas -> Nat] /\ w \in [Replicas -> Nat]
        /\ Closed(ops, v, a.clock) /\ Closed(ops, w, b.clock)
        /\ \A o \in ops : Observed(v, o.time)
        /\ \A o \in ops : Observed(w, o.time)
    BY <1>1, <1>2, <1>3, <2>1, <2>2
  <2>4. Precedes(v, w) /\ Precedes(w, v)
    BY <2>3, OneSeesNoMore
  <2>5. \A x \in Replicas : v[x] = w[x]
    BY <2>3, <2>4 DEF Precedes
  <2>6. v = w
    BY <2>3, <2>5
  <2>7. a.chars = b.chars /\ a.history = b.history
    BY <1>3, <2>1, <2>2, <2>6, SameText DEF Converges
  <2> QED
    BY <2>1, <2>2, <2>6, <2>7
<1> QED
  BY <1>2, <1>3 DEF DeliveredAgree

(* When nothing is on its way to two replicas, they defer nothing and have *)
(* the same characters with the same undos, which is all TextOf reads,     *)
(* however the operations came: what Agree adds is that this comes about.  *)
THEOREM DeliveredAgrees == Spec => []DeliveredAgree
BY Explained, Delivered, PTL

=============================================================================
