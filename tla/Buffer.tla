------------------------------ MODULE Buffer ------------------------------
(***************************************************************************)
(* The collaborative text buffer (editor/view/model/buffer): replicas of   *)
(* one text that edit and undo locally, tell their peers, and apply the    *)
(* peers' operations in whatever order these arrive.                       *)
(*                                                                         *)
(* The fragment tree is modelled one character at a time: a character      *)
(* knows the edit that inserted it, its offset in that edit's text and the *)
(* edits that deleted it.  Splitting and ordering fragments by FragmentId  *)
(* is then the order of a sequence.                                        *)
(***************************************************************************)
EXTENDS Integers, Sequences, FiniteSets, SequencesExt

CONSTANTS
  Replicas,       \* the peers: positive integers, compared as replica ids are
  BaseLength,     \* characters of the text every replica starts from
  MaxInsert,      \* bound: characters inserted by one edit
  Budgets         \* bounds to start with: what each replica may do, and how
                  \* many operations may be delivered twice

ASSUME BufferAssumption ==
  /\ Replicas \subseteq Nat \ {0} /\ IsFiniteSet(Replicas)
  /\ BaseLength \in Nat /\ MaxInsert \in Nat \ {0}
  /\ Budgets \subseteq [edits : [Replicas -> Nat], undos : [Replicas -> Nat], copies : Nat]

VARIABLES
  buffers,      \* each replica's Buffer
  inbox,        \* operations on their way to each replica
  budget        \* what may still be done

vars == <<buffers, inbox, budget>>

(* Lamport timestamps, ordered by value and then by replica. *)
Lamport(value, replica) == <<value, replica>>
Later(s, t) == s[1] > t[1] \/ (s[1] = t[1] /\ s[2] > t[2])

(* The base text is inserted by a replica of its own at time 0. *)
BaseReplica == 0
BaseEdit == Lamport(0, BaseReplica)

(* A version vector holds the latest time seen of each replica. *)
Observed(versions, t) == t[2] = BaseReplica \/ versions[t[2]] >= t[1]
Precedes(v, w) == \A r \in Replicas : v[r] <= w[r]
ObserveVersion(versions, t) ==
  [versions EXCEPT ![t[2]] = IF t[1] > @ THEN t[1] ELSE @]

Char(edit, offset) == [edit |-> edit, offset |-> offset, deletions |-> {}]
Position(char) == <<char.edit, char.offset>>
Index(chars, position) == CHOOSE i \in DOMAIN chars : Position(chars[i]) = position
Insertion(edit, length) == [i \in 1 .. length |-> Char(edit, i)]

(* An edit is undone when it has been undone an odd number of times. *)
IsEditUndone(history, edit) ==
  Cardinality({undo \in history : undo.edit = edit}) % 2 = 1

IsVisible(b, i) ==
  /\ i > 1
  /\ ~IsEditUndone(b.history, b.chars[i].edit)
  /\ \A d \in b.chars[i].deletions : IsEditUndone(b.history, d)

(* Indices of the visible characters; the text they make. *)
Visible(b) == {i \in DOMAIN b.chars : IsVisible(b, i)}
TextOf(b) ==
  LET shown == SelectSeq([i \in DOMAIN b.chars |-> i], LAMBDA i : IsVisible(b, i))
  IN  [k \in DOMAIN shown |-> Position(b.chars[shown[k]])]

(* The first character is the empty fragment every text starts with. *)
NewBuffer ==
  [chars |-> <<Char(BaseEdit, 0)>> \o Insertion(BaseEdit, BaseLength),
   versions |-> [r \in Replicas |-> 0],
   clock |-> 0,
   deferred |-> <<>>,
   history |-> {},
   stack |-> <<{}>>,
   current |-> 1,
   recent |-> FALSE]

Init ==
  /\ buffers = [r \in Replicas |-> NewBuffer]
  /\ inbox = [r \in Replicas |-> {}]
  /\ budget \in Budgets

Times == Nat \X Replicas
Positions == (Times \cup {BaseEdit}) \X Nat
Operation(op) ==
  /\ op.time \in Times
  /\ op.versions \in [Replicas -> Nat]
  /\ \/ op.kind = "edit" /\ op.start \in Positions /\ op.end \in Positions /\ op.length \in Nat
     \/ op.kind = "undo" /\ op.edits \subseteq Nat \ {0}

(* Type correctness, with what every buffer keeps up: no character twice,  *)
(* deferred operations in the order of their timestamps, no undo recorded  *)
(* before the edit it undoes, and a place in the undo stack that exists.   *)
TypeOK ==
  /\ \A r \in Replicas :
       LET b == buffers[r] IN
         /\ \A i \in DOMAIN b.chars :
              /\ Position(b.chars[i]) \in Positions
              /\ b.chars[i].deletions \subseteq Times
              /\ \A j \in 1 .. i - 1 : Position(b.chars[i]) # Position(b.chars[j])
         /\ b.versions \in [Replicas -> Nat]
         /\ b.clock \in Nat
         /\ \A i \in DOMAIN b.deferred :
              /\ Operation(b.deferred[i])
              /\ i > 1 => ~Later(b.deferred[i - 1].time, b.deferred[i].time)
         /\ \A undo \in b.history : undo.edit \in Times /\ undo.value > undo.edit[1]
         /\ b.stack \in Seq(SUBSET (Nat \ {0})) /\ b.current \in DOMAIN b.stack
         /\ b.recent \in BOOLEAN
         /\ \A op \in inbox[r] : Operation(op) /\ op.time[2] # r
  /\ budget \in [edits : [Replicas -> Nat], undos : [Replicas -> Nat], copies : Nat]

-----------------------------------------------------------------------------
(* Both kinds of edit mark characters deleted and insert a text.           *)

MarkDeletion(chars, deleted, time) ==
  [i \in DOMAIN chars |->
     IF i \in deleted THEN [chars[i] EXCEPT !.deletions = @ \cup {time}] ELSE chars[i]]

Spliced(chars, i, text) == SubSeq(chars, 1, i - 1) \o text \o SubSeq(chars, i, Len(chars))

(* A remote edit's place: after its start, and after the texts inserted    *)
(* there by later edits.                                                   *)
RightAfterStart(chars, start, time) == start + 1
InsertionPoint(chars, start, time) ==
  CHOOSE i \in start + 1 .. Len(chars) + 1 :
    /\ i <= Len(chars) => Later(time, chars[i].edit)
    /\ \A j \in start + 1 .. i - 1 : ~Later(time, chars[j].edit)

EverythingInRange(chars, start, end, versions) == start + 1 .. end
DeletedInRange(chars, start, end, versions) ==
  {i \in start + 1 .. end : Observed(versions, chars[i].edit)}

ApplyEdit(b, op) ==
  LET start == Index(b.chars, op.start)
      end == Index(b.chars, op.end)
      marked == MarkDeletion(b.chars, DeletedInRange(b.chars, start, end, op.versions), op.time)
  IN  [b EXCEPT !.chars = Spliced(marked, InsertionPoint(b.chars, start, op.time),
                                   Insertion(op.time, op.length))]

(* UndoHistory: the undos of each edit.  A second undo is a redo. *)
UndoOrRedo(b, time, values) ==
  [b EXCEPT !.history = @ \cup {[edit |-> Lamport(v, time[2]), value |-> time[1]] : v \in values}]

-----------------------------------------------------------------------------
(* apply_ops *)

Acknowledge(b, time) ==
  [b EXCEPT !.clock = (IF time[1] > @ THEN time[1] ELSE @) + 1,
            !.versions = ObserveVersion(@, time)]

(* An operation already applied is ignored. *)
AppliedAgain(b, op) ==
  Acknowledge(IF op.kind = "edit" THEN ApplyEdit(b, op) ELSE UndoOrRedo(b, op.time, op.edits),
              op.time)
ApplyOp(b, op) == IF Observed(b.versions, op.time) THEN b ELSE AppliedAgain(b, op)

ReplicaDeferred(b, replica) == \E i \in DOMAIN b.deferred : b.deferred[i].time[2] = replica

OnceAnchored(b, op) ==
  /\ ~ReplicaDeferred(b, op.time[2])
  /\ op.kind = "edit" => Observed(b.versions, op.start[1]) /\ Observed(b.versions, op.end[1])
CanApplyOp(b, op) ==
  /\ ~ReplicaDeferred(b, op.time[2])
  /\ op.kind = "edit" => Observed(b.versions, op.start[1]) /\ Observed(b.versions, op.end[1])
  /\ Precedes(op.versions, b.versions)

ExtendUnsorted(b, ops) == [b EXCEPT !.deferred = ops \o @]
Sorted(ops) ==
  LET places == DOMAIN ops
      order == CHOOSE p \in Bijection(places, places) :
        \A i, j \in places : i < j => ~Later(ops[p[i]].time, ops[p[j]].time)
  IN  [i \in places |-> ops[order[i]]]
Extend(b, ops) == [b EXCEPT !.deferred = Sorted(@ \o ops)]

(* Applies what can be applied, in order, and defers the rest. *)
TryOp(done, op) ==
  IF CanApplyOp(done.b, op) THEN [done EXCEPT !.b = ApplyOp(@, op)]
                            ELSE [done EXCEPT !.rest = Append(@, op)]
ApplyOrDefer(b, ops) ==
  LET done == FoldLeft(TryOp, [b |-> b, rest |-> <<>>], ops)
  IN  Extend(done.b, done.rest)

FlushNothing(b) == b
FlushDeferredOps(b) == ApplyOrDefer([b EXCEPT !.deferred = <<>>], b.deferred)

ApplyOps(b, ops) == FlushDeferredOps(ApplyOrDefer(b, ops))

-----------------------------------------------------------------------------
(* Local edits, and the stack that undoes them *)

(* tick: the operation carries the versions of before the tick. *)
Tick(b, r) ==
  [b EXCEPT !.clock = @ + 1, !.versions = ObserveVersion(@, Lamport(b.clock + 1, r))]

Broadcast(r, op) ==
  inbox' = [q \in Replicas |-> IF q = r THEN inbox[q] ELSE inbox[q] \cup {op}]

(* Replace what is visible after start, up to and with end, by k new       *)
(* characters.                                                             *)
EditOp(b, r, start, end, k) ==
  [kind |-> "edit", time |-> Lamport(b.clock + 1, r), versions |-> b.versions,
   start |-> Position(b.chars[start]), end |-> Position(b.chars[end]), length |-> k]

UpdateFragmentsForEdit(b, op) ==
  LET start == Index(b.chars, op.start)
      end == Index(b.chars, op.end)
  IN  [b EXCEPT !.chars = Spliced(MarkDeletion(b.chars, start + 1 .. end, op.time),
                                   start + 1, Insertion(op.time, op.length))]

(* An edit joins the entry on top of the stack when it follows quickly     *)
(* enough and is of the same kind; what had been undone is forgotten.      *)
RecordAfterAll(b, value, joins) ==
  [b EXCEPT !.stack = Append(@, {value}), !.current = Len(b.stack) + 1, !.recent = TRUE]
RecordEdit(b, value, joins) ==
  LET kept == SubSeq(b.stack, 1, b.current) IN
    [b EXCEPT !.stack = IF joins THEN [kept EXCEPT ![b.current] = @ \cup {value}]
                                 ELSE Append(kept, {value}),
              !.current = IF joins THEN @ ELSE @ + 1,
              !.recent = TRUE]

(* An edit starts after every character, visible or not, that precedes the *)
(* first one it replaces, if it replaces any, or the visible character it  *)
(* inserts before, if there is one; it ends with the last one it replaces. *)
Edit(r) ==
  /\ budget.edits[r] > 0
  /\ budget' = [budget EXCEPT !.edits[r] = @ - 1]
  /\ LET b == buffers[r] IN
       \E first \in Visible(b) \cup {Len(b.chars) + 1} :
       \E end \in {i \in Visible(b) : first <= i} \cup {first - 1}, k \in 0 .. MaxInsert,
          joins \in {FALSE, b.recent /\ b.current > 1 /\ b.current = Len(b.stack)} :
         /\ end = first - 1 => k > 0
         /\ LET op == EditOp(b, r, first - 1, end, k) IN
              /\ buffers' = [buffers EXCEPT ![r] =
                   RecordEdit(Tick(UpdateFragmentsForEdit(b, op), r), op.time[1], joins)]
              /\ Broadcast(r, op)

(* local_undo_or_redo of the stack's entry i, leaving the stack at j. *)
Toggle(r, i, j) ==
  LET b == buffers[r]
      op == [kind |-> "undo", time |-> Lamport(b.clock + 1, r), versions |-> b.versions,
             edits |-> b.stack[i]]
  IN  /\ budget.undos[r] > 0
      /\ budget' = [budget EXCEPT !.undos[r] = @ - 1]
      /\ buffers' = [buffers EXCEPT ![r] =
           [UndoOrRedo(Tick(b, r), op.time, op.edits) EXCEPT !.current = j, !.recent = FALSE]]
      /\ Broadcast(r, op)

Undo(r) ==
  LET current == buffers[r].current IN
    current > 1 /\ Toggle(r, current, current - 1)

Redo(r) ==
  LET current == buffers[r].current IN
    current < Len(buffers[r].stack) /\ Toggle(r, current + 1, current + 1)

-----------------------------------------------------------------------------
(* Operations arrive in any order, and some of them twice. *)

Take(r, op) == inbox' = [inbox EXCEPT ![r] = @ \ {op}]

Receive(r) ==
  \E op \in inbox[r] :
    /\ Take(r, op)
    /\ buffers' = [buffers EXCEPT ![r] = ApplyOps(@, <<op>>)]
    /\ UNCHANGED budget

ReceiveAndKeep(r) ==
  /\ budget.copies > 0
  /\ budget' = [budget EXCEPT !.copies = @ - 1]
  /\ \E op \in inbox[r] : buffers' = [buffers EXCEPT ![r] = ApplyOps(@, <<op>>)]
  /\ UNCHANGED inbox

Next == \E r \in Replicas : Edit(r) \/ Undo(r) \/ Redo(r) \/ Receive(r) \/ ReceiveAndKeep(r)

Spec == Init /\ [][Next]_vars

(* What is sent is delivered, and main threads handle what was delivered:  *)
(* a step that takes an operation out of r's inbox is a Receive(r) step.   *)
FairSpec == Spec /\ \A r \in Replicas : WF_inbox(\E op \in inbox[r] : Take(r, op))

-----------------------------------------------------------------------------
(* Replicas that have seen the same operations show the same text, with    *)
(* the same deletions and undos: apply_edit and undo_or_redo commute.      *)
Converges ==
  \A r, q \in Replicas :
    LET a == buffers[r] b == buffers[q] IN
      a.versions = b.versions => a.chars = b.chars /\ a.history = b.history

(* Any two characters that two replicas hold are in the same order in both *)
(* of them, whatever else the replicas have seen.                          *)
OrderAgrees ==
  \A r, q \in Replicas :
    r < q =>
      LET a == buffers[r].chars
          b == buffers[q].chars
          Places(k) == {i \in DOMAIN a : Position(a[i]) = Position(b[k])}
      IN  \A k, l \in DOMAIN b : k < l => \A i \in Places(k), j \in Places(l) : i < j

(* A replica that has applied an edit holds deleted by it just what its    *)
(* author deleted: never a text the author had not seen.                   *)
DeletedBy(b, t) ==
  {Position(b.chars[i]) : i \in {j \in DOMAIN b.chars : t \in b.chars[j].deletions}}
OnlySeenTextDeleted ==
  \A r \in Replicas : \A i \in DOMAIN buffers[r].chars : \A t \in buffers[r].chars[i].deletions :
    DeletedBy(buffers[r], t) = DeletedBy(buffers[t[2]], t)

(* One pass over the deferred operations is enough: apply_ops leaves none  *)
(* behind that could be applied (the comment on DeferredOperations).       *)
NoStarvation ==
  \A r \in Replicas : \A i \in DOMAIN buffers[r].deferred :
    ~CanApplyOp([buffers[r] EXCEPT !.deferred = <<>>], buffers[r].deferred[i])

(* The undo stack and the undo history agree on what is undone: an entry   *)
(* above the current one is, the current one and those below it are not.   *)
StackMatchesHistory ==
  \A r \in Replicas : LET b == buffers[r] IN
    \A i \in DOMAIN b.stack : \A v \in b.stack[i] :
      IsEditUndone(b.history, Lamport(v, r)) <=> i > b.current

(* In the end every replica shows the same text and defers nothing. *)
Agree == <>[](\A r, q \in Replicas :
                 TextOf(buffers[r]) = TextOf(buffers[q]) /\ buffers[r].deferred = <<>>)
=============================================================================
