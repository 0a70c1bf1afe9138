------------------------- MODULE SharedSessionProofs -------------------------
(* The invariant of SharedSession, for any terminal, limit and scenarios,  *)
(* and the lemmas that say which half of it each step keeps.  What follows *)
(* from it is in SharedSessionSafetyProofs.                                *)
EXTENDS SharedSession, SequenceTheorems, FiniteSetTheorems, WellFoundedInduction, TLAPS

-----------------------------------------------------------------------------
(* The invariant.                                                          *)

(* The outputs after the first lo, up to hi.                               *)
Stretch(lo, hi) == [i \in 1 .. hi - lo |-> lo + i]

(* Events cut the output in pieces: event n carries the outputs after the  *)
(* first E[n], up to E[n + 1].                                             *)
Cuts == [0 .. MaxOutput -> 0 .. MaxOutput]
Piece(E, n) == Stretch(E[n], E[n + 1])

Sent(E) == {Event(n, Piece(E, n)) : n \in 0 .. eventNo - 1}
Copies(E) == {[no |-> n, payload |-> Piece(E, n)] : n \in 0 .. eventNo - 1}
Messages(E) == {Start, Resume, End} \cup Sent(E)

SharerReplies ==
  [kind : {"started", "refused", "terminated"}] \cup [kind : {"resumed"}, last : Int]
(* No hello, a first one, or the last event received.                      *)
Hellos == {h \in Int : NoHello <= h}
ViewerReplies ==
  [kind : {"refused", "rejoined", "ended"}] \cup [kind : {"joined"}, latest : Int]
ServerState ==
  [phase : {"none", "live", "ended"}, scrollback : Nat, received : Seq(Seq(Outputs)),
   processed : Nat]
LoopState ==
  [made : BOOLEAN, next : Nat, buffer : UNION {[S -> Seq(Outputs)] : S \in SUBSET EventNos},
   catchingUp : Int, active : BOOLEAN]

SharerTypes ==
  /\ Sharer!TypeOK
  /\ sReplies \in Seq(Seq(SharerReplies)) /\ Len(sReplies) = Len(sSockets)
ViewerTypes ==
  /\ Viewer!TypeOK
  /\ hello \in Seq(Hellos) /\ Len(hello) = Len(vSockets)
  /\ vReplies \in Seq(Seq(ViewerReplies)) /\ Len(vReplies) = Len(vSockets)
  /\ from \in Seq(Nat) /\ Len(from) = Len(vSockets)
ServerTypes == server \in ServerState /\ restarts \in Nat

(* The outputs that have been handed to SendEvents.                        *)
Flushed == Len(output) - Len(batch)

(* What the terminal put out, what of it is batched and what numbered; the *)
(* numbers stop for good where the limit was passed.                       *)
CutInv(E) ==
  /\ E[0] = 0
  /\ eventNo \in 0 .. MaxOutput /\ eventNo <= E[eventNo]
  /\ \A m, n \in 0 .. eventNo : m < n => E[m] < E[n]
TerminalInv ==
  /\ output \in Seq(Outputs) /\ Len(output) <= MaxOutput
  /\ output = Stretch(0, Len(output))
  /\ batch \in Seq(Outputs) /\ Len(batch) <= Len(output)
  /\ batch = Stretch(Flushed, Len(output))
LimitInv(E) ==
  /\ E[eventNo] <= Flushed
  /\ bytes \in Nat /\ bytes <= MaxBytes + Flushed
  /\ bytes <= MaxBytes => bytes = server.scrollback + E[eventNo] /\ E[eventNo] = Flushed
  /\ bytes > MaxBytes => sStage = "Finished"
  /\ server.scrollback + E[eventNo] <= MaxBytes

(* Every copy of an event, wherever it is, is of that piece.               *)
KeptInv(E) ==
  /\ DOMAIN unacked \subseteq 0 .. eventNo - 1
  /\ unacked = [n \in DOMAIN unacked |-> Piece(E, n)]
  /\ server.processed .. eventNo - 1 \subseteq DOMAIN unacked
ReceivedInv(E) ==
  /\ Len(server.received) <= eventNo
  /\ server.received = [i \in 1 .. Len(server.received) |-> Piece(E, i - 1)]
  /\ server.processed <= Len(server.received)
SentInv(E) == up \in Seq(Seq(Messages(E))) /\ Len(up) = Len(sSockets)
MailInv(E) == mail \in Seq(SUBSET Copies(E)) /\ Len(mail) = Len(vSockets)
ShownInv(E) ==
  /\ loop \in LoopState
  /\ DOMAIN loop.buffer \subseteq 0 .. eventNo - 1
  /\ \A n \in DOMAIN loop.buffer : loop.buffer[n] = Piece(E, n)
  /\ loop.next <= eventNo
  /\ screen = Stretch(0, E[loop.next])

(* Messages on their way up: first what opens the socket, then consecutive *)
(* events, the first of which the server can take, and the end.            *)
Consecutive(q) ==
  \A i \in 1 .. Len(q) - 1 :
    /\ q[i].kind = "event"
    /\ q[i + 1].kind = "end" \/ (q[i + 1].kind = "event" /\ q[i + 1].no = q[i].no + 1)
QueueInv(s) ==
  LET q == up[s] IN
  /\ sSockets[s] # "open" => q = <<>>
  /\ Consecutive(q)
  /\ q # <<>> /\ q[1].kind \in {"event", "end"} => server.phase # "none"
  /\ q # <<>> /\ q[1].kind = "event" /\ server.phase = "live" =>
       q[1].no <= Len(server.received)
  /\ sStage # "Finished" => \A i \in 1 .. Len(q) : q[i].kind # "end"
  /\ q # <<>> /\ q[1].kind = "start" => s = 1 /\ server.phase = "none"

(* The socket waits for an answer to the Resume it sent, or has it; at     *)
(* most one socket does unless the session is over, and not while another  *)
(* connection is attempted.  With the answer, nothing is on its way.       *)
Resuming(s) == up[s] # <<>> /\ up[s][1].kind = "resume"
Answers(s) == {i \in 1 .. Len(sReplies[s]) : sReplies[s][i].kind = "resumed"}
AnswerInv(s) ==
  /\ Resuming(s) => Answers(s) = {}
  /\ \A i, j \in Answers(s) : i = j
  /\ Resuming(s) \/ Answers(s) # {} =>
       /\ sStage \in {"Reconnecting", "Finished"}
       /\ sStage = "Reconnecting" => s = Sharer!Newest /\ sAttempt = "none"
  /\ sStage = "Reconnecting" => \A i \in Answers(s) :
       /\ \A r \in 1 .. Len(up) : up[r] = <<>>
       /\ sSockets[s] = "open" => sReplies[s][i].last = Len(server.received) - 1
  /\ server.phase = "none" =>
       \A i \in 1 .. Len(sReplies[s]) : sReplies[s][i].kind \notin {"started", "resumed"}

(* Before the session is created, and while it is on.                      *)
BeforeInv ==
  /\ sSockets = <<>> => server.phase = "none"
  /\ server.phase = "none" => server.received = <<>> /\ sStage \in {"Before", "Finished"}
  /\ sStage = "Before" =>
       /\ server.received = <<>>
       /\ sSockets = <<>> \/ (Len(sSockets) = 1 /\ sAttempt = "none")
       /\ \A s \in 1 .. Len(up) : up[s] # <<>> => up[s][1].kind = "start"
ConnectedInv ==
  /\ sStage = "Connected" => sAttempt = "none"
  /\ sStage = "Connected" /\ Sharer!Writable =>
       LET q == up[Sharer!Newest] IN
       /\ q = <<>> /\ server.phase = "live" => Len(server.received) = eventNo
       /\ q # <<>> => q[Len(q)].kind = "event" /\ q[Len(q)].no = eventNo - 1

UpInv ==
  /\ \A s \in 1 .. Len(sSockets) : QueueInv(s) /\ AnswerInv(s)
  /\ BeforeInv /\ ConnectedInv

(* The viewer joins once, and its terminal is fed only after that.         *)
Joins(t) == hello[t] = Join
Welcomes(t) == {i \in 1 .. Len(vReplies[t]) : vReplies[t][i].kind = "joined"}
ViewerInv ==
  /\ \A t \in 1 .. Len(vSockets) :
       /\ Joins(t) => Welcomes(t) = {}
       /\ \A i, j \in Welcomes(t) : i = j
       /\ Joins(t) \/ Welcomes(t) # {} => t = 1 /\ ~loop.made
  /\ loop.made => vSockets # <<>>
  /\ ~loop.made => loop.next = 0 /\ ~loop.active
  /\ loop.active => loop.catchingUp < loop.next

(* The sharer's half, with the server; and the viewer's.                   *)
SharerHalf(E) ==
  /\ SharerTypes /\ ServerTypes
  /\ CutInv(E) /\ TerminalInv /\ LimitInv(E) /\ KeptInv(E) /\ ReceivedInv(E) /\ SentInv(E)
  /\ UpInv
ViewerHalf(E) == ViewerTypes /\ MailInv(E) /\ ShownInv(E) /\ ViewerInv
Inv == \E E \in Cuts : SharerHalf(E) /\ ViewerHalf(E)

-----------------------------------------------------------------------------
(* Operators of sequences and sets.                                        *)

(* A set of natural numbers that is not empty has a least element.         *)
LEMMA LeastNat ==
  ASSUME NEW S \in SUBSET Nat, S # {}
  PROVE  \E n \in S : \A m \in S : n <= m
<1>1. PICK Less : Less = {pair \in Nat \X Nat : pair[1] < pair[2]}
  OBVIOUS
<1>2. IsWellFoundedOn(Less, Nat)
  BY <1>1, NatLessThanWellFounded DEF OpToRel
<1>3. \A m, n \in Nat : <<m, n>> \in Less <=> m < n
  BY <1>1
<1>4. S \subseteq Nat
  OBVIOUS
<1>5. S # {}
  OBVIOUS
<1>6. \E n \in S : \A m \in S : ~(<<m, n>> \in Less)
  BY ONLY <1>2, <1>4, <1>5, WFMin
<1>7. PICK n \in S : \A m \in S : ~(<<m, n>> \in Less)
  BY <1>6
<1>8. ASSUME NEW m \in S
      PROVE  n <= m
  <2>1. m \in Nat /\ n \in Nat
    BY <1>4
  <2>2. ~(<<m, n>> \in Less)
    BY <1>7
  <2>3. <<m, n>> \in Less <=> m < n
    BY <1>3, <2>1
  <2> QED
    BY <2>1, <2>2, <2>3
<1> QED
  BY <1>8

LEMMA MinIs ==
  ASSUME NEW S \in SUBSET Nat, S # {}
  PROVE  Min(S) \in S /\ \A m \in S : Min(S) <= m
BY LeastNat DEF Min

LEMMA MaxOfTwo ==
  ASSUME NEW a \in Int, NEW b \in Int
  PROVE  Max({a, b}) = IF a >= b THEN a ELSE b
<1>1. PICK m \in {a, b} : \A y \in {a, b} : m >= y
  OBVIOUS
<1>2. Max({a, b}) \in {a, b} /\ \A y \in {a, b} : Max({a, b}) >= y
  BY <1>1 DEF Max
<1> QED
  BY <1>2

(* The first number from lo on that is not in D.                           *)
LEMMA MissingIs ==
  ASSUME NEW D, NEW lo \in Nat, NEW hi \in Nat, NEW x \in lo .. hi, x \notin D,
         NEW end, end = Min({m \in lo .. hi : m \notin D})
  PROVE  end \in lo .. hi /\ end \notin D /\ lo .. end - 1 \subseteq D
<1>1. PICK S : S = {m \in lo .. hi : m \notin D}
  OBVIOUS
<1>2. S \in SUBSET Nat /\ S # {}
  BY <1>1
<1>3. Min(S) \in S /\ \A m \in S : Min(S) <= m
  BY <1>2, MinIs
<1>4. end = Min(S)
  BY <1>1
<1>5. end \in lo .. hi /\ end \notin D
  BY <1>1, <1>3, <1>4
<1>6. ASSUME NEW m \in lo .. end - 1
      PROVE  m \in D
  <2>1. m \in lo .. hi /\ ~(end <= m)
    BY <1>5
  <2> QED
    BY <1>1, <1>3, <1>4, <2>1
<1> QED
  BY <1>5, <1>6

(* A finite set lacks one of any numbers that are more than it has.        *)
LEMMA OneIsMissing ==
  ASSUME NEW D, IsFiniteSet(D), NEW lo \in Nat
  PROVE  Cardinality(D) \in Nat /\ \E x \in lo .. lo + Cardinality(D) : x \notin D
<1>1. Cardinality(D) \in Nat
  BY FS_CardinalityType
<1>2. PICK hi \in Nat : hi = lo + Cardinality(D)
  BY <1>1
<1>3. Cardinality(lo .. hi) = Cardinality(D) + 1
  <2>1. lo \in Int /\ hi \in Int
    BY <1>2
  <2>2. Cardinality(lo .. hi) = IF lo > hi THEN 0 ELSE hi - lo + 1
    BY ONLY <2>1, FS_Interval
  <2> QED
    BY <1>1, <1>2, <2>2
<1>4. ASSUME lo .. hi \subseteq D
      PROVE  FALSE
  <2>1. Cardinality(lo .. hi) <= Cardinality(D)
    BY <1>4, FS_Subset
  <2> QED
    BY <1>1, <1>3, <2>1
<1>5. PICK x \in lo .. hi : x \notin D
  BY <1>4
<1> QED
  BY <1>1, <1>2, <1>5

(* FlattenSeq is the last of the sequences that add one piece at a time.   *)
LEMMA FlattenIs ==
  ASSUME NEW seqs, NEW m \in Nat \ {0}, Len(seqs) = m, NEW F,
         \A i \in 1 .. m : F[i] = IF i = 1 THEN seqs[i] ELSE F[i - 1] \o seqs[i]
  PROVE  FlattenSeq(seqs) = F[m]
<1> DEFINE G == CHOOSE g : g = [i \in 1 .. m |-> IF i = 1 THEN seqs[i] ELSE g[i - 1] \o seqs[i]]
<1>1. G = [i \in 1 .. m |-> IF i = 1 THEN seqs[i] ELSE G[i - 1] \o seqs[i]]
  <2>1. PICK H : H = [i \in 1 .. m |-> F[i]]
    OBVIOUS
  <2>2. \A i \in 1 .. m : H[i] = IF i = 1 THEN seqs[i] ELSE H[i - 1] \o seqs[i]
    <3> TAKE i \in 1 .. m
    <3>1. H[i] = F[i]
      BY <2>1
    <3>2. i # 1 => i - 1 \in 1 .. m /\ H[i - 1] = F[i - 1]
      BY <2>1
    <3> QED
      BY <3>1, <3>2
  <2>3. H = [i \in 1 .. m |-> IF i = 1 THEN seqs[i] ELSE H[i - 1] \o seqs[i]]
    BY <2>1, <2>2
  <2> QED
    BY <2>3
<1>2. FlattenSeq(seqs) = G[m]
  BY DEF FlattenSeq
<1> HIDE DEF G
<1> DEFINE S == {i \in 1 .. m : G[i] # F[i]}
<1>3. ASSUME S # {} PROVE FALSE
  <2>1. S \in SUBSET Nat
    OBVIOUS
  <2>2. PICK i \in S : \A j \in S : i <= j
    BY <1>3, <2>1, LeastNat
  <2>3. i \in 1 .. m /\ G[i] # F[i]
    OBVIOUS
  <2>4. i # 1
    BY <1>1, <2>3
  <2>5. i - 1 \in 1 .. m /\ i - 1 \notin S
    BY <2>2, <2>3, <2>4
  <2>6. G[i] = G[i - 1] \o seqs[i] /\ F[i] = F[i - 1] \o seqs[i]
    BY <1>1, <2>3, <2>4
  <2> QED
    BY <2>3, <2>5, <2>6
<1> QED
  BY <1>2, <1>3

LEMMA StretchType ==
  ASSUME NEW lo \in Nat, NEW hi \in Nat, lo <= hi, hi <= MaxOutput
  PROVE  /\ Stretch(lo, hi) \in Seq(Outputs)
         /\ Len(Stretch(lo, hi)) = hi - lo
         /\ DOMAIN Stretch(lo, hi) = 1 .. hi - lo
         /\ \A i \in 1 .. hi - lo : Stretch(lo, hi)[i] = lo + i
<1>1. hi - lo \in Nat /\ MaxOutput \in Nat
  BY BoundsAssumption
<1> DEFINE e(i) == lo + i
<1>2. \A i \in 1 .. hi - lo : e(i) \in Outputs
  BY <1>1 DEF Outputs
<1>3. Stretch(lo, hi) = [i \in 1 .. hi - lo |-> e(i)]
  BY DEF Stretch
<1> HIDE DEF e
<1>4. Stretch(lo, hi) \in Seq(Outputs)
  BY <1>1, <1>2, <1>3, IsASeq
<1> QED
  BY <1>1, <1>3, <1>4 DEF e

LEMMA StretchConcat ==
  ASSUME NEW lo \in Nat, NEW mid \in Nat, NEW hi \in Nat,
         lo <= mid, mid <= hi, hi <= MaxOutput
  PROVE  Stretch(lo, mid) \o Stretch(mid, hi) = Stretch(lo, hi)
<1>1. PICK a : a = Stretch(lo, mid)
  OBVIOUS
<1>2. PICK b : b = Stretch(mid, hi)
  OBVIOUS
<1>3. PICK c : c = Stretch(lo, hi)
  OBVIOUS
<1>4. MaxOutput \in Nat /\ lo <= hi /\ mid <= MaxOutput
  BY BoundsAssumption
<1>5. a \in Seq(Outputs) /\ Len(a) = mid - lo /\ \A i \in 1 .. mid - lo : a[i] = lo + i
  BY <1>1, <1>4, StretchType
<1>6. b \in Seq(Outputs) /\ Len(b) = hi - mid /\ \A i \in 1 .. hi - mid : b[i] = mid + i
  BY <1>2, <1>4, StretchType
<1>7. c \in Seq(Outputs) /\ Len(c) = hi - lo /\ \A i \in 1 .. hi - lo : c[i] = lo + i
  BY <1>3, <1>4, StretchType
<1>8. /\ a \o b \in Seq(Outputs)
      /\ Len(a \o b) = hi - lo
      /\ \A i \in 1 .. hi - lo :
           (a \o b)[i] = IF i <= mid - lo THEN a[i] ELSE b[i - (mid - lo)]
  <2>1. a \in Seq(Outputs)
    BY <1>5
  <2>2. b \in Seq(Outputs)
    BY <1>6
  <2>3. /\ a \o b \in Seq(Outputs)
        /\ Len(a \o b) = Len(a) + Len(b)
        /\ \A i \in 1 .. Len(a) + Len(b) :
             (a \o b)[i] = IF i <= Len(a) THEN a[i] ELSE b[i - Len(a)]
    BY <2>1, <2>2, ConcatProperties
  <2>4. Len(a) = mid - lo /\ Len(b) = hi - mid /\ Len(a) + Len(b) = hi - lo
    BY <1>5, <1>6
  <2> QED
    BY <2>3, <2>4
<1>9. \A i \in 1 .. hi - lo : (a \o b)[i] = c[i]
  <2> TAKE i \in 1 .. hi - lo
  <2>1. CASE i <= mid - lo
    BY <1>5, <1>7, <1>8, <2>1
  <2>2. CASE ~(i <= mid - lo)
    <3>1. i - (mid - lo) \in 1 .. hi - mid
      BY <2>2
    <3> QED
      BY <1>6, <1>7, <1>8, <2>2, <3>1
  <2> QED
    BY <2>1, <2>2, Zenon
<1>10. a \o b = c
  <2>1. a \o b \in Seq(Outputs) /\ c \in Seq(Outputs) /\ Len(a \o b) = Len(c)
        /\ \A i \in 1 .. Len(a \o b) : (a \o b)[i] = c[i]
    BY <1>7, <1>8, <1>9
  <2> QED
    BY <2>1, SeqEqual
<1> QED
  BY <1>1, <1>2, <1>3, <1>10

(* Consecutive pieces make one stretch of the output.                      *)
LEMMA PiecesFlatten ==
  ASSUME NEW E \in Cuts, NEW a \in Nat, NEW m \in Nat, a + m <= MaxOutput,
         \A k \in a .. a + m - 1 : E[k] <= E[k + 1],
         \A k \in a .. a + m : E[a] <= E[k],
         NEW seqs, seqs = [i \in 1 .. m |-> Piece(E, a + i - 1)]
  PROVE  FlattenSeq(seqs) = Stretch(E[a], E[a + m])
<1>1. \A k \in a .. a + m : E[k] \in Nat /\ E[k] <= MaxOutput
  BY BoundsAssumption DEF Cuts
<1>2. Len(seqs) = m
  <2>1. DOMAIN seqs = 1 .. m
    OBVIOUS
  <2> QED
    BY <2>1
<1>3. CASE m = 0
  <2>1. FlattenSeq(seqs) = seqs
    BY <1>2, <1>3 DEF FlattenSeq
  <2>2. E[a + m] - E[a] = 0
    BY <1>1, <1>3
  <2>3. 1 .. E[a + m] - E[a] = {} /\ 1 .. m = {}
    BY <1>3, <2>2
  <2> QED
    BY <2>1, <2>3 DEF Stretch
<1>4. CASE m > 0
  <2>0. PICK F : F = [i \in 1 .. m |-> Stretch(E[a], E[a + i])]
    OBVIOUS
  <2>1. \A i \in 1 .. m : F[i] = IF i = 1 THEN seqs[i] ELSE F[i - 1] \o seqs[i]
    <3> TAKE i \in 1 .. m
    <3>1. CASE i = 1
      BY <2>0, <3>1 DEF Piece
    <3>2. CASE i # 1
      <4>1. seqs[i] = Stretch(E[a + i - 1], E[a + i])
        <5>1. a + i - 1 + 1 = a + i
          OBVIOUS
        <5> QED
          BY <5>1 DEF Piece
      <4>2. F[i - 1] = Stretch(E[a], E[a + i - 1])
        <5>1. i - 1 \in 1 .. m /\ a + (i - 1) = a + i - 1
          BY <3>2
        <5> QED
          BY <2>0, <5>1
      <4>3. /\ E[a] \in Nat /\ E[a + i - 1] \in Nat /\ E[a + i] \in Nat
            /\ E[a] <= E[a + i - 1] /\ E[a + i - 1] <= E[a + i] /\ E[a + i] <= MaxOutput
        <5>1. a + i - 1 \in a .. a + m - 1 /\ a + i \in a .. a + m /\ a \in a .. a + m
              /\ a + i - 1 \in a .. a + m /\ a + i - 1 + 1 = a + i
          BY <3>2
        <5> QED
          BY <1>1, <5>1
      <4>4. Stretch(E[a], E[a + i - 1]) \o Stretch(E[a + i - 1], E[a + i])
            = Stretch(E[a], E[a + i])
        BY <4>3, StretchConcat
      <4>5. F[i] = Stretch(E[a], E[a + i])
        BY <2>0
      <4> QED
        BY <3>2, <4>1, <4>2, <4>4, <4>5, Zenon
    <3> QED
      BY <3>1, <3>2
  <2>2. F[m] = Stretch(E[a], E[a + m])
    BY <1>4, <2>0
  <2>3. m \in Nat \ {0}
    BY <1>4
  <2>4. FlattenSeq(seqs) = F[m]
    BY ONLY <1>2, <2>1, <2>3, FlattenIs
  <2> QED
    BY <2>2, <2>4
<1> QED
  BY <1>3, <1>4

-----------------------------------------------------------------------------
(* What the steps of one end leave alone.                                  *)

LEMMA SharerHalfKept ==
  ASSUME NEW E \in Cuts, SharerHalf(E),
         UNCHANGED <<sharerVars, eventVars, upVars, serverVars>>
  PROVE  SharerHalf(E)'
<1>1. /\ sStage' = sStage /\ sAttempt' = sAttempt /\ sSockets' = sSockets
      /\ sTx' = sTx /\ sSpare' = sSpare /\ output' = output /\ batch' = batch
      /\ bytes' = bytes /\ eventNo' = eventNo /\ unacked' = unacked
      /\ up' = up /\ sReplies' = sReplies /\ server' = server /\ restarts' = restarts
  BY DEF sharerVars, eventVars, upVars, serverVars
<1>2. SharerTypes' /\ ServerTypes'
  BY <1>1 DEF SharerHalf, SharerTypes, ServerTypes, Sharer!TypeOK
<1>3. CutInv(E)' /\ TerminalInv' /\ LimitInv(E)'
  BY <1>1 DEF SharerHalf, CutInv, TerminalInv, LimitInv, Flushed
<1>4. KeptInv(E)' /\ ReceivedInv(E)' /\ SentInv(E)'
  BY <1>1 DEF SharerHalf, KeptInv, ReceivedInv, SentInv, Messages, Sent
<1>5. BeforeInv' /\ ConnectedInv'
  BY <1>1 DEF SharerHalf, UpInv, BeforeInv, ConnectedInv, Sharer!Writable, Sharer!Newest
<1>6. \A s \in 1 .. Len(sSockets') : QueueInv(s)' /\ AnswerInv(s)'
  BY <1>1 DEF SharerHalf, UpInv, QueueInv, AnswerInv, Resuming, Answers, Sharer!Newest
<1> QED
  BY <1>1, <1>2, <1>3, <1>4, <1>5, <1>6 DEF SharerHalf, UpInv

LEMMA ViewerHalfKept ==
  ASSUME NEW E \in Cuts, ViewerHalf(E), eventNo' = eventNo,
         UNCHANGED <<viewerVars, downVars, loopVars>>
  PROVE  ViewerHalf(E)'
<1>1. /\ vStage' = vStage /\ vAttempt' = vAttempt /\ vSockets' = vSockets
      /\ vTx' = vTx /\ vSpare' = vSpare /\ hello' = hello /\ vReplies' = vReplies
      /\ from' = from /\ mail' = mail /\ loop' = loop /\ screen' = screen
  BY DEF viewerVars, downVars, loopVars
<1>2. ViewerTypes'
  BY <1>1 DEF ViewerHalf, ViewerTypes, Viewer!TypeOK
<1>3. MailInv(E)' /\ ShownInv(E)'
  BY <1>1 DEF ViewerHalf, MailInv, Copies, ShownInv
<1>4. ViewerInv'
  BY <1>1 DEF ViewerHalf, ViewerInv, Joins, Welcomes
<1> QED
  BY <1>2, <1>3, <1>4 DEF ViewerHalf

-----------------------------------------------------------------------------
(* The viewer's half.                                                      *)

(* A connection that waits or is given up keeps its sockets.               *)
LEMMA ViewerWaitsKeeps ==
  ASSUME NEW E \in Cuts, ViewerHalf(E), eventNo' = eventNo, ViewerWaits \/ ViewerLeaves
  PROVE  ViewerHalf(E)'
<1>1. UNCHANGED <<vSockets, downVars, loopVars>>
  BY DEF ViewerWaits, ViewerLeaves, Viewer!AttemptFailed, Viewer!RetriesExhausted, Viewer!Idle,
         Viewer!Reconnect
<1>2. Viewer!TypeOK'
  BY DEF ViewerWaits, ViewerLeaves, Viewer!AttemptFailed, Viewer!RetriesExhausted, Viewer!Idle,
         Viewer!Reconnect, Viewer!CloseWithoutReconnection, Viewer!CloseProxy, Viewer!Aborted,
         ViewerHalf, ViewerTypes, Viewer!TypeOK
<1>3. /\ vSockets' = vSockets /\ hello' = hello /\ vReplies' = vReplies
      /\ from' = from /\ mail' = mail /\ loop' = loop /\ screen' = screen
  BY <1>1 DEF downVars, loopVars
<1>4. ViewerTypes'
  BY <1>2, <1>3 DEF ViewerHalf, ViewerTypes
<1>5. MailInv(E)' /\ ShownInv(E)'
  BY <1>3 DEF ViewerHalf, MailInv, Copies, ShownInv
<1>6. ViewerInv'
  BY <1>3 DEF ViewerHalf, ViewerInv, Joins, Welcomes
<1> QED
  BY <1>4, <1>5, <1>6 DEF ViewerHalf

LEMMA ViewerSocketBreaksKeeps ==
  ASSUME NEW E \in Cuts, ViewerHalf(E), eventNo' = eventNo,
         NEW t \in DOMAIN vSockets, ViewerSocketBreaks(t)
  PROVE  ViewerHalf(E)'
<1>1. /\ vSockets' = [vSockets EXCEPT ![t] = "closed"] /\ hello' = [hello EXCEPT ![t] = NoHello]
      /\ vReplies' = vReplies /\ from' = from /\ mail' = mail /\ loop' = loop /\ screen' = screen
      /\ vStage' = vStage /\ vAttempt' = vAttempt /\ vTx' = vTx /\ vSpare' = vSpare
  BY DEF ViewerSocketBreaks, Viewer!Break, loopVars
<1>2. /\ vSockets \in Seq({"open", "closed", "ended"}) /\ hello \in Seq(Hellos)
      /\ Len(hello) = Len(vSockets) /\ t \in 1 .. Len(vSockets) /\ NoHello \in Hellos
  BY DEF ViewerHalf, ViewerTypes, Viewer!TypeOK, NoHello, Hellos
<1>3. /\ vSockets' \in Seq({"open", "closed", "ended"}) /\ hello' \in Seq(Hellos)
      /\ Len(hello') = Len(hello) /\ Len(vSockets') = Len(vSockets)
      /\ \A u \in 1 .. Len(vSockets) : hello'[u] = IF u = t THEN NoHello ELSE hello[u]
  BY <1>1, <1>2
<1>4. ViewerTypes'
  BY <1>1, <1>2, <1>3 DEF ViewerHalf, ViewerTypes, Viewer!TypeOK
<1>5. MailInv(E)' /\ ShownInv(E)'
  BY <1>1, <1>3 DEF ViewerHalf, MailInv, Copies, ShownInv
<1>6. ViewerInv'
  <2>1. \A u \in 1 .. Len(vSockets) : Joins(u)' => Joins(u)
    BY <1>3 DEF Joins, NoHello, Join
  <2>2. \A u \in 1 .. Len(vSockets) : Welcomes(u)' = Welcomes(u)
    BY <1>1 DEF Welcomes
  <2>3. vSockets # <<>> => vSockets' # <<>>
    BY <1>2, <1>3
  <2> QED
    BY <1>1, <1>3, <2>1, <2>2, <2>3 DEF ViewerHalf, ViewerInv
<1> QED
  BY <1>4, <1>5, <1>6 DEF ViewerHalf

(* A set of answers only shrinks when the stream is emptied.               *)
LEMMA ViewerStreamEndedKeeps ==
  ASSUME NEW E \in Cuts, ViewerHalf(E), eventNo' = eventNo,
         NEW t \in DOMAIN vSockets, ViewerStreamEnded(t)
  PROVE  ViewerHalf(E)'
<1>1. /\ vSockets' = [vSockets EXCEPT ![t] = "ended"] /\ hello' = hello
      /\ vReplies' = [vReplies EXCEPT ![t] = <<>>] /\ from' = from
      /\ mail' = [mail EXCEPT ![t] = {}] /\ loop' = loop /\ screen' = screen
  BY DEF ViewerStreamEnded, Viewer!StreamEnded, loopVars
<1>2. /\ vSockets \in Seq({"open", "closed", "ended"}) /\ t \in 1 .. Len(vSockets)
      /\ vReplies \in Seq(Seq(ViewerReplies)) /\ Len(vReplies) = Len(vSockets)
      /\ mail \in Seq(SUBSET Copies(E)) /\ Len(mail) = Len(vSockets)
  BY DEF ViewerHalf, ViewerTypes, Viewer!TypeOK, MailInv
<1>3. <<>> \in Seq(ViewerReplies) /\ {} \in SUBSET Copies(E)
  OBVIOUS
<1>4. /\ vSockets' \in Seq({"open", "closed", "ended"}) /\ Len(vSockets') = Len(vSockets)
      /\ vReplies' \in Seq(Seq(ViewerReplies)) /\ Len(vReplies') = Len(vReplies)
      /\ mail' \in Seq(SUBSET Copies(E)) /\ Len(mail') = Len(mail)
      /\ \A u \in 1 .. Len(vSockets) : vReplies'[u] = IF u = t THEN <<>> ELSE vReplies[u]
  BY <1>1, <1>2, <1>3
<1>5. vStage' \in {"Before", "Connected", "Reconnecting", "Finished"}
      /\ vAttempt' \in {"none", "first", "retry"} /\ vTx' \in BOOLEAN /\ vSpare' \in Nat
  BY DEF ViewerStreamEnded, Viewer!StreamEnded, Viewer!Reconnect, Viewer!CloseProxy,
         Viewer!Aborted, ViewerHalf, ViewerTypes, Viewer!TypeOK
<1>6. ViewerTypes'
  BY <1>1, <1>2, <1>4, <1>5 DEF ViewerHalf, ViewerTypes, Viewer!TypeOK
<1>7. MailInv(E)' /\ ShownInv(E)'
  <2>1. Copies(E)' = Copies(E)
    BY DEF Copies
  <2> QED
    BY <1>1, <1>2, <1>4, <2>1 DEF ViewerHalf, MailInv, ShownInv
<1>8. ViewerInv'
  <2>1. \A u \in 1 .. Len(vSockets) : (Joins(u)' <=> Joins(u))
    BY <1>1 DEF Joins
  <2>2. \A u \in 1 .. Len(vSockets) : Welcomes(u)' \subseteq Welcomes(u)
    BY <1>4 DEF Welcomes
  <2>3. vSockets # <<>> => vSockets' # <<>>
    BY <1>2, <1>4
  <2> QED
    BY <1>1, <1>4, <2>1, <2>2, <2>3 DEF ViewerHalf, ViewerInv
<1> QED
  BY <1>6, <1>7, <1>8 DEF ViewerHalf

LEMMA ServerAdmitsKeeps ==
  ASSUME NEW E \in Cuts, SharerHalf(E), ViewerHalf(E), eventNo' = eventNo,
         NEW t \in DOMAIN vSockets, ServerAdmits(t)
  PROVE  ViewerHalf(E)'
<1>1. PICK answer \in ViewerReplies :
        /\ vReplies' = [vReplies EXCEPT ![t] = Append(@, answer)]
        /\ answer.kind = "joined" => hello[t] = Join
  <2>1. Latest \in Int
    BY DEF Latest, SharerHalf, ServerTypes, ServerState
  <2>2. Reply("refused") \in ViewerReplies /\ Reply("rejoined") \in ViewerReplies
        /\ Joined(Latest) \in ViewerReplies
    BY <2>1 DEF Reply, Joined, ViewerReplies
  <2>3. Reply("refused").kind = "refused" /\ Reply("rejoined").kind = "rejoined"
    BY DEF Reply
  <2>4. CASE server.phase # "live"
    BY <2>2, <2>3, <2>4 DEF ServerAdmits
  <2>5. CASE server.phase = "live" /\ hello[t] = Join
    BY <2>2, <2>5 DEF ServerAdmits
  <2>6. CASE server.phase = "live" /\ hello[t] # Join
    BY <2>2, <2>3, <2>6 DEF ServerAdmits
  <2> QED
    BY <2>4, <2>5, <2>6
<1>2. PICK n : from' = [from EXCEPT ![t] = n] /\ n = IF hello[t] = Join THEN 0 ELSE hello[t] + 1
  BY DEF ServerAdmits
<1>3. /\ hello' = [hello EXCEPT ![t] = NoHello] /\ hello[t] # NoHello
      /\ vSockets' = vSockets /\ vStage' = vStage /\ vAttempt' = vAttempt /\ vTx' = vTx
      /\ vSpare' = vSpare /\ mail' = mail /\ loop' = loop /\ screen' = screen
  BY DEF ServerAdmits, viewerVars, loopVars
<1>4. /\ hello \in Seq(Hellos) /\ Len(hello) = Len(vSockets) /\ t \in 1 .. Len(vSockets)
      /\ vReplies \in Seq(Seq(ViewerReplies)) /\ Len(vReplies) = Len(vSockets)
      /\ from \in Seq(Nat) /\ Len(from) = Len(vSockets) /\ NoHello \in Hellos
  BY DEF ViewerHalf, ViewerTypes, Viewer!TypeOK, NoHello, Hellos
<1>5. n \in Nat
  <2>1. hello[t] \in Int /\ hello[t] >= -3 /\ hello[t] # -3
    BY <1>3, <1>4 DEF Hellos, NoHello
  <2>2. hello[t] # Join => hello[t] >= -1
    BY <2>1 DEF Join
  <2> QED
    BY <1>2, <2>1, <2>2
<1>6. PICK answers : answers = Append(vReplies[t], answer)
  OBVIOUS
<1>7. vReplies[t] \in Seq(ViewerReplies)
  BY <1>4
<1>8. /\ answers \in Seq(ViewerReplies) /\ Len(answers) = Len(vReplies[t]) + 1
      /\ answers[Len(answers)] = answer
      /\ \A i \in 1 .. Len(vReplies[t]) : answers[i] = vReplies[t][i]
  BY <1>6, <1>7
<1>9. vReplies' = [vReplies EXCEPT ![t] = answers]
  BY <1>1, <1>6
<1>10. /\ hello' \in Seq(Hellos) /\ Len(hello') = Len(hello)
       /\ from' \in Seq(Nat) /\ Len(from') = Len(from)
       /\ vReplies' \in Seq(Seq(ViewerReplies)) /\ Len(vReplies') = Len(vReplies)
       /\ \A u \in 1 .. Len(vSockets) : hello'[u] = IF u = t THEN NoHello ELSE hello[u]
       /\ \A u \in 1 .. Len(vSockets) : vReplies'[u] = IF u = t THEN answers ELSE vReplies[u]
  BY <1>2, <1>3, <1>4, <1>5, <1>8, <1>9
<1>11. ViewerTypes'
  BY <1>3, <1>4, <1>10 DEF ViewerHalf, ViewerTypes, Viewer!TypeOK
<1>12. MailInv(E)' /\ ShownInv(E)'
  BY <1>3 DEF ViewerHalf, MailInv, Copies, ShownInv
<1>13. ViewerInv'
  <2>1. \A u \in 1 .. Len(vSockets) : u # t => (Joins(u)' <=> Joins(u)) /\ Welcomes(u)' = Welcomes(u)
    BY <1>10 DEF Joins, Welcomes
  <2>2. ~Joins(t)'
    BY <1>4, <1>10 DEF Joins, NoHello, Join
  <2>3. Welcomes(t)' = {i \in 1 .. Len(answers) : answers[i].kind = "joined"}
    BY <1>4, <1>10 DEF Welcomes
  <2>4. Welcomes(t)' \subseteq Welcomes(t) \cup {Len(answers)}
    BY <1>7, <1>8, <2>3 DEF Welcomes
  <2>5. ASSUME Welcomes(t)' # {} /\ Welcomes(t)' # Welcomes(t)
        PROVE  Joins(t) /\ Welcomes(t)' = {Len(answers)}
    <3>1. Joins(t)
      <4>1. answer.kind # "joined" => Welcomes(t)' = Welcomes(t)
        BY <1>7, <1>8, <2>3 DEF Welcomes
      <4> QED
        BY <1>1, <2>5, <4>1 DEF Joins
    <3>2. Welcomes(t) = {}
      BY <1>4, <3>1 DEF ViewerHalf, ViewerInv
    <3> QED
      BY <2>4, <2>5, <3>1, <3>2
  <2>6. \A i, j \in Welcomes(t)' : i = j
    BY <1>4, <2>5 DEF ViewerHalf, ViewerInv
  <2>7. Welcomes(t)' # {} => t = 1 /\ ~loop.made
    BY <1>4, <2>5 DEF ViewerHalf, ViewerInv
  <2> QED
    BY <1>3, <2>1, <2>2, <2>6, <2>7 DEF ViewerHalf, ViewerInv
<1> QED
  BY <1>11, <1>12, <1>13 DEF ViewerHalf

LEMMA ServerSendsKeeps ==
  ASSUME NEW E \in Cuts, SharerHalf(E), ViewerHalf(E), eventNo' = eventNo,
         NEW t \in DOMAIN vSockets, ServerSends(t)
  PROVE  ViewerHalf(E)'
<1>1. PICK copy : copy = [no |-> from[t], payload |-> server.received[from[t] + 1]]
  OBVIOUS
<1>2. /\ mail' = [mail EXCEPT ![t] = @ \cup {copy}] /\ from' = [from EXCEPT ![t] = @ + 1]
      /\ from[t] < Len(server.received)
      /\ vSockets' = vSockets /\ vStage' = vStage /\ vAttempt' = vAttempt /\ vTx' = vTx
      /\ vSpare' = vSpare /\ hello' = hello /\ vReplies' = vReplies
      /\ loop' = loop /\ screen' = screen
  BY <1>1 DEF ServerSends, Sendable, viewerVars, loopVars
<1>3. /\ t \in 1 .. Len(vSockets) /\ from \in Seq(Nat) /\ Len(from) = Len(vSockets)
      /\ mail \in Seq(SUBSET Copies(E)) /\ Len(mail) = Len(vSockets)
  BY DEF ViewerHalf, ViewerTypes, Viewer!TypeOK, MailInv
<1>4. from[t] \in Nat /\ mail[t] \subseteq Copies(E)
  BY <1>3
<1>5. copy \in Copies(E)
  <2>1. /\ server.received = [i \in 1 .. Len(server.received) |-> Piece(E, i - 1)]
        /\ Len(server.received) \in Nat /\ Len(server.received) <= eventNo /\ eventNo \in Nat
    BY DEF SharerHalf, ReceivedInv, ServerTypes, ServerState, CutInv
  <2>2. from[t] + 1 \in 1 .. Len(server.received) /\ from[t] + 1 - 1 = from[t]
    BY <1>2, <1>4, <2>1
  <2>3. server.received[from[t] + 1] = Piece(E, from[t])
    <3>1. PICK r, n, m : r = server.received /\ n = from[t] + 1 /\ m = Len(server.received)
      OBVIOUS
    <3>2. r = [i \in 1 .. m |-> Piece(E, i - 1)] /\ n \in 1 .. m
      BY <2>1, <2>2, <3>1
    <3>3. r[n] = Piece(E, n - 1)
      BY <3>2
    <3>4. n - 1 = from[t]
      BY <1>4, <3>1
    <3> QED
      BY <3>1, <3>3, <3>4, Zenon
  <2>4. from[t] \in 0 .. eventNo - 1
    BY <1>2, <1>4, <2>1
  <2> QED
    BY <1>1, <2>3, <2>4 DEF Copies
<1>6. /\ from' \in Seq(Nat) /\ Len(from') = Len(from)
      /\ mail' \in Seq(SUBSET Copies(E)) /\ Len(mail') = Len(mail)
  <2>1. mail[t] \cup {copy} \in SUBSET Copies(E) /\ from[t] + 1 \in Nat
    BY <1>4, <1>5
  <2> QED
    BY <1>2, <1>3, <2>1
<1>7. ViewerTypes'
  BY <1>2, <1>3, <1>6 DEF ViewerHalf, ViewerTypes, Viewer!TypeOK
<1>8. MailInv(E)' /\ ShownInv(E)'
  <2>1. Copies(E)' = Copies(E)
    BY DEF Copies
  <2> QED
    BY <1>2, <1>3, <1>6, <2>1 DEF ViewerHalf, MailInv, ShownInv
<1>9. ViewerInv'
  BY <1>2 DEF ViewerHalf, ViewerInv, Joins, Welcomes
<1> QED
  BY <1>7, <1>8, <1>9 DEF ViewerHalf

LEMMA ViewerOpenedKeeps ==
  ASSUME NEW E \in Cuts, ViewerHalf(E), eventNo' = eventNo, ViewerOpened
  PROVE  ViewerHalf(E)'
<1>1. /\ vStage' = vStage /\ vAttempt' = "none" /\ vSpare' \in Nat
      /\ loop' = loop /\ screen' = screen
  BY DEF ViewerOpened, Viewer!Opened, loopVars, ViewerHalf, ViewerTypes, Viewer!TypeOK
<1>2. /\ vSockets \in Seq({"open", "closed", "ended"})
      /\ hello \in Seq(Hellos) /\ Len(hello) = Len(vSockets)
      /\ vReplies \in Seq(Seq(ViewerReplies)) /\ Len(vReplies) = Len(vSockets)
      /\ from \in Seq(Nat) /\ Len(from) = Len(vSockets)
      /\ mail \in Seq(SUBSET Copies(E)) /\ Len(mail) = Len(vSockets)
  BY DEF ViewerHalf, ViewerTypes, Viewer!TypeOK, MailInv
<1>3. loop \in LoopState /\ LastReceived \in Hellos /\ LastReceived # Join /\ Join \in Hellos
  BY DEF ViewerHalf, ShownInv, LoopState, LastReceived, Hellos, Join, NoHello
<1>4. Copies(E)' = Copies(E)
  BY DEF Copies
<1>5. CASE vSockets' = vSockets
  <2>1. vTx' = vTx /\ UNCHANGED downVars
    BY <1>2, <1>5 DEF ViewerOpened, Viewer!Opened
  <2>2. hello' = hello /\ vReplies' = vReplies /\ from' = from /\ mail' = mail
    BY <2>1 DEF downVars
  <2>3. ViewerTypes'
    BY <1>1, <1>5, <2>1, <2>2 DEF ViewerHalf, ViewerTypes, Viewer!TypeOK
  <2>4. MailInv(E)' /\ ShownInv(E)'
    BY <1>1, <1>4, <1>5, <2>2 DEF ViewerHalf, MailInv, ShownInv
  <2>5. ViewerInv'
    BY <1>1, <1>5, <2>2 DEF ViewerHalf, ViewerInv, Joins, Welcomes
  <2> QED
    BY <2>3, <2>4, <2>5 DEF ViewerHalf
<1>6. CASE vSockets' # vSockets
  <2>1. vSockets' = Append(vSockets, "open") /\ vTx' = TRUE
    BY <1>6 DEF ViewerOpened, Viewer!Opened
  <2>2. PICK h : h = IF vSockets = <<>> THEN Join ELSE LastReceived
    OBVIOUS
  <2>3. h \in Hellos /\ (h = Join => vSockets = <<>>)
    BY <1>3, <2>2
  <2>4. Len(vSockets') > Len(vSockets)
    BY <1>2, <2>1
  <2>5. /\ hello' = Append(hello, h) /\ vReplies' = Append(vReplies, <<>>)
        /\ from' = Append(from, 0) /\ mail' = Append(mail, {})
    BY <2>2, <2>4 DEF ViewerOpened
  <2>6. <<>> \in Seq(ViewerReplies) /\ {} \in SUBSET Copies(E) /\ 0 \in Nat
    OBVIOUS
  <2>7. /\ vSockets' \in Seq({"open", "closed", "ended"}) /\ Len(vSockets') = Len(vSockets) + 1
        /\ hello' \in Seq(Hellos) /\ Len(hello') = Len(vSockets) + 1
        /\ vReplies' \in Seq(Seq(ViewerReplies)) /\ Len(vReplies') = Len(vSockets) + 1
        /\ from' \in Seq(Nat) /\ Len(from') = Len(vSockets) + 1
        /\ mail' \in Seq(SUBSET Copies(E)) /\ Len(mail') = Len(vSockets) + 1
    BY <1>2, <2>1, <2>3, <2>5, <2>6
  <2>8. /\ \A u \in 1 .. Len(vSockets) : hello'[u] = hello[u] /\ vReplies'[u] = vReplies[u]
        /\ hello'[Len(vSockets) + 1] = h /\ vReplies'[Len(vSockets) + 1] = <<>>
    BY <1>2, <2>5
  <2>9. ViewerTypes'
    BY <1>1, <2>1, <2>7 DEF ViewerHalf, ViewerTypes, Viewer!TypeOK
  <2>10. MailInv(E)' /\ ShownInv(E)'
    BY <1>1, <1>4, <2>7 DEF ViewerHalf, MailInv, ShownInv
  <2>11. ViewerInv'
    <3>1. \A u \in 1 .. Len(vSockets) : (Joins(u)' <=> Joins(u)) /\ Welcomes(u)' = Welcomes(u)
      BY <2>8 DEF Joins, Welcomes
    <3>2. PICK new : new = Len(vSockets) + 1
      OBVIOUS
    <3>3. Welcomes(new)' = {} /\ (Joins(new)' => new = 1 /\ ~loop.made)
      BY <2>3, <2>8, <3>2 DEF Welcomes, Joins, ViewerHalf, ViewerInv
    <3>4. ASSUME NEW u \in 1 .. Len(vSockets')
          PROVE  /\ Joins(u)' => Welcomes(u)' = {}
                 /\ \A i, j \in Welcomes(u)' : i = j
                 /\ Joins(u)' \/ Welcomes(u)' # {} => u = 1 /\ ~loop'.made
      <4>1. CASE u \in 1 .. Len(vSockets)
        BY <1>1, <3>1, <4>1 DEF ViewerHalf, ViewerInv
      <4>2. CASE u = new
        BY <1>1, <3>3, <4>2
      <4> QED
        BY <1>2, <2>7, <3>2, <4>1, <4>2
    <3>5. vSockets' # <<>>
      BY <1>2, <2>7
    <3> QED
      BY <1>1, <3>4, <3>5 DEF ViewerHalf, ViewerInv
  <2> QED
    BY <2>9, <2>10, <2>11 DEF ViewerHalf
<1> QED
  BY <1>5, <1>6

(* The answer to a first hello makes the EventLoop, once.                  *)
LEMMA ViewerReplyKeeps ==
  ASSUME NEW E \in Cuts, ViewerHalf(E), eventNo' = eventNo, eventNo \in Nat,
         NEW t \in DOMAIN vSockets, ViewerReply(t)
  PROVE  ViewerHalf(E)'
<1>1. PICK reply : reply = Head(vReplies[t])
  OBVIOUS
<1>2. PICK rest : rest = Tail(vReplies[t])
  OBVIOUS
<1>3. /\ vSockets' = vSockets /\ vReplies[t] # <<>> /\ vReplies' = [vReplies EXCEPT ![t] = rest]
      /\ hello' = hello /\ from' = from /\ mail' = mail /\ screen' = screen
  BY <1>2 DEF ViewerReply, Viewer!Confirmed, viewerVars
<1>4. Viewer!TypeOK'
  BY <1>3 DEF ViewerReply, Viewer!Confirmed, viewerVars, Viewer!CloseWithoutReconnection,
              Viewer!CloseProxy, Viewer!Aborted, ViewerHalf, ViewerTypes, Viewer!TypeOK
<1>5. \/ loop' = loop
      \/ /\ reply.kind = "joined"
         /\ loop' = [made |-> TRUE, next |-> 0, buffer |-> <<>>, catchingUp |-> reply.latest,
                     active |-> reply.latest = None]
  BY <1>1 DEF ViewerReply
<1>6. /\ t \in 1 .. Len(vSockets) /\ vReplies \in Seq(Seq(ViewerReplies))
      /\ Len(vReplies) = Len(vSockets)
  BY DEF ViewerHalf, ViewerTypes, Viewer!TypeOK
<1>7. vReplies[t] \in Seq(ViewerReplies)
  BY <1>6
<1>8. /\ reply \in ViewerReplies /\ rest \in Seq(ViewerReplies)
      /\ Len(rest) = Len(vReplies[t]) - 1 /\ Len(vReplies[t]) \in Nat \ {0}
      /\ reply = vReplies[t][1]
      /\ \A i \in 1 .. Len(rest) : rest[i] = vReplies[t][i + 1]
  BY <1>1, <1>2, <1>3, <1>7
<1>9. /\ vReplies' \in Seq(Seq(ViewerReplies)) /\ Len(vReplies') = Len(vReplies)
      /\ \A u \in 1 .. Len(vSockets) : vReplies'[u] = IF u = t THEN rest ELSE vReplies[u]
  BY <1>3, <1>6, <1>8
<1>10. ViewerTypes'
  BY <1>3, <1>4, <1>9 DEF ViewerHalf, ViewerTypes
<1>11. MailInv(E)'
  BY <1>3 DEF ViewerHalf, MailInv, Copies
<1>12. \A u \in 1 .. Len(vSockets) : u # t => (Joins(u)' <=> Joins(u)) /\ Welcomes(u)' = Welcomes(u)
  BY <1>3, <1>9 DEF Joins, Welcomes
<1>13. \A i \in Welcomes(t)' : i + 1 \in Welcomes(t)
  <2>1. Welcomes(t)' = {i \in 1 .. Len(rest) : rest[i].kind = "joined"}
    BY <1>6, <1>9 DEF Welcomes
  <2> QED
    BY <1>8, <2>1 DEF Welcomes
<1>14. \A i \in Welcomes(t)' : i \in Nat /\ i >= 1
  BY <1>6, <1>8, <1>9 DEF Welcomes
<1>15. CASE loop' = loop
  <2>1. ShownInv(E)'
    BY <1>3, <1>15 DEF ViewerHalf, ShownInv
  <2>2. \A i, j \in Welcomes(t)' : i = j
    <3> TAKE i, j \in Welcomes(t)'
    <3>1. i + 1 = j + 1
      BY <1>6, <1>13 DEF ViewerHalf, ViewerInv
    <3> QED
      BY <1>14, <3>1
  <2>3. /\ Joins(t)' => Welcomes(t)' = {}
        /\ Joins(t)' \/ Welcomes(t)' # {} => t = 1 /\ ~loop.made
    <3>1. Joins(t)' <=> Joins(t)
      BY <1>3 DEF Joins
    <3> QED
      BY <1>6, <1>13, <3>1 DEF ViewerHalf, ViewerInv
  <2>4. ViewerInv'
    BY <1>3, <1>12, <1>15, <2>2, <2>3 DEF ViewerHalf, ViewerInv
  <2> QED
    BY <1>10, <1>11, <2>1, <2>4 DEF ViewerHalf
<1>16. CASE /\ reply.kind = "joined"
            /\ loop' = [made |-> TRUE, next |-> 0, buffer |-> <<>>, catchingUp |-> reply.latest,
                        active |-> reply.latest = None]
  <2>1. 1 \in Welcomes(t)
    BY <1>8, <1>16 DEF Welcomes
  <2>2. t = 1 /\ ~loop.made /\ ~Joins(t) /\ \A i \in Welcomes(t) : i = 1
    BY <1>6, <2>1 DEF ViewerHalf, ViewerInv
  <2>3. Welcomes(t)' = {} /\ ~Joins(t)'
    BY <1>3, <1>13, <1>14, <2>2 DEF Joins
  <2>4. \A u \in 1 .. Len(vSockets) : ~Joins(u)' /\ Welcomes(u)' = {}
    BY <1>12, <2>2, <2>3 DEF ViewerHalf, ViewerInv
  <2>5. reply.latest \in Int
    BY <1>8, <1>16 DEF ViewerReplies
  <2>6. DOMAIN <<>> = {} /\ <<>> \in [{} -> Seq(Outputs)]
    OBVIOUS
  <2>7. loop' \in LoopState
    <3>1. PICK empty : empty = <<>>
      OBVIOUS
    <3>2. empty \in UNION {[S -> Seq(Outputs)] : S \in SUBSET EventNos}
      BY <2>6, <3>1
    <3> QED
      BY <1>16, <2>5, <3>1, <3>2 DEF LoopState
  <2>8. ShownInv(E)'
    <3>1. loop.next = 0 /\ loop'.next = 0 /\ loop'.buffer = <<>>
      BY <1>16, <2>2 DEF ViewerHalf, ViewerInv
    <3>2. screen' = Stretch(0, E[loop'.next])
      BY <1>3, <3>1 DEF ViewerHalf, ShownInv
    <3> QED
      BY <2>6, <2>7, <3>1, <3>2 DEF ShownInv
  <2>9. ViewerInv'
    <3>1. loop'.made /\ loop'.next = 0 /\ loop'.catchingUp = reply.latest
      BY <1>16
    <3>2. loop'.active <=> reply.latest = None
      BY <1>16
    <3>3. loop'.active => loop'.catchingUp < loop'.next
      BY <3>1, <3>2 DEF None
    <3>4. vSockets # <<>>
      BY <1>6
    <3> QED
      BY <1>3, <2>4, <3>1, <3>3, <3>4 DEF ViewerInv
  <2> QED
    BY <1>10, <1>11, <2>8, <2>9 DEF ViewerHalf
<1> QED
  BY <1>5, <1>15, <1>16

(* What ProcessEvent makes of the buffer: with the event in it, all that   *)
(* follows without a gap is taken out and shown.                           *)
LEMMA ProcessEventShows ==
  ASSUME NEW E \in Cuts, CutInv(E), ShownInv(E), NEW event \in Copies(E),
         NEW end, end = FirstMissing(Buffered(event))
  PROVE  /\ end \in loop.next .. eventNo
         /\ DOMAIN Buffered(event) \subseteq 0 .. eventNo - 1
         /\ \A n \in DOMAIN Buffered(event) : Buffered(event)[n] = Piece(E, n)
         /\ FlattenSeq([i \in 1 .. end - loop.next |-> Buffered(event)[loop.next + i - 1]])
            = Stretch(E[loop.next], E[end])
<1>1. PICK next, no : next = loop.next /\ no = eventNo
  OBVIOUS
<1>2. PICK buffer : buffer = Buffered(event)
  OBVIOUS
<1>3. PICK D : D = DOMAIN loop.buffer \cup {event.no}
  OBVIOUS
<1>4. /\ next \in Nat /\ no \in Nat /\ next <= no /\ no <= MaxOutput /\ MaxOutput \in Nat
      /\ DOMAIN loop.buffer \subseteq 0 .. no - 1
      /\ \A n \in DOMAIN loop.buffer : loop.buffer[n] = Piece(E, n)
  BY <1>1, BoundsAssumption DEF CutInv, ShownInv, LoopState
<1>5. event.no \in 0 .. no - 1 /\ event.payload = Piece(E, event.no)
  BY <1>1 DEF Copies
<1>6. buffer = [n \in D |-> IF n = event.no THEN event.payload ELSE loop.buffer[n]]
  BY <1>2, <1>3 DEF Buffered
<1>7. /\ DOMAIN buffer = D /\ D \subseteq 0 .. no - 1
      /\ \A n \in D : buffer[n] = Piece(E, n)
  BY <1>3, <1>4, <1>5, <1>6
<1>8. IsFiniteSet(D)
  <2>1. IsFiniteSet(0 .. no - 1)
    <3>1. 0 \in Int /\ no - 1 \in Int
      BY <1>4
    <3> QED
      BY <3>1, FS_Interval
  <2>2. D \in SUBSET (0 .. no - 1)
    BY <1>7
  <2> QED
    BY <2>1, <2>2, FS_Subset
<1>9. Cardinality(D) \in Nat /\ \E x \in next .. next + Cardinality(D) : x \notin D
  BY <1>4, <1>8, OneIsMissing
<1>10. PICK hi : hi = next + Cardinality(D)
  OBVIOUS
<1>11. end = Min({m \in next .. hi : m \notin D})
  BY <1>1, <1>2, <1>7, <1>10 DEF FirstMissing
<1>12. end \in next .. hi /\ next .. end - 1 \subseteq D
  <2>1. hi \in Nat
    BY <1>4, <1>9, <1>10
  <2>2. PICK x \in next .. hi : x \notin D
    BY <1>9, <1>10
  <2> QED
    BY <1>4, <1>11, <2>1, <2>2, MissingIs
<1>13. end \in Nat /\ end \in next .. no
  <2>1. end \in Nat /\ next <= end
    BY <1>4, <1>9, <1>10, <1>12
  <2>2. CASE end = next
    BY <1>4, <2>1, <2>2
  <2>3. CASE end # next
    <3>1. end - 1 \in next .. end - 1
      BY <1>4, <2>1, <2>3
    <3>2. end - 1 \in 0 .. no - 1
      BY <1>7, <1>12, <3>1
    <3> QED
      BY <1>4, <2>1, <3>2
  <2> QED
    BY <2>2, <2>3
<1>14. PICK m \in Nat : m = end - next
  BY <1>4, <1>13
<1>15. PICK run : run = [i \in 1 .. m |-> buffer[next + i - 1]]
  OBVIOUS
<1>16. run = [i \in 1 .. m |-> Piece(E, next + i - 1)]
  <2>1. \A i \in 1 .. m : next + i - 1 \in D
    BY <1>4, <1>12, <1>13, <1>14
  <2>2. \A i \in 1 .. m : buffer[next + i - 1] = Piece(E, next + i - 1)
    BY <1>7, <2>1
  <2> QED
    BY <1>15, <2>2
<1>17. FlattenSeq(run) = Stretch(E[next], E[next + m])
  <2>1. next + m <= MaxOutput
    BY <1>4, <1>13, <1>14
  <2>2. \A a, b \in 0 .. no : a < b => E[a] < E[b]
    BY <1>1 DEF CutInv
  <2>3. \A a \in 0 .. no : E[a] \in Nat
    BY <1>4 DEF Cuts
  <2>4. \A k \in next .. next + m - 1 : E[k] <= E[k + 1]
    <3> TAKE k \in next .. next + m - 1
    <3>1. k \in 0 .. no /\ k + 1 \in 0 .. no /\ k < k + 1
      BY <1>4, <1>13, <1>14
    <3>2. E[k] \in Nat /\ E[k + 1] \in Nat /\ E[k] < E[k + 1]
      BY <2>2, <2>3, <3>1
    <3> QED
      BY <3>2
  <2>5. \A k \in next .. next + m : E[next] <= E[k]
    <3> TAKE k \in next .. next + m
    <3>1. k \in 0 .. no /\ next \in 0 .. no /\ (next < k \/ next = k)
      BY <1>4, <1>13, <1>14
    <3>2. E[k] \in Nat /\ E[next] \in Nat
      BY <2>3, <3>1
    <3>3. next < k => E[next] < E[k]
      BY <2>2, <3>1
    <3> QED
      BY <3>1, <3>2, <3>3
  <2> QED
    <3>1. next \in Nat
      BY <1>4
    <3> QED
      BY ONLY E \in Cuts, m \in Nat, <1>16, <2>1, <2>4, <2>5, <3>1, PiecesFlatten
<1>18. next + m = end
  BY <1>4, <1>13, <1>14
<1>19. [i \in 1 .. end - loop.next |-> Buffered(event)[loop.next + i - 1]] = run
  BY <1>1, <1>2, <1>14, <1>15
<1> QED
  BY <1>1, <1>2, <1>7, <1>13, <1>17, <1>18, <1>19

LEMMA PieceType ==
  ASSUME NEW E \in Cuts, CutInv(E), NEW n \in 0 .. eventNo - 1
  PROVE  Piece(E, n) \in Seq(Outputs)
<1>1. /\ eventNo \in Nat /\ eventNo <= MaxOutput /\ MaxOutput \in Nat
      /\ n \in 0 .. eventNo /\ n + 1 \in 0 .. eventNo /\ n < n + 1
  BY BoundsAssumption DEF CutInv
<1>2. E[n] \in Nat /\ E[n + 1] \in Nat /\ E[n + 1] <= MaxOutput
  BY <1>1 DEF Cuts
<1>3. E[n] <= E[n + 1]
  BY <1>1, <1>2 DEF CutInv
<1> QED
  BY <1>2, <1>3, StretchType DEF Piece

LEMMA ViewerEventKeeps ==
  ASSUME NEW E \in Cuts, CutInv(E), ViewerHalf(E), eventNo' = eventNo,
         NEW t \in DOMAIN vSockets, ViewerEvent(t)
  PROVE  ViewerHalf(E)' /\ loop.next <= loop'.next
<1>1. PICK event \in mail[t] :
        mail' = [mail EXCEPT ![t] = @ \ {event}] /\ ProcessEvent(event)
  BY DEF ViewerEvent
<1>2. /\ vSockets' = vSockets /\ vStage' = vStage /\ vAttempt' = vAttempt /\ vTx' = vTx
      /\ vSpare' = vSpare /\ hello' = hello /\ vReplies' = vReplies /\ from' = from
  BY DEF ViewerEvent, viewerVars
<1>3. /\ t \in 1 .. Len(vSockets) /\ mail \in Seq(SUBSET Copies(E)) /\ Len(mail) = Len(vSockets)
  BY DEF ViewerHalf, ViewerTypes, Viewer!TypeOK, MailInv
<1>4. mail[t] \subseteq Copies(E) /\ event \in Copies(E)
  BY <1>1, <1>3
<1>5. ViewerTypes'
  BY <1>2 DEF ViewerHalf, ViewerTypes, Viewer!TypeOK
<1>6. MailInv(E)'
  <2>1. Copies(E)' = Copies(E)
    BY DEF Copies
  <2>2. mail[t] \ {event} \in SUBSET Copies(E)
    BY <1>4
  <2>3. mail' \in Seq(SUBSET Copies(E)) /\ Len(mail') = Len(mail)
    BY <1>1, <1>3, <2>2
  <2> QED
    BY <1>2, <1>3, <2>1, <2>3 DEF MailInv
<1>7. loop \in LoopState /\ loop.next \in Nat
  BY DEF ViewerHalf, ShownInv, LoopState
<1>8. CASE ~loop.made
  <2>1. loop' = loop /\ screen' = screen
    BY <1>1, <1>8 DEF ProcessEvent, loopVars
  <2>2. ShownInv(E)'
    BY <2>1 DEF ViewerHalf, ShownInv
  <2>3. ViewerInv'
    BY <1>2, <2>1 DEF ViewerHalf, ViewerInv, Joins, Welcomes
  <2> QED
    BY <1>5, <1>6, <1>7, <2>1, <2>2, <2>3 DEF ViewerHalf
<1>9. CASE loop.made
  <2>1. PICK buffer : buffer = Buffered(event)
    OBVIOUS
  <2>2. PICK end : end = FirstMissing(buffer)
    OBVIOUS
  <2>3. PICK kept : kept = [n \in DOMAIN buffer \ (loop.next .. end - 1) |-> buffer[n]]
    OBVIOUS
  <2>4. PICK run : run = [i \in 1 .. end - loop.next |-> buffer[loop.next + i - 1]]
    OBVIOUS
  <2>5. PICK active \in BOOLEAN : active <=> (loop.active \/ CatchesUpIn(buffer))
    OBVIOUS
  <2>6. /\ loop' = [loop EXCEPT !.next = end, !.buffer = kept,
                                !.active = loop.active \/ CatchesUpIn(buffer)]
        /\ screen' = screen \o FlattenSeq(run)
    BY <1>1, <1>9, <2>1, <2>2, <2>3, <2>4 DEF ProcessEvent
  <2>7. /\ end \in loop.next .. eventNo
        /\ DOMAIN buffer \subseteq 0 .. eventNo - 1
        /\ \A n \in DOMAIN buffer : buffer[n] = Piece(E, n)
        /\ FlattenSeq(run) = Stretch(E[loop.next], E[end])
    <3>1. ShownInv(E)
      BY DEF ViewerHalf
    <3>2. end = FirstMissing(Buffered(event))
      BY <2>1, <2>2
    <3>3. /\ end \in loop.next .. eventNo
          /\ DOMAIN Buffered(event) \subseteq 0 .. eventNo - 1
          /\ \A n \in DOMAIN Buffered(event) : Buffered(event)[n] = Piece(E, n)
          /\ FlattenSeq([i \in 1 .. end - loop.next |-> Buffered(event)[loop.next + i - 1]])
             = Stretch(E[loop.next], E[end])
      BY <1>4, <3>1, <3>2, ProcessEventShows
    <3> QED
      BY <2>1, <2>4, <3>3
  <2>8. eventNo \in Nat /\ eventNo <= MaxOutput /\ MaxOutput \in Nat
    BY BoundsAssumption DEF CutInv
  <2>9. end \in Nat /\ loop.next <= end /\ end <= eventNo
    BY <1>7, <2>7, <2>8
  <2>10. /\ kept \in UNION {[S -> Seq(Outputs)] : S \in SUBSET EventNos}
         /\ DOMAIN kept \subseteq 0 .. eventNo - 1
         /\ \A n \in DOMAIN kept : kept[n] = Piece(E, n)
    <3>1. PICK S : S = DOMAIN buffer \ (loop.next .. end - 1)
      OBVIOUS
    <3>2. S \subseteq 0 .. eventNo - 1 /\ S \in SUBSET EventNos
      BY <2>7, <2>8, <3>1 DEF EventNos
    <3>3. \A n \in S : buffer[n] = Piece(E, n) /\ buffer[n] \in Seq(Outputs)
      BY <2>7, <3>1, <3>2, PieceType
    <3>4. kept = [n \in S |-> buffer[n]]
      BY <2>3, <3>1
    <3>5. kept \in [S -> Seq(Outputs)]
      BY <3>3, <3>4
    <3> QED
      BY <3>2, <3>3, <3>4, <3>5
  <2>11. /\ loop'.next = end /\ loop'.buffer = kept /\ loop'.made = loop.made
         /\ loop'.catchingUp = loop.catchingUp
         /\ loop'.active <=> loop.active \/ CatchesUpIn(buffer)
    BY <1>7, <2>6 DEF LoopState
  <2>12. loop' \in LoopState
    <3>1. (loop.active \/ CatchesUpIn(buffer)) \in BOOLEAN
      OBVIOUS
    <3> QED
      BY <1>7, <2>6, <2>9, <2>10, <3>1 DEF LoopState
  <2>13. screen' = Stretch(0, E[end])
    <3>1. screen = Stretch(0, E[loop.next])
      BY DEF ViewerHalf, ShownInv
    <3>2. \A a \in 0 .. eventNo : E[a] \in Nat /\ E[a] <= MaxOutput
      BY <2>8 DEF Cuts
    <3>3. loop.next \in 0 .. eventNo /\ end \in 0 .. eventNo
      BY <1>7, <2>8, <2>9
    <3>4. E[loop.next] \in Nat /\ E[end] \in Nat /\ E[end] <= MaxOutput
      BY <3>2, <3>3
    <3>5. E[loop.next] <= E[end]
      <4>1. loop.next < end \/ loop.next = end
        BY <1>7, <2>9
      <4>2. loop.next < end => E[loop.next] < E[end]
        BY <3>3 DEF CutInv
      <4> QED
        BY <3>4, <4>1, <4>2
    <3>6. 0 \in Nat /\ 0 <= E[loop.next]
      BY <3>4
    <3>7. Stretch(0, E[loop.next]) \o Stretch(E[loop.next], E[end]) = Stretch(0, E[end])
      BY <3>4, <3>5, <3>6, StretchConcat
    <3> QED
      BY <2>6, <2>7, <3>1, <3>7
  <2>14. ShownInv(E)'
    BY <2>9, <2>10, <2>11, <2>12, <2>13 DEF ShownInv
  <2>15. loop'.active => loop'.catchingUp < loop'.next
    <3>1. CASE loop.active
      <4>1. loop.catchingUp < loop.next /\ loop.catchingUp \in Int
        BY <1>7, <3>1 DEF ViewerHalf, ViewerInv, LoopState
      <4> QED
        BY <1>7, <2>9, <2>11, <4>1
    <3>2. CASE CatchesUpIn(buffer)
      <4>1. loop.catchingUp \in loop.next .. end - 1
        BY <2>2, <3>2 DEF CatchesUpIn
      <4> QED
        BY <1>7, <2>9, <2>11, <4>1
    <3> QED
      BY <2>11, <3>1, <3>2
  <2>16. ViewerInv'
    BY <1>2, <1>9, <2>11, <2>15 DEF ViewerHalf, ViewerInv, Joins, Welcomes
  <2> QED
    BY <1>5, <1>6, <2>9, <2>11, <2>14, <2>16 DEF ViewerHalf
<1> QED
  BY <1>8, <1>9

-----------------------------------------------------------------------------
(* The sharer's half.                                                      *)

(* The terminal's part is kept by a step that does not send; a session     *)
(* that is finished stays so.                                              *)
LEMMA TerminalKept ==
  ASSUME NEW E \in Cuts, SharerHalf(E), UNCHANGED <<output, batch, bytes, eventNo>>,
         server'.scrollback = server.scrollback,
         sStage = "Finished" => sStage' = "Finished"
  PROVE  CutInv(E)' /\ TerminalInv' /\ LimitInv(E)'
<1>1. CutInv(E)' /\ TerminalInv'
  BY DEF SharerHalf, CutInv, TerminalInv, Flushed
<1>2. LimitInv(E)'
  BY DEF SharerHalf, LimitInv, Flushed
<1> QED
  BY <1>1, <1>2

LEMMA CopiesKept ==
  ASSUME NEW E \in Cuts, SharerHalf(E), UNCHANGED <<eventNo, unacked>>,
         server'.received = server.received, server'.processed = server.processed
  PROVE  KeptInv(E)' /\ ReceivedInv(E)'
<1>1. KeptInv(E)'
  BY DEF SharerHalf, KeptInv
<1>2. ReceivedInv(E)'
  BY DEF SharerHalf, ReceivedInv
<1> QED
  BY <1>1, <1>2

LEMMA SharerWaitsKeeps ==
  ASSUME NEW E \in Cuts, SharerHalf(E), SharerWaits
  PROVE  SharerHalf(E)'
<1>1. /\ sSockets' = sSockets /\ up' = up /\ sReplies' = sReplies /\ server' = server
      /\ restarts' = restarts /\ UNCHANGED eventVars
  BY DEF SharerWaits, Sharer!AttemptFailed, Sharer!RetriesExhausted, Sharer!Idle,
         upVars, serverVars
<1>2. output' = output /\ batch' = batch /\ bytes' = bytes /\ eventNo' = eventNo
      /\ unacked' = unacked
  BY <1>1 DEF eventVars
<1>3. \/ /\ sAttempt = "first" /\ sStage' = sStage /\ sTx' = sTx
         /\ sAttempt' \in {"none", "retry"} /\ (sSockets = <<>> => sAttempt' = "none")
      \/ sStage' = "Finished" /\ sAttempt = "retry"
      \/ sStage = "Connected" /\ sStage' = "Reconnecting" /\ sAttempt' = "first" /\ sTx' = sTx
  BY DEF SharerWaits, Sharer!AttemptFailed, Sharer!RetriesExhausted, Sharer!Idle, Sharer!Reconnect
<1>4. SharerTypes' /\ ServerTypes'
  <2>1. Sharer!TypeOK'
    BY <1>1 DEF SharerWaits, Sharer!AttemptFailed, Sharer!RetriesExhausted, Sharer!Idle,
                Sharer!Reconnect, SharerHalf, SharerTypes, Sharer!TypeOK
  <2> QED
    BY <1>1, <2>1 DEF SharerHalf, SharerTypes, ServerTypes
<1>5. CutInv(E)' /\ TerminalInv' /\ LimitInv(E)'
  <2>1. sStage = "Finished" => sStage' = "Finished"
    BY <1>3
  <2>2. UNCHANGED <<output, batch, bytes, eventNo>> /\ server'.scrollback = server.scrollback
    BY <1>1, <1>2
  <2> QED
    BY <2>1, <2>2, TerminalKept
<1>6. KeptInv(E)' /\ ReceivedInv(E)'
  BY <1>1, <1>2, CopiesKept
<1>7. SentInv(E)'
  BY <1>1, <1>2 DEF SharerHalf, SentInv, Messages, Sent
<1>8. \A s \in 1 .. Len(sSockets) : QueueInv(s)'
  BY <1>1, <1>3 DEF SharerHalf, UpInv, QueueInv
<1>9. \A s \in 1 .. Len(sSockets) : AnswerInv(s)'
  <2> SUFFICES ASSUME NEW s \in 1 .. Len(sSockets)
               PROVE  AnswerInv(s)'
    OBVIOUS
  <2>1. AnswerInv(s)
    BY DEF SharerHalf, UpInv
  <2> QED
    BY <1>1, <1>3, <2>1 DEF AnswerInv, Resuming, Answers, Sharer!Newest
<1>10. BeforeInv' /\ ConnectedInv'
  <2>1. BeforeInv'
    BY <1>1, <1>3 DEF SharerHalf, UpInv, BeforeInv
  <2>2. ConnectedInv'
    BY <1>1, <1>2, <1>3 DEF SharerHalf, UpInv, ConnectedInv, Sharer!Writable, Sharer!Newest
  <2> QED
    BY <2>1, <2>2
<1> QED
  BY <1>1, <1>4, <1>5, <1>6, <1>7, <1>8, <1>9, <1>10 DEF SharerHalf, UpInv

LEMMA SharerSocketBreaksKeeps ==
  ASSUME NEW E \in Cuts, SharerHalf(E), NEW b \in DOMAIN sSockets, SharerSocketBreaks(b)
  PROVE  SharerHalf(E)'
<1>1. /\ sSockets' = [sSockets EXCEPT ![b] = "closed"] /\ up' = [up EXCEPT ![b] = <<>>]
      /\ sReplies' = sReplies /\ server' = server /\ restarts' = restarts
      /\ output' = output /\ batch' = batch /\ bytes' = bytes /\ eventNo' = eventNo
      /\ unacked' = unacked /\ sStage' = sStage /\ sAttempt' = sAttempt /\ sTx' = sTx
      /\ sSpare' = sSpare
  BY DEF SharerSocketBreaks, Sharer!Break, serverVars, eventVars
<1>2. /\ sSockets \in Seq({"open", "closed", "ended"}) /\ b \in 1 .. Len(sSockets)
      /\ up \in Seq(Seq(Messages(E))) /\ Len(up) = Len(sSockets)
  BY DEF SharerHalf, SharerTypes, Sharer!TypeOK, SentInv
<1>3. <<>> \in Seq(Messages(E)) /\ Messages(E)' = Messages(E)
  BY <1>1 DEF Messages, Sent
<1>4. /\ sSockets' \in Seq({"open", "closed", "ended"}) /\ Len(sSockets') = Len(sSockets)
      /\ \A s \in 1 .. Len(sSockets) : sSockets'[s] = IF s = b THEN "closed" ELSE sSockets[s]
      /\ up' \in Seq(Seq(Messages(E))) /\ Len(up') = Len(up)
      /\ \A s \in 1 .. Len(sSockets) : up'[s] = IF s = b THEN <<>> ELSE up[s]
  BY <1>1, <1>2, <1>3
<1>5. SharerTypes' /\ ServerTypes'
  BY <1>1, <1>2, <1>4 DEF SharerHalf, SharerTypes, ServerTypes, Sharer!TypeOK
<1>6. CutInv(E)' /\ TerminalInv' /\ LimitInv(E)'
  BY <1>1, TerminalKept
<1>7. KeptInv(E)' /\ ReceivedInv(E)'
  BY <1>1, CopiesKept
<1>8. SentInv(E)'
  BY <1>2, <1>3, <1>4 DEF SentInv
<1>9. \A s \in 1 .. Len(sSockets) : QueueInv(s)'
  <2> SUFFICES ASSUME NEW s \in 1 .. Len(sSockets)
               PROVE  QueueInv(s)'
    OBVIOUS
  <2>1. QueueInv(s)
    BY DEF SharerHalf, UpInv
  <2>2. CASE s = b
    <3>1. up'[s] = <<>>
      BY <1>4, <2>2
    <3> QED
      BY <3>1 DEF QueueInv, Consecutive
  <2>3. CASE s # b
    <3>1. up'[s] = up[s] /\ sSockets'[s] = sSockets[s]
      BY <1>4, <2>3
    <3> QED
      BY <1>1, <2>1, <3>1 DEF QueueInv
  <2> QED
    BY <2>2, <2>3
<1>10. \A s \in 1 .. Len(sSockets) : AnswerInv(s)'
  <2> SUFFICES ASSUME NEW s \in 1 .. Len(sSockets)
               PROVE  AnswerInv(s)'
    OBVIOUS
  <2>1. AnswerInv(s)
    BY DEF SharerHalf, UpInv
  <2>2. Resuming(s)' => Resuming(s)
    BY <1>4 DEF Resuming
  <2>3. Answers(s)' = Answers(s)
    BY <1>1 DEF Answers
  <2>4. (\A r \in 1 .. Len(up) : up[r] = <<>>) => \A r \in 1 .. Len(up) : up'[r] = <<>>
    BY <1>2, <1>4
  <2>5. sSockets'[s] = "open" => sSockets[s] = "open"
    BY <1>4
  <2> QED
    BY <1>1, <1>4, <2>1, <2>2, <2>3, <2>4, <2>5 DEF AnswerInv, Sharer!Newest
<1>11. BeforeInv'
  <2>1. sSockets' = <<>> => sSockets = <<>>
    BY <1>2, <1>4
  <2>2. \A s \in 1 .. Len(up) : up'[s] # <<>> => up'[s] = up[s]
    BY <1>2, <1>4
  <2>3. sSockets = <<>> => sSockets' = <<>>
    BY <1>2, <1>4
  <2> QED
    BY <1>1, <1>4, <2>1, <2>2, <2>3 DEF SharerHalf, UpInv, BeforeInv
<1>12. ConnectedInv'
  <2>1. ASSUME Sharer!Writable'
        PROVE  Sharer!Writable /\ up'[Len(sSockets)] = up[Len(sSockets)]
    <3>1. sTx /\ sSockets # <<>> /\ sSockets'[Len(sSockets)] = "open"
      BY <1>1, <1>2, <1>4, <2>1 DEF Sharer!Writable, Sharer!Newest
    <3>2. Len(sSockets) \in 1 .. Len(sSockets)
      BY <1>2, <3>1
    <3> QED
      BY <1>4, <3>1, <3>2 DEF Sharer!Writable, Sharer!Newest
  <2> QED
    BY <1>1, <1>4, <2>1 DEF SharerHalf, UpInv, ConnectedInv, Sharer!Newest
<1> QED
  BY <1>1, <1>4, <1>5, <1>6, <1>7, <1>8, <1>9, <1>10, <1>11, <1>12 DEF SharerHalf, UpInv

LEMMA SharerStreamEndedKeeps ==
  ASSUME NEW E \in Cuts, SharerHalf(E), NEW b \in DOMAIN sSockets, SharerStreamEnded(b)
  PROVE  SharerHalf(E)'
<1>1. /\ sSockets' = [sSockets EXCEPT ![b] = "ended"] /\ up' = up
      /\ sReplies' = [sReplies EXCEPT ![b] = <<>>] /\ server' = server /\ restarts' = restarts
      /\ output' = output /\ batch' = batch /\ bytes' = bytes /\ eventNo' = eventNo
      /\ unacked' = unacked /\ sTx' = FALSE
  BY DEF SharerStreamEnded, Sharer!StreamEnded, Sharer!CloseProxy, serverVars, eventVars
<1>2. \/ sStage = "Connected" /\ sStage' = "Reconnecting" /\ sAttempt' = "first"
      \/ /\ sStage # "Connected" /\ sStage' = sStage
         /\ sAttempt = "none" => sAttempt' = "none"
         /\ sStage = "Before" => sAttempt' = sAttempt
  BY DEF SharerStreamEnded, Sharer!StreamEnded, Sharer!Reconnect, Sharer!CloseProxy,
         Sharer!Aborted
<1>3. /\ sSockets \in Seq({"open", "closed", "ended"}) /\ b \in 1 .. Len(sSockets)
      /\ sReplies \in Seq(Seq(SharerReplies)) /\ Len(sReplies) = Len(sSockets)
      /\ Len(up) = Len(sSockets)
  BY DEF SharerHalf, SharerTypes, Sharer!TypeOK, SentInv
<1>4. <<>> \in Seq(SharerReplies)
  OBVIOUS
<1>5. /\ sSockets' \in Seq({"open", "closed", "ended"}) /\ Len(sSockets') = Len(sSockets)
      /\ \A s \in 1 .. Len(sSockets) : sSockets'[s] = IF s = b THEN "ended" ELSE sSockets[s]
      /\ sReplies' \in Seq(Seq(SharerReplies)) /\ Len(sReplies') = Len(sReplies)
      /\ \A s \in 1 .. Len(sSockets) : sReplies'[s] = IF s = b THEN <<>> ELSE sReplies[s]
  BY <1>1, <1>3, <1>4
<1>6. sSockets[b] # "open"
  BY DEF SharerStreamEnded, Sharer!StreamEnded
<1>7. SharerTypes' /\ ServerTypes'
  <2>1. sStage' \in {"Before", "Connected", "Reconnecting", "Finished"} /\ sSpare' \in Nat
        /\ sAttempt' \in {"none", "first", "retry"}
    BY DEF SharerStreamEnded, Sharer!StreamEnded, Sharer!Reconnect, Sharer!CloseProxy,
           Sharer!Aborted, SharerHalf, SharerTypes, Sharer!TypeOK
  <2> QED
    BY <1>1, <1>3, <1>5, <2>1 DEF SharerHalf, SharerTypes, ServerTypes, Sharer!TypeOK
<1>8. CutInv(E)' /\ TerminalInv' /\ LimitInv(E)'
  BY <1>1, <1>2, TerminalKept
<1>9. KeptInv(E)' /\ ReceivedInv(E)'
  BY <1>1, CopiesKept
<1>10. SentInv(E)'
  BY <1>1, <1>5 DEF SharerHalf, SentInv, Messages, Sent
<1>11. \A s \in 1 .. Len(sSockets) : QueueInv(s)'
  <2> SUFFICES ASSUME NEW s \in 1 .. Len(sSockets)
               PROVE  QueueInv(s)'
    OBVIOUS
  <2>1. QueueInv(s)
    BY DEF SharerHalf, UpInv
  <2>2. sSockets'[s] # "open" => sSockets[s] # "open"
    BY <1>5, <1>6
  <2> QED
    BY <1>1, <1>2, <2>1, <2>2 DEF QueueInv
<1>12. \A s \in 1 .. Len(sSockets) : AnswerInv(s)'
  <2> SUFFICES ASSUME NEW s \in 1 .. Len(sSockets)
               PROVE  AnswerInv(s)'
    OBVIOUS
  <2>1. AnswerInv(s)
    BY DEF SharerHalf, UpInv
  <2>2. Resuming(s)' <=> Resuming(s)
    BY <1>1 DEF Resuming
  <2>3. CASE s = b
    <3>1. sReplies'[s] = <<>>
      BY <1>5, <2>3
    <3>2. Answers(s)' = {}
      BY <3>1 DEF Answers
    <3> QED
      BY <1>1, <1>2, <1>5, <2>1, <2>2, <3>1, <3>2 DEF AnswerInv, Sharer!Newest
  <2>4. CASE s # b
    <3>1. sReplies'[s] = sReplies[s] /\ sSockets'[s] = sSockets[s]
      BY <1>5, <2>4
    <3>2. Answers(s)' = Answers(s)
      BY <3>1 DEF Answers
    <3> QED
      BY <1>1, <1>2, <1>5, <2>1, <2>2, <3>1, <3>2 DEF AnswerInv, Sharer!Newest
  <2> QED
    BY <2>3, <2>4
<1>13. BeforeInv'
  <2>1. sSockets' # <<>> /\ sSockets # <<>>
    BY <1>3, <1>5
  <2> QED
    BY <1>1, <1>2, <1>5, <2>1 DEF SharerHalf, UpInv, BeforeInv
<1>14. ConnectedInv'
  BY <1>2 DEF ConnectedInv
<1> QED
  BY <1>5, <1>7, <1>8, <1>9, <1>10, <1>11, <1>12, <1>13, <1>14 DEF SharerHalf, UpInv

(* A socket starts with the message that creates or resumes the session.   *)
LEMMA SharerOpenedKeeps ==
  ASSUME NEW E \in Cuts, SharerHalf(E), SharerOpened
  PROVE  SharerHalf(E)'
<1>1. /\ server' = server /\ restarts' = restarts
      /\ output' = output /\ batch' = batch /\ bytes' = bytes /\ eventNo' = eventNo
      /\ unacked' = unacked /\ sStage' = sStage /\ sAttempt # "none" /\ sAttempt' = "none"
      /\ sSpare' \in Nat
  BY DEF SharerOpened, Sharer!Opened, serverVars, eventVars, SharerHalf, SharerTypes,
         Sharer!TypeOK
<1>2. /\ sSockets \in Seq({"open", "closed", "ended"})
      /\ sReplies \in Seq(Seq(SharerReplies)) /\ Len(sReplies) = Len(sSockets)
      /\ up \in Seq(Seq(Messages(E))) /\ Len(up) = Len(sSockets)
  BY DEF SharerHalf, SharerTypes, Sharer!TypeOK, SentInv
<1>3. CutInv(E)' /\ TerminalInv' /\ LimitInv(E)'
  BY <1>1, TerminalKept
<1>4. KeptInv(E)' /\ ReceivedInv(E)'
  BY <1>1, CopiesKept
<1>5. Messages(E)' = Messages(E)
  BY <1>1 DEF Messages, Sent
<1>6. sStage # "Connected" /\ (sStage = "Before" => sSockets = <<>>)
  BY <1>1 DEF SharerHalf, UpInv, BeforeInv, ConnectedInv
<1>7. \A s \in 1 .. Len(sSockets) :
        sStage # "Finished" => ~Resuming(s) /\ Answers(s) = {}
  BY <1>1 DEF SharerHalf, UpInv, AnswerInv
<1>8. CASE sSockets' = sSockets
  <2>1. sTx' = sTx /\ up' = up /\ sReplies' = sReplies
    BY <1>2, <1>8 DEF SharerOpened, Sharer!Opened, upVars
  <2>2. SharerTypes' /\ ServerTypes'
    BY <1>1, <1>8, <2>1 DEF SharerHalf, SharerTypes, ServerTypes, Sharer!TypeOK
  <2>3. SentInv(E)'
    BY <1>5, <1>8, <2>1 DEF SharerHalf, SentInv
  <2>4. \A s \in 1 .. Len(sSockets) : QueueInv(s)' /\ AnswerInv(s)'
    BY <1>1, <1>8, <2>1 DEF SharerHalf, UpInv, QueueInv, AnswerInv, Resuming, Answers,
                           Sharer!Newest
  <2>5. BeforeInv' /\ ConnectedInv'
    BY <1>1, <1>6, <1>8, <2>1 DEF SharerHalf, UpInv, BeforeInv, ConnectedInv
  <2> QED
    BY <1>3, <1>4, <1>8, <2>2, <2>3, <2>4, <2>5 DEF SharerHalf, UpInv
<1>9. CASE sSockets' # sSockets
  <2>1. sSockets' = Append(sSockets, "open") /\ sTx' = TRUE
    BY <1>9 DEF SharerOpened, Sharer!Opened
  <2>2. PICK first : first = <<IF sSockets = <<>> THEN Start ELSE Resume>>
    OBVIOUS
  <2>3. up' = Append(up, first) /\ sReplies' = Append(sReplies, <<>>)
    <3>1. Len(sSockets') > Len(sSockets)
      BY <1>2, <2>1
    <3> QED
      BY <2>2, <3>1 DEF SharerOpened
  <2>4. /\ first \in Seq(Messages(E)) /\ first # <<>> /\ Len(first) = 1
        /\ first[1].kind = IF sSockets = <<>> THEN "start" ELSE "resume"
    BY <2>2 DEF Messages, Start, Resume
  <2>5. PICK new : new = Len(sSockets) + 1
    OBVIOUS
  <2>6. <<>> \in Seq(SharerReplies)
    OBVIOUS
  <2>7. /\ sSockets' \in Seq({"open", "closed", "ended"}) /\ Len(sSockets') = new
        /\ sReplies' \in Seq(Seq(SharerReplies)) /\ Len(sReplies') = new
        /\ up' \in Seq(Seq(Messages(E))) /\ Len(up') = new
    BY <1>2, <2>1, <2>3, <2>4, <2>5, <2>6
  <2>8. /\ \A s \in 1 .. Len(sSockets) :
             sSockets'[s] = sSockets[s] /\ up'[s] = up[s] /\ sReplies'[s] = sReplies[s]
        /\ sSockets'[new] = "open" /\ up'[new] = first /\ sReplies'[new] = <<>>
    BY <1>2, <2>1, <2>3, <2>5
  <2>9. SharerTypes' /\ ServerTypes'
    BY <1>1, <2>1, <2>7 DEF SharerHalf, SharerTypes, ServerTypes, Sharer!TypeOK
  <2>10. SentInv(E)'
    BY <1>5, <2>7 DEF SentInv
  <2>11. \A s \in 1 .. Len(sSockets) : QueueInv(s)' /\ AnswerInv(s)'
    <3> SUFFICES ASSUME NEW s \in 1 .. Len(sSockets)
                 PROVE  QueueInv(s)' /\ AnswerInv(s)'
      OBVIOUS
    <3>1. QueueInv(s) /\ AnswerInv(s)
      BY DEF SharerHalf, UpInv
    <3>2. sSockets'[s] = sSockets[s] /\ up'[s] = up[s] /\ sReplies'[s] = sReplies[s]
      BY <2>8
    <3>3. QueueInv(s)'
      BY <1>1, <3>1, <3>2 DEF QueueInv
    <3>4. (Resuming(s)' <=> Resuming(s)) /\ Answers(s)' = Answers(s)
      BY <3>2 DEF Resuming, Answers
    <3>5. sStage # "Finished" => ~Resuming(s) /\ Answers(s) = {}
      BY <1>7
    <3>6. AnswerInv(s)'
      BY <1>1, <3>1, <3>2, <3>4, <3>5 DEF AnswerInv
    <3> QED
      BY <3>3, <3>6
  <2>12. QueueInv(new)' /\ AnswerInv(new)'
    <3>1. sSockets = <<>> => new = 1 /\ server.phase = "none"
      BY <1>2, <2>5 DEF SharerHalf, UpInv, BeforeInv
    <3>2. QueueInv(new)'
      <4>1. Consecutive(first) /\ first[1].kind \notin {"event", "end"}
        BY <2>4 DEF Consecutive
      <4>2. \A i \in 1 .. Len(first) : i = 1
        BY <2>4
      <4>3. first[1].kind = "start" => new = 1 /\ server.phase = "none"
        BY <2>4, <3>1
      <4>4. up'[new] = first /\ sSockets'[new] = "open"
        BY <2>8
      <4> QED
        BY <1>1, <4>1, <4>2, <4>3, <4>4 DEF QueueInv
    <3>3. Answers(new)' = {}
      BY <2>8 DEF Answers
    <3>4. Resuming(new)' => sSockets # <<>>
      BY <2>4, <2>8 DEF Resuming
    <3>5. sStage \in {"Before", "Reconnecting", "Finished"}
      BY <1>6 DEF SharerHalf, SharerTypes, Sharer!TypeOK
    <3>6. \A i \in 1 .. Len(sReplies'[new]) : FALSE
      BY <2>8
    <3> QED
      BY <1>1, <1>6, <2>7, <3>2, <3>3, <3>4, <3>5, <3>6 DEF AnswerInv, Sharer!Newest
  <2>13. BeforeInv'
    <3>1. sSockets' # <<>> /\ new \in Nat /\ new >= 1
      BY <1>2, <2>5, <2>7
    <3>2. sStage = "Before" => new = 1 /\ up'[1][1].kind = "start"
      <4>1. sSockets = <<>> => new = 1
        BY <2>5
      <4> QED
        BY <1>6, <2>4, <2>8, <4>1
    <3>3. sStage = "Before" => \A s \in 1 .. Len(up') : up'[s][1].kind = "start"
      BY <2>7, <3>2
    <3> QED
      BY <1>1, <2>7, <3>1, <3>2, <3>3 DEF SharerHalf, UpInv, BeforeInv
  <2>14. ConnectedInv'
    BY <1>1, <1>6 DEF ConnectedInv
  <2>15. \A s \in 1 .. Len(sSockets') : QueueInv(s)' /\ AnswerInv(s)'
    <3>1. \A s \in 1 .. Len(sSockets') : s \in 1 .. Len(sSockets) \/ s = new
      BY <1>2, <2>5, <2>7
    <3> QED
      BY <2>11, <2>12, <3>1
  <2> QED
    BY <1>3, <1>4, <2>9, <2>10, <2>13, <2>14, <2>15 DEF SharerHalf, UpInv
<1> QED
  BY <1>8, <1>9

(* What an acknowledgement removes has been processed.                     *)
LEMMA AckKeeps ==
  ASSUME NEW E \in Cuts, SharerHalf(E), NEW n \in DOMAIN unacked, Ack(n)
  PROVE  SharerHalf(E)'
<1>1. PICK processed : processed = Max({server.processed, n + 1})
  OBVIOUS
<1>2. PICK acked : acked = {m \in DOMAIN unacked : m <= n /\ m .. n \subseteq DOMAIN unacked}
  OBVIOUS
<1>3. /\ server' = [server EXCEPT !.processed = processed]
      /\ unacked' = [m \in DOMAIN unacked \ acked |-> unacked[m]]
      /\ n < Len(server.received) /\ restarts' = restarts
      /\ sStage' = sStage /\ sAttempt' = sAttempt /\ sSockets' = sSockets
      /\ sTx' = sTx /\ sSpare' = sSpare /\ output' = output /\ batch' = batch
      /\ bytes' = bytes /\ eventNo' = eventNo /\ up' = up /\ sReplies' = sReplies
  BY <1>1, <1>2 DEF Ack, sharerVars, upVars
<1>4. /\ server \in ServerState /\ eventNo \in Nat /\ n \in 0 .. eventNo - 1
      /\ server.processed \in Nat /\ Len(server.received) \in Nat
      /\ server.processed <= Len(server.received)
  BY DEF SharerHalf, ServerTypes, ServerState, CutInv, KeptInv, ReceivedInv
<1>5. /\ processed \in Nat /\ processed >= server.processed /\ processed >= n + 1
      /\ processed <= Len(server.received)
  <2>1. processed = IF server.processed >= n + 1 THEN server.processed ELSE n + 1
    <3>1. server.processed \in Int /\ n + 1 \in Int
      BY <1>4
    <3> QED
      BY <1>1, <3>1, MaxOfTwo
  <2> QED
    BY <1>3, <1>4, <2>1
<1>6. /\ server' \in ServerState /\ server'.processed = processed
      /\ server'.received = server.received /\ server'.phase = server.phase
      /\ server'.scrollback = server.scrollback
  BY <1>3, <1>4, <1>5 DEF ServerState
<1>7. SharerTypes' /\ ServerTypes'
  BY <1>3, <1>6 DEF SharerHalf, SharerTypes, ServerTypes, Sharer!TypeOK
<1>8. CutInv(E)' /\ TerminalInv' /\ LimitInv(E)'
  BY <1>3, <1>6, TerminalKept
<1>9. KeptInv(E)'
  <2>1. DOMAIN unacked' = DOMAIN unacked \ acked
    BY <1>3
  <2>2. \A m \in DOMAIN unacked : unacked[m] = Piece(E, m)
    BY DEF SharerHalf, KeptInv
  <2>3. unacked' = [m \in DOMAIN unacked' |-> Piece(E, m)]
    BY <1>3, <2>1, <2>2
  <2>4. processed .. eventNo - 1 \subseteq DOMAIN unacked \ acked
    <3>1. server.processed .. eventNo - 1 \subseteq DOMAIN unacked
      BY DEF SharerHalf, KeptInv
    <3> SUFFICES ASSUME NEW m \in processed .. eventNo - 1
                 PROVE  m \in DOMAIN unacked \ acked
      OBVIOUS
    <3>2. m \in server.processed .. eventNo - 1 /\ ~(m <= n)
      BY <1>4, <1>5
    <3> QED
      BY <1>2, <3>1, <3>2
  <2>5. DOMAIN unacked' \subseteq 0 .. eventNo - 1
    BY <2>1 DEF SharerHalf, KeptInv
  <2> QED
    BY <1>3, <1>6, <2>1, <2>3, <2>4, <2>5 DEF KeptInv
<1>10. ReceivedInv(E)'
  BY <1>3, <1>5, <1>6 DEF SharerHalf, ReceivedInv
<1>11. SentInv(E)'
  BY <1>3 DEF SharerHalf, SentInv, Messages, Sent
<1>12. BeforeInv' /\ ConnectedInv'
  BY <1>3, <1>6 DEF SharerHalf, UpInv, BeforeInv, ConnectedInv, Sharer!Writable, Sharer!Newest
<1>13. \A s \in 1 .. Len(sSockets) : QueueInv(s)' /\ AnswerInv(s)'
  BY <1>3, <1>6 DEF SharerHalf, UpInv, QueueInv, AnswerInv, Resuming, Answers, Sharer!Newest
<1> QED
  BY <1>3, <1>7, <1>8, <1>9, <1>10, <1>11, <1>12, <1>13 DEF SharerHalf, UpInv

(* An answer that is not "resumed" is put behind those on a socket, or     *)
(* none is.                                                                *)
Adds(replies, more, kind) ==
  more = replies \/ (more = Append(replies, Reply(kind)))

LEMMA AddedReply ==
  ASSUME NEW replies \in Seq(SharerReplies), NEW more, NEW kind \in {"started", "refused", "terminated"},
         Adds(replies, more, kind)
  PROVE  /\ more \in Seq(SharerReplies)
         /\ {i \in 1 .. Len(more) : more[i].kind = "resumed"}
            = {i \in 1 .. Len(replies) : replies[i].kind = "resumed"}
         /\ \A i \in 1 .. Len(replies) : i \in 1 .. Len(more) /\ more[i] = replies[i]
         /\ \A i \in 1 .. Len(more) : i \in 1 .. Len(replies) \/ more[i].kind = kind
<1>1. CASE more = replies
  BY <1>1
<1>2. CASE more = Append(replies, Reply(kind))
  <2>1. PICK r : r = Reply(kind)
    OBVIOUS
  <2>2. r \in SharerReplies /\ r.kind = kind
    BY <2>1 DEF Reply, SharerReplies
  <2>3. /\ more \in Seq(SharerReplies) /\ Len(more) = Len(replies) + 1 /\ Len(replies) \in Nat
        /\ \A i \in 1 .. Len(replies) : more[i] = replies[i]
        /\ more[Len(replies) + 1] = r
    BY <1>2, <2>1, <2>2
  <2>4. \A i \in 1 .. Len(more) : i \in 1 .. Len(replies) \/ i = Len(replies) + 1
    BY <2>3
  <2>5. \A i \in 1 .. Len(replies) : i \in 1 .. Len(more)
    BY <2>3
  <2>6. kind # "resumed"
    OBVIOUS
  <2> QED
    BY <2>2, <2>3, <2>4, <2>5, <2>6
<1> QED
  BY <1>1, <1>2 DEF Adds

(* The viewers that are told of the end were not told of a join.           *)
LEMMA TellViewersKeeps ==
  ASSUME NEW E \in Cuts, ViewerHalf(E), eventNo' = eventNo, TellViewers,
         UNCHANGED <<viewerVars, hello, from, mail, loopVars>>
  PROVE  ViewerHalf(E)'
<1>1. /\ vStage' = vStage /\ vAttempt' = vAttempt /\ vSockets' = vSockets
      /\ vTx' = vTx /\ vSpare' = vSpare /\ hello' = hello
      /\ from' = from /\ mail' = mail /\ loop' = loop /\ screen' = screen
  BY DEF viewerVars, loopVars
<1>2. /\ vReplies \in Seq(Seq(ViewerReplies)) /\ Len(vReplies) = Len(vSockets)
      /\ DOMAIN vSockets = 1 .. Len(vSockets) /\ Len(vSockets) \in Nat
  BY DEF ViewerHalf, ViewerTypes, Viewer!TypeOK
<1>3. PICK ended : ended = Reply("ended")
  OBVIOUS
<1>4. ended \in ViewerReplies /\ ended.kind = "ended"
  BY <1>3 DEF Reply, ViewerReplies
<1>5. vReplies' = [t \in 1 .. Len(vSockets) |->
                     IF vSockets[t] = "open" /\ hello[t] = NoHello
                     THEN Append(vReplies[t], ended) ELSE vReplies[t]]
  BY <1>2, <1>3 DEF TellViewers
<1>6. ASSUME NEW t \in 1 .. Len(vSockets)
      PROVE  vReplies'[t] \in Seq(ViewerReplies) /\ Welcomes(t)' = Welcomes(t)
  <2>1. PICK q : q = vReplies[t]
    OBVIOUS
  <2>2. q \in Seq(ViewerReplies)
    BY <1>2, <2>1
  <2>3. CASE vReplies'[t] = q
    BY <2>1, <2>2, <2>3 DEF Welcomes
  <2>4. CASE vReplies'[t] = Append(q, ended)
    <3>1. PICK r : r = vReplies'[t]
      OBVIOUS
    <3>2. /\ r \in Seq(ViewerReplies) /\ Len(r) = Len(q) + 1 /\ Len(q) \in Nat
          /\ \A i \in 1 .. Len(q) : r[i] = q[i]
          /\ r[Len(q) + 1] = ended
      BY <1>4, <2>2, <2>4, <3>1
    <3>3. \A i \in 1 .. Len(r) : i \in 1 .. Len(q) \/ i = Len(q) + 1
      BY <3>2
    <3>4. \A i \in 1 .. Len(q) : i \in 1 .. Len(r)
      BY <3>2
    <3>5. {i \in 1 .. Len(r) : r[i].kind = "joined"} = {i \in 1 .. Len(q) : q[i].kind = "joined"}
      BY <1>4, <3>2, <3>3, <3>4
    <3> QED
      BY <2>1, <3>1, <3>2, <3>5 DEF Welcomes
  <2>5. vReplies'[t] = q \/ vReplies'[t] = Append(q, ended)
    BY <1>5, <2>1
  <2> QED
    BY <2>3, <2>4, <2>5
<1>7. vReplies' \in Seq(Seq(ViewerReplies)) /\ Len(vReplies') = Len(vSockets)
  <2>1. PICK r, n : r = vReplies' /\ n = Len(vSockets)
    OBVIOUS
  <2>2. r = [t \in 1 .. n |-> r[t]] /\ n \in Nat /\ \A t \in 1 .. n : r[t] \in Seq(ViewerReplies)
    BY <1>2, <1>5, <1>6, <2>1
  <2>3. r \in Seq(Seq(ViewerReplies)) /\ Len(r) = n
    BY <2>2
  <2> QED
    BY <2>1, <2>3
<1>8. ViewerTypes'
  BY <1>1, <1>7 DEF ViewerHalf, ViewerTypes, Viewer!TypeOK
<1>9. MailInv(E)' /\ ShownInv(E)'
  BY <1>1 DEF ViewerHalf, MailInv, Copies, ShownInv
<1>10. ViewerInv'
  <2>1. \A t \in 1 .. Len(vSockets) : (Joins(t)' <=> Joins(t)) /\ Welcomes(t)' = Welcomes(t)
    BY <1>1, <1>6 DEF Joins
  <2> QED
    BY <1>1, <2>1 DEF ViewerHalf, ViewerInv
<1> QED
  BY <1>8, <1>9, <1>10 DEF ViewerHalf

LEMMA ServerTerminatesKeeps ==
  ASSUME NEW E \in Cuts, SharerHalf(E), ServerTerminates
  PROVE  SharerHalf(E)'
<1>1. /\ server' = [server EXCEPT !.phase = "ended"] /\ server.phase = "live"
      /\ sReplies' = [s \in DOMAIN sSockets |->
                        IF sSockets[s] = "open" THEN Append(sReplies[s], Reply("terminated"))
                        ELSE sReplies[s]]
      /\ restarts' = restarts /\ sStage' = sStage /\ sAttempt' = sAttempt
      /\ sSockets' = sSockets /\ sTx' = sTx /\ sSpare' = sSpare /\ output' = output
      /\ batch' = batch /\ bytes' = bytes /\ eventNo' = eventNo /\ unacked' = unacked
      /\ up' = up
  BY DEF ServerTerminates, sharerVars, eventVars
<1>2. /\ DOMAIN sSockets = 1 .. Len(sSockets) /\ Len(sSockets) \in Nat
      /\ sReplies \in Seq(Seq(SharerReplies)) /\ Len(sReplies) = Len(sSockets)
      /\ server \in ServerState
  BY DEF SharerHalf, SharerTypes, Sharer!TypeOK, ServerTypes
<1>3. /\ server' \in ServerState /\ server'.phase = "ended"
      /\ server'.received = server.received /\ server'.processed = server.processed
      /\ server'.scrollback = server.scrollback
  BY <1>1, <1>2 DEF ServerState
<1>4. ASSUME NEW s \in 1 .. Len(sSockets)
      PROVE  /\ sReplies'[s] \in Seq(SharerReplies) /\ Answers(s)' = Answers(s)
             /\ \A i \in Answers(s) : sReplies'[s][i] = sReplies[s][i]
  <2>1. PICK q, r : q = sReplies[s] /\ r = sReplies'[s]
    OBVIOUS
  <2>2. q \in Seq(SharerReplies)
    BY <1>2, <2>1
  <2>3. Adds(q, r, "terminated")
    BY <1>1, <1>2, <2>1 DEF Adds
  <2>4. /\ r \in Seq(SharerReplies)
        /\ {i \in 1 .. Len(r) : r[i].kind = "resumed"}
           = {i \in 1 .. Len(q) : q[i].kind = "resumed"}
        /\ \A i \in 1 .. Len(q) : i \in 1 .. Len(r) /\ r[i] = q[i]
    BY <2>2, <2>3, AddedReply
  <2> QED
    BY <2>1, <2>4 DEF Answers
<1>5. sReplies' \in Seq(Seq(SharerReplies)) /\ Len(sReplies') = Len(sSockets)
  <2>1. PICK r, n : r = sReplies' /\ n = Len(sSockets)
    OBVIOUS
  <2>2. r = [s \in 1 .. n |-> r[s]] /\ n \in Nat /\ \A s \in 1 .. n : r[s] \in Seq(SharerReplies)
    BY <1>1, <1>2, <1>4, <2>1
  <2>3. r \in Seq(Seq(SharerReplies)) /\ Len(r) = n
    BY <2>2
  <2> QED
    BY <2>1, <2>3
<1>6. SharerTypes' /\ ServerTypes'
  BY <1>1, <1>3, <1>5 DEF SharerHalf, SharerTypes, ServerTypes, Sharer!TypeOK
<1>7. CutInv(E)' /\ TerminalInv' /\ LimitInv(E)'
  BY <1>1, <1>3, TerminalKept
<1>8. KeptInv(E)' /\ ReceivedInv(E)'
  BY <1>1, <1>3, CopiesKept
<1>9. SentInv(E)'
  BY <1>1 DEF SharerHalf, SentInv, Messages, Sent
<1>10. \A s \in 1 .. Len(sSockets) : QueueInv(s)'
  <2> SUFFICES ASSUME NEW s \in 1 .. Len(sSockets)
               PROVE  QueueInv(s)'
    OBVIOUS
  <2>1. QueueInv(s)
    BY DEF SharerHalf, UpInv
  <2> QED
    BY <1>1, <1>3, <2>1 DEF QueueInv
<1>11. \A s \in 1 .. Len(sSockets) : AnswerInv(s)'
  <2> SUFFICES ASSUME NEW s \in 1 .. Len(sSockets)
               PROVE  AnswerInv(s)'
    OBVIOUS
  <2>1. AnswerInv(s) /\ (Resuming(s)' <=> Resuming(s))
    BY <1>1 DEF SharerHalf, UpInv, Resuming
  <2>2. Answers(s)' = Answers(s) /\ \A i \in Answers(s) : sReplies'[s][i] = sReplies[s][i]
    BY <1>4
  <2>3. server'.phase # "none" /\ server'.received = server.received
    BY <1>3
  <2>4. sStage' = "Reconnecting" => \A i \in Answers(s) :
          /\ \A r \in 1 .. Len(up') : up'[r] = <<>>
          /\ sSockets'[s] = "open" => sReplies'[s][i].last = Len(server'.received) - 1
    BY <1>1, <2>1, <2>2, <2>3 DEF AnswerInv
  <2>5. Resuming(s)' \/ Answers(s)' # {} =>
          /\ sStage' \in {"Reconnecting", "Finished"}
          /\ sStage' = "Reconnecting" => s = Sharer!Newest' /\ sAttempt' = "none"
    BY <1>1, <2>1, <2>2 DEF AnswerInv, Sharer!Newest
  <2>6. (Resuming(s)' => Answers(s)' = {}) /\ \A i, j \in Answers(s)' : i = j
    BY <2>1, <2>2 DEF AnswerInv
  <2> QED
    BY <2>2, <2>3, <2>4, <2>5, <2>6 DEF AnswerInv
<1>12. BeforeInv' /\ ConnectedInv'
  BY <1>1, <1>3 DEF SharerHalf, UpInv, BeforeInv, ConnectedInv, Sharer!Writable, Sharer!Newest
<1> QED
  BY <1>1, <1>6, <1>7, <1>8, <1>9, <1>10, <1>11, <1>12 DEF SharerHalf, UpInv

LEMMA ServerRestartsKeepsViewer ==
  ASSUME NEW E \in Cuts, ViewerHalf(E), ServerRestarts
  PROVE  ViewerHalf(E)'
<1>1. /\ vStage' = vStage /\ vAttempt' = vAttempt /\ vTx' = vTx /\ vSpare' = vSpare
      /\ vReplies' = vReplies /\ from' = from /\ mail' = mail /\ loop' = loop
      /\ screen' = screen /\ eventNo' = eventNo
      /\ vSockets' = [t \in DOMAIN vSockets |->
                        IF vSockets[t] = "open" THEN "closed" ELSE vSockets[t]]
      /\ hello' = [t \in DOMAIN hello |-> NoHello]
  BY DEF ServerRestarts, loopVars, eventVars
<1>2. PICK n : n = Len(vSockets)
  OBVIOUS
<1>3. /\ vSockets \in Seq({"open", "closed", "ended"}) /\ DOMAIN vSockets = 1 .. n
      /\ n \in Nat /\ DOMAIN hello = 1 .. n /\ Len(hello) = n /\ NoHello \in Hellos
  BY <1>2 DEF ViewerHalf, ViewerTypes, Viewer!TypeOK, NoHello, Hellos
<1>4. vSockets' \in Seq({"open", "closed", "ended"}) /\ Len(vSockets') = n
  BY <1>1, <1>3
<1>5. /\ hello' \in Seq(Hellos) /\ Len(hello') = n
      /\ \A t \in 1 .. n : hello'[t] = NoHello
  BY <1>1, <1>3
<1>6. ViewerTypes'
  BY <1>1, <1>2, <1>4, <1>5 DEF ViewerHalf, ViewerTypes, Viewer!TypeOK
<1>7. MailInv(E)' /\ ShownInv(E)'
  BY <1>1, <1>2, <1>4 DEF ViewerHalf, MailInv, Copies, ShownInv
<1>8. ViewerInv'
  <2>1. \A t \in 1 .. n : ~Joins(t)' /\ Welcomes(t)' = Welcomes(t)
    BY <1>1, <1>5 DEF Joins, Welcomes, Join, NoHello
  <2>2. vSockets # <<>> => vSockets' # <<>>
    BY <1>2, <1>3, <1>4
  <2> QED
    BY <1>1, <1>2, <1>4, <2>1, <2>2 DEF ViewerHalf, ViewerInv
<1> QED
  BY <1>6, <1>7, <1>8 DEF ViewerHalf

(* What a restart may take away is still kept by the sharer, and nothing   *)
(* is on its way.                                                          *)
LEMMA ServerRestartsKeeps ==
  ASSUME NEW E \in Cuts, SharerHalf(E), ServerRestarts
  PROVE  SharerHalf(E)'
<1>1. /\ sStage' = sStage /\ sAttempt' = sAttempt /\ sTx' = sTx /\ sSpare' = sSpare
      /\ output' = output /\ batch' = batch /\ bytes' = bytes /\ eventNo' = eventNo
      /\ unacked' = unacked /\ sReplies' = sReplies /\ server.phase = "live"
      /\ restarts > 0 /\ restarts' = restarts - 1
      /\ sSockets' = [s \in DOMAIN sSockets |->
                        IF sSockets[s] = "open" THEN "closed" ELSE sSockets[s]]
      /\ up' = [s \in DOMAIN up |-> <<>>]
  BY DEF ServerRestarts, eventVars
<1>2. PICK k \in server.processed .. Len(server.received) :
        server' = [server EXCEPT !.received = SubSeq(@, 1, k)]
  BY DEF ServerRestarts
<1>3. PICK n : n = Len(sSockets)
  OBVIOUS
<1>4. /\ sSockets \in Seq({"open", "closed", "ended"}) /\ DOMAIN sSockets = 1 .. n
      /\ n \in Nat /\ DOMAIN up = 1 .. n /\ Len(up) = n
      /\ server \in ServerState
  BY <1>3 DEF SharerHalf, SharerTypes, Sharer!TypeOK, SentInv, ServerTypes
<1>5. PICK received : received = server.received
  OBVIOUS
<1>6. PICK cut : cut = SubSeq(received, 1, k)
  OBVIOUS
<1>7. /\ received \in Seq(Seq(Outputs)) /\ Len(received) \in Nat /\ server.processed \in Nat
      /\ k \in Nat /\ server.processed <= k /\ k <= Len(received)
      /\ Len(received) <= eventNo
  BY <1>4, <1>5 DEF ServerState, SharerHalf, ReceivedInv
<1>8. /\ cut \in Seq(Seq(Outputs)) /\ Len(cut) = k
      /\ \A i \in 1 .. k : cut[i] = received[i]
  <2>1. \A i \in 1 .. k : received[i] \in Seq(Outputs)
    BY <1>7
  <2>2. 1 \in Int /\ k \in Int
    BY <1>7
  <2>3. /\ SubSeq(received, 1, k) \in Seq(Seq(Outputs))
        /\ Len(SubSeq(received, 1, k)) = IF 1 <= k THEN k - 1 + 1 ELSE 0
        /\ \A i \in 1 .. k - 1 + 1 : SubSeq(received, 1, k)[i] = received[1 + i - 1]
    BY ONLY <2>1, <2>2, SubSeqProperties
  <2>4. k - 1 + 1 = k /\ \A i \in 1 .. k : 1 + i - 1 = i
    BY <1>7
  <2> QED
    BY <1>6, <1>7, <2>3, <2>4
<1>9. /\ server' \in ServerState /\ server'.received = cut /\ server'.phase = server.phase
      /\ server'.processed = server.processed /\ server'.scrollback = server.scrollback
  <2>1. server' = [server EXCEPT !.received = cut]
    BY <1>2, <1>5, <1>6
  <2> QED
    BY <1>4, <1>8, <2>1 DEF ServerState
<1>10. /\ sSockets' \in Seq({"open", "closed", "ended"}) /\ Len(sSockets') = n
       /\ \A s \in 1 .. n : sSockets'[s] # "open"
  BY <1>1, <1>4
<1>11. /\ up' \in Seq(Seq(Messages(E))) /\ Len(up') = n
       /\ \A s \in 1 .. n : up'[s] = <<>>
  <2>1. <<>> \in Seq(Messages(E))
    OBVIOUS
  <2> QED
    BY <1>1, <1>4, <2>1
<1>12. SharerTypes' /\ ServerTypes'
  <2>1. restarts' \in Nat
    BY <1>1 DEF SharerHalf, ServerTypes
  <2> QED
    BY <1>1, <1>3, <1>9, <1>10, <2>1 DEF SharerHalf, SharerTypes, ServerTypes, Sharer!TypeOK
<1>13. CutInv(E)' /\ TerminalInv' /\ LimitInv(E)'
  BY <1>1, <1>9, TerminalKept
<1>14. KeptInv(E)'
  BY <1>1, <1>9 DEF SharerHalf, KeptInv
<1>15. ReceivedInv(E)'
  <2>1. cut = [i \in 1 .. k |-> Piece(E, i - 1)]
    <3>1. PICK m : m = Len(received)
      OBVIOUS
    <3>2. received = [i \in 1 .. m |-> Piece(E, i - 1)]
      BY <1>5, <3>1 DEF SharerHalf, ReceivedInv
    <3>3. \A i \in 1 .. k : i \in 1 .. m
      BY <1>7, <3>1
    <3>4. \A i \in 1 .. k : cut[i] = Piece(E, i - 1)
      BY <1>8, <3>2, <3>3
    <3>5. cut = [i \in 1 .. k |-> cut[i]]
      BY <1>8
    <3> QED
      BY <3>4, <3>5
  <2> QED
    BY <1>1, <1>7, <1>8, <1>9, <2>1 DEF SharerHalf, ReceivedInv, CutInv
<1>16. SentInv(E)'
  <2>1. Messages(E)' = Messages(E)
    BY <1>1 DEF Messages, Sent
  <2> QED
    BY <1>10, <1>11, <2>1 DEF SentInv
<1>17. \A s \in 1 .. n : QueueInv(s)'
  BY <1>11 DEF QueueInv, Consecutive
<1>18. \A s \in 1 .. n : AnswerInv(s)'
  <2> SUFFICES ASSUME NEW s \in 1 .. n
               PROVE  AnswerInv(s)'
    OBVIOUS
  <2>1. AnswerInv(s)
    BY <1>3 DEF SharerHalf, UpInv
  <2>2. ~Resuming(s)' /\ Answers(s)' = Answers(s)
    BY <1>1, <1>11 DEF Resuming, Answers
  <2>3. \A r \in 1 .. Len(up') : up'[r] = <<>>
    BY <1>11
  <2> QED
    BY <1>1, <1>3, <1>9, <1>10, <2>1, <2>2, <2>3 DEF AnswerInv, Sharer!Newest
<1>19. BeforeInv'
  <2>1. sSockets # <<>> /\ sSockets' # <<>>
    BY <1>1, <1>3, <1>4, <1>10 DEF SharerHalf, UpInv, BeforeInv
  <2>2. received = <<>> => cut = <<>>
    BY <1>7, <1>8
  <2> QED
    BY <1>1, <1>3, <1>5, <1>9, <1>10, <1>11, <2>1, <2>2 DEF SharerHalf, UpInv, BeforeInv
<1>20. ConnectedInv'
  <2>1. ~Sharer!Writable'
    <3>1. n # 0 => n \in 1 .. n
      BY <1>4
    <3>2. sSockets' # <<>> => n # 0
      BY <1>4, <1>10
    <3> QED
      BY <1>10, <3>1, <3>2 DEF Sharer!Writable, Sharer!Newest
  <2> QED
    BY <1>1, <2>1 DEF SharerHalf, UpInv, ConnectedInv
<1> QED
  BY <1>10, <1>12, <1>13, <1>14, <1>15, <1>16, <1>17, <1>18, <1>19, <1>20
     DEF SharerHalf, UpInv

-----------------------------------------------------------------------------
(* The server takes a message.                                             *)

(* An event on its way is that piece of the output.                        *)
LEMMA EventIs ==
  ASSUME NEW E, NEW m \in Messages(E), m.kind = "event"
  PROVE  m.no \in 0 .. eventNo - 1 /\ m.payload = Piece(E, m.no)
<1>1. PICK n \in 0 .. eventNo - 1 : m = Event(n, Piece(E, n))
  BY DEF Messages, Sent, Start, Resume, End
<1> QED
  BY <1>1 DEF Event

LEMMA HeadIs ==
  ASSUME NEW S, NEW q \in Seq(S), q # <<>>
  PROVE  /\ Head(q) = q[1] /\ q[1] \in S /\ Tail(q) \in Seq(S)
         /\ Len(q) \in Nat \ {0} /\ Len(Tail(q)) = Len(q) - 1
         /\ \A i \in 1 .. Len(q) - 1 : Tail(q)[i] = q[i + 1]
OBVIOUS

(* The queue s loses its first message, and the queues before it are       *)
(* emptied when that message resumed the session.                          *)
LEMMA TakenQueues ==
  ASSUME NEW E \in Cuts, SharerHalf(E), NEW s \in DOMAIN sSockets, up[s] # <<>>, up' = Taken(s),
         eventNo' = eventNo
  PROVE  /\ up' \in Seq(Seq(Messages(E))) /\ Len(up') = Len(up)
         /\ \A i \in 1 .. Len(sSockets) :
              /\ up'[i] # <<>> => up[i] # <<>>
              /\ Consecutive(up'[i])
              /\ (\A j \in 1 .. Len(up[i]) : up[i][j].kind # "end")
                 => (\A j \in 1 .. Len(up'[i]) : up'[i][j].kind # "end")
              /\ i # s => up'[i] = up[i] \/ (up'[i] = <<>> /\ up[s][1].kind = "resume")
              /\ i < s /\ up[s][1].kind = "resume" => up'[i] = <<>>
         /\ up'[s] # <<>> =>
              /\ up[s][1].kind = "event"
              /\ \/ up'[s][1].kind = "end"
                 \/ up'[s][1].kind = "event" /\ up'[s][1].no = up[s][1].no + 1
              /\ Len(up'[s]) = Len(up[s]) - 1
              /\ up'[s][Len(up'[s])] = up[s][Len(up[s])]
         /\ up'[s] = <<>> => Len(up[s]) = 1
<1>1. PICK n : n = Len(sSockets)
  OBVIOUS
<1>2. /\ n \in Nat /\ s \in 1 .. n /\ up \in Seq(Seq(Messages(E))) /\ Len(up) = n
      /\ DOMAIN up = 1 .. n
  BY <1>1 DEF SharerHalf, SharerTypes, Sharer!TypeOK, SentInv
<1>3. PICK q, r : q = up[s] /\ r = Tail(q)
  OBVIOUS
<1>4. q \in Seq(Messages(E)) /\ q # <<>>
  BY <1>2, <1>3
<1>5. /\ Head(q) = q[1] /\ q[1] \in Messages(E) /\ r \in Seq(Messages(E))
      /\ Len(q) \in Nat \ {0} /\ Len(r) = Len(q) - 1
      /\ \A i \in 1 .. Len(q) - 1 : r[i] = q[i + 1]
  BY <1>3, <1>4, HeadIs
<1>6. Head(q) = Resume <=> q[1].kind = "resume"
  BY <1>5 DEF Messages, Sent, Event, Start, Resume, End
<1>7. up' = [i \in 1 .. n |-> IF i < s /\ Head(q) = Resume THEN <<>>
                              ELSE IF i = s THEN r ELSE up[i]]
  BY <1>2, <1>3 DEF Taken
<1>8. ASSUME NEW i \in 1 .. n
      PROVE  up'[i] \in Seq(Messages(E))
  <2>1. up[i] \in Seq(Messages(E)) /\ <<>> \in Seq(Messages(E))
    BY <1>2
  <2> QED
    BY <1>5, <1>7, <2>1
<1>9. up' \in Seq(Seq(Messages(E))) /\ Len(up') = n
  <2>1. PICK u : u = up'
    OBVIOUS
  <2>2. /\ u = [i \in 1 .. n |-> u[i]] /\ n \in Nat
        /\ \A i \in 1 .. n : u[i] \in Seq(Messages(E))
    BY <1>2, <1>7, <1>8, <2>1
  <2>3. u \in Seq(Seq(Messages(E))) /\ Len(u) = n
    BY <2>2
  <2> QED
    BY <2>1, <2>3
<1>10. up'[s] = r
  BY <1>2, <1>7
<1>11. \A i \in 1 .. n : i # s => up'[i] = IF i < s /\ q[1].kind = "resume" THEN <<>> ELSE up[i]
  BY <1>6, <1>7
<1>12. Consecutive(q)
  BY <1>1, <1>2, <1>3 DEF SharerHalf, UpInv, QueueInv
<1>13. Consecutive(r)
  <2> SUFFICES ASSUME NEW i \in 1 .. Len(r) - 1
               PROVE  /\ r[i].kind = "event"
                      /\ \/ r[i + 1].kind = "end"
                         \/ r[i + 1].kind = "event" /\ r[i + 1].no = r[i].no + 1
    BY DEF Consecutive
  <2>1. i + 1 \in 1 .. Len(q) - 1
    BY <1>5
  <2>2. /\ q[i + 1].kind = "event"
        /\ \/ q[i + 1 + 1].kind = "end"
           \/ q[i + 1 + 1].kind = "event" /\ q[i + 1 + 1].no = q[i + 1].no + 1
    BY <1>12, <2>1 DEF Consecutive
  <2>3. r[i] = q[i + 1] /\ r[i + 1] = q[i + 1 + 1]
    BY <1>5
  <2> QED
    BY <2>2, <2>3
<1>14. ASSUME r # <<>>
       PROVE  /\ q[1].kind = "event"
              /\ r[1].kind = "end" \/ (r[1].kind = "event" /\ r[1].no = q[1].no + 1)
              /\ r[Len(r)] = q[Len(q)]
  <2>1. Len(r) \in Nat \ {0}
    BY <1>5, <1>14
  <2>2. 1 \in 1 .. Len(q) - 1 /\ Len(r) \in 1 .. Len(q) - 1 /\ Len(r) + 1 = Len(q)
    BY <1>5, <2>1
  <2>3. r[1] = q[1 + 1] /\ r[Len(r)] = q[Len(q)]
    BY <1>5, <2>2
  <2>4. /\ q[1].kind = "event"
        /\ q[1 + 1].kind = "end" \/ (q[1 + 1].kind = "event" /\ q[1 + 1].no = q[1].no + 1)
    BY <1>12, <2>2 DEF Consecutive
  <2> QED
    BY <2>3, <2>4
<1>15. r = <<>> => Len(q) = 1
  BY <1>5
<1>16. ASSUME NEW i \in 1 .. n
       PROVE  /\ up'[i] # <<>> => up[i] # <<>>
              /\ Consecutive(up'[i])
              /\ (\A j \in 1 .. Len(up[i]) : up[i][j].kind # "end")
                 => (\A j \in 1 .. Len(up'[i]) : up'[i][j].kind # "end")
  <2>1. CASE i = s
    <3>1. (\A j \in 1 .. Len(q) : q[j].kind # "end") => (\A j \in 1 .. Len(r) : r[j].kind # "end")
      <4>1. \A j \in 1 .. Len(r) : j + 1 \in 1 .. Len(q) /\ r[j] = q[j + 1]
        BY <1>5
      <4> QED
        BY <4>1
    <3>2. up'[i] = r /\ up[i] = q
      BY <1>3, <1>10, <2>1
    <3> QED
      BY <1>4, <1>13, <3>1, <3>2
  <2>2. CASE i # s /\ up'[i] = up[i]
    <3>1. Consecutive(up[i])
      BY <1>1 DEF SharerHalf, UpInv, QueueInv
    <3> QED
      BY <2>2, <3>1
  <2>3. CASE i # s /\ up'[i] = <<>>
    <3>1. PICK u : u = up'[i]
      OBVIOUS
    <3>2. u = <<>> /\ Len(u) = 0
      BY <2>3, <3>1
    <3>3. Consecutive(u) /\ \A j \in 1 .. Len(u) : u[j].kind # "end"
      BY <3>2 DEF Consecutive
    <3> QED
      BY <3>1, <3>2, <3>3
  <2> QED
    BY <1>11, <2>1, <2>2, <2>3
<1>17. \A i \in 1 .. n : /\ i # s => up'[i] = up[i] \/ (up'[i] = <<>> /\ up[s][1].kind = "resume")
                         /\ i < s /\ up[s][1].kind = "resume" => up'[i] = <<>>
  <2>1. \A i \in 1 .. n : i < s => i # s
    BY <1>2
  <2> QED
    BY <1>3, <1>11, <2>1
<1> QED
  BY <1>1, <1>2, <1>3, <1>5, <1>9, <1>10, <1>14, <1>15, <1>16, <1>17

(* What the server makes of a message.                                     *)
LEMMA ServerTakesDoes ==
  ASSUME NEW E \in Cuts, SharerHalf(E), NEW s \in DOMAIN sSockets, ServerTakes(s),
         NEW m, m = up[s][1]
  PROVE  /\ m \in Messages(E)
         /\ server' \in ServerState
         /\ server'.scrollback = server.scrollback /\ server'.processed = server.processed
         /\ \/ /\ m.kind = "start" /\ server.phase = "none" /\ s = 1
               /\ server'.phase \in {"none", "live"} /\ server'.received = server.received
               /\ \/ /\ server'.phase = "live"
                     /\ sReplies' = [sReplies EXCEPT ![s] = Append(@, Reply("started"))]
                  \/ sReplies' = [sReplies EXCEPT ![s] = Append(@, Reply("refused"))]
            \/ /\ m.kind = "resume" /\ server' = server
               /\ sReplies' = [sReplies EXCEPT ![s] = Append(@,
                                 IF server.phase = "live" THEN Resumed(Latest)
                                 ELSE Reply("refused"))]
            \/ /\ m.kind = "event" /\ server.phase # "none" /\ server'.phase = server.phase
               /\ \/ /\ server.phase = "live" /\ m.no = Len(server.received)
                     /\ server'.received = Append(server.received, Piece(E, m.no))
                  \/ /\ ~(server.phase = "live" /\ m.no = Len(server.received))
                     /\ server'.received = server.received
               /\ sReplies' = sReplies
            \/ /\ m.kind = "end" /\ server.phase # "none" /\ server'.phase = "ended"
               /\ server'.received = server.received
               /\ sReplies' = sReplies
<1>1. /\ s \in 1 .. Len(sSockets) /\ up \in Seq(Seq(Messages(E))) /\ Len(up) = Len(sSockets)
      /\ server \in ServerState
  BY DEF SharerHalf, SharerTypes, Sharer!TypeOK, SentInv, ServerTypes
<1>2. up[s] \in Seq(Messages(E)) /\ up[s] # <<>>
  BY <1>1 DEF ServerTakes
<1>3. Head(up[s]) = m /\ m \in Messages(E)
  BY <1>2, HeadIs
<1>4. /\ m.kind = "start" => server.phase = "none" /\ s = 1
      /\ m.kind \in {"event", "end"} => server.phase # "none"
  BY <1>1, <1>2 DEF SharerHalf, UpInv, QueueInv
<1>5. CASE m.kind = "start"
  <2>1. /\ \/ /\ server' = [server EXCEPT !.phase = "live"]
              /\ sReplies' = [sReplies EXCEPT ![s] = Append(@, Reply("started"))]
           \/ /\ server' = server
              /\ sReplies' = [sReplies EXCEPT ![s] = Append(@, Reply("refused"))]
    BY <1>3, <1>5 DEF ServerTakes
  <2> QED
    BY <1>1, <1>3, <1>4, <1>5, <2>1 DEF ServerState
<1>6. CASE m.kind = "resume"
  <2>1. /\ server' = server
        /\ sReplies' = [sReplies EXCEPT ![s] = Append(@,
                          IF server.phase = "live" THEN Resumed(Latest) ELSE Reply("refused"))]
    BY <1>3, <1>6 DEF ServerTakes
  <2> QED
    BY <1>1, <1>3, <1>6, <2>1
<1>7. CASE m.kind = "event"
  <2>1. /\ server' = IF server.phase = "live" /\ m.no = Len(server.received)
                     THEN [server EXCEPT !.received = Append(@, m.payload)] ELSE server
        /\ sReplies' = sReplies
    BY <1>3, <1>7 DEF ServerTakes
  <2>2. m.no \in 0 .. eventNo - 1 /\ m.payload = Piece(E, m.no)
    BY <1>3, <1>7, EventIs
  <2>3. CASE server.phase = "live" /\ m.no = Len(server.received)
    <3>1. Piece(E, m.no) \in Seq(Outputs)
      BY <2>2, PieceType DEF SharerHalf
    <3>2. server' = [server EXCEPT !.received = Append(server.received, Piece(E, m.no))]
      BY <2>1, <2>2, <2>3
    <3>3. Append(server.received, Piece(E, m.no)) \in Seq(Seq(Outputs))
      BY <1>1, <3>1 DEF ServerState
    <3>4. /\ server' \in ServerState /\ server'.phase = server.phase
          /\ server'.received = Append(server.received, Piece(E, m.no))
          /\ server'.scrollback = server.scrollback /\ server'.processed = server.processed
      BY <1>1, <3>2, <3>3 DEF ServerState
    <3> QED
      BY <1>3, <1>4, <1>7, <2>1, <2>3, <3>4
  <2>4. CASE ~(server.phase = "live" /\ m.no = Len(server.received))
    <3>1. server' = server
      BY <2>1, <2>4
    <3> QED
      BY <1>1, <1>3, <1>4, <1>7, <2>1, <2>4, <3>1
  <2> QED
    BY <2>3, <2>4
<1>8. CASE m.kind = "end"
  <2>1. server' = [server EXCEPT !.phase = "ended"] /\ sReplies' = sReplies
    BY <1>3, <1>8 DEF ServerTakes
  <2> QED
    BY <1>1, <1>3, <1>4, <1>8, <2>1 DEF ServerState
<1>9. m.kind \in {"start", "resume", "event", "end"}
  BY <1>3 DEF Messages, Sent, Event, Start, Resume, End
<1> QED
  BY <1>5, <1>6, <1>7, <1>8, <1>9

(* The server's answers: one more, or none.                                *)
LEMMA ServerTakesAnswers ==
  ASSUME NEW E \in Cuts, SharerHalf(E), NEW s \in DOMAIN sSockets, ServerTakes(s)
  PROVE  /\ sReplies' \in Seq(Seq(SharerReplies)) /\ Len(sReplies') = Len(sSockets)
         /\ \A i \in 1 .. Len(sSockets) : AnswerInv(i)'
<1>1. PICK m : m = up[s][1]
  OBVIOUS
<1>2. PICK n : n = Len(sSockets)
  OBVIOUS
<1>3. /\ sStage' = sStage /\ sAttempt' = sAttempt /\ sSockets' = sSockets /\ eventNo' = eventNo
      /\ up[s] # <<>> /\ up' = Taken(s)
  BY DEF ServerTakes, sharerVars, eventVars
<1>4. /\ s \in 1 .. n /\ n \in Nat /\ sReplies \in Seq(Seq(SharerReplies)) /\ Len(sReplies) = n
      /\ server \in ServerState
  BY <1>2 DEF SharerHalf, SharerTypes, Sharer!TypeOK, ServerTypes
<1>5. \A i \in 1 .. n : AnswerInv(i)
  BY <1>2 DEF SharerHalf, UpInv
<1>6. /\ Len(up') = n /\ Len(up) = n
      /\ \A i \in 1 .. n : i # s => up'[i] = up[i] \/ (up'[i] = <<>> /\ m.kind = "resume")
      /\ \A i \in 1 .. n : i < s /\ m.kind = "resume" => up'[i] = <<>>
      /\ up'[s] # <<>> =>
           /\ m.kind = "event"
           /\ up'[s][1].kind \in {"end", "event"}
  <2>1. Len(up) = n
    BY <1>2 DEF SharerHalf, SentInv
  <2> QED
    BY <1>1, <1>2, <1>3, <2>1, TakenQueues
<1>7. \A i \in 1 .. n : Resuming(i)' => i # s /\ Resuming(i)
  BY <1>6 DEF Resuming
<1>8. CASE m.kind # "resume"
  <2>1. server'.phase = "none" => server.phase = "none"
    BY <1>1, <1>8, ServerTakesDoes
  <2>2. CASE sReplies' = sReplies
    <3>1. \A i \in 1 .. n : Answers(i)' = Answers(i) /\ sReplies'[i] = sReplies[i]
      BY <2>2 DEF Answers
    <3>2. sStage = "Reconnecting" => \A i \in 1 .. n : Answers(i) = {}
      BY <1>3, <1>4, <1>5, <1>6 DEF AnswerInv
    <3>3. ASSUME NEW i \in 1 .. n
          PROVE  AnswerInv(i)'
      BY <1>3, <1>5, <1>7, <2>1, <3>1, <3>2 DEF AnswerInv, Sharer!Newest
    <3> QED
      BY <1>2, <1>4, <2>2, <3>3 DEF SharerHalf, SharerTypes
  <2>3. CASE /\ m.kind = "start"
             /\ \/ /\ server'.phase = "live"
                   /\ sReplies' = [sReplies EXCEPT ![s] = Append(@, Reply("started"))]
                \/ sReplies' = [sReplies EXCEPT ![s] = Append(@, Reply("refused"))]
    <3>1. PICK kind \in {"started", "refused"} :
            /\ sReplies' = [sReplies EXCEPT ![s] = Append(@, Reply(kind))]
            /\ kind = "started" => server'.phase = "live"
      BY <2>3
    <3>2. PICK old, new : old = sReplies[s] /\ new = Append(old, Reply(kind))
      OBVIOUS
    <3>3. old \in Seq(SharerReplies) /\ Adds(old, new, kind)
      BY <1>4, <3>2 DEF Adds
    <3>4. /\ new \in Seq(SharerReplies)
          /\ {i \in 1 .. Len(new) : new[i].kind = "resumed"}
             = {i \in 1 .. Len(old) : old[i].kind = "resumed"}
          /\ \A i \in 1 .. Len(old) : i \in 1 .. Len(new) /\ new[i] = old[i]
          /\ \A i \in 1 .. Len(new) : i \in 1 .. Len(old) \/ new[i].kind = kind
      <4>1. kind \in {"started", "refused", "terminated"}
        OBVIOUS
      <4> QED
        BY <3>3, <4>1, AddedReply
    <3>5. sReplies' = [sReplies EXCEPT ![s] = new]
      BY <3>1, <3>2
    <3>6. /\ sReplies' \in Seq(Seq(SharerReplies)) /\ Len(sReplies') = n
          /\ sReplies'[s] = new /\ \A i \in 1 .. n : i # s => sReplies'[i] = sReplies[i]
      BY <1>4, <3>4, <3>5
    <3>7. /\ \A i \in 1 .. n : i # s => Answers(i)' = Answers(i)
          /\ Answers(s)' = Answers(s)
      BY <3>2, <3>4, <3>6 DEF Answers
    <3>8. \A i \in 1 .. n : Answers(i)' = Answers(i)
      BY <3>7
    <3>9. sStage = "Reconnecting" => \A i \in 1 .. n : Answers(i) = {}
      BY <1>3, <1>4, <1>5, <1>6 DEF AnswerInv
    <3>10. ASSUME NEW i \in 1 .. n, server'.phase = "none"
           PROVE  \A j \in 1 .. Len(sReplies'[i]) :
                    sReplies'[i][j].kind \notin {"started", "resumed"}
      <4>1. \A j \in 1 .. Len(sReplies[i]) : sReplies[i][j].kind \notin {"started", "resumed"}
        BY <1>5, <2>1, <3>10 DEF AnswerInv
      <4>2. kind = "refused"
        BY <3>1, <3>10
      <4>3. CASE i = s
        <5>1. sReplies'[i] = new /\ sReplies[i] = old
          BY <3>2, <3>6, <4>3
        <5>2. \A j \in 1 .. Len(new) : new[j].kind \notin {"started", "resumed"}
          BY <3>4, <4>1, <4>2, <5>1
        <5> QED
          BY <5>1, <5>2
      <4>4. CASE i # s
        BY <3>6, <4>1, <4>4
      <4> QED
        BY <4>3, <4>4
    <3>11. ASSUME NEW i \in 1 .. n
           PROVE  AnswerInv(i)'
      BY <1>3, <1>5, <1>7, <3>8, <3>9, <3>10 DEF AnswerInv, Sharer!Newest
    <3> QED
      BY <1>2, <3>6, <3>11
  <2> QED
    BY <1>1, <1>8, <2>2, <2>3, ServerTakesDoes
<1>9. CASE m.kind = "resume"
  <2>1. PICK r : r = IF server.phase = "live" THEN Resumed(Latest) ELSE Reply("refused")
    OBVIOUS
  <2>2. server' = server /\ sReplies' = [sReplies EXCEPT ![s] = Append(@, r)]
    BY <1>1, <1>9, <2>1, ServerTakesDoes
  <2>3. /\ Latest \in Int /\ Latest = Len(server.received) - 1
        /\ server.phase \in {"none", "live", "ended"}
    BY <1>4 DEF ServerState, Latest
  <2>4. /\ r \in SharerReplies /\ r.kind \in {"resumed", "refused"}
        /\ r.kind = "resumed" => r.last = Len(server.received) - 1 /\ server.phase = "live"
    BY <2>1, <2>3 DEF Resumed, Reply, SharerReplies
  <2>5. PICK old, new : old = sReplies[s] /\ new = Append(old, r)
    OBVIOUS
  <2>6. old \in Seq(SharerReplies)
    BY <1>4, <2>5
  <2>7. /\ new \in Seq(SharerReplies) /\ Len(new) = Len(old) + 1 /\ Len(old) \in Nat
        /\ \A i \in 1 .. Len(old) : new[i] = old[i]
        /\ new[Len(old) + 1] = r
    BY <2>4, <2>5, <2>6
  <2>8. \A i \in 1 .. Len(new) : i \in 1 .. Len(old) \/ i = Len(old) + 1
    BY <2>7
  <2>9. sReplies' = [sReplies EXCEPT ![s] = new]
    BY <2>2, <2>5
  <2>10. /\ sReplies' \in Seq(Seq(SharerReplies)) /\ Len(sReplies') = n
         /\ sReplies'[s] = new /\ \A i \in 1 .. n : i # s => sReplies'[i] = sReplies[i]
    BY <1>4, <2>7, <2>9
  <2>11. Resuming(s) /\ Answers(s) = {}
    <3>1. Resuming(s)
      BY <1>1, <1>3, <1>9 DEF Resuming
    <3> QED
      BY <1>4, <1>5, <3>1 DEF AnswerInv
  <2>12. \A i \in Answers(s)' : i = Len(old) + 1 /\ new[i].last = Len(server.received) - 1
    <3>1. \A i \in 1 .. Len(old) : old[i].kind # "resumed"
      BY <2>5, <2>11 DEF Answers
    <3> QED
      BY <2>4, <2>7, <2>8, <2>10, <3>1 DEF Answers
  <2>13. /\ sStage \in {"Reconnecting", "Finished"}
         /\ sStage = "Reconnecting" => s = n /\ sAttempt = "none"
    BY <1>2, <1>4, <1>5, <2>11 DEF AnswerInv, Sharer!Newest
  <2>14. sStage = "Reconnecting" => \A i \in 1 .. n : up'[i] = <<>>
    <3> SUFFICES ASSUME sStage = "Reconnecting", NEW i \in 1 .. n
                 PROVE  up'[i] = <<>>
      OBVIOUS
    <3>1. s = n
      BY <2>13
    <3>2. i < s \/ i = s
      BY <1>4, <3>1
    <3> QED
      BY <1>6, <1>9, <3>2
  <2>15. AnswerInv(s)'
    <3>1. ~Resuming(s)'
      BY <1>4, <1>7
    <3>2. \A i, j \in Answers(s)' : i = j
      BY <2>12
    <3>3. sStage' = "Reconnecting" => \A i \in Answers(s)' :
            /\ \A k \in 1 .. Len(up') : up'[k] = <<>>
            /\ sReplies'[s][i].last = Len(server'.received) - 1
      BY <1>3, <1>6, <2>2, <2>10, <2>12, <2>14
    <3>4. server'.phase = "none" => \A i \in 1 .. Len(sReplies'[s]) :
            sReplies'[s][i].kind \notin {"started", "resumed"}
      <4>1. server.phase = "none" => \A i \in 1 .. Len(old) :
              old[i].kind \notin {"started", "resumed"}
        BY <1>4, <1>5, <2>5 DEF AnswerInv
      <4> QED
        BY <2>2, <2>4, <2>7, <2>8, <2>10, <4>1
    <3> QED
      BY <1>2, <1>3, <2>13, <3>1, <3>2, <3>3, <3>4 DEF AnswerInv, Sharer!Newest
  <2>16. ASSUME NEW i \in 1 .. n, i # s
         PROVE  AnswerInv(i)'
    <3>1. AnswerInv(i)
      BY <1>5
    <3>2. Answers(i)' = Answers(i) /\ sReplies'[i] = sReplies[i]
      BY <2>10, <2>16 DEF Answers
    <3>3. sStage = "Reconnecting" => Answers(i) = {}
      BY <1>2, <2>13, <2>16, <3>1 DEF AnswerInv, Sharer!Newest
    <3> QED
      BY <1>3, <1>7, <2>2, <3>1, <3>2, <3>3 DEF AnswerInv, Sharer!Newest
  <2> QED
    BY <1>2, <2>10, <2>15, <2>16
<1> QED
  BY <1>8, <1>9

LEMMA ServerTakesKeeps ==
  ASSUME NEW E \in Cuts, SharerHalf(E), NEW s \in DOMAIN sSockets, ServerTakes(s)
  PROVE  SharerHalf(E)'
<1>1. PICK m : m = up[s][1]
  OBVIOUS
<1>2. PICK n, received : n = Len(sSockets) /\ received = server.received
  OBVIOUS
<1>3. /\ sStage' = sStage /\ sAttempt' = sAttempt /\ sSockets' = sSockets /\ sTx' = sTx
      /\ sSpare' = sSpare /\ output' = output /\ batch' = batch /\ bytes' = bytes
      /\ eventNo' = eventNo /\ unacked' = unacked /\ restarts' = restarts
      /\ up[s] # <<>> /\ up' = Taken(s)
  BY DEF ServerTakes, sharerVars, eventVars
<1>4. /\ s \in 1 .. n /\ n \in Nat /\ server \in ServerState /\ Len(up) = n
      /\ received \in Seq(Seq(Outputs)) /\ eventNo \in Nat /\ Len(received) <= eventNo
      /\ up \in Seq(Seq(Messages(E)))
  BY <1>2 DEF SharerHalf, SharerTypes, Sharer!TypeOK, ServerTypes, ServerState, SentInv, CutInv,
              ReceivedInv
<1>5. /\ m \in Messages(E)
      /\ server' \in ServerState
      /\ server'.scrollback = server.scrollback /\ server'.processed = server.processed
      /\ \/ /\ m.kind = "start" /\ server.phase = "none" /\ s = 1
            /\ server'.phase \in {"none", "live"} /\ server'.received = received
         \/ m.kind = "resume" /\ server' = server
         \/ /\ m.kind = "event" /\ server.phase # "none" /\ server'.phase = server.phase
            /\ \/ /\ server.phase = "live" /\ m.no = Len(received)
                  /\ server'.received = Append(received, Piece(E, m.no))
               \/ /\ ~(server.phase = "live" /\ m.no = Len(received))
                  /\ server'.received = received
         \/ /\ m.kind = "end" /\ server.phase # "none" /\ server'.phase = "ended"
            /\ server'.received = received
  BY <1>1, <1>2, ServerTakesDoes
<1>6. m.kind = "event" => m.no \in 0 .. eventNo - 1
  BY <1>5, EventIs
<1>7. m.kind = "event" =>
        /\ Piece(E, m.no) \in Seq(Outputs)
        /\ Len(Append(received, Piece(E, m.no))) = Len(received) + 1
  <2>1. CutInv(E)
    BY DEF SharerHalf
  <2> QED
    BY <1>4, <1>6, <2>1, PieceType
<1>8. /\ up' \in Seq(Seq(Messages(E))) /\ Len(up') = n
      /\ \A i \in 1 .. n :
           /\ up'[i] # <<>> => up[i] # <<>>
           /\ Consecutive(up'[i])
           /\ (\A j \in 1 .. Len(up[i]) : up[i][j].kind # "end")
              => (\A j \in 1 .. Len(up'[i]) : up'[i][j].kind # "end")
           /\ i # s => up'[i] = up[i] \/ (up'[i] = <<>> /\ m.kind = "resume")
      /\ up'[s] # <<>> =>
           /\ m.kind = "event"
           /\ \/ up'[s][1].kind = "end"
              \/ up'[s][1].kind = "event" /\ up'[s][1].no = m.no + 1
           /\ Len(up'[s]) = Len(up[s]) - 1
           /\ up'[s][Len(up'[s])] = up[s][Len(up[s])]
      /\ up'[s] = <<>> => Len(up[s]) = 1
  <2>1. up[s] # <<>> /\ up' = Taken(s) /\ eventNo' = eventNo
    BY <1>3
  <2>2. /\ up' \in Seq(Seq(Messages(E))) /\ Len(up') = Len(up)
        /\ \A i \in 1 .. Len(sSockets) :
             /\ up'[i] # <<>> => up[i] # <<>>
             /\ Consecutive(up'[i])
             /\ (\A j \in 1 .. Len(up[i]) : up[i][j].kind # "end")
                => (\A j \in 1 .. Len(up'[i]) : up'[i][j].kind # "end")
             /\ i # s => up'[i] = up[i] \/ (up'[i] = <<>> /\ up[s][1].kind = "resume")
             /\ i < s /\ up[s][1].kind = "resume" => up'[i] = <<>>
        /\ up'[s] # <<>> =>
             /\ up[s][1].kind = "event"
             /\ \/ up'[s][1].kind = "end"
                \/ up'[s][1].kind = "event" /\ up'[s][1].no = up[s][1].no + 1
             /\ Len(up'[s]) = Len(up[s]) - 1
             /\ up'[s][Len(up'[s])] = up[s][Len(up[s])]
        /\ up'[s] = <<>> => Len(up[s]) = 1
    BY <2>1, TakenQueues
  <2>3. Len(up) = n /\ Len(sSockets) = n
    BY <1>2, <1>4
  <2> QED
    BY <1>1, <2>2, <2>3
<1>9. SharerTypes' /\ ServerTypes'
  <2>1. sReplies' \in Seq(Seq(SharerReplies)) /\ Len(sReplies') = Len(sSockets)
    BY ServerTakesAnswers
  <2> QED
    BY <1>3, <1>5, <2>1 DEF SharerHalf, SharerTypes, ServerTypes, Sharer!TypeOK
<1>10. CutInv(E)' /\ TerminalInv' /\ LimitInv(E)'
  BY <1>3, <1>5, TerminalKept
<1>11. KeptInv(E)'
  BY <1>3, <1>5 DEF SharerHalf, KeptInv
<1>12. ReceivedInv(E)'
  <2>1. CASE server'.received = received
    BY <1>2, <1>3, <1>5, <2>1 DEF SharerHalf, ReceivedInv
  <2>2. CASE /\ m.kind = "event" /\ m.no = Len(received)
             /\ server'.received = Append(received, Piece(E, m.no))
    <3>1. PICK k, piece, more :
            k = Len(received) /\ piece = Piece(E, k) /\ more = Append(received, piece)
      OBVIOUS
    <3>2. received = [i \in 1 .. k |-> Piece(E, i - 1)] /\ k \in Nat
      BY <1>2, <1>4, <3>1 DEF SharerHalf, ReceivedInv
    <3>3. piece \in Seq(Outputs)
      BY <1>7, <2>2, <3>1
    <3>4. /\ more \in Seq(Seq(Outputs)) /\ Len(more) = k + 1
          /\ \A i \in 1 .. k : more[i] = received[i]
          /\ more[k + 1] = piece
      BY <1>4, <3>1, <3>3
    <3>5. \A i \in 1 .. k + 1 : more[i] = Piece(E, i - 1)
      <4> TAKE i \in 1 .. k + 1
      <4>1. CASE i \in 1 .. k
        BY <3>2, <3>4, <4>1
      <4>2. CASE i = k + 1
        <5>1. i - 1 = k
          BY <3>2, <4>2
        <5> QED
          BY <3>1, <3>4, <4>2, <5>1, Zenon
      <4> QED
        BY <3>2, <4>1, <4>2
    <3>6. more = [i \in 1 .. k + 1 |-> Piece(E, i - 1)]
      <4>1. DOMAIN more = 1 .. k + 1 /\ more = [i \in DOMAIN more |-> more[i]]
        BY <3>4
      <4> QED
        BY <3>5, <4>1
    <3>7. server'.received = more
      BY <2>2, <3>1
    <3>8. k + 1 <= eventNo
      BY <1>4, <1>6, <2>2, <3>1
    <3>9. server.processed <= k + 1
      <4>1. server.processed \in Nat /\ server.processed <= k
        BY <1>2, <1>4, <3>1 DEF SharerHalf, ReceivedInv, ServerState
      <4> QED
        BY <3>2, <4>1
    <3> QED
      BY <1>3, <1>5, <3>4, <3>6, <3>7, <3>8, <3>9 DEF ReceivedInv
  <2> QED
    BY <1>2, <1>5, <2>1, <2>2
<1>13. SentInv(E)'
  <2>1. Messages(E)' = Messages(E)
    BY <1>3 DEF Messages, Sent
  <2> QED
    BY <1>2, <1>3, <1>8, <2>1 DEF SentInv
<1>14. \A i \in 1 .. n : QueueInv(i)
  BY <1>2 DEF SharerHalf, UpInv
<1>15. ASSUME NEW i \in 1 .. n
       PROVE  QueueInv(i)'
  <2>1. sSockets'[i] # "open" => up'[i] = <<>>
    BY <1>3, <1>8, <1>14 DEF QueueInv
  <2>2. sStage' # "Finished" => \A j \in 1 .. Len(up'[i]) : up'[i][j].kind # "end"
    BY <1>3, <1>8, <1>14 DEF QueueInv
  <2>3. CASE up'[i] = <<>>
    BY <1>8, <2>1, <2>2, <2>3 DEF QueueInv
  <2>4. CASE up'[i] # <<>> /\ i = s
    <3>1. m.kind = "event" /\ server'.phase # "none" /\ server'.phase = server.phase
      BY <1>5, <1>8, <2>4
    <3>2. up'[i][1].kind = "event" /\ server'.phase = "live"
          => up'[i][1].no <= Len(server'.received)
      <4> SUFFICES ASSUME up'[i][1].kind = "event", server'.phase = "live"
                   PROVE  up'[i][1].no <= Len(server'.received)
        OBVIOUS
      <4>1. up'[i][1].no = m.no + 1
        BY <1>8, <2>4
      <4>2. m.no <= Len(received)
        BY <1>1, <1>2, <1>3, <1>4, <1>14, <3>1 DEF QueueInv
      <4>3. CASE m.no = Len(received)
        <5>1. Len(server'.received) = Len(received) + 1
          BY <1>5, <1>7, <3>1, <4>3
        <5> QED
          BY <1>4, <4>1, <4>3, <5>1
      <4>4. CASE m.no # Len(received)
        <5>1. server'.received = received
          BY <1>5, <3>1, <4>4
        <5> QED
          BY <1>4, <1>6, <3>1, <4>1, <4>2, <4>4, <5>1
      <4> QED
        BY <4>3, <4>4
    <3>3. up'[i][1].kind # "start"
      BY <1>8, <2>4
    <3> QED
      BY <1>8, <2>1, <2>2, <3>1, <3>2, <3>3 DEF QueueInv
  <2>5. CASE up'[i] # <<>> /\ i # s
    <3>1. up'[i] = up[i]
      BY <1>8, <2>5
    <3>2. QueueInv(i)
      BY <1>14
    <3>3. up[i][1].kind \in {"event", "end"} => server'.phase # "none"
      BY <1>5, <2>5, <3>1, <3>2 DEF QueueInv
    <3>4. up[i][1].kind = "start" => i = 1 /\ server'.phase = "none"
      BY <1>5, <2>5, <3>1, <3>2 DEF QueueInv
    <3>5. ASSUME up[i][1].kind = "event", server'.phase = "live"
          PROVE  up[i][1].no <= Len(server'.received)
      <4>1. server.phase = "live"
        BY <1>5, <2>5, <3>1, <3>2, <3>5 DEF QueueInv
      <4>2. up[i][1].no <= Len(received)
        BY <1>2, <2>5, <3>1, <3>2, <3>5, <4>1 DEF QueueInv
      <4>3. up[i][1].no \in Nat
        <5>1. up[i][1] \in Messages(E)
          BY <1>4, <2>5, <3>1
        <5>2. up[i][1].no \in 0 .. eventNo - 1
          BY <3>5, <5>1, EventIs
        <5> QED
          BY <1>4, <5>2
      <4>4. Len(server'.received) \in {Len(received), Len(received) + 1} /\ Len(received) \in Nat
        BY <1>2, <1>4, <1>5, <1>7
      <4> QED
        BY <4>2, <4>3, <4>4
    <3> QED
      BY <1>8, <2>1, <2>2, <3>1, <3>3, <3>4, <3>5 DEF QueueInv
  <2> QED
    BY <2>3, <2>4, <2>5
<1>16. \A i \in 1 .. n : AnswerInv(i)'
  BY <1>2, ServerTakesAnswers
<1>17. BeforeInv'
  <2>1. sSockets # <<>>
    BY <1>2, <1>4
  <2>2. server'.phase = "none" => server.phase = "none" /\ server'.received = received
    BY <1>2, <1>5
  <2>3. ASSUME sStage = "Before"
        PROVE  /\ server'.received = received
               /\ \A i \in 1 .. n : up'[i] # <<>> => up'[i] = up[i]
    <3>1. m.kind = "start"
      BY <1>1, <1>3, <1>4, <2>3 DEF SharerHalf, UpInv, BeforeInv
    <3> QED
      BY <1>5, <1>8, <3>1
  <2> QED
    BY <1>2, <1>3, <1>4, <1>8, <2>1, <2>2, <2>3 DEF SharerHalf, UpInv, BeforeInv
<1>18. ConnectedInv'
  <2> SUFFICES ASSUME sStage = "Connected", Sharer!Writable'
               PROVE  /\ up'[n] = <<>> /\ server'.phase = "live"
                         => Len(server'.received) = eventNo
                      /\ up'[n] # <<>> =>
                           /\ up'[n][Len(up'[n])].kind = "event"
                           /\ up'[n][Len(up'[n])].no = eventNo - 1
    BY <1>2, <1>3 DEF SharerHalf, UpInv, ConnectedInv, Sharer!Newest
  <2>1. /\ up[n] = <<>> /\ server.phase = "live" => Len(received) = eventNo
        /\ up[n] # <<>> => up[n][Len(up[n])].kind = "event" /\ up[n][Len(up[n])].no = eventNo - 1
    BY <1>2, <1>3 DEF SharerHalf, UpInv, ConnectedInv, Sharer!Newest, Sharer!Writable
  <2>2. n \in 1 .. n
    BY <1>4
  <2>3. m.kind # "resume"
    <3>1. AnswerInv(s)
      BY <1>2, <1>4 DEF SharerHalf, UpInv
    <3> QED
      BY <1>1, <1>3, <3>1 DEF AnswerInv, Resuming
  <2>4. m.kind # "start"
    BY <1>5 DEF SharerHalf, UpInv, BeforeInv
  <2>5. server'.phase = "live" => server.phase = "live"
    BY <1>5, <2>4
  <2>6. CASE n # s
    <3>1. up'[n] = up[n]
      BY <1>8, <2>2, <2>3, <2>6
    <3>2. ASSUME up[n] = <<>>, server'.phase = "live"
          PROVE  server'.received = received
      <4>1. Len(received) = eventNo
        BY <2>1, <2>5, <3>2
      <4>2. m.kind = "event" => m.no # Len(received)
        BY <1>4, <1>6, <4>1
      <4> QED
        BY <1>2, <1>5, <4>2
    <3> QED
      BY <2>1, <2>5, <3>1, <3>2
  <2>7. CASE n = s
    <3>1. CASE up'[n] # <<>>
      BY <1>3, <1>8, <2>1, <2>7, <3>1
    <3>2. CASE up'[n] = <<>>
      <4>1. m.kind = "event" /\ m.no = eventNo - 1
        BY <1>1, <1>3, <1>8, <2>1, <2>7, <3>2
      <4>2. ASSUME server'.phase = "live"
            PROVE  Len(server'.received) = eventNo
        <5>1. m.no <= Len(received)
          BY <1>1, <1>2, <1>3, <1>4, <1>14, <2>5, <4>1, <4>2 DEF QueueInv
        <5>2. CASE m.no = Len(received)
          BY <1>4, <1>5, <1>7, <2>5, <4>1, <4>2, <5>2
        <5>3. CASE m.no # Len(received)
          BY <1>4, <1>5, <4>1, <5>1, <5>3
        <5> QED
          BY <5>2, <5>3
      <4> QED
        BY <3>2, <4>2
    <3> QED
      BY <3>1, <3>2
  <2> QED
    BY <2>6, <2>7
<1> QED
  BY <1>2, <1>3, <1>9, <1>10, <1>11, <1>12, <1>13, <1>15, <1>16, <1>17, <1>18
     DEF SharerHalf, UpInv
==============================================================================
