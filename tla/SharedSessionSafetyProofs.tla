----------------------- MODULE SharedSessionSafetyProofs -----------------------
(* Theorems about SharedSession, for any terminal, limit and scenarios: the *)
(* sharer's own steps keep the invariant of SharedSessionProofs, so do all, *)
(* and what follows: no gap, no lost event, no excess, and the viewer is    *)
(* shown the sharer's output in order, whichever end reconnects, whatever   *)
(* the server forgets and in whatever order events come.                    *)
EXTENDS SharedSessionProofs

-----------------------------------------------------------------------------
(* The sharer reads an answer.                                             *)

(* What is kept from what the server has on is all there is.               *)
FlushEnd(n) == Min({m \in n .. Max({n, eventNo}) : m \notin DOMAIN unacked})
FlushRun(n) == [i \in 1 .. FlushEnd(n) - n |-> Event(n + i - 1, unacked[n + i - 1])]

LEMMA FlushedEvents ==
  ASSUME NEW E \in Cuts, SharerHalf(E), NEW n, n = Len(server.received)
  PROVE  /\ n \in Nat /\ eventNo \in Nat /\ n <= eventNo
         /\ FlushRun(n) \in Seq(Messages(E)) /\ Len(FlushRun(n)) = eventNo - n
         /\ \A i \in 1 .. eventNo - n :
              FlushRun(n)[i].kind = "event" /\ FlushRun(n)[i].no = n + i - 1
<1>0. PICK end, run : /\ end = FlushEnd(n) /\ run = FlushRun(n)
                      /\ run = [i \in 1 .. end - n |-> Event(n + i - 1, unacked[n + i - 1])]
  BY DEF FlushRun
<1>1. PICK D : D = DOMAIN unacked
  OBVIOUS
<1>2. /\ n \in Nat /\ eventNo \in Nat /\ n <= eventNo /\ server.processed \in Nat
      /\ server.processed <= n /\ D \subseteq 0 .. eventNo - 1
      /\ server.processed .. eventNo - 1 \subseteq D
      /\ \A m \in D : unacked[m] = Piece(E, m)
  BY <1>1 DEF SharerHalf, ServerTypes, ServerState, CutInv, ReceivedInv, KeptInv
<1>3. Max({n, eventNo}) = eventNo
  <2>1. n \in Int /\ eventNo \in Int
    BY <1>2
  <2>2. Max({n, eventNo}) = IF n >= eventNo THEN n ELSE eventNo
    BY ONLY <2>1, MaxOfTwo
  <2> QED
    BY <1>2, <2>2
<1>4. end \in n .. eventNo /\ end \notin D /\ n .. end - 1 \subseteq D
  <2>1. eventNo \in n .. eventNo /\ eventNo \notin D
    BY <1>2
  <2>2. end = Min({m \in n .. eventNo : m \notin D})
    BY <1>0, <1>1, <1>3 DEF FlushEnd
  <2>3. n \in Nat /\ eventNo \in Nat
    BY <1>2
  <2> QED
    BY ONLY <2>1, <2>2, <2>3, MissingIs
<1>5. end = eventNo
  BY <1>2, <1>4
<1>6. ASSUME NEW i \in 1 .. eventNo - n
      PROVE  /\ run[i] \in Messages(E) /\ run[i].kind = "event" /\ run[i].no = n + i - 1
  <2>1. PICK m : m = n + i - 1
    OBVIOUS
  <2>2. m \in 0 .. eventNo - 1 /\ m \in n .. end - 1
    BY <1>2, <1>5, <2>1
  <2>3. run[i] = Event(m, Piece(E, m))
    BY <1>0, <1>2, <1>4, <1>5, <2>1, <2>2
  <2>4. Event(m, Piece(E, m)) \in Messages(E)
    BY <2>2 DEF Messages, Sent
  <2>5. Event(m, Piece(E, m)).kind = "event" /\ Event(m, Piece(E, m)).no = m
    BY DEF Event
  <2> QED
    BY <2>1, <2>3, <2>4, <2>5
<1>7. run \in Seq(Messages(E)) /\ Len(run) = eventNo - n
  <2>1. PICK k, r : k = eventNo - n /\ r = run
    OBVIOUS
  <2>2. r = [i \in 1 .. k |-> r[i]]
    BY <1>0, <1>5, <2>1
  <2>3. k \in Nat
    BY <1>2, <2>1
  <2>4. \A i \in 1 .. k : r[i] \in Messages(E)
    BY ONLY <1>6, <2>1, Zenon
  <2>5. r \in Seq(Messages(E)) /\ Len(r) = k
    BY ONLY <2>2, <2>3, <2>4
  <2> QED
    BY <2>1, <2>5
<1> QED
  BY <1>0, <1>2, <1>6, <1>7

(* A session that starts or goes on: all that the server lacks is sent.    *)
LEMMA ConfirmedKeeps ==
  ASSUME NEW E \in Cuts, SharerHalf(E), Sharer!Confirmed,
         UNCHANGED <<eventVars, serverVars>>,
         NEW n, Flush(n), Sharer!Writable => n = Len(server.received),
         sStage # "Finished", sAttempt = "none", sSockets # <<>>, server.phase # "none",
         \A r \in 1 .. Len(up) : up[r] = <<>>,
         sReplies' \in Seq(Seq(SharerReplies)), Len(sReplies') = Len(sSockets),
         \A r \in 1 .. Len(sSockets) : Answers(r)' = {}
  PROVE  SharerHalf(E)'
<1>1. /\ sStage' = "Connected" /\ sAttempt' = sAttempt /\ sSockets' = sSockets /\ sTx' = sTx
      /\ sSpare' = sSpare /\ output' = output /\ batch' = batch /\ bytes' = bytes
      /\ eventNo' = eventNo /\ unacked' = unacked /\ server' = server /\ restarts' = restarts
  BY DEF Sharer!Confirmed, eventVars, serverVars
<1>2. PICK new : new = Len(sSockets)
  OBVIOUS
<1>3. /\ new \in Nat \ {0} /\ up \in Seq(Seq(Messages(E))) /\ Len(up) = new
      /\ sSockets \in Seq({"open", "closed", "ended"})
      /\ \A r \in 1 .. new : up[r] = <<>>
  BY <1>2 DEF SharerHalf, SharerTypes, Sharer!TypeOK, SentInv
<1>4. SharerTypes' /\ ServerTypes'
  BY <1>1 DEF SharerHalf, SharerTypes, ServerTypes, Sharer!TypeOK
<1>5. CutInv(E)' /\ TerminalInv' /\ LimitInv(E)'
  BY <1>1, TerminalKept
<1>6. KeptInv(E)' /\ ReceivedInv(E)'
  BY <1>1, CopiesKept
<1>7. Messages(E)' = Messages(E)
  BY <1>1 DEF Messages, Sent
<1>8. PICK run : run = IF Sharer!Writable THEN up'[new] ELSE <<>>
  OBVIOUS
<1>9. /\ run \in Seq(Messages(E))
      /\ run # <<>> => sSockets[new] = "open"
      /\ \A i \in 1 .. Len(run) : /\ run[i].kind = "event"
                                  /\ run[i].no = Len(server.received) + i - 1
      /\ Sharer!Writable => Len(run) = eventNo - Len(server.received)
      /\ up' = [up EXCEPT ![new] = run]
  <2>1. CASE ~Sharer!Writable
    <3>1. up' = up /\ run = <<>> /\ up[new] = <<>>
      BY <1>3, <1>8, <2>1 DEF Flush
    <3> QED
      BY <1>3, <2>1, <3>1
  <2>2. CASE Sharer!Writable
    <3>1. n = Len(server.received)
      BY <2>2
    <3>2. PICK events : events = FlushRun(n)
      OBVIOUS
    <3>3. /\ n \in Nat /\ eventNo \in Nat /\ n <= eventNo
          /\ events \in Seq(Messages(E)) /\ Len(events) = eventNo - n
          /\ \A i \in 1 .. eventNo - n : events[i].kind = "event" /\ events[i].no = n + i - 1
      BY <3>1, <3>2, FlushedEvents
    <3>4. up' = [up EXCEPT ![new] = @ \o events]
      BY <1>2, <2>2, <3>2 DEF Flush, FlushRun, FlushEnd, Sharer!Newest
    <3>5. up[new] = <<>> /\ <<>> \o events = events
      BY <1>3, <3>3
    <3>6. up' = [up EXCEPT ![new] = events]
      BY <3>4, <3>5
    <3>7. run = events
      BY <1>3, <1>8, <2>2, <3>6
    <3>8. sSockets[new] = "open"
      BY <1>2, <2>2 DEF Sharer!Writable, Sharer!Newest
    <3> QED
      BY <3>1, <3>3, <3>6, <3>7, <3>8
  <2> QED
    BY <2>1, <2>2
<1>10. /\ up' \in Seq(Seq(Messages(E))) /\ Len(up') = new /\ up'[new] = run
       /\ \A r \in 1 .. new : r # new => up'[r] = <<>>
  BY <1>3, <1>9
<1>11. SentInv(E)'
  BY <1>1, <1>2, <1>7, <1>10 DEF SentInv
<1>12. Consecutive(run)
  <2>1. Len(run) \in Nat
    BY <1>9
  <2>2. \A i \in 1 .. Len(run) - 1 : i \in 1 .. Len(run) /\ i + 1 \in 1 .. Len(run)
    BY <2>1
  <2>3. Len(server.received) \in Nat
    BY DEF SharerHalf, ServerTypes, ServerState
  <2>4. \A i \in 1 .. Len(run) - 1 :
          Len(server.received) + (i + 1) - 1 = Len(server.received) + i - 1 + 1
    BY <2>3
  <2> QED
    BY <1>9, <2>2, <2>4 DEF Consecutive
<1>13. run # <<>> => run[1].kind = "event" /\ run[1].no = Len(server.received)
  <2>1. run # <<>> => 1 \in 1 .. Len(run)
    BY <1>9
  <2>2. Len(server.received) \in Nat
    BY DEF SharerHalf, ServerTypes, ServerState
  <2>3. Len(server.received) + 1 - 1 = Len(server.received)
    BY <2>2
  <2> QED
    BY <1>9, <2>1, <2>3
<1>14. ASSUME NEW r \in 1 .. new
       PROVE  QueueInv(r)' /\ AnswerInv(r)'
  <2>1. CASE up'[r] = <<>>
    <3>1. QueueInv(r)'
      BY <2>1 DEF QueueInv, Consecutive
    <3>2. ~Resuming(r)' /\ Answers(r)' = {}
      BY <1>2, <2>1 DEF Resuming
    <3> QED
      BY <1>1, <3>1, <3>2 DEF AnswerInv
  <2>2. CASE up'[r] # <<>>
    <3>1. r = new /\ up'[r] = run /\ run # <<>>
      BY <1>10, <2>2
    <3>2. Len(server.received) <= Len(server.received)
      BY DEF SharerHalf, ServerTypes, ServerState
    <3>3. QueueInv(r)'
      BY <1>1, <1>9, <1>12, <1>13, <3>1, <3>2 DEF QueueInv
    <3>4. ~Resuming(r)' /\ Answers(r)' = {}
      BY <1>2, <1>13, <3>1 DEF Resuming
    <3> QED
      BY <1>1, <3>3, <3>4 DEF AnswerInv
  <2> QED
    BY <2>1, <2>2
<1>15. BeforeInv'
  BY <1>1 DEF BeforeInv
<1>16. ConnectedInv'
  <2> SUFFICES ASSUME Sharer!Writable
               PROVE  /\ run = <<>> => Len(server.received) = eventNo
                      /\ run # <<>> => run[Len(run)].kind = "event"
                                       /\ run[Len(run)].no = eventNo - 1
    BY <1>1, <1>2, <1>10 DEF ConnectedInv, Sharer!Newest, Sharer!Writable
  <2>1. /\ Len(server.received) \in Nat /\ eventNo \in Nat /\ Len(run) \in Nat
        /\ Len(run) = eventNo - Len(server.received)
    BY <1>9 DEF SharerHalf, ServerTypes, ServerState, CutInv
  <2>2. ASSUME run # <<>>
        PROVE  run[Len(run)].kind = "event" /\ run[Len(run)].no = eventNo - 1
    <3>1. Len(run) \in 1 .. Len(run)
      BY <1>9, <2>2
    <3>2. Len(server.received) + Len(run) - 1 = eventNo - 1
      BY <2>1
    <3> QED
      BY <1>9, <3>1, <3>2
  <2> QED
    BY <2>1, <2>2
<1> QED
  BY <1>1, <1>2, <1>4, <1>5, <1>6, <1>11, <1>14, <1>15, <1>16 DEF SharerHalf, UpInv

LEMMA SharerReplyKeeps ==
  ASSUME NEW E \in Cuts, SharerHalf(E), NEW s \in DOMAIN sSockets, SharerReply(s)
  PROVE  SharerHalf(E)'
<1>1. /\ UNCHANGED <<eventVars, serverVars>> /\ sReplies[s] # <<>>
      /\ sReplies' = [sReplies EXCEPT ![s] = Tail(@)]
      /\ output' = output /\ batch' = batch /\ bytes' = bytes
      /\ eventNo' = eventNo /\ unacked' = unacked /\ server' = server /\ restarts' = restarts
  BY DEF SharerReply, eventVars, serverVars
<1>2. PICK n : n = Len(sSockets)
  OBVIOUS
<1>3. /\ n \in Nat /\ s \in 1 .. n /\ sReplies \in Seq(Seq(SharerReplies)) /\ Len(sReplies) = n
      /\ sSockets # <<>> /\ up \in Seq(Seq(Messages(E))) /\ Len(up) = n
      /\ server \in ServerState
  BY <1>2 DEF SharerHalf, SharerTypes, Sharer!TypeOK, SentInv, ServerTypes
<1>4. PICK old, new, reply : old = sReplies[s] /\ new = Tail(old) /\ reply = Head(old)
  OBVIOUS
<1>5. /\ old \in Seq(SharerReplies) /\ old # <<>>
      /\ new \in Seq(SharerReplies) /\ Len(new) = Len(old) - 1 /\ Len(old) \in Nat \ {0}
      /\ reply = old[1] /\ reply \in SharerReplies
      /\ \A i \in 1 .. Len(old) - 1 : new[i] = old[i + 1]
  <2>1. old \in Seq(SharerReplies) /\ old # <<>>
    BY <1>1, <1>3, <1>4
  <2> QED
    BY <1>4, <2>1, HeadIs
<1>6. /\ sReplies' \in Seq(Seq(SharerReplies)) /\ Len(sReplies') = n /\ sReplies'[s] = new
      /\ \A r \in 1 .. n : r # s => sReplies'[r] = sReplies[r]
  <2>1. sReplies' = [sReplies EXCEPT ![s] = new]
    BY <1>1, <1>4
  <2> QED
    BY <1>3, <1>5, <2>1
<1>7. \A i \in 1 .. Len(new) : i + 1 \in 1 .. Len(old) /\ new[i] = old[i + 1]
  BY <1>5
<1>8. \A r \in 1 .. n : r # s => Answers(r)' = Answers(r)
  BY <1>6 DEF Answers
<1>9. \A i \in Answers(s)' : i + 1 \in Answers(s) /\ sReplies'[s][i] = sReplies[s][i + 1]
  BY <1>4, <1>6, <1>7 DEF Answers
<1>10. \A r \in 1 .. n : AnswerInv(r) /\ QueueInv(r)
  BY <1>2 DEF SharerHalf, UpInv
<1>11. reply.kind = "resumed" => 1 \in Answers(s) /\ Answers(s)' = {}
  <2> SUFFICES ASSUME reply.kind = "resumed"
               PROVE  1 \in Answers(s) /\ Answers(s)' = {}
    OBVIOUS
  <2>1. 1 \in Answers(s)
    BY <1>4, <1>5 DEF Answers
  <2>2. \A i, j \in Answers(s) : i = j
    BY <1>3, <1>10 DEF AnswerInv
  <2>3. \A i \in Answers(s)' : i \in Nat \ {0} /\ i + 1 = 1
    <3>1. \A i \in Answers(s)' : i \in Nat \ {0}
      BY <1>5, <1>6 DEF Answers
    <3>2. \A i \in Answers(s)' : i + 1 = 1
      BY <1>9, <2>1, <2>2
    <3> QED
      BY <3>1, <3>2
  <2>4. \A i \in Answers(s)' : FALSE
    BY <2>3
  <2> QED
    BY <2>1, <2>4
<1>12. server.phase = "none" => reply.kind \notin {"started", "resumed"}
  <2>1. 1 \in 1 .. Len(old)
    BY <1>5
  <2>2. server.phase = "none" =>
          \A i \in 1 .. Len(old) : old[i].kind \notin {"started", "resumed"}
    BY <1>3, <1>4, <1>10 DEF AnswerInv
  <2> QED
    BY <1>5, <2>1, <2>2
<1>13. CASE reply.kind = "started" /\ sStage = "Before"
  <2>1. Sharer!Confirmed /\ Flush(0)
    BY <1>4, <1>13 DEF SharerReply
  <2>2. /\ sAttempt = "none" /\ server.phase # "none" /\ Len(server.received) = 0
        /\ \A r \in 1 .. Len(up) : up[r] # <<>> => up[r][1].kind = "start"
    BY <1>3, <1>12, <1>13 DEF SharerHalf, UpInv, BeforeInv
  <2>3. \A r \in 1 .. Len(up) : up[r] = <<>>
    BY <1>3, <1>10, <2>2 DEF QueueInv
  <2>4. \A r \in 1 .. n : Answers(r)' = {}
    BY <1>3, <1>8, <1>9, <1>10, <1>13 DEF AnswerInv
  <2>5. \A r \in 1 .. Len(sSockets) : Answers(r)' = {}
    BY <1>2, <2>4
  <2>6. Len(sReplies') = Len(sSockets) /\ sReplies' \in Seq(Seq(SharerReplies))
    BY <1>2, <1>6
  <2>7. Sharer!Writable => 0 = Len(server.received)
    BY <2>2
  <2>8. sStage # "Finished"
    BY <1>13
  <2> QED
    BY <1>1, <1>3, <2>1, <2>2, <2>3, <2>5, <2>6, <2>7, <2>8, ConfirmedKeeps, Zenon
<1>14. CASE reply.kind = "resumed" /\ sStage = "Reconnecting"
  <2>1. Sharer!Confirmed /\ Flush(reply.last + 1)
    BY <1>4, <1>14 DEF SharerReply
  <2>2. 1 \in Answers(s) /\ Answers(s)' = {}
    BY <1>11, <1>14
  <2>3. /\ s = n /\ sAttempt = "none"
        /\ \A r \in 1 .. Len(up) : up[r] = <<>>
        /\ sSockets[s] = "open" => reply.last = Len(server.received) - 1
    BY <1>2, <1>3, <1>4, <1>5, <1>10, <1>14, <2>2 DEF AnswerInv, Sharer!Newest
  <2>4. server.phase # "none"
    BY <1>12, <1>14
  <2>5. \A r \in 1 .. n : Answers(r)' = {}
    <3>1. \A r \in 1 .. n : r # s => Answers(r) = {}
      BY <1>2, <1>10, <1>14, <2>3 DEF AnswerInv, Sharer!Newest
    <3> QED
      BY <1>8, <2>2, <3>1
  <2>6. \A r \in 1 .. Len(sSockets) : Answers(r)' = {}
    BY <1>2, <2>5
  <2>7. Len(sReplies') = Len(sSockets) /\ sReplies' \in Seq(Seq(SharerReplies))
    BY <1>2, <1>6
  <2>8. Sharer!Writable => reply.last + 1 = Len(server.received)
    <3>1. Sharer!Writable => sSockets[s] = "open"
      BY <1>2, <2>3 DEF Sharer!Writable, Sharer!Newest
    <3>2. Len(server.received) - 1 + 1 = Len(server.received)
      BY <1>3 DEF ServerState
    <3> QED
      BY <2>3, <3>1, <3>2
  <2>9. sStage # "Finished"
    BY <1>14
  <2> QED
    BY <1>1, <1>3, <2>1, <2>3, <2>4, <2>6, <2>7, <2>8, <2>9, ConfirmedKeeps, Zenon
<1>15. \A r \in 1 .. n : Answers(r)' # {} => Answers(r) # {}
  BY <1>8, <1>9
<1>16. \A r \in 1 .. n : \A i, j \in Answers(r)' : i = j
  <2>1. \A i, j \in Answers(s)' : i = j
    <3>1. \A i, j \in Answers(s)' : i + 1 = j + 1
      BY <1>3, <1>9, <1>10 DEF AnswerInv
    <3>2. \A i \in Answers(s)' : i \in Nat
      BY <1>5, <1>6 DEF Answers
    <3> QED
      BY <3>1, <3>2
  <2> QED
    BY <1>8, <1>10, <2>1 DEF AnswerInv
<1>17. server.phase = "none" => \A r \in 1 .. n : \A i \in 1 .. Len(sReplies'[r]) :
         sReplies'[r][i].kind \notin {"started", "resumed"}
  <2> SUFFICES ASSUME server.phase = "none", NEW r \in 1 .. n
               PROVE  \A i \in 1 .. Len(sReplies'[r]) :
                        sReplies'[r][i].kind \notin {"started", "resumed"}
    OBVIOUS
  <2>1. \A i \in 1 .. Len(sReplies[r]) : sReplies[r][i].kind \notin {"started", "resumed"}
    BY <1>10 DEF AnswerInv
  <2>2. CASE r = s
    <3>1. sReplies'[r] = new /\ sReplies[r] = old
      BY <1>4, <1>6, <2>2
    <3>2. \A i \in 1 .. Len(new) : new[i].kind \notin {"started", "resumed"}
      BY <1>7, <2>1, <3>1
    <3> QED
      BY <3>1, <3>2
  <2>3. CASE r # s
    BY <1>6, <2>1, <2>3
  <2> QED
    BY <2>2, <2>3
<1>18. /\ ServerTypes' /\ KeptInv(E)' /\ ReceivedInv(E)' /\ Messages(E)' = Messages(E)
  <2>1. KeptInv(E)' /\ ReceivedInv(E)'
    BY <1>1, CopiesKept
  <2> QED
    BY <1>1, <2>1 DEF SharerHalf, ServerTypes, Messages, Sent
<1>19. CASE UNCHANGED <<sharerVars, up>>
  <2>1. /\ sStage' = sStage /\ sAttempt' = sAttempt /\ sSockets' = sSockets /\ sTx' = sTx
        /\ sSpare' = sSpare /\ up' = up
    BY <1>19 DEF sharerVars
  <2>2. SharerTypes'
    BY <1>2, <1>6, <2>1 DEF SharerHalf, SharerTypes, Sharer!TypeOK
  <2>3. CutInv(E)' /\ TerminalInv' /\ LimitInv(E)'
    BY <1>1, <2>1, TerminalKept
  <2>4. SentInv(E)'
    BY <1>18, <2>1 DEF SharerHalf, SentInv
  <2>5. ASSUME NEW r \in 1 .. n
        PROVE  QueueInv(r)' /\ AnswerInv(r)'
    <3>1. QueueInv(r)'
      BY <1>1, <1>10, <2>1 DEF QueueInv
    <3>2. AnswerInv(r) /\ (Resuming(r)' <=> Resuming(r))
      BY <1>10, <2>1 DEF Resuming
    <3>3. sStage = "Reconnecting" => \A i \in Answers(r)' :
            /\ \A k \in 1 .. Len(up) : up[k] = <<>>
            /\ sSockets[r] = "open" => sReplies'[r][i].last = Len(server.received) - 1
      <4>1. sStage = "Reconnecting" => \A i \in Answers(r) :
              /\ \A k \in 1 .. Len(up) : up[k] = <<>>
              /\ sSockets[r] = "open" => sReplies[r][i].last = Len(server.received) - 1
        BY <3>2 DEF AnswerInv
      <4>2. CASE r = s
        <5>1. \A i \in Answers(r)' :
                i + 1 \in Answers(r) /\ sReplies'[r][i] = sReplies[r][i + 1]
          BY <1>9, <4>2
        <5> QED
          BY <4>1, <5>1
      <4>3. CASE r # s
        BY <1>6, <1>8, <4>1, <4>3
      <4> QED
        BY <4>2, <4>3
    <3>4. AnswerInv(r)'
      BY <1>1, <1>15, <1>16, <1>17, <2>1, <3>2, <3>3 DEF AnswerInv, Sharer!Newest
    <3> QED
      BY <3>1, <3>4
  <2>6. BeforeInv' /\ ConnectedInv'
    BY <1>1, <2>1 DEF SharerHalf, UpInv, BeforeInv, ConnectedInv, Sharer!Writable, Sharer!Newest
  <2> QED
    BY <1>2, <1>18, <2>1, <2>2, <2>3, <2>4, <2>5, <2>6 DEF SharerHalf, UpInv
<1>20. CASE Sharer!CloseWithoutReconnection /\ UNCHANGED <<sSockets, up>>
  <2>1. /\ sStage' = "Finished" /\ sTx' = FALSE /\ sSpare' = sSpare /\ sSockets' = sSockets
        /\ sAttempt' \in {"none", "first", "retry"} /\ up' = up
    BY <1>20 DEF Sharer!CloseWithoutReconnection, Sharer!CloseProxy, Sharer!Aborted,
                 SharerHalf, SharerTypes, Sharer!TypeOK
  <2>2. SharerTypes'
    BY <1>2, <1>6, <2>1 DEF SharerHalf, SharerTypes, Sharer!TypeOK
  <2>3. CutInv(E)' /\ TerminalInv' /\ LimitInv(E)'
    BY <1>1, <2>1, TerminalKept
  <2>4. SentInv(E)'
    BY <1>18, <2>1 DEF SharerHalf, SentInv
  <2>5. ASSUME NEW r \in 1 .. n
        PROVE  QueueInv(r)' /\ AnswerInv(r)'
    <3>1. QueueInv(r)'
      BY <1>1, <1>10, <2>1 DEF QueueInv
    <3>2. AnswerInv(r) /\ (Resuming(r)' <=> Resuming(r))
      BY <1>10, <2>1 DEF Resuming
    <3>3. AnswerInv(r)'
      BY <1>1, <1>15, <1>16, <1>17, <2>1, <3>2 DEF AnswerInv
    <3> QED
      BY <3>1, <3>3
  <2>6. BeforeInv' /\ ConnectedInv'
    BY <1>1, <1>3, <2>1 DEF SharerHalf, UpInv, BeforeInv, ConnectedInv
  <2> QED
    BY <1>2, <1>18, <2>1, <2>2, <2>3, <2>4, <2>5, <2>6 DEF SharerHalf, UpInv
<1> QED
  BY <1>4, <1>13, <1>14, <1>19, <1>20 DEF SharerReply

-----------------------------------------------------------------------------
(* The sharer sends.                                                       *)

(* Messages that go on where others end.                                   *)
LEMMA ConsecutiveConcat ==
  ASSUME NEW S, NEW q \in Seq(S), NEW r \in Seq(S), Consecutive(q), Consecutive(r),
         q # <<>> /\ r # <<>> =>
           /\ q[Len(q)].kind = "event"
           /\ r[1].kind = "end" \/ (r[1].kind = "event" /\ r[1].no = q[Len(q)].no + 1)
  PROVE  /\ q \o r \in Seq(S) /\ Len(q \o r) = Len(q) + Len(r) /\ Len(q) \in Nat /\ Len(r) \in Nat
         /\ \A i \in 1 .. Len(q) + Len(r) : (q \o r)[i] = IF i <= Len(q) THEN q[i] ELSE r[i - Len(q)]
         /\ Consecutive(q \o r)
<1>1. PICK m, n, all : m = Len(q) /\ n = Len(r) /\ all = q \o r
  OBVIOUS
<1>2. /\ m \in Nat /\ n \in Nat /\ all \in Seq(S) /\ Len(all) = m + n
      /\ \A i \in 1 .. m + n : all[i] = IF i <= m THEN q[i] ELSE r[i - m]
  BY <1>1
<1>3. Consecutive(all)
  <2> SUFFICES ASSUME NEW i \in 1 .. m + n - 1
               PROVE  /\ all[i].kind = "event"
                      /\ \/ all[i + 1].kind = "end"
                         \/ all[i + 1].kind = "event" /\ all[i + 1].no = all[i].no + 1
    BY <1>2 DEF Consecutive
  <2>1. i \in 1 .. m + n /\ i + 1 \in 1 .. m + n
    BY <1>2
  <2>2. CASE i < m
    <3>1. all[i] = q[i] /\ all[i + 1] = q[i + 1] /\ i \in 1 .. m - 1
      BY <1>2, <2>1, <2>2
    <3> QED
      BY <1>1, <3>1 DEF Consecutive
  <2>3. CASE i = m
    <3>1. all[i] = q[m] /\ all[i + 1] = r[1] /\ q # <<>> /\ r # <<>>
      <4>1. i + 1 - m = 1 /\ ~(i + 1 <= m) /\ i <= m
        BY <1>2, <2>3
      <4>2. m > 0 /\ n > 0
        BY <1>2, <2>3
      <4> QED
        BY <1>1, <1>2, <2>1, <2>3, <4>1, <4>2
    <3> QED
      BY <1>1, <3>1
  <2>4. CASE i > m
    <3>1. PICK j : j = i - m
      OBVIOUS
    <3>2. j \in 1 .. n - 1 /\ i + 1 - m = j + 1 /\ ~(i <= m) /\ ~(i + 1 <= m)
      BY <1>2, <2>4, <3>1
    <3>3. all[i] = r[i - m] /\ all[i + 1] = r[i + 1 - m]
      BY <1>2, <2>1, <3>2
    <3>4. all[i] = r[j] /\ all[i + 1] = r[j + 1]
      BY <3>1, <3>2, <3>3
    <3> QED
      BY <1>1, <3>2, <3>4 DEF Consecutive
  <2> QED
    BY <1>2, <2>2, <2>3, <2>4
<1> QED
  BY <1>1, <1>2, <1>3

(* Messages sent: events from the next number on, and the end at most when *)
(* the session is over.                                                    *)
LEMMA SendUpKeeps ==
  ASSUME NEW E \in Cuts, SharerHalf(E), NEW messages \in Seq(Messages(E)'), SendUp(messages),
         UNCHANGED <<sSockets, sReplies, server>>, eventNo' \in Nat, eventNo <= eventNo',
         Consecutive(messages),
         messages # <<>> => messages[1].kind = "end"
                            \/ (messages[1].kind = "event" /\ messages[1].no = eventNo),
         \/ sStage' = "Finished"
         \/ /\ UNCHANGED <<sStage, sAttempt, sTx>>
            /\ eventNo' = eventNo + Len(messages)
            /\ \A i \in 1 .. Len(messages) :
                 messages[i].kind = "event" /\ messages[i].no = eventNo + i - 1
  PROVE  SentInv(E)' /\ UpInv'
<1>1. PICK n, old, received :
        n = Len(sSockets) /\ old = up[n] /\ received = Len(server.received)
  OBVIOUS
<1>2. /\ sSockets \in Seq({"open", "closed", "ended"}) /\ n \in Nat
      /\ up \in Seq(Seq(Messages(E))) /\ Len(up) = n /\ received \in Nat /\ eventNo \in Nat
      /\ sSockets' = sSockets /\ sReplies' = sReplies /\ server' = server
  BY <1>1 DEF SharerHalf, SharerTypes, Sharer!TypeOK, SentInv, ServerTypes, ServerState, CutInv
<1>3. Messages(E) \subseteq Messages(E)'
  BY <1>2 DEF Messages, Sent
<1>4. \A s \in 1 .. n : up[s] \in Seq(Messages(E)')
  <2> SUFFICES ASSUME NEW s \in 1 .. n
               PROVE  up[s] \in Seq(Messages(E)')
    OBVIOUS
  <2>1. PICK q, S, T : q = up[s] /\ S = Messages(E) /\ T = Messages(E)'
    OBVIOUS
  <2>2. q \in Seq(S) /\ S \subseteq T
    BY <1>2, <1>3, <2>1
  <2>3. q \in Seq(T)
    BY <2>2
  <2> QED
    BY <2>1, <2>3
<1>5. \A s \in 1 .. n : QueueInv(s) /\ AnswerInv(s)
  BY <1>1 DEF SharerHalf, UpInv
<1>6. CASE ~(sStage = "Connected" /\ Sharer!Writable)
  <2>1. up' = up
    BY <1>6 DEF SendUp
  <2>2. SentInv(E)'
    <3>1. PICK u, T : u = up /\ T = Messages(E)'
      OBVIOUS
    <3>2. u = [s \in 1 .. n |-> u[s]] /\ n \in Nat /\ \A s \in 1 .. n : u[s] \in Seq(T)
      BY <1>2, <1>4, <3>1
    <3>3. u \in Seq(Seq(T)) /\ Len(u) = n
      BY ONLY <3>2
    <3> QED
      BY <1>1, <1>2, <2>1, <3>1, <3>3 DEF SentInv
  <2>3. \A s \in 1 .. n : QueueInv(s)'
    BY <1>2, <1>5, <2>1 DEF QueueInv
  <2>4. ASSUME NEW s \in 1 .. n
        PROVE  AnswerInv(s)'
    <3>1. AnswerInv(s) /\ (Resuming(s)' <=> Resuming(s)) /\ Answers(s)' = Answers(s)
      BY <1>2, <1>5, <2>1 DEF Resuming, Answers
    <3>2. CASE sStage' = "Finished"
      BY <1>2, <3>1, <3>2 DEF AnswerInv
    <3>3. CASE UNCHANGED <<sStage, sAttempt, sTx>>
      BY <1>2, <2>1, <3>1, <3>3 DEF AnswerInv, Sharer!Newest
    <3> QED
      BY <3>2, <3>3
  <2>5. BeforeInv'
    BY <1>2, <2>1 DEF SharerHalf, UpInv, BeforeInv
  <2>6. ConnectedInv'
    BY <1>2, <1>6 DEF SharerHalf, UpInv, ConnectedInv, Sharer!Newest, Sharer!Writable
  <2> QED
    BY <1>1, <1>2, <2>2, <2>3, <2>4, <2>5, <2>6 DEF UpInv
<1>7. CASE sStage = "Connected" /\ Sharer!Writable
  <2>1. /\ n \in 1 .. n /\ sSockets[n] = "open" /\ sSockets # <<>> /\ server.phase # "none"
        /\ old = <<>> /\ server.phase = "live" => received = eventNo
        /\ old # <<>> => old[Len(old)].kind = "event" /\ old[Len(old)].no = eventNo - 1
    BY <1>1, <1>2, <1>7 DEF SharerHalf, UpInv, BeforeInv, ConnectedInv, Sharer!Newest,
                           Sharer!Writable
  <2>2. old \in Seq(Messages(E)') /\ Consecutive(old)
    BY <1>1, <1>4, <1>5, <2>1 DEF QueueInv
  <2>3. PICK new : new = old \o messages
    OBVIOUS
  <2>4. /\ new \in Seq(Messages(E)') /\ Len(new) = Len(old) + Len(messages)
        /\ Len(old) \in Nat /\ Len(messages) \in Nat
        /\ \A i \in 1 .. Len(old) + Len(messages) :
             new[i] = IF i <= Len(old) THEN old[i] ELSE messages[i - Len(old)]
        /\ Consecutive(new)
    <3>1. old # <<>> /\ messages # <<>> =>
            /\ old[Len(old)].kind = "event"
            /\ \/ messages[1].kind = "end"
               \/ messages[1].kind = "event" /\ messages[1].no = old[Len(old)].no + 1
      <4>1. eventNo = eventNo - 1 + 1
        BY <1>2
      <4> QED
        BY <2>1, <4>1
    <3> QED
      BY <2>2, <2>3, <3>1, ConsecutiveConcat
  <2>5. up' = [up EXCEPT ![n] = new]
    BY <1>1, <1>7, <2>3 DEF SendUp, Sharer!Newest
  <2>6. /\ \A s \in 1 .. n : up'[s] = IF s = n THEN new ELSE up[s]
        /\ up' = [s \in 1 .. n |-> up'[s]] /\ Len(up') = n
    <3>1. DOMAIN up = 1 .. n
      BY <1>2
    <3>2. up' = [s \in 1 .. n |-> IF s = n THEN new ELSE up[s]]
      BY <2>5, <3>1
    <3> QED
      BY <1>2, <3>2
  <2>7. SentInv(E)'
    <3>1. PICK u, T : u = up' /\ T = Messages(E)'
      OBVIOUS
    <3>2. u = [s \in 1 .. n |-> u[s]] /\ n \in Nat /\ \A s \in 1 .. n : u[s] \in Seq(T)
      BY <1>2, <1>4, <2>4, <2>6, <3>1
    <3>3. u \in Seq(Seq(T)) /\ Len(u) = n
      BY ONLY <3>2
    <3> QED
      BY <1>1, <1>2, <3>1, <3>3 DEF SentInv
  <2>8. /\ \A i \in 1 .. Len(old) : new[i] = old[i]
        /\ \A i \in 1 .. Len(messages) : new[Len(old) + i] = messages[i]
    <3>1. \A i \in 1 .. Len(old) : i \in 1 .. Len(old) + Len(messages)
      BY <2>4
    <3>2. \A i \in 1 .. Len(messages) :
            /\ Len(old) + i \in 1 .. Len(old) + Len(messages) /\ ~(Len(old) + i <= Len(old))
            /\ Len(old) + i - Len(old) = i
      BY <2>4
    <3> QED
      BY <2>4, <3>1, <3>2
  <2>9. /\ old # <<>> => new[1] = old[1] /\ new # <<>>
        /\ old = <<>> /\ new # <<>> => new[1] = messages[1] /\ messages # <<>>
    <3>1. CASE old # <<>>
      <4>1. 1 \in 1 .. Len(old)
        BY <2>2, <3>1
      <4> QED
        BY <2>4, <2>8, <3>1, <4>1
    <3>2. CASE old = <<>>
      <4>1. new = messages
        BY <2>3, <3>2
      <4> QED
        BY <3>2, <4>1
    <3> QED
      BY <3>1, <3>2
  <2>10. sStage' # "Finished" =>
           \A i \in 1 .. Len(new) : new[i].kind # "end"
    <3> SUFFICES ASSUME sStage' # "Finished", NEW i \in 1 .. Len(new)
                 PROVE  new[i].kind # "end"
      OBVIOUS
    <3>1. CASE i <= Len(old)
      <4>1. i \in 1 .. Len(old)
        BY <2>4, <3>1
      <4>2. \A j \in 1 .. Len(old) : old[j].kind # "end"
        BY <1>1, <1>5, <1>7, <2>1 DEF QueueInv
      <4> QED
        BY <2>8, <4>1, <4>2
    <3>2. CASE ~(i <= Len(old))
      <4>1. i - Len(old) \in 1 .. Len(messages) /\ Len(old) + (i - Len(old)) = i
        BY <2>4, <3>2
      <4>2. new[i] = messages[i - Len(old)]
        BY <2>8, <4>1
      <4> QED
        BY <4>1, <4>2
    <3> QED
      BY <3>1, <3>2
  <2>11. QueueInv(n)'
    <3>1. up'[n] = new
      BY <2>1, <2>6
    <3>2. new # <<>> /\ new[1].kind = "event" /\ server.phase = "live" => new[1].no <= received
      <4>1. CASE old # <<>>
        BY <1>1, <1>5, <2>1, <2>9, <4>1 DEF QueueInv
      <4>2. CASE old = <<>>
        BY <1>2, <2>1, <2>9, <4>2
      <4> QED
        BY <4>1, <4>2
    <3>3. new # <<>> /\ new[1].kind = "start" => n = 1 /\ server.phase = "none"
      BY <1>1, <1>5, <2>1, <2>9 DEF QueueInv
    <3> QED
      BY <1>1, <1>2, <2>1, <2>4, <2>10, <3>1, <3>2, <3>3 DEF QueueInv
  <2>12. ASSUME NEW s \in 1 .. n, s # n
         PROVE  QueueInv(s)'
    <3>1. up'[s] = up[s] /\ QueueInv(s)
      BY <1>5, <2>6, <2>12
    <3> QED
      BY <1>2, <1>7, <3>1 DEF QueueInv
  <2>13. ASSUME NEW s \in 1 .. n
         PROVE  AnswerInv(s)'
    <3>1. ~Resuming(s) /\ Answers(s) = {} /\ AnswerInv(s)
      BY <1>5, <1>7 DEF AnswerInv
    <3>2. Answers(s)' = {}
      BY <1>2, <3>1 DEF Answers
    <3>3. ~Resuming(s)'
      <4>1. CASE s # n
        BY <2>6, <3>1, <4>1 DEF Resuming
      <4>2. CASE s = n
        <5>1. up'[s] = new /\ up[s] = old
          BY <1>1, <2>6, <4>2
        <5> QED
          BY <2>9, <3>1, <5>1 DEF Resuming
      <4> QED
        BY <4>1, <4>2
    <3> QED
      BY <1>2, <3>1, <3>2, <3>3 DEF AnswerInv
  <2>14. BeforeInv'
    BY <1>2, <1>7, <2>1 DEF BeforeInv
  <2>15. ConnectedInv'
    <3> SUFFICES ASSUME sStage' = "Connected"
                 PROVE  /\ sAttempt' = "none"
                        /\ new = <<>> /\ server.phase = "live" => received = eventNo'
                        /\ new # <<>> => /\ new[Len(new)].kind = "event"
                                         /\ new[Len(new)].no = eventNo' - 1
      BY <1>1, <1>2, <2>1, <2>6 DEF ConnectedInv, Sharer!Newest
    <3>1. /\ sAttempt' = "none" /\ eventNo' = eventNo + Len(messages)
          /\ \A i \in 1 .. Len(messages) :
               messages[i].kind = "event" /\ messages[i].no = eventNo + i - 1
      BY <1>7 DEF SharerHalf, UpInv, ConnectedInv
    <3>2. CASE messages = <<>>
      <4>1. new = old /\ eventNo' = eventNo
        BY <1>2, <2>2, <2>3, <3>1, <3>2
      <4> QED
        BY <2>1, <3>1, <4>1
    <3>3. CASE messages # <<>>
      <4>1. Len(messages) \in 1 .. Len(messages) /\ Len(new) = Len(old) + Len(messages)
        BY <2>4, <3>3
      <4>2. new[Len(new)] = messages[Len(messages)]
        BY <2>8, <4>1
      <4>3. eventNo + Len(messages) - 1 = eventNo' - 1 /\ new # <<>>
        BY <1>2, <2>4, <3>1, <4>1
      <4> QED
        BY <3>1, <4>1, <4>2, <4>3
    <3> QED
      BY <3>2, <3>3
  <2> QED
    BY <1>1, <1>2, <2>7, <2>11, <2>12, <2>13, <2>14, <2>15 DEF UpInv
<1> QED
  BY <1>6, <1>7

LEMMA EndSessionKeeps ==
  ASSUME NEW E \in Cuts, SharerHalf(E), EndSession
  PROVE  SharerHalf(E)'
<1>1. /\ sStage' = "Finished" /\ sTx' = FALSE /\ sSpare' = sSpare /\ sSockets' = sSockets
      /\ sAttempt' \in {"none", "first", "retry"} /\ sReplies' = sReplies
      /\ output' = output /\ batch' = batch /\ bytes' = bytes /\ eventNo' = eventNo
      /\ unacked' = unacked /\ server' = server /\ restarts' = restarts
  BY DEF EndSession, Sharer!CloseWithoutReconnection, Sharer!CloseProxy, Sharer!Aborted,
         SharerHalf, SharerTypes, Sharer!TypeOK, eventVars, serverVars
<1>2. SharerTypes' /\ ServerTypes'
  BY <1>1 DEF SharerHalf, SharerTypes, Sharer!TypeOK, ServerTypes
<1>3. CutInv(E)' /\ TerminalInv' /\ LimitInv(E)'
  BY <1>1, TerminalKept
<1>4. KeptInv(E)' /\ ReceivedInv(E)'
  BY <1>1, CopiesKept
<1>5. SentInv(E)' /\ UpInv'
  <2>1. PICK messages : messages = <<End>>
    OBVIOUS
  <2>2. /\ messages \in Seq(Messages(E)') /\ messages[1].kind = "end" /\ Consecutive(messages)
    BY <2>1 DEF Messages, End, Consecutive
  <2>3. SendUp(messages)
    BY <2>1 DEF EndSession
  <2>4. eventNo' \in Nat /\ eventNo <= eventNo'
    BY <1>1 DEF SharerHalf, CutInv
  <2>5. UNCHANGED <<sSockets, sReplies, server>>
    BY <1>1
  <2>6. messages # <<>> => messages[1].kind = "end"
                           \/ (messages[1].kind = "event" /\ messages[1].no = eventNo)
    BY <2>2
  <2> QED
    BY <1>1, <2>2, <2>3, <2>4, <2>5, <2>6, SendUpKeeps
<1> QED
  BY <1>2, <1>3, <1>4, <1>5 DEF SharerHalf

(* An output more.                                                         *)
LEMMA StretchAppend ==
  ASSUME NEW lo \in Nat, NEW hi \in Nat, lo <= hi, hi < MaxOutput
  PROVE  /\ Append(Stretch(lo, hi), hi + 1) = Stretch(lo, hi + 1)
         /\ Stretch(lo, hi + 1) \in Seq(Outputs)
         /\ Len(Stretch(lo, hi + 1)) = hi + 1 - lo
<1>1. PICK a, b, n : a = Stretch(lo, hi) /\ b = Stretch(lo, hi + 1) /\ n = hi + 1
  OBVIOUS
<1>2. MaxOutput \in Nat /\ n \in Nat /\ n = hi + 1 /\ lo <= n /\ n <= MaxOutput /\ hi <= MaxOutput
  BY <1>1, BoundsAssumption
<1>3. /\ a \in Seq(Outputs) /\ Len(a) = hi - lo /\ \A i \in 1 .. hi - lo : a[i] = lo + i
      /\ b \in Seq(Outputs) /\ Len(b) = n - lo /\ \A i \in 1 .. n - lo : b[i] = lo + i
  <2>1. a \in Seq(Outputs) /\ Len(a) = hi - lo /\ \A i \in 1 .. hi - lo : a[i] = lo + i
    BY <1>1, <1>2, StretchType
  <2>2. b = Stretch(lo, n)
    BY <1>1
  <2>3. b \in Seq(Outputs) /\ Len(b) = n - lo /\ \A i \in 1 .. n - lo : b[i] = lo + i
    BY <1>2, <2>2, StretchType
  <2> QED
    BY <2>1, <2>3
<1>4. PICK c : c = Append(a, n)
  OBVIOUS
<1>5. n \in Outputs
  BY <1>2 DEF Outputs
<1>6. /\ c \in Seq(Outputs) /\ Len(c) = Len(a) + 1
      /\ \A i \in 1 .. Len(a) + 1 : c[i] = IF i <= Len(a) THEN a[i] ELSE n
  <2>1. a \in Seq(Outputs)
    BY <1>3
  <2>2. c \in Seq(Outputs) /\ Len(c) = Len(a) + 1
    BY ONLY <1>4, <1>5, <2>1
  <2>3. \A i \in 1 .. Len(a) + 1 : c[i] = IF i <= Len(a) THEN a[i] ELSE n
    BY ONLY <1>4, <1>5, <2>1
  <2> QED
    BY <2>2, <2>3
<1>7. \A i \in 1 .. n - lo : c[i] = b[i]
  <2> TAKE i \in 1 .. n - lo
  <2>1. n - lo = Len(a) + 1 /\ i \in 1 .. Len(a) + 1 /\ Len(a) = hi - lo
    BY <1>2, <1>3
  <2>2. CASE i <= Len(a)
    BY <1>3, <1>6, <2>1, <2>2
  <2>3. CASE ~(i <= Len(a))
    <3>1. lo + i = n
      BY <1>2, <2>1, <2>3
    <3> QED
      BY <1>3, <1>6, <2>1, <2>3, <3>1
  <2> QED
    BY <2>2, <2>3
<1>8. Len(c) = n - lo
  BY <1>2, <1>3, <1>6
<1>9. c = b
  BY ONLY <1>3, <1>6, <1>7, <1>8, SeqEqual
<1> QED
  BY <1>1, <1>2, <1>3, <1>4, <1>9

LEMMA EmptyStretch ==
  ASSUME NEW n \in Nat
  PROVE  Stretch(n, n) = <<>>
<1>1. 1 .. n - n = {}
  OBVIOUS
<1> QED
  BY <1>1 DEF Stretch

(* Bytes read join the batch.                                              *)
LEMMA ReadPtyKeeps ==
  ASSUME NEW E \in Cuts, SharerHalf(E), ReadPty
  PROVE  SharerHalf(E)'
<1>1. PICK n : n = Len(output) + 1
  OBVIOUS
<1>2. /\ output' = Append(output, n) /\ batch' = Append(batch, n) /\ Len(output) < MaxOutput
      /\ bytes' = bytes /\ eventNo' = eventNo /\ unacked' = unacked
      /\ sStage' = sStage /\ sAttempt' = sAttempt /\ sSockets' = sSockets /\ sTx' = sTx
      /\ sSpare' = sSpare /\ up' = up /\ sReplies' = sReplies /\ server' = server
      /\ restarts' = restarts
  BY <1>1 DEF ReadPty, sharerVars, upVars, serverVars
<1>3. SharerTypes' /\ ServerTypes'
  BY <1>2 DEF SharerHalf, SharerTypes, Sharer!TypeOK, ServerTypes
<1>4. CutInv(E)' /\ KeptInv(E)' /\ ReceivedInv(E)' /\ SentInv(E)'
  BY <1>2 DEF SharerHalf, CutInv, KeptInv, ReceivedInv, SentInv, Messages, Sent
<1>5. TerminalInv' /\ Flushed' = Flushed
  <2>1. PICK m, k : m = Len(output) /\ k = Len(batch)
    OBVIOUS
  <2>2. /\ m \in Nat /\ n = m + 1 /\ m < MaxOutput /\ k \in Nat /\ k <= m /\ m - k \in Nat
        /\ output = Stretch(0, m) /\ batch = Stretch(m - k, m) /\ MaxOutput \in Nat
    BY <1>1, <1>2, <2>1, BoundsAssumption DEF SharerHalf, TerminalInv, Flushed
  <2>3. output' = Stretch(0, n) /\ output' \in Seq(Outputs) /\ Len(output') = n
    <3>1. 0 \in Nat /\ 0 <= m
      BY <2>2
    <3>2. /\ Append(Stretch(0, m), m + 1) = Stretch(0, m + 1)
          /\ Stretch(0, m + 1) \in Seq(Outputs) /\ Len(Stretch(0, m + 1)) = m + 1 - 0
      BY <2>2, <3>1, StretchAppend
    <3>3. m + 1 - 0 = n
      BY <2>2
    <3>4. output' = Append(Stretch(0, m), m + 1)
      BY <1>2, <2>2
    <3> QED
      BY <2>2, <3>2, <3>3, <3>4
  <2>4. batch' = Stretch(m - k, n) /\ batch' \in Seq(Outputs) /\ Len(batch') = k + 1
    <3>1. m - k <= m
      BY <2>2
    <3>2. /\ Append(Stretch(m - k, m), m + 1) = Stretch(m - k, m + 1)
          /\ Stretch(m - k, m + 1) \in Seq(Outputs)
          /\ Len(Stretch(m - k, m + 1)) = m + 1 - (m - k)
      BY <2>2, <3>1, StretchAppend
    <3>3. m + 1 - (m - k) = k + 1
      BY <2>2
    <3> QED
      BY <1>2, <2>2, <3>2, <3>3
  <2>5. Flushed' = m - k /\ Flushed = m - k
    <3>1. Flushed' = n - (k + 1) /\ Flushed = m - k
      BY <2>1, <2>3, <2>4 DEF Flushed
    <3>2. n - (k + 1) = m - k
      BY <2>2
    <3> QED
      BY <3>1, <3>2, Zenon
  <2>6. n <= MaxOutput /\ k + 1 <= n
    BY <2>2
  <2> QED
    BY <2>3, <2>4, <2>5, <2>6 DEF TerminalInv
<1>6. LimitInv(E)'
  BY <1>2, <1>5 DEF SharerHalf, LimitInv
<1>7. UpInv'
  <2>1. BeforeInv' /\ ConnectedInv'
    BY <1>2 DEF SharerHalf, UpInv, BeforeInv, ConnectedInv, Sharer!Writable, Sharer!Newest
  <2>2. \A s \in 1 .. Len(sSockets) : QueueInv(s)' /\ AnswerInv(s)'
    BY <1>2 DEF SharerHalf, UpInv, QueueInv, AnswerInv, Resuming, Answers, Sharer!Newest
  <2> QED
    BY <1>2, <2>1, <2>2 DEF UpInv
<1> QED
  BY <1>3, <1>4, <1>5, <1>6, <1>7 DEF SharerHalf

(* Only the cuts up to the next number matter.                             *)
LEMMA CutsAgree ==
  ASSUME NEW E \in Cuts, NEW E2 \in Cuts, SharerHalf(E), ViewerHalf(E),
         \A n \in 0 .. eventNo : E2[n] = E[n]
  PROVE  SharerHalf(E2) /\ ViewerHalf(E2)
<1>1. eventNo \in Nat
  BY DEF SharerHalf, CutInv
<1>2. \A n \in 0 .. eventNo - 1 : Piece(E2, n) = Piece(E, n)
  <2> TAKE n \in 0 .. eventNo - 1
  <2>1. n \in 0 .. eventNo /\ n + 1 \in 0 .. eventNo
    BY <1>1
  <2> QED
    BY <2>1 DEF Piece
<1>3. Sent(E2) = Sent(E) /\ Copies(E2) = Copies(E) /\ Messages(E2) = Messages(E)
  <2>1. Sent(E2) = Sent(E)
    BY <1>2 DEF Sent
  <2>2. Copies(E2) = Copies(E)
    BY <1>2 DEF Copies
  <2> QED
    BY <2>1, <2>2 DEF Messages
<1>4. CutInv(E2) /\ LimitInv(E2)
  <2>1. 0 \in 0 .. eventNo /\ eventNo \in 0 .. eventNo
    BY <1>1
  <2>2. CutInv(E2)
    BY <2>1 DEF SharerHalf, CutInv
  <2>3. LimitInv(E2)
    BY <2>1 DEF SharerHalf, LimitInv
  <2> QED
    BY <2>2, <2>3
<1>5. KeptInv(E2)
  BY <1>2 DEF SharerHalf, KeptInv
<1>6. ReceivedInv(E2)
  <2>1. \A i \in 1 .. Len(server.received) : i - 1 \in 0 .. eventNo - 1
    BY <1>1 DEF SharerHalf, ReceivedInv, ServerTypes, ServerState
  <2>2. [i \in 1 .. Len(server.received) |-> Piece(E2, i - 1)]
        = [i \in 1 .. Len(server.received) |-> Piece(E, i - 1)]
    BY <1>2, <2>1
  <2> QED
    BY <2>2 DEF SharerHalf, ReceivedInv
<1>7. SentInv(E2) /\ MailInv(E2)
  BY <1>3 DEF SharerHalf, ViewerHalf, SentInv, MailInv
<1>8. ShownInv(E2)
  <2>1. loop.next \in 0 .. eventNo
    BY <1>1 DEF ViewerHalf, ShownInv, LoopState
  <2> QED
    BY <1>2, <2>1 DEF ViewerHalf, ShownInv
<1> QED
  BY <1>4, <1>5, <1>6, <1>7, <1>8 DEF SharerHalf, ViewerHalf

(* Copies stay good when there are more events.                            *)
LEMMA ViewerHalfGrows ==
  ASSUME NEW E \in Cuts, ViewerHalf(E), eventNo \in Nat, eventNo' \in Nat, eventNo <= eventNo',
         UNCHANGED <<viewerVars, downVars, loopVars>>
  PROVE  ViewerHalf(E)'
<1>1. /\ vStage' = vStage /\ vAttempt' = vAttempt /\ vSockets' = vSockets
      /\ vTx' = vTx /\ vSpare' = vSpare /\ hello' = hello /\ vReplies' = vReplies
      /\ from' = from /\ mail' = mail /\ loop' = loop /\ screen' = screen
  BY DEF viewerVars, downVars, loopVars
<1>2. ViewerTypes' /\ ViewerInv'
  <2>1. ViewerTypes'
    BY <1>1 DEF ViewerHalf, ViewerTypes, Viewer!TypeOK
  <2>2. ViewerInv'
    BY <1>1 DEF ViewerHalf, ViewerInv, Joins, Welcomes
  <2> QED
    BY <2>1, <2>2
<1>0. 0 .. eventNo - 1 \subseteq 0 .. eventNo' - 1
  <2>1. PICK a, b : a = eventNo /\ b = eventNo'
    OBVIOUS
  <2>2. a \in Nat /\ b \in Nat /\ a <= b
    BY <2>1
  <2>3. 0 .. a - 1 \subseteq 0 .. b - 1
    BY ONLY <2>2
  <2> QED
    BY <2>1, <2>3
<1>3. MailInv(E)'
  <2>1. Copies(E) \subseteq Copies(E)'
    BY <1>0 DEF Copies
  <2>2. PICK m, n, S, T : m = mail /\ n = Len(mail) /\ S = Copies(E) /\ T = Copies(E)'
    OBVIOUS
  <2>3. m \in Seq(SUBSET S) /\ Len(m) = n /\ S \subseteq T
    BY <2>1, <2>2 DEF ViewerHalf, MailInv
  <2>4. m = [i \in 1 .. n |-> m[i]] /\ n \in Nat /\ \A i \in 1 .. n : m[i] \in SUBSET T
    BY <2>3
  <2>5. m \in Seq(SUBSET T)
    BY ONLY <2>4
  <2> QED
    BY <1>1, <2>2, <2>5 DEF ViewerHalf, MailInv
<1>4. ShownInv(E)'
  <2>1. loop.next \in Nat
    BY DEF ViewerHalf, ShownInv, LoopState
  <2> QED
    BY <1>0, <1>1, <2>1 DEF ViewerHalf, ShownInv
<1> QED
  BY <1>2, <1>3, <1>4 DEF ViewerHalf

(* A set of numbers up to k that is not empty has a greatest element.      *)
LEMMA MaxIs ==
  ASSUME NEW k \in Nat, NEW S \in SUBSET (0 .. k), S # {}
  PROVE  Max(S) \in S /\ \A m \in S : m <= Max(S)
<1>1. PICK T : T = {j \in 0 .. k : k - j \in S}
  OBVIOUS
<1>2. T \in SUBSET Nat /\ T # {}
  <2>1. PICK m \in S : TRUE
    OBVIOUS
  <2>2. k - m \in 0 .. k /\ k - (k - m) = m
    OBVIOUS
  <2>3. k - m \in T
    BY <1>1, <2>2
  <2>4. T \in SUBSET Nat
    BY <1>1
  <2> QED
    BY <2>3, <2>4
<1>3. PICK j \in T : \A i \in T : j <= i
  BY <1>2, LeastNat
<1>4. PICK x : x = k - j
  OBVIOUS
<1>5. x \in S
  BY <1>1, <1>4
<1>6. ASSUME NEW m \in S
      PROVE  x >= m
  <2>1. m \in 0 .. k /\ k - m \in 0 .. k /\ k - (k - m) = m
    OBVIOUS
  <2>2. k - m \in T
    BY <1>1, <2>1
  <2>3. j <= k - m /\ j \in 0 .. k
    BY <1>1, <1>3, <2>2
  <2> QED
    BY <1>4, <2>1, <2>3
<1>7. Max(S) \in S /\ \A m \in S : Max(S) >= m
  BY <1>5, <1>6 DEF Max
<1>8. \A m \in S : Max(S) >= m => m <= Max(S)
  BY <1>7
<1> QED
  BY <1>7, <1>8

(* Payloads are consecutive pieces, cut at D.                              *)
Payloads(D, k, payloads) ==
  /\ payloads = [i \in 1 .. k |-> Piece(D, i - 1)]
  /\ \A i, j \in 0 .. k : i < j => D[i] < D[j]

LEMMA PayloadsSize ==
  ASSUME NEW D \in Cuts, NEW k \in Nat, k <= MaxOutput, NEW payloads, Payloads(D, k, payloads)
  PROVE  /\ Len(payloads) = k /\ Size(payloads) = D[k] - D[0]
         /\ \A j \in 0 .. k : /\ Size(SubSeq(payloads, 1, j)) = D[j] - D[0]
                              /\ D[j] \in 0 .. MaxOutput /\ D[0] <= D[j]
<1>1. MaxOutput \in Nat /\ \A j \in 0 .. k : D[j] \in 0 .. MaxOutput /\ D[j] \in Nat
  BY BoundsAssumption DEF Cuts
<1>2. \A i, j \in 0 .. k : i < j => D[i] < D[j]
  BY DEF Payloads
<1>3. \A j \in 0 .. k : D[0] <= D[j]
  <2> TAKE j \in 0 .. k
  <2>1. 0 \in 0 .. k /\ (j = 0 \/ 0 < j)
    OBVIOUS
  <2> QED
    BY <1>1, <1>2, <2>1
<1>4. \A j \in 0 .. k - 1 : j \in 0 .. k /\ j + 1 \in 0 .. k /\ D[j] <= D[j + 1]
  <2> TAKE j \in 0 .. k - 1
  <2>1. j \in 0 .. k /\ j + 1 \in 0 .. k /\ j < j + 1
    OBVIOUS
  <2> QED
    BY <1>1, <1>2, <2>1
<1>5. PICK p : p = payloads
  OBVIOUS
<1>6. p = [i \in 1 .. k |-> p[i]] /\ \A i \in 1 .. k : p[i] = Piece(D, i - 1)
  BY <1>5 DEF Payloads
<1>7. \A i \in 1 .. k : p[i] \in Seq(Outputs)
  <2> TAKE i \in 1 .. k
  <2>1. i - 1 \in 0 .. k - 1 /\ i - 1 + 1 = i
    OBVIOUS
  <2>2. /\ D[i - 1] \in Nat /\ D[i] \in Nat /\ D[i - 1] <= D[i] /\ D[i] <= MaxOutput
    BY <1>1, <1>4, <2>1
  <2>3. p[i] = Stretch(D[i - 1], D[i])
    BY <1>6, <2>1 DEF Piece
  <2> QED
    BY <2>2, <2>3, StretchType
<1>8. p \in Seq(Seq(Outputs)) /\ Len(p) = k
  <2>1. p = [i \in 1 .. k |-> p[i]] /\ k \in Nat /\ \A i \in 1 .. k : p[i] \in Seq(Outputs)
    BY <1>6, <1>7
  <2> QED
    BY ONLY <2>1
<1>9. ASSUME NEW j \in 0 .. k
      PROVE  \A seqs : seqs = [i \in 1 .. j |-> Piece(D, 0 + i - 1)] => Size(seqs) = D[j] - D[0]
  <2> SUFFICES ASSUME NEW seqs, seqs = [i \in 1 .. j |-> Piece(D, 0 + i - 1)]
               PROVE  Size(seqs) = D[j] - D[0]
    OBVIOUS
  <2>1. /\ 0 \in Nat /\ j \in Nat /\ 0 + j <= MaxOutput
        /\ \A i \in 0 .. 0 + j - 1 : D[i] <= D[i + 1]
        /\ \A i \in 0 .. 0 + j : D[0] <= D[i]
    BY <1>1, <1>3, <1>4
  <2>2. FlattenSeq(seqs) = Stretch(D[0], D[0 + j])
    BY <2>1, PiecesFlatten
  <2>3. D[0] \in Nat /\ D[j] \in Nat /\ D[0] <= D[j] /\ D[j] <= MaxOutput /\ 0 + j = j
    <3>1. 0 \in 0 .. k
      OBVIOUS
    <3> QED
      BY <1>1, <1>3, <3>1
  <2>4. Len(Stretch(D[0], D[j])) = D[j] - D[0]
    BY <2>3, StretchType
  <2> QED
    BY <2>2, <2>3, <2>4 DEF Size
<1>10. ASSUME NEW j \in 0 .. k
       PROVE  Size(SubSeq(p, 1, j)) = D[j] - D[0]
  <2>1. PICK q : q = SubSeq(p, 1, j)
    OBVIOUS
  <2>2. Len(q) = j /\ q \in Seq(Seq(Outputs)) /\ \A i \in 1 .. j : q[i] = p[i]
    <3>1. \A i \in 1 .. j : p[i] \in Seq(Outputs)
      BY <1>7
    <3>2. 1 \in Int /\ j \in Int
      OBVIOUS
    <3>3. /\ SubSeq(p, 1, j) \in Seq(Seq(Outputs))
          /\ Len(SubSeq(p, 1, j)) = IF 1 <= j THEN j - 1 + 1 ELSE 0
          /\ \A i \in 1 .. j - 1 + 1 : SubSeq(p, 1, j)[i] = p[1 + i - 1]
      BY ONLY <3>1, <3>2, SubSeqProperties
    <3>4. j - 1 + 1 = j /\ \A i \in 1 .. j : 1 + i - 1 = i
      OBVIOUS
    <3>5. Len(q) = j
      BY <2>1, <3>3, <3>4
    <3> QED
      BY <2>1, <3>3, <3>4, <3>5
  <2>3. \A i \in 1 .. j : q[i] = Piece(D, 0 + i - 1)
    <3>1. \A i \in 1 .. j : i \in 1 .. k /\ 0 + i - 1 = i - 1
      OBVIOUS
    <3> QED
      BY <1>6, <2>2, <3>1
  <2>4. q = [i \in 1 .. j |-> q[i]]
    BY <2>2
  <2>5. q = [i \in 1 .. j |-> Piece(D, 0 + i - 1)]
    BY <2>3, <2>4
  <2> QED
    BY <1>9, <2>1, <2>5
<1>11. Size(p) = D[k] - D[0]
  <2>1. \A i \in 1 .. k : 0 + i - 1 = i - 1
    OBVIOUS
  <2>2. p = [i \in 1 .. k |-> Piece(D, 0 + i - 1)] /\ k \in 0 .. k
    BY <1>6, <2>1
  <2> QED
    BY <1>9, <2>2
<1> QED
  BY <1>1, <1>3, <1>5, <1>8, <1>10, <1>11

(* As many payloads pass as the limit allows.                              *)
LEMMA FitIs ==
  ASSUME NEW D \in Cuts, NEW k \in Nat, k <= MaxOutput, NEW payloads, Payloads(D, k, payloads),
         bytes \in Nat, NEW fit, fit = Fit(payloads)
  PROVE  /\ fit \in 0 .. k /\ (fit > 0 => bytes + (D[fit] - D[0]) <= MaxBytes)
         /\ \A j \in 1 .. k : j > fit => bytes + (D[j] - D[0]) > MaxBytes
<1>1. /\ Len(payloads) = k /\ MaxBytes \in Nat
      /\ \A j \in 0 .. k : /\ Size(SubSeq(payloads, 1, j)) = D[j] - D[0]
                           /\ D[j] \in 0 .. MaxOutput /\ D[0] <= D[j]
  BY PayloadsSize, BoundsAssumption
<1>2. PICK S : S = {j \in 1 .. k : bytes + Size(SubSeq(payloads, 1, j)) <= MaxBytes} \cup {0}
  OBVIOUS
<1>3. fit = Max(S)
  BY <1>1, <1>2 DEF Fit
<1>4. S \in SUBSET (0 .. k) /\ S # {}
  BY <1>2
<1>5. fit \in S /\ \A j \in S : j <= fit
  BY <1>3, <1>4, MaxIs
<1>6. \A j \in 1 .. k : j \in 0 .. k /\ (j \in S <=> bytes + (D[j] - D[0]) <= MaxBytes)
  BY <1>1, <1>2
<1>7. fit \in 0 .. k /\ (fit > 0 => bytes + (D[fit] - D[0]) <= MaxBytes)
  BY <1>4, <1>5, <1>6
<1>8. ASSUME NEW j \in 1 .. k, j > fit
      PROVE  bytes + (D[j] - D[0]) > MaxBytes
  <2>1. j \notin S
    BY <1>5, <1>7, <1>8
  <2>2. D[j] \in Int /\ D[0] \in Int
    <3>1. 0 \in 0 .. k /\ j \in 0 .. k
      OBVIOUS
    <3> QED
      BY <1>1, <3>1
  <2> QED
    BY <1>1, <1>6, <2>1, <2>2
<1> QED
  BY <1>7, <1>8

(* Payloads are sent: those that pass are the next events, and where the   *)
(* limit is passed the session ends.                                       *)
LEMMA SendEventsKeeps ==
  ASSUME NEW E \in Cuts, SharerHalf(E), NEW D \in Cuts, NEW k \in Nat, k <= MaxOutput,
         NEW payloads, Payloads(D, k, payloads), SendEvents(payloads),
         D[0] = Flushed, D[k] = Flushed', TerminalInv',
         bytes <= MaxBytes =>
           \A j \in 0 .. k : eventNo + j <= D[j] /\ E[eventNo + j] = D[j]
  PROVE  SharerHalf(E)' /\ eventNo' \in Nat /\ eventNo <= eventNo'
<1>1. PICK fit : fit = Fit(payloads)
  OBVIOUS
<1>2. /\ Len(payloads) = k /\ Size(payloads) = D[k] - D[0]
      /\ \A j \in 0 .. k : D[j] \in 0 .. MaxOutput /\ D[j] \in Nat /\ D[0] <= D[j]
      /\ \A i \in 1 .. k : payloads[i] = Piece(D, i - 1)
      /\ \A i, j \in 0 .. k : i < j => D[i] < D[j]
  <2>1. /\ Len(payloads) = k /\ Size(payloads) = D[k] - D[0]
        /\ \A j \in 0 .. k : D[j] \in 0 .. MaxOutput /\ D[0] <= D[j]
    BY PayloadsSize
  <2> QED
    BY <2>1 DEF Payloads
<1>3. /\ bytes \in Nat /\ eventNo \in Nat /\ MaxBytes \in Nat /\ MaxOutput \in Nat
      /\ 0 \in 0 .. k /\ k \in 0 .. k
  BY BoundsAssumption DEF SharerHalf, LimitInv, CutInv
<1>4. /\ fit \in 0 .. k /\ (fit > 0 => bytes + (D[fit] - D[0]) <= MaxBytes)
      /\ \A j \in 1 .. k : j > fit => bytes + (D[j] - D[0]) > MaxBytes
  BY <1>1, <1>3, FitIs
<1>5. /\ bytes' = bytes + (D[k] - D[0]) /\ eventNo' = eventNo + fit
      /\ unacked' = [n \in DOMAIN unacked \cup eventNo .. eventNo + fit - 1 |->
                       IF n < eventNo THEN unacked[n] ELSE payloads[n - eventNo + 1]]
      /\ sSockets' = sSockets /\ sReplies' = sReplies /\ server' = server /\ restarts' = restarts
      /\ fit < k => /\ sStage' = "Finished" /\ sTx' = FALSE /\ sSpare' = sSpare
                    /\ sAttempt' \in {"none", "first", "retry"}
      /\ ~(fit < k) => /\ sStage' = sStage /\ sTx' = sTx /\ sSpare' = sSpare
                       /\ sAttempt' = sAttempt
  BY <1>1, <1>2 DEF SendEvents, Sharer!CloseWithoutReconnection, Sharer!CloseProxy, Sharer!Aborted,
                    sharerVars, serverVars, SharerHalf, SharerTypes, Sharer!TypeOK
<1>6. fit > 0 => bytes <= MaxBytes
  BY <1>2, <1>3, <1>4
<1>7. \A j \in 0 .. fit : fit > 0 => /\ j \in 0 .. k /\ eventNo + j <= D[j]
                                    /\ E[eventNo + j] = D[j]
  BY <1>4, <1>6
<1>8. SharerTypes' /\ ServerTypes'
  BY <1>5 DEF SharerHalf, SharerTypes, Sharer!TypeOK, ServerTypes
<1>9. CutInv(E)'
  <2>1. CutInv(E)
    BY DEF SharerHalf
  <2>2. CASE fit = 0
    <3>1. eventNo' = eventNo
      BY <1>3, <1>5, <2>2
    <3> QED
      BY <2>1, <3>1 DEF CutInv
  <2>3. CASE fit > 0
    <3>1. eventNo + fit <= D[fit] /\ E[eventNo + fit] = D[fit] /\ D[fit] \in 0 .. MaxOutput
      BY <1>2, <1>4, <1>7, <2>3
    <3>2. ASSUME NEW m \in 0 .. eventNo + fit, NEW n \in 0 .. eventNo + fit, m < n
          PROVE  E[m] < E[n]
      <4>1. CASE n <= eventNo
        <5>1. m \in 0 .. eventNo /\ n \in 0 .. eventNo
          BY <1>3, <3>2, <4>1
        <5> QED
          BY <2>1, <3>2, <5>1 DEF CutInv
      <4>2. CASE m >= eventNo
        <5>1. PICK i, j : i = m - eventNo /\ j = n - eventNo
          OBVIOUS
        <5>2. i \in 0 .. fit /\ j \in 0 .. fit /\ i < j /\ m = eventNo + i /\ n = eventNo + j
          BY <1>3, <1>4, <3>2, <4>2, <5>1
        <5>3. E[m] = D[i] /\ E[n] = D[j] /\ i \in 0 .. k /\ j \in 0 .. k
          BY <1>7, <2>3, <5>2
        <5> QED
          BY <1>2, <5>2, <5>3
      <4>3. CASE m < eventNo /\ eventNo < n
        <5>1. m \in 0 .. eventNo /\ eventNo \in 0 .. eventNo
          BY <1>3, <4>3
        <5>2. E[m] < E[eventNo]
          BY <2>1, <4>3, <5>1 DEF CutInv
        <5>3. PICK j : j = n - eventNo
          OBVIOUS
        <5>4. j \in 0 .. fit /\ n = eventNo + j /\ 0 \in 0 .. fit /\ eventNo + 0 = eventNo
          BY <1>3, <1>4, <4>3, <5>3
        <5>5. E[n] = D[j] /\ E[eventNo] = D[0] /\ j \in 0 .. k /\ D[0] <= D[j]
          BY <1>2, <1>7, <2>3, <5>4
        <5>6. E[m] \in Int /\ E[eventNo] \in Int /\ E[n] \in Int
          <6>1. E[m] \in 0 .. MaxOutput
            <7>1. m \in 0 .. MaxOutput
              BY <1>3, <2>1, <5>1 DEF CutInv
            <7> QED
              BY <7>1 DEF Cuts
          <6> QED
            BY <1>2, <1>3, <5>5, <6>1
        <5> QED
          BY <5>2, <5>5, <5>6
      <4> QED
        BY <1>3, <4>1, <4>2, <4>3
    <3>3. eventNo + fit \in 0 .. MaxOutput
      BY <1>3, <1>4, <3>1
    <3> QED
      BY <1>5, <2>1, <3>1, <3>2, <3>3 DEF CutInv
  <2> QED
    BY <1>4, <2>2, <2>3
<1>10. LimitInv(E)'
  <2>1. /\ LimitInv(E) /\ server.scrollback \in Nat
        /\ 0 \in 0 .. MaxOutput /\ E[eventNo] \in Nat /\ E[eventNo + fit] \in Nat
    <3>1. eventNo \in 0 .. MaxOutput
      BY DEF SharerHalf, CutInv
    <3>2. eventNo + fit \in 0 .. MaxOutput
      BY <1>5, <1>9 DEF CutInv
    <3> QED
      BY <1>3, <3>1, <3>2 DEF SharerHalf, ServerTypes, ServerState, Cuts
  <2>2. PICK before, after, more :
          before = D[0] /\ after = D[k] /\ more = D[fit]
    OBVIOUS
  <2>3. before \in Nat /\ after \in Nat /\ more \in Nat /\ before <= more /\ more <= after
    <3>1. fit = k \/ D[fit] < D[k]
      BY <1>2, <1>3, <1>4
    <3> QED
      BY <1>2, <1>3, <1>4, <2>2, <3>1
  <2>4. E[eventNo + fit] = IF fit > 0 THEN more ELSE E[eventNo]
    <3>1. fit = 0 => eventNo + fit = eventNo
      BY <1>3
    <3> QED
      BY <1>4, <1>7, <2>2, <3>1
  <2>5. /\ before = Flushed /\ after = Flushed' /\ bytes' = bytes + (after - before)
    BY <1>5, <2>2
  <2>6. fit < k => bytes + (after - before) > MaxBytes
    <3>1. fit < k => k \in 1 .. k
      BY <1>4
    <3> QED
      BY <1>4, <2>2, <3>1
  <2>7. CASE bytes > MaxBytes
    <3>1. fit = 0
      BY <1>3, <1>4, <1>6, <2>7
    <3>2. sStage' = "Finished"
      BY <1>5, <2>1, <2>7 DEF LimitInv
    <3>3. PICK total, more2 : total = bytes' /\ more2 = after - before
      OBVIOUS
    <3>4. more2 \in Nat /\ total = bytes + more2
      <4>1. more2 \in Nat
        BY <2>3, <3>3
      <4>2. total = bytes + more2
        BY <2>5, <3>3, Zenon
      <4> QED
        BY <4>1, <4>2
    <3>5. total \in Nat /\ total > MaxBytes
      BY <1>3, <2>7, <3>4
    <3>6. E[eventNo'] = E[eventNo] /\ E[eventNo] <= before /\ server' = server
          /\ server.scrollback + E[eventNo] <= MaxBytes /\ bytes <= MaxBytes + before
      BY <1>5, <2>1, <2>4, <2>5, <3>1 DEF LimitInv
    <3>7. E[eventNo] <= after /\ total <= MaxBytes + after
      BY <1>3, <2>1, <2>3, <3>3, <3>4, <3>6
    <3>8. ~(total <= MaxBytes)
      BY <1>3, <3>5
    <3> QED
      BY <2>5, <3>2, <3>3, <3>5, <3>6, <3>7, <3>8 DEF LimitInv
  <2>8. CASE ~(bytes > MaxBytes)
    <3>1. bytes = server.scrollback + E[eventNo] /\ E[eventNo] = before
      BY <1>3, <2>1, <2>5, <2>8 DEF LimitInv
    <3>2. E[eventNo + fit] = more
      BY <1>3, <1>4, <2>2, <2>4, <3>1
    <3>3. server.scrollback + more <= MaxBytes
      BY <1>3, <1>4, <2>1, <2>2, <2>3, <2>8, <3>1
    <3>4. fit < k => bytes' > MaxBytes /\ sStage' = "Finished"
      BY <1>5, <2>5, <2>6
    <3>5. ~(fit < k) => more = after /\ bytes' <= MaxBytes
      <4>1. ~(fit < k) => fit = k
        BY <1>4
      <4> QED
        BY <1>3, <1>4, <2>1, <2>2, <2>3, <2>5, <2>8, <3>1, <3>3, <4>1
    <3>6. bytes' \in Nat /\ bytes' <= MaxBytes + after
      BY <1>3, <2>1, <2>3, <2>5, <2>8, <3>1
    <3>7. bytes' <= MaxBytes => bytes' = server.scrollback + more /\ more = after
      BY <1>3, <2>1, <2>3, <2>5, <3>1, <3>4, <3>5
    <3>8. bytes' > MaxBytes => sStage' = "Finished"
      BY <1>3, <3>4, <3>5, <3>6
    <3> QED
      BY <1>5, <2>3, <2>5, <3>2, <3>3, <3>6, <3>7, <3>8 DEF LimitInv
  <2> QED
    BY <2>7, <2>8
<1>11. ASSUME NEW i \in 1 .. fit
       PROVE  /\ eventNo + i - 1 \in eventNo .. eventNo + fit - 1
              /\ payloads[i] = Piece(E, eventNo + i - 1)
  <2>1. i - 1 \in 0 .. fit /\ i \in 0 .. fit /\ fit > 0 /\ i \in 1 .. k /\ i - 1 + 1 = i
    BY <1>4
  <2>2. /\ eventNo + i - 1 \in eventNo .. eventNo + fit - 1
        /\ eventNo + (i - 1) = eventNo + i - 1 /\ eventNo + i - 1 + 1 = eventNo + i
    BY <1>3, <1>4
  <2>3. payloads[i] = Stretch(D[i - 1], D[i])
    BY <1>2, <2>1 DEF Piece
  <2>4. Piece(E, eventNo + i - 1) = Stretch(E[eventNo + i - 1], E[eventNo + i])
    BY <2>2 DEF Piece
  <2>5. E[eventNo + i - 1] = D[i - 1] /\ E[eventNo + i] = D[i]
    BY <1>7, <2>1, <2>2
  <2> QED
    BY <2>2, <2>3, <2>4, <2>5
<1>12. KeptInv(E)'
  <2>1. /\ DOMAIN unacked \subseteq 0 .. eventNo - 1
        /\ \A n \in DOMAIN unacked : unacked[n] = Piece(E, n)
        /\ server.processed .. eventNo - 1 \subseteq DOMAIN unacked
        /\ server.processed \in Nat
    BY DEF SharerHalf, KeptInv, ServerTypes, ServerState
  <2>2. PICK S : S = DOMAIN unacked \cup eventNo .. eventNo + fit - 1
    OBVIOUS
  <2>3. DOMAIN unacked' = S
    BY <1>5, <2>2
  <2>4. S \subseteq 0 .. eventNo' - 1
    BY <1>3, <1>4, <1>5, <2>1, <2>2
  <2>5. \A n \in S : unacked'[n] = Piece(E, n)
    <3> TAKE n \in S
    <3>1. unacked'[n] = IF n < eventNo THEN unacked[n] ELSE payloads[n - eventNo + 1]
      BY <1>5, <2>2
    <3>2. CASE n < eventNo
      <4>1. n \in DOMAIN unacked
        BY <1>3, <1>4, <2>2, <3>2
      <4> QED
        BY <2>1, <3>1, <3>2, <4>1
    <3>3. CASE ~(n < eventNo)
      <4>1. PICK i : i = n - eventNo + 1
        OBVIOUS
      <4>2. n \in eventNo .. eventNo + fit - 1
        BY <1>3, <2>1, <2>2, <3>3
      <4>3. i \in 1 .. fit /\ eventNo + i - 1 = n
        BY <1>3, <1>4, <4>1, <4>2
      <4> QED
        BY <1>11, <3>1, <3>3, <4>1, <4>3
    <3> QED
      BY <3>2, <3>3
  <2>6. unacked' = [n \in S |-> Piece(E, n)]
    <3>1. unacked' = [n \in S |-> unacked'[n]]
      BY <1>5, <2>2
    <3> QED
      BY <2>5, <3>1
  <2>7. server.processed .. eventNo' - 1 \subseteq S
    <3> SUFFICES ASSUME NEW n \in server.processed .. eventNo' - 1
                 PROVE  n \in S
      OBVIOUS
    <3>1. n \in server.processed .. eventNo - 1 \/ n \in eventNo .. eventNo + fit - 1
      BY <1>3, <1>4, <1>5, <2>1
    <3> QED
      BY <2>1, <2>2, <3>1
  <2> QED
    BY <1>5, <2>3, <2>4, <2>6, <2>7 DEF KeptInv
<1>13. eventNo' \in Nat /\ eventNo <= eventNo'
  BY <1>3, <1>4, <1>5
<1>14. ReceivedInv(E)'
  <2>1. ReceivedInv(E) /\ Len(server.received) \in Nat
    BY DEF SharerHalf, ServerTypes, ServerState
  <2>2. Len(server.received) <= eventNo'
    BY <1>3, <1>13, <2>1 DEF ReceivedInv
  <2> QED
    BY <1>5, <2>1, <2>2 DEF ReceivedInv
<1>15. PICK events, tail, messages :
         /\ events = [i \in 1 .. fit |-> Event(eventNo + i - 1, payloads[i])]
         /\ tail = IF fit < k THEN <<End>> ELSE <<>>
         /\ messages = events \o tail
  OBVIOUS
<1>16. SendUp(messages)
  BY <1>1, <1>2, <1>15 DEF SendEvents
<1>17. \A i \in 1 .. fit : /\ events[i] \in Messages(E)' /\ events[i].kind = "event"
                           /\ events[i].no = eventNo + i - 1
  <2> TAKE i \in 1 .. fit
  <2>1. PICK m : m = eventNo + i - 1
    OBVIOUS
  <2>2. m \in 0 .. eventNo' - 1 /\ events[i] = Event(m, Piece(E, m))
    BY <1>3, <1>4, <1>5, <1>11, <1>15, <2>1
  <2>3. Event(m, Piece(E, m)) \in Messages(E)'
    BY <2>2 DEF Messages, Sent
  <2>4. Event(m, Piece(E, m)).kind = "event" /\ Event(m, Piece(E, m)).no = m
    BY DEF Event
  <2> QED
    BY <2>1, <2>2, <2>3, <2>4
<1>18. events \in Seq(Messages(E)') /\ Len(events) = fit
  <2>1. PICK r, T : r = events /\ T = Messages(E)'
    OBVIOUS
  <2>2. r = [i \in 1 .. fit |-> r[i]]
    BY <1>15, <2>1
  <2>3. fit \in Nat
    BY <1>4
  <2>4. \A i \in 1 .. fit : r[i] \in T
    BY <1>17, <2>1
  <2>5. r \in Seq(T) /\ Len(r) = fit
    BY ONLY <2>2, <2>3, <2>4
  <2> QED
    BY <2>1, <2>5
<1>19. Consecutive(events)
  <2> SUFFICES ASSUME NEW i \in 1 .. fit - 1
               PROVE  /\ events[i].kind = "event" /\ events[i + 1].kind = "event"
                      /\ events[i + 1].no = events[i].no + 1
    BY <1>18 DEF Consecutive
  <2>1. /\ i \in 1 .. fit /\ i + 1 \in 1 .. fit
        /\ eventNo + (i + 1) - 1 = eventNo + i - 1 + 1
    BY <1>3, <1>4
  <2> QED
    BY <1>17, <2>1
<1>20. /\ tail \in Seq(Messages(E)') /\ Consecutive(tail)
       /\ tail # <<>> => tail[1].kind = "end" /\ fit < k
       /\ tail = <<>> <=> ~(fit < k)
  <2>1. CASE fit < k
    <3>1. End \in Messages(E)' /\ End.kind = "end"
      BY DEF Messages, End
    <3>2. tail = <<End>>
      BY <1>15, <2>1
    <3> QED
      BY <2>1, <3>1, <3>2 DEF Consecutive
  <2>2. CASE ~(fit < k)
    <3>1. tail = <<>>
      BY <1>15, <2>2
    <3> QED
      BY <2>2, <3>1 DEF Consecutive
  <2> QED
    BY <2>1, <2>2
<1>21. /\ messages \in Seq(Messages(E)') /\ Consecutive(messages)
       /\ Len(messages) = fit + Len(tail) /\ Len(tail) \in Nat
       /\ \A i \in 1 .. fit + Len(tail) :
            messages[i] = IF i <= fit THEN events[i] ELSE tail[i - fit]
  <2>1. events # <<>> /\ tail # <<>> =>
          /\ events[Len(events)].kind = "event"
          /\ \/ tail[1].kind = "end"
             \/ tail[1].kind = "event" /\ tail[1].no = events[Len(events)].no + 1
    <3>1. events # <<>> => Len(events) \in 1 .. fit
      BY <1>4, <1>18
    <3> QED
      BY <1>17, <1>20, <3>1
  <2>2. events \in Seq(Messages(E)') /\ tail \in Seq(Messages(E)') /\ Consecutive(events)
        /\ Consecutive(tail)
    BY <1>18, <1>19, <1>20
  <2>3. /\ events \o tail \in Seq(Messages(E)')
        /\ Len(events \o tail) = Len(events) + Len(tail)
        /\ Len(events) \in Nat /\ Len(tail) \in Nat
        /\ \A i \in 1 .. Len(events) + Len(tail) :
             (events \o tail)[i] = IF i <= Len(events) THEN events[i] ELSE tail[i - Len(events)]
        /\ Consecutive(events \o tail)
    BY ONLY <2>1, <2>2, ConsecutiveConcat
  <2> QED
    BY <1>15, <1>18, <2>3
<1>22. messages # <<>> => messages[1].kind = "end"
                          \/ (messages[1].kind = "event" /\ messages[1].no = eventNo)
  <2>1. CASE fit > 0
    <3>1. 1 \in 1 .. fit /\ 1 \in 1 .. fit + Len(tail) /\ 1 <= fit /\ eventNo + 1 - 1 = eventNo
      BY <1>3, <1>4, <1>21, <2>1
    <3> QED
      BY <1>17, <1>21, <3>1
  <2>2. CASE ~(fit > 0)
    <3>1. messages = tail
      <4>1. fit = 0
        BY <1>4, <2>2
      <4>2. events = <<>>
        BY <1>18, <4>1
      <4>3. <<>> \o tail = tail
        BY <1>20
      <4> QED
        BY <1>15, <4>2, <4>3, Zenon
    <3> QED
      BY <1>20, <3>1
  <2> QED
    BY <2>1, <2>2
<1>23. \/ sStage' = "Finished"
       \/ /\ UNCHANGED <<sStage, sAttempt, sTx>>
          /\ eventNo' = eventNo + Len(messages)
          /\ \A i \in 1 .. Len(messages) :
               messages[i].kind = "event" /\ messages[i].no = eventNo + i - 1
  <2> SUFFICES ASSUME ~(fit < k)
               PROVE  /\ UNCHANGED <<sStage, sAttempt, sTx>>
                      /\ eventNo' = eventNo + Len(messages)
                      /\ \A i \in 1 .. Len(messages) :
                           messages[i].kind = "event" /\ messages[i].no = eventNo + i - 1
    BY <1>5
  <2>1. tail = <<>> /\ Len(tail) = 0
    BY <1>20
  <2>2. Len(messages) = fit /\ fit + Len(tail) = fit
    BY <1>4, <1>21, <2>1
  <2>3. \A i \in 1 .. fit : messages[i] = events[i]
    <3>1. \A i \in 1 .. fit : i <= fit
      BY <1>4
    <3> QED
      BY <1>21, <2>2, <3>1
  <2> QED
    BY <1>5, <1>17, <2>2, <2>3
<1>24. SentInv(E)' /\ UpInv'
  <2>1. UNCHANGED <<sSockets, sReplies, server>>
    BY <1>5
  <2> QED
    BY <1>13, <1>16, <1>21, <1>22, <1>23, <2>1, SendUpKeeps
<1> QED
  BY <1>8, <1>9, <1>10, <1>12, <1>13, <1>14, <1>24 DEF SharerHalf

(* What is sent extends the cuts.                                          *)
LEMMA SendEventsExtends ==
  ASSUME NEW E \in Cuts, SharerHalf(E), ViewerHalf(E), NEW D \in Cuts, NEW k \in Nat,
         k <= MaxOutput, NEW payloads, Payloads(D, k, payloads), SendEvents(payloads),
         D[0] = Flushed, D[k] = Flushed', \A j \in 0 .. k : D[0] + j <= D[j], TerminalInv'
  PROVE  Inv'
<1>1. UNCHANGED <<viewerVars, downVars, loopVars>>
  BY DEF SendEvents
<1>2. \A E2 \in Cuts :
        SharerHalf(E2) /\ ViewerHalf(E2)
        /\ (bytes <= MaxBytes => \A j \in 0 .. k : eventNo + j <= D[j] /\ E2[eventNo + j] = D[j])
        => Inv'
  <2> SUFFICES ASSUME NEW E2 \in Cuts, SharerHalf(E2), ViewerHalf(E2),
                      bytes <= MaxBytes =>
                        \A j \in 0 .. k : eventNo + j <= D[j] /\ E2[eventNo + j] = D[j]
               PROVE  Inv'
    OBVIOUS
  <2>1. SharerHalf(E2)' /\ eventNo' \in Nat /\ eventNo <= eventNo'
    BY SendEventsKeeps
  <2>2. eventNo \in Nat
    BY DEF SharerHalf, CutInv
  <2>3. ViewerHalf(E2)'
    BY <1>1, <2>1, <2>2, ViewerHalfGrows
  <2> QED
    BY <2>1, <2>3 DEF Inv
<1>3. CASE ~(bytes <= MaxBytes)
  BY <1>2, <1>3
<1>4. CASE bytes <= MaxBytes
  <2>1. /\ eventNo \in Nat /\ eventNo <= E[eventNo] /\ E[eventNo] = D[0] /\ MaxOutput \in Nat
        /\ \A j \in 0 .. MaxOutput : D[j] \in 0 .. MaxOutput /\ E[j] \in 0 .. MaxOutput
    <3>1. eventNo \in 0 .. MaxOutput /\ eventNo <= E[eventNo] /\ MaxOutput \in Nat
      BY BoundsAssumption DEF SharerHalf, CutInv
    <3>2. E[eventNo] = Flushed
      BY <1>4 DEF SharerHalf, LimitInv
    <3>3. \A j \in 0 .. MaxOutput : D[j] \in 0 .. MaxOutput /\ E[j] \in 0 .. MaxOutput
      BY DEF Cuts
    <3> QED
      BY <3>1, <3>2, <3>3
  <2>2. \A j \in 0 .. k : /\ eventNo + j <= D[j] /\ eventNo + j \in 0 .. MaxOutput
                          /\ j \in 0 .. MaxOutput /\ eventNo + j - eventNo = j
                          /\ eventNo + j \in eventNo .. eventNo + k
    <3> TAKE j \in 0 .. k
    <3>1. j \in 0 .. MaxOutput /\ 0 \in 0 .. MaxOutput
      BY <2>1
    <3>2. D[j] \in 0 .. MaxOutput /\ D[0] \in 0 .. MaxOutput /\ D[0] + j <= D[j]
      BY <2>1, <3>1
    <3> QED
      BY <2>1, <3>1, <3>2
  <2>3. PICK E2 : E2 = [n \in 0 .. MaxOutput |->
                          IF n \in eventNo .. eventNo + k THEN D[n - eventNo] ELSE E[n]]
    OBVIOUS
  <2>4. E2 \in Cuts
    <3>1. \A n \in 0 .. MaxOutput : E2[n] \in 0 .. MaxOutput
      <4> TAKE n \in 0 .. MaxOutput
      <4>1. n \in eventNo .. eventNo + k => n - eventNo \in 0 .. k /\ n - eventNo \in 0 .. MaxOutput
        BY <2>1
      <4> QED
        BY <2>1, <2>3, <4>1
    <3> QED
      BY <2>3, <3>1 DEF Cuts
  <2>5. \A n \in 0 .. eventNo : E2[n] = E[n]
    <3> TAKE n \in 0 .. eventNo
    <3>1. n \in 0 .. MaxOutput /\ eventNo - eventNo = 0
      BY <2>1 DEF SharerHalf, CutInv
    <3>2. n \in eventNo .. eventNo + k => n = eventNo
      BY <2>1
    <3> QED
      BY <2>1, <2>3, <3>1, <3>2
  <2>6. \A j \in 0 .. k : E2[eventNo + j] = D[j]
    <3> TAKE j \in 0 .. k
    <3>1. PICK n : n = eventNo + j
      OBVIOUS
    <3>2. eventNo + j \in 0 .. MaxOutput
      BY <2>2
    <3>3. n \in 0 .. MaxOutput
      BY <3>1, <3>2
    <3>4. n \in eventNo .. eventNo + k /\ n - eventNo = j
      BY <2>1, <3>1
    <3>5. E2[n] = D[n - eventNo]
      BY <2>3, <3>3, <3>4
    <3> QED
      BY <3>1, <3>4, <3>5
  <2>7. SharerHalf(E2) /\ ViewerHalf(E2)
    BY <2>4, <2>5, CutsAgree
  <2> QED
    BY <1>2, <2>2, <2>4, <2>6, <2>7
<1> QED
  BY <1>3, <1>4

LEMMA AppendToOne ==
  ASSUME NEW x, NEW y
  PROVE  Append(<<x>>, y) = <<x, y>>
<1>1. PICK S, q, c : S = {x, y} /\ q = <<x>> /\ c = Append(q, y)
  OBVIOUS
<1>2. q \in Seq(S) /\ y \in S /\ Len(q) = 1 /\ q[1] = x
  BY <1>1
<1>3. c \in Seq(S) /\ Len(c) = 2 /\ c[1] = x /\ c[2] = y
  BY <1>1, <1>2
<1>4. c = <<x, y>>
  BY ONLY <1>3
<1> QED
  BY <1>1, <1>4, Zenon

(* The other events: the batch, if any, and the event after it.            *)
LEMMA OtherEventKeeps ==
  ASSUME NEW E \in Cuts, SharerHalf(E), ViewerHalf(E), OtherEvent
  PROVE  Inv'
<1>1. PICK m, b, n : m = Len(output) /\ b = Len(batch) /\ n = m + 1
  OBVIOUS
<1>2. /\ m \in Nat /\ b \in Nat /\ b <= m /\ m < MaxOutput /\ MaxOutput \in Nat
      /\ output = Stretch(0, m) /\ batch = Stretch(m - b, m) /\ batch \in Seq(Outputs)
      /\ output' = Append(output, n) /\ batch' = <<>> /\ Flushed = m - b
  BY <1>1, BoundsAssumption DEF OtherEvent, SharerHalf, TerminalInv, Flushed
<1>3. PICK payloads : payloads = Append(Batched, <<n>>)
  OBVIOUS
<1>4. SendEvents(payloads)
  BY <1>1, <1>3 DEF OtherEvent
<1>5. TerminalInv' /\ Flushed' = n
  <2>1. output' = Stretch(0, n) /\ output' \in Seq(Outputs) /\ Len(output') = n
    <3>1. 0 \in Nat /\ 0 <= m
      BY <1>2
    <3>2. /\ Append(Stretch(0, m), m + 1) = Stretch(0, m + 1)
          /\ Stretch(0, m + 1) \in Seq(Outputs) /\ Len(Stretch(0, m + 1)) = m + 1 - 0
      BY <1>2, <3>1, StretchAppend
    <3>3. m + 1 - 0 = n /\ m + 1 = n
      BY <1>1, <1>2
    <3>4. output' = Append(Stretch(0, m), m + 1)
      BY <1>2, <3>3
    <3> QED
      BY <3>2, <3>3, <3>4
  <2>2. batch' \in Seq(Outputs) /\ Len(batch') = 0 /\ n \in Nat /\ n <= MaxOutput
    BY <1>1, <1>2
  <2>3. Flushed' = n
    <3>1. Flushed' = n - 0
      BY <2>1, <2>2 DEF Flushed
    <3>2. n - 0 = n
      BY <2>2
    <3> QED
      BY <3>1, <3>2, Zenon
  <2>4. Stretch(n, n) = <<>>
    BY <2>2, EmptyStretch
  <2> QED
    BY <1>2, <2>1, <2>2, <2>3, <2>4 DEF TerminalInv
<1>6. Stretch(m, n) = <<n>> /\ n \in 0 .. MaxOutput /\ m \in 0 .. MaxOutput /\ m - b \in 0 .. MaxOutput
  <2>1. n - m = 1 /\ \A i \in 1 .. 1 : m + i = n
    BY <1>1, <1>2
  <2>2. Stretch(m, n) = [i \in 1 .. 1 |-> n]
    BY <2>1 DEF Stretch
  <2> QED
    BY <1>1, <1>2, <2>2
<1>7. CASE batch = <<>>
  <2>1. b = 0 /\ Flushed = m /\ payloads = <<<<n>>>>
    <3>0. b = 0
      BY <1>1, <1>7
    <3>1. m - b = m
      BY <1>2, <3>0
    <3>2. payloads = Append(<<>>, <<n>>)
      BY <1>3, <1>7 DEF Batched
    <3> QED
      BY <1>2, <3>0, <3>1, <3>2
  <2>2. PICK D : D = [j \in 0 .. MaxOutput |-> IF j = 0 THEN m ELSE n]
    OBVIOUS
  <2>3. D \in Cuts /\ D[0] = m /\ D[1] = n /\ 1 \in Nat /\ 1 <= MaxOutput
    BY <1>2, <1>6, <2>2 DEF Cuts
  <2>4. \A j \in 0 .. 1 : j = 0 \/ j = 1
    OBVIOUS
  <2>5. \A j \in 0 .. 1 : D[0] + j <= D[j]
    <3>1. D[0] + 0 <= D[0] /\ D[0] + 1 <= D[1]
      BY <1>1, <1>2, <2>3
    <3> QED
      BY <2>4, <3>1
  <2>6. Payloads(D, 1, payloads)
    <3>1. Piece(D, 0) = <<n>>
      BY <1>6, <2>3 DEF Piece
    <3>2. payloads = [i \in 1 .. 1 |-> Piece(D, i - 1)]
      <4>1. \A i \in 1 .. 1 : i - 1 = 0
        OBVIOUS
      <4>2. [i \in 1 .. 1 |-> Piece(D, i - 1)] = [i \in 1 .. 1 |-> <<n>>]
        BY <3>1, <4>1
      <4> QED
        BY <2>1, <4>2
    <3>3. \A i, j \in 0 .. 1 : i < j => D[i] < D[j]
      BY <1>1, <1>2, <2>3, <2>4
    <3> QED
      BY <3>2, <3>3 DEF Payloads
  <2>7. D[0] = Flushed /\ D[1] = Flushed'
    BY <1>5, <2>1, <2>3
  <2> QED
    BY <1>4, <1>5, <2>3, <2>5, <2>6, <2>7, SendEventsExtends
<1>8. CASE batch # <<>>
  <2>1. b > 0 /\ Flushed = m - b /\ payloads = <<batch, <<n>>>>
    <3>1. b > 0
      BY <1>1, <1>2, <1>8
    <3>2. payloads = Append(<<batch>>, <<n>>)
      BY <1>3, <1>8 DEF Batched
    <3>3. Append(<<batch>>, <<n>>) = <<batch, <<n>>>>
      BY AppendToOne
    <3> QED
      BY <1>2, <3>1, <3>2, <3>3, Zenon
  <2>2. PICK D : D = [j \in 0 .. MaxOutput |-> IF j = 0 THEN m - b ELSE IF j = 1 THEN m ELSE n]
    OBVIOUS
  <2>3. D \in Cuts /\ D[0] = m - b /\ D[1] = m /\ D[2] = n /\ 2 \in Nat /\ 2 <= MaxOutput
    BY <1>2, <1>6, <2>1, <2>2 DEF Cuts
  <2>4. \A j \in 0 .. 2 : j = 0 \/ j = 1 \/ j = 2
    OBVIOUS
  <2>5. \A j \in 0 .. 2 : D[0] + j <= D[j]
    <3>1. m - b + 0 <= m - b /\ m - b + 1 <= m /\ m - b + 2 <= n
      BY <1>1, <1>2, <2>1
    <3> QED
      BY <2>3, <2>4, <3>1
  <2>6. Payloads(D, 2, payloads)
    <3>1. Piece(D, 0) = batch /\ Piece(D, 1) = <<n>>
      BY <1>2, <1>6, <2>3 DEF Piece
    <3>2. payloads = [i \in 1 .. 2 |-> Piece(D, i - 1)]
      <4>1. \A i \in 1 .. 2 : i - 1 = IF i = 1 THEN 0 ELSE 1
        OBVIOUS
      <4>2. [i \in 1 .. 2 |-> Piece(D, i - 1)] = [i \in 1 .. 2 |-> IF i = 1 THEN batch ELSE <<n>>]
        BY <3>1, <4>1
      <4> QED
        BY <2>1, <4>2
    <3>3. \A i, j \in 0 .. 2 : i < j => D[i] < D[j]
      BY <1>1, <1>2, <2>1, <2>3, <2>4
    <3> QED
      BY <3>2, <3>3 DEF Payloads
  <2>7. D[0] = Flushed /\ D[2] = Flushed'
    BY <1>5, <2>1, <2>3
  <2> QED
    BY <1>4, <1>5, <2>3, <2>5, <2>6, <2>7, SendEventsExtends
<1> QED
  BY <1>7, <1>8

(* The timer sends the batch.                                              *)
LEMMA BatchTimerKeeps ==
  ASSUME NEW E \in Cuts, SharerHalf(E), ViewerHalf(E), BatchTimer
  PROVE  Inv'
<1>1. PICK m, b : m = Len(output) /\ b = Len(batch)
  OBVIOUS
<1>2. /\ m \in Nat /\ b \in Nat /\ b <= m /\ m <= MaxOutput /\ MaxOutput \in Nat
      /\ output \in Seq(Outputs) /\ output = Stretch(0, m)
      /\ batch = Stretch(m - b, m) /\ batch \in Seq(Outputs) /\ batch # <<>>
      /\ output' = output /\ batch' = <<>> /\ Flushed = m - b
  BY <1>1, BoundsAssumption DEF BatchTimer, SharerHalf, TerminalInv, Flushed
<1>3. PICK payloads : payloads = <<batch>>
  OBVIOUS
<1>4. SendEvents(payloads) /\ b > 0
  <2>1. b > 0
    BY <1>1, <1>2
  <2>2. Batched = <<batch>>
    BY <1>2 DEF Batched
  <2> QED
    BY <1>3, <2>1, <2>2 DEF BatchTimer
<1>5. TerminalInv' /\ Flushed' = m
  <2>1. batch' \in Seq(Outputs) /\ Len(batch') = 0
    BY <1>2
  <2>2. Flushed' = m
    <3>1. Flushed' = m - 0
      BY <1>1, <1>2, <2>1 DEF Flushed
    <3>2. m - 0 = m
      BY <1>2
    <3> QED
      BY <3>1, <3>2, Zenon
  <2>3. Stretch(m, m) = <<>>
    BY <1>2, EmptyStretch
  <2> QED
    <3>1. output' \in Seq(Outputs) /\ Len(output') = m /\ output' = Stretch(0, m)
      BY <1>1, <1>2
    <3> QED
      BY <1>2, <2>1, <2>2, <2>3, <3>1 DEF TerminalInv
<1>6. PICK D : D = [j \in 0 .. MaxOutput |-> IF j = 0 THEN m - b ELSE m]
  OBVIOUS
<1>7. D \in Cuts /\ D[0] = m - b /\ D[1] = m /\ 1 \in Nat /\ 1 <= MaxOutput
  BY <1>2, <1>4, <1>6 DEF Cuts
<1>8. \A j \in 0 .. 1 : j = 0 \/ j = 1
  OBVIOUS
<1>9. \A j \in 0 .. 1 : D[0] + j <= D[j]
  BY <1>2, <1>4, <1>7, <1>8
<1>10. Payloads(D, 1, payloads)
  <2>1. Piece(D, 0) = batch
    BY <1>2, <1>7 DEF Piece
  <2>2. payloads = [i \in 1 .. 1 |-> Piece(D, i - 1)]
    <3>1. \A i \in 1 .. 1 : i - 1 = 0
      OBVIOUS
    <3>2. [i \in 1 .. 1 |-> Piece(D, i - 1)] = [i \in 1 .. 1 |-> batch]
      BY <2>1, <3>1
    <3> QED
      BY <1>3, <3>2
  <2>3. \A i, j \in 0 .. 1 : i < j => D[i] < D[j]
    BY <1>2, <1>4, <1>7, <1>8
  <2> QED
    BY <2>2, <2>3 DEF Payloads
<1>11. D[0] = Flushed /\ D[1] = Flushed'
  BY <1>2, <1>5, <1>7
<1> QED
  BY <1>4, <1>5, <1>7, <1>9, <1>10, <1>11, SendEventsExtends

-----------------------------------------------------------------------------
(* The invariant holds in every reachable state.                           *)

LEMMA InitInv == Init => Inv
<1> SUFFICES ASSUME Init PROVE Inv
  OBVIOUS
<1>1. PICK scenario \in Scenarios :
        /\ Sharer!Init(scenario.sharerSockets) /\ Viewer!Init(scenario.viewerSockets)
        /\ bytes = scenario.scrollback
        /\ server = [phase |-> "none", scrollback |-> scenario.scrollback, received |-> <<>>,
                     processed |-> 0]
        /\ restarts = scenario.restarts
  BY DEF Init
<1>2. /\ output = <<>> /\ batch = <<>> /\ eventNo = 0 /\ unacked = <<>>
      /\ up = <<>> /\ sReplies = <<>>
      /\ hello = <<>> /\ vReplies = <<>> /\ from = <<>> /\ mail = <<>>
      /\ loop = NoLoop /\ screen = <<>>
  BY DEF Init
<1>3. /\ scenario.scrollback \in 0 .. MaxBytes /\ scenario.sharerSockets \in Nat
      /\ scenario.viewerSockets \in Nat /\ scenario.restarts \in Nat
      /\ MaxOutput \in Nat /\ MaxBytes \in Nat
  BY BoundsAssumption
<1>4. PICK E : E = [n \in 0 .. MaxOutput |-> 0]
  OBVIOUS
<1>5. E \in Cuts /\ E[0] = 0
  BY <1>3, <1>4 DEF Cuts
<1>6. Stretch(0, 0) = <<>>
  BY EmptyStretch
<1>7. /\ sStage = "Before" /\ sAttempt = "first" /\ sSockets = <<>> /\ sTx = TRUE
      /\ sSpare \in Nat
      /\ vStage = "Before" /\ vAttempt = "first" /\ vSockets = <<>> /\ vTx = TRUE
      /\ vSpare \in Nat
  BY <1>1, <1>3 DEF Sharer!Init, Viewer!Init
<1>8. SharerTypes /\ ServerTypes
  <2>1. SharerTypes
    BY <1>2, <1>7 DEF SharerTypes, Sharer!TypeOK
  <2>2. ServerTypes
    BY <1>1, <1>3 DEF ServerTypes, ServerState
  <2> QED
    BY <2>1, <2>2
<1>9. CutInv(E)
  BY <1>2, <1>3, <1>5 DEF CutInv
<1>10. TerminalInv /\ Flushed = 0
  BY <1>2, <1>3, <1>6 DEF TerminalInv, Flushed
<1>11. LimitInv(E)
  BY <1>1, <1>2, <1>3, <1>5, <1>10 DEF LimitInv
<1>12. KeptInv(E)
  BY <1>1, <1>2 DEF KeptInv
<1>13. ReceivedInv(E) /\ SentInv(E)
  BY <1>1, <1>2, <1>7 DEF ReceivedInv, SentInv
<1>14. UpInv
  <2>1. BeforeInv
    BY <1>1, <1>2, <1>7 DEF BeforeInv
  <2>2. ConnectedInv
    BY <1>7 DEF ConnectedInv
  <2> QED
    BY <1>7, <2>1, <2>2 DEF UpInv
<1>15. SharerHalf(E)
  BY <1>8, <1>9, <1>10, <1>11, <1>12, <1>13, <1>14 DEF SharerHalf
<1>16. ViewerTypes /\ MailInv(E)
  BY <1>2, <1>7 DEF ViewerTypes, Viewer!TypeOK, MailInv
<1>17. ShownInv(E)
  <2>1. loop \in LoopState
    <3>1. <<>> \in [{} -> Seq(Outputs)] /\ {} \in SUBSET EventNos
      OBVIOUS
    <3>2. <<>> \in UNION {[S -> Seq(Outputs)] : S \in SUBSET EventNos}
      BY <3>1
    <3> QED
      BY <1>2, <3>2 DEF NoLoop, LoopState, None
  <2> QED
    BY <1>2, <1>5, <1>6, <2>1 DEF ShownInv, NoLoop
<1>18. ViewerInv
  BY <1>2, <1>7 DEF ViewerInv, NoLoop
<1> QED
  BY <1>5, <1>15, <1>16, <1>17, <1>18 DEF Inv, ViewerHalf

LEMMA SharerNextKeeps ==
  ASSUME NEW E \in Cuts, SharerHalf(E), ViewerHalf(E), SharerNext
  PROVE  Inv'
<1>1. CASE ReadPty
  <2>1. ViewerHalf(E)'
    BY <1>1, ViewerHalfKept DEF ReadPty
  <2> QED
    BY <1>1, <2>1, ReadPtyKeeps DEF Inv
<1>2. CASE OtherEvent
  BY <1>2, OtherEventKeeps
<1>3. CASE BatchTimer
  BY <1>3, BatchTimerKeeps
<1>4. CASE EndSession
  <2>1. ViewerHalf(E)'
    BY <1>4, ViewerHalfKept DEF EndSession, eventVars
  <2> QED
    BY <1>4, <2>1, EndSessionKeeps DEF Inv
<1>5. CASE SharerOpened
  <2>1. ViewerHalf(E)'
    BY <1>5, ViewerHalfKept DEF SharerOpened, eventVars
  <2> QED
    BY <1>5, <2>1, SharerOpenedKeeps DEF Inv
<1>6. CASE SharerWaits
  <2>1. ViewerHalf(E)'
    BY <1>6, ViewerHalfKept DEF SharerWaits, eventVars
  <2> QED
    BY <1>6, <2>1, SharerWaitsKeeps DEF Inv
<1>7. ASSUME NEW s \in DOMAIN sSockets, SharerSocketBreaks(s)
      PROVE  Inv'
  <2>1. ViewerHalf(E)'
    BY <1>7, ViewerHalfKept DEF SharerSocketBreaks, eventVars
  <2> QED
    BY <1>7, <2>1, SharerSocketBreaksKeeps DEF Inv
<1>8. ASSUME NEW s \in DOMAIN sSockets, SharerStreamEnded(s)
      PROVE  Inv'
  <2>1. ViewerHalf(E)'
    BY <1>8, ViewerHalfKept DEF SharerStreamEnded, eventVars
  <2> QED
    BY <1>8, <2>1, SharerStreamEndedKeeps DEF Inv
<1>9. ASSUME NEW s \in DOMAIN sSockets, SharerReply(s)
      PROVE  Inv'
  <2>1. ViewerHalf(E)'
    BY <1>9, ViewerHalfKept DEF SharerReply, eventVars
  <2> QED
    BY <1>9, <2>1, SharerReplyKeeps DEF Inv
<1>10. ASSUME NEW n \in DOMAIN unacked, Ack(n)
       PROVE  Inv'
  <2>1. ViewerHalf(E)'
    BY <1>10, ViewerHalfKept DEF Ack
  <2> QED
    BY <1>10, <2>1, AckKeeps DEF Inv
<1> QED
  BY <1>1, <1>2, <1>3, <1>4, <1>5, <1>6, <1>7, <1>8, <1>9, <1>10 DEF SharerNext

LEMMA ServerNextKeeps ==
  ASSUME NEW E \in Cuts, SharerHalf(E), ViewerHalf(E), ServerNext
  PROVE  Inv'
<1>1. CASE ServerTerminates
  <2>1. ViewerHalf(E)'
    BY <1>1, TellViewersKeeps DEF ServerTerminates, eventVars
  <2> QED
    BY <1>1, <2>1, ServerTerminatesKeeps DEF Inv
<1>2. CASE ServerRestarts
  BY <1>2, ServerRestartsKeeps, ServerRestartsKeepsViewer DEF Inv
<1>3. ASSUME NEW s \in DOMAIN sSockets, ServerTakes(s)
      PROVE  Inv'
  <2>1. /\ eventNo' = eventNo
        /\ UNCHANGED <<viewerVars, hello, from, mail, loopVars>>
        /\ vReplies' = vReplies \/ TellViewers
    BY <1>3 DEF ServerTakes, eventVars
  <2>2. CASE TellViewers
    BY <1>3, <2>1, <2>2, TellViewersKeeps, ServerTakesKeeps DEF Inv
  <2>3. CASE vReplies' = vReplies
    <3>1. ViewerHalf(E)'
      BY <2>1, <2>3, ViewerHalfKept DEF downVars
    <3> QED
      BY <1>3, <3>1, ServerTakesKeeps DEF Inv
  <2> QED
    BY <2>1, <2>2, <2>3
<1>4. ASSUME NEW t \in DOMAIN vSockets, ServerAdmits(t) \/ ServerSends(t)
      PROVE  Inv'
  <2>1. SharerHalf(E)'
    BY <1>4, SharerHalfKept DEF ServerAdmits, ServerSends
  <2>2. eventNo' = eventNo
    BY <1>4 DEF ServerAdmits, ServerSends, eventVars
  <2>3. ViewerHalf(E)'
    BY <1>4, <2>2, ServerAdmitsKeeps, ServerSendsKeeps
  <2> QED
    BY <2>1, <2>3 DEF Inv
<1> QED
  BY <1>1, <1>2, <1>3, <1>4 DEF ServerNext

LEMMA ViewerNextKeeps ==
  ASSUME NEW E \in Cuts, SharerHalf(E), ViewerHalf(E), ViewerNext
  PROVE  Inv'
<1>1. UNCHANGED <<sharerVars, eventVars, upVars, serverVars>>
  BY DEF ViewerNext, ViewerOpened, ViewerWaits, ViewerLeaves, ViewerSocketBreaks,
         ViewerStreamEnded, ViewerReply, ViewerEvent
<1>2. SharerHalf(E)' /\ eventNo' = eventNo
  BY <1>1, SharerHalfKept DEF eventVars
<1>3. eventNo \in Nat /\ CutInv(E)
  BY BoundsAssumption DEF SharerHalf, CutInv
<1>4. CASE ViewerOpened
  BY <1>2, <1>4, ViewerOpenedKeeps DEF Inv
<1>5. CASE ViewerWaits \/ ViewerLeaves
  BY <1>2, <1>5, ViewerWaitsKeeps DEF Inv
<1>6. ASSUME NEW t \in DOMAIN vSockets,
             \/ ViewerSocketBreaks(t) \/ ViewerStreamEnded(t)
             \/ ViewerReply(t) \/ ViewerEvent(t)
      PROVE  Inv'
  <2>1. ViewerHalf(E)'
    BY <1>2, <1>3, <1>6, ViewerSocketBreaksKeeps, ViewerStreamEndedKeeps, ViewerReplyKeeps,
       ViewerEventKeeps
  <2> QED
    BY <1>2, <2>1 DEF Inv
<1> QED
  BY <1>4, <1>5, <1>6 DEF ViewerNext

LEMMA NextInv == Inv /\ [Next]_vars => Inv'
<1> SUFFICES ASSUME Inv, [Next]_vars PROVE Inv'
  OBVIOUS
<1>1. PICK E \in Cuts : SharerHalf(E) /\ ViewerHalf(E)
  BY DEF Inv
<1>2. CASE UNCHANGED vars
  <2>1. /\ UNCHANGED <<sharerVars, eventVars, upVars, serverVars>>
        /\ UNCHANGED <<viewerVars, downVars, loopVars>>
        /\ eventNo' = eventNo
    BY <1>2 DEF vars, eventVars
  <2> QED
    BY <1>1, <2>1, SharerHalfKept, ViewerHalfKept DEF Inv
<1> QED
  BY <1>1, <1>2, SharerNextKeeps, ServerNextKeeps, ViewerNextKeeps DEF Next

LEMMA SafetyInvariant == Spec => []Inv
BY InitInv, NextInv, PTL DEF Spec

-----------------------------------------------------------------------------
(* The theorems.                                                           *)

(* Every variable keeps its type: the sharer's counters stay within the    *)
(* terminal's output, and each socket has its queues.                      *)
THEOREM TypeCorrect == Spec => []TypeOK
<1>1. Inv => TypeOK
  <2> SUFFICES ASSUME NEW E \in Cuts, SharerHalf(E), ViewerHalf(E)
               PROVE  TypeOK
    BY DEF Inv
  <2>1. MaxOutput \in Nat /\ MaxBytes \in Nat /\ eventNo \in 0 .. MaxOutput
    BY BoundsAssumption DEF SharerHalf, CutInv
  <2>2. /\ Sharer!TypeOK /\ Len(sReplies) = Len(sSockets) /\ Len(up) = Len(sSockets)
        /\ server \in ServerState
    BY DEF SharerHalf, SharerTypes, ServerTypes, SentInv
  <2>3. /\ Viewer!TypeOK /\ Len(hello) = Len(vSockets) /\ Len(vReplies) = Len(vSockets)
        /\ Len(from) = Len(vSockets) /\ Len(mail) = Len(vSockets)
    BY DEF ViewerHalf, ViewerTypes, MailInv
  <2>4. output \in Seq(Outputs) /\ batch \in Seq(Outputs)
    BY DEF SharerHalf, TerminalInv
  <2>5. bytes \in 0 .. MaxBytes + MaxOutput
    <3>1. /\ Len(output) \in Nat /\ Len(batch) \in Nat /\ Len(output) <= MaxOutput
          /\ bytes \in Nat /\ bytes <= MaxBytes + (Len(output) - Len(batch))
      BY DEF SharerHalf, TerminalInv, LimitInv, Flushed
    <3> QED
      BY <2>1, <3>1
  <2>6. DOMAIN unacked \subseteq EventNos
    <3>1. DOMAIN unacked \subseteq 0 .. eventNo - 1
      BY DEF SharerHalf, KeptInv
    <3> QED
      BY <2>1, <3>1 DEF EventNos
  <2>7. /\ server.phase \in {"none", "live", "ended"}
        /\ server.processed \in 0 .. Len(server.received)
    <3>1. server.received \in Seq(Seq(Outputs)) /\ server.processed \in Nat
      BY <2>2 DEF ServerState
    <3>2. server.processed <= Len(server.received)
      BY DEF SharerHalf, ReceivedInv
    <3> QED
      BY <2>2, <3>1, <3>2 DEF ServerState
  <2>8. /\ loop \in LoopState /\ DOMAIN loop.buffer \subseteq 0 .. eventNo - 1
        /\ loop.next <= eventNo /\ screen = Stretch(0, E[loop.next])
    BY DEF ViewerHalf, ShownInv
  <2>9. loop.next \in 0 .. MaxOutput /\ DOMAIN loop.buffer \subseteq EventNos
    BY <2>1, <2>8 DEF LoopState, EventNos
  <2>10. screen \in Seq(Outputs)
    <3>1. PICK shown : shown = E[loop.next]
      OBVIOUS
    <3>2. shown \in Nat /\ shown <= MaxOutput /\ 0 \in Nat /\ 0 <= shown
      BY <2>1, <2>9, <3>1 DEF Cuts
    <3>3. Stretch(0, shown) \in Seq(Outputs)
      BY <3>2, StretchType
    <3> QED
      BY <2>8, <3>1, <3>3
  <2> QED
    BY <2>2, <2>3, <2>4, <2>5, <2>6, <2>7, <2>1, <2>9, <2>10 DEF TypeOK
<1> QED
  BY <1>1, SafetyInvariant, PTL

(* The server never finds a gap: the first event on its way up on any      *)
(* socket, from whatever flush, is at most the one the server lacks.       *)
THEOREM NoGaps == Spec => []NoGapUpstream
<1>1. Inv => NoGapUpstream
  <2> SUFFICES ASSUME NEW E \in Cuts, SharerHalf(E), NEW s \in DOMAIN up,
                      server.phase = "live", up[s] # <<>>, Head(up[s]).kind = "event"
               PROVE  Head(up[s]).no <= Len(server.received)
    BY DEF Inv, NoGapUpstream
  <2>1. up \in Seq(Seq(Messages(E))) /\ Len(up) = Len(sSockets)
    BY DEF SharerHalf, SentInv
  <2>2. s \in 1 .. Len(sSockets) /\ Head(up[s]) = up[s][1]
    BY <2>1
  <2>3. QueueInv(s)
    BY <2>2 DEF SharerHalf, UpInv
  <2> QED
    BY <2>2, <2>3 DEF QueueInv
<1> QED
  BY <1>1, SafetyInvariant, PTL

(* Whatever the server could forget in a restart is still among the        *)
(* sharer's unacknowledged events.                                         *)
THEOREM LosableIsKept == Spec => []UnprocessedKept
<1>1. Inv => UnprocessedKept
  BY DEF Inv, SharerHalf, KeptInv, UnprocessedKept
<1> QED
  BY <1>1, SafetyInvariant, PTL

(* What the server holds is never larger than the session may be, and      *)
(* nothing follows the end of the session on a socket.                     *)
THEOREM LimitHolds == Spec => []LimitKept
<1>1. Inv => LimitKept
  <2> SUFFICES ASSUME NEW E \in Cuts, SharerHalf(E)
               PROVE  LimitKept
    BY DEF Inv
  <2>1. PICK m : m = Len(server.received)
    OBVIOUS
  <2>2. /\ m \in Nat /\ m <= eventNo /\ eventNo \in 0 .. MaxOutput /\ MaxOutput \in Nat
        /\ MaxBytes \in Nat /\ server.scrollback \in Nat
        /\ server.received = [i \in 1 .. m |-> Piece(E, i - 1)]
        /\ E[0] = 0 /\ \A j, k \in 0 .. eventNo : j < k => E[j] < E[k]
        /\ server.scrollback + E[eventNo] <= MaxBytes
    BY <2>1, BoundsAssumption
       DEF SharerHalf, ServerTypes, ServerState, ReceivedInv, CutInv, LimitInv
  <2>3. \A k \in 0 .. eventNo : E[k] \in 0 .. MaxOutput
    BY <2>2 DEF Cuts
  <2>4. E[m] <= E[eventNo] /\ E[m] \in Nat /\ E[m] <= MaxOutput /\ E[eventNo] \in Nat
    BY <2>2, <2>3
  <2>5. Size(server.received) = E[m]
    <3>1. FlattenSeq(server.received) = Stretch(E[0], E[0 + m])
      <4>1. 0 \in Nat /\ 0 + m <= MaxOutput
        BY <2>2
      <4>2. \A k \in 0 .. 0 + m - 1 : E[k] <= E[k + 1]
        <5> TAKE k \in 0 .. 0 + m - 1
        <5>1. k \in 0 .. eventNo /\ k + 1 \in 0 .. eventNo /\ k < k + 1
          BY <2>2
        <5>2. E[k] < E[k + 1] /\ E[k] \in Nat /\ E[k + 1] \in Nat
          BY <2>2, <2>3, <5>1
        <5> QED
          BY <5>2
      <4>3. \A k \in 0 .. 0 + m : E[0] <= E[k]
        BY <2>2, <2>3
      <4>4. PICK seqs : seqs = server.received
        OBVIOUS
      <4>5. seqs = [i \in 1 .. m |-> Piece(E, 0 + i - 1)]
        <5>1. \A i \in 1 .. m : 0 + i - 1 = i - 1
          OBVIOUS
        <5> QED
          BY <2>2, <4>4, <5>1
      <4>6. FlattenSeq(seqs) = Stretch(E[0], E[0 + m])
        BY <2>2, <4>1, <4>2, <4>3, <4>5, PiecesFlatten
      <4> QED
        BY <4>4, <4>6
    <3>2. FlattenSeq(server.received) = Stretch(0, E[m])
      BY <2>2, <3>1
    <3>3. Len(Stretch(0, E[m])) = E[m]
      BY <2>4, StretchType
    <3> QED
      BY <3>2, <3>3 DEF Size
  <2>6. server.scrollback + Size(server.received) <= MaxBytes
    BY <2>2, <2>4, <2>5
  <2>7. ASSUME NEW s \in DOMAIN up, NEW i \in 1 .. Len(up[s]) - 1
        PROVE  up[s][i] # End
    <3>1. up \in Seq(Seq(Messages(E))) /\ Len(up) = Len(sSockets)
      BY DEF SharerHalf, SentInv
    <3>2. s \in 1 .. Len(sSockets)
      BY <3>1
    <3>3. Consecutive(up[s])
      BY <3>2 DEF SharerHalf, UpInv, QueueInv
    <3>4. up[s][i].kind = "event"
      BY <3>3 DEF Consecutive
    <3> QED
      BY <3>4 DEF End
  <2> QED
    BY <2>6, <2>7 DEF LimitKept
<1> QED
  BY <1>1, SafetyInvariant, PTL

(* A viewer shown as active has been fed everything the server had when it *)
(* joined.                                                                 *)
THEOREM ActiveIsCurrent == Spec => []ActiveHasCaughtUp
<1>1. Inv => ActiveHasCaughtUp
  BY DEF Inv, ViewerHalf, ViewerInv, ActiveHasCaughtUp
<1> QED
  BY <1>1, SafetyInvariant, PTL

-----------------------------------------------------------------------------
(* The refinement of Broadcast.                                            *)

LEMMA StretchPrefix ==
  ASSUME NEW n \in Nat, NEW m \in Nat, n <= m, m <= MaxOutput
  PROVE  SubSeq(Stretch(0, m), 1, n) = Stretch(0, n)
<1>1. PICK all, part : all = Stretch(0, m) /\ part = Stretch(0, n)
  OBVIOUS
<1>2. /\ MaxOutput \in Nat /\ n <= MaxOutput /\ 0 \in Nat /\ 0 <= m /\ 0 <= n
      /\ m - 0 = m /\ n - 0 = n
  BY BoundsAssumption
<1>3. all \in Seq(Outputs) /\ Len(all) = m /\ \A i \in 1 .. m : all[i] = 0 + i
  BY <1>1, <1>2, StretchType
<1>4. part \in Seq(Outputs) /\ Len(part) = n /\ \A i \in 1 .. n : part[i] = 0 + i
  BY <1>1, <1>2, StretchType
<1>5. PICK sub : sub = SubSeq(all, 1, n)
  OBVIOUS
<1>6. sub \in Seq(Outputs) /\ Len(sub) = n /\ \A i \in 1 .. n : sub[i] = all[i]
  BY <1>2, <1>3, <1>5
<1>7. \A i \in 1 .. n : sub[i] = part[i]
  BY <1>3, <1>4, <1>6
<1>8. sub = part
  BY <1>4, <1>6, <1>7, SeqEqual
<1> QED
  BY <1>1, <1>5, <1>8

(* Events read by the viewer show more of the output or nothing new.       *)
LEMMA ViewerEventShows ==
  ASSUME NEW E \in Cuts, SharerHalf(E), ViewerHalf(E),
         NEW t \in DOMAIN vSockets, ViewerEvent(t)
  PROVE  Abstract!Show \/ UNCHANGED <<output, screen>>
<1>1. output' = output /\ eventNo' = eventNo
  BY DEF ViewerEvent, eventVars
<1>2. CutInv(E)
  BY DEF SharerHalf
<1>3. ViewerHalf(E)' /\ loop.next <= loop'.next
  BY <1>1, <1>2, ViewerEventKeeps
<1>4. PICK lo, hi, m : lo = loop.next /\ hi = loop'.next /\ m = Len(output)
  OBVIOUS
<1>5. lo \in Nat /\ lo <= eventNo /\ screen = Stretch(0, E[lo])
  BY <1>4 DEF ViewerHalf, ShownInv, LoopState
<1>6. hi \in Nat /\ hi <= eventNo /\ screen' = Stretch(0, E[hi]) /\ lo <= hi
  <2>1. ShownInv(E)'
    BY <1>3 DEF ViewerHalf
  <2>2. loop' \in LoopState /\ loop'.next <= eventNo' /\ screen' = Stretch(0, E[loop'.next])
    BY <2>1 DEF ShownInv
  <2> QED
    BY <1>1, <1>3, <1>4, <2>2 DEF LoopState
<1>7. /\ eventNo \in 0 .. MaxOutput /\ MaxOutput \in Nat /\ m \in Nat /\ m <= MaxOutput
      /\ output = Stretch(0, m)
      /\ \A j, k \in 0 .. eventNo : j < k => E[j] < E[k]
  BY <1>2, <1>4, BoundsAssumption DEF SharerHalf, CutInv, TerminalInv
<1>8. \A k \in 0 .. eventNo : E[k] \in Nat /\ E[k] <= MaxOutput
  BY <1>7 DEF Cuts
<1>9. E[eventNo] <= m
  <2>1. Len(batch) \in Nat /\ E[eventNo] <= m - Len(batch)
    BY <1>4 DEF SharerHalf, TerminalInv, LimitInv, Flushed
  <2> QED
    BY <1>7, <1>8, <2>1
<1>10. CASE lo = hi
  BY <1>1, <1>5, <1>6, <1>10
<1>11. CASE lo < hi
  <2>1. PICK a, b : a = E[lo] /\ b = E[hi]
    OBVIOUS
  <2>2. a \in Nat /\ b \in Nat /\ a < b /\ b <= m
    BY <1>5, <1>6, <1>7, <1>8, <1>9, <1>11, <2>1
  <2>3. Len(screen) = a
    <3>1. a <= MaxOutput /\ 0 \in Nat /\ 0 <= a /\ a - 0 = a
      BY <1>7, <2>2
    <3> QED
      BY <1>5, <2>1, <2>2, <3>1, StretchType
  <2>4. SubSeq(output, 1, b) = Stretch(0, b)
    BY <1>7, <2>2, StretchPrefix
  <2>5. b \in Len(screen) + 1 .. Len(output) /\ screen' = SubSeq(output, 1, b)
    BY <1>4, <1>6, <1>7, <2>1, <2>2, <2>3, <2>4
  <2> QED
    BY <1>1, <2>5 DEF Abstract!Show
<1> QED
  BY <1>5, <1>6, <1>10, <1>11

LEMMA OutputProduced ==
  ASSUME ReadPty \/ OtherEvent
  PROVE  Abstract!Produce
BY DEF ReadPty, OtherEvent, SendEvents, loopVars, Abstract!Produce

(* Every step of the session is a step of Broadcast or leaves its          *)
(* variables alone.                                                        *)
LEMMA StepImplements ==
  ASSUME Inv, [Next]_vars
  PROVE  [Abstract!Next]_(Abstract!vars)
<1>1. PICK E \in Cuts : SharerHalf(E) /\ ViewerHalf(E)
  BY DEF Inv
<1> SUFFICES Abstract!Produce \/ Abstract!Show \/ UNCHANGED <<output, screen>>
  BY DEF Abstract!Next, Abstract!vars
<1>2. CASE UNCHANGED vars
  <2>1. output' = output /\ screen' = screen
    BY <1>2 DEF vars, eventVars, loopVars
  <2> QED
    BY <2>1
<1>3. CASE SharerNext
  <2>1. CASE ReadPty \/ OtherEvent
    BY <2>1, OutputProduced
  <2>2. CASE BatchTimer
    <3>1. output' = output /\ screen' = screen
      BY <2>2 DEF BatchTimer, SendEvents, loopVars
    <3> QED
      BY <3>1
  <2>3. CASE EndSession \/ SharerOpened \/ SharerWaits
    <3>1. output' = output /\ screen' = screen
      BY <2>3 DEF EndSession, SharerOpened, SharerWaits, eventVars, loopVars
    <3> QED
      BY <3>1
  <2>4. ASSUME NEW s \in DOMAIN sSockets,
               SharerSocketBreaks(s) \/ SharerStreamEnded(s) \/ SharerReply(s)
        PROVE  Abstract!Produce \/ Abstract!Show \/ UNCHANGED <<output, screen>>
    <3>1. output' = output /\ screen' = screen
      BY <2>4 DEF SharerSocketBreaks, SharerStreamEnded, SharerReply, eventVars, loopVars
    <3> QED
      BY <3>1
  <2>5. ASSUME NEW n \in DOMAIN unacked, Ack(n)
        PROVE  Abstract!Produce \/ Abstract!Show \/ UNCHANGED <<output, screen>>
    <3>1. output' = output /\ screen' = screen
      BY <2>5 DEF Ack, loopVars
    <3> QED
      BY <3>1
  <2> QED
    BY <1>3, <2>1, <2>2, <2>3, <2>4, <2>5 DEF SharerNext
<1>4. CASE ServerNext
  <2>1. output' = output /\ screen' = screen
    BY <1>4 DEF ServerNext, ServerTerminates, ServerRestarts, ServerTakes, ServerAdmits,
                ServerSends, eventVars, loopVars
  <2> QED
    BY <2>1
<1>5. CASE ViewerNext
  <2>1. CASE ViewerOpened \/ ViewerWaits \/ ViewerLeaves
    <3>1. output' = output /\ screen' = screen
      BY <2>1 DEF ViewerOpened, ViewerWaits, ViewerLeaves, eventVars, loopVars
    <3> QED
      BY <3>1
  <2>2. ASSUME NEW t \in DOMAIN vSockets,
               ViewerSocketBreaks(t) \/ ViewerStreamEnded(t) \/ ViewerReply(t)
        PROVE  Abstract!Produce \/ Abstract!Show \/ UNCHANGED <<output, screen>>
    <3>1. output' = output /\ screen' = screen
      BY <2>2 DEF ViewerSocketBreaks, ViewerStreamEnded, ViewerReply, eventVars, loopVars
    <3> QED
      BY <3>1
  <2>3. ASSUME NEW t \in DOMAIN vSockets, ViewerEvent(t)
        PROVE  Abstract!Produce \/ Abstract!Show \/ UNCHANGED <<output, screen>>
    BY <1>1, <2>3, ViewerEventShows
  <2> QED
    BY <1>5, <2>1, <2>2, <2>3 DEF ViewerNext
<1> QED
  BY <1>2, <1>3, <1>4, <1>5 DEF Next

(* The viewer's screen shows the sharer's output in order, each output     *)
(* once and none left out: the shared session, with every reconnection,    *)
(* restart and reordering, implements Broadcast.                           *)
THEOREM ShowsTheOutput == Spec => ImplementsBroadcast
<1>1. Init => Abstract!Init
  BY DEF Init, Abstract!Init
<1>2. Inv /\ [Next]_vars => [Abstract!Next]_(Abstract!vars)
  BY StepImplements
<1> QED
  BY <1>1, <1>2, SafetyInvariant, PTL DEF Spec, ImplementsBroadcast, Abstract!Spec
==============================================================================
