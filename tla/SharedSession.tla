--------------------------- MODULE SharedSession ---------------------------
(***************************************************************************)
(* A terminal shared with one viewer through the session-sharing server.   *)
(* The sharer numbers its ordered terminal events, keeps those the server  *)
(* has not acknowledged, and after a reconnection sends again what the     *)
(* server does not have (sharer/network.rs).  The viewer joins, puts the   *)
(* events back in order and feeds its terminal (viewer/network.rs,         *)
(* viewer/event_loop.rs).  Both ends manage their WebSocket as Connection  *)
(* says.  The server is not in the repository: it takes events in order,   *)
(* may restart and forget those it has not processed, and sends a viewer   *)
(* what it lacks, in any order.                                            *)
(*                                                                         *)
(* An output is a piece of the terminal's output, of size one; an event    *)
(* carries one output of its own or the outputs batched before it.         *)
(***************************************************************************)
EXTENDS Integers, Sequences, SequencesExt, FiniteSets, FiniteSetsExt, Functions

CONSTANTS
  MaxOutput,  \* bound: outputs of the terminal
  MaxBytes,   \* max_session_size, in outputs
  Scenarios   \* what the sharer's terminal holds at first, in outputs, and
              \* bounds: sockets each end opens and restarts of the server

ASSUME BoundsAssumption ==
  /\ MaxOutput \in Nat /\ MaxBytes \in Nat
  /\ Scenarios \subseteq [scrollback : 0 .. MaxBytes, sharerSockets : Nat,
                           viewerSockets : Nat, restarts : Nat]

VARIABLES
  sStage, sAttempt, sSockets, sTx, sSpare,  \* the sharer's Connection
  vStage, vAttempt, vSockets, vTx, vSpare,  \* the viewer's Connection
  output,    \* what the sharer's terminal has put out
  batch,     \* PtyBytesBatchStatus: the bytes accumulated, if any
  bytes,     \* num_bytes_shared
  eventNo,   \* the next event number
  unacked,   \* unacked_terminal_events
  up,        \* for each of the sharer's sockets, messages on their way up
  sReplies,  \* ... and the server's answers on their way down
  server,    \* the session as the server has it
  restarts,  \* restarts of the server still to come
  hello,     \* for each of the viewer's sockets, the Initialize it sends
  vReplies,  \* ... the server's answers on their way down
  from,      \* ... the next event the server sends on it
  mail,      \* ... and the events on their way down
  loop,      \* the viewer's EventLoop
  screen     \* what the viewer's terminal has been fed

sharerVars == <<sStage, sAttempt, sSockets, sTx, sSpare>>
viewerVars == <<vStage, vAttempt, vSockets, vTx, vSpare>>
eventVars == <<output, batch, bytes, eventNo, unacked>>
upVars == <<up, sReplies>>
downVars == <<hello, vReplies, from, mail>>
serverVars == <<server, restarts>>
loopVars == <<loop, screen>>
vars ==
  <<sharerVars, viewerVars, eventVars, upVars, downVars, serverVars, loopVars>>

Sharer ==
  INSTANCE Connection WITH stage <- sStage, attempt <- sAttempt, sockets <- sSockets,
                           txOpen <- sTx, spare <- sSpare
Viewer ==
  INSTANCE Connection WITH stage <- vStage, attempt <- vAttempt, sockets <- vSockets,
                           txOpen <- vTx, spare <- vSpare

Outputs == 1 .. MaxOutput
EventNos == 0 .. MaxOutput - 1

Start == [kind |-> "start"]
Resume == [kind |-> "resume"]
Event(n, payload) == [kind |-> "event", no |-> n, payload |-> payload]
End == [kind |-> "end"]

Reply(kind) == [kind |-> kind]
Resumed(last) == [kind |-> "resumed", last |-> last]
Joined(latest) == [kind |-> "joined", latest |-> latest]

(* An Initialize without a viewer id, and one answered or lost.            *)
Join == -2
NoHello == -3

(* last_received_event_no, latest_event_no: none yet.                      *)
None == -1

(* Before the first JoinedSuccessfully the viewer has no EventLoop.        *)
NoLoop == [made |-> FALSE, next |-> 0, buffer |-> <<>>, catchingUp |-> None, active |-> FALSE]

TypeOK ==
  /\ Sharer!TypeOK
  /\ Viewer!TypeOK
  /\ output \in Seq(Outputs) /\ batch \in Seq(Outputs) /\ screen \in Seq(Outputs)
  /\ bytes \in 0 .. MaxBytes + MaxOutput /\ eventNo \in 0 .. MaxOutput
  /\ DOMAIN unacked \subseteq EventNos
  /\ Len(up) = Len(sSockets) /\ Len(sReplies) = Len(sSockets)
  /\ server.phase \in {"none", "live", "ended"}
  /\ server.processed \in 0 .. Len(server.received)
  /\ Len(hello) = Len(vSockets) /\ Len(vReplies) = Len(vSockets)
  /\ Len(from) = Len(vSockets) /\ Len(mail) = Len(vSockets)
  /\ loop.next \in 0 .. MaxOutput
  /\ DOMAIN loop.buffer \subseteq EventNos

Init ==
  /\ \E scenario \in Scenarios :
       /\ Sharer!Init(scenario.sharerSockets) /\ Viewer!Init(scenario.viewerSockets)
       /\ bytes = scenario.scrollback
       /\ server = [phase |-> "none", scrollback |-> scenario.scrollback, received |-> <<>>,
                    processed |-> 0]
       /\ restarts = scenario.restarts
  /\ output = <<>> /\ batch = <<>> /\ eventNo = 0 /\ unacked = <<>>
  /\ up = <<>> /\ sReplies = <<>>
  /\ hello = <<>> /\ vReplies = <<>> /\ from = <<>> /\ mail = <<>>
  /\ loop = NoLoop /\ screen = <<>>

-----------------------------------------------------------------------------
(* The sharer sends.                                                       *)

(* send_message_to_server: a message is dropped unless the session is on.  *)
SendUp(messages) ==
  up' = IF sStage = "Connected" /\ Sharer!Writable
        THEN [up EXCEPT ![Sharer!Newest] = @ \o messages] ELSE up

Size(payloads) == Len(FlattenSeq(payloads))

(* How many of the payloads the size limit lets pass.                      *)
CheckedBeforeAdding(payloads) ==
  Max({k \in 1 .. Len(payloads) : bytes + Size(SubSeq(payloads, 1, k - 1)) <= MaxBytes}
      \cup {0})
Fit(payloads) ==
  Max({k \in 1 .. Len(payloads) : bytes + Size(SubSeq(payloads, 1, k)) <= MaxBytes} \cup {0})

(* send_ordered_terminal_event_message, for each payload in turn: the one  *)
(* that passes the limit ends the session instead.                         *)
SendEvents(payloads) ==
  LET fit == Fit(payloads)
      events == [i \in 1 .. fit |-> Event(eventNo + i - 1, payloads[i])]
      exceeded == fit < Len(payloads)
  IN /\ bytes' = bytes + Size(payloads)
     /\ eventNo' = eventNo + fit
     /\ unacked' = [n \in DOMAIN unacked \cup eventNo .. eventNo + fit - 1 |->
                      IF n < eventNo THEN unacked[n] ELSE payloads[n - eventNo + 1]]
     /\ SendUp(events \o IF exceeded THEN <<End>> ELSE <<>>)
     /\ IF exceeded
        THEN Sharer!CloseWithoutReconnection /\ UNCHANGED sSockets
        ELSE UNCHANGED sharerVars
     /\ UNCHANGED <<sReplies, viewerVars, downVars, serverVars, loopVars>>

Batched == IF batch = <<>> THEN <<>> ELSE <<batch>>

(* The terminal reads from the PTY: the bytes start a batch or join it.    *)
ReadPty ==
  /\ Len(output) < MaxOutput
  /\ output' = Append(output, Len(output) + 1)
  /\ batch' = Append(batch, Len(output) + 1)
  /\ UNCHANGED <<sharerVars, viewerVars, bytes, eventNo, unacked, upVars, downVars,
                 serverVars, loopVars>>

(* Any other event flushes the batch and is sent right after it.           *)
OtherEvent ==
  /\ Len(output) < MaxOutput
  /\ output' = Append(output, Len(output) + 1)
  /\ batch' = <<>>
  /\ SendEvents(Append(Batched, <<Len(output) + 1>>))

BatchTimer ==
  /\ batch # <<>>
  /\ batch' = <<>>
  /\ SendEvents(Batched)
  /\ UNCHANGED output

(* The user stops sharing.                                                 *)
EndSession ==
  /\ sStage # "Finished"
  /\ SendUp(<<End>>)
  /\ Sharer!CloseWithoutReconnection
  /\ UNCHANGED <<sSockets, sReplies, viewerVars, eventVars, downVars, serverVars, loopVars>>

-----------------------------------------------------------------------------
(* The sharer's socket.                                                    *)

(* The proxy's first message creates the session or resumes it.            *)
OpenedWithoutListening ==
  /\ Sharer!Opened
  /\ up' = IF Len(sSockets') > Len(sSockets)
           THEN Append(up, <<IF sSockets = <<>> THEN Start ELSE Resume>>) ELSE up
  /\ UNCHANGED <<sReplies, viewerVars, eventVars, downVars, serverVars, loopVars>>
SharerOpened ==
  /\ Sharer!Opened
  /\ IF Len(sSockets') > Len(sSockets)
     THEN /\ up' = Append(up, <<IF sSockets = <<>> THEN Start ELSE Resume>>)
          /\ sReplies' = Append(sReplies, <<>>)
     ELSE UNCHANGED upVars
  /\ UNCHANGED <<viewerVars, eventVars, downVars, serverVars, loopVars>>

SharerWaits ==
  /\ Sharer!AttemptFailed \/ Sharer!RetriesExhausted \/ Sharer!Idle
  /\ UNCHANGED <<viewerVars, eventVars, upVars, downVars, serverVars, loopVars>>

(* What was on its way to the server is lost.                              *)
SharerSocketBreaks(s) ==
  /\ Sharer!Break(s)
  /\ up' = [up EXCEPT ![s] = <<>>]
  /\ UNCHANGED <<viewerVars, eventVars, sReplies, downVars, serverVars, loopVars>>

SharerStreamEnded(s) ==
  /\ Sharer!StreamEnded(s)
  /\ sReplies' = [sReplies EXCEPT ![s] = <<>>]
  /\ UNCHANGED <<viewerVars, eventVars, up, downVars, serverVars, loopVars>>

(* flush_terminal_events_to_server: what is kept from n on, up to the      *)
(* first number that is not.                                               *)
FlushNothing(n) == up' = up
FlushLatest(n) ==
  up' = IF Sharer!Writable /\ eventNo - 1 \in DOMAIN unacked
        THEN [up EXCEPT ![Sharer!Newest] = Append(@, Event(eventNo - 1, unacked[eventNo - 1]))]
        ELSE up
Flush(n) ==
  LET end == Min({m \in n .. Max({n, eventNo}) : m \notin DOMAIN unacked})
  IN up' = IF Sharer!Writable
           THEN [up EXCEPT ![Sharer!Newest] =
                   @ \o [i \in 1 .. end - n |-> Event(n + i - 1, unacked[n + i - 1])]]
           ELSE up

SharerReply(s) ==
  /\ sSockets[s] # "ended"
  /\ sReplies[s] # <<>>
  /\ sReplies' = [sReplies EXCEPT ![s] = Tail(@)]
  /\ LET reply == Head(sReplies[s])
     IN \/ /\ reply.kind = "started"
           /\ IF sStage = "Before"
              THEN Sharer!Confirmed /\ Flush(0)
              ELSE UNCHANGED <<sharerVars, up>>
        \/ /\ reply.kind = "resumed"
           /\ IF sStage = "Reconnecting"
              THEN Sharer!Confirmed /\ Flush(reply.last + 1)
              ELSE UNCHANGED <<sharerVars, up>>
        \/ /\ reply.kind \in {"refused", "terminated"}
           /\ Sharer!CloseWithoutReconnection
           /\ UNCHANGED <<sSockets, up>>
  /\ UNCHANGED <<viewerVars, eventVars, downVars, serverVars, loopVars>>

(* EventsProcessedAck: the events up to n, as far down as they are kept.   *)
(* The server never loses what it has acknowledged; acknowledgements may   *)
(* be reordered or lost.                                                   *)
AckClears(n) ==
  /\ \E s \in DOMAIN sSockets : sSockets[s] # "ended"
  /\ n < Len(server.received)
  /\ server' = [server EXCEPT !.processed = Max({@, n + 1})]
  /\ unacked' = <<>>
  /\ UNCHANGED <<sharerVars, viewerVars, output, batch, bytes, eventNo, upVars, downVars,
                 restarts, loopVars>>
Ack(n) ==
  /\ \E s \in DOMAIN sSockets : sSockets[s] # "ended"
  /\ n < Len(server.received)
  /\ n \in DOMAIN unacked
  /\ server' = [server EXCEPT !.processed = Max({@, n + 1})]
  /\ LET acked == {m \in DOMAIN unacked : m <= n /\ m .. n \subseteq DOMAIN unacked}
     IN unacked' = [m \in DOMAIN unacked \ acked |-> unacked[m]]
  /\ UNCHANGED <<sharerVars, viewerVars, output, batch, bytes, eventNo, upVars, downVars,
                 restarts, loopVars>>

-----------------------------------------------------------------------------
(* The server.  Once the sharer has resumed on a socket, the server no     *)
(* longer listens to the ones before it.                                   *)

Latest == Len(server.received) - 1

(* "ended" goes to the viewers that have joined.                           *)
TellViewers ==
  vReplies' = [t \in DOMAIN vSockets |->
                 IF vSockets[t] = "open" /\ hello[t] = NoHello
                 THEN Append(vReplies[t], Reply("ended")) ELSE vReplies[t]]

Taken(s) ==
  [i \in DOMAIN up |-> IF i < s /\ Head(up[s]) = Resume THEN <<>>
                       ELSE IF i = s THEN Tail(up[i]) ELSE up[i]]

ServerTakes(s) ==
  /\ sSockets[s] = "open"
  /\ up[s] # <<>>
  /\ up' = Taken(s)
  /\ LET message == Head(up[s])
     IN \/ /\ message.kind = "start"
           /\ \/ /\ server' = [server EXCEPT !.phase = "live"]
                 /\ sReplies' = [sReplies EXCEPT ![s] = Append(@, Reply("started"))]
              \/ /\ server' = server
                 /\ sReplies' = [sReplies EXCEPT ![s] = Append(@, Reply("refused"))]
           /\ UNCHANGED vReplies
        \/ /\ message.kind = "resume"
           /\ sReplies' = [sReplies EXCEPT ![s] = Append(@,
                             IF server.phase = "live" THEN Resumed(Latest) ELSE Reply("refused"))]
           /\ UNCHANGED <<server, vReplies>>
        \/ /\ message.kind = "event"
           /\ server' = IF server.phase = "live" /\ message.no = Len(server.received)
                        THEN [server EXCEPT !.received = Append(@, message.payload)]
                        ELSE server
           /\ UNCHANGED <<sReplies, vReplies>>
        \/ /\ message.kind = "end"
           /\ server' = [server EXCEPT !.phase = "ended"]
           /\ TellViewers
           /\ UNCHANGED sReplies
  /\ UNCHANGED <<sharerVars, viewerVars, eventVars, hello, from, mail, restarts, loopVars>>

ServerTerminates ==
  /\ server.phase = "live"
  /\ server' = [server EXCEPT !.phase = "ended"]
  /\ sReplies' = [s \in DOMAIN sSockets |->
                    IF sSockets[s] = "open" THEN Append(sReplies[s], Reply("terminated"))
                    ELSE sReplies[s]]
  /\ TellViewers
  /\ UNCHANGED <<sharerVars, viewerVars, eventVars, up, hello, from, mail, restarts, loopVars>>

(* The sockets break, and received events that were not processed are gone. *)
ServerRestarts ==
  /\ restarts > 0
  /\ server.phase = "live"
  /\ restarts' = restarts - 1
  /\ \E k \in server.processed .. Len(server.received) :
       server' = [server EXCEPT !.received = SubSeq(@, 1, k)]
  /\ sSockets' = [s \in DOMAIN sSockets |-> IF sSockets[s] = "open" THEN "closed" ELSE sSockets[s]]
  /\ vSockets' = [t \in DOMAIN vSockets |-> IF vSockets[t] = "open" THEN "closed" ELSE vSockets[t]]
  /\ up' = [s \in DOMAIN up |-> <<>>]
  /\ hello' = [t \in DOMAIN hello |-> NoHello]
  /\ UNCHANGED <<sStage, sAttempt, sTx, sSpare, vStage, vAttempt, vTx, vSpare, eventVars, sReplies,
                 vReplies, from, mail, loopVars>>

(* A viewer without an id joins; one with an id goes on after the last     *)
(* event it says it has.                                                   *)
ServerAdmits(t) ==
  /\ vSockets[t] = "open"
  /\ hello[t] # NoHello
  /\ hello' = [hello EXCEPT ![t] = NoHello]
  /\ from' = [from EXCEPT ![t] = IF hello[t] = Join THEN 0 ELSE hello[t] + 1]
  /\ vReplies' = [vReplies EXCEPT ![t] = Append(@,
                    IF server.phase # "live" THEN Reply("refused")
                    ELSE IF hello[t] = Join THEN Joined(Latest) ELSE Reply("rejoined"))]
  /\ UNCHANGED <<sharerVars, viewerVars, eventVars, upVars, serverVars, mail, loopVars>>

Sendable(t) ==
  /\ vSockets[t] = "open"
  /\ hello[t] = NoHello
  /\ server.phase = "live"
  /\ from[t] < Len(server.received)

ServerSends(t) ==
  /\ Sendable(t)
  /\ mail' = [mail EXCEPT ![t] = @ \cup {[no |-> from[t], payload |-> server.received[from[t] + 1]]}]
  /\ from' = [from EXCEPT ![t] = @ + 1]
  /\ UNCHANGED <<sharerVars, viewerVars, eventVars, upVars, hello, vReplies, serverVars, loopVars>>

-----------------------------------------------------------------------------
(* The viewer.                                                             *)

LastReceived == loop.next - 1  \* last_received_event_no

(* A session can be joined once it has been created.                       *)
ViewerOpened ==
  /\ server.phase # "none"
  /\ Viewer!Opened
  /\ IF Len(vSockets') > Len(vSockets)
     THEN /\ hello' = Append(hello, IF vSockets = <<>> THEN Join ELSE LastReceived)
          /\ vReplies' = Append(vReplies, <<>>)
          /\ from' = Append(from, 0)
          /\ mail' = Append(mail, {})
     ELSE UNCHANGED downVars
  /\ UNCHANGED <<sharerVars, eventVars, upVars, serverVars, loopVars>>

ViewerWaits ==
  /\ Viewer!AttemptFailed \/ Viewer!RetriesExhausted \/ Viewer!Idle
  /\ UNCHANGED <<sharerVars, eventVars, upVars, downVars, serverVars, loopVars>>

ViewerSocketBreaks(t) ==
  /\ Viewer!Break(t)
  /\ hello' = [hello EXCEPT ![t] = NoHello]
  /\ UNCHANGED <<sharerVars, eventVars, upVars, vReplies, from, mail, serverVars, loopVars>>

ViewerStreamEnded(t) ==
  /\ Viewer!StreamEnded(t)
  /\ vReplies' = [vReplies EXCEPT ![t] = <<>>]
  /\ mail' = [mail EXCEPT ![t] = {}]
  /\ UNCHANGED <<sharerVars, eventVars, upVars, hello, from, serverVars, loopVars>>

(* The pane is closed.                                                     *)
ViewerLeaves ==
  /\ vStage # "Finished"
  /\ Viewer!CloseWithoutReconnection
  /\ UNCHANGED <<vSockets, sharerVars, eventVars, upVars, downVars, serverVars, loopVars>>

(* FailedToJoin ends a reconnection; a first join only reports it.         *)
ViewerReply(t) ==
  /\ vSockets[t] # "ended"
  /\ vReplies[t] # <<>>
  /\ vReplies' = [vReplies EXCEPT ![t] = Tail(@)]
  /\ LET reply == Head(vReplies[t])
     IN \/ /\ reply.kind = "joined" /\ vStage # "Connected"
           /\ Viewer!Confirmed
           /\ loop' = [made |-> TRUE, next |-> 0, buffer |-> <<>>, catchingUp |-> reply.latest,
                       active |-> reply.latest = None]
        \/ /\ reply.kind = "rejoined" /\ vStage # "Connected"
           /\ Viewer!Confirmed
           /\ UNCHANGED loop
        \/ /\ reply.kind \in {"joined", "rejoined"} /\ vStage = "Connected"
           /\ UNCHANGED <<viewerVars, loop>>
        \/ /\ \/ reply.kind = "ended"
              \/ reply.kind = "refused" /\ vStage = "Reconnecting"
           /\ Viewer!CloseWithoutReconnection
           /\ UNCHANGED <<vSockets, loop>>
        \/ /\ reply.kind = "refused" /\ vStage # "Reconnecting"
           /\ UNCHANGED <<viewerVars, loop>>
  /\ UNCHANGED <<sharerVars, eventVars, upVars, hello, from, mail, serverVars, screen>>

(* The buffer with an event inserted, and the first number it then lacks.  *)
Buffered(event) ==
  [n \in DOMAIN loop.buffer \cup {event.no} |->
     IF n = event.no THEN event.payload ELSE loop.buffer[n]]
FirstMissing(buffer) ==
  Min({m \in loop.next .. loop.next + Cardinality(DOMAIN buffer) : m \notin DOMAIN buffer})

(* The event the viewer catches up to is among those processed.            *)
CatchesUpWhenReceived(buffer) == loop.catchingUp \in DOMAIN buffer
CatchesUpIn(buffer) == loop.catchingUp \in loop.next .. FirstMissing(buffer) - 1

(* process_ordered_terminal_event: the event goes to the buffer, and what  *)
(* is contiguous from next on goes to the terminal.                        *)
ProcessAtOnce(event) ==
  IF loop.made
  THEN loop' = [loop EXCEPT !.next = event.no + 1] /\ screen' = screen \o event.payload
  ELSE UNCHANGED loopVars
ProcessEvent(event) ==
  LET buffer == Buffered(event)
      end == FirstMissing(buffer)
      run == [i \in 1 .. end - loop.next |-> buffer[loop.next + i - 1]]
  IN IF loop.made
     THEN /\ loop' = [loop EXCEPT
                        !.next = end,
                        !.buffer = [n \in DOMAIN buffer \ loop.next .. end - 1 |-> buffer[n]],
                        !.active = @ \/ CatchesUpIn(buffer)]
          /\ screen' = screen \o FlattenSeq(run)
     ELSE UNCHANGED loopVars

(* The server's answer precedes the events of its socket.                  *)
Readable(t) ==
  /\ vSockets[t] # "ended"
  /\ vReplies[t] # <<>> => Head(vReplies[t]).kind = "ended"

ViewerEvent(t) ==
  /\ Readable(t)
  /\ \E event \in mail[t] :
       /\ mail' = [mail EXCEPT ![t] = @ \ {event}]
       /\ ProcessEvent(event)
  /\ UNCHANGED <<sharerVars, viewerVars, eventVars, upVars, hello, vReplies, from, serverVars>>

-----------------------------------------------------------------------------
SharerNext ==
  \/ ReadPty \/ OtherEvent \/ BatchTimer \/ EndSession
  \/ SharerOpened \/ SharerWaits
  \/ \E s \in DOMAIN sSockets : SharerSocketBreaks(s) \/ SharerStreamEnded(s) \/ SharerReply(s)
  \/ \E n \in DOMAIN unacked : Ack(n)

ServerNext ==
  \/ ServerTerminates \/ ServerRestarts
  \/ \E s \in DOMAIN sSockets : ServerTakes(s)
  \/ \E t \in DOMAIN vSockets : ServerAdmits(t) \/ ServerSends(t)

ViewerNext ==
  \/ ViewerOpened \/ ViewerWaits \/ ViewerLeaves
  \/ \E t \in DOMAIN vSockets :
       ViewerSocketBreaks(t) \/ ViewerStreamEnded(t) \/ ViewerReply(t) \/ ViewerEvent(t)

Next == SharerNext \/ ServerNext \/ ViewerNext

Spec == Init /\ [][Next]_vars

(* The batch timer fires, and messages on a socket that stays open are     *)
(* handled.  Each action is named by what it takes from its queue: no      *)
(* other step does, but one that closes the socket.                        *)
SharerSockets == UNION {1 .. scenario.sharerSockets : scenario \in Scenarios}
ViewerSockets == UNION {1 .. scenario.viewerSockets : scenario \in Scenarios}

TakesUp(s) == s \in DOMAIN up /\ sSockets[s] = "open" /\ up[s] # <<>> /\ up' = Taken(s)
AnswersHello(t) ==
  /\ t \in DOMAIN hello /\ vSockets[t] = "open" /\ hello[t] # NoHello
  /\ hello' = [hello EXCEPT ![t] = NoHello]
SendsDown(t) == t \in DOMAIN from /\ Sendable(t) /\ from' = [from EXCEPT ![t] = @ + 1]
TakesReply(t) ==
  /\ t \in DOMAIN vReplies /\ vSockets[t] # "ended" /\ vReplies[t] # <<>>
  /\ vReplies' = [vReplies EXCEPT ![t] = Tail(@)]
TakesMail(t) ==
  /\ t \in DOMAIN mail /\ Readable(t)
  /\ \E event \in mail[t] : mail' = [mail EXCEPT ![t] = @ \ {event}]

Fairness ==
  /\ WF_batch(batch # <<>> /\ batch' = <<>>)
  /\ \A s \in SharerSockets : WF_up(TakesUp(s))
  /\ \A t \in ViewerSockets :
       /\ WF_hello(AnswersHello(t))
       /\ WF_from(SendsDown(t))
       /\ WF_vReplies(TakesReply(t))
       /\ WF_mail(TakesMail(t))

FairSpec == Spec /\ Fairness

-----------------------------------------------------------------------------
(* The viewer's screen shows the sharer's output in order, each output     *)
(* once and none left out, through reconnections of both ends, restarts of *)
(* the server and reordered events (process_ordered_terminal_event, and    *)
(* the sharer's flush from the server's last event).                       *)
Abstract == INSTANCE Broadcast
ImplementsBroadcast == Abstract!Spec

(* The server never finds a gap: whatever it lost in a restart, and        *)
(* whichever socket a flush went to, the next event it takes is at most    *)
(* the one it lacks (flush_terminal_events_to_server).                     *)
NoGapUpstream ==
  \A s \in DOMAIN up :
    server.phase = "live" /\ up[s] # <<>> /\ Head(up[s]).kind = "event" =>
      Head(up[s]).no <= Len(server.received)

(* An event the server could still lose in a restart can be sent again:    *)
(* the removal loop of EventsProcessedAck stops in time.                   *)
UnprocessedKept == server.processed .. eventNo - 1 \subseteq DOMAIN unacked

(* The session's size limit bounds what the server ever holds, and nothing *)
(* follows the end of the session on a socket: an event that passes the    *)
(* limit while a batch is flushed before it must not slip through.         *)
LimitKept ==
  /\ server.scrollback + Size(server.received) <= MaxBytes
  /\ \A s \in DOMAIN up : \A i \in 1 .. Len(up[s]) - 1 : up[s][i] # End

(* A viewer shown as active has everything the server had when it joined.  *)
ActiveHasCaughtUp == loop.active => loop.catchingUp < loop.next

(* While the sharer is Reconnecting, "we are trying to reconnect" (the     *)
(* comment on Stage): an attempt or a connection is under way.             *)
SharerKeepsTrying == Sharer!IsTrying

(* Both ends are connected on their newest sockets.                        *)
Steady ==
  /\ sStage = "Connected" /\ Sharer!Writable
  /\ vStage = "Connected" /\ Viewer!Writable

(* Once both connections last, the viewer is shown everything the sharer's *)
(* terminal has put out.                                                   *)
CatchesUp == <>[]Steady => <>[](screen = output)
=============================================================================
