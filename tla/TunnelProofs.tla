---------------------------- MODULE TunnelProofs ----------------------------
(***************************************************************************)
(* winhttp_up.rs for every size of its buffers and any number of bytes: no *)
(* handle outlives the call, no byte is lost or crosses over while forward *)
(* runs, and a tunnel that ends in good order is complete.                 *)
(***************************************************************************)
EXTENDS Tunnel, TLAPS

LEMMA InitInv == ASSUME Init PROVE Inv
  BY SizeAssumption DEF Init, Inv, TypeOK, Orders, HandlesInv, NothingLost, CleanEnd, CountersInv,
     Moved, Making, Opening, Pumping

\* Making the handles and asking the proxy moves no byte.
LEMMA OpenStep == ASSUME Inv, open PROVE Inv'
  <1>1. CASE OpenHandle
    BY <1>1 DEF OpenHandle, Inv, TypeOK, HandlesInv, NothingLost, CleanEnd, CountersInv,
       Making, Opening, Pumping
  <1>2. CASE MakeFails
    BY <1>2 DEF MakeFails, GiveUp, Dropped, Orders, Inv, TypeOK, HandlesInv, NothingLost, CleanEnd,
       CountersInv, Making, Pumping
  <1>3. CASE Resend
    BY <1>3 DEF Resend, Inv, TypeOK, HandlesInv, NothingLost, CleanEnd, CountersInv, Making
  <1>4. CASE SendRequest
    BY <1>4 DEF SendRequest, Goto, Inv, TypeOK, HandlesInv, NothingLost, CleanEnd,
       CountersInv, Making, Opening, Pumping
  <1>5. CASE Receive
    BY <1>5 DEF Receive, Goto, Inv, TypeOK, HandlesInv, NothingLost, CleanEnd,
       CountersInv, Making, Pumping
  <1>6. CASE OpenFails
    BY <1>6 DEF OpenFails, End, GiveUp, Orders, Inv, TypeOK, HandlesInv, NothingLost, CleanEnd,
       CountersInv, Making, Pumping
  <1>7. QED BY <1>1, <1>2, <1>3, <1>4, <1>5, <1>6 DEF open

\* Closing a handle leaves those that were made before it.
LEMMA DropStep == ASSUME Inv, drop PROVE Inv'
  <1>1. CASE CloseHandle
    <2>1. /\ pc = "close" /\ pc' = pc /\ handles' = handles \ {Head(closing)}
          /\ closing' = Tail(closing) /\ closing # <<>>
          /\ UNCHANGED <<is_connect, tries, held, ended, up, down, client, proxy>>
      BY <1>1 DEF CloseHandle
    <2>2. TypeOK' /\ HandlesInv'
      <3>1. CASE closing = <<"session">> /\ handles = {"session"}
        <4>1. Head(closing) = "session" /\ Tail(closing) = <<>>
          BY <3>1
        <4>2. QED BY <2>1, <3>1, <4>1 DEF Inv, TypeOK, Orders, HandlesInv, Making
      <3>2. CASE closing = <<"connect", "session">> /\ handles = {"session", "connect"}
        <4>1. Head(closing) = "connect" /\ Tail(closing) = <<"session">>
          BY <3>2
        <4>2. QED BY <2>1, <3>2, <4>1 DEF Inv, TypeOK, Orders, HandlesInv, Making
      <3>3. CASE closing = Dropped /\ handles = Making
        <4>1. Head(closing) = "request" /\ Tail(closing) = <<"connect", "session">>
          BY <3>3 DEF Dropped
        <4>2. QED BY <2>1, <3>3, <4>1 DEF Inv, TypeOK, Orders, HandlesInv, Making
      <3>4. QED BY <2>1, <3>1, <3>2, <3>3 DEF Inv, HandlesInv, Making
    <2>3. NothingLost' /\ CleanEnd' /\ CountersInv'
      BY <2>1 DEF Inv, NothingLost, CleanEnd, CountersInv
    <2>4. QED BY <2>2, <2>3 DEF Inv
  <1>2. CASE Closed
    <2>1. TypeOK'
      BY <1>2 DEF Closed, Goto, Inv, TypeOK
    <2>2. HandlesInv'
      BY <1>2 DEF Closed, Goto, Inv, HandlesInv, Dropped, Making
    <2>3. NothingLost'
      BY <1>2 DEF Closed, Goto, Inv, NothingLost, Pumping
    <2>4. CleanEnd'
      BY <1>2 DEF Closed, Goto, Inv, CleanEnd
    <2>5. CountersInv'
      BY <1>2 DEF Closed, Goto, Inv, CountersInv, Pumping
    <2>6. QED BY <2>1, <2>2, <2>3, <2>4, <2>5 DEF Inv
  <1>3. QED BY <1>1, <1>2 DEF drop

LEMMA GrantStep == ASSUME Inv, Grant \/ GrantFails PROVE Inv'
  <1>1. CASE Grant
    <2>1. TypeOK'
      BY <1>1, SizeAssumption DEF Grant, Inv, TypeOK, Pumping
    <2>2. HandlesInv'
      BY <1>1 DEF Grant, Inv, HandlesInv, Making
    <2>3. NothingLost'
      BY <1>1 DEF Grant, Inv, NothingLost, Pumping
    <2>4. CleanEnd'
      BY <1>1 DEF Grant, Inv, CleanEnd
    <2>5. CountersInv'
      BY <1>1, SizeAssumption DEF Grant, Inv, CountersInv
    <2>6. QED BY <2>1, <2>2, <2>3, <2>4, <2>5 DEF Inv
  <1>2. CASE GrantFails
    <2>1. TypeOK'
      BY <1>2 DEF GrantFails, End, GiveUp, Orders, Inv, TypeOK
    <2>2. HandlesInv'
      BY <1>2 DEF GrantFails, End, GiveUp, Inv, HandlesInv, Making, Pumping
    <2>3. NothingLost'
      BY <1>2 DEF GrantFails, End, GiveUp, NothingLost
    <2>4. CleanEnd'
      BY <1>2 DEF GrantFails, End, GiveUp, CleanEnd
    <2>5. CountersInv'
      BY <1>2 DEF GrantFails, End, GiveUp, Inv, CountersInv, Pumping
    <2>6. QED BY <2>1, <2>2, <2>3, <2>4, <2>5 DEF Inv
  <1>3. QED BY <1>1, <1>2

\* Steps of pump that pass bytes on: what leaves the buffer is what is written.
LEMMA MoveStep == ASSUME Inv, WriteUp \/ Recv \/ ReadDown \/ SendDown PROVE Inv'
  <1>1. CASE WriteUp
    <2>1. TypeOK'
      BY <1>1 DEF WriteUp, Moved, Inv, TypeOK, Pumping
    <2>2. HandlesInv'
      BY <1>1 DEF WriteUp, Inv, HandlesInv, Making
    <2>3. NothingLost'
      BY <1>1 DEF WriteUp, Moved, Inv, TypeOK, NothingLost, Pumping
    <2>4. CleanEnd'
      BY <1>1 DEF WriteUp, Inv, CleanEnd, CountersInv
    <2>5. CountersInv'
      BY <1>1 DEF WriteUp, Inv, TypeOK, CountersInv, Pumping
    <2>6. QED BY <2>1, <2>2, <2>3, <2>4, <2>5 DEF Inv
  <1>2. CASE Recv
    <2>1. TypeOK'
      BY <1>2 DEF Recv, Moved, Inv, TypeOK, Pumping
    <2>2. HandlesInv'
      BY <1>2 DEF Recv, Inv, HandlesInv, Making
    <2>3. NothingLost'
      BY <1>2 DEF Recv, Moved, Inv, TypeOK, NothingLost, Pumping
    <2>4. CleanEnd'
      BY <1>2 DEF Recv, Inv, CleanEnd
    <2>5. CountersInv'
      BY <1>2 DEF Recv, Inv, CountersInv, Pumping
    <2>6. QED BY <2>1, <2>2, <2>3, <2>4, <2>5 DEF Inv
  <1>3. CASE ReadDown
    <2>1. TypeOK'
      BY <1>3 DEF ReadDown, Moved, Inv, TypeOK, Pumping
    <2>2. HandlesInv'
      BY <1>3 DEF ReadDown, Inv, HandlesInv, Making
    <2>3. NothingLost'
      BY <1>3 DEF ReadDown, Moved, Inv, TypeOK, NothingLost, Pumping
    <2>4. CleanEnd'
      BY <1>3 DEF ReadDown, Inv, CleanEnd, CountersInv
    <2>5. CountersInv'
      BY <1>3 DEF ReadDown, Inv, CountersInv, Pumping
    <2>6. QED BY <2>1, <2>2, <2>3, <2>4, <2>5 DEF Inv
  <1>4. CASE SendDown
    <2>1. TypeOK'
      BY <1>4 DEF SendDown, Moved, Inv, TypeOK, Pumping
    <2>2. HandlesInv'
      BY <1>4 DEF SendDown, Inv, HandlesInv, Making
    <2>3. NothingLost'
      BY <1>4 DEF SendDown, Moved, Inv, TypeOK, NothingLost, Pumping
    <2>4. CleanEnd'
      BY <1>4 DEF SendDown, Inv, CleanEnd, CountersInv
    <2>5. CountersInv'
      BY <1>4 DEF SendDown, Inv, TypeOK, CountersInv, Pumping
    <2>6. QED BY <2>1, <2>2, <2>3, <2>4, <2>5 DEF Inv
  <1>5. QED BY <1>1, <1>2, <1>3, <1>4

\* Steps of pump that find nothing, and the ways it ends.
LEMMA PumpStep == ASSUME Inv, pump PROVE Inv'
  <1>1. CASE RecvNothing
    <2>1. TypeOK'
      BY <1>1 DEF RecvNothing, Goto, Inv, TypeOK, Pumping
    <2>2. HandlesInv'
      BY <1>1 DEF RecvNothing, Goto, Inv, HandlesInv, Making
    <2>3. NothingLost'
      BY <1>1 DEF RecvNothing, Goto, Inv, NothingLost, Pumping
    <2>4. CleanEnd'
      BY <1>1 DEF RecvNothing, Goto, Inv, CleanEnd
    <2>5. CountersInv'
      BY <1>1 DEF RecvNothing, Goto, Inv, CountersInv, Pumping
    <2>6. QED BY <2>1, <2>2, <2>3, <2>4, <2>5 DEF Inv
  <1>2. CASE ReadTimesOut
    <2>1. TypeOK'
      BY <1>2 DEF ReadTimesOut, Goto, Inv, TypeOK, Pumping
    <2>2. HandlesInv'
      BY <1>2 DEF ReadTimesOut, Goto, Inv, HandlesInv, Making
    <2>3. NothingLost'
      BY <1>2 DEF ReadTimesOut, Goto, Inv, NothingLost, Pumping
    <2>4. CleanEnd'
      BY <1>2 DEF ReadTimesOut, Goto, Inv, CleanEnd
    <2>5. CountersInv'
      BY <1>2 DEF ReadTimesOut, Goto, Inv, CountersInv, Pumping
    <2>6. QED BY <2>1, <2>2, <2>3, <2>4, <2>5 DEF Inv
  <1>3. CASE WriteFails
    <2>1. TypeOK'
      BY <1>3 DEF WriteFails, End, GiveUp, Orders, Inv, TypeOK
    <2>2. HandlesInv'
      BY <1>3 DEF WriteFails, End, GiveUp, Inv, HandlesInv, Making, Pumping
    <2>3. NothingLost'
      BY <1>3 DEF WriteFails, End, GiveUp, NothingLost
    <2>4. CleanEnd'
      BY <1>3 DEF WriteFails, End, GiveUp, CleanEnd
    <2>5. CountersInv'
      BY <1>3 DEF WriteFails, End, GiveUp, Inv, CountersInv, Pumping
    <2>6. QED BY <2>1, <2>2, <2>3, <2>4, <2>5 DEF Inv
  <1>4. CASE RecvEnds
    <2>1. TypeOK'
      BY <1>4 DEF RecvEnds, End, GiveUp, Orders, Inv, TypeOK
    <2>2. HandlesInv'
      BY <1>4 DEF RecvEnds, End, GiveUp, Inv, HandlesInv, Making, Pumping
    <2>3. NothingLost'
      BY <1>4 DEF RecvEnds, End, GiveUp, NothingLost
    <2>4. CleanEnd'
      BY <1>4 DEF RecvEnds, End, GiveUp, Moved, Inv, TypeOK, NothingLost, CleanEnd, CountersInv,
         Pumping
    <2>5. CountersInv'
      BY <1>4 DEF RecvEnds, End, GiveUp, Inv, CountersInv, Pumping
    <2>6. QED BY <2>1, <2>2, <2>3, <2>4, <2>5 DEF Inv
  <1>5. CASE ReadEnds
    <2>1. TypeOK'
      BY <1>5 DEF ReadEnds, End, GiveUp, Orders, Inv, TypeOK
    <2>2. HandlesInv'
      BY <1>5 DEF ReadEnds, End, GiveUp, Inv, HandlesInv, Making, Pumping
    <2>3. NothingLost'
      BY <1>5 DEF ReadEnds, End, GiveUp, NothingLost
    <2>4. CleanEnd'
      BY <1>5 DEF ReadEnds, End, GiveUp, Moved, Inv, TypeOK, NothingLost, CleanEnd, CountersInv
    <2>5. CountersInv'
      BY <1>5 DEF ReadEnds, End, GiveUp, Inv, CountersInv, Pumping
    <2>6. QED BY <2>1, <2>2, <2>3, <2>4, <2>5 DEF Inv
  <1>6. CASE SendFails
    <2>1. TypeOK'
      BY <1>6 DEF SendFails, End, GiveUp, Orders, Inv, TypeOK
    <2>2. HandlesInv'
      BY <1>6 DEF SendFails, End, GiveUp, Inv, HandlesInv, Making, Pumping
    <2>3. NothingLost'
      BY <1>6 DEF SendFails, End, GiveUp, NothingLost
    <2>4. CleanEnd'
      BY <1>6 DEF SendFails, End, GiveUp, Moved, Inv, TypeOK, NothingLost, CleanEnd, CountersInv
    <2>5. CountersInv'
      BY <1>6 DEF SendFails, End, GiveUp, Moved, Inv, TypeOK, NothingLost, CountersInv, Pumping
    <2>6. QED BY <2>1, <2>2, <2>3, <2>4, <2>5 DEF Inv
  <1>7. QED BY <1>1, <1>2, <1>3, <1>4, <1>5, <1>6, MoveStep DEF pump

\* A plain request.
LEMMA ResponseStep == ASSUME Inv, read_response \/ Answer \/ AnswerFails PROVE Inv'
  <1>1. CASE ReadBody
    <2>1. TypeOK'
      BY <1>1 DEF ReadBody, Moved, Inv, TypeOK
    <2>2. HandlesInv'
      BY <1>1 DEF ReadBody, Inv, HandlesInv, Making
    <2>3. NothingLost'
      BY <1>1 DEF ReadBody, Moved, Inv, TypeOK, NothingLost
    <2>4. CleanEnd'
      BY <1>1 DEF ReadBody, Inv, CleanEnd, CountersInv
    <2>5. CountersInv'
      BY <1>1 DEF ReadBody, Inv, CountersInv
    <2>6. QED BY <2>1, <2>2, <2>3, <2>4, <2>5 DEF Inv
  <1>2. CASE BodyEnds
    <2>1. TypeOK'
      BY <1>2 DEF BodyEnds, Orders, Inv, TypeOK
    <2>2. HandlesInv'
      BY <1>2 DEF BodyEnds, Inv, HandlesInv, Making
    <2>3. NothingLost'
      BY <1>2 DEF BodyEnds, Inv, NothingLost, Pumping
    <2>4. CleanEnd'
      BY <1>2 DEF BodyEnds, Inv, CleanEnd
    <2>5. CountersInv'
      BY <1>2 DEF BodyEnds, Inv, CountersInv, Pumping
    <2>6. QED BY <2>1, <2>2, <2>3, <2>4, <2>5 DEF Inv
  <1>3. CASE BodyFails
    <2>1. TypeOK'
      BY <1>3 DEF BodyFails, End, GiveUp, Orders, Inv, TypeOK
    <2>2. HandlesInv'
      BY <1>3 DEF BodyFails, End, GiveUp, Inv, HandlesInv, Making, Pumping
    <2>3. NothingLost'
      BY <1>3 DEF BodyFails, End, GiveUp, NothingLost
    <2>4. CleanEnd'
      BY <1>3 DEF BodyFails, End, GiveUp, CleanEnd
    <2>5. CountersInv'
      BY <1>3 DEF BodyFails, End, GiveUp, Inv, CountersInv, Pumping
    <2>6. QED BY <2>1, <2>2, <2>3, <2>4, <2>5 DEF Inv
  <1>4. CASE Answer
    <2>1. PICK n \in 0 .. held :
            /\ down' = [down EXCEPT !.written = @ + n]
            /\ IF n < held
                THEN held' = held - n /\ UNCHANGED <<pc, ended>>
                ELSE pc' = "done" /\ held' = 0 /\ ended' = "answered"
      BY <1>4 DEF Answer
    <2>2. TypeOK'
      BY <1>4 DEF Answer, Moved, Inv, TypeOK
    <2>3. HandlesInv'
      BY <1>4, <2>1 DEF Answer, Inv, HandlesInv, Making
    <2>4. NothingLost'
      BY <1>4 DEF Answer, Moved, Inv, TypeOK, NothingLost
    <2>5. CleanEnd'
      BY <2>1 DEF Inv, CleanEnd, CountersInv
    <2>6. CountersInv'
      BY <1>4 DEF Answer, Inv, CountersInv, Pumping
    <2>7. QED BY <2>2, <2>3, <2>4, <2>5, <2>6 DEF Inv
  <1>5. CASE AnswerFails
    BY <1>5 DEF AnswerFails, Inv, TypeOK, HandlesInv, NothingLost, CleanEnd, CountersInv,
       Making, Pumping
  <1>6. QED BY <1>1, <1>2, <1>3, <1>4, <1>5 DEF read_response

\* The peers send only while they are there, so what was complete stays so.
LEMMA PeerStep == ASSUME Inv, peers PROVE Inv'
  <1>1. CASE ClientSends
    <2>1. TypeOK'
      BY <1>1 DEF ClientSends, tunnel, Moved, Inv, TypeOK
    <2>2. HandlesInv'
      BY <1>1 DEF ClientSends, tunnel, Inv, HandlesInv, Making
    <2>3. NothingLost'
      BY <1>1 DEF ClientSends, tunnel, Inv, NothingLost
    <2>4. CleanEnd'
      BY <1>1 DEF ClientSends, tunnel, Inv, CleanEnd
    <2>5. CountersInv'
      BY <1>1 DEF ClientSends, tunnel, Moved, Inv, TypeOK, CountersInv
    <2>6. QED BY <2>1, <2>2, <2>3, <2>4, <2>5 DEF Inv
  <1>2. CASE ClientReads
    <2>1. TypeOK'
      BY <1>2 DEF ClientReads, tunnel, Moved, Inv, TypeOK
    <2>2. HandlesInv'
      BY <1>2 DEF ClientReads, tunnel, Inv, HandlesInv, Making
    <2>3. NothingLost'
      BY <1>2 DEF ClientReads, tunnel, Inv, NothingLost
    <2>4. CleanEnd'
      BY <1>2 DEF ClientReads, tunnel, Inv, CleanEnd
    <2>5. CountersInv'
      BY <1>2 DEF ClientReads, tunnel, Inv, CountersInv
    <2>6. QED BY <2>1, <2>2, <2>3, <2>4, <2>5 DEF Inv
  <1>3. CASE ClientLeaves
    <2>1. TypeOK'
      BY <1>3 DEF ClientLeaves, tunnel, Inv, TypeOK
    <2>2. HandlesInv'
      BY <1>3 DEF ClientLeaves, tunnel, Inv, HandlesInv, Making
    <2>3. NothingLost'
      BY <1>3 DEF ClientLeaves, tunnel, Inv, NothingLost
    <2>4. CleanEnd'
      BY <1>3 DEF ClientLeaves, Moved, tunnel, Inv, TypeOK, CleanEnd, CountersInv
    <2>5. CountersInv'
      BY <1>3 DEF ClientLeaves, tunnel, Inv, CountersInv
    <2>6. QED BY <2>1, <2>2, <2>3, <2>4, <2>5 DEF Inv
  <1>4. CASE ProxySends
    <2>1. TypeOK'
      BY <1>4 DEF ProxySends, tunnel, Moved, Inv, TypeOK
    <2>2. HandlesInv'
      BY <1>4 DEF ProxySends, tunnel, Inv, HandlesInv, Making
    <2>3. NothingLost'
      BY <1>4 DEF ProxySends, tunnel, Inv, NothingLost
    <2>4. CleanEnd'
      BY <1>4 DEF ProxySends, tunnel, Inv, CleanEnd
    <2>5. CountersInv'
      BY <1>4 DEF ProxySends, tunnel, Moved, Inv, TypeOK, CountersInv
    <2>6. QED BY <2>1, <2>2, <2>3, <2>4, <2>5 DEF Inv
  <1>5. CASE ProxyReads
    <2>1. TypeOK'
      BY <1>5 DEF ProxyReads, tunnel, Moved, Inv, TypeOK
    <2>2. HandlesInv'
      BY <1>5 DEF ProxyReads, tunnel, Inv, HandlesInv, Making
    <2>3. NothingLost'
      BY <1>5 DEF ProxyReads, tunnel, Inv, NothingLost
    <2>4. CleanEnd'
      BY <1>5 DEF ProxyReads, tunnel, Inv, CleanEnd
    <2>5. CountersInv'
      BY <1>5 DEF ProxyReads, tunnel, Inv, CountersInv
    <2>6. QED BY <2>1, <2>2, <2>3, <2>4, <2>5 DEF Inv
  <1>6. CASE ProxyLeaves
    <2>1. TypeOK'
      BY <1>6 DEF ProxyLeaves, tunnel, Inv, TypeOK
    <2>2. HandlesInv'
      BY <1>6 DEF ProxyLeaves, tunnel, Inv, HandlesInv, Making
    <2>3. NothingLost'
      BY <1>6 DEF ProxyLeaves, tunnel, Inv, NothingLost
    <2>4. CleanEnd'
      BY <1>6 DEF ProxyLeaves, Connected, tunnel, Inv, CleanEnd
    <2>5. CountersInv'
      BY <1>6 DEF ProxyLeaves, tunnel, Inv, CountersInv
    <2>6. QED BY <2>1, <2>2, <2>3, <2>4, <2>5 DEF Inv
  <1>7. QED BY <1>1, <1>2, <1>3, <1>4, <1>5, <1>6 DEF peers

-----------------------------------------------------------------------------
\* The inductive invariant of forward, whatever the sizes and the peers.
THEOREM TunnelInvariance == Spec => []Inv
  <1>1. Init => Inv
    BY InitInv
  <1>2. Inv /\ [Next]_vars => Inv'
    <2>1. ASSUME Inv, UNCHANGED vars PROVE Inv'
      BY <2>1 DEF vars, tunnel, Inv, TypeOK, HandlesInv, NothingLost, CleanEnd, CountersInv, Making
    <2>2. QED BY <2>1, OpenStep, GrantStep, PumpStep, ResponseStep, DropStep, PeerStep DEF Next, forward
  <1>3. QED BY <1>1, <1>2, PTL DEF Spec

\* Wherever forward fails, it closes each handle it has opened, once and before those
\* it was made from; no step works on a closed one, and none outlives the call.
THEOREM NoHandleLeaks == Spec => []HandlesInv
  BY TunnelInvariance, PTL DEF Inv

\* While forward runs, its one buffer loses no byte and mixes no directions.
THEOREM NothingIsLost == Spec => []NothingLost
  BY TunnelInvariance, PTL DEF Inv

\* A tunnel that a peer ends in good order has passed on all that this peer sent.
THEOREM EndsComplete == Spec => []CleanEnd
  BY TunnelInvariance, PTL DEF Inv

-----------------------------------------------------------------------------
(* forward implements Relay *)

Phase  == IF pc \in Opening THEN "asking" ELSE IF ended # "no" THEN "over" ELSE "relaying"
Ups    == [sent |-> up.sent, passed |-> up.written]
Downs  == [sent |-> down.sent, passed |-> down.written]

\* What Relay does not see: handles, rounds, what is read into the buffer or taken
\* out of a channel.
LEMMA Hidden ==
    ASSUME is_connect' = is_connect, Phase' = Phase, ended' = ended,
           Ups' = Ups, Downs' = Downs, client' = client, proxy' = proxy
    PROVE  UNCHANGED R!vars
  BY DEF R!vars, Phase, Ups, Downs

LEMMA InitRelays == ASSUME Init PROVE R!Init
  BY DEF Init, R!Init, Opening, Making

LEMMA OpenRelays == ASSUME Inv, open PROVE R!Next \/ UNCHANGED R!vars
  <1>1. CASE OpenHandle \/ Resend \/ SendRequest
    <2>1. Phase' = Phase
      BY <1>1 DEF OpenHandle, Resend, SendRequest, Goto, Phase, Opening, Making
    <2>2. UNCHANGED <<is_connect, ended, up, down, client, proxy>>
      BY <1>1 DEF OpenHandle, Resend, SendRequest, Goto
    <2>3. QED BY <2>1, <2>2, Hidden DEF Ups, Downs
  <1>2. CASE Receive
    <2>1. R!Accept
      BY <1>2 DEF Receive, Goto, R!Accept, Opening, Making, Inv, CountersInv
    <2>2. QED BY <2>1 DEF R!Next
  <1>3. CASE MakeFails \/ OpenFails
    <2>1. R!Refuse
      BY <1>3 DEF MakeFails, OpenFails, End, GiveUp, R!Refuse, R!Return, Making, Opening, Inv,
         CountersInv
    <2>2. QED BY <2>1 DEF R!Next
  <1>4. QED BY <1>1, <1>2, <1>3 DEF open

\* Bytes leave the buffer for the other side.
LEMMA WriteRelays == ASSUME Inv, WriteUp PROVE R!PassUp
  <1>1. PICK n \in 1 .. held :
          /\ up' = [up EXCEPT !.written = @ + n]
          /\ pc' = IF n < held THEN pc ELSE IF pc = "write" THEN "read" ELSE "recv"
    BY DEF WriteUp
  <1>2. /\ pc \in {"preface", "write"} /\ proxy # "broken" /\ is_connect /\ ended = "no"
        /\ UNCHANGED <<is_connect, ended, down, client, proxy>>
    BY DEF WriteUp, Inv, CountersInv, Pumping
  <1>3. n \in 1 .. (up.sent - up.written)
    BY <1>2 DEF Inv, TypeOK, Moved, NothingLost, CountersInv
  <1>4. up'.sent = up.sent /\ up'.written = up.written + n
    BY <1>1 DEF Inv, TypeOK, Moved
  <1>5. QED BY <1>1, <1>2, <1>3, <1>4 DEF R!PassUp, R!Left, Opening, Making

LEMMA SendRelays == ASSUME Inv, SendDown PROVE R!PassDown
  <1>1. PICK n \in 1 .. held :
          /\ down' = [down EXCEPT !.written = @ + n]
          /\ pc' = IF n < held THEN "send" ELSE "recv"
    BY DEF SendDown
  <1>2. /\ pc = "send" /\ client # "gone" /\ ended = "no"
        /\ UNCHANGED <<is_connect, ended, up, client, proxy>>
    BY DEF SendDown, Inv, CountersInv
  <1>3. n \in 1 .. (down.sent - down.written)
    BY <1>2 DEF Inv, TypeOK, Moved, NothingLost, CountersInv
  <1>4. down'.sent = down.sent /\ down'.written = down.written + n
    BY <1>1 DEF Inv, TypeOK, Moved
  <1>5. QED BY <1>1, <1>2, <1>3, <1>4 DEF R!PassDown, R!Left, Opening, Making

LEMMA AnswerRelays == ASSUME Inv, Answer PROVE R!PassDown \/ R!Answered
  <1>1. PICK n \in 0 .. held :
          /\ down' = [down EXCEPT !.written = @ + n]
          /\ IF n < held THEN n > 0 /\ held' = held - n /\ UNCHANGED <<pc, ended>>
                         ELSE pc' = "done" /\ held' = 0 /\ ended' = "answered"
    BY DEF Answer
  <1>2. /\ pc = "answer" /\ client # "gone" /\ ended = "no"
        /\ UNCHANGED <<is_connect, up, client, proxy>>
    BY DEF Answer, Inv, CountersInv
  <1>3. n \in 0 .. (down.sent - down.written)
    BY <1>2 DEF Inv, TypeOK, Moved, NothingLost, CountersInv
  <1>4. down'.sent = down.sent /\ down'.written = down.written + n
    BY <1>1 DEF Inv, TypeOK, Moved
  <1>5. CASE n < held
    <2>1. n \in 1 .. (down.sent - down.written) /\ pc' = "answer" /\ ended' = ended
      BY <1>1, <1>2, <1>3, <1>5 DEF Inv, TypeOK
    <2>2. QED BY <1>2, <1>4, <2>1 DEF R!PassDown, R!Left, Opening, Making
  <1>6. CASE ~(n < held)
    BY <1>1, <1>2, <1>3, <1>4, <1>6 DEF R!Answered, R!Left, R!Return, Opening, Inv, CountersInv, Making
  <1>7. QED BY <1>5, <1>6

\* Every end of a tunnel has its cause.
LEMMA EndsRelay ==
    ASSUME Inv, \/ GrantFails \/ WriteFails \/ RecvEnds \/ ReadEnds \/ SendFails \/ BodyFails
                \/ AnswerFails
    PROVE  R!Fail \/ R!ClientEnds \/ R!ProxyEnds
  <1> USE DEF R!Left, R!Return, Making, Opening, Pumping
  <1>0. ended = "no"
    BY DEF GrantFails, WriteFails, RecvEnds, ReadEnds, SendFails, BodyFails, AnswerFails, Inv,
       CountersInv
  <1>1. CASE GrantFails
    BY <1>0, <1>1 DEF GrantFails, End, GiveUp, R!Fail
  <1>2. CASE BodyFails
    BY <1>0, <1>2 DEF BodyFails, End, GiveUp, R!Fail
  <1>3. CASE WriteFails
    <2>1. is_connect /\ up.sent - up.written > 0
      BY <1>3 DEF WriteFails, Inv, TypeOK, Moved, NothingLost, CountersInv
    <2>2. QED BY <1>0, <1>3, <2>1 DEF WriteFails, End, GiveUp, R!Fail
  <1>4. CASE RecvEnds
    <2>1. is_connect /\ (up.read = up.sent => up.sent - up.written = 0)
      BY <1>4 DEF RecvEnds, Inv, TypeOK, Moved, NothingLost, CountersInv
    <2>2. QED BY <1>0, <1>4, <2>1 DEF RecvEnds, End, GiveUp, R!ClientEnds
  <1>5. CASE ReadEnds
    <2>1. is_connect /\ (down.read = down.sent => down.sent - down.written = 0)
      BY <1>5 DEF ReadEnds, Inv, TypeOK, Moved, NothingLost, CountersInv
    <2>2. QED BY <1>0, <1>5, <2>1 DEF ReadEnds, End, GiveUp, R!ProxyEnds
  <1>6. CASE SendFails
    <2>1. is_connect /\ down.sent - down.written > 0
      BY <1>6 DEF SendFails, Inv, TypeOK, Moved, NothingLost, CountersInv
    <2>2. QED BY <1>0, <1>6, <2>1 DEF SendFails, End, GiveUp, R!ClientEnds
  <1>7. CASE AnswerFails
    BY <1>0, <1>7 DEF AnswerFails, R!Fail
  <1>8. QED BY <1>1, <1>2, <1>3, <1>4, <1>5, <1>6, <1>7

\* What moves no byte and ends nothing.
LEMMA QuietRelays ==
    ASSUME Inv, Grant \/ Recv \/ RecvNothing \/ ReadDown \/ ReadTimesOut \/ ReadBody \/ BodyEnds
    PROVE  UNCHANGED R!vars
  <1>1. Phase = "relaying" /\ Phase' = "relaying"
    BY DEF Grant, Recv, RecvNothing, ReadDown, ReadTimesOut, ReadBody, BodyEnds, Goto, Phase, Opening,
       Making, Inv, CountersInv
  <1>2. UNCHANGED <<is_connect, ended, client, proxy>>
    BY DEF Grant, Recv, RecvNothing, ReadDown, ReadTimesOut, ReadBody, BodyEnds, Goto
  <1>3. UNCHANGED <<Ups, Downs>>
    BY DEF Grant, Recv, RecvNothing, ReadDown, ReadTimesOut, ReadBody, BodyEnds, Goto, Ups, Downs,
       Inv, TypeOK, Moved
  <1>4. QED BY <1>1, <1>2, <1>3, Hidden

LEMMA PeersRelay == ASSUME Inv, peers PROVE R!Next \/ UNCHANGED R!vars
  <1>1. CASE ClientSends
    <2>1. R!ClientSends
      BY <1>1 DEF ClientSends, tunnel, R!ClientSends, Inv, TypeOK, Moved
    <2>2. QED BY <2>1 DEF R!Next, R!peers
  <1>2. CASE ProxySends
    <2>1. R!ProxySends
      BY <1>2 DEF ProxySends, Connected, tunnel, R!ProxySends, Inv, TypeOK, Moved
    <2>2. QED BY <2>1 DEF R!Next, R!peers
  <1>3. CASE ClientLeaves
    <2>1. R!ClientLeaves
      BY <1>3 DEF ClientLeaves, tunnel, R!ClientLeaves
    <2>2. QED BY <2>1 DEF R!Next, R!peers
  <1>4. CASE ProxyLeaves
    <2>1. R!ProxyLeaves
      BY <1>4 DEF ProxyLeaves, Connected, tunnel, R!ProxyLeaves
    <2>2. QED BY <2>1 DEF R!Next, R!peers
  <1>5. CASE ClientReads \/ ProxyReads
    <2>1. UNCHANGED <<is_connect, pc, ended, client, proxy>>
      BY <1>5 DEF ClientReads, ProxyReads, tunnel
    <2>2. UNCHANGED <<Ups, Downs>>
      BY <1>5 DEF ClientReads, ProxyReads, tunnel, Ups, Downs, Inv, TypeOK, Moved
    <2>3. QED BY <2>1, <2>2, Hidden DEF Phase
  <1>6. QED BY <1>1, <1>2, <1>3, <1>4, <1>5 DEF peers

LEMMA NextRelays == Inv /\ [Next]_vars => [R!Next]_(R!vars)
  <1> SUFFICES ASSUME Inv, [Next]_vars PROVE R!Next \/ UNCHANGED R!vars
    OBVIOUS
  <1>1. CASE WriteUp \/ SendDown \/ Answer
    BY <1>1, WriteRelays, SendRelays, AnswerRelays DEF R!Next
  <1>2. CASE \/ GrantFails \/ WriteFails \/ RecvEnds \/ ReadEnds \/ SendFails \/ BodyFails
             \/ AnswerFails
    BY <1>2, EndsRelay DEF R!Next
  <1>4. CASE drop
    <2>1. UNCHANGED <<is_connect, ended, up, down, client, proxy>>
      BY <1>4 DEF drop, CloseHandle, Closed, Goto
    <2>2. pc \notin Opening /\ pc' \notin Opening
      BY <1>4 DEF drop, CloseHandle, Closed, Goto, Opening, Making
    <2>3. QED BY <2>1, <2>2, Hidden DEF Phase, Ups, Downs
  <1>3. CASE UNCHANGED vars
    BY <1>3, Hidden DEF vars, tunnel, Phase, Ups, Downs
  <1>5. QED BY <1>1, <1>2, <1>3, <1>4, OpenRelays, QuietRelays, PeersRelay
            DEF Next, forward, pump, read_response

\* One call of forward, with its handles, its one buffer, short reads and writes,
\* timeouts and retries, is a relay: it passes on what was sent, in each direction,
\* and never ends without a cause.
THEOREM ImplementsRelay == Spec => KeepsRelay
  <1>1. QED BY InitRelays, NextRelays, TunnelInvariance, PTL DEF Spec, KeepsRelay, R!Spec
=============================================================================
