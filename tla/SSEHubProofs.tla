---------------------------- MODULE SSEHubProofs ----------------------------
(***************************************************************************)
(* Theorems about SSEHub, for any number of connections, IDs and messages. *)
(***************************************************************************)
EXTENDS SSEHub, SequenceLemmas, FiniteSetTheorems

(***************************************************************************)
(* A function to sequences keeps its type when an element is put at the    *)
(* end of, or taken from the head of, one of them (a Go channel send and   *)
(* receive).                                                               *)
(***************************************************************************)
\* Sending a well-typed element keeps every channel well-typed.
LEMMA SendTyped ==
  ASSUME NEW D, NEW S, NEW f \in [D -> Seq(S)], NEW d \in D, NEW e \in S
  PROVE  [f EXCEPT ![d] = Append(@, e)] \in [D -> Seq(S)]
<1>1. Append(f[d], e) \in Seq(S)
  OBVIOUS
<1>2. QED
  BY <1>1

\* Receiving yields an element of the channel's type and keeps the rest.
LEMMA ReceiveTyped ==
  ASSUME NEW D, NEW S, NEW f \in [D -> Seq(S)], NEW d \in D, f[d] # << >>
  PROVE  /\ Head(f[d]) \in S
         /\ [f EXCEPT ![d] = Tail(@)] \in [D -> Seq(S)]
<1>1. Head(f[d]) \in S /\ Tail(f[d]) \in Seq(S)
  BY HeadTailProperties
<1>2. QED
  BY <1>1

(***************************************************************************)
(* Type correctness.                                                       *)
(***************************************************************************)
\* Every variable of the hub keeps its type: in particular a client map
\* entry is always a connection and a channel only ever holds messages.
THEOREM TypeCorrect == Spec => []TypeOK
<1> USE HubAssumption DEF RunStates, StopStates, HandleStates, CallStates, OnClient,
        hubVars, connVars, callVars, Registered
<1>1. Init => TypeOK
  BY DEF Init, TypeOK
<1>2. TypeOK /\ [Next]_vars => TypeOK'
  <2> SUFFICES ASSUME TypeOK, [Next]_vars
               PROVE  TypeOK'
    OBVIOUS
  <2> USE DEF TypeOK
  <2>1. ASSUME NEW c \in Conn, Connect(c)
        PROVE  TypeOK'
    BY <2>1 DEF Connect
  <2>2. ASSUME NEW c \in Conn, RegisterPanic(c)
        PROVE  TypeOK'
    BY <2>2 DEF RegisterPanic
  <2>3. ASSUME NEW c \in Conn, Disconnect(c) \/ HubStopped(c)
        PROVE  TypeOK'
    BY <2>3 DEF Disconnect, HubStopped
  <2>4. ASSUME NEW c \in Conn, Receive(c)
        PROVE  TypeOK'
    <3>0. channel[c] # << >> => /\ Head(channel[c]) \in Msg \cup {Nil}
                                /\ [channel EXCEPT ![c] = Tail(@)]
                                     \in [Conn -> Seq(Msg \cup {Nil})]
      BY ReceiveTyped
    <3>1. channel' \in [Conn -> Seq(Msg \cup {Nil})]
      BY <2>4, <3>0 DEF Receive
    <3>2. delivered' \in [Conn -> Seq(Msg)]
      <4>1. CASE channel[c] # << >> /\ Head(channel[c]) # Nil
        <5>1. [delivered EXCEPT ![c] = Append(@, Head(channel[c]))] \in [Conn -> Seq(Msg)]
          BY <4>1, <3>0, SendTyped
        <5>2. QED
          BY <2>4, <4>1, <5>1 DEF Receive
      <4>2. CASE ~ (channel[c] # << >> /\ Head(channel[c]) # Nil)
        BY <2>4, <4>2 DEF Receive
      <4>3. QED
        BY <4>1, <4>2
    <3>3. pc' \in [Conn -> HandleStates]
      <4>1. \/ pc' = [pc EXCEPT ![c] = "unwinding"]
            \/ pc' = [pc EXCEPT ![c] = "leaving"]
            \/ pc' = pc
        BY <2>4 DEF Receive
      <4>2. QED
        BY <4>1
    <3>4. QED
      BY <2>4, <3>1, <3>2, <3>3 DEF Receive
  <2>5. ASSUME NEW c \in Conn, UnregisterPanic(c)
        PROVE  TypeOK'
    BY <2>5 DEF UnregisterPanic
  <2>6. CASE RunReturns \/ RunReadsNilClient
    BY <2>6 DEF RunReturns, RunReadsNilClient
  <2>7. ASSUME NEW c \in Conn, RunTakesRegister(c)
        PROVE  TypeOK'
    BY <2>7 DEF RunTakesRegister
  <2>8. ASSUME NEW c \in Conn, RunTakesUnregister(c)
        PROVE  TypeOK'
    BY <2>8 DEF RunTakesUnregister
  <2>9. ASSUME NEW c \in Conn, RunFanout(c)
        PROVE  TypeOK'
    <3>1. cur \in Msg \cup {Nil}
      BY <2>9 DEF RunFanout
    <3>2. [channel EXCEPT ![c] = Append(@, cur)] \in [Conn -> Seq(Msg \cup {Nil})]
      BY <3>1, SendTyped
    <3>3. channel' \in [Conn -> Seq(Msg \cup {Nil})]
      BY <2>9, <3>2 DEF RunFanout
    <3>4. skipped' \subseteq Conn \X (Msg \cup {Nil})
      BY <2>9, <3>1 DEF RunFanout
    <3>5. /\ run' \in {"fanout", "crashed"}
          /\ fan' \subseteq Conn
          /\ UNCHANGED <<clients, trackers, broadcast, cur, stop, pc, closed,
                         delivered, call, target, accepted>>
      BY <2>9 DEF RunFanout
    <3>6. QED
      BY <3>1, <3>3, <3>4, <3>5
  <2>10. CASE RunRegister
    BY <2>10 DEF RunRegister
  <2>11. CASE RunTrack
    BY <2>11 DEF RunTrack
  <2>12. CASE RunUnregister
    BY <2>12 DEF RunUnregister
  <2>13. CASE RunUntrack
    BY <2>13 DEF RunUntrack
  <2>14. CASE RunTakesBroadcast
    <3>1. broadcast # << >> => Head(broadcast) \in Msg /\ Tail(broadcast) \in Seq(Msg)
      BY HeadTailProperties
    <3>2. cur' \in Msg \cup {Nil} /\ broadcast' \in Seq(Msg)
      BY <2>14, <3>1 DEF RunTakesBroadcast
    <3>3. fan' \subseteq Conn
      BY <2>14 DEF RunTakesBroadcast
    <3>4. run' = "fanout" /\ UNCHANGED <<clients, trackers, stop, pc, channel, closed,
                                        delivered, call, target, accepted, skipped>>
      BY <2>14 DEF RunTakesBroadcast
    <3>5. QED
      BY <3>2, <3>3, <3>4
  <2>15. CASE RunFanoutDone
    BY <2>15 DEF RunFanoutDone
  <2>16. ASSUME NEW m \in Msg, Send(m)
         PROVE  TypeOK'
    <3>1. CASE Broadcast(m)
      BY <3>1 DEF Broadcast
    <3>2. CASE SendBroadcast(m)
      <4>0. Append(broadcast, m) \in Seq(Msg) /\ Append(accepted, m) \in Seq(Msg)
        OBVIOUS
      <4>a. \/ UNCHANGED <<broadcast, accepted>>
            \/ broadcast' = Append(broadcast, m) /\ accepted' = Append(accepted, m)
        BY <3>2 DEF SendBroadcast
      <4>1. broadcast' \in Seq(Msg) /\ accepted' \in Seq(Msg)
        BY <4>0, <4>a
      <4>2. \/ call' = [call EXCEPT ![m] = "panicked"]
            \/ call' = [call EXCEPT ![m] = "accepted"]
            \/ call' = [call EXCEPT ![m] = "stopped"]
            \/ call' = [call EXCEPT ![m] = "dropped"]
        BY <3>2 DEF SendBroadcast
      <4>3. UNCHANGED <<clients, trackers, run, cur, fan, stop, pc, channel, closed,
                        delivered, target, skipped>>
        BY <3>2 DEF SendBroadcast
      <4>4. QED
        BY <4>1, <4>2, <4>3
    <3>3. ASSUME NEW id \in ID, SendToClient(m, id)
          PROVE  TypeOK'
      BY <3>3 DEF SendToClient
    <3>4. CASE BufferDirect(m)
      BY <3>4 DEF BufferDirect
    <3>5. CASE SendDirect(m)
      <4>1. target[m] \in Conn
        BY <3>5 DEF SendDirect
      <4>2. [channel EXCEPT ![target[m]] = Append(@, m)] \in [Conn -> Seq(Msg \cup {Nil})]
        BY <4>1, SendTyped
      <4>3. channel' \in [Conn -> Seq(Msg \cup {Nil})]
        BY <3>5, <4>2 DEF SendDirect
      <4>0. \/ call' = [call EXCEPT ![m] = "panicked"]
            \/ call' = [call EXCEPT ![m] = "sent"]
            \/ call' = [call EXCEPT ![m] = "full"]
        BY <3>5 DEF SendDirect
      <4>4. call' \in [Msg -> CallStates] /\ target' = target
        BY <3>5, <4>0 DEF SendDirect
      <4>a. \A k \in Msg : call'[k] \in {"located", "direct", "sent", "full"} =>
                           target'[k] \in Conn
        BY <4>0, <4>1, <4>4
      <4>5. UNCHANGED <<clients, trackers, broadcast, run, cur, fan, stop, pc, closed,
                        delivered, target, accepted, skipped>>
        BY <3>5 DEF SendDirect
      <4>6. QED
        BY <4>3, <4>4, <4>a, <4>5
    <3>6. QED
      BY <2>16, <3>1, <3>2, <3>3, <3>4, <3>5 DEF Send
  <2>17. CASE Stop
    BY <2>17 DEF Stop, StopStep, StopCancel, StopClear, StopCloseBroadcast,
                 StopCloseRegister, StopCloseUnregister
  <2>18. CASE UNCHANGED vars
    BY <2>18 DEF vars
  <2>19. QED
    BY <2>1, <2>2, <2>3, <2>4, <2>5, <2>6, <2>7, <2>8, <2>9, <2>10, <2>11,
       <2>12, <2>13, <2>14, <2>15, <2>16, <2>17, <2>18
       DEF Next, Handle, Run
<1>3. QED
  BY <1>1, <1>2, PTL DEF Spec

(***************************************************************************)
(* No send on, and no second close of, a channel while the hub runs.       *)
(***************************************************************************)
\* The strengthened invariant: how a connection's progress, the map, the
\* closed channels and Run's own progress fit together.
LEMMA ChannelInvariant == Spec => []ChannelInv
<1> USE HubAssumption DEF ChannelInv, RegisteredOpen, CrashesOnlyDuringStop,
        Unregistered, Registered, Ended
<1>1. Init => ChannelInv
  BY DEF Init
<1>2. TypeOK /\ ChannelInv /\ [Next]_vars => ChannelInv'
  <2> SUFFICES ASSUME TypeOK, ChannelInv, [Next]_vars
               PROVE  ChannelInv'
    OBVIOUS
  <2> USE DEF TypeOK, OnClient
  \* A step of a handler that does not end a registered one.
  <2>0. ASSUME NEW c \in Conn, NEW v \in HandleStates, ~Ended(c),
               pc' = [pc EXCEPT ![c] = v],
               v \in {"new", "registering"} => pc[c] = "new",
               UNCHANGED <<clients, run, cur, fan, stop, closed>>
        PROVE  ChannelInv'
    <3>1. \A d \in Conn : d # c => pc'[d] = pc[d]
      BY <2>0
    <3>2. pc'[c] = v /\ pc[c] \notin {"gone", "panicked"}
      BY <2>0
    <3>3. \A d \in Conn : pc'[d] \in {"new", "registering"} => Unregistered(d)
      BY <2>0, <3>1, <3>2
    <3>4. run = "register" => pc'[cur] \notin {"new", "registering"}
      BY <2>0, <3>1, <3>2
    <3>5. run = "unregister" => Ended(cur)'
      BY <2>0, <3>1, <3>2
    <3>6. stop \in {"idle", "cancelled"} =>
            \A d \in closed : Ended(d)' /\ ~ (run = "unregister" /\ cur = d)
      BY <2>0, <3>1, <3>2
    <3>7. QED
      BY <2>0, <3>3, <3>4, <3>5, <3>6
  <2>1. ASSUME NEW c \in Conn, Connect(c)
        PROVE  ChannelInv'
    <3>1. /\ ~Ended(c)
          /\ UNCHANGED <<clients, run, cur, fan, stop, closed>>
          /\ pc[c] = "new"
          /\ \/ pc' = [pc EXCEPT ![c] = "panicked"]
             \/ pc' = [pc EXCEPT ![c] = "registering"]
      BY <2>1 DEF Connect, hubVars
    <3>2. QED
      BY <3>1, <2>0 DEF HandleStates
  <2>2. ASSUME NEW c \in Conn, RegisterPanic(c) \/ UnregisterPanic(c)
        PROVE  ChannelInv'
    <3>1. /\ ~Ended(c)
          /\ UNCHANGED <<clients, run, cur, fan, stop, closed>>
          /\ pc' = [pc EXCEPT ![c] = "panicked"]
      BY <2>2 DEF RegisterPanic, UnregisterPanic, hubVars
    <3>2. QED
      BY <3>1, <2>0 DEF HandleStates
  <2>3. ASSUME NEW c \in Conn, Disconnect(c) \/ HubStopped(c) \/ Receive(c)
        PROVE  ChannelInv'
    <3>1. \/ pc' = [pc EXCEPT ![c] = "unwinding"]
          \/ pc' = [pc EXCEPT ![c] = "leaving"]
          \/ pc' = [pc EXCEPT ![c] = "serving"]
      BY <2>3 DEF Disconnect, HubStopped, Receive
    <3>2. ~Ended(c) /\ UNCHANGED <<clients, run, cur, fan, stop, closed>>
      BY <2>3 DEF Disconnect, HubStopped, Receive, hubVars
    <3>3. QED
      BY <3>1, <3>2, <2>0 DEF HandleStates
  <2>4. CASE RunReturns \/ RunReadsNilClient
    BY <2>4 DEF RunReturns, RunReadsNilClient, RegisterClosed, connVars
  <2>5. ASSUME NEW c \in Conn, RunTakesRegister(c)
        PROVE  ChannelInv'
    BY <2>5 DEF RunTakesRegister
  <2>6. ASSUME NEW c \in Conn, RunTakesUnregister(c)
        PROVE  ChannelInv'
    BY <2>6 DEF RunTakesUnregister
  <2>7. ASSUME NEW c \in Conn, RunFanout(c)
        PROVE  ChannelInv'
    BY <2>7 DEF RunFanout
  <2>8. CASE RunRegister
    BY <2>8 DEF RunRegister, connVars
  <2>9. CASE RunTrack \/ RunUntrack \/ RunFanoutDone
    BY <2>9 DEF RunTrack, RunUntrack, RunFanoutDone, connVars
  <2>10. CASE RunUnregister
    <3>1. Ended(cur) /\ UNCHANGED <<cur, fan, stop, pc>> /\ run = "unregister"
      BY <2>10 DEF RunUnregister
    <3>2. CASE clients[IdOf[cur]] = Nil
      BY <2>10, <3>1, <3>2 DEF RunUnregister
    <3>3. CASE clients[IdOf[cur]] # Nil /\ cur \in closed
      <4>1. run' = "crashed" /\ UNCHANGED <<clients, closed>>
        BY <2>10, <3>3 DEF RunUnregister
      <4>2. stop \notin {"idle", "cancelled"}
        BY <3>1, <3>3
      <4>3. QED
        BY <3>1, <4>1, <4>2
    <3>4. CASE clients[IdOf[cur]] # Nil /\ cur \notin closed
      <4>1. /\ closed' = closed \cup {cur}
            /\ clients' = [clients EXCEPT ![IdOf[cur]] = Nil]
            /\ run' = "untrack"
        BY <2>10, <3>4 DEF RunUnregister
      <4>2. cur \notin Registered' /\ Registered' \subseteq Registered
        BY <3>1, <4>1
      <4>3. RegisteredOpen' /\ \A c \in Conn : Unregistered(c) /\ c # cur => Unregistered(c)'
        BY <4>1, <4>2
      <4>4. \A id \in ID : clients'[id] # Nil => IdOf[clients'[id]] = id
        BY <4>1
      <4>5. QED
        BY <3>1, <4>1, <4>3, <4>4
    <3>5. QED
      BY <3>2, <3>3, <3>4
  <2>11. CASE RunTakesBroadcast
    BY <2>11 DEF RunTakesBroadcast, connVars
  <2>12. ASSUME NEW m \in Msg, Send(m)
         PROVE  ChannelInv'
    <3>1. UNCHANGED <<clients, run, cur, fan, stop, pc, closed>>
      BY <2>12 DEF Send, Broadcast, SendBroadcast, SendToClient, BufferDirect,
                   SendDirect, hubVars, connVars
    <3>2. QED
      BY <3>1
  <2>13. CASE StopClear
    BY <2>13 DEF StopClear, StopStep
  <2>14. CASE StopCancel \/ StopCloseBroadcast \/ StopCloseRegister \/ StopCloseUnregister
    BY <2>14 DEF StopCancel, StopCloseBroadcast, StopCloseRegister,
                 StopCloseUnregister, StopStep, hubVars, connVars
  <2>15. CASE UNCHANGED vars
    BY <2>15 DEF vars
  <2>16. QED
    BY <2>1, <2>2, <2>3, <2>4, <2>5, <2>6, <2>7, <2>8, <2>9, <2>10, <2>11,
       <2>12, <2>13, <2>14, <2>15
       DEF Next, Handle, Run, Stop
<1>3. QED
  BY <1>1, <1>2, TypeCorrect, PTL DEF Spec

\* Run's fan-out and Stop's closing loop never meet a closed channel.
THEOREM RegisteredStaysOpen == Spec => []RegisteredOpen
<1>1. ChannelInv => RegisteredOpen
  BY DEF ChannelInv
<1>2. QED
  BY <1>1, ChannelInvariant, PTL

\* As long as Stop has not cleared the map, nothing the clients do - not
\* even reconnecting under the same ID - brings Run down.
THEOREM NoCrashBeforeStop == Spec => []CrashesOnlyDuringStop
<1>1. ChannelInv => CrashesOnlyDuringStop
  BY DEF ChannelInv
<1>2. QED
  BY <1>1, ChannelInvariant, PTL

(***************************************************************************)
(* No panic before Stop closes the channels.                               *)
(***************************************************************************)
\* Until Stop has closed hub.broadcast no nil message is in any channel, and
\* until it has closed those of the clients no handler panics.
QuietInv ==
  /\ stop \in {"idle", "cancelled", "cleared"} =>
       /\ \A c \in Conn : Nil \notin Range(channel[c])
       /\ run = "fanout" => cur # Nil
  /\ stop \in {"idle", "cancelled"} =>
       \A c \in Conn : pc[c] \notin {"unwinding", "panicked"}

\* What the channels hold when e is sent to c,
LEMMA SendStep ==
  ASSUME TypeOK, NEW c \in Conn, NEW e \in Msg \cup {Nil},
         channel' = [channel EXCEPT ![c] = Append(@, e)]
  PROVE  /\ Range(channel'[c]) = Range(channel[c]) \cup {e}
         /\ \A d \in Conn : d # c => channel'[d] = channel[d]
<1>1. channel[c] \in Seq(Msg \cup {Nil})
  BY DEF TypeOK
<1>2. Range(Append(channel[c], e)) = Range(channel[c]) \cup {e}
  BY <1>1, RangeAppend
<1>3. QED
  BY <1>2 DEF TypeOK

\* and when c receives.
LEMMA ReceiveStep ==
  ASSUME TypeOK, NEW c \in Conn, channel[c] # << >>,
         channel' = [channel EXCEPT ![c] = Tail(@)]
  PROVE  /\ Range(channel[c]) = {Head(channel[c])} \cup Range(channel'[c])
         /\ \A d \in Conn : d # c => channel'[d] = channel[d]
<1>1. channel[c] \in Seq(Msg \cup {Nil})
  BY DEF TypeOK
<1>2. Range(channel[c]) = {Head(channel[c])} \cup Range(Tail(channel[c]))
  BY <1>1, RangeHeadTail
<1>3. QED
  BY <1>2 DEF TypeOK

\* QuietInv is inductive beside ChannelInv.
LEMMA Quiet == Spec => []QuietInv
<1> USE HubAssumption DEF QuietInv
<1>1. Init => QuietInv
  BY DEF Init, Range
<1>2. TypeOK /\ TypeOK' /\ ChannelInv /\ QuietInv /\ [Next]_vars => QuietInv'
  <2> SUFFICES ASSUME TypeOK, TypeOK', ChannelInv, QuietInv, [Next]_vars
               PROVE  QuietInv'
    OBVIOUS
  <2>0. stop \in {"idle", "cancelled"} => \A c \in closed : Ended(c)
    BY DEF ChannelInv
  <2>1. ASSUME NEW c \in Conn, Connect(c) \/ RegisterPanic(c) \/ UnregisterPanic(c)
        PROVE  QuietInv'
    <3>1. pc'[c] = "panicked" => stop \notin {"idle", "cancelled"}
      BY <2>1 DEF Connect, RegisterPanic, UnregisterPanic, RegisterClosed,
                  UnregisterClosed, TypeOK
    <3>2. /\ \A d \in Conn : d # c => pc'[d] = pc[d]
          /\ pc'[c] \in {"panicked", "registering"}
          /\ UNCHANGED <<stop, channel, run, cur>>
      BY <2>1 DEF Connect, RegisterPanic, UnregisterPanic, hubVars, TypeOK
    <3>3. QED
      BY <3>1, <3>2
  <2>2. ASSUME NEW c \in Conn, Disconnect(c) \/ HubStopped(c)
        PROVE  QuietInv'
    BY <2>2 DEF Disconnect, HubStopped, hubVars, TypeOK
  <2>3. ASSUME NEW c \in Conn, Receive(c)
        PROVE  QuietInv'
    <3>1. UNCHANGED <<stop, run, cur>> /\ pc[c] = "serving"
      BY <2>3 DEF Receive, hubVars
    <3>2. CASE channel[c] # << >> /\ channel' = [channel EXCEPT ![c] = Tail(@)]
      <4>1. /\ Range(channel[c]) = {Head(channel[c])} \cup Range(channel'[c])
            /\ \A d \in Conn : d # c => channel'[d] = channel[d]
        BY <3>2, ReceiveStep
      <4>2. stop \in {"idle", "cancelled", "cleared"} => Head(channel[c]) # Nil
        BY <4>1
      <4>3. \/ Head(channel[c]) = Nil
            \/ pc' = pc
            \/ pc' = [pc EXCEPT ![c] = "leaving"]
        BY <2>3, <3>2 DEF Receive
      <4>4. QED
        BY <2>3, <3>1, <4>1, <4>2, <4>3 DEF TypeOK
    <3>3. CASE channel' = channel /\ c \in closed
      <4>1. stop \notin {"idle", "cancelled"}
        BY <2>0, <3>1, <3>3 DEF Ended
      <4>2. QED
        BY <3>1, <3>3, <4>1
    <3>4. QED
      BY <2>3, <3>2, <3>3 DEF Receive
  <2>4. ASSUME RunReturns \/ RunReadsNilClient \/ RunRegister \/ RunTrack
                 \/ RunUnregister \/ RunUntrack \/ RunFanoutDone
        PROVE  QuietInv'
    <3>1. UNCHANGED <<stop, pc, channel>> /\ run' # "fanout"
      BY <2>4 DEF RunReturns, RunReadsNilClient, RunRegister, RunTrack, RunUnregister,
                  RunUntrack, RunFanoutDone, connVars
    <3>2. QED
      BY <3>1
  <2>5. ASSUME NEW c \in Conn, RunTakesRegister(c) \/ RunTakesUnregister(c)
        PROVE  QuietInv'
    <3>1. /\ UNCHANGED <<stop, channel>> /\ run' # "fanout"
          /\ \A d \in Conn : d # c => pc'[d] = pc[d]
          /\ pc'[c] = "panicked" => pc[c] = "unwinding"
          /\ pc'[c] \in {"serving", "gone", "panicked"}
      BY <2>5 DEF RunTakesRegister, RunTakesUnregister, TypeOK
    <3>2. QED
      BY <3>1
  <2>6. ASSUME NEW c \in Conn, RunFanout(c)
        PROVE  QuietInv'
    <3>1. /\ UNCHANGED <<stop, pc, cur>> /\ run = "fanout"
          /\ channel' = channel \/ channel' = [channel EXCEPT ![c] = Append(@, cur)]
          /\ cur \in Msg \cup {Nil}
      BY <2>6 DEF RunFanout, TypeOK
    <3>2. \/ channel' = channel
          \/ /\ Range(channel'[c]) = Range(channel[c]) \cup {cur}
             /\ \A d \in Conn : d # c => channel'[d] = channel[d]
      BY <3>1, SendStep
    <3>3. QED
      BY <3>1, <3>2
  <2>7. CASE RunTakesBroadcast
    <3>1. /\ UNCHANGED <<stop, pc, channel>>
          /\ \/ broadcast # << >> /\ cur' = Head(broadcast)
             \/ BroadcastClosed
      BY <2>7 DEF RunTakesBroadcast, connVars
    <3>2. broadcast # << >> => Head(broadcast) \in Msg
      BY HeadTailProperties DEF TypeOK
    <3>3. QED
      BY <3>1, <3>2 DEF BroadcastClosed
  <2>8. ASSUME NEW m \in Msg, Send(m)
        PROVE  QuietInv'
    <3>1. UNCHANGED <<stop, pc, run, cur>>
      BY <2>8 DEF Send, Broadcast, SendBroadcast, SendToClient, BufferDirect,
                  SendDirect, hubVars, connVars
    <3>2. \/ channel' = channel
          \/ /\ target[m] \in Conn
             /\ channel' = [channel EXCEPT ![target[m]] = Append(@, m)]
      BY <2>8 DEF Send, Broadcast, SendBroadcast, SendToClient, BufferDirect,
                  SendDirect, connVars, TypeOK
    <3>3. \/ channel' = channel
          \/ /\ Range(channel'[target[m]]) = Range(channel[target[m]]) \cup {m}
             /\ \A d \in Conn : d # target[m] => channel'[d] = channel[d]
      BY <3>2, SendStep
    <3>4. QED
      BY <3>1, <3>3
  <2>9. CASE Stop
    <3>1. UNCHANGED <<pc, channel, cur>> /\ (run' = "fanout" => run = "fanout")
      BY <2>9 DEF Stop, StopCancel, StopClear, StopCloseBroadcast, StopCloseRegister,
                  StopCloseUnregister, hubVars, connVars
    <3>2. /\ stop' \in {"idle", "cancelled", "cleared"} =>
               stop \in {"idle", "cancelled", "cleared"}
          /\ stop' \in {"idle", "cancelled"} => stop \in {"idle", "cancelled"}
      BY <2>9 DEF Stop, StopCancel, StopClear, StopCloseBroadcast, StopCloseRegister,
                  StopCloseUnregister, StopStep
    <3>3. QED
      BY <3>1, <3>2
  <2>10. CASE UNCHANGED vars
    BY <2>10 DEF vars
  <2>11. QED
    BY <2>1, <2>2, <2>3, <2>4, <2>5, <2>6, <2>7, <2>8, <2>9, <2>10 DEF Next, Handle, Run
<1>3. QED
  BY <1>1, <1>2, TypeCorrect, ChannelInvariant, PTL DEF Spec

\* Before Stop closes the channels neither Run nor a handler panics.
THEOREM NothingPanicsBeforeStop == Spec => []PanicsOnlyDuringStop
<1>1. ChannelInv /\ QuietInv => PanicsOnlyDuringStop
  BY DEF ChannelInv, QuietInv, PanicsOnlyDuringStop
<1>2. QED
  BY <1>1, ChannelInvariant, Quiet, PTL

(***************************************************************************)
(* What is sent to a client that stays is not lost.                        *)
(***************************************************************************)
\* What a connection has got: its Handle wrote it, or it waits in its channel.
Got(c) == Range(delivered[c]) \cup Range(channel[c])

LEMMA GotIsConcat ==
  ASSUME TypeOK, NEW c \in Conn
  PROVE  Range(delivered[c] \o channel[c]) = Got(c)
<1>1. delivered[c] \in Seq(Msg \cup {Nil}) /\ channel[c] \in Seq(Msg \cup {Nil})
  BY SeqMonotonic DEF TypeOK
<1>2. QED
  BY <1>1, RangeConcat DEF Got

\* Receiving moves the head of the channel to what was written, or loses it
\* together with the connection.
LEMMA ReceiveMoves ==
  ASSUME TypeOK, NEW c \in Conn, Receive(c)
  PROVE  /\ Got(c)' \subseteq Got(c)
         /\ pc'[c] = "serving" => Got(c)' = Got(c)
         /\ \A d \in Conn : d # c => /\ Got(d)' = Got(d)
                                     /\ delivered'[d] = delivered[d]
                                     /\ channel'[d] = channel[d]
         /\ \/ delivered'[c] = delivered[c] /\ channel'[c] = channel[c]
            \/ /\ channel[c] # << >> /\ channel'[c] = Tail(channel[c])
               /\ \/ delivered'[c] = delivered[c]
                  \/ /\ Head(channel[c]) \in Msg
                     /\ delivered'[c] = Append(delivered[c], Head(channel[c]))
<1>1. CASE channel' = channel /\ delivered' = delivered /\ pc' = [pc EXCEPT ![c] = "unwinding"]
  BY <1>1 DEF Got, TypeOK
<1>2. CASE channel[c] # << >> /\ channel' = [channel EXCEPT ![c] = Tail(@)]
  <2> DEFINE h == Head(channel[c])
  <2>1. /\ Range(channel[c]) = {h} \cup Range(channel'[c])
        /\ \A d \in Conn : d # c => channel'[d] = channel[d]
    BY <1>2, ReceiveStep
  <2>2. h \in Msg \cup {Nil} /\ channel'[c] = Tail(channel[c])
    BY <1>2, HeadTailProperties DEF TypeOK
  <2>3. CASE delivered' = delivered /\ pc' \in {[pc EXCEPT ![c] = "unwinding"],
                                               [pc EXCEPT ![c] = "leaving"]}
    BY <1>2, <2>1, <2>2, <2>3 DEF Got, TypeOK
  <2>4. CASE h # Nil /\ delivered' = [delivered EXCEPT ![c] = Append(@, h)]
    <3>1. Range(Append(delivered[c], h)) = Range(delivered[c]) \cup {h}
      BY <2>2, <2>4, RangeAppend DEF TypeOK
    <3>2. /\ Range(delivered'[c]) = Range(delivered[c]) \cup {h}
          /\ delivered'[c] = Append(delivered[c], h)
          /\ \A d \in Conn : d # c => delivered'[d] = delivered[d]
      BY <2>4, <3>1 DEF TypeOK
    <3>3. QED
      BY <1>2, <2>1, <2>2, <2>4, <3>2 DEF Got
  <2>5. QED
    BY <1>2, <2>3, <2>4 DEF Receive
<1>3. QED
  BY <1>1, <1>2 DEF Receive

\* A fan-out and SendToClient put at most their own message into one channel.
LEMMA SendAdds ==
  ASSUME TypeOK, NEW c \in Conn, NEW e \in Msg \cup {Nil},
         channel' = [channel EXCEPT ![c] = Append(@, e)], delivered' = delivered
  PROVE  /\ Got(c)' = Got(c) \cup {e}
         /\ channel'[c] = Append(channel[c], e)
         /\ \A d \in Conn : d # c => Got(d)' = Got(d) /\ channel'[d] = channel[d]
<1>1. /\ Range(channel'[c]) = Range(channel[c]) \cup {e}
      /\ \A d \in Conn : d # c => channel'[d] = channel[d]
  BY SendStep
<1>2. QED
  BY <1>1 DEF Got, TypeOK

\* Who may touch the channels, the connections and the calls.
LEMMA NextCases ==
  ASSUME TypeOK, [Next]_vars
  PROVE  \/ \E c \in Conn : Receive(c)
         \/ \E c \in Conn : RunFanout(c)
         \/ \E m \in Msg : SendBroadcast(m)
         \/ \E m \in Msg : SendDirect(m)
         \/ RunTakesBroadcast
         \/ /\ UNCHANGED <<channel, delivered, broadcast, accepted, skipped>>
            /\ \A m \in Msg : \/ call'[m] = call[m] /\ target'[m] = target[m]
                              \/ /\ call[m] = "idle"
                                 /\ call'[m] \in {"broadcasting", "notfound"}
                              \/ /\ call[m] = "idle" /\ call'[m] = "located"
                                 /\ target'[m] \in Registered
                              \/ /\ call[m] = "located" /\ call'[m] = "direct"
                                 /\ target'[m] = target[m]
            /\ run' = "fanout" => /\ run = "fanout"
                                  /\ UNCHANGED <<clients, fan, cur>>
                                  /\ \A d \in Conn : pc'[d] = "serving" => pc[d] = "serving"
            /\ \A d \in Conn :
                 /\ pc'[d] = "serving" => pc[d] \in {"serving", "registering"}
                 /\ pc'[d] \in {"new", "registering"} => pc[d] \in {"new", "registering"}
<1> USE DEF TypeOK
<1>1. ASSUME NEW c \in Conn,
             Connect(c) \/ RegisterPanic(c) \/ Disconnect(c) \/ HubStopped(c)
               \/ UnregisterPanic(c)
      PROVE  /\ UNCHANGED <<channel, delivered, broadcast, accepted, skipped, call,
                            target, run, clients, fan, cur>>
             /\ \A d \in Conn :
                  /\ pc'[d] = "serving" => pc[d] = "serving"
                  /\ pc'[d] \in {"new", "registering"} => pc[d] \in {"new", "registering"}
  BY <1>1 DEF Connect, RegisterPanic, Disconnect, HubStopped, UnregisterPanic, hubVars,
              callVars
<1>2. ASSUME \/ RunReturns \/ RunReadsNilClient \/ RunRegister \/ RunTrack
             \/ RunUnregister \/ RunUntrack \/ RunFanoutDone
             \/ \E c \in Conn : RunTakesRegister(c) \/ RunTakesUnregister(c)
      PROVE  /\ UNCHANGED <<channel, delivered, broadcast, accepted, skipped, call,
                            target>>
             /\ run' # "fanout"
             /\ \A d \in Conn :
                  /\ pc'[d] = "serving" => pc[d] \in {"serving", "registering"}
                  /\ pc'[d] \in {"new", "registering"} => pc[d] \in {"new", "registering"}
  BY <1>2 DEF RunReturns, RunReadsNilClient, RunRegister, RunTrack, RunUnregister,
              RunUntrack, RunFanoutDone, RunTakesRegister, RunTakesUnregister,
              connVars, callVars
<1>3. ASSUME NEW m \in Msg,
             \/ Broadcast(m) \/ BufferDirect(m)
             \/ \E id \in ID : SendToClient(m, id)
      PROVE  /\ UNCHANGED <<channel, delivered, broadcast, accepted, skipped, pc, run,
                            clients, fan, cur>>
             /\ \A k \in Msg : \/ call'[k] = call[k] /\ target'[k] = target[k]
                               \/ /\ call[k] = "idle"
                                  /\ call'[k] \in {"broadcasting", "notfound"}
                               \/ /\ call[k] = "idle" /\ call'[k] = "located"
                                  /\ target'[k] \in Registered
                               \/ /\ call[k] = "located" /\ call'[k] = "direct"
                                  /\ target'[k] = target[k]
  <2>1. CASE Broadcast(m) \/ BufferDirect(m)
    BY <2>1 DEF Broadcast, BufferDirect, hubVars, connVars
  <2>2. CASE \E id \in ID : SendToClient(m, id)
    <3>1. PICK id \in ID : SendToClient(m, id)
      BY <2>2
    <3>2. QED
      BY <3>1 DEF SendToClient, hubVars, connVars, Registered
  <2>3. QED
    BY <1>3, <2>1, <2>2
<1>4. ASSUME Stop
      PROVE  /\ UNCHANGED <<channel, delivered, broadcast, accepted, skipped, call,
                            target, pc, fan, cur>>
             /\ run' = "fanout" => run = "fanout" /\ clients' = clients
  BY <1>4 DEF Stop, StopCancel, StopClear, StopCloseBroadcast, StopCloseRegister,
              StopCloseUnregister, hubVars, connVars, callVars
<1>5. CASE UNCHANGED vars
  BY <1>5 DEF vars
<1>6. QED
  BY <1>1, <1>2, <1>3, <1>4, <1>5 DEF Next, Handle, Run, Send

\* By the end of a fan-out every client that was in the map and is still served
\* has the message, or its channel was full.
THEOREM FanoutSkipsNobody == Spec => []FanoutAccountsForAll
<1> USE HubAssumption
<1> DEFINE Accounted == run = "fanout" =>
             \A c \in Registered \ fan :
               pc[c] # "serving" \/ <<c, cur>> \in skipped \/ cur \in Got(c)
<1>1. TypeOK => (Accounted <=> FanoutAccountsForAll)
  <2> SUFFICES ASSUME TypeOK
               PROVE  Accounted <=> FanoutAccountsForAll
    OBVIOUS
  <2>1. Registered \subseteq Conn
    BY DEF Registered, TypeOK
  <2>2. QED
    BY <2>1, GotIsConcat DEF FanoutAccountsForAll
<1>2. Init => Accounted
  BY DEF Init
<1>3. TypeOK /\ Accounted /\ [Next]_vars => Accounted'
  <2> SUFFICES ASSUME TypeOK, Accounted, [Next]_vars, run' = "fanout",
                      NEW c \in Registered' \ fan'
               PROVE  pc'[c] # "serving" \/ <<c, cur'>> \in skipped' \/ cur' \in Got(c)'
    OBVIOUS
  <2>1. ASSUME NEW d \in Conn, Receive(d)
        PROVE  pc'[c] # "serving" \/ <<c, cur'>> \in skipped' \/ cur' \in Got(c)'
    <3>1. UNCHANGED <<run, clients, fan, cur, skipped>>
      BY <2>1 DEF Receive, hubVars
    <3>2. c \in Registered \ fan /\ c \in Conn
      BY <3>1 DEF Registered, TypeOK
    <3>3. /\ pc'[d] = "serving" => Got(d)' = Got(d)
          /\ d # c => Got(c)' = Got(c)
      BY <2>1, <3>2, ReceiveMoves
    <3>4. pc[d] = "serving" /\ \A k \in Conn : k # d => pc'[k] = pc[k]
      BY <2>1 DEF Receive, TypeOK
    <3>5. QED
      BY <3>1, <3>2, <3>3, <3>4
  <2>2. ASSUME NEW d \in Conn, RunFanout(d)
        PROVE  pc'[c] # "serving" \/ <<c, cur'>> \in skipped' \/ cur' \in Got(c)'
    <3>1. /\ UNCHANGED <<clients, cur, pc, delivered>> /\ run = "fanout"
          /\ fan' = fan \ {d} /\ cur \in Msg \cup {Nil}
      BY <2>2 DEF RunFanout, TypeOK
    <3>2. c \in Registered /\ c \in Conn /\ (c \notin fan \/ c = d)
      BY <3>1 DEF Registered, TypeOK
    <3>3. CASE channel' = [channel EXCEPT ![d] = Append(@, cur)] /\ UNCHANGED skipped
      <4>1. /\ Got(d)' = Got(d) \cup {cur}
            /\ \A k \in Conn : k # d => Got(k)' = Got(k)
        BY <3>1, <3>3, SendAdds
      <4>2. QED
        BY <3>1, <3>2, <3>3, <4>1
    <3>4. CASE channel' = channel /\ skipped' = skipped \cup {<<d, cur>>}
      BY <3>1, <3>2, <3>4 DEF Got
    <3>5. QED
      BY <2>2, <3>3, <3>4 DEF RunFanout
  <2>3. ASSUME NEW m \in Msg, SendBroadcast(m)
        PROVE  pc'[c] # "serving" \/ <<c, cur'>> \in skipped' \/ cur' \in Got(c)'
    BY <2>3 DEF SendBroadcast, hubVars, connVars, Registered, Got
  <2>4. ASSUME NEW m \in Msg, SendDirect(m)
        PROVE  pc'[c] # "serving" \/ <<c, cur'>> \in skipped' \/ cur' \in Got(c)'
    <3>1. UNCHANGED <<run, clients, fan, cur, skipped, pc, delivered>>
      BY <2>4 DEF SendDirect, hubVars
    <3>2. c \in Registered \ fan /\ c \in Conn
      BY <3>1 DEF Registered, TypeOK
    <3>3. \/ channel' = channel
          \/ target[m] \in Conn /\ channel' = [channel EXCEPT ![target[m]] = Append(@, m)]
      BY <2>4 DEF SendDirect, TypeOK
    <3>4. Got(c) \subseteq Got(c)'
      <4>1. CASE channel' = channel
        BY <3>1, <4>1 DEF Got
      <4>2. CASE channel' # channel
        BY <3>1, <3>2, <3>3, <4>2, SendAdds
      <4>3. QED
        BY <4>1, <4>2
    <3>5. QED
      BY <3>1, <3>2, <3>4
  <2>5. CASE RunTakesBroadcast
    BY <2>5 DEF RunTakesBroadcast, Registered
  <2>6. CASE /\ UNCHANGED <<channel, delivered, skipped>>
             /\ run = "fanout"
             /\ UNCHANGED <<clients, fan, cur>>
             /\ \A d \in Conn : pc'[d] = "serving" => pc[d] = "serving"
    <3>1. c \in Registered \ fan /\ c \in Conn
      BY <2>6 DEF Registered, TypeOK
    <3>2. QED
      BY <2>6, <3>1 DEF Got
  <2>7. QED
    BY <2>1, <2>2, <2>3, <2>4, <2>5, <2>6, NextCases
<1>4. Spec => []Accounted
  BY <1>2, <1>3, TypeCorrect, PTL DEF Spec
<1>5. QED
  BY <1>1, <1>4, TypeCorrect, PTL

\* A call that has looked its addressee up has found a connection that is past
\* registering, and what it sent there is there as long as that is served.
SentInv ==
  \A m \in Msg :
    /\ call[m] \in {"located", "direct", "sent"} =>
         pc[target[m]] \notin {"new", "registering"}
    /\ call[m] = "sent" => pc[target[m]] # "serving" \/ m \in Got(target[m])

LEMMA SentInvariant == Spec => []SentInv
<1> USE HubAssumption DEF SentInv
<1>1. Init => SentInv
  BY DEF Init
<1>2. TypeOK /\ TypeOK' /\ ChannelInv /\ SentInv /\ [Next]_vars => SentInv'
  <2> SUFFICES ASSUME TypeOK, TypeOK', ChannelInv, SentInv, [Next]_vars
               PROVE  SentInv'
    OBVIOUS
  <2>0. /\ \A m \in Msg : call[m] \in {"located", "direct", "sent"} => target[m] \in Conn
        /\ Registered \subseteq Conn
        /\ \A d \in Registered : pc[d] \notin {"new", "registering"}
    BY DEF TypeOK, ChannelInv, Unregistered, Registered
  <2>1. ASSUME NEW c \in Conn, Receive(c)
        PROVE  SentInv'
    <3>1. /\ UNCHANGED <<call, target>> /\ pc[c] = "serving"
          /\ \A d \in Conn : d # c => pc'[d] = pc[d]
          /\ pc'[c] \in {"serving", "leaving", "unwinding"}
      BY <2>1 DEF Receive, callVars, TypeOK
    <3>2. /\ pc'[c] = "serving" => Got(c)' = Got(c)
          /\ \A d \in Conn : d # c => Got(d)' = Got(d)
      BY <2>1, ReceiveMoves
    <3>3. QED
      BY <2>0, <3>1, <3>2
  <2>2. ASSUME NEW c \in Conn, RunFanout(c)
        PROVE  SentInv'
    <3>1. /\ UNCHANGED <<call, target, pc, delivered>> /\ cur \in Msg \cup {Nil}
          /\ channel' = channel \/ channel' = [channel EXCEPT ![c] = Append(@, cur)]
      BY <2>2 DEF RunFanout, callVars, TypeOK
    <3>2. \A d \in Conn : Got(d) \subseteq Got(d)'
      <4>1. CASE channel' = channel
        BY <3>1, <4>1 DEF Got
      <4>2. CASE channel' = [channel EXCEPT ![c] = Append(@, cur)]
        <5>1. /\ Got(c)' = Got(c) \cup {cur}
              /\ \A d \in Conn : d # c => Got(d)' = Got(d)
          BY <3>1, <4>2, SendAdds
        <5>2. QED
          BY <5>1
      <4>3. QED
        BY <3>1, <4>1, <4>2
    <3>3. QED
      BY <2>0, <3>1, <3>2
  <2>3. ASSUME NEW m \in Msg, SendBroadcast(m)
        PROVE  SentInv'
    <3>1. /\ UNCHANGED <<target, pc, delivered, channel>>
          /\ \A k \in Msg : call'[k] \in {"located", "direct", "sent"} => call'[k] = call[k]
      BY <2>3 DEF SendBroadcast, connVars, TypeOK
    <3>2. QED
      BY <2>0, <3>1 DEF Got
  <2>4. ASSUME NEW m \in Msg, SendDirect(m)
        PROVE  SentInv'
    <3>1. /\ UNCHANGED <<target, pc, delivered>> /\ call[m] = "direct"
          /\ target[m] \in Conn
          /\ \A k \in Msg : k # m => call'[k] = call[k]
      BY <2>4, <2>0 DEF SendDirect, TypeOK
    <3>2. CASE channel' = channel /\ call'[m] # "sent"
      BY <2>0, <3>1, <3>2 DEF Got
    <3>3. CASE channel' = [channel EXCEPT ![target[m]] = Append(@, m)]
      <4>0. PICK t \in Conn : t = target[m]
        BY <3>1
      <4>1. /\ Got(t)' = Got(t) \cup {m}
            /\ \A d \in Conn : d # t => Got(d)' = Got(d)
        BY <3>1, <3>3, <4>0, SendAdds
      <4>2. \A d \in Conn : Got(d) \subseteq Got(d)'
        BY <3>1, <4>1
      <4>3. m \in Got(target[m])'
        BY <3>1, <4>0, <4>1
      <4>4. QED
        BY <2>0, <3>1, <4>2, <4>3
    <3>4. QED
      BY <2>4, <3>1, <3>2, <3>3 DEF SendDirect, TypeOK
  <2>5. CASE RunTakesBroadcast
    BY <2>5 DEF RunTakesBroadcast, connVars, callVars, Got
  <2>6. CASE /\ UNCHANGED <<channel, delivered>>
             /\ \A m \in Msg : \/ call'[m] = call[m] /\ target'[m] = target[m]
                               \/ /\ call[m] = "idle"
                                  /\ call'[m] \in {"broadcasting", "notfound"}
                               \/ /\ call[m] = "idle" /\ call'[m] = "located"
                                  /\ target'[m] \in Registered
                               \/ /\ call[m] = "located" /\ call'[m] = "direct"
                                  /\ target'[m] = target[m]
             /\ \A d \in Conn :
                  /\ pc'[d] = "serving" => pc[d] \in {"serving", "registering"}
                  /\ pc'[d] \in {"new", "registering"} => pc[d] \in {"new", "registering"}
    BY <2>0, <2>6 DEF Got
  <2>7. QED
    BY <2>1, <2>2, <2>3, <2>4, <2>5, <2>6, NextCases
<1>3. QED
  BY <1>1, <1>2, TypeCorrect, ChannelInvariant, PTL DEF Spec

\* A message that SendToClient reports as sent is with its addressee, unless
\* that connection has ended.
THEOREM SentStays == Spec => []SentIsNotLost
<1>1. TypeOK /\ SentInv => SentIsNotLost
  <2> SUFFICES ASSUME TypeOK, SentInv, NEW m \in Msg, call[m] = "sent"
               PROVE  \/ pc[target[m]] # "serving"
                      \/ m \in Range(delivered[target[m]] \o channel[target[m]])
    BY DEF SentIsNotLost
  <2>1. target[m] \in Conn
    BY DEF TypeOK
  <2>2. QED
    BY <2>1, GotIsConcat DEF SentInv
<1>2. QED
  BY <1>1, TypeCorrect, SentInvariant, PTL

(***************************************************************************)
(* Broadcasts arrive in order.                                             *)
(***************************************************************************)
\* The pairs of messages that may follow each other: not both were accepted, or
\* the first was accepted first.
Precedes ==
  {p \in (Msg \cup {Nil}) \X (Msg \cup {Nil}) :
     \A k, l \in DOMAIN accepted : p[1] = accepted[k] /\ p[2] = accepted[l] => k < l}

\* How many messages Run has taken from hub.broadcast.
Taken == Len(accepted) - Len(broadcast)

\* hub.broadcast holds the end of what it accepted, each message once.  A
\* connection has got only what was sent, and of what was accepted only what
\* Run has taken; during a fan-out, one that is still to be visited has not got
\* the last one taken.  What a connection has got is in order.
OrderInv ==
  /\ \A k \in DOMAIN accepted : call[accepted[k]] = "accepted"
  /\ \A k, l \in DOMAIN accepted : accepted[k] = accepted[l] => k = l
  /\ Len(broadcast) <= Len(accepted)
  /\ \A j \in 1 .. Len(broadcast) : broadcast[j] = accepted[Taken + j]
  /\ \A c \in Conn : \A x \in Got(c) :
       /\ x # Nil => call[x] \in {"accepted", "sent"}
       /\ \A k \in DOMAIN accepted : accepted[k] = x => k <= Taken
  /\ run = "fanout" /\ cur # Nil =>
       /\ Taken >= 1 /\ cur = accepted[Taken]
       /\ \A c \in fan : \A x \in Got(c) :
            \A k \in DOMAIN accepted : accepted[k] = x => k < Taken
  /\ \A c \in Conn :
       /\ Sorted(delivered[c], Precedes) /\ Sorted(channel[c], Precedes)
       /\ \A x \in Range(delivered[c]), y \in Range(channel[c]) : <<x, y>> \in Precedes

\* Only messages, and nil, are ever got.
LEMMA GotTyped ==
  ASSUME TypeOK
  PROVE  /\ \A c \in Conn : /\ Range(delivered[c]) \subseteq Msg
                           /\ Range(channel[c]) \subseteq Msg \cup {Nil}
                           /\ Got(c) \subseteq Msg \cup {Nil}
         /\ \A k \in DOMAIN accepted : accepted[k] \in Msg
         /\ DOMAIN accepted = 1 .. Len(accepted)
         /\ Len(accepted) \in Nat /\ Len(broadcast) \in Nat
<1>1. \A c \in Conn : delivered[c] \in Seq(Msg) /\ channel[c] \in Seq(Msg \cup {Nil})
  BY DEF TypeOK
<1>2. \A c \in Conn : Range(delivered[c]) \subseteq Msg
                     /\ Range(channel[c]) \subseteq Msg \cup {Nil}
  BY <1>1, LenProperties, ElementOfSeq DEF Range
<1>3. /\ \A k \in DOMAIN accepted : accepted[k] \in Msg
      /\ DOMAIN accepted = 1 .. Len(accepted)
      /\ Len(accepted) \in Nat /\ Len(broadcast) \in Nat
  BY LenProperties, ElementOfSeq DEF TypeOK
<1>4. QED
  BY <1>2, <1>3 DEF Got

\* A step that sends, accepts and receives nothing keeps the order.
LEMMA SameOrder ==
  ASSUME TypeOK, TypeOK', OrderInv,
         UNCHANGED <<accepted, broadcast, channel, delivered>>,
         \A m \in Msg : call[m] \in {"accepted", "sent"} => call'[m] = call[m],
         run' = "fanout" => run = "fanout" /\ cur' = cur /\ fan' \subseteq fan
  PROVE  OrderInv'
<1>1. /\ \A c \in Conn : Got(c)' = Got(c)
      /\ Precedes' = Precedes /\ Taken' = Taken
  BY DEF Got, Precedes, Taken
<1>2. fan \subseteq Conn /\ fan' \subseteq Conn
  BY DEF TypeOK
<1>3. QED
  BY <1>1, <1>2, GotTyped DEF OrderInv

\* Nor does receiving change it: what is written comes before what waits.
LEMMA ReceiveInOrder ==
  ASSUME TypeOK, TypeOK', OrderInv, NEW c \in Conn, Receive(c)
  PROVE  OrderInv'
<1>1. UNCHANGED <<accepted, broadcast, call, run, cur, fan>>
  BY DEF Receive, hubVars, callVars
<1>2. Precedes' = Precedes /\ Taken' = Taken
  BY <1>1 DEF Precedes, Taken
<1>3. \A d \in Conn : Got(d)' \subseteq Got(d)
  BY ReceiveMoves
<1>4. ASSUME NEW d \in Conn
      PROVE  /\ Sorted(delivered'[d], Precedes) /\ Sorted(channel'[d], Precedes)
             /\ \A x \in Range(delivered'[d]), y \in Range(channel'[d]) :
                  <<x, y>> \in Precedes
  <2>0. /\ delivered[d] \in Seq(Msg) /\ channel[d] \in Seq(Msg \cup {Nil})
        /\ Sorted(delivered[d], Precedes) /\ Sorted(channel[d], Precedes)
        /\ \A x \in Range(delivered[d]), y \in Range(channel[d]) : <<x, y>> \in Precedes
    BY DEF TypeOK, OrderInv
  <2>1. CASE delivered'[d] = delivered[d] /\ channel'[d] = channel[d]
    BY <2>0, <2>1
  <2>2. CASE /\ channel[d] # << >> /\ channel'[d] = Tail(channel[d])
             /\ \/ delivered'[d] = delivered[d]
                \/ /\ Head(channel[d]) \in Msg
                   /\ delivered'[d] = Append(delivered[d], Head(channel[d]))
    <3> DEFINE h == Head(channel[d])
    <3>1. /\ Sorted(channel'[d], Precedes)
          /\ \A y \in Range(channel'[d]) : <<h, y>> \in Precedes
          /\ Range(channel[d]) = {h} \cup Range(channel'[d])
      BY <2>0, <2>2, SortedTail, RangeHeadTail
    <3>2. CASE delivered'[d] = delivered[d]
      BY <2>0, <3>1, <3>2
    <3>3. CASE h \in Msg /\ delivered'[d] = Append(delivered[d], h)
      <4>1. Range(delivered'[d]) = Range(delivered[d]) \cup {h}
        BY <2>0, <3>3, RangeAppend
      <4>2. Sorted(delivered'[d], Precedes)
        BY <2>0, <3>1, <3>3, SortedAppend
      <4>3. QED
        BY <2>0, <3>1, <4>1, <4>2
    <3>4. QED
      BY <2>2, <3>2, <3>3
  <2>3. QED
    BY <2>1, <2>2, ReceiveMoves
<1>5. fan \subseteq Conn
  BY DEF TypeOK
<1> HIDE DEF TypeOK
<1>6. QED
  BY <1>1, <1>2, <1>3, <1>4, <1>5 DEF OrderInv

\* A message may be put into a channel when all that its connection has got may
\* precede it.
LEMMA SendInOrder ==
  ASSUME TypeOK, TypeOK', OrderInv, NEW c \in Conn, NEW e \in Msg \cup {Nil},
         channel' = [channel EXCEPT ![c] = Append(@, e)],
         UNCHANGED <<accepted, broadcast, delivered>>,
         \A x \in Got(c) : <<x, e>> \in Precedes
  PROVE  \A d \in Conn :
           /\ Sorted(delivered'[d], Precedes') /\ Sorted(channel'[d], Precedes')
           /\ \A x \in Range(delivered'[d]), y \in Range(channel'[d]) :
                <<x, y>> \in Precedes'
<1> SUFFICES ASSUME NEW d \in Conn
             PROVE  /\ Sorted(delivered'[d], Precedes') /\ Sorted(channel'[d], Precedes')
                    /\ \A x \in Range(delivered'[d]), y \in Range(channel'[d]) :
                         <<x, y>> \in Precedes'
  OBVIOUS
<1>0. /\ channel[d] \in Seq(Msg \cup {Nil})
      /\ Sorted(delivered[d], Precedes) /\ Sorted(channel[d], Precedes)
      /\ \A x \in Range(delivered[d]), y \in Range(channel[d]) : <<x, y>> \in Precedes
  BY DEF TypeOK, OrderInv
<1>1. Precedes' = Precedes
  BY DEF Precedes
<1>2. CASE d # c
  BY <1>0, <1>1, <1>2 DEF TypeOK
<1>3. CASE d = c
  <2>1. channel'[d] = Append(channel[d], e)
    BY <1>3, SendAdds
  <2>2. /\ Sorted(channel'[d], Precedes)
        /\ Range(channel'[d]) = Range(channel[d]) \cup {e}
    BY <1>0, <1>3, <2>1, SortedAppend, RangeAppend DEF Got
  <2>3. QED
    BY <1>0, <1>1, <1>3, <2>2 DEF Got
<1>4. QED
  BY <1>2, <1>3

\* The fan-out sends the last message taken to those who have not got it.
LEMMA FanoutInOrder ==
  ASSUME TypeOK, TypeOK', OrderInv, NEW c \in Conn, RunFanout(c)
  PROVE  OrderInv'
<1>1. /\ UNCHANGED <<accepted, broadcast, call, cur, delivered>> /\ run = "fanout"
      /\ fan' = fan \ {c} /\ c \in fan /\ cur \in Msg \cup {Nil} /\ fan \subseteq Conn
      /\ run' \in {"fanout", "crashed"}
  BY DEF RunFanout, TypeOK, callVars
<1>2. CASE channel' = channel
  BY <1>1, <1>2, SameOrder
<1>3. CASE channel' = [channel EXCEPT ![c] = Append(@, cur)]
  <2>1. /\ Got(c)' = Got(c) \cup {cur}
        /\ \A d \in Conn : d # c => Got(d)' = Got(d)
    BY <1>1, <1>3, SendAdds
  <2>2. \A x \in Got(c) : <<x, cur>> \in Precedes
    <3>1. CASE cur = Nil
      BY <1>1, <3>1, GotTyped, HubAssumption DEF Precedes
    <3>2. CASE cur # Nil
      <4>1. /\ cur = accepted[Taken] /\ Taken >= 1
            /\ \A x \in Got(c), k \in DOMAIN accepted : accepted[k] = x => k < Taken
            /\ \A k, l \in DOMAIN accepted : accepted[k] = accepted[l] => k = l
            /\ Len(broadcast) <= Len(accepted)
        BY <1>1, <3>2 DEF OrderInv
      <4>2. Taken \in DOMAIN accepted
        BY <4>1, GotTyped DEF Taken
      <4>3. QED
        BY <1>1, <4>1, <4>2, GotTyped DEF Precedes
    <3>3. QED
      BY <3>1, <3>2
  <2>3. \A d \in Conn :
           /\ Sorted(delivered'[d], Precedes') /\ Sorted(channel'[d], Precedes')
           /\ \A x \in Range(delivered'[d]), y \in Range(channel'[d]) :
                <<x, y>> \in Precedes'
    <3>1. PICK e \in Msg \cup {Nil} : e = cur
      BY <1>1
    <3>2. channel' = [channel EXCEPT ![c] = Append(@, e)]
      BY <1>3, <3>1
    <3>3. \A x \in Got(c) : <<x, e>> \in Precedes
      BY <2>2, <3>1
    <3>4. QED
      BY <1>1, <3>2, <3>3, SendInOrder
  <2>4. Taken' = Taken
    BY <1>1 DEF Taken
  <2>5. cur # Nil => /\ cur = accepted[Taken] /\ Taken \in DOMAIN accepted
                     /\ call[cur] = "accepted"
    <3> SUFFICES ASSUME cur # Nil
                 PROVE  /\ cur = accepted[Taken] /\ Taken \in DOMAIN accepted
                        /\ call[cur] = "accepted"
      OBVIOUS
    <3>1. cur = accepted[Taken] /\ Taken >= 1 /\ Len(broadcast) <= Len(accepted)
      BY <1>1 DEF OrderInv
    <3>2. Taken \in DOMAIN accepted
      BY <3>1, GotTyped DEF Taken
    <3>3. QED
      BY <3>1, <3>2 DEF OrderInv
  <2>6. \A d \in Conn : \A x \in Got(d)' :
          /\ x # Nil => call'[x] \in {"accepted", "sent"}
          /\ \A k \in DOMAIN accepted : accepted[k] = x => k <= Taken
    <3>1. Taken \in Int
      BY GotTyped DEF Taken
    <3>2. \A k \in DOMAIN accepted : accepted[k] = cur => k <= Taken
      BY <1>1, <2>5, <3>1, GotTyped, HubAssumption DEF OrderInv
    <3>3. QED
      BY <1>1, <2>1, <2>5, <3>2 DEF OrderInv
  <2>7. run' = "fanout" /\ cur # Nil =>
          \A d \in fan' : \A x \in Got(d)' :
            \A k \in DOMAIN accepted : accepted[k] = x => k < Taken
    BY <1>1, <2>1 DEF OrderInv
  <2>8. QED
    BY <1>1, <2>3, <2>4, <2>6, <2>7 DEF OrderInv
<1>4. QED
  BY <1>2, <1>3 DEF RunFanout

\* Run takes the oldest message, which nobody has got.
LEMMA TakeInOrder ==
  ASSUME TypeOK, TypeOK', OrderInv, RunTakesBroadcast
  PROVE  OrderInv'
<1>1. /\ UNCHANGED <<accepted, call, channel, delivered>>
      /\ \A c \in Conn : Got(c)' = Got(c)
      /\ Precedes' = Precedes
  BY DEF RunTakesBroadcast, connVars, callVars, Got, Precedes
<1>2. CASE cur' = Nil /\ broadcast' = broadcast
  BY <1>1, <1>2 DEF OrderInv, Taken
<1>3. CASE broadcast # << >> /\ cur' = Head(broadcast) /\ broadcast' = Tail(broadcast)
  <2>1. /\ Len(broadcast') = Len(broadcast) - 1 /\ Len(broadcast) >= 1
        /\ cur' = broadcast[1]
        /\ \A j \in 1 .. Len(broadcast') : broadcast'[j] = broadcast[j + 1]
        /\ Len(broadcast) \in Nat /\ Len(accepted) \in Nat
    BY <1>3, HeadTailProperties, LenProperties, EmptySeq DEF TypeOK
  <2>2. Taken' = Taken + 1 /\ Taken \in Nat
    BY <1>1, <2>1 DEF Taken, OrderInv
  <2>3. cur' = accepted[Taken'] /\ Len(broadcast') <= Len(accepted)
    BY <2>1, <2>2 DEF OrderInv
  <2>4. ASSUME NEW j \in 1 .. Len(broadcast')
        PROVE  broadcast'[j] = accepted[Taken' + j]
    <3>1. j + 1 \in 1 .. Len(broadcast) /\ Taken' + j = Taken + (j + 1)
      BY <2>1, <2>2
    <3>2. QED
      BY <2>1, <3>1 DEF OrderInv
  <2>5. \A c \in Conn : \A x \in Got(c), k \in DOMAIN accepted :
          accepted[k] = x => k <= Taken' /\ k < Taken'
    BY <2>2, GotTyped DEF OrderInv
  <2>6. fan' \subseteq Conn /\ Taken' >= 1
    BY <2>2 DEF TypeOK
  <2>7. /\ \A k \in DOMAIN accepted' : call'[accepted'[k]] = "accepted"
        /\ \A k, l \in DOMAIN accepted' : accepted'[k] = accepted'[l] => k = l
    BY <1>1 DEF OrderInv
  <2>8. \A c \in Conn : \A x \in Got(c)' :
          /\ x # Nil => call'[x] \in {"accepted", "sent"}
          /\ \A k \in DOMAIN accepted' : accepted'[k] = x => k <= Taken'
    BY <1>1, <2>5 DEF OrderInv
  <2>9. run' = "fanout" /\ cur' # Nil =>
          /\ Taken' >= 1 /\ cur' = accepted'[Taken']
          /\ \A c \in fan' : \A x \in Got(c)' :
               \A k \in DOMAIN accepted' : accepted'[k] = x => k < Taken'
    BY <1>1, <2>3, <2>5, <2>6
  <2>10. \A c \in Conn :
           /\ Sorted(delivered'[c], Precedes') /\ Sorted(channel'[c], Precedes')
           /\ \A x \in Range(delivered'[c]), y \in Range(channel'[c]) :
                <<x, y>> \in Precedes'
    BY <1>1 DEF OrderInv
  <2>11. Len(broadcast') <= Len(accepted')
    BY <1>1, <2>3
  <2>12. \A j \in 1 .. Len(broadcast') : broadcast'[j] = accepted'[Taken' + j]
    BY <1>1, <2>4
  <2>13. QED
    BY <2>7, <2>8, <2>9, <2>10, <2>11, <2>12 DEF OrderInv
<1>4. QED
  BY <1>2, <1>3 DEF RunTakesBroadcast

\* A message is accepted before anybody has got it.
LEMMA AcceptInOrder ==
  ASSUME TypeOK, TypeOK', OrderInv, NEW m \in Msg, SendBroadcast(m)
  PROVE  OrderInv'
<1>1. /\ UNCHANGED <<channel, delivered, run, cur, fan>>
      /\ \A c \in Conn : Got(c)' = Got(c)
      /\ call[m] = "broadcasting"
      /\ \A k \in Msg : k # m => call'[k] = call[k]
  BY DEF SendBroadcast, connVars, hubVars, Got, TypeOK
<1>2. CASE UNCHANGED <<broadcast, accepted>>
  BY <1>1, <1>2, SameOrder
<1>3. CASE /\ broadcast' = Append(broadcast, m) /\ accepted' = Append(accepted, m)
           /\ call'[m] = "accepted"
  <2> DEFINE L == Len(accepted)
             B == Len(broadcast)
  <2>1. /\ Len(accepted') = L + 1 /\ Len(broadcast') = B + 1
        /\ \A k \in 1 .. L : accepted'[k] = accepted[k]
        /\ \A k \in 1 .. B : broadcast'[k] = broadcast[k]
        /\ accepted'[L + 1] = m /\ broadcast'[B + 1] = m
        /\ L \in Nat /\ B \in Nat /\ B <= L
    BY <1>3, AppendProperties, LenProperties DEF TypeOK, OrderInv
  <2>2. DOMAIN accepted = 1 .. L /\ DOMAIN accepted' = 1 .. (L + 1)
    BY <2>1, LenProperties DEF TypeOK
  <2>3. Taken' = Taken /\ Taken = L - B /\ Taken \in Nat
    BY <2>1 DEF Taken
  <2> HIDE DEF L, B
  <2>4. ASSUME NEW k \in DOMAIN accepted'
        PROVE  k \in DOMAIN accepted \/ (k = L + 1 /\ accepted'[k] = m)
    BY <2>1, <2>2
  <2>5. \A k \in DOMAIN accepted : accepted[k] # m /\ accepted[k] \in Msg
    BY <1>1, GotTyped DEF OrderInv
  <2>6. \A c \in Conn : m \notin Got(c)
    BY <1>1, HubAssumption DEF OrderInv
  <2>7. \A p \in Precedes : p[1] # m => p \in Precedes'
    <3> SUFFICES ASSUME NEW p \in (Msg \cup {Nil}) \X (Msg \cup {Nil}), p \in Precedes, p[1] # m,
                        NEW k \in DOMAIN accepted', NEW l \in DOMAIN accepted',
                        p[1] = accepted'[k], p[2] = accepted'[l]
                 PROVE  k < l
      BY DEF Precedes
    <3>1. k \in DOMAIN accepted
      BY <2>4
    <3>2. CASE l \in DOMAIN accepted
      BY <2>1, <2>2, <3>1, <3>2 DEF Precedes
    <3>3. CASE l = L + 1
      BY <2>1, <2>2, <3>1, <3>3
    <3>4. QED
      BY <2>4, <3>2, <3>3
  <2>8. /\ \A k \in DOMAIN accepted' : call'[accepted'[k]] = "accepted"
        /\ \A k, l \in DOMAIN accepted' : accepted'[k] = accepted'[l] => k = l
    <3>1. ASSUME NEW k \in DOMAIN accepted'
          PROVE  call'[accepted'[k]] = "accepted"
      BY <1>1, <1>3, <2>1, <2>2, <2>4, <2>5 DEF OrderInv
    <3>2. ASSUME NEW k \in DOMAIN accepted', NEW l \in DOMAIN accepted',
                 accepted'[k] = accepted'[l]
          PROVE  k = l
      BY <2>1, <2>2, <2>4, <2>5, <3>2 DEF OrderInv
    <3>3. QED
      BY <3>1, <3>2
  <2>9. /\ Len(broadcast') <= Len(accepted')
        /\ \A j \in 1 .. Len(broadcast') : broadcast'[j] = accepted'[Taken' + j]
    <3>1. Len(broadcast') <= Len(accepted')
      BY <2>1
    <3>2. ASSUME NEW j \in 1 .. B
          PROVE  broadcast'[j] = accepted'[Taken' + j]
      <4>1. Taken + j \in 1 .. L
        BY <2>1, <2>3
      <4>2. broadcast[j] = accepted[Taken + j]
        BY DEF OrderInv, B
      <4>3. QED
        BY <2>1, <2>3, <4>1, <4>2
    <3>3. broadcast'[B + 1] = accepted'[Taken' + (B + 1)]
      BY <2>1, <2>3
    <3>4. \A j \in 1 .. Len(broadcast') : j \in 1 .. B \/ j = B + 1
      BY <2>1
    <3>5. QED
      BY <3>1, <3>2, <3>3, <3>4
  <2>10. \A c \in Conn : \A x \in Got(c)' :
           /\ x # Nil => call'[x] \in {"accepted", "sent"}
           /\ \A k \in DOMAIN accepted' : accepted'[k] = x => k \in DOMAIN accepted /\ accepted[k] = x
    <3> SUFFICES ASSUME NEW c \in Conn, NEW x \in Got(c)
                 PROVE  /\ x # Nil => call'[x] \in {"accepted", "sent"}
                        /\ \A k \in DOMAIN accepted' :
                             accepted'[k] = x => k \in DOMAIN accepted /\ accepted[k] = x
      BY <1>1
    <3>1. x # m /\ x \in Msg \cup {Nil}
      BY <2>6, GotTyped
    <3>2. x # Nil => call'[x] \in {"accepted", "sent"}
      BY <1>1, <3>1 DEF OrderInv
    <3>3. QED
      BY <2>1, <2>2, <2>4, <3>1, <3>2
  <2>11. run' = "fanout" /\ cur' # Nil =>
           /\ Taken' >= 1 /\ cur' = accepted'[Taken']
           /\ \A c \in fan' : \A x \in Got(c)' :
                \A k \in DOMAIN accepted' : accepted'[k] = x => k < Taken'
    <3> SUFFICES ASSUME run = "fanout", cur # Nil
                 PROVE  /\ Taken' >= 1 /\ cur' = accepted'[Taken']
                        /\ \A c \in fan' : \A x \in Got(c)' :
                             \A k \in DOMAIN accepted' : accepted'[k] = x => k < Taken'
      BY <1>1
    <3>1. Taken >= 1 /\ cur = accepted[Taken]
      BY DEF OrderInv
    <3>2. Taken \in 1 .. L
      BY <2>1, <2>3, <3>1
    <3>3. cur' = accepted'[Taken']
      BY <1>1, <2>1, <2>3, <3>1, <3>2
    <3>4. fan' = fan /\ fan \subseteq Conn
      BY <1>1 DEF TypeOK
    <3>5. \A c \in fan : \A x \in Got(c), k \in DOMAIN accepted : accepted[k] = x => k < Taken
      BY DEF OrderInv
    <3>6. QED
      BY <1>1, <2>3, <2>10, <3>1, <3>3, <3>4, <3>5
  <2>12. ASSUME NEW c \in Conn
         PROVE  /\ Sorted(delivered'[c], Precedes') /\ Sorted(channel'[c], Precedes')
                /\ \A x \in Range(delivered'[c]), y \in Range(channel'[c]) :
                     <<x, y>> \in Precedes'
    <3>1. /\ Sorted(delivered[c], Precedes) /\ Sorted(channel[c], Precedes)
          /\ \A x \in Range(delivered[c]), y \in Range(channel[c]) : <<x, y>> \in Precedes
      BY DEF OrderInv
    <3>2. /\ \A i \in DOMAIN delivered[c] : delivered[c][i] # m
          /\ \A i \in DOMAIN channel[c] : channel[c][i] # m
      BY <2>6 DEF Got, Range
    <3>3. Sorted(delivered[c], Precedes') /\ Sorted(channel[c], Precedes')
      BY <2>7, <3>1, <3>2 DEF Sorted
    <3>4. \A x \in Range(delivered[c]), y \in Range(channel[c]) : <<x, y>> \in Precedes'
      BY <2>6, <2>7, <3>1 DEF Got
    <3>5. QED
      BY <1>1, <3>3, <3>4
  <2>13. \A c \in Conn : \A x \in Got(c)' :
           /\ x # Nil => call'[x] \in {"accepted", "sent"}
           /\ \A k \in DOMAIN accepted' : accepted'[k] = x => k <= Taken'
    BY <1>1, <2>3, <2>10 DEF OrderInv
  <2>14. QED
    BY <2>8, <2>9, <2>11, <2>12, <2>13 DEF OrderInv
<1>4. QED
  BY <1>2, <1>3 DEF SendBroadcast, TypeOK

\* What SendToClient sends was never accepted, so it may come anywhere.
LEMMA DirectInOrder ==
  ASSUME TypeOK, TypeOK', OrderInv, NEW m \in Msg, SendDirect(m)
  PROVE  OrderInv'
<1>1. /\ UNCHANGED <<accepted, broadcast, delivered, run, cur, fan>>
      /\ call[m] = "direct" /\ target[m] \in Conn
      /\ \A k \in Msg : k # m => call'[k] = call[k]
      /\ Precedes' = Precedes /\ Taken' = Taken
  BY DEF SendDirect, hubVars, TypeOK, Precedes, Taken
<1>2. CASE channel' = channel
  BY <1>1, <1>2, SameOrder
<1>3. CASE channel' = [channel EXCEPT ![target[m]] = Append(@, m)] /\ call'[m] = "sent"
  <2>1. PICK t \in Conn : t = target[m]
    BY <1>1
  <2>2. channel' = [channel EXCEPT ![t] = Append(@, m)]
    BY <1>3, <2>1
  <2>3. /\ Got(t)' = Got(t) \cup {m}
        /\ \A d \in Conn : d # t => Got(d)' = Got(d)
    BY <1>1, <2>2, SendAdds
  <2>4. \A k \in DOMAIN accepted : accepted[k] # m
    BY <1>1 DEF OrderInv
  <2>5. \A x \in Got(t) : <<x, m>> \in Precedes
    BY <2>4, GotTyped DEF Precedes
  <2>6. \A d \in Conn :
           /\ Sorted(delivered'[d], Precedes') /\ Sorted(channel'[d], Precedes')
           /\ \A x \in Range(delivered'[d]), y \in Range(channel'[d]) :
                <<x, y>> \in Precedes'
    BY <1>1, <2>2, <2>5, SendInOrder
  <2>7. \A d \in Conn : \A x \in Got(d)' :
          /\ x # Nil => call'[x] \in {"accepted", "sent"}
          /\ \A k \in DOMAIN accepted : accepted[k] = x => k <= Taken
    <3> SUFFICES ASSUME NEW d \in Conn, NEW x \in Got(d)'
                 PROVE  /\ x # Nil => call'[x] \in {"accepted", "sent"}
                        /\ \A k \in DOMAIN accepted : accepted[k] = x => k <= Taken
      OBVIOUS
    <3>1. CASE x = m
      BY <1>3, <2>4, <3>1
    <3>2. CASE x # m
      <4>1. x \in Got(d) /\ x \in Msg \cup {Nil}
        BY <2>3, <3>2, GotTyped
      <4>2. QED
        BY <1>1, <3>2, <4>1 DEF OrderInv
    <3>3. QED
      BY <3>1, <3>2
  <2>8. run = "fanout" /\ cur # Nil =>
          \A d \in fan : \A x \in Got(d)' :
            \A k \in DOMAIN accepted : accepted[k] = x => k < Taken
    <3>1. fan \subseteq Conn
      BY DEF TypeOK
    <3>2. QED
      BY <2>3, <2>4, <3>1 DEF OrderInv
  <2>9. \A k \in DOMAIN accepted : call'[accepted[k]] = "accepted"
    BY <1>1, <2>4, GotTyped DEF OrderInv
  <2>10. QED
    BY <1>1, <2>6, <2>7, <2>8, <2>9 DEF OrderInv
<1>4. QED
  BY <1>2, <1>3 DEF SendDirect, TypeOK

LEMMA OrderInvariant == Spec => []OrderInv
<1>1. Init => OrderInv
  <2> SUFFICES ASSUME Init
               PROVE  OrderInv
    OBVIOUS
  <2>1. /\ accepted = << >> /\ broadcast = << >> /\ run # "fanout"
        /\ \A c \in Conn : delivered[c] = << >> /\ channel[c] = << >>
    BY DEF Init
  <2>2. \A c \in Conn : Got(c) = {}
    BY <2>1 DEF Got, Range
  <2>3. QED
    BY <2>1, <2>2 DEF OrderInv, Sorted, Range
<1>2. TypeOK /\ TypeOK' /\ OrderInv /\ [Next]_vars => OrderInv'
  <2> SUFFICES ASSUME TypeOK, TypeOK', OrderInv, [Next]_vars
               PROVE  OrderInv'
    OBVIOUS
  <2>1. CASE /\ UNCHANGED <<channel, delivered, broadcast, accepted>>
             /\ \A m \in Msg : \/ call'[m] = call[m]
                               \/ call[m] \in {"idle", "located"}
             /\ run' = "fanout" => run = "fanout" /\ UNCHANGED <<fan, cur>>
    BY <2>1, SameOrder
  <2>2. QED
    BY <2>1, NextCases, ReceiveInOrder, FanoutInOrder, AcceptInOrder, DirectInOrder,
       TakeInOrder
<1>3. QED
  BY <1>1, <1>2, TypeCorrect, PTL DEF Spec

\* Broadcasts arrive in the order hub.broadcast took them, none twice, whatever
\* comes between.
THEOREM OrderIsKept == Spec => []BroadcastsInOrder
<1>1. TypeOK /\ OrderInv => BroadcastsInOrder
  <2> SUFFICES ASSUME TypeOK, OrderInv, NEW c \in Conn
               PROVE  LET got == delivered[c] \o channel[c]
                      IN  \A i, j \in DOMAIN got, k, l \in DOMAIN accepted :
                            i < j /\ got[i] = accepted[k] /\ got[j] = accepted[l] => k < l
    BY DEF BroadcastsInOrder
  <2>1. delivered[c] \in Seq(Msg \cup {Nil}) /\ channel[c] \in Seq(Msg \cup {Nil})
    BY SeqMonotonic DEF TypeOK
  <2>2. Sorted(delivered[c] \o channel[c], Precedes)
    BY <2>1, SortedConcat DEF OrderInv
  <2> DEFINE got == delivered[c] \o channel[c]
  <2>3. SUFFICES ASSUME NEW i \in DOMAIN got, NEW j \in DOMAIN got,
                        NEW k \in DOMAIN accepted, NEW l \in DOMAIN accepted,
                        i < j, got[i] = accepted[k], got[j] = accepted[l]
                 PROVE  k < l
    OBVIOUS
  <2>4. <<got[i], got[j]>> \in Precedes
    BY <2>2, <2>3 DEF Sorted
  <2> HIDE DEF got
  <2>5. QED
    BY <2>3, <2>4 DEF Precedes
<1>2. QED
  BY <1>1, TypeCorrect, OrderInvariant, PTL

(***************************************************************************)
(* What was delivered can be replayed.                                     *)
(***************************************************************************)
\* The buffer never exceeds its size; a call that is past buffering finds its
\* message there, or the buffer full.
BufferInv ==
  /\ IsFiniteSet(DOMAIN messages) /\ Cardinality(DOMAIN messages) <= MaxSize
  /\ DOMAIN messages \subseteq Identified
  /\ \A m \in Identified :
       call[m] \notin {"idle", "located", "notfound"} =>
         m \in DOMAIN messages \/ Cardinality(DOMAIN messages) = MaxSize

\* The buffer counts its messages as the hub does.
LEMMA BufferCounts == \A S : Buffer!Cardinality(S) = Cardinality(S)
  BY DEF Buffer!Cardinality, Cardinality, Buffer!IsFiniteSet, IsFiniteSet

\* AddMessage evicts only to make room: the buffer keeps all it had besides
\* the new message, or is full.
LEMMA StoreKeeps ==
  ASSUME BufferInv, NEW m \in Identified, Buffer!Store(m)
  PROVE  /\ IsFiniteSet(DOMAIN messages') /\ Cardinality(DOMAIN messages') <= MaxSize
         /\ DOMAIN messages' \subseteq Identified
         /\ \/ Cardinality(DOMAIN messages') = MaxSize
            \/ DOMAIN messages' = DOMAIN messages \cup {m}
         /\ Cardinality(DOMAIN messages) = MaxSize =>
              Cardinality(DOMAIN messages') = MaxSize
<1> DEFINE held == DOMAIN messages
           all == held \cup {m}
<1>1. /\ IsFiniteSet(held) /\ Cardinality(held) <= MaxSize /\ held \subseteq Identified
      /\ Cardinality(held) \in Nat /\ MaxSize \in Nat
      /\ m # Nil
  BY FS_CardinalityType, HubAssumption DEF BufferInv
<1>2. /\ IsFiniteSet(all) /\ Cardinality(all) \in Nat
      /\ Cardinality(all) = IF m \in held THEN Cardinality(held) ELSE Cardinality(held) + 1
  BY <1>1, FS_AddElement, FS_CardinalityType
<1>3. \/ Cardinality(all) <= MaxSize /\ DOMAIN messages' = all
      \/ /\ Cardinality(all) > MaxSize
         /\ \E k \in all : DOMAIN messages' = all \ ({k} \ {Nil})
  <2>1. PICK now \in clock .. MaxClock :
          LET stored == [k \in held \cup {m} |-> IF k = m THEN now ELSE messages[k]]
          IN  IF Cardinality(DOMAIN stored) > MaxSize
                THEN messages' \in Buffer!EvictOldest(stored)
                ELSE messages' = stored
    BY BufferCounts DEF Buffer!Store, Buffer!Held
  <2> DEFINE stored == [k \in held \cup {m} |-> IF k = m THEN now ELSE messages[k]]
  <2>2. DOMAIN stored = all
    OBVIOUS
  <2>3. IF Cardinality(all) > MaxSize THEN messages' \in Buffer!EvictOldest(stored)
                                      ELSE messages' = stored
    BY <2>1, <2>2
  <2> HIDE DEF stored, all
  <2>4. CASE Cardinality(all) > MaxSize
    <3>1. PICK k \in all : messages' = Buffer!Without(stored, {k} \ {Nil})
      BY <2>2, <2>3, <2>4 DEF Buffer!EvictOldest, Buffer!Oldest
    <3>2. DOMAIN messages' = all \ ({k} \ {Nil})
      BY <2>2, <3>1 DEF Buffer!Without
    <3>3. QED
      BY <2>4, <3>2
  <2>5. CASE ~ (Cardinality(all) > MaxSize)
    <3>1. messages' = stored /\ Cardinality(all) <= MaxSize
      BY <1>1, <1>2, <2>3, <2>5
    <3>2. QED
      BY <2>2, <3>1
  <2>6. QED
    BY <1>1, <1>2, <2>4, <2>5
<1> HIDE DEF all
<1>4. CASE Cardinality(all) <= MaxSize /\ DOMAIN messages' = all
  BY <1>1, <1>2, <1>4 DEF all
<1>5. CASE /\ Cardinality(all) > MaxSize
           /\ \E k \in all : DOMAIN messages' = all \ ({k} \ {Nil})
  <2>1. PICK k \in all : DOMAIN messages' = all \ ({k} \ {Nil})
    BY <1>5
  <2>2. k # Nil /\ all \subseteq Identified
    BY <1>1, HubAssumption DEF all
  <2>3. DOMAIN messages' = all \ {k}
    BY <2>1, <2>2
  <2>4. Cardinality(all) = MaxSize + 1
    BY <1>1, <1>2, <1>5
  <2>5. IsFiniteSet(all \ {k}) /\ Cardinality(all \ {k}) = MaxSize
    <3>1. /\ IsFiniteSet(all \ {k})
          /\ Cardinality(all \ {k}) = Cardinality(all) - 1
      BY <1>2, FS_RemoveElement
    <3>2. QED
      BY <1>1, <2>4, <3>1
  <2>6. all \ {k} \subseteq Identified /\ MaxSize <= MaxSize
    BY <1>1, <2>2
  <2>7. QED
    BY <2>3, <2>5, <2>6
<1>6. QED
  BY <1>3, <1>4, <1>5

LEMMA BufferInvariant == Spec => []BufferInv
<1> USE HubAssumption
<1>1. Init => BufferInv
  <2> SUFFICES ASSUME Init
               PROVE  BufferInv
    OBVIOUS
  <2>1. DOMAIN messages = {} /\ \A m \in Identified : call[m] = "idle"
    BY DEF Init
  <2>2. QED
    BY <2>1, FS_EmptySet DEF BufferInv
<1>2. TypeOK /\ BufferInv /\ [Next]_vars => BufferInv'
  <2> SUFFICES ASSUME TypeOK, BufferInv, [Next]_vars
               PROVE  BufferInv'
    OBVIOUS
  <2>1. CASE \E m \in Msg : Broadcast(m) \/ BufferDirect(m)
    <3>1. PICK m \in Msg : Broadcast(m) \/ BufferDirect(m)
      BY <2>1
    <3>2. \A k \in Msg : k # m => call'[k] = call[k]
      BY <3>1 DEF Broadcast, BufferDirect, TypeOK
    <3>3. CASE m \in Identified
      <4>1. Buffer!Store(m)
        BY <3>1, <3>3 DEF Broadcast, BufferDirect, BufferMessage
      <4>2. QED
        BY <3>2, <4>1, <3>3, StoreKeeps DEF BufferInv
    <3>4. CASE m \notin Identified
      <4>1. messages' = messages
        BY <3>1, <3>4 DEF Broadcast, BufferDirect, BufferMessage
      <4>2. QED
        BY <3>2, <3>4, <4>1 DEF BufferInv
    <3>5. QED
      BY <3>3, <3>4
  <2>2. CASE \E m \in Msg : SendBroadcast(m) \/ SendDirect(m)
                              \/ \E id \in ID : SendToClient(m, id)
    <3>1. PICK m \in Msg : \/ SendBroadcast(m) \/ SendDirect(m)
                           \/ \E id \in ID : SendToClient(m, id)
      BY <2>2
    <3>2. /\ messages' = messages
          /\ \A k \in Msg : k # m => call'[k] = call[k]
          /\ \/ call'[m] \in {"idle", "located", "notfound"}
             \/ call[m] \in {"broadcasting", "direct"}
      BY <3>1 DEF SendBroadcast, SendDirect, SendToClient, TypeOK
    <3>3. QED
      BY <3>2 DEF BufferInv
  <2>3. CASE UNCHANGED <<messages, call>>
    BY <2>3 DEF BufferInv
  <2>4. ASSUME NEW c \in Conn, Handle(c)
        PROVE  UNCHANGED <<messages, call>>
    BY <2>4 DEF Handle, Connect, RegisterPanic, Disconnect, HubStopped, Receive,
                UnregisterPanic, callVars
  <2>5. ASSUME Run
        PROVE  UNCHANGED <<messages, call>>
    BY <2>5 DEF Run, RunReturns, RunReadsNilClient, RunTakesRegister, RunRegister,
                RunTrack, RunTakesUnregister, RunUnregister, RunUntrack,
                RunTakesBroadcast, RunFanout, RunFanoutDone, callVars
  <2>6. ASSUME Stop
        PROVE  UNCHANGED <<messages, call>>
    BY <2>6 DEF Stop, StopCancel, StopClear, StopCloseBroadcast, StopCloseRegister,
                StopCloseUnregister, callVars
  <2>7. QED
    BY <2>1, <2>2, <2>3, <2>4, <2>5, <2>6 DEF Next, Send, vars
<1>3. QED
  BY <1>1, <1>2, TypeCorrect, PTL DEF Spec

\* What a connection has written can be replayed, or the buffer is full: its
\* call is past buffering.
THEOREM DeliveredStays == Spec => []DeliveredIsReplayable
<1>1. TypeOK /\ OrderInv /\ BufferInv => DeliveredIsReplayable
  <2> SUFFICES ASSUME TypeOK, OrderInv, BufferInv, NEW c \in Conn,
                      NEW m \in Range(delivered[c]) \cap Identified
               PROVE  m \in DOMAIN messages \/ Cardinality(DOMAIN messages) = MaxSize
    BY DEF DeliveredIsReplayable
  <2>1. m \in Got(c) /\ m # Nil /\ m \in Identified
    BY HubAssumption DEF Got
  <2>2. call[m] \in {"accepted", "sent"}
    BY <2>1 DEF OrderInv
  <2>3. QED
    BY <2>1, <2>2 DEF BufferInv
<1>2. QED
  BY <1>1, TypeCorrect, OrderInvariant, BufferInvariant, PTL
=============================================================================
