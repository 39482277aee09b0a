---------------------------- MODULE ServiceProofs -----------------------------
(***************************************************************************)
(* Theorems about Hub, for any set of connections, any size of the buffers *)
(* and any number of messages; and about Lifecycle, for all deadlines and  *)
(* periods within its assumptions.                                         *)
(***************************************************************************)
EXTENDS Hub, Lifecycle, FiniteSetTheorems, TLAPS

(* Nobody is registered in the initial state.                              *)
LEMMA HubStarts == Init => HubIInv
<1> SUFFICES ASSUME Init PROVE HubIInv
  OBVIOUS
<1>1. TypeOK
  BY HubAssumption DEF HubAssumption, Init, TypeOK, Steps
<1>2. NoUseOfClosedChannels /\ RoundsAreClean /\ WaitingInOrder /\ NoneIsMissing
  BY DEF Init, NoUseOfClosedChannels, RoundsAreClean, WaitingInOrder, NoneIsMissing
<1> QED
  BY <1>1, <1>2 DEF HubIInv

-----------------------------------------------------------------------------
(* Types.                                                                  *)

(* The steps of the broadcaster keep the types.                            *)
LEMMA CastKeepsTypes == TypeOK /\ RoundsAreClean /\ CastStep => TypeOK'
<1> SUFFICES ASSUME TypeOK, RoundsAreClean, CastStep PROVE TypeOK'
  OBVIOUS
<1> USE HubAssumption DEF HubAssumption
<1>1. CASE Broadcast
  BY <1>1 DEF Broadcast, TypeOK, mapVars
<1>2. CASE Unlock
  BY <1>2 DEF Unlock, TypeOK, mapVars
<1>3. CASE EndBroadcast
  BY <1>3 DEF EndBroadcast, TypeOK, mapVars
<1>4. ASSUME NEW c \in Conns, Offer(c)
      PROVE  TypeOK'
  <2>1. CASE Len(send[c]) < BufferSize
    <3>1. /\ send' = [send EXCEPT ![c] = Append(send[c], latest)]
          /\ todo' = todo \ {c}
          /\ UNCHANGED <<clients, closed, phase, slow, latest, conn, writer, reader, writing, last>>
      BY <1>4, <2>1 DEF Offer, mapVars
    <3>2. latest \in 1 .. MaxMessages
      BY <1>4 DEF TypeOK, Offer, RoundsAreClean
  <3>3. Append(send[c], latest) \in Seq(1 .. MaxMessages)
      BY <3>2 DEF TypeOK
    <3>4. Len(Append(send[c], latest)) <= BufferSize
      BY <2>1, <3>2 DEF TypeOK
    <3> QED
      BY <3>1, <3>3, <3>4 DEF TypeOK
  <2>2. CASE ~(Len(send[c]) < BufferSize)
    BY <1>4, <2>2 DEF Offer, TypeOK, mapVars
  <2> QED
    BY <2>1, <2>2
<1>5. ASSUME NEW c \in Conns, CloseSlow(c)
      PROVE  TypeOK'
  BY <1>5 DEF CloseSlow, TypeOK, mapVars
<1> QED
  BY <1>1, <1>2, <1>3, <1>4, <1>5 DEF CastStep

(* The steps of a client and its goroutines keep the types.                *)
LEMMA ClientKeepsTypes ==
  TypeOK /\ (\E c \in Conns : Register(c) \/ WriterStep(c) \/ ReaderStep(c) \/ ClientLeaves(c))
    => TypeOK'
<1> SUFFICES ASSUME TypeOK, NEW c \in Conns,
                    Register(c) \/ WriterStep(c) \/ ReaderStep(c) \/ ClientLeaves(c)
             PROVE  TypeOK'
  OBVIOUS
<1> USE HubAssumption DEF HubAssumption
<1>1. CASE Register(c)
  BY <1>1 DEF Register, TypeOK, castVars, Steps
<1>2. CASE Take(c)
  <2>1. /\ Head(send[c]) \in 1 .. MaxMessages
        /\ Tail(send[c]) \in Seq(1 .. MaxMessages)
        /\ Len(Tail(send[c])) <= BufferSize
    BY <1>2 DEF Take, TypeOK
  <2>2. /\ writing' = [writing EXCEPT ![c] = Head(send[c])]
        /\ send' = [send EXCEPT ![c] = Tail(send[c])]
        /\ UNCHANGED <<clients, closed, phase, todo, slow, latest, conn, writer, reader, last>>
    BY <1>2 DEF Take, mapVars, castVars
  <2> QED
    BY <2>1, <2>2 DEF TypeOK
<1>3. CASE Write(c)
  BY <1>3 DEF Write, TypeOK, mapVars, castVars
<1>4. CASE WriteFails(c) \/ ChannelEnds(c) \/ WriterCloses(c)
  BY <1>4 DEF WriteFails, ChannelEnds, WriterCloses, TypeOK, Steps, mapVars, castVars
<1>5. CASE ReadFails(c) \/ ReaderCloses(c) \/ ClientLeaves(c)
  BY <1>5 DEF ReadFails, ReaderCloses, ClientLeaves, TypeOK, Steps, mapVars, castVars
<1>6. CASE WriterUnregisters(c) \/ ReaderUnregisters(c)
  BY <1>6 DEF WriterUnregisters, ReaderUnregisters, Unregister, TypeOK, Steps, castVars
<1> QED
  BY <1>1, <1>2, <1>3, <1>4, <1>5, <1>6 DEF WriterStep, ReaderStep

(* So every step does.                                                     *)
LEMMA TypesKept == TypeOK /\ RoundsAreClean /\ [Next]_vars => TypeOK'
<1>1. ASSUME TypeOK, UNCHANGED vars
      PROVE  TypeOK'
  BY <1>1 DEF TypeOK, vars, mapVars, castVars
<1> QED
  BY <1>1, CastKeepsTypes, ClientKeepsTypes DEF Next

-----------------------------------------------------------------------------
(* The map and the rounds of the broadcaster.                              *)

(* Only a client of the map is unregistered with effect, and only between  *)
(* rounds, so nobody the broadcaster has yet to visit loses its channel.   *)
LEMMA RoundsKept ==
  TypeOK /\ NoUseOfClosedChannels /\ RoundsAreClean /\ [Next]_vars
    => NoUseOfClosedChannels' /\ RoundsAreClean'
<1> SUFFICES ASSUME TypeOK, NoUseOfClosedChannels, RoundsAreClean, [Next]_vars
             PROVE  NoUseOfClosedChannels' /\ RoundsAreClean'
  OBVIOUS
<1> USE HubAssumption DEF HubAssumption, NoUseOfClosedChannels, RoundsAreClean
<1>1. CASE Broadcast
  BY <1>1 DEF Broadcast, TypeOK, mapVars
<1>2. CASE Unlock \/ EndBroadcast
  BY <1>2 DEF Unlock, EndBroadcast, TypeOK, mapVars
<1>3. ASSUME NEW c \in Conns, Offer(c)
      PROVE  NoUseOfClosedChannels' /\ RoundsAreClean'
  <2>1. /\ c \in todo /\ phase = "sending" /\ todo' = todo \ {c}
        /\ slow' \subseteq slow \cup {c}
        /\ \A d \in Conns \ {c} : send'[d] = send[d]
        /\ UNCHANGED <<clients, closed, phase, latest, conn, writing>>
    BY <1>3 DEF Offer, TypeOK, mapVars
  <2>2. conn[c] # "new"
    BY <2>1
  <2> QED
    BY <2>1, <2>2
<1>4. ASSUME NEW c \in Conns, CloseSlow(c)
      PROVE  NoUseOfClosedChannels' /\ RoundsAreClean'
  BY <1>4 DEF CloseSlow, TypeOK, mapVars
<1>5. ASSUME NEW c \in Conns, Register(c)
      PROVE  NoUseOfClosedChannels' /\ RoundsAreClean'
  BY <1>5 DEF Register, MutexFree, TypeOK, castVars
<1>6. ASSUME NEW c \in Conns, Take(c)
      PROVE  NoUseOfClosedChannels' /\ RoundsAreClean'
  BY <1>6 DEF Take, TypeOK, mapVars, castVars
<1>7. ASSUME NEW c \in Conns, Write(c)
      PROVE  NoUseOfClosedChannels' /\ RoundsAreClean'
  BY <1>7 DEF Write, TypeOK, mapVars, castVars
<1>8. ASSUME NEW c \in Conns, WriterUnregisters(c) \/ ReaderUnregisters(c)
      PROVE  NoUseOfClosedChannels' /\ RoundsAreClean'
  <2>1. /\ todo = {} /\ phase # "sending"
        /\ clients' = clients \ {c}
        /\ closed' = IF c \in clients THEN closed \cup {c} ELSE closed
        /\ UNCHANGED <<phase, todo, slow, latest, send, conn, writing>>
    BY <1>8 DEF WriterUnregisters, ReaderUnregisters, Unregister, MutexFree, castVars
  <2> QED
    BY <2>1
<1>9. ASSUME NEW c \in Conns,
             \/ WriteFails(c) \/ ChannelEnds(c) \/ WriterCloses(c)
             \/ ReadFails(c) \/ ReaderCloses(c) \/ ClientLeaves(c)
      PROVE  NoUseOfClosedChannels' /\ RoundsAreClean'
  <2>1. /\ UNCHANGED <<clients, closed, phase, todo, slow, latest, send, writing>>
        /\ \A d \in Conns : conn'[d] = "new" => conn[d] = "new"
    BY <1>9 DEF WriteFails, ChannelEnds, WriterCloses, ReadFails, ReaderCloses, ClientLeaves,
                TypeOK, mapVars, castVars
  <2> QED
    BY <2>1
<1>10. CASE UNCHANGED vars
  BY <1>10 DEF vars, mapVars, castVars
<1> QED
  BY <1>1, <1>2, <1>3, <1>4, <1>5, <1>6, <1>7, <1>8, <1>9, <1>10
     DEF Next, CastStep, WriterStep, ReaderStep

-----------------------------------------------------------------------------
(* The messages behind an open connection.                                 *)

\* WaitingInOrder and NoneIsMissing, of one client
QueueOf(c) ==
  conn[c] = "open" =>
    /\ writing[c] \in {0, last[c] + 1}
    /\ \A i \in 1 .. Len(send[c]) : send[c][i] = Upcoming(c) + i - 1
    /\ c \in clients \ slow =>
         Upcoming(c) + Len(send[c]) = IF c \in todo THEN latest ELSE latest + 1

(* A step that leaves a client's messages alone keeps its queue, if it     *)
(* says of it no more than before.                                         *)
LEMMA QueueFramed ==
  ASSUME NEW c \in Conns, QueueOf(c),
         conn'[c] = "open" => conn[c] = "open",
         send'[c] = send[c], writing'[c] = writing[c], last'[c] = last[c],
         latest' = latest, c \in todo' <=> c \in todo,
         c \in clients' \ slow' => c \in clients \ slow
  PROVE  QueueOf(c)'
BY DEF QueueOf, Upcoming

(* Every step keeps the queue of every client.                             *)
LEMMA QueuesKept ==
  ASSUME TypeOK, RoundsAreClean, \A c \in Conns : QueueOf(c), [Next]_vars
  PROVE  \A c \in Conns : QueueOf(c)'
<1> SUFFICES ASSUME NEW c \in Conns
             PROVE  QueueOf(c)'
  OBVIOUS
<1> USE HubAssumption DEF HubAssumption
<1>1. CASE Broadcast
  <2>1. /\ todo = {} /\ slow = {} /\ todo' = clients /\ latest' = latest + 1
        /\ UNCHANGED <<clients, slow, send, conn, writing, last>>
    BY <1>1 DEF Broadcast, RoundsAreClean, mapVars
  <2> QED
    BY <2>1 DEF QueueOf, Upcoming, TypeOK
<1>2. CASE Unlock \/ EndBroadcast
  BY <1>2, QueueFramed DEF Unlock, EndBroadcast, mapVars
<1>3. ASSUME NEW d \in Conns, Offer(d)
      PROVE  QueueOf(c)'
  <2>1. CASE c # d
    BY <1>3, <2>1, QueueFramed DEF Offer, TypeOK, mapVars
  <2>2. CASE c = d /\ Len(send[c]) < BufferSize
    <3>1. /\ c \in todo /\ c \in clients /\ c \notin slow /\ todo' = todo \ {c}
          /\ send'[c] = Append(send[c], latest)
          /\ UNCHANGED <<clients, slow, latest, conn, writing, last>>
      BY <1>3, <2>2 DEF Offer, RoundsAreClean, TypeOK, mapVars
    <3>2. send[c] \in Seq(1 .. MaxMessages) /\ latest \in Nat /\ last[c] \in Nat
      BY DEF TypeOK
    <3>3. /\ Len(send'[c]) = Len(send[c]) + 1
          /\ \A i \in 1 .. Len(send[c]) : send'[c][i] = send[c][i]
          /\ send'[c][Len(send[c]) + 1] = latest
      BY <3>1, <3>2
    <3>4. ASSUME conn[c] = "open"
          PROVE  \A i \in 1 .. Len(send[c]) + 1 : send'[c][i] = Upcoming(c) + i - 1
      <4>1. Upcoming(c) + Len(send[c]) = latest
        BY <3>1, <3>4 DEF QueueOf
      <4>2. ASSUME NEW i \in 1 .. Len(send[c])
            PROVE  send'[c][i] = Upcoming(c) + i - 1
        BY <3>3, <3>4 DEF QueueOf
      <4>3. Upcoming(c) + (Len(send[c]) + 1) - 1 = latest
        BY <4>1, <3>2 DEF Upcoming
      <4>4. \A i \in 1 .. Len(send[c]) + 1 : i \in 1 .. Len(send[c]) \/ i = Len(send[c]) + 1
        BY <3>2
      <4> QED
        BY <4>2, <4>3, <4>4, <3>3
    <3>5. Upcoming(c)' = Upcoming(c)
      BY <3>1 DEF Upcoming
    <3>6. ASSUME conn'[c] = "open"
          PROVE  Upcoming(c)' + Len(send'[c]) = latest' + 1
      <4>1. Upcoming(c) + Len(send[c]) = latest
        BY <3>1, <3>6 DEF QueueOf
      <4>2. Upcoming(c) \in Nat /\ Len(send[c]) \in Nat
        BY <3>2 DEF Upcoming
      <4>3. latest' = latest /\ Len(send'[c]) = Len(send[c]) + 1
        BY <3>1, <3>3
      <4>4. \A u, l \in Nat : u + l = latest => u + (l + 1) = latest + 1
        BY <3>2
      <4>5. Upcoming(c) + (Len(send[c]) + 1) = latest + 1
        BY <4>1, <4>2, <4>4
      <4> QED
        BY <4>3, <4>5, <3>5
    <3> QED
      BY <3>1, <3>3, <3>4, <3>5, <3>6 DEF QueueOf
  <2>3. CASE c = d /\ ~(Len(send[c]) < BufferSize)
    <3>1. /\ c \in slow' /\ UNCHANGED <<send, conn, writing, last>>
      BY <1>3, <2>3 DEF Offer, TypeOK
    <3> QED
      BY <3>1 DEF QueueOf, Upcoming
  <2> QED
    BY <2>1, <2>2, <2>3
<1>4. ASSUME NEW d \in Conns, CloseSlow(d)
      PROVE  QueueOf(c)'
  <2>1. CASE c # d
    BY <1>4, <2>1, QueueFramed DEF CloseSlow, TypeOK, mapVars
  <2>2. CASE c = d
    BY <1>4, <2>2 DEF CloseSlow, TypeOK, QueueOf
  <2> QED
    BY <2>1, <2>2
<1>5. ASSUME NEW d \in Conns, Register(d)
      PROVE  QueueOf(c)'
  <2>1. CASE c # d
    BY <1>5, <2>1, QueueFramed DEF Register, TypeOK, castVars
  <2>2. CASE c = d
    <3>1. /\ send'[c] = <<>> /\ writing'[c] = 0 /\ last'[c] = latest
          /\ c \notin todo' /\ latest' = latest
      BY <1>5, <2>2 DEF Register, RoundsAreClean, MutexFree, TypeOK, castVars
    <3> QED
      BY <3>1 DEF QueueOf, Upcoming, TypeOK
  <2> QED
    BY <2>1, <2>2
<1>6. ASSUME NEW d \in Conns, Take(d)
      PROVE  QueueOf(c)'
  <2>1. CASE c # d
    BY <1>6, <2>1, QueueFramed DEF Take, TypeOK, mapVars, castVars
  <2>2. CASE c = d
    <3>1. /\ writing[c] = 0 /\ send[c] # <<>>
          /\ writing'[c] = Head(send[c]) /\ send'[c] = Tail(send[c])
          /\ UNCHANGED <<clients, todo, slow, latest, conn, last>>
      BY <1>6, <2>2 DEF Take, TypeOK, mapVars, castVars
    <3>2. send[c] \in Seq(1 .. MaxMessages) /\ last[c] \in Nat /\ latest \in Nat
      BY DEF TypeOK
    <3>3. /\ Head(send[c]) = send[c][1] /\ 1 \in 1 .. Len(send[c])
          /\ Len(send'[c]) = Len(send[c]) - 1
          /\ \A i \in 1 .. Len(send[c]) - 1 : send'[c][i] = send[c][i + 1] /\ i + 1 \in 1 .. Len(send[c])
      BY <3>1, <3>2
    <3>4. SUFFICES ASSUME conn[c] = "open"
                   PROVE  QueueOf(c)'
      BY <3>1 DEF QueueOf
    <3>5. Upcoming(c) = last[c] + 1 /\ writing'[c] = last[c] + 1
      BY <3>1, <3>2, <3>3, <3>4 DEF QueueOf, Upcoming
    <3>6. Upcoming(c)' = last[c] + 2
      BY <3>1, <3>2, <3>5 DEF Upcoming
    <3>7. ASSUME NEW i \in 1 .. Len(send[c]) - 1
          PROVE  send'[c][i] = last[c] + 2 + i - 1
      <4>1. send[c][i + 1] = Upcoming(c) + (i + 1) - 1
        BY <3>3, <3>4 DEF QueueOf
      <4> QED
        BY <4>1, <3>2, <3>3, <3>5
    <3>8. ASSUME c \in clients' \ slow'
          PROVE  last[c] + 2 + Len(send'[c]) = IF c \in todo' THEN latest' ELSE latest' + 1
      <4>1. Upcoming(c) + Len(send[c]) = IF c \in todo THEN latest ELSE latest + 1
        BY <3>1, <3>4, <3>8 DEF QueueOf
      <4>2. Len(send[c]) \in Nat
        BY <3>2
      <4>3. last[c] + 2 + Len(send'[c]) = last[c] + 1 + Len(send[c])
        <5>1. Len(send'[c]) = Len(send[c]) - 1
          BY <3>3
        <5>2. \A k, n \in Nat : \A l : l = n - 1 => k + 2 + l = k + 1 + n
          OBVIOUS
        <5> QED
          BY <5>1, <5>2, <4>2, <3>2
      <4>4. todo' = todo /\ latest' = latest
        BY <3>1
      <4> QED
        BY <4>1, <4>3, <4>4, <3>5
    <3> QED
      BY <3>1, <3>3, <3>5, <3>6, <3>7, <3>8 DEF QueueOf
  <2> QED
    BY <2>1, <2>2
<1>7. ASSUME NEW d \in Conns, Write(d)
      PROVE  QueueOf(c)'
  <2>1. CASE c # d
    BY <1>7, <2>1, QueueFramed DEF Write, TypeOK, mapVars, castVars
  <2>2. CASE c = d /\ conn[c] = "open"
    <3>1. /\ writing[c] = last[c] + 1 /\ last'[c] = last[c] + 1 /\ writing'[c] = 0
          /\ UNCHANGED <<clients, todo, slow, latest, conn, send>>
      BY <1>7, <2>2 DEF Write, TypeOK, QueueOf, mapVars, castVars
    <3>2. last[c] \in Nat
      BY DEF TypeOK
    <3>3. Upcoming(c)' = Upcoming(c)
      BY <3>1, <3>2 DEF Upcoming
    <3> QED
      BY <2>2, <3>1, <3>3 DEF QueueOf
  <2>3. CASE c = d /\ conn[c] # "open"
    BY <1>7, <2>3 DEF Write, QueueOf
  <2> QED
    BY <2>1, <2>2, <2>3
<1>8. ASSUME NEW d \in Conns, WriterUnregisters(d) \/ ReaderUnregisters(d)
      PROVE  QueueOf(c)'
  BY <1>8, QueueFramed DEF WriterUnregisters, ReaderUnregisters, Unregister, castVars
<1>9. ASSUME NEW d \in Conns,
             \/ WriteFails(d) \/ ChannelEnds(d) \/ WriterCloses(d)
             \/ ReadFails(d) \/ ReaderCloses(d) \/ ClientLeaves(d)
      PROVE  QueueOf(c)'
  <2>1. /\ UNCHANGED <<clients, todo, slow, latest, send, writing, last>>
        /\ conn'[c] = "open" => conn[c] = "open"
    BY <1>9 DEF WriteFails, ChannelEnds, WriterCloses, ReadFails, ReaderCloses, ClientLeaves,
                TypeOK, mapVars, castVars
  <2> QED
    BY <2>1, QueueFramed
<1>10. CASE UNCHANGED vars
  BY <1>10, QueueFramed DEF vars, mapVars, castVars
<1> QED
  BY <1>1, <1>2, <1>3, <1>4, <1>5, <1>6, <1>7, <1>8, <1>9, <1>10
     DEF Next, CastStep, WriterStep, ReaderStep

(* Every step keeps the invariant.                                         *)
LEMMA HubKeeps == HubIInv /\ [Next]_vars => HubIInv'
<1>1. HubIInv =>
        TypeOK /\ NoUseOfClosedChannels /\ RoundsAreClean /\ \A c \in Conns : QueueOf(c)
  BY DEF HubIInv, WaitingInOrder, NoneIsMissing, QueueOf
<1>2. TypeOK' /\ NoUseOfClosedChannels' /\ RoundsAreClean' /\ (\A c \in Conns : QueueOf(c)')
        => HubIInv'
  <2> SUFFICES ASSUME TypeOK', NoUseOfClosedChannels', RoundsAreClean',
                      \A c \in Conns : QueueOf(c)'
               PROVE  HubIInv'
    OBVIOUS
  <2>1. WaitingInOrder'
    BY DEF WaitingInOrder, QueueOf
  <2>2. NoneIsMissing'
    BY DEF NoneIsMissing, QueueOf, TypeOK
  <2> QED
    BY <2>1, <2>2 DEF HubIInv
<1> QED
  BY <1>1, <1>2, TypesKept, RoundsKept, QueuesKept

-----------------------------------------------------------------------------

(* The inductive invariant holds in every behaviour.                       *)
THEOREM HubInductive == SafeSpec => []HubIInv
BY HubStarts, HubKeeps, PTL DEF SafeSpec

(* The broadcaster never sends on a closed channel and nobody closes one a *)
(* second time, however many clients come and go during a round.           *)
THEOREM ChannelsAreSafe == SafeSpec => []NoUseOfClosedChannels
BY HubInductive, PTL DEF HubIInv

(* What goes out on a connection is the next message, never a later one.   *)
THEOREM ClientsSeeNoGaps == SafeSpec => NoGaps
<1>1. HubIInv /\ [Next]_vars
        => [\A c \in Conns : conn[c] # "new" => last'[c] \in {last[c], last[c] + 1}]_vars
  <2> SUFFICES ASSUME HubIInv, [Next]_vars, NEW c \in Conns, conn[c] # "new"
               PROVE  last'[c] \in {last[c], last[c] + 1}
    OBVIOUS
  <2>1. ASSUME NEW d \in Conns, Write(d)
        PROVE  last'[c] \in {last[c], last[c] + 1}
    BY <2>1 DEF Write, HubIInv, TypeOK, WaitingInOrder
  <2>2. ASSUME NEW d \in Conns, Register(d)
        PROVE  last'[c] = last[c]
    BY <2>2 DEF Register, HubIInv, TypeOK
  <2>3. ASSUME CastStep \/ UNCHANGED vars
        PROVE  last' = last
    BY <2>3 DEF CastStep, Broadcast, Offer, Unlock, CloseSlow, EndBroadcast, vars
  <2>4. ASSUME NEW d \in Conns, ~Write(d), WriterStep(d) \/ ReaderStep(d) \/ ClientLeaves(d)
        PROVE  last' = last
    BY <2>4 DEF WriterStep, ReaderStep, ClientLeaves, Take, WriteFails, ChannelEnds,
                WriterUnregisters, WriterCloses, ReadFails, ReaderUnregisters, ReaderCloses
  <2> QED
    BY <2>1, <2>2, <2>3, <2>4 DEF Next
<1> QED
  BY <1>1, HubInductive, PTL DEF SafeSpec, NoGaps

-----------------------------------------------------------------------------
(* Lifecycle: who changes what.                                            *)

(* The constants are natural numbers, those of a duration positive ones.   *)
LEMMA LifeConstants ==
  /\ BatchMax \in Nat /\ BatchMax > 0 /\ LongPoll \in Nat /\ LongPoll > 0
  /\ HandlerTimeout \in Nat /\ HandlerTimeout > 0
  /\ ProbePeriod \in Nat /\ ProbePeriod > 0 /\ Threshold \in Nat /\ Threshold > 0
  /\ MaxAge \in Nat /\ ServiceDrain \in Nat /\ WorkerDrain \in Nat
  /\ InitialDelay \in Nat /\ Grace \in Nat /\ MaxFaults \in Nat /\ MaxStops \in Nat
BY LifecycleAssumption DEF LifecycleAssumption

RequestStep == RequestArrives \/ RequestEnds \/ PoolFills \/ PoolFrees

(* A step of the errgroup's goroutines other than the consumer, or of the  *)
(* requests, leaves the consumer, the clock and the probes alone.          *)
LEMMA GroupSteps ==
  ASSUME ServerFails \/ ShutdownStep \/ BackgroundEnds \/ RequestStep
  PROVE  /\ UNCHANGED <<service, signalled, grace, reachable, drained, consumer, probeIn, fails, starved,
                        ends>>
         /\ excused => excused'
BY DEF ServerFails, ShutdownStep, ShutdownStarts, ShutdownEnds, BackgroundEnds, RequestStep,
       RequestArrives, RequestEnds, PoolFills, PoolFrees, Fault, consumer, kubelet, ends

(* A step of the consumer or of its handlers leaves the group, the clock   *)
(* and the probes alone.                                                   *)
LEMMA ConsumerSteps ==
  ASSUME LoopStep \/ ReceiveHangs \/ ReceiveRecovers \/ \E s \in Slots : HandlerEnds(s)
  PROVE  /\ UNCHANGED <<service, signalled, grace, reachable, group, probeIn, fails, starved, ends>>
         /\ excused => excused'
BY DEF LoopStep, Receive, Dispatch, LoopEnds, ReceiveHangs, ReceiveRecovers, HandlerEnds, Fault,
       Frame, group, kubelet, ends

\* the two parts of LifeTypeOK
Flags ==
  /\ signalled \in BOOLEAN /\ failed \in BOOLEAN /\ request \in BOOLEAN /\ hung \in BOOLEAN
  /\ reachable \in BOOLEAN /\ excused \in BOOLEAN /\ lost \in BOOLEAN
  /\ crowded \in BOOLEAN /\ starved \in BOOLEAN

Measures ==
  /\ service \in Services
  /\ process \in {"up", "down"}
  /\ server \in {"listening", "failed", "closed"}
  /\ shutdown \in {"waiting", "draining", "done"}
  /\ drained \in 0 .. ServiceDrain + WorkerDrain
  /\ background \in {"none", "running", "done"}
  /\ loop \in {"none", "receiving", "dispatching", "done"}
  /\ polled \in 0 .. LongPoll
  /\ batch \in 0 .. BatchMax
  /\ busy \subseteq Slots
  /\ age \in [Slots -> 0 .. HandlerTimeout]
  /\ mark \in 0 .. MaxAge + 1
  /\ probeIn \in 0 .. InitialDelay + ProbePeriod
  /\ fails \in 0 .. Threshold
  /\ grace \in 0 .. Grace
  /\ exit \in {"none", "clean", "error"}
  /\ faults \in 0 .. MaxFaults
  /\ stops \in 0 .. MaxStops

(* The process starts in a state of the invariant.                         *)
LEMMA LifeStarts == LifeInit => LifeIInv
<1> SUFFICES ASSUME LifeInit PROVE LifeIInv
  OBVIOUS
<1> USE LifeConstants DEF LifeInit
<1>1. LifeTypeOK
  <2>1. Flags
    BY Zenon DEF Flags
  <2>2. Measures
    BY SMT DEF Measures, Services, HasBackground, HasConsumer
  <2> QED
    BY <2>1, <2>2 DEF LifeTypeOK, Flags, Measures
<1>2. ServersShutDown /\ LoopsWait /\ CleanExitsLoseNothing
  BY DEF ServersShutDown, LoopsWait, CleanExitsLoseNothing
<1>3. DrainIsTimed
  BY DEF DrainIsTimed, DrainLimit
<1>4. DispatchersHaveWork
  BY DEF DispatchersHaveWork, HasConsumer
<1> QED
  BY <1>1, <1>2, <1>3, <1>4 DEF LifeIInv

(* Every step keeps the flags Boolean.                                     *)
LEMMA FlagsKept == Flags /\ [LifeNext]_lifeVars => Flags'
<1> SUFFICES ASSUME Flags, [LifeNext]_lifeVars PROVE Flags'
  OBVIOUS
<1> USE DEF Flags, group, consumer, kubelet, ends
<1>1. CASE ServerFails \/ ShutdownStep \/ BackgroundEnds \/ RequestStep
  <2>1. ASSUME ServerFails PROVE Flags'
    BY <2>1, Zenon DEF ServerFails, Fault
  <2>2. ASSUME ShutdownStep PROVE Flags'
    BY <2>2, Zenon DEF ShutdownStep, ShutdownStarts, ShutdownEnds
  <2>3. ASSUME BackgroundEnds PROVE Flags'
    BY <2>3, Zenon DEF BackgroundEnds
  <2>4. ASSUME RequestArrives \/ RequestEnds PROVE Flags'
    BY <2>4, Zenon DEF RequestArrives, RequestEnds
  <2>5. ASSUME PoolFills \/ PoolFrees PROVE Flags'
    BY <2>5, Zenon DEF PoolFills, PoolFrees
  <2> QED
    BY <1>1, <2>1, <2>2, <2>3, <2>4, <2>5 DEF RequestStep
<1>2. ASSUME NEW n \in 0 .. BatchMax, Receive(n)
      PROVE  Flags'
  BY <1>2, Zenon DEF Receive, Frame
<1>3. ASSUME NEW s \in Slots, Dispatch(s) \/ HandlerEnds(s)
      PROVE  Flags'
  BY <1>3, Zenon DEF Dispatch, HandlerEnds, Frame
<1>4. CASE LoopEnds \/ ReceiveHangs \/ ReceiveRecovers
  BY <1>4, Zenon DEF LoopEnds, ReceiveHangs, ReceiveRecovers, Fault, Frame
<1>5. CASE Probe \/ Terminate \/ Exit
  <2>1. ASSUME Probe PROVE Flags'
    <3>1. CASE Healthy
      BY <2>1, <3>1, Zenon DEF Probe
    <3>2. CASE ~Healthy
      BY <2>1, <3>2, Zenon DEF Probe
    <3> QED
      BY <3>1, <3>2
  <2>2. ASSUME Terminate PROVE Flags'
    BY <2>2, Zenon DEF Terminate
  <2>3. ASSUME Exit PROVE Flags'
    BY <2>3, Zenon DEF Exit, Ends
  <2> QED
    BY <1>5, <2>1, <2>2, <2>3
<1>6. CASE Restart
  BY <1>6, Zenon DEF Restart
<1>7. CASE DependencyFails \/ DependencyRecovers
  BY <1>7, Zenon DEF DependencyFails, DependencyRecovers, Fault
<1>8. CASE Tick \/ UNCHANGED lifeVars
  BY <1>8, Zenon DEF Tick, lifeVars
<1> QED
  BY <1>1, <1>2, <1>3, <1>4, <1>5, <1>6, <1>7, <1>8
     DEF LifeNext, LoopStep, KubeletStep, GiveUp, Rollout, RequestStep

(* Every step keeps what is counted and measured in its range.             *)
LEMMA MeasuresKept ==
  Measures /\ DrainIsTimed /\ DispatchersHaveWork /\ [LifeNext]_lifeVars => Measures'
<1> SUFFICES ASSUME Measures, DrainIsTimed, DispatchersHaveWork, [LifeNext]_lifeVars PROVE Measures'
  OBVIOUS
<1> USE LifeConstants DEF Measures, group, consumer, kubelet, ends
<1>1. CASE ServerFails \/ ShutdownStep \/ BackgroundEnds \/ RequestStep
  <2>1. /\ faults' \in 0 .. MaxFaults
        /\ server' \in {"listening", "failed", "closed"}
        /\ shutdown' \in {"waiting", "draining", "done"}
        /\ background' \in {"none", "running", "done"}
    BY <1>1 DEF ServerFails, ShutdownStep, ShutdownStarts, ShutdownEnds, BackgroundEnds,
                RequestStep, RequestArrives, RequestEnds, PoolFills, PoolFrees, Fault
  <2> QED
    BY <1>1, <2>1, GroupSteps
<1>2. ASSUME NEW n \in 0 .. BatchMax, Receive(n)
      PROVE  Measures'
  BY <1>2 DEF Receive, MarkHealthy, Frame
<1>3. ASSUME NEW s \in Slots, Dispatch(s) \/ HandlerEnds(s)
      PROVE  Measures'
  <2>1. age' = [age EXCEPT ![s] = 0] /\ busy' \subseteq Slots /\ batch' \in 0 .. BatchMax
        /\ loop' \in {"none", "receiving", "dispatching", "done"}
    BY <1>3 DEF Dispatch, HandlerEnds, DispatchersHaveWork
  <2>2. age' \in [Slots -> 0 .. HandlerTimeout]
    BY <2>1
  <2> QED
    BY <1>3, <2>1, <2>2 DEF Dispatch, HandlerEnds, Frame
<1>4. CASE LoopEnds \/ ReceiveHangs \/ ReceiveRecovers
  BY <1>4 DEF LoopEnds, ReceiveHangs, ReceiveRecovers, Fault, Frame
<1>5. CASE Probe \/ GiveUp \/ Rollout \/ Exit
  BY <1>5 DEF Probe, GiveUp, Rollout, Terminate, Exit, Ends
<1>6. CASE Restart
  BY <1>6 DEF Restart, HasBackground, HasConsumer
<1>7. CASE DependencyFails \/ DependencyRecovers
  BY <1>7 DEF DependencyFails, DependencyRecovers, Fault
<1>8. CASE Tick
  <2>1. /\ polled' \in 0 .. LongPoll /\ mark' \in 0 .. MaxAge + 1
        /\ probeIn' \in 0 .. InitialDelay + ProbePeriod /\ grace' \in 0 .. Grace
    BY <1>8 DEF Tick, Due, ConsumerDue
  <2>2. drained' \in 0 .. ServiceDrain + WorkerDrain
    BY <1>8 DEF Tick, Due, DrainIsTimed, DrainLimit
  <2>3. age' \in [Slots -> 0 .. HandlerTimeout]
    BY <1>8 DEF Tick, Due, ConsumerDue
  <2> QED
    BY <1>8, <2>1, <2>2, <2>3 DEF Tick
<1>9. CASE UNCHANGED lifeVars
  BY <1>9 DEF lifeVars
<1> HIDE DEF Measures, group, consumer, kubelet, ends
<1> QED
  BY <1>1, <1>2, <1>3, <1>4, <1>5, <1>6, <1>7, <1>8, <1>9
     DEF LifeNext, LoopStep, KubeletStep, RequestStep

(* Every step keeps the types.                                             *)
LEMMA LifeTypesKept ==
  LifeTypeOK /\ DrainIsTimed /\ DispatchersHaveWork /\ [LifeNext]_lifeVars => LifeTypeOK'
<1>1. LifeTypeOK <=> Flags /\ Measures
  BY DEF LifeTypeOK, Flags, Measures
<1>2. LifeTypeOK' <=> Flags' /\ Measures'
  BY DEF LifeTypeOK, Flags, Measures
<1> QED
  BY <1>1, <1>2, FlagsKept, MeasuresKept

-----------------------------------------------------------------------------
(* Lifecycle: how a process ends.                                          *)

(* A shutdown waits for the request, a loop for its handlers, and Exit for *)
(* both.                                                                   *)
LEMMA EndsAreKept ==
  ASSUME LifeTypeOK, ServersShutDown, LoopsWait, CleanExitsLoseNothing, [LifeNext]_lifeVars
  PROVE  ServersShutDown' /\ LoopsWait' /\ CleanExitsLoseNothing'
<1> USE DEF ServersShutDown, LoopsWait, CleanExitsLoseNothing
<1>1. CASE ServerFails \/ ShutdownStep \/ BackgroundEnds \/ RequestStep
  <2>1. ServersShutDown'
    BY <1>1 DEF ServerFails, ShutdownStep, ShutdownStarts, ShutdownEnds, BackgroundEnds,
                RequestStep, RequestArrives, RequestEnds, PoolFills, PoolFrees, LifeTypeOK
  <2> QED
    BY <1>1, <2>1, GroupSteps DEF consumer, ends
<1>2. CASE LoopStep \/ ReceiveHangs \/ ReceiveRecovers \/ \E s \in Slots : HandlerEnds(s)
  <2>1. LoopsWait'
    BY <1>2 DEF LoopStep, Receive, Dispatch, LoopEnds, ReceiveHangs, ReceiveRecovers, HandlerEnds
  <2> QED
    BY <1>2, <2>1, ConsumerSteps DEF group, ends
<1>3. CASE Probe \/ Terminate \/ DependencyFails \/ DependencyRecovers
  BY <1>3 DEF Probe, Terminate, DependencyFails, DependencyRecovers, group, consumer, ends
<1>4. CASE Restart
  BY <1>4 DEF Restart
<1>5. CASE Exit
  <2>1. ~failed => ~request /\ busy = {}
    BY <1>5 DEF Exit, GroupDone
  <2> QED
    BY <1>5, <2>1 DEF Exit, Ends, group, consumer
<1>6. CASE Tick
  BY <1>6 DEF Tick, ends
<1>7. CASE UNCHANGED lifeVars
  BY <1>7 DEF lifeVars, group, consumer, ends
<1> QED
  BY <1>1, <1>2, <1>3, <1>4, <1>5, <1>6, <1>7
     DEF LifeNext, KubeletStep, GiveUp, Rollout, RequestStep

(* After SIGTERM the only thing that takes time is the drain: the loop on  *)
(* gCtx and the consumer end at once.                                      *)
LEMMA OnlyTheDrainTakesTime ==
  ASSUME LifeTypeOK, ServersShutDown, Tick, signalled
  PROVE  shutdown = "draining"
<1>1. shutdown # "waiting" /\ background # "running" /\ loop \in {"none", "done"}
  BY DEF Tick, Due, ConsumerDue, Cancelled, LifeTypeOK
<1>2. ~GroupDone
  BY DEF Tick, Due
<1> QED
  BY <1>1, <1>2 DEF GroupDone, ServersShutDown, LifeTypeOK

(* So the time since SIGTERM is bounded by the deadline of the drain.      *)
LEMMA DrainKept ==
  ASSUME LifeTypeOK, ServersShutDown, DrainIsTimed, [LifeNext]_lifeVars
  PROVE  DrainIsTimed'
<1> USE LifeConstants DEF DrainIsTimed, DrainLimit
<1>1. CASE ServerFails \/ ShutdownStep \/ BackgroundEnds \/ RequestStep
  BY <1>1, GroupSteps DEF consumer, ends
<1>2. CASE LoopStep \/ ReceiveHangs \/ ReceiveRecovers \/ \E s \in Slots : HandlerEnds(s)
  BY <1>2, ConsumerSteps DEF group
<1>3. CASE Probe \/ DependencyFails \/ DependencyRecovers \/ Exit
  BY <1>3 DEF Probe, DependencyFails, DependencyRecovers, Exit, Ends, group
<1>4. CASE Terminate
  BY <1>4 DEF Terminate, group, LifeTypeOK
<1>5. CASE Restart
  BY <1>5 DEF Restart
<1>6. CASE Tick
  <2>1. CASE signalled
    BY <1>6, <2>1, OnlyTheDrainTakesTime DEF Tick, Due, LifeTypeOK
  <2>2. CASE ~signalled
    BY <1>6, <2>2 DEF Tick, Due, LifeTypeOK
  <2> QED
    BY <2>1, <2>2
<1>7. CASE UNCHANGED lifeVars
  BY <1>7 DEF lifeVars, group
<1> QED
  BY <1>1, <1>2, <1>3, <1>4, <1>5, <1>6, <1>7
     DEF LifeNext, KubeletStep, GiveUp, Rollout, RequestStep

(* A loop that dispatches has a message left.                              *)
LEMMA DispatchersKept ==
  ASSUME LifeTypeOK, DispatchersHaveWork, [LifeNext]_lifeVars
  PROVE  DispatchersHaveWork'
<1> USE LifeConstants DEF DispatchersHaveWork
<1>1. CASE ServerFails \/ ShutdownStep \/ BackgroundEnds \/ RequestStep
  BY <1>1, GroupSteps DEF consumer
<1>2. ASSUME NEW n \in 0 .. BatchMax, Receive(n)
      PROVE  DispatchersHaveWork'
  BY <1>2 DEF Receive
<1>3. ASSUME NEW s \in Slots, Dispatch(s) \/ HandlerEnds(s)
      PROVE  DispatchersHaveWork'
  BY <1>3 DEF Dispatch, HandlerEnds, LifeTypeOK
<1>4. CASE LoopEnds \/ ReceiveHangs \/ ReceiveRecovers
  BY <1>4 DEF LoopEnds, ReceiveHangs, ReceiveRecovers
<1>5. CASE Probe \/ Terminate \/ Exit \/ DependencyFails \/ DependencyRecovers
  BY <1>5 DEF Probe, Terminate, Exit, Ends, DependencyFails, DependencyRecovers, consumer
<1>6. CASE Restart
  BY <1>6 DEF Restart
<1>7. CASE Tick \/ UNCHANGED lifeVars
  BY <1>7 DEF Tick, lifeVars, consumer
<1> QED
  BY <1>1, <1>2, <1>3, <1>4, <1>5, <1>6, <1>7
     DEF LifeNext, LoopStep, KubeletStep, GiveUp, Rollout, RequestStep

-----------------------------------------------------------------------------
(* Lifecycle: what makes a probe fail.                                     *)

(* A process starts with all up, its mark fresh and no probe failed.       *)
LEMMA ProbesStart == LifeInit => ProbeIInv
<1> SUFFICES ASSUME LifeInit PROVE ProbeIInv
  OBVIOUS
<1> USE LifeConstants DEF LifeInit
<1>1. LifeIInv
  BY LifeStarts
<1>2. UnlessExcused /\ MarksAreTimely /\ RestartsHaveReasons
  BY DEF UnlessExcused, MarksAreTimely, RestartsHaveReasons
<1>3. OnlyFailuresCancel
  BY DEF OnlyFailuresCancel, HasTracker, HasConsumer
<1>4. BatchesFit
  BY DEF BatchesFit, HasConsumer
<1>5. PoolsAreShared /\ FailuresAreLongPolls
  BY DEF PoolsAreShared, FailuresAreLongPolls
<1> QED
  BY <1>1, <1>2, <1>3, <1>4, <1>5 DEF ProbeIInv

(* Until something fails all is up, and only a failing server cancels gCtx.*)
LEMMA FailuresKept ==
  ASSUME LifeTypeOK, UnlessExcused, OnlyFailuresCancel, [LifeNext]_lifeVars
  PROVE  UnlessExcused' /\ OnlyFailuresCancel'
<1> USE DEF UnlessExcused, OnlyFailuresCancel, HasTracker
<1>1. CASE ServerFails
  BY <1>1 DEF ServerFails, Fault, consumer
<1>2. CASE ShutdownStep
  BY <1>2 DEF ShutdownStep, ShutdownStarts, ShutdownEnds, Cancelled, consumer, kubelet, LifeTypeOK
<1>3. CASE BackgroundEnds \/ RequestStep
  BY <1>3 DEF BackgroundEnds, RequestStep, RequestArrives, RequestEnds, PoolFills, PoolFrees,
              consumer, kubelet
<1>4. CASE LoopStep \/ ReceiveHangs \/ ReceiveRecovers \/ \E s \in Slots : HandlerEnds(s)
  <2>1. /\ ~signalled /\ HasTracker => loop' \in {"receiving", "dispatching"}
        /\ hung' /\ ~hung => excused'
    BY <1>4 DEF LoopStep, Receive, Dispatch, LoopEnds, ReceiveHangs, ReceiveRecovers, HandlerEnds,
                Fault, Frame, LifeTypeOK
  <2> QED
    BY <1>4, <2>1, ConsumerSteps DEF group, LifeTypeOK
<1>5. CASE Probe
  BY <1>5 DEF Probe, Healthy, group, consumer, LifeTypeOK
<1>6. CASE Terminate
  BY <1>6 DEF Terminate
<1>7. CASE Restart
  BY <1>7 DEF Restart, HasConsumer
<1>8. CASE DependencyFails \/ DependencyRecovers
  BY <1>8 DEF DependencyFails, DependencyRecovers, Fault, group, consumer, kubelet
<1>9. CASE Exit \/ Tick \/ UNCHANGED lifeVars
  BY <1>9 DEF Exit, Ends, Tick, lifeVars, group, consumer, kubelet
<1> QED
  BY <1>1, <1>2, <1>3, <1>4, <1>5, <1>6, <1>7, <1>8, <1>9
     DEF LifeNext, KubeletStep, GiveUp, Rollout, RequestStep

(* Only a pool that is shared is crowded.                                  *)
LEMMA PoolsKept ==
  ASSUME LifeTypeOK, PoolsAreShared, [LifeNext]_lifeVars
  PROVE  PoolsAreShared'
<1> USE DEF PoolsAreShared, SharesPool, HasTracker
<1>1. CASE ServerFails \/ ShutdownStep \/ BackgroundEnds
  BY <1>1 DEF ServerFails, ShutdownStep, ShutdownStarts, ShutdownEnds, BackgroundEnds, kubelet
<1>2. CASE RequestStep
  BY <1>2 DEF RequestStep, RequestArrives, RequestEnds, PoolFills, PoolFrees, kubelet
<1>3. CASE LoopStep \/ ReceiveHangs \/ ReceiveRecovers \/ \E s \in Slots : HandlerEnds(s)
  BY <1>3, ConsumerSteps DEF group
<1>4. CASE Probe
  <2>1. crowded' = crowded /\ service' = service
    BY <1>4 DEF Probe, group
  <2>2. CASE Healthy
    <3>1. fails' = 0 /\ starved'
      BY <1>4, <2>2 DEF Probe
    <3> QED
      BY <2>1, <3>1
  <2>3. CASE ~Healthy
    <3>1. fails' = fails + 1 /\ (starved' => crowded)
      BY <1>4, <2>3 DEF Probe
    <3> QED
      BY <2>1, <3>1 DEF LifeTypeOK
  <2> QED
    BY <2>2, <2>3
<1>5. CASE Terminate \/ Exit \/ DependencyFails \/ DependencyRecovers
  BY <1>5 DEF Terminate, Exit, Ends, DependencyFails, DependencyRecovers, group, kubelet
<1>6. CASE Restart
  BY <1>6, LifeConstants DEF Restart
<1>7. CASE Tick \/ UNCHANGED lifeVars
  BY <1>7 DEF Tick, lifeVars, group, kubelet
<1> HIDE DEF PoolsAreShared, SharesPool, HasTracker
<1> QED
  BY <1>1, <1>2, <1>3, <1>4, <1>5, <1>6, <1>7
     DEF LifeNext, KubeletStep, GiveUp, Rollout, RequestStep

(* While the health of a worker counts, a batch has its slots: it is at    *)
(* work until the mark is as old as a handler may be.                      *)
LEMMA BatchesKept ==
  ASSUME LifeTypeOK, DispatchersHaveWork, BatchesFit, [LifeNext]_lifeVars, LifeTypeOK'
  PROVE  BatchesFit'
<1> USE LifeConstants, ProbeAssumption DEF ProbeAssumption, HasTracker
<1>0. /\ IsFiniteSet(busy) /\ IsFiniteSet(Slots)
      /\ busy \subseteq Slots /\ busy' \subseteq Slots
      /\ age \in [Slots -> 0 .. HandlerTimeout] /\ age' \in [Slots -> 0 .. HandlerTimeout]
      /\ mark \in Nat /\ mark' \in Nat /\ batch \in Nat
  BY LifecycleAssumption, FS_Subset DEF LifecycleAssumption, LifeTypeOK
<1>1. IsFiniteSet(Newer) /\ IsFiniteSet(Newer')
      /\ Cardinality(Newer) \in Nat /\ Cardinality(Newer') \in Nat
  <2>1. Newer \subseteq Slots /\ Newer' \subseteq Slots
    BY <1>0 DEF Newer
  <2> QED
    BY <1>0, <2>1, FS_Subset, FS_CardinalityType
<1>2. CASE ServerFails \/ ShutdownStep \/ BackgroundEnds \/ RequestStep
  BY <1>2, GroupSteps DEF consumer, BatchesFit, Newer
<1>3. ASSUME NEW n \in 0 .. BatchMax, Receive(n)
      PROVE  BatchesFit'
  <2>1. Newer' = {}
    BY <1>0, <1>3 DEF Receive, MarkHealthy, Newer
  <2>2. Cardinality(Newer') = 0
    BY <2>1, FS_EmptySet
  <2> QED
    BY <1>3, <2>2 DEF Receive, MarkHealthy, BatchesFit
<1>4. ASSUME NEW s \in Slots, Dispatch(s)
      PROVE  BatchesFit'
  <2>1. Newer' \subseteq Newer \cup {s}
    BY <1>0, <1>4 DEF Dispatch, Newer
  <2>2. /\ IsFiniteSet(Newer \cup {s})
        /\ Cardinality(Newer \cup {s}) \in {Cardinality(Newer), Cardinality(Newer) + 1}
    BY <1>1, FS_AddElement
  <2>3. Cardinality(Newer') <= Cardinality(Newer) + 1
    <3>1. Cardinality(Newer') <= Cardinality(Newer \cup {s})
      BY <2>1, <2>2, FS_Subset
    <3> QED
      BY <1>1, <2>2, <3>1
  <2>4. /\ loop = "dispatching" /\ batch' = batch - 1 /\ mark' = mark /\ service' = service
        /\ loop' = "dispatching" => batch # 1
    BY <1>4 DEF Dispatch, Frame
  <2> HIDE DEF HasTracker
  <2>5. HasTracker' = HasTracker
    BY <2>4 DEF HasTracker
  <2> QED
    BY <1>0, <1>1, <2>3, <2>4, <2>5 DEF BatchesFit
<1>5. ASSUME NEW s \in Slots, HandlerEnds(s)
      PROVE  BatchesFit'
  <2>1. Newer' \subseteq Newer
    BY <1>0, <1>5 DEF HandlerEnds, Newer
  <2>2. Cardinality(Newer') <= Cardinality(Newer)
    BY <1>1, <2>1, FS_Subset
  <2> QED
    BY <1>0, <1>1, <1>5, <2>2 DEF HandlerEnds, Frame, BatchesFit
<1>6. CASE LoopEnds \/ ReceiveHangs \/ ReceiveRecovers
  <2>1. Newer' = Newer
    BY <1>6 DEF LoopEnds, ReceiveHangs, ReceiveRecovers, Newer
  <2> QED
    BY <1>6, <2>1 DEF LoopEnds, ReceiveHangs, ReceiveRecovers, Frame, BatchesFit
<1>7. CASE Probe \/ Terminate \/ Exit \/ DependencyFails \/ DependencyRecovers
  BY <1>7 DEF Probe, Terminate, Exit, Ends, DependencyFails, DependencyRecovers, consumer,
              BatchesFit, Newer
<1>8. CASE Restart
  BY <1>8 DEF Restart, BatchesFit
<1>9. ASSUME Tick, loop = "dispatching"
      PROVE  BatchesFit'
  <2>1. batch' = batch /\ batch >= 1 /\ service' = service /\ loop' = loop
    BY <1>9 DEF Tick, DispatchersHaveWork
  <2>2. ASSUME HasTracker
        PROVE  mark' <= HandlerTimeout /\ Newer' = Newer
    <3>1. OwnSlots = Slots
      BY <2>2 DEF OwnSlots
    <3>2. busy = Slots /\ \A s \in Slots : age[s] < HandlerTimeout
      BY <1>0, <1>9, <3>1 DEF Tick, Due, ConsumerDue
    <3>3. mark <= HandlerTimeout /\ Cardinality(Newer) + batch <= BatchMax
      BY <1>9, <2>2 DEF BatchesFit
    <3>4. mark # HandlerTimeout
      <4>1. SUFFICES ASSUME mark = HandlerTimeout PROVE FALSE
        OBVIOUS
      <4>2. Newer = Slots
        BY <1>0, <3>2, <4>1 DEF Newer
      <4> QED
        BY <1>0, <1>1, <2>1, <3>3, <4>2
    <3>5. mark' = mark + 1
      BY <1>0, <1>9, <2>2, <3>3 DEF Tick
    <3>6. busy' = busy /\ \A s \in Slots : age'[s] = age[s] + 1
      BY <1>9, <3>2 DEF Tick
    <3>7. \A s \in Slots : age'[s] < mark' <=> age[s] < mark
      BY <1>0, <3>5, <3>6
    <3> QED
      BY <1>0, <3>2, <3>3, <3>4, <3>5, <3>6, <3>7 DEF Newer
  <2> QED
    BY <1>9, <2>1, <2>2 DEF BatchesFit
<1>10. CASE UNCHANGED lifeVars
  BY <1>10 DEF lifeVars, consumer, BatchesFit, Newer
<1>11. ASSUME Tick, loop # "dispatching"
       PROVE  BatchesFit'
  BY <1>11 DEF Tick, BatchesFit
<1> HIDE DEF HasTracker, ProbeAssumption
<1> QED
  BY <1>2, <1>3, <1>4, <1>5, <1>6, <1>7, <1>8, <1>9, <1>10, <1>11
     DEF LifeNext, LoopStep, KubeletStep, GiveUp, Rollout, RequestStep

(* While nothing fails, a worker's mark is late by the long poll at most.  *)
LEMMA MarksKept ==
  ASSUME LifeTypeOK, UnlessExcused, OnlyFailuresCancel, DispatchersHaveWork, BatchesFit,
         BatchesFit', MarksAreTimely, [LifeNext]_lifeVars
  PROVE  MarksAreTimely'
<1> USE LifeConstants, ProbeAssumption DEF ProbeAssumption, HasTracker, MarksAreTimely
<1>0. /\ mark \in Nat /\ polled \in Nat
      /\ loop \in {"none", "receiving", "dispatching", "done"}
  BY DEF LifeTypeOK
<1>1. CASE ServerFails \/ ShutdownStep \/ BackgroundEnds \/ RequestStep
  BY <1>1, GroupSteps DEF consumer
<1>2. ASSUME NEW n \in 0 .. BatchMax, Receive(n)
      PROVE  MarksAreTimely'
  BY <1>2 DEF Receive, MarkHealthy
<1>3. ASSUME NEW s \in Slots, Dispatch(s) \/ HandlerEnds(s)
      PROVE  MarksAreTimely'
  BY <1>3 DEF Dispatch, HandlerEnds, Frame, kubelet
<1>4. CASE LoopEnds
  BY <1>4 DEF LoopEnds, Frame
<1>5. CASE ReceiveHangs
  BY <1>5 DEF ReceiveHangs, Fault
<1>6. CASE ReceiveRecovers
  BY <1>6 DEF ReceiveRecovers, Frame, kubelet, UnlessExcused
<1>7. CASE Probe
  <2>1. CASE Healthy
    BY <1>0, <1>7, <2>1 DEF Probe, Healthy, Fresh, consumer
  <2>2. CASE ~Healthy
    BY <1>7, <2>2 DEF Probe, consumer
  <2> QED
    BY <2>1, <2>2
<1>8. CASE Terminate
  BY <1>8 DEF Terminate
<1>9. CASE Restart
  BY <1>9 DEF Restart
<1>10. CASE DependencyFails \/ DependencyRecovers \/ Exit \/ UNCHANGED lifeVars
  BY <1>10 DEF DependencyFails, DependencyRecovers, Fault, Exit, Ends, lifeVars, consumer, kubelet
<1>11. CASE Tick
  <2>1. CASE loop = "dispatching"
    BY <1>0, <1>11, <2>1 DEF Tick, BatchesFit
  <2>2. CASE loop = "receiving"
    BY <1>0, <1>11, <2>2 DEF Tick, UnlessExcused
  <2>3. CASE loop \in {"none", "done"}
    BY <1>11, <2>3 DEF Tick, OnlyFailuresCancel
  <2> QED
    BY <1>0, <2>1, <2>2, <2>3
<1> HIDE DEF HasTracker, ProbeAssumption, MarksAreTimely
<1> QED
  BY <1>1, <1>2, <1>3, <1>4, <1>5, <1>6, <1>7, <1>8, <1>9, <1>10, <1>11
     DEF LifeNext, LoopStep, KubeletStep, GiveUp, Rollout, RequestStep

(* A probe that fails although nothing failed finds the worker in its long *)
(* poll, as the probes before it did.                                      *)
LEMMA ProbesFailInLongPolls ==
  ASSUME LifeTypeOK, UnlessExcused, OnlyFailuresCancel, BatchesFit, MarksAreTimely,
         FailuresAreLongPolls, Probe, ~Healthy, ~excused, HasTracker
  PROVE  /\ mark > MaxAge
         /\ loop = "receiving" /\ polled >= 1 + fails * ProbePeriod
<1> USE LifeConstants, ProbeAssumption DEF ProbeAssumption
<1>0. /\ mark \in Nat /\ polled \in Nat /\ fails \in Nat
      /\ ~signalled /\ probeIn = 0
  BY DEF Probe, LifeTypeOK
<1>1. mark > MaxAge
  BY <1>0 DEF UnlessExcused, Healthy, Fresh
<1>2. loop = "receiving"
  BY <1>0, <1>1 DEF OnlyFailuresCancel, BatchesFit
<1>3. polled >= 1
  BY <1>0, <1>1 DEF MarksAreTimely
<1>4. CASE fails = 0
  BY <1>0, <1>1, <1>2, <1>3, <1>4
<1>5. CASE fails >= 1
  BY <1>0, <1>1, <1>2, <1>5 DEF FailuresAreLongPolls
<1> QED
  BY <1>0, <1>4, <1>5

(* A probe of a service that fails although nothing failed finds no        *)
(* connection, as the probes before it did.                                *)
LEMMA ProbesFailInCrowds ==
  ASSUME LifeTypeOK, UnlessExcused, PoolsAreShared, FailuresAreLongPolls,
         Probe, ~Healthy, ~excused, ~HasTracker
  PROVE  starved' /\ SharesPool
<1>1. ~signalled
  BY DEF Probe
<1>2. crowded
  BY <1>1 DEF UnlessExcused, Healthy, PingOK
<1>3. starved
  BY <1>1 DEF FailuresAreLongPolls, PoolsAreShared, LifeTypeOK
<1> QED
  BY <1>2, <1>3 DEF Probe, PoolsAreShared

(* A long poll is over before the last of the probes that kill a worker.   *)
LEMMA ProbesKept ==
  ASSUME LifeTypeOK, UnlessExcused, OnlyFailuresCancel, PoolsAreShared, BatchesFit,
         MarksAreTimely, FailuresAreLongPolls, RestartsHaveReasons, [LifeNext]_lifeVars
  PROVE  FailuresAreLongPolls' /\ RestartsHaveReasons'
<1> USE LifeConstants DEF HasTracker, SharesPool, FailuresAreLongPolls, RestartsHaveReasons
<1>0. /\ mark \in Nat /\ polled \in Nat /\ polled <= LongPoll /\ fails \in Nat /\ probeIn \in Nat
      /\ fails * ProbePeriod \in Nat
  BY DEF LifeTypeOK
<1>1. CASE ServerFails \/ ShutdownStep \/ BackgroundEnds \/ RequestStep
  BY <1>1, GroupSteps DEF consumer
<1>2. ASSUME NEW n \in 0 .. BatchMax, Receive(n)
      PROVE  FailuresAreLongPolls' /\ RestartsHaveReasons'
  BY <1>0, <1>2 DEF Receive, MarkHealthy, Frame, kubelet
<1>3. ASSUME NEW s \in Slots, Dispatch(s) \/ HandlerEnds(s)
      PROVE  FailuresAreLongPolls' /\ RestartsHaveReasons'
  BY <1>0, <1>3 DEF Dispatch, HandlerEnds, Frame, kubelet
<1>4. CASE LoopEnds
  BY <1>4 DEF LoopEnds, Frame, kubelet
<1>5. CASE ReceiveHangs
  BY <1>5 DEF ReceiveHangs, Fault
<1>6. CASE ReceiveRecovers
  BY <1>6 DEF ReceiveRecovers, Frame, kubelet, UnlessExcused
<1>7. ASSUME Probe, Healthy
      PROVE  FailuresAreLongPolls' /\ RestartsHaveReasons'
  BY <1>7 DEF Probe
<1>8. ASSUME Probe, ~Healthy
      PROVE  FailuresAreLongPolls' /\ RestartsHaveReasons'
  <2>1. /\ fails' = fails + 1 /\ probeIn' = ProbePeriod /\ excused' = excused
        /\ UNCHANGED <<service, signalled, loop, polled, mark>>
    BY <1>8 DEF Probe, consumer
  <2>2. CASE excused
    BY <2>1, <2>2
  <2>3. CASE ~excused /\ ~HasTracker
    <3>1. starved' /\ SharesPool
      BY <1>8, <2>3, ProbesFailInCrowds
    <3> QED
      BY <1>0, <2>1, <2>3, <3>1
  <2>4. CASE ~excused /\ HasTracker
    <3>1. /\ loop = "receiving" /\ polled >= 1 + fails * ProbePeriod
      BY <1>8, <2>4, ProbesFailInLongPolls
    <3>2. fails' * ProbePeriod = fails * ProbePeriod + ProbePeriod
      BY <1>0, <2>1
    <3>3. fails' # Threshold
      <4>1. SUFFICES ASSUME fails = Threshold - 1 PROVE FALSE
        BY <1>0, <2>1
      <4>2. LongPoll <= fails * ProbePeriod
        BY <4>1, ProbeAssumption DEF ProbeAssumption
      <4> QED
        BY <1>0, <3>1, <4>2
    <3>4. polled' >= 1 + fails' * ProbePeriod - probeIn'
      BY <1>0, <2>1, <3>1, <3>2
    <3> QED
      BY <1>0, <2>1, <2>4, <3>1, <3>3, <3>4
  <2> QED
    BY <2>2, <2>3, <2>4
<1>9. CASE Terminate
  BY <1>9 DEF Terminate, kubelet
<1>10. CASE Restart
  BY <1>10 DEF Restart
<1>11. CASE DependencyFails \/ DependencyRecovers \/ Exit \/ UNCHANGED lifeVars
  BY <1>11 DEF DependencyFails, DependencyRecovers, Fault, Exit, Ends, lifeVars, consumer, kubelet
<1>12. CASE Tick
  <2>1. CASE signalled
    BY <1>12, <2>1 DEF Tick
  <2>2. CASE ~signalled
    <3>1. /\ fails' = fails /\ probeIn' = probeIn - 1 /\ excused' = excused /\ starved' = starved
          /\ UNCHANGED <<service, signalled, loop>>
          /\ mark' \in {mark, mark + 1}
          /\ loop = "receiving" /\ ~hung => polled' = polled + 1
      BY <1>12, <2>2 DEF Tick
    <3> QED
      BY <1>0, <2>2, <3>1 DEF UnlessExcused
  <2> QED
    BY <2>1, <2>2
<1> HIDE DEF HasTracker, SharesPool, FailuresAreLongPolls, RestartsHaveReasons
<1> QED
  BY <1>1, <1>2, <1>3, <1>4, <1>5, <1>6, <1>7, <1>8, <1>9, <1>10, <1>11, <1>12
     DEF LifeNext, LoopStep, KubeletStep, GiveUp, Rollout, RequestStep

-----------------------------------------------------------------------------
(* Lifecycle: the theorems.                                                *)

(* How a process ends: its shutdown waits for its requests, its loop for   *)
(* its handlers, and the time since SIGTERM is that of the drain.          *)
THEOREM LifeInductive == LifeSafeSpec => []LifeIInv
<1>1. LifeIInv /\ [LifeNext]_lifeVars => LifeIInv'
  BY LifeTypesKept, EndsAreKept, DrainKept, DispatchersKept DEF LifeIInv
<1> QED
  BY <1>1, LifeStarts, PTL DEF LifeSafeSpec

(* What makes a probe fail while nothing is out of order: in a worker      *)
(* whose batches fit into its slots (ProbeAssumption, used in what follows *)
(* only) one long poll, in a service a pool of which every connection is   *)
(* taken.                                                                  *)
THEOREM ProbesInductive == LifeSafeSpec => []ProbeIInv
<1>1. LifeIInv /\ [LifeNext]_lifeVars => LifeIInv'
  BY LifeTypesKept, EndsAreKept, DrainKept, DispatchersKept DEF LifeIInv
<1>2. ProbeIInv /\ [LifeNext]_lifeVars => ProbeIInv'
  BY <1>1, FailuresKept, PoolsKept, BatchesKept, MarksKept, ProbesKept DEF ProbeIInv, LifeIInv
<1> QED
  BY <1>2, ProbesStart, PTL DEF LifeSafeSpec

(* The kubelet gives up on a worker only when something failed since the   *)
(* last good probe: however long its handlers and its long polls take, a   *)
(* worker that is busy or idle keeps its life.  On a service that shares   *)
(* the pool of its health check with its requests it also gives up when    *)
(* each probe of the row found the pool taken.                             *)
THEOREM NoProcessIsKilledForWork == LifeSafeSpec => []RestartsHaveReasons
BY ProbesInductive, PTL DEF ProbeIInv

(* A process that got SIGTERM is down before the kubelet kills it, when    *)
(* the drain deadlines are within the grace period (DrainAssumption),      *)
(* whatever its consumer was doing: receiving, waiting for slots or at     *)
(* work on a batch of any size.                                            *)
THEOREM ProcessesStopInTime == LifeSafeSpec => []StopsInTime
<1>1. LifeIInv => StopsInTime
  BY LifeConstants, DrainAssumption
     DEF DrainAssumption, LifeIInv, LifeTypeOK, DrainIsTimed, DrainLimit, StopsInTime
<1> QED
  BY <1>1, LifeInductive, PTL

(* A process that exits with 0 has cut off no request and no handler.      *)
(* No assumption on slots, batches or durations is needed.                 *)
THEOREM CleanExitsAreClean == LifeSafeSpec => []CleanExitsLoseNothing
BY LifeInductive, PTL DEF LifeIInv
==============================================================================
