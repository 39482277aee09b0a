-------------------------------- MODULE Hub ---------------------------------
(***************************************************************************)
(* edge-gateway's WebSocket hub.  One goroutine broadcasts the messages of *)
(* the Redis subscription; every client has a channel with a bounded       *)
(* buffer, a goroutine that writes what the channel holds to the           *)
(* connection, and one that reads from the connection only to notice its   *)
(* end.  Either goroutine unregisters the client and closes its channel.   *)
(*                                                                         *)
(* A mutex guards the map of clients.  The broadcaster holds it while it   *)
(* visits the clients; registering and unregistering are one step each,    *)
(* taken while it does not.                                                *)
(***************************************************************************)
EXTENDS Naturals, Sequences

CONSTANTS
  Conns,        \* the WebSocket connections
  BufferSize,   \* of a client's channel (16 in the code)
  MaxMessages   \* bound on the messages broadcast

ASSUME HubAssumption ==
  /\ BufferSize \in Nat \ {0}
  /\ MaxMessages \in Nat

VARIABLES
  clients,      \* the keys of h.clients
  send,         \* what the channel of each client buffers
  closed,       \* clients whose channel is closed
  conn,         \* each connection new, open, gone (by the client) or closed
  writer,       \* where the writing goroutine is
  reader,       \* where the reading goroutine is
  writing,      \* the message the writer took off the channel
  phase,        \* of broadcast: "idle", "sending" (holds the mutex), "closing"
  todo,         \* clients broadcast has yet to visit
  slow,         \* clients it found with a full buffer
  latest,       \* number of the latest message; numbers stand for messages
  last          \* history: the last message that went out on each connection,
                \* or the latest one when it registered

mapVars == <<clients, closed>>
castVars == <<phase, todo, slow, latest>>
vars == <<mapVars, castVars, send, conn, writer, reader, writing, last>>

Steps == {"none", "running", "leaving", "closing", "done"}

TypeOK ==
  /\ clients \cup closed \cup todo \cup slow \subseteq Conns
  /\ send \in [Conns -> Seq(1 .. MaxMessages)]
  /\ \A c \in Conns : Len(send[c]) <= BufferSize
  /\ conn \in [Conns -> {"new", "open", "gone", "closed"}]
  /\ writer \in [Conns -> Steps]
  /\ reader \in [Conns -> Steps]
  /\ writing \in [Conns -> 0 .. MaxMessages]
  /\ phase \in {"idle", "sending", "closing"}
  /\ latest \in 0 .. MaxMessages
  /\ last \in [Conns -> 0 .. MaxMessages]

Init ==
  /\ clients = {} /\ closed = {} /\ todo = {} /\ slow = {}
  /\ send = [c \in Conns |-> <<>>]
  /\ conn = [c \in Conns |-> "new"]
  /\ writer = [c \in Conns |-> "none"]
  /\ reader = [c \in Conns |-> "none"]
  /\ writing = [c \in Conns |-> 0]
  /\ phase = "idle"
  /\ latest = 0
  /\ last = [c \in Conns |-> 0]

MutexFree == phase # "sending"

-----------------------------------------------------------------------------
(* broadcast, in the goroutine of runSubscription.                         *)

Broadcast ==
  /\ phase = "idle"
  /\ latest < MaxMessages
  /\ latest' = latest + 1
  /\ phase' = "sending"
  /\ todo' = clients
  /\ UNCHANGED <<mapVars, slow, send, conn, writer, reader, writing, last>>

Offer_Blocks(c) ==
  /\ phase = "sending" /\ c \in todo
  /\ Len(send[c]) < BufferSize
  /\ todo' = todo \ {c}
  /\ send' = [send EXCEPT ![c] = Append(@, latest)]
  /\ UNCHANGED <<mapVars, phase, slow, latest, conn, writer, reader, writing, last>>
\* select { case send <- msg: default: }
Offer(c) ==
  /\ phase = "sending" /\ c \in todo
  /\ todo' = todo \ {c}
  /\ IF Len(send[c]) < BufferSize
       THEN send' = [send EXCEPT ![c] = Append(@, latest)] /\ UNCHANGED slow
       ELSE slow' = slow \cup {c} /\ UNCHANGED send
  /\ UNCHANGED <<mapVars, phase, latest, conn, writer, reader, writing, last>>

Unlock ==
  /\ phase = "sending" /\ todo = {}
  /\ phase' = "closing"
  /\ UNCHANGED <<mapVars, todo, slow, latest, send, conn, writer, reader, writing, last>>

CloseSlow_OnlyLogs(c) ==
  /\ phase = "closing" /\ c \in slow
  /\ slow' = slow \ {c}
  /\ UNCHANGED <<mapVars, phase, todo, latest, send, conn, writer, reader, writing, last>>
CloseSlow(c) ==
  /\ phase = "closing" /\ c \in slow
  /\ slow' = slow \ {c}
  /\ conn' = [conn EXCEPT ![c] = "closed"]
  /\ UNCHANGED <<mapVars, phase, todo, latest, send, writer, reader, writing, last>>

EndBroadcast ==
  /\ phase = "closing" /\ slow = {}
  /\ phase' = "idle"
  /\ UNCHANGED <<mapVars, todo, slow, latest, send, conn, writer, reader, writing, last>>

-----------------------------------------------------------------------------
(* handleWS and the two goroutines of a client.                            *)

Register(c) ==
  /\ conn[c] = "new" /\ MutexFree
  /\ clients' = clients \cup {c}
  /\ conn' = [conn EXCEPT ![c] = "open"]
  /\ writer' = [writer EXCEPT ![c] = "running"]
  /\ reader' = [reader EXCEPT ![c] = "running"]
  /\ last' = [last EXCEPT ![c] = latest]
  /\ UNCHANGED <<closed, castVars, send, writing>>

\* range send: also when the channel is closed and still holds something
Take(c) ==
  /\ writer[c] = "running" /\ writing[c] = 0 /\ send[c] # <<>>
  /\ writing' = [writing EXCEPT ![c] = Head(send[c])]
  /\ send' = [send EXCEPT ![c] = Tail(@)]
  /\ UNCHANGED <<mapVars, castVars, conn, writer, reader, last>>

\* WriteMessage returns nil; on a connection the client left nobody gets it
Write(c) ==
  /\ writer[c] = "running" /\ writing[c] # 0
  /\ conn[c] \in {"open", "gone"}
  /\ last' = IF conn[c] = "open" THEN [last EXCEPT ![c] = writing[c]] ELSE last
  /\ writing' = [writing EXCEPT ![c] = 0]
  /\ UNCHANGED <<mapVars, castVars, send, conn, writer, reader>>

\* the connection is closed or broken, or the client takes nothing for 10 s
WriteFails(c) ==
  /\ writer[c] = "running" /\ writing[c] # 0
  /\ writer' = [writer EXCEPT ![c] = "leaving"]
  /\ UNCHANGED <<mapVars, castVars, send, conn, reader, writing, last>>

ChannelEnds(c) ==
  /\ writer[c] = "running" /\ writing[c] = 0
  /\ c \in closed /\ send[c] = <<>>
  /\ writer' = [writer EXCEPT ![c] = "leaving"]
  /\ UNCHANGED <<mapVars, castVars, send, conn, reader, writing, last>>

ReadFails(c) ==
  /\ reader[c] = "running" /\ conn[c] \in {"gone", "closed"}
  /\ reader' = [reader EXCEPT ![c] = "leaving"]
  /\ UNCHANGED <<mapVars, castVars, send, conn, writer, writing, last>>

Unregister_NoMutex(c) ==
  /\ clients' = clients \ {c}
  /\ closed' = IF c \in clients THEN closed \cup {c} ELSE closed
Unregister_KeepsChannel(c) ==
  /\ MutexFree
  /\ clients' = clients \ {c}
  /\ UNCHANGED closed
\* the first to come closes the channel, the second finds the entry gone
Unregister(c) ==
  /\ MutexFree
  /\ clients' = clients \ {c}
  /\ closed' = IF c \in clients THEN closed \cup {c} ELSE closed

WriterUnregisters(c) ==
  /\ writer[c] = "leaving"
  /\ Unregister(c)
  /\ writer' = [writer EXCEPT ![c] = "closing"]
  /\ UNCHANGED <<castVars, send, conn, reader, writing, last>>

ReaderUnregisters(c) ==
  /\ reader[c] = "leaving"
  /\ Unregister(c)
  /\ reader' = [reader EXCEPT ![c] = "closing"]
  /\ UNCHANGED <<castVars, send, conn, writer, writing, last>>

WriterCloses(c) ==
  /\ writer[c] = "closing"
  /\ writer' = [writer EXCEPT ![c] = "done"]
  /\ conn' = [conn EXCEPT ![c] = "closed"]
  /\ UNCHANGED <<mapVars, castVars, send, reader, writing, last>>

ReaderCloses(c) ==
  /\ reader[c] = "closing"
  /\ reader' = [reader EXCEPT ![c] = "done"]
  /\ conn' = [conn EXCEPT ![c] = "closed"]
  /\ UNCHANGED <<mapVars, castVars, send, writer, writing, last>>

ClientLeaves(c) ==
  /\ conn[c] = "open"
  /\ conn' = [conn EXCEPT ![c] = "gone"]
  /\ UNCHANGED <<mapVars, castVars, send, writer, reader, writing, last>>

-----------------------------------------------------------------------------
CastStep == Broadcast \/ Unlock \/ EndBroadcast \/ \E c \in Conns : Offer(c) \/ CloseSlow(c)

WriterStep(c) ==
  Take(c) \/ Write(c) \/ WriteFails(c) \/ ChannelEnds(c) \/ WriterUnregisters(c) \/ WriterCloses(c)

ReaderStep(c) == ReadFails(c) \/ ReaderUnregisters(c) \/ ReaderCloses(c)

Next ==
  \/ CastStep
  \/ \E c \in Conns : Register(c) \/ WriterStep(c) \/ ReaderStep(c) \/ ClientLeaves(c)

SafeSpec == Init /\ [][Next]_vars

\* every goroutine runs, a write ends within its deadline, and whoever waits
\* for the mutex gets it in the end: weak fairness is enough, since the mutex
\* is free for good after MaxMessages broadcasts
Spec ==
  /\ SafeSpec
  /\ WF_vars(CastStep)
  /\ \A c \in Conns : WF_vars(WriterStep(c)) /\ WF_vars(ReaderStep(c))

-----------------------------------------------------------------------------
(* What the hub guarantees.                                                *)

(* No client in the map, and none the broadcaster is about to visit, has a *)
(* closed channel: a send on it, or a second close, would end the process. *)
NoUseOfClosedChannels == (clients \cup todo) \cap closed = {}

(* What a client gets has no gap: it starts with the first message after   *)
(* its registration, and a client that was too slow for one message gets   *)
(* no later one.                                                           *)
NoGaps ==
  [][\A c \in Conns : conn[c] # "new" => last'[c] \in {last[c], last[c] + 1}]_vars

(* A broadcast ends, whatever the clients do.                              *)
BroadcastsEnd == phase = "sending" ~> phase = "idle"

(* A connection that is closed or left is forgotten: both its goroutines   *)
(* end and the map has no entry for it.                                    *)
ClientsAreForgotten ==
  \A c \in Conns : conn[c] \in {"gone", "closed"} ~>
     c \notin clients /\ writer[c] = "done" /\ reader[c] = "done"

-----------------------------------------------------------------------------
(* The inductive invariant of NoUseOfClosedChannels and NoGaps, proved in  *)
(* ServiceProofs.                                                          *)

(* The broadcaster visits clients of the map only, finds each slow once,   *)
(* and starts over when it has dealt with them; a connection that is not   *)
(* registered yet has left no trace.                                       *)
RoundsAreClean ==
  /\ todo \subseteq clients
  /\ phase # "sending" => todo = {}
  /\ phase = "sending" => latest > 0
  /\ phase = "idle" => slow = {}
  /\ todo \cap slow = {}
  /\ \A c \in Conns : conn[c] = "new" =>
       c \notin clients \cup closed \cup slow /\ send[c] = <<>> /\ writing[c] = 0

\* what is due after what went out and what the writer holds
Upcoming(c) == IF writing[c] = 0 THEN last[c] + 1 ELSE last[c] + 2

(* Behind an open connection the messages wait in order: one with the      *)
(* writer, the rest in the channel.                                        *)
WaitingInOrder ==
  \A c \in Conns : conn[c] = "open" =>
    /\ writing[c] \in {0, last[c] + 1}
    /\ \A i \in 1 .. Len(send[c]) : send[c][i] = Upcoming(c) + i - 1

(* And none is missing, up to the one being broadcast, unless the client   *)
(* was found slow: then its connection is closed before the next message.  *)
NoneIsMissing ==
  \A c \in clients \ slow : conn[c] = "open" =>
    Upcoming(c) + Len(send[c]) = IF c \in todo THEN latest ELSE latest + 1

HubIInv ==
  /\ TypeOK
  /\ NoUseOfClosedChannels
  /\ RoundsAreClean
  /\ WaitingInOrder
  /\ NoneIsMissing
==============================================================================
