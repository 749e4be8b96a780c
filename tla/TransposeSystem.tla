---------------------------- MODULE TransposeSystem ----------------------------
(***************************************************************************)
(* transpose_server and its clients together.  The server's threads are    *)
(* those of ClientBank; here their messages come from the clients' main    *)
(* function over the socket, their requests from the clients' queues, and  *)
(* their results and wake-ups go back to the clients.  The server may fail *)
(* to set a context up, and may be stopped at any time.                    *)
(*                                                                         *)
(* A client's request queue and its signaller are the objects SpscFifo and *)
(* AutoResetEvent, which SpscQueueSeqLock and FutexSignaller implement.  A *)
(* Dequeue that fails because it overlaps an Enqueue counts as one before  *)
(* that Enqueue: a client has one request in its queue at the most         *)
(* (OneRequestPerWait).  The socket keeps the messages whole, as           *)
(* UnixSockIpc shows.                                                      *)
(***************************************************************************)
EXTENDS ClientBank, Sequences, ClientServerMessage

CONSTANTS
  NumBuffers,       \* k: the number of matrices of a client
  Repetitions,      \* r: how often each of them is sent
  QueueCapacity,    \* GetRealCapacity() of the request queue
  PromptServer,     \* the IPC thread reads a message before the 10 ms that a
                    \* client sleeps at its end are over
  SetupMayFail,     \* a constructor in AddClient or in the client's main may throw
  ServerPid

ASSUME SystemAssumption ==
  /\ NumBuffers \in Nat \ {0} /\ Repetitions \in Nat /\ QueueCapacity \in Nat \ {0}
  /\ PromptServer \in BOOLEAN /\ SetupMayFail \in BOOLEAN

VARIABLES
  cPc, done,    \* client: control of main, requests finished in its loop
  received,     \* client: subscribeResponseReceived
  toServer,     \* messages on the client's socket
  toClient,
  queue,        \* pRequestQueue
  event,        \* pTransposeReadyFutex
  transposed,   \* the buffers whose transpose is complete
  buffer,       \* IPC thread: the message MessageHandler looks at
  matrixSize,   \* clientBank[s].matrixSize
  dBuffer,      \* dispatcher: bufferIndex
  stats,        \* clientBank[s].stats.m_TotalRequests
  logged        \* the totalReqs the server logged for a client; -1: none

mainOfClients == <<cPc, done>>
sockets == <<toServer, toClient, received>>
shared == <<queue, event, transposed>>
serverData == <<buffer, matrixSize, dBuffer, stats, logged>>
sysVars == <<vars, mainOfClients, sockets, shared, serverData>>

Buffers == 0 .. NumBuffers - 1
TotalRequests == Repetitions * NumBuffers
NoMessage == [type |-> "none", senderId |-> None]

\* Each client has an m and an n of its own.
Arguments(c) == [m |-> <<"m", c>>, n |-> <<"n", c>>, k |-> NumBuffers]

\* The two nested loops of the client: request i is for buffer i % k.
BufferOf(i) == i % NumBuffers
LoopHead(i) == IF i < TotalRequests THEN "enqueue" ELSE "unsubscribe"

SysInit ==
  /\ Init
  /\ cPc = [c \in Clients |-> "off"]
  /\ done = [c \in Clients |-> 0]
  /\ received = [c \in Clients |-> FALSE]
  /\ toServer = [c \in Clients |-> <<>>] /\ toClient = [c \in Clients |-> <<>>]
  /\ queue = [c \in Clients |-> <<>>]
  /\ event = [c \in Clients |-> FALSE]
  /\ transposed = [c \in Clients |-> {}]
  /\ buffer = NoMessage
  /\ matrixSize = [s \in Slots |-> None]
  /\ dBuffer = 0
  /\ stats = [s \in Slots |-> 0]
  /\ logged = [c \in Clients |-> -1]

-------------------------------------------------------------------------------
(* The client's main.                                                      *)

\* A process starts: it connects and creates its queue, futex and buffers; if
\* one of them throws it returns.
Connect(c) ==
  /\ cPc[c] = "off" /\ mPc # "done"
  /\ ClientStart(c)
  /\ \/ cPc' = [cPc EXCEPT ![c] = "subscribe"]
     \/ SetupMayFail /\ cPc' = [cPc EXCEPT ![c] = "closed"]
  /\ UNCHANGED <<done, sockets, shared, serverData>>

Subscription(c) ==
  GenerateSubscribeMessage(c, Arguments(c).m, Arguments(c).n, Arguments(c).k)

\* Send, and where main goes on.
Sends(c, from, message, to) ==
  /\ cPc[c] = from /\ mPc # "done"
  /\ toServer' = [toServer EXCEPT ![c] = Append(@, message)]
  /\ cPc' = [cPc EXCEPT ![c] = to]
  /\ UNCHANGED <<vars, done, toClient, received, shared, serverData>>

SendSubscribe(c) == Sends(c, "subscribe", Subscription(c), "await")
SendUnsubscribe(c) == Sends(c, "unsubscribe", GenerateUnsubscribeMessage(c), "check")

\* A Send to a server that has closed the connection: SIGPIPE, or the throw.
SendDies(c) ==
  /\ cPc[c] \in {"subscribe", "unsubscribe"} /\ iPc = "exited"
  /\ cPc' = [cPc EXCEPT ![c] = "closed"]
  /\ UNCHANGED <<vars, done, sockets, shared, serverData>>

\* MessageHandler on the thread of the IPC client.
ReceiveResponse(c) ==
  /\ toClient[c] # <<>>
  /\ toClient' = [toClient EXCEPT ![c] = Tail(@)]
  /\ received' = [received EXCEPT ![c] = TRUE]
  /\ UNCHANGED <<vars, mainOfClients, toServer, shared, serverData>>

\* while (!subscribeResponseReceived) sleep
AwaitResponse(c) ==
  /\ cPc[c] = "await" /\ received[c]
  /\ cPc' = [cPc EXCEPT ![c] = LoopHead(done[c])]
  /\ UNCHANGED <<vars, done, sockets, shared, serverData>>

\* The result of Enqueue is ignored.
ClientEnqueue(c) ==
  /\ cPc[c] = "enqueue"
  /\ queue' = [queue EXCEPT ![c] =
                 IF Len(@) < QueueCapacity THEN Append(@, BufferOf(done[c])) ELSE @]
  /\ cPc' = [cPc EXCEPT ![c] = "wait"]
  /\ UNCHANGED <<vars, done, sockets, event, transposed, serverData>>

EventAfterWait_Kept == TRUE
EventAfterWait == FALSE

ClientWait(c) ==
  /\ cPc[c] = "wait" /\ event[c]
  /\ event' = [event EXCEPT ![c] = EventAfterWait]
  /\ done' = [done EXCEPT ![c] = @ + 1]
  /\ cPc' = [cPc EXCEPT ![c] = LoopHead(done'[c])]
  /\ UNCHANGED <<vars, sockets, queue, transposed, serverData>>

\* The results are compared with TransposeNaive; an error exits at once.
Check(c) ==
  /\ cPc[c] = "check"
  /\ cPc' = [cPc EXCEPT ![c] = IF transposed[c] = Buffers THEN "sleep" ELSE "closed"]
  /\ UNCHANGED <<vars, done, sockets, shared, serverData>>

\* Sleep for 10 ms, then exit, which closes the socket.
Exit(c) ==
  /\ cPc[c] = "sleep"
  /\ PromptServer => toServer[c] = <<>> \/ ~ipcRunning
  /\ cPc' = [cPc EXCEPT ![c] = "closed"]
  /\ UNCHANGED <<vars, done, sockets, shared, serverData>>

-------------------------------------------------------------------------------
(* The server's IPC thread.  An event that was fetched before the client   *)
(* closed its socket is still read; a hang-up drops what is on the socket. *)

BankIndex(c) == CHOOSE s \in Slots : bank[s].subscribed /\ bank[s].id = c

\* MessageHandler, up to its first change of the bank.
Handle(message) ==
  \/ /\ message.type = "Subscribe"
     /\ HandleSubscribe(message.senderId)
     /\ UNCHANGED logged
  \/ /\ message.type = "Unsubscribe"
     /\ HandleUnsubscribe(message.senderId)
     /\ logged' = IF Subscribed(message.senderId)
                    THEN [logged EXCEPT ![message.senderId] = stats[BankIndex(message.senderId)]]
                    ELSE logged

ReceiveFrom(c) ==
  /\ toServer[c] # <<>> /\ ipcRunning
  /\ buffer' = Head(toServer[c])
  /\ toServer' = [toServer EXCEPT ![c] = Tail(@)]
  /\ Handle(buffer')
  /\ UNCHANGED <<mainOfClients, toClient, received, shared, matrixSize, dBuffer, stats>>

\* Once m_Running has fallen nothing is read, and the handler sees the last
\* message again.
StaleCall(c) ==
  /\ toServer[c] # <<>> /\ ~ipcRunning
  /\ Handle(buffer)
  /\ UNCHANGED <<mainOfClients, sockets, shared, buffer, matrixSize, dBuffer, stats>>

\* The process is gone, and what was its own with it.
Hangup(c) ==
  /\ iPc = "idle"
  /\ cPc[c] = "closed" /\ cPc' = [cPc EXCEPT ![c] = "off"]
  /\ ClientLeave(c)
  /\ done' = [done EXCEPT ![c] = 0] /\ received' = [received EXCEPT ![c] = FALSE]
  /\ toServer' = [toServer EXCEPT ![c] = <<>>] /\ toClient' = [toClient EXCEPT ![c] = <<>>]
  /\ queue' = [queue EXCEPT ![c] = <<>>] /\ event' = [event EXCEPT ![c] = FALSE]
  /\ transposed' = [transposed EXCEPT ![c] = {}]
  /\ logged' = [logged EXCEPT ![c] = -1]
  /\ UNCHANGED <<buffer, matrixSize, dBuffer, stats>>

\* clientBank[indexToAdd] = ClientContext()
SysReset ==
  /\ AddClientReset
  /\ stats' = [stats EXCEPT ![iSlot'] = 0]
  /\ matrixSize' = [matrixSize EXCEPT ![iSlot'] = None]
  /\ UNCHANGED <<mainOfClients, sockets, shared, buffer, dBuffer, logged>>

\* The size is in place before a constructor can throw.
SysConstruct ==
  /\ AddClientConstruct \/ (SetupMayFail /\ AddClientThrow)
  /\ matrixSize' = [matrixSize EXCEPT ![iSlot] = ProcessSubscribeMessage(buffer)]
  /\ UNCHANGED <<mainOfClients, sockets, shared, buffer, dBuffer, stats, logged>>

\* Send does nothing once m_Running has fallen.
SysRespond ==
  /\ Respond
  /\ toClient' =
       IF ipcRunning
         THEN [toClient EXCEPT ![iClient] = Append(@,
                GenerateSubscribeResponseMessage(ServerPid, iClient, NumSlots, NumSlots))]
         ELSE toClient
  /\ UNCHANGED <<mainOfClients, toServer, received, shared, serverData>>

SysHandlerStep ==
  \/ SysReset \/ SysConstruct \/ SysRespond
  \/ /\ \/ AddClientSpin \/ AddClientSetBit \/ AddClientFlag
        \/ RemoveClientSpin \/ RemoveClientClearBit \/ RemoveClientFlag \/ RemoveClientAck
        \/ IpcExit
     /\ UNCHANGED <<mainOfClients, sockets, shared, serverData>>

-------------------------------------------------------------------------------
(* The dispatcher, on the context in slot dSlot.                           *)

Owner == bank[dSlot].id

SysDequeue ==
  /\ DispatcherDequeue
  /\ \/ /\ queue[Owner] # <<>> /\ dPc' = "transpose"
        /\ dBuffer' = Head(queue[Owner])
        /\ queue' = [queue EXCEPT ![Owner] = Tail(@)]
     \/ /\ queue[Owner] = <<>> /\ dPc' = "scan"
        /\ UNCHANGED <<dBuffer, queue>>
  /\ UNCHANGED <<mainOfClients, sockets, event, transposed, buffer, matrixSize, stats, logged>>

Result_FirstBuffer == 0
Result == dBuffer

SysTranspose ==
  /\ dPc = "transpose" /\ DispatcherServe
  /\ transposed' = [transposed EXCEPT ![Owner] = @ \cup {Result}]
  /\ UNCHANGED <<mainOfClients, sockets, queue, event, serverData>>

EventAfterWake_None == FALSE
EventAfterWake == TRUE

SysWake ==
  /\ dPc = "wake" /\ DispatcherServe
  /\ event' = [event EXCEPT ![Owner] = EventAfterWake]
  /\ UNCHANGED <<mainOfClients, sockets, queue, transposed, serverData>>

CountedRequests_Not == stats[dSlot]
CountedRequests == stats[dSlot] + 1

\* StopTimer: m_TotalRequests++, after the client has been woken.  bufferIndex
\* goes out of scope.
SysStopTimer ==
  /\ dPc = "stopTimer" /\ DispatcherServe
  /\ stats' = [stats EXCEPT ![dSlot] = CountedRequests]
  /\ dBuffer' = 0
  /\ UNCHANGED <<mainOfClients, sockets, shared, buffer, matrixSize, logged>>

SysDispatcherStep ==
  \/ SysDequeue \/ SysTranspose \/ SysWake \/ SysStopTimer
  \/ /\ DispatcherTop \/ DispatcherCopy \/ DispatcherAck \/ DispatcherScan
     /\ UNCHANGED <<mainOfClients, sockets, shared, serverData>>

SysMainStep == MainStep /\ UNCHANGED <<mainOfClients, sockets, shared, serverData>>

SysEnter == Enter /\ UNCHANGED <<mainOfClients, sockets, shared, serverData>>

-------------------------------------------------------------------------------
MainStepOf(c) ==
  \/ SendSubscribe(c) \/ AwaitResponse(c) \/ ClientEnqueue(c) \/ ClientWait(c)
  \/ SendUnsubscribe(c) \/ SendDies(c) \/ Check(c) \/ Exit(c)

SysNext ==
  \/ \E c \in Clients :
       \/ Connect(c) \/ MainStepOf(c) \/ ReceiveResponse(c)
       \/ ReceiveFrom(c) \/ StaleCall(c) \/ Hangup(c)
  \/ SysHandlerStep
  \/ SysDispatcherStep
  \/ SysEnter \/ SysMainStep

SysSpec == SysInit /\ [][SysNext]_sysVars

(* The threads run.  The IPC thread reaches every connection again and     *)
(* again: epoll hands the ready ones out in turn.  Nobody need start a     *)
(* client or press Enter, and a response may be lost when the server ends. *)
SysFairSpec ==
  /\ SysSpec
  /\ WF_sysVars(SysHandlerStep)
  /\ WF_sysVars(SysDispatcherStep)
  /\ WF_sysVars(SysMainStep)
  /\ \A c \in Clients :
       /\ WF_sysVars(MainStepOf(c))
       /\ WF_sysVars(mPc # "done" /\ ReceiveResponse(c))
       /\ SF_sysVars(ReceiveFrom(c))
       /\ SF_sysVars(Hangup(c))

-------------------------------------------------------------------------------
(* Properties.                                                             *)

\* The request of a client is with the dispatcher.
WithDispatcher(c) == dPc \in {"transpose", "wake"} /\ Owner = c

UnderWay(c) ==
  Len(queue[c]) + (IF WithDispatcher(c) THEN 1 ELSE 0) + (IF event[c] THEN 1 ELSE 0)

\* A client in Wait has one request under way, in its queue, with the
\* dispatcher or as a signal, and any other client has none.  So Enqueue finds
\* room although its result is ignored, no wake-up is left over for a later
\* Wait, and no request is lost.
OneRequestPerWait ==
  \A c \in Clients : UnderWay(c) = IF cPc[c] = "wait" THEN 1 ELSE 0

\* When Wait returns, the buffer of that request has been transposed; so all
\* of them have been by the time the client compares.
ResultsComplete ==
  \A c \in Clients : cPc[c] # "off" => \A i \in 0 .. done[c] - 1 : BufferOf(i) \in transposed[c]

\* The rows, columns and buffers the dispatcher goes by are those with which
\* the client it serves made its matrices, also in a slot that has been used
\* before.
ServesOwnSize ==
  dPc \in {"transpose", "wake"} =>
    matrixSize[dSlot] = Arguments(Owner) /\ dBuffer < matrixSize[dSlot].k

\* The total the server logs for a client that unsubscribes lacks its last
\* request at the most: Wake comes before StopTimer.
LoggedTotals == \A c \in Clients : logged[c] \in {-1, TotalRequests - 1, TotalRequests}

\* AddClient failed, and no answer will come.
Refused(c) == cPc[c] = "await" /\ toServer[c] = <<>> /\ ~Subscribed(c) /\ ~Handling(c)

\* Every client that starts comes to its end, unless the server could not set
\* its context up or is being stopped: it is answered, all its requests are
\* served, and the server forgets the connection.
EveryClientFinishes ==
  \A c \in Clients : cPc[c] = "subscribe" ~> cPc[c] = "off" \/ Refused(c) \/ ~running

\* A client that waits is woken, also while the server is being stopped: only
\* the one whose request the dispatcher had not taken when it left its loop
\* waits for ever.
WaitersWoken ==
  \A c \in Clients : cPc[c] = "wait" ~> cPc[c] # "wait" \/ (dPc = "exited" /\ queue[c] # <<>>)
===============================================================================
