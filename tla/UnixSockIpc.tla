----------------------------- MODULE UnixSockIpc -----------------------------
(***************************************************************************)
(* lib/unix-socks: UnixSockIpcServer and UnixSockIpcClient, the connection *)
(* over which clients subscribe.  The server's thread fetches a batch of   *)
(* events with epoll_wait, accepts, drops connections that hang up, reads  *)
(* one message of fixed size per readable connection and calls the handler *)
(* with it; the handler may Send a reply.  When the server is destroyed    *)
(* the thread leaves that loop and drains the events that are left.        *)
(*                                                                         *)
(* The kernel's part, modelled from how the classes use it: a connect      *)
(* waits in the backlog until it is accepted; a small send is on the       *)
(* stream as a whole; recv may return less than it is asked for, or fail;  *)
(* a closed peer is a hang-up, reported together with unread data; a send  *)
(* to a closed peer ends the sender with SIGPIPE; epoll is level-triggered.*)
(* A connection stands for its descriptor: the number is reused only after *)
(* its last event of a batch has been handled.                             *)
(***************************************************************************)
EXTENDS Naturals, FiniteSets, Sequences

CONSTANTS
  Clients,      \* client processes, each with one connection
  Base,         \* the listening socket, m_BaseSocketFd
  None,         \* the content of a buffer nothing has been read into
  Chunks,       \* sizeof(T), in the units recv may return
  MaxEvents,    \* MAX_EVENTS
  CountMod,     \* m_ConnectionCount wraps here: 2^32
  MaxSends,     \* bound: messages the clients send together
  CallsMayFail  \* recv may fail for a reason other than an empty socket, and
                \* epoll_wait for one like EINTR after a SIGCONT

ASSUME IpcAssumption ==
  /\ IsFiniteSet(Clients) /\ Base \notin Clients
  /\ Chunks \in Nat \ {0} /\ MaxEvents \in Nat \ {0} /\ MaxSends \in Nat
  /\ CountMod \in Nat /\ CountMod > Cardinality(Clients)
  /\ CallsMayFail \in BOOLEAN

VARIABLES
  link,        \* a client's connection: "none", "pending" (in the backlog),
               \* "open" (accepted), "closed" (by the server)
  gone,        \* the clients whose process has ended
  toServer,    \* what is unread by the server, in chunks <<client, message, chunk>>
  toClient,    \* what is unread by a client: the addressees of the replies
  kRunning, kCount,  \* m_Running and m_ConnectionCount of a client
  sRunning, sCount,  \* and of the server
  sPc, events, sFd, totalRead, buffer,  \* ServerThread: control and locals
  sent, handled      \* messages a client has sent, and the handler has had

clientVars == <<gone, kRunning, kCount, sent>>
readVars == <<sFd, totalRead, buffer>>
vars == <<link, toServer, toClient, clientVars, sRunning, sCount, sPc, events, readVars, handled>>

Init ==
  /\ link = [c \in Clients |-> "none"] /\ gone = {}
  /\ toServer = [c \in Clients |-> <<>>] /\ toClient = [c \in Clients |-> <<>>]
  /\ kRunning = [c \in Clients |-> FALSE] /\ kCount = [c \in Clients |-> 0]
  /\ sRunning = TRUE /\ sCount = 0
  /\ sPc = "batch" /\ events = {}
  /\ sFd = None /\ totalRead = 0 /\ buffer = [i \in 1 .. Chunks |-> None]
  /\ sent = [c \in Clients |-> 0] /\ handled = [c \in Clients |-> 0]

Message(c, n) == [i \in 1 .. Chunks |-> <<c, n, i>>]

Decremented_Not(count) == count
Decremented(count) == (count + CountMod - 1) % CountMod

CloseAll == [c \in Clients |-> IF link[c] = "none" THEN "none" ELSE "closed"]

-------------------------------------------------------------------------------
(* A client process and the thread of its UnixSockIpcClient.               *)

SentMessages == {x \in Clients \X (1 .. MaxSends) : x[2] <= sent[x[1]]}

Alive(c) == link[c] # "none" /\ c \notin gone

Connect(c) ==
  /\ link[c] = "none" /\ sPc \notin {"gone", "killed"}
  /\ link' = [link EXCEPT ![c] = "pending"]
  /\ kRunning' = [kRunning EXCEPT ![c] = TRUE]
  /\ UNCHANGED <<toServer, toClient, gone, kCount, sent, sRunning, sCount, sPc, events, readVars, handled>>

\* Send: a client whose thread has seen the hang-up throws, which main does not
\* catch; before that the send raises SIGPIPE.  Either ends the process.
ClientSend(c) ==
  /\ Alive(c) /\ Cardinality(SentMessages) < MaxSends
  /\ IF kRunning[c] /\ link[c] # "closed"
       THEN /\ sent' = [sent EXCEPT ![c] = @ + 1]
            /\ toServer' = [toServer EXCEPT ![c] = @ \o Message(c, sent'[c])]
            /\ UNCHANGED gone
       ELSE gone' = gone \cup {c} /\ UNCHANGED <<sent, toServer>>
  /\ UNCHANGED <<link, toClient, kRunning, kCount, sRunning, sCount, sPc, events, readVars, handled>>

\* ClientThread: a hang-up comes before what is unread and ends the thread, as
\* a failed epoll_wait or recv does.
ClientThread(c) ==
  /\ Alive(c) /\ kRunning[c]
  /\ \/ /\ link[c] = "closed"
        /\ kRunning' = [kRunning EXCEPT ![c] = FALSE]
        /\ kCount' = [kCount EXCEPT ![c] = Decremented(@)]
        /\ UNCHANGED toClient
     \/ /\ link[c] # "closed" /\ toClient[c] # <<>>
        /\ toClient' = [toClient EXCEPT ![c] = Tail(@)]
        /\ UNCHANGED <<kRunning, kCount>>
     \/ /\ CallsMayFail                        \* epoll_wait
        /\ kRunning' = [kRunning EXCEPT ![c] = FALSE]
        /\ UNCHANGED <<kCount, toClient>>
     \/ /\ CallsMayFail /\ link[c] # "closed" /\ toClient[c] # <<>>  \* recv
        /\ kRunning' = [kRunning EXCEPT ![c] = FALSE]
        /\ kCount' = [kCount EXCEPT ![c] = Decremented(@)]
        /\ UNCHANGED toClient
  /\ UNCHANGED <<link, toServer, gone, sent, sRunning, sCount, sPc, events, readVars, handled>>

\* The destructor, or the end of the process: the socket is closed.
ClientClose(c) ==
  /\ Alive(c)
  /\ gone' = gone \cup {c}
  /\ UNCHANGED <<link, toServer, toClient, kRunning, kCount, sent, sRunning, sCount, sPc, events, readVars, handled>>

-------------------------------------------------------------------------------
(* ServerThread.                                                           *)

Pending == {c \in Clients : link[c] = "pending"}

Ready ==
  {c \in Clients : link[c] = "open" /\ (toServer[c] # <<>> \/ c \in gone)}
    \cup {fd \in {Base} : Pending # {}}

Flags_HangupMissed(fd) == "in"
Flags(fd) == IF fd \in gone THEN "hup" ELSE "in"

\* What epoll_wait can return: as many ready descriptors as it has room for.
Batches ==
  {S \in SUBSET Ready :
     Cardinality(S) = IF Cardinality(Ready) < MaxEvents THEN Cardinality(Ready) ELSE MaxEvents}

\* The batch is done: while (m_Running).
LoopTest ==
  /\ sPc = "batch" /\ events = {}
  /\ sPc' = IF sRunning THEN "wait" ELSE "drain"
  /\ UNCHANGED <<link, toServer, toClient, clientVars, sRunning, sCount, events, readVars, handled>>

EpollWait ==
  /\ sPc = "wait"
  /\ \E S \in Batches : events' = {<<fd, Flags(fd)>> : fd \in S}
  /\ sPc' = "batch"
  /\ UNCHANGED <<link, toServer, toClient, clientVars, sRunning, sCount, readVars, handled>>

\* epoll_wait fails: the thread leaves its loop although m_Running holds.
EpollFails ==
  /\ sPc = "wait" /\ CallsMayFail
  /\ sPc' = "drain"
  /\ UNCHANGED <<link, toServer, toClient, clientVars, sRunning, sCount, events, readVars, handled>>

Accept ==
  /\ sPc = "batch" /\ <<Base, "in">> \in events
  /\ \E c \in Pending : link' = [link EXCEPT ![c] = "open"]
  /\ sCount' = (sCount + 1) % CountMod
  /\ events' = events \ {<<Base, "in">>}
  /\ UNCHANGED <<toServer, toClient, clientVars, sRunning, sPc, readVars, handled>>

\* The hang-up branch closes the connection with whatever is unread.
HangUp(c) ==
  /\ sPc = "batch" /\ <<c, "hup">> \in events
  /\ link' = [link EXCEPT ![c] = "closed"]
  /\ toServer' = [toServer EXCEPT ![c] = <<>>]
  /\ sCount' = Decremented(sCount)
  /\ events' = events \ {<<c, "hup">>}
  /\ UNCHANGED <<toClient, clientVars, sRunning, sPc, readVars, handled>>

StartRead(c) ==
  /\ sPc = "batch" /\ <<c, "in">> \in events
  /\ sPc' = "read" /\ sFd' = c /\ totalRead' = 0
  /\ events' = events \ {<<c, "in">>}
  /\ UNCHANGED <<link, toServer, toClient, clientVars, sRunning, sCount, buffer, handled>>

Filled_AfterOneRecv == totalRead > 0
Filled_OneTooMany == totalRead > Chunks
Filled == totalRead = Chunks

Wanted == Chunks - totalRead

\* recv returns some of what is there; an empty socket, or one at its end,
\* makes the loop turn without progress.
Recv ==
  /\ sPc = "read" /\ ~Filled /\ sRunning
  /\ \E got \in 1 .. Wanted :
       /\ got <= Len(toServer[sFd])
       /\ buffer' = [i \in 1 .. Chunks |->
                       IF i \in totalRead + 1 .. totalRead + got
                         THEN toServer[sFd][i - totalRead] ELSE buffer[i]]
       /\ toServer' = [toServer EXCEPT ![sFd] = SubSeq(@, got + 1, Len(@))]
       /\ totalRead' = totalRead + got
  /\ UNCHANGED <<link, toClient, clientVars, sRunning, sCount, sPc, events, sFd, handled>>

\* recv fails: close, and break to the call of the handler all the same.
RecvFails ==
  /\ sPc = "read" /\ ~Filled /\ sRunning /\ CallsMayFail
  /\ link' = [link EXCEPT ![sFd] = "closed"]
  /\ toServer' = [toServer EXCEPT ![sFd] = <<>>]
  /\ sCount' = Decremented(sCount)
  /\ sPc' = "failed"
  /\ UNCHANGED <<toClient, clientVars, sRunning, events, readVars, handled>>

SendAllowed_Always == TRUE
SendAllowed == sRunning

\* The handler replies to the client that the message in the buffer names; Send
\* uses the connection of the event.
Replies == buffer[1] # None /\ SendAllowed /\ link[sFd] = "open"

\* The read loop has ended, with a message or without.
HandlerCalled == sPc = "failed" \/ (sPc = "read" /\ (Filled \/ ~sRunning))

\* The locals of the read are dead afterwards, the buffer is not.
CallHandler ==
  /\ HandlerCalled
  /\ \/ /\ sPc' = "batch"                      \* no reply
        /\ UNCHANGED <<link, toClient>>
     \/ /\ Replies /\ sFd \notin gone
        /\ toClient' = [toClient EXCEPT ![sFd] = Append(@, buffer[1][1])]
        /\ sPc' = "batch" /\ UNCHANGED link
     \/ /\ Replies /\ sFd \in gone             \* SIGPIPE
        /\ sPc' = "killed" /\ link' = CloseAll
        /\ UNCHANGED toClient
  /\ handled' = IF sRunning /\ link[sFd] = "open" /\ sPc' # "killed"
                  THEN [handled EXCEPT ![sFd] = @ + 1] ELSE handled
  /\ sFd' = None /\ totalRead' = 0
  /\ UNCHANGED <<toServer, clientVars, sRunning, sCount, events, buffer>>

Drained_HangupsOnly(S) == S \cap gone
Drained(S) == S \ {Base}

\* After the loop: close what has an event until epoll_wait finds none.
Drain ==
  /\ sPc = "drain"
  /\ \E S \in Batches :
       /\ sPc' = IF S = {} THEN "exited" ELSE "drain"
       /\ link' = [c \in Clients |-> IF c \in Drained(S) THEN "closed" ELSE link[c]]
       /\ toServer' = [c \in Clients |-> IF c \in Drained(S) THEN <<>> ELSE toServer[c]]
  /\ UNCHANGED <<toClient, clientVars, sRunning, sCount, events, readVars, handled>>

(* ~UnixSockIpcServer on the main thread: m_Running = false, join, close;  *)
(* the end of the process closes the connections that are left.            *)
Stop ==
  /\ sRunning /\ sPc # "killed"
  /\ sRunning' = FALSE
  /\ UNCHANGED <<link, toServer, toClient, clientVars, sCount, sPc, events, readVars, handled>>

Join ==
  /\ sPc = "exited" /\ ~sRunning
  /\ sPc' = "gone" /\ link' = CloseAll
  /\ UNCHANGED <<toServer, toClient, clientVars, sRunning, sCount, events, readVars, handled>>

-------------------------------------------------------------------------------
ServerStep ==
  \/ LoopTest \/ EpollWait \/ Accept
  \/ \E c \in Clients : HangUp(c) \/ StartRead(c)
  \/ Recv \/ CallHandler \/ Drain \/ Join

Next ==
  \/ \E c \in Clients : Connect(c) \/ ClientSend(c) \/ ClientThread(c) \/ ClientClose(c)
  \/ ServerStep \/ RecvFails \/ EpollFails \/ Stop

Spec == Init /\ [][Next]_vars

(* Both threads run.  epoll moves what it has reported behind what it has  *)
(* not: no ready descriptor is passed over for ever.                       *)
FairSpec ==
  /\ Spec
  /\ WF_vars(ServerStep)
  /\ \A fd \in Clients \cup {Base} : SF_vars(EpollWait /\ \E e \in events' : e[1] = fd)
  /\ \A c \in Clients : WF_vars(ClientThread(c))

-------------------------------------------------------------------------------
InLoop == sPc \in {"wait", "batch", "read", "failed"}

\* As long as the server runs and the connection stands, each call of the
\* handler has one whole message of that connection, the next in the order of
\* their sending: reads in pieces, hang-ups and failed reads of other
\* connections never tear, skip, repeat or mix messages.
HandlerGetsNext ==
  HandlerCalled /\ sRunning /\ link[sFd] = "open" => buffer = Message(sFd, handled[sFd] + 1)

\* A reply is only ever sent to the client whose message it answers, although
\* a failed read and the stop of the server call the handler with a buffer
\* that holds an older message, of another client perhaps.
RepliesReachSender == \A c \in Clients : \A i \in DOMAIN toClient[c] : toClient[c][i] = c

\* The read loop never turns on an empty socket or at the end of the stream:
\* a hang-up is told from data, and what is there is a whole message.
ReadNeverSpins == sPc = "read" /\ sRunning /\ ~Filled => toServer[sFd] # <<>>

\* GetConnectionCount is the number of open connections until the drain.
CountExact ==
  InLoop => sCount = Cardinality({c \in Clients : link[c] = "open"})

\* SIGPIPE ends the server only through a client that went away while the
\* server still had a message of it.
KilledByDeserter == sPc = "killed" => \E c \in gone : handled[c] < sent[c]

\* All messages are handled, unless their client goes away, the connection is closed
\* after a failed read, or the server's thread leaves its loop for good.
MessagesHandled ==
  \A c \in Clients :
    handled[c] < sent[c] ~> handled[c] = sent[c] \/ c \in gone \/ link[c] = "closed" \/ ~InLoop

Stopped == sPc \in {"gone", "killed"}

\* A server that is being destroyed comes to its end, whatever its connections
\* still send, unless a connection is waiting to be accepted.
StopsUnlessPending == ~sRunning ~> Stopped \/ Pending # {}

\* The server prints "Press Enter to stop the server": its IPC server does
\* come to its end.
StopsOnEnter == ~sRunning ~> Stopped
===============================================================================
