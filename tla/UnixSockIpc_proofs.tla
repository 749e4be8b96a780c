-------------------------- MODULE UnixSockIpc_proofs --------------------------
(***************************************************************************)
(* For any set of clients, any size of a message and of a batch, with      *)
(* calls that fail, clients that vanish and a server that stops: messages  *)
(* reach the handler whole and in order, replies their sender, and the     *)
(* count of connections is exact.                                          *)
(***************************************************************************)
EXTENDS UnixSockIpc, FiniteSetTheorems, SequenceTheorems, TLAPS

-------------------------------------------------------------------------------
(* The inductive invariant.                                                *)

Piece == Clients \X Nat \X (1 .. Chunks)

TypeOK ==
  /\ link \in [Clients -> {"none", "pending", "open", "closed"}] /\ gone \subseteq Clients
  /\ toServer \in [Clients -> Seq(Piece)] /\ toClient \in [Clients -> Seq(Clients)]
  /\ kRunning \in [Clients -> BOOLEAN] /\ kCount \in [Clients -> 0 .. CountMod - 1]
  /\ sRunning \in BOOLEAN /\ sCount \in 0 .. CountMod - 1
  /\ sPc \in {"batch", "wait", "read", "failed", "drain", "exited", "gone", "killed"}
  /\ events \subseteq (Clients \cup {Base}) \X {"in", "hup"}
  /\ sFd \in Clients \cup {None} /\ totalRead \in 0 .. Chunks
  /\ buffer \in [1 .. Chunks -> Piece \cup {None}]
  /\ sent \in [Clients -> Nat] /\ handled \in [Clients -> Nat]

\* The events of a batch stay true while the others are handled: each is of a
\* connection of its own, which is open, and has data if it says so.
EventsInv ==
  InLoop =>
    /\ \A e \in events : e[1] \in Clients => link[e[1]] = "open"
    /\ \A e, f \in events : e[1] = f[1] => e = f
    /\ \A c \in Clients : <<c, "in">> \in events => toServer[c] # <<>>
    /\ sPc \in {"read", "failed"} => \A e \in events : e[1] # sFd

\* The connection being read is open until recv fails.
ReadInv ==
  /\ sPc \in {"read", "failed"} => sFd \in Clients
  /\ sPc = "read" => link[sFd] = "open"
  /\ sPc = "failed" => link[sFd] = "closed"

\* Pieces of messages up to the n-th in the order of their sending: from any of
\* them on, the rest of its message and the beginning of the next.
InOrder(s, n) ==
  /\ \A i \in 1 .. Len(s) : s[i][2] <= n
  /\ \A i, k \in 1 .. Len(s) : i <= k =>
       /\ s[i][3] + (k - i) <= Chunks => s[k] = <<s[i][1], s[i][2], s[i][3] + (k - i)>>
       /\ s[i][3] + (k - i) = Chunks + 1 => s[k] = <<s[i][1], s[i][2] + 1, 1>>

\* The pieces that have been read of the message at the head of c's stream.
ReadOf(c) == IF sPc = "read" /\ sFd = c THEN totalRead ELSE 0

\* The stream of a connection is what has been sent and not yet read: it
\* starts where the reads have got to and ends with the last message.
StreamOf(c) ==
  /\ InOrder(toServer[c], sent[c])
  /\ toServer[c] # <<>> =>
       /\ toServer[c][1] = IF ReadOf(c) < Chunks THEN <<c, handled[c] + 1, ReadOf(c) + 1>>
                                                 ELSE <<c, handled[c] + 2, 1>>
       /\ toServer[c][Len(toServer[c])] = <<c, sent[c], Chunks>>
  /\ toServer[c] = <<>> =>
       \/ ReadOf(c) = 0 /\ handled[c] = sent[c]
       \/ ReadOf(c) = Chunks /\ handled[c] + 1 = sent[c]
  /\ ReadOf(c) > 0 => handled[c] < sent[c]

StreamInv == sRunning => \A c \in Clients : link[c] # "closed" => StreamOf(c)

\* What has been read of the message so far is in the buffer.
BufferInv ==
  sPc = "read" /\ sRunning =>
    \A i \in 1 .. totalRead : buffer[i] = <<sFd, handled[sFd] + 1, i>>

\* The strengthening of the safety properties that every step preserves.
IInv ==
  /\ TypeOK /\ EventsInv /\ ReadInv /\ StreamInv /\ BufferInv
  /\ RepliesReachSender /\ ReadNeverSpins /\ CountExact /\ KilledByDeserter

-------------------------------------------------------------------------------
LEMMA IpcFacts ==
  /\ IsFiniteSet(Clients) /\ Base \notin Clients
  /\ Chunks \in Nat /\ Chunks >= 1
  /\ CountMod \in Nat /\ Cardinality(Clients) \in Nat /\ CountMod > Cardinality(Clients)
BY IpcAssumption, FS_CardinalityType

-------------------------------------------------------------------------------
(* Streams of pieces.                                                      *)

LEMMA MessageIs ==
  ASSUME NEW c \in Clients, NEW n \in Nat
  PROVE  /\ Message(c, n) \in Seq(Piece)
         /\ Len(Message(c, n)) = Chunks
         /\ \A i \in 1 .. Chunks : Message(c, n)[i] = <<c, n, i>>
BY IpcFacts DEF Message, Piece

LEMMA InOrderAt ==
  ASSUME NEW s, NEW n, InOrder(s, n), NEW i \in 1 .. Len(s), NEW k \in 1 .. Len(s), i <= k
  PROVE  /\ s[i][2] <= n
         /\ s[i][3] + (k - i) <= Chunks => s[k] = <<s[i][1], s[i][2], s[i][3] + (k - i)>>
         /\ s[i][3] + (k - i) = Chunks + 1 => s[k] = <<s[i][1], s[i][2] + 1, 1>>
BY Zenon DEF InOrder

\* A whole message after the end of the last one continues the stream.
LEMMA InOrderAppend ==
  ASSUME NEW s \in Seq(Piece), NEW c \in Clients, NEW n \in Nat, InOrder(s, n),
         s # <<>> => s[Len(s)] = <<c, n, Chunks>>
  PROVE  LET t == s \o Message(c, n + 1)
         IN  /\ t \in Seq(Piece) /\ t # <<>> /\ InOrder(t, n + 1)
             /\ t[Len(t)] = <<c, n + 1, Chunks>>
             /\ t[1] = IF s = <<>> THEN <<c, n + 1, 1>> ELSE s[1]
<1> DEFINE q == Message(c, n + 1)
           t == s \o q
<1>1. /\ q \in Seq(Piece) /\ Len(q) = Chunks
      /\ \A i \in 1 .. Chunks : q[i] = <<c, n + 1, i>>
  <2>1. n + 1 \in Nat
    OBVIOUS
  <2>2. QED
    BY <2>1, MessageIs
<1> HIDE DEF q
<1>2. /\ t \in Seq(Piece) /\ Len(t) = Len(s) + Chunks /\ Len(s) \in Nat
      /\ \A i \in 1 .. Len(s) : t[i] = s[i]
      /\ \A i \in Len(s) + 1 .. Len(s) + Chunks : t[i] = <<c, n + 1, i - Len(s)>>
  <2>1. /\ t \in Seq(Piece) /\ Len(t) = Len(s) + Len(q) /\ Len(s) \in Nat
        /\ \A i \in 1 .. Len(s) + Len(q) : t[i] = IF i <= Len(s) THEN s[i] ELSE q[i - Len(s)]
    <3>1. Len(s) \in Nat
      OBVIOUS
    <3>2. QED
      BY <1>1, <3>1, ConcatProperties, Zenon
  <2> HIDE DEF t
  <2>2. \A i \in 1 .. Len(s) : t[i] = s[i]
    BY <1>1, <2>1, IpcFacts
  <2>3. ASSUME NEW i \in Len(s) + 1 .. Len(s) + Chunks
        PROVE  t[i] = <<c, n + 1, i - Len(s)>>
    <3>1. i - Len(s) \in 1 .. Chunks /\ i \in 1 .. Len(s) + Len(q) /\ ~(i <= Len(s))
      BY <1>1, <2>1, <2>3, IpcFacts
    <3>2. QED
      BY <1>1, <2>1, <3>1
  <2>4. QED
    BY <1>1, <2>1, <2>2, <2>3
<1>3. \A i \in 1 .. Len(s) : s[i] \in Piece /\ s[i][3] \in 1 .. Chunks
  BY DEF Piece
<1> HIDE DEF t
<1>4. ASSUME NEW i \in 1 .. Len(t), NEW k \in 1 .. Len(t), i <= k
      PROVE  /\ t[i][3] + (k - i) <= Chunks => t[k] = <<t[i][1], t[i][2], t[i][3] + (k - i)>>
             /\ t[i][3] + (k - i) = Chunks + 1 => t[k] = <<t[i][1], t[i][2] + 1, 1>>
  <2>1. CASE k <= Len(s)
    BY <1>2, <1>4, <2>1 DEF InOrder
  <2>2. CASE i > Len(s)
    <3>1. t[i] = <<c, n + 1, i - Len(s)>> /\ t[k] = <<c, n + 1, k - Len(s)>>
      BY <1>2, <1>4, <2>2
    <3>2. k - Len(s) <= Chunks
      BY <1>2, <1>4, IpcFacts
    <3>3. QED
      BY <1>2, <1>4, <2>2, <3>1, <3>2, IpcFacts
  \* Between an old piece and a new one lies the end of the old stream.
  <2>3. CASE i <= Len(s) /\ k > Len(s)
    <3>1. /\ Len(s) \in 1 .. Len(s) /\ i \in 1 .. Len(s) /\ s # <<>>
          /\ k \in Len(s) + 1 .. Len(s) + Chunks
      BY <1>2, <1>4, <2>3, IpcFacts
    <3>2. t[k] = <<c, n + 1, k - Len(s)>> /\ t[i] = s[i]
      BY <1>2, <3>1
    <3>3. s[Len(s)] = <<c, n, Chunks>>
      BY <3>1
    <3> DEFINE p == s[i][3]
               l == Len(s)
    <3>4. p + (l - i) <= Chunks => s[l] = <<s[i][1], s[i][2], p + (l - i)>>
      <4>1. i <= Len(s)
        BY <2>3
      <4>2. QED
        BY <3>1, <4>1, InOrderAt, Zenon
    <3>5. /\ p \in 1 .. Chunks /\ l \in Nat /\ i \in 1 .. l /\ k \in l + 1 .. l + Chunks
          /\ t[i][3] = p
      BY <1>2, <1>3, <3>1, <3>2
    <3> HIDE DEF p, l
    <3>6. ASSUME p + (k - i) <= Chunks + 1
          PROVE  k = l + 1 /\ s[i][1] = c /\ s[i][2] = n /\ p + (k - i) = Chunks + 1
      <4>1. p + (l - i) <= Chunks
        BY <3>5, <3>6, IpcFacts
      <4>2. c = s[i][1] /\ n = s[i][2] /\ Chunks = p + (l - i)
        BY <3>3, <3>4, <4>1 DEF l
      <4>3. QED
        BY <3>5, <3>6, <4>2, IpcFacts
    <3>7. CASE p + (k - i) <= Chunks + 1
      <4>1. k = l + 1 /\ p + (k - i) = Chunks + 1 /\ ~(Chunks + 1 <= Chunks)
        BY <3>6, <3>7, IpcFacts
      <4>2. t[k] = <<s[i][1], s[i][2] + 1, 1>>
        BY <3>2, <3>5, <3>6, <3>7, <4>1, IpcFacts DEF l
      <4>3. QED
        BY <3>2, <3>5, <4>1, <4>2
    <3>8. CASE ~(p + (k - i) <= Chunks + 1)
      <4>1. ~(p + (k - i) <= Chunks) /\ ~(p + (k - i) = Chunks + 1)
        BY <3>5, <3>8, IpcFacts
      <4>2. QED
        BY <3>5, <4>1, Zenon
    <3>9. QED
      BY <3>7, <3>8
  <2>4. QED
    BY <1>2, <1>4, <2>1, <2>2, <2>3
<1>5. InOrder(t, n + 1)
  <2>1. ASSUME NEW i \in 1 .. Len(t) PROVE t[i][2] <= n + 1
    <3>1. CASE i <= Len(s)
      <4>1. i \in 1 .. Len(s) /\ i <= i
        BY <1>2, <2>1, <3>1, IpcFacts
      <4>2. s[i][2] \in Nat /\ t[i] = s[i]
        BY <1>2, <1>3, <4>1 DEF Piece
      <4>3. s[i][2] <= n
        BY <4>1, InOrderAt, Zenon
      <4>4. QED
        BY <4>2, <4>3
    <3>2. CASE i > Len(s)
      <4>1. i \in Len(s) + 1 .. Len(s) + Chunks
        BY <1>2, <2>1, <3>2, IpcFacts
      <4>2. QED
        BY <1>2, <4>1
    <3>3. QED
      BY <1>2, <2>1, <3>1, <3>2
  <2>2. QED
    BY <1>4, <2>1 DEF InOrder
<1>6. t # <<>> /\ t[Len(t)] = <<c, n + 1, Chunks>>
  BY <1>2, IpcFacts
<1>7. t[1] = IF s = <<>> THEN <<c, n + 1, 1>> ELSE s[1]
  <2>1. CASE s = <<>>
    <3>1. Len(s) = 0
      BY <2>1
    <3>2. 1 \in Len(s) + 1 .. Len(s) + Chunks /\ 1 - Len(s) = 1
      BY <3>1, IpcFacts
    <3>3. QED
      BY <1>2, <2>1, <3>2
  <2>2. CASE s # <<>>
    <3>1. 1 \in 1 .. Len(s)
      BY <2>2, EmptySeq
    <3>2. QED
      BY <1>2, <2>2, <3>1
  <2>3. QED
    BY <2>1, <2>2
<1>8. QED
  BY <1>2, <1>5, <1>6, <1>7 DEF t, q

\* What is left after a read is in order as well.
LEMMA InOrderDrop ==
  ASSUME NEW s \in Seq(Piece), NEW n \in Nat, InOrder(s, n), NEW got \in 0 .. Len(s)
  PROVE  LET t == SubSeq(s, got + 1, Len(s))
         IN  /\ t \in Seq(Piece) /\ Len(t) = Len(s) - got /\ InOrder(t, n)
             /\ \A i \in 1 .. Len(s) - got : t[i] = s[i + got]
<1> DEFINE t == SubSeq(s, got + 1, Len(s))
<1>1. Len(s) \in Nat
  OBVIOUS
<1>2. t \in Seq(Piece) /\ Len(t) = Len(s) - got
  BY <1>1, SubSeqProperties
<1>3. \A i \in 1 .. Len(s) - got : t[i] = s[i + got]
  BY <1>1, SubSeqProperties
<1> HIDE DEF t
<1>4. ASSUME NEW i \in 1 .. Len(t), NEW k \in 1 .. Len(t), i <= k
      PROVE  /\ t[i][3] + (k - i) <= Chunks => t[k] = <<t[i][1], t[i][2], t[i][3] + (k - i)>>
             /\ t[i][3] + (k - i) = Chunks + 1 => t[k] = <<t[i][1], t[i][2] + 1, 1>>
  <2>1. /\ t[i] = s[i + got] /\ t[k] = s[k + got]
        /\ i + got \in 1 .. Len(s) /\ k + got \in 1 .. Len(s)
        /\ i + got <= k + got /\ (k + got) - (i + got) = k - i
    BY <1>1, <1>2, <1>3, <1>4
  <2>2. QED
    BY <2>1 DEF InOrder
<1>5. ASSUME NEW i \in 1 .. Len(t) PROVE t[i][2] <= n
  <2>1. t[i] = s[i + got] /\ i + got \in 1 .. Len(s)
    BY <1>1, <1>2, <1>3
  <2>2. QED
    BY <2>1 DEF InOrder
<1>6. QED
  BY <1>2, <1>3, <1>4, <1>5 DEF InOrder, t

-------------------------------------------------------------------------------
(* The count of connections.                                               *)

Open == {c \in Clients : link[c] = "open"}

LEMMA DecrementedIs ==
  ASSUME NEW k \in 0 .. CountMod - 1
  PROVE  /\ Decremented(k) \in 0 .. CountMod - 1
         /\ k >= 1 => Decremented(k) = k - 1
<1>1. \A x, d \in Nat : d >= 1 => x % d \in 0 .. d - 1
  OBVIOUS
<1>2. \A x, d \in Nat : x < d => (x + d) % d = x
  OBVIOUS
<1>3. CASE k >= 1
  <2>1. k - 1 \in Nat /\ k - 1 < CountMod /\ k + CountMod - 1 = (k - 1) + CountMod
    BY <1>3, IpcFacts
  <2>2. QED
    BY <1>2, <2>1, IpcFacts DEF Decremented
<1>4. CASE k = 0
  BY <1>1, <1>4, IpcFacts DEF Decremented
<1>5. QED
  BY <1>3, <1>4, IpcFacts

LEMMA OpenFinite ==
  /\ IsFiniteSet(Open) /\ Cardinality(Open) \in Nat /\ Cardinality(Open) <= Cardinality(Clients)
BY IpcFacts, FS_Subset, FS_CardinalityType DEF Open

\* A connection more: the count does not wrap.
LEMMA OpenMore ==
  ASSUME CountExact, InLoop, NEW c \in Clients, link[c] # "open", Open' = Open \cup {c},
         sCount' = (sCount + 1) % CountMod
  PROVE  sCount' = Cardinality(Open')
<1>1. sCount = Cardinality(Open)
  BY DEF CountExact, Open
<1>2. Cardinality(Open') = Cardinality(Open) + 1
  BY OpenFinite, FS_AddElement DEF Open
<1>3. Cardinality(Open') <= Cardinality(Clients)
  <2>1. Open' \subseteq Clients
    BY DEF Open
  <2>2. QED
    BY <2>1, IpcFacts, FS_Subset
<1>4. \A x, d \in Nat : x < d => x % d = x
  OBVIOUS
<1>5. QED
  BY <1>1, <1>2, <1>3, <1>4, OpenFinite, IpcFacts

\* A connection less: the count does not pass 0.
LEMMA OpenLess ==
  ASSUME TypeOK, CountExact, InLoop, NEW c \in Clients, link[c] = "open", Open' = Open \ {c},
         sCount' = Decremented(sCount)
  PROVE  sCount' = Cardinality(Open')
<1>1. sCount = Cardinality(Open) /\ sCount \in 0 .. CountMod - 1
  BY DEF CountExact, Open, TypeOK
<1>2. c \in Open
  BY DEF Open
<1>3. Cardinality(Open') = Cardinality(Open) - 1
  BY <1>2, OpenFinite, FS_RemoveElement
<1>4. Cardinality(Open) >= 1
  BY <1>2, OpenFinite, FS_EmptySet
<1>5. QED
  BY <1>1, <1>3, <1>4, DecrementedIs, OpenFinite

LEMMA CountSame ==
  ASSUME CountExact, InLoop' => InLoop, sCount' = sCount, Open' = Open
  PROVE  CountExact'
BY DEF CountExact, Open

\* A step that neither sends, reads nor handles on a connection that stands
\* leaves the streams in order.
LEMMA StreamSame ==
  ASSUME StreamInv, sRunning' => sRunning,
         \A c \in Clients : link'[c] # "closed" =>
           /\ link[c] # "closed" /\ ReadOf(c)' = ReadOf(c) /\ toServer'[c] = toServer[c]
           /\ sent'[c] = sent[c] /\ handled'[c] = handled[c]
  PROVE  StreamInv'
<1>1. SUFFICES ASSUME sRunning', NEW c \in Clients, link'[c] # "closed"
               PROVE  StreamOf(c)'
  BY DEF StreamInv
<1>2. StreamOf(c)
  BY <1>1 DEF StreamInv
<1>3. /\ ReadOf(c)' = ReadOf(c) /\ toServer'[c] = toServer[c]
      /\ sent'[c] = sent[c] /\ handled'[c] = handled[c]
  BY <1>1
<1>4. InOrder(toServer[c], sent[c])'
  BY <1>2, <1>3 DEF StreamOf, InOrder
<1>5. QED
  BY <1>2, <1>3, <1>4 DEF StreamOf

-------------------------------------------------------------------------------
(* The invariant.                                                          *)

LEMMA InitIInv == Init => IInv
<1> SUFFICES ASSUME Init PROVE IInv
  OBVIOUS
<1>1. TypeOK
  BY IpcFacts DEF Init, TypeOK
<1>2. /\ EventsInv /\ ReadInv /\ BufferInv /\ RepliesReachSender /\ ReadNeverSpins
      /\ KilledByDeserter
  BY DEF Init, EventsInv, ReadInv, BufferInv, RepliesReachSender, ReadNeverSpins, KilledByDeserter
<1>3. StreamInv
  BY DEF Init, StreamInv, StreamOf, InOrder, ReadOf
<1>4. CountExact
  <2>1. {c \in Clients : link[c] = "open"} = {}
    BY DEF Init
  <2>2. QED
    BY <2>1, FS_EmptySet DEF Init, CountExact
<1>5. QED
  BY <1>1, <1>2, <1>3, <1>4 DEF IInv

\* Send puts a whole message behind those that are on the stream.
LEMMA SendStream ==
  ASSUME IInv, NEW c \in Clients, ClientSend(c)
  PROVE  StreamInv'
<1>inv. TypeOK /\ StreamInv
  BY DEF IInv
<1>same. UNCHANGED <<link, sRunning, sPc, sFd, totalRead, handled>>
  BY DEF ClientSend, readVars
<1>1. CASE UNCHANGED <<sent, toServer>>
  BY <1>inv, <1>same, <1>1, StreamSame DEF ReadOf
<1>2. CASE ~UNCHANGED <<sent, toServer>>
  <2>1. /\ link[c] # "closed"
        /\ sent' = [sent EXCEPT ![c] = @ + 1]
        /\ toServer' = [toServer EXCEPT ![c] = @ \o Message(c, sent'[c])]
    BY <1>2 DEF ClientSend
  <2>2. SUFFICES ASSUME sRunning, NEW d \in Clients, link[d] # "closed"
                 PROVE  StreamOf(d)'
    BY <1>same DEF StreamInv
  <2>3. StreamOf(d) /\ ReadOf(d)' = ReadOf(d)
    BY <1>inv, <1>same, <2>2 DEF StreamInv, ReadOf
  <2>4. CASE d # c
    <3>1. toServer'[d] = toServer[d] /\ sent'[d] = sent[d]
      BY <1>inv, <2>1, <2>4 DEF TypeOK
    <3>2. QED
      BY <1>same, <2>3, <3>1 DEF StreamOf, InOrder
  <2>5. CASE d = c
    <3> DEFINE s == toServer[c]
               t == toServer'[c]
    <3>1. /\ s \in Seq(Piece) /\ sent[c] \in Nat /\ handled[c] \in Nat
          /\ sent'[c] = sent[c] + 1 /\ t = s \o Message(c, sent[c] + 1)
      BY <1>inv, <2>1 DEF TypeOK
    <3>2. InOrder(s, sent[c]) /\ (s # <<>> => s[Len(s)] = <<c, sent[c], Chunks>>)
      BY <2>3, <2>5 DEF StreamOf
    <3>3. /\ t # <<>> /\ InOrder(t, sent'[c])
          /\ t[Len(t)] = <<c, sent'[c], Chunks>>
          /\ t[1] = IF s = <<>> THEN <<c, sent[c] + 1, 1>> ELSE s[1]
      <4> HIDE DEF s, t
      <4>1. LET u == s \o Message(c, sent[c] + 1)
            IN  /\ u \in Seq(Piece) /\ u # <<>> /\ InOrder(u, sent[c] + 1)
                /\ u[Len(u)] = <<c, sent[c] + 1, Chunks>>
                /\ u[1] = IF s = <<>> THEN <<c, sent[c] + 1, 1>> ELSE s[1]
        BY <3>1, <3>2, InOrderAppend, Zenon
      <4>2. QED
        BY <3>1, <4>1, Zenon
    <3> DEFINE r == ReadOf(c)
    <3>4. r \in 0 .. Chunks
      BY <1>inv, IpcFacts DEF TypeOK, ReadOf
    <3>5. /\ s # <<>> => s[1] = IF r < Chunks THEN <<c, handled[c] + 1, r + 1>>
                                              ELSE <<c, handled[c] + 2, 1>>
          /\ s = <<>> => \/ r = 0 /\ handled[c] = sent[c]
                         \/ r = Chunks /\ handled[c] + 1 = sent[c]
          /\ r > 0 => handled[c] < sent[c]
      BY <2>3, <2>5 DEF StreamOf
    <3> HIDE DEF r
    <3>6. t[1] = IF r < Chunks THEN <<c, handled[c] + 1, r + 1>> ELSE <<c, handled[c] + 2, 1>>
      <4>1. CASE s # <<>>
        BY <3>3, <3>5, <4>1
      <4>2. CASE s = <<>>
        BY <3>1, <3>3, <3>4, <3>5, <4>2, IpcFacts
      <4>3. QED
        BY <4>1, <4>2
    <3>7. r > 0 => handled[c] < sent'[c]
      <4>1. \A x, y \in Nat : x < y => x < y + 1
        OBVIOUS
      <4>2. QED
        BY <3>1, <3>5, <4>1
    <3>8. QED
      <4>1. ReadOf(c)' = r /\ handled' = handled
        BY <1>same, <2>3, <2>5 DEF r
      <4>2. InOrder(toServer[c], sent[c])'
        BY <3>3 DEF InOrder
      <4>3. QED
        BY <2>5, <3>3, <3>6, <3>7, <4>1, <4>2 DEF StreamOf
  <2>6. QED
    BY <2>4, <2>5
<1>3. QED
  BY <1>1, <1>2

\* A recv takes pieces of one message, and leaves the rest of it at the head of
\* the stream.
LEMMA RecvStream ==
  ASSUME IInv, Recv
  PROVE  StreamInv' /\ BufferInv'
<1> DEFINE c == sFd
           s == toServer[c]
           h == handled[c]
           r == totalRead
<1>inv. TypeOK /\ ReadInv /\ StreamInv /\ BufferInv
  BY DEF IInv
<1>1. /\ sPc = "read" /\ r # Chunks /\ sRunning
      /\ UNCHANGED <<link, sRunning, sPc, sFd, sent, handled>>
  BY DEF Recv, Filled, clientVars
<1>2. PICK got \in 1 .. Wanted :
        /\ got <= Len(s)
        /\ buffer' = [i \in 1 .. Chunks |->
                        IF i \in r + 1 .. r + got THEN s[i - r] ELSE buffer[i]]
        /\ toServer' = [toServer EXCEPT ![c] = SubSeq(@, got + 1, Len(@))]
        /\ totalRead' = r + got
  BY DEF Recv
<1> DEFINE t == SubSeq(s, got + 1, Len(s))
<1>3. /\ c \in Clients /\ link[c] = "open" /\ StreamOf(c) /\ ReadOf(c) = r
      /\ s \in Seq(Piece) /\ h \in Nat /\ sent[c] \in Nat /\ Len(s) \in Nat /\ r \in 0 .. Chunks
  BY <1>inv, <1>1 DEF TypeOK, ReadInv, StreamInv, ReadOf
<1>4. /\ r \in Nat /\ got \in Nat /\ got >= 1 /\ r + got <= Chunks /\ got <= Len(s)
      /\ 1 \in 1 .. Len(s) /\ s # <<>>
  BY <1>1, <1>2, <1>3, IpcFacts DEF Wanted
<1>5. /\ s[1] = <<c, h + 1, r + 1>> /\ s[Len(s)] = <<c, sent[c], Chunks>>
      /\ InOrder(s, sent[c])
  <2>1. r < Chunks
    BY <1>3, <1>4, IpcFacts
  <2>2. /\ InOrder(s, sent[c])
        /\ s # <<>> => /\ s[1] = IF ReadOf(c) < Chunks THEN <<c, h + 1, ReadOf(c) + 1>>
                                                       ELSE <<c, h + 2, 1>>
                       /\ s[Len(s)] = <<c, sent[c], Chunks>>
    BY <1>3, Zenon DEF StreamOf
  <2> HIDE DEF c, s, h, r
  <2>3. QED
    BY <1>3, <1>4, <2>1, <2>2, Zenon
<1>6. toServer'[c] = t /\ \A d \in Clients : d # c => toServer'[d] = toServer[d]
  BY <1>inv, <1>2, <1>3 DEF TypeOK
<1> HIDE DEF c, s, h, r
\* The pieces that are read, and the one after them.
<1>7. ASSUME NEW k \in 1 .. Len(s)
      PROVE  /\ r + k <= Chunks => s[k] = <<c, h + 1, r + k>>
             /\ r + k = Chunks + 1 => s[k] = <<c, h + 2, 1>>
  <2>1. /\ (r + 1) + (k - 1) <= Chunks => s[k] = <<c, h + 1, (r + 1) + (k - 1)>>
        /\ (r + 1) + (k - 1) = Chunks + 1 => s[k] = <<c, (h + 1) + 1, 1>>
    <3>1. 1 <= k
      BY <1>3
    <3>2. /\ s[1][3] + (k - 1) <= Chunks => s[k] = <<s[1][1], s[1][2], s[1][3] + (k - 1)>>
          /\ s[1][3] + (k - 1) = Chunks + 1 => s[k] = <<s[1][1], s[1][2] + 1, 1>>
      BY <1>4, <1>5, <3>1, InOrderAt, Zenon
    <3>3. s[1][1] = c /\ s[1][2] = h + 1 /\ s[1][3] = r + 1
      BY <1>5
    <3>4. QED
      BY <3>2, <3>3
  <2>2. (r + 1) + (k - 1) = r + k /\ (h + 1) + 1 = h + 2
    BY <1>3, <1>4
  <2>3. QED
    BY <2>1, <2>2
<1>8. h < sent[c]
  <2>1. s[1][2] <= sent[c] /\ s[1][2] = h + 1
    BY <1>4, <1>5 DEF InOrder
  <2>2. QED
    BY <1>3, <2>1
<1>9. /\ t \in Seq(Piece) /\ Len(t) = Len(s) - got /\ InOrder(t, sent[c])
      /\ \A i \in 1 .. Len(s) - got : t[i] = s[i + got]
  <2>1. got \in 0 .. Len(s)
    BY <1>3, <1>4
  <2>2. QED
    BY <1>3, <1>5, <2>1, InOrderDrop, Zenon
<1> HIDE DEF t
<1>10. t = <<>> => r + got = Chunks /\ h + 1 = sent[c]
  <2>1. SUFFICES ASSUME t = <<>> PROVE r + got = Chunks /\ h + 1 = sent[c]
    OBVIOUS
  <2>2. got = Len(s)
    BY <1>3, <1>4, <1>9, <2>1
  <2>3. s[Len(s)] = <<c, h + 1, r + got>>
    BY <1>3, <1>4, <1>7, <2>2
  <2>4. QED
    BY <1>5, <2>3
<1>11. t # <<>> =>
         /\ t[1] = IF r + got < Chunks THEN <<c, h + 1, r + got + 1>> ELSE <<c, h + 2, 1>>
         /\ t[Len(t)] = <<c, sent[c], Chunks>>
  <2>1. SUFFICES ASSUME t # <<>>
                 PROVE  /\ t[1] = IF r + got < Chunks THEN <<c, h + 1, r + got + 1>>
                                                      ELSE <<c, h + 2, 1>>
                        /\ t[Len(t)] = <<c, sent[c], Chunks>>
    OBVIOUS
  <2>2. Len(t) \in Nat /\ Len(t) >= 1
    BY <1>9, <2>1, EmptySeq
  <2>3. /\ got + 1 \in 1 .. Len(s) /\ 1 \in 1 .. Len(s) - got /\ Len(s) - got \in 1 .. Len(s) - got
        /\ 1 + got = got + 1 /\ (Len(s) - got) + got = Len(s)
    BY <1>3, <1>4, <1>9, <2>2
  <2>4. t[1] = s[got + 1] /\ t[Len(t)] = s[Len(s)]
    BY <1>9, <2>3
  <2>5. CASE r + got < Chunks
    <3>1. r + (got + 1) <= Chunks /\ r + (got + 1) = r + got + 1
      BY <1>4, <2>5, IpcFacts
    <3>2. QED
      BY <1>5, <1>7, <2>3, <2>4, <2>5, <3>1
  <2>6. CASE ~(r + got < Chunks)
    <3>1. r + (got + 1) = Chunks + 1
      BY <1>4, <2>6, IpcFacts
    <3>2. QED
      BY <1>5, <1>7, <2>3, <2>4, <2>6, <3>1
  <2>7. QED
    BY <2>5, <2>6
<1>12. StreamOf(c)'
  <2>1. /\ toServer'[c'] = t /\ handled'[c'] = h /\ sent'[c'] = sent[c]
        /\ c' = c /\ ReadOf(c)' = r + got
    BY <1>1, <1>2, <1>6 DEF ReadOf, c, h, r
  <2>2. InOrder(toServer[c], sent[c])'
    BY <1>9, <2>1 DEF InOrder
  <2>3. toServer'[c] = <<>> => ReadOf(c)' = Chunks /\ handled'[c] + 1 = sent'[c]
    BY <1>10, <2>1
  <2>4. QED
    BY <1>8, <1>11, <2>1, <2>2, <2>3 DEF StreamOf
<1>13. ASSUME NEW d \in Clients, d # c, link[d] # "closed"
       PROVE  StreamOf(d)'
  <2>1. StreamOf(d) /\ ReadOf(d)' = ReadOf(d)
    BY <1>inv, <1>1, <1>13 DEF StreamInv, ReadOf, c
  <2>2. toServer'[d] = toServer[d]
    BY <1>6, <1>13
  <2>3. QED
    BY <1>1, <2>1, <2>2 DEF StreamOf, InOrder
<1>14. StreamInv'
  <2>1. ASSUME NEW d \in Clients, link'[d] # "closed" PROVE StreamOf(d)'
    <3>1. CASE d = c
      <4>1. c' = c
        BY <1>1 DEF c
      <4>2. QED
        BY <1>12, <3>1, <4>1
    <3>2. CASE d # c
      BY <1>1, <1>13, <2>1, <3>2
    <3>3. QED
      BY <3>1, <3>2
  <2>2. QED
    BY <2>1 DEF StreamInv
<1>15. BufferInv'
  <2>1. ASSUME NEW i \in 1 .. totalRead'
        PROVE  buffer'[i] = <<sFd', handled'[sFd'] + 1, i>>
    <3>1. i \in 1 .. Chunks /\ i \in Nat /\ i <= r + got /\ sFd' = c /\ handled'[c] = h
      BY <1>1, <1>2, <1>4, <2>1, IpcFacts DEF c, h
    <3>2. CASE i <= r
      <4>1. buffer'[i] = buffer[i]
        BY <1>2, <1>4, <3>1, <3>2
      <4>2. QED
        BY <1>inv, <1>1, <1>4, <2>1, <3>1, <3>2, <4>1 DEF BufferInv, c, h, r
    <3>3. CASE i > r
      <4>1. i \in r + 1 .. r + got /\ i - r \in 1 .. Len(s) /\ r + (i - r) = i /\ i <= Chunks
        BY <1>3, <1>4, <3>1, <3>3
      <4>2. buffer'[i] = s[i - r]
        BY <1>2, <3>1, <4>1
      <4>3. QED
        BY <1>7, <3>1, <4>1, <4>2
    <3>4. QED
      BY <1>4, <3>1, <3>2, <3>3
  <2>2. QED
    BY <2>1 DEF BufferInv
<1>16. QED
  BY <1>14, <1>15

-------------------------------------------------------------------------------
(* Every step preserves the types.                                         *)

LEMMA ClientTypeOK ==
  ASSUME TypeOK, NEW c \in Clients, Connect(c) \/ ClientSend(c) \/ ClientThread(c) \/ ClientClose(c)
  PROVE  TypeOK'
<1>1. CASE Connect(c)
  BY <1>1 DEF Connect, TypeOK, readVars
<1>2. CASE ClientSend(c)
  <2>1. CASE UNCHANGED <<sent, toServer>>
    <3>1. gone' \subseteq Clients
      BY <1>2 DEF ClientSend, TypeOK
    <3>2. QED
      BY <1>2, <2>1, <3>1 DEF ClientSend, TypeOK, readVars
  <2>2. CASE ~UNCHANGED <<sent, toServer>>
    <3>1. /\ sent' = [sent EXCEPT ![c] = @ + 1] /\ gone' = gone
          /\ toServer' = [toServer EXCEPT ![c] = @ \o Message(c, sent'[c])]
      BY <1>2, <2>2 DEF ClientSend
    <3>2. sent' \in [Clients -> Nat] /\ sent'[c] \in Nat
      BY <3>1 DEF TypeOK
    <3>3. toServer[c] \o Message(c, sent'[c]) \in Seq(Piece)
      <4>1. Message(c, sent'[c]) \in Seq(Piece) /\ toServer[c] \in Seq(Piece)
        BY <3>2, MessageIs DEF TypeOK
      <4>2. QED
        BY <4>1, ConcatProperties, Zenon
    <3>4. toServer' \in [Clients -> Seq(Piece)]
      BY <3>1, <3>3 DEF TypeOK
    <3>5. QED
      BY <1>2, <3>1, <3>2, <3>4 DEF ClientSend, TypeOK, readVars
  <2>3. QED
    BY <2>1, <2>2
<1>3. CASE ClientThread(c)
  <2>1. kCount' \in [Clients -> 0 .. CountMod - 1]
    <3>1. Decremented(kCount[c]) \in 0 .. CountMod - 1
      BY DecrementedIs DEF TypeOK
    <3>2. QED
      BY <1>3, <3>1 DEF ClientThread, TypeOK
  <2>2. kRunning' \in [Clients -> BOOLEAN]
    BY <1>3 DEF ClientThread, TypeOK
  <2>3. toClient' \in [Clients -> Seq(Clients)]
    <3>1. CASE UNCHANGED toClient
      BY <3>1 DEF TypeOK
    <3>2. CASE toClient[c] # <<>> /\ toClient' = [toClient EXCEPT ![c] = Tail(@)]
      <4>1. toClient[c] \in Seq(Clients)
        BY DEF TypeOK
      <4>2. Tail(toClient[c]) \in Seq(Clients)
        BY <3>2, <4>1
      <4>3. QED
        BY <3>2, <4>2 DEF TypeOK
    <3>3. QED
      BY <1>3, <3>1, <3>2 DEF ClientThread
  <2>4. QED
    BY <1>3, <2>1, <2>2, <2>3 DEF ClientThread, TypeOK, readVars
<1>4. CASE ClientClose(c)
  BY <1>4 DEF ClientClose, TypeOK, readVars
<1>5. QED
  BY <1>1, <1>2, <1>3, <1>4

LEMMA ServerTypeOK ==
  ASSUME TypeOK, ReadInv, ServerStep \/ RecvFails \/ EpollFails \/ Stop
  PROVE  TypeOK'
<1>closed. CloseAll \in [Clients -> {"none", "pending", "open", "closed"}]
  BY DEF CloseAll
<1>count. Decremented(sCount) \in 0 .. CountMod - 1
  BY DecrementedIs DEF TypeOK
<1>empty. <<>> \in Seq(Piece)
  OBVIOUS
<1>1. CASE LoopTest
  BY <1>1 DEF LoopTest, TypeOK, clientVars, readVars
<1>2. CASE EpollWait
  <2>1. events' \subseteq (Clients \cup {Base}) \X {"in", "hup"}
    BY <1>2 DEF EpollWait, Batches, Ready, Flags
  <2>2. QED
    BY <1>2, <2>1 DEF EpollWait, TypeOK, clientVars, readVars
<1>3. CASE Accept
  <2>1. sCount' \in 0 .. CountMod - 1
    <3>1. \A x, d \in Nat : d >= 1 => x % d \in 0 .. d - 1
      OBVIOUS
    <3>2. sCount + 1 \in Nat /\ CountMod >= 1
      BY IpcFacts DEF TypeOK
    <3>3. QED
      BY <1>3, <3>1, <3>2, IpcFacts DEF Accept
  <2>2. QED
    BY <1>3, <2>1 DEF Accept, TypeOK, clientVars, readVars
<1>4. ASSUME NEW c \in Clients, HangUp(c) PROVE TypeOK'
  <2>1. toServer' \in [Clients -> Seq(Piece)]
    BY <1>4, <1>empty DEF HangUp, TypeOK
  <2>2. events' \subseteq (Clients \cup {Base}) \X {"in", "hup"}
    BY <1>4 DEF HangUp, TypeOK
  <2>3. QED
    BY <1>4, <1>count, <2>1, <2>2 DEF HangUp, TypeOK, clientVars, readVars
<1>5. ASSUME NEW c \in Clients, StartRead(c) PROVE TypeOK'
  <2>1. totalRead' \in 0 .. Chunks /\ sFd' \in Clients \cup {None}
    BY <1>5, IpcFacts DEF StartRead
  <2>2. events' \subseteq (Clients \cup {Base}) \X {"in", "hup"}
    BY <1>5 DEF StartRead, TypeOK
  <2>3. QED
    BY <1>5, <2>1, <2>2 DEF StartRead, TypeOK, clientVars
<1>6. CASE Recv
  <2>1. PICK got \in 1 .. Wanted :
          /\ got <= Len(toServer[sFd])
          /\ buffer' = [i \in 1 .. Chunks |->
                          IF i \in totalRead + 1 .. totalRead + got
                            THEN toServer[sFd][i - totalRead] ELSE buffer[i]]
          /\ toServer' = [toServer EXCEPT ![sFd] = SubSeq(@, got + 1, Len(@))]
          /\ totalRead' = totalRead + got
    BY <1>6 DEF Recv
  <2> DEFINE s == toServer[sFd]
  <2>2. sFd \in Clients /\ s \in Seq(Piece) /\ Len(s) \in Nat
    BY <1>6 DEF Recv, ReadInv, TypeOK
  <2>3. totalRead \in Nat /\ got \in Nat /\ got >= 1 /\ got <= Len(s) /\ totalRead + got <= Chunks
    BY <2>1, <2>2, IpcFacts DEF TypeOK, Wanted
  <2>4. totalRead' \in 0 .. Chunks
    BY <2>1, <2>3, IpcFacts
  <2> HIDE DEF s
  <2>5. buffer' \in [1 .. Chunks -> Piece \cup {None}]
    <3>1. ASSUME NEW i \in 1 .. Chunks, i \in totalRead + 1 .. totalRead + got
          PROVE  s[i - totalRead] \in Piece
      <4>1. i - totalRead \in 1 .. Len(s)
        BY <2>2, <2>3, <3>1
      <4>2. QED
        BY <2>2, <4>1
    <3>2. QED
      BY <2>1, <3>1 DEF TypeOK, s
  <2>6. SubSeq(s, got + 1, Len(s)) \in Seq(Piece)
    BY <2>2, <2>3, SubSeqProperties
  <2>7. toServer' \in [Clients -> Seq(Piece)]
    BY <2>1, <2>2, <2>6 DEF TypeOK, s
  <2>8. QED
    BY <1>6, <2>4, <2>5, <2>7 DEF Recv, TypeOK, clientVars
<1>7. CASE CallHandler
  <2>0. sFd \in Clients
    BY <1>7 DEF CallHandler, HandlerCalled, ReadInv
  <2>1. toClient' \in [Clients -> Seq(Clients)]
    <3>1. CASE UNCHANGED toClient
      BY <3>1 DEF TypeOK
    <3>2. CASE ~UNCHANGED toClient
      <4>1. /\ buffer[1] # None
            /\ toClient' = [toClient EXCEPT ![sFd] = Append(@, buffer[1][1])]
        BY <1>7, <3>2 DEF CallHandler, Replies
      <4>2. buffer[1] \in Piece
        BY <4>1, IpcFacts DEF TypeOK
      <4>3. buffer[1][1] \in Clients
        BY <4>2 DEF Piece
      <4>4. QED
        <5>1. Append(toClient[sFd], buffer[1][1]) \in Seq(Clients)
          BY <2>0, <4>3 DEF TypeOK
        <5>2. QED
          BY <2>0, <4>1, <5>1 DEF TypeOK
    <3>3. QED
      BY <3>1, <3>2
  <2>2. /\ link' \in [Clients -> {"none", "pending", "open", "closed"}]
        /\ sPc' \in {"batch", "wait", "read", "failed", "drain", "exited", "gone", "killed"}
    BY <1>7, <1>closed DEF CallHandler, TypeOK
  <2>3. handled' \in [Clients -> Nat]
    <3>1. handled' = handled \/ handled' = [handled EXCEPT ![sFd] = @ + 1]
      BY <1>7 DEF CallHandler
    <3>2. handled \in [Clients -> Nat] /\ handled[sFd] + 1 \in Nat
      BY <2>0 DEF TypeOK
    <3>3. QED
      BY <2>0, <3>1, <3>2
  <2>4. /\ sFd' = None /\ totalRead' = 0
        /\ UNCHANGED <<toServer, gone, kRunning, kCount, sent, sRunning, sCount, events, buffer>>
    BY <1>7 DEF CallHandler, clientVars
  <2>5. sFd' \in Clients \cup {None} /\ totalRead' \in 0 .. Chunks
    BY <2>4, IpcFacts
  <2>6. /\ toServer' \in [Clients -> Seq(Piece)] /\ gone' \subseteq Clients
        /\ kRunning' \in [Clients -> BOOLEAN] /\ kCount' \in [Clients -> 0 .. CountMod - 1]
        /\ sRunning' \in BOOLEAN /\ sCount' \in 0 .. CountMod - 1
        /\ events' \subseteq (Clients \cup {Base}) \X {"in", "hup"}
        /\ buffer' \in [1 .. Chunks -> Piece \cup {None}] /\ sent' \in [Clients -> Nat]
    BY <2>4, Zenon DEF TypeOK
  <2>7. QED
    BY <2>1, <2>2, <2>3, <2>5, <2>6, Zenon DEF TypeOK
<1>8. CASE Drain
  <2>1. /\ link' \in [Clients -> {"none", "pending", "open", "closed"}]
        /\ sPc' \in {"batch", "wait", "read", "failed", "drain", "exited", "gone", "killed"}
        /\ toServer' \in [Clients -> Seq(Piece)]
    BY <1>8, <1>empty DEF Drain, TypeOK
  <2>2. QED
    BY <1>8, <2>1 DEF Drain, TypeOK, clientVars, readVars
<1>9. CASE Join
  BY <1>9, <1>closed DEF Join, TypeOK, clientVars, readVars
<1>10. CASE RecvFails
  BY <1>10, <1>count, <1>empty DEF RecvFails, ReadInv, TypeOK, clientVars, readVars
<1>11. CASE EpollFails
  BY <1>11 DEF EpollFails, TypeOK, clientVars, readVars
<1>12. CASE Stop
  BY <1>12 DEF Stop, TypeOK, clientVars, readVars
<1>13. QED
  BY <1>1, <1>2, <1>3, <1>4, <1>5, <1>6, <1>7, <1>8, <1>9, <1>10, <1>11, <1>12 DEF ServerStep

-------------------------------------------------------------------------------
(* Every step preserves the rest of the invariant: the clients.            *)

LEMMA ClientIInv ==
  ASSUME IInv, NEW c \in Clients,
         Connect(c) \/ ClientSend(c) \/ ClientThread(c) \/ ClientClose(c)
  PROVE  IInv'
<1>inv. /\ TypeOK /\ EventsInv /\ ReadInv /\ StreamInv /\ BufferInv
        /\ RepliesReachSender /\ ReadNeverSpins /\ CountExact /\ KilledByDeserter
  BY DEF IInv
<1>type. TypeOK'
  BY <1>inv, ClientTypeOK
<1>same. UNCHANGED <<sRunning, sCount, sPc, events, sFd, totalRead, buffer, handled>>
  BY DEF Connect, ClientSend, ClientThread, ClientClose, readVars
<1>read. \A d \in Clients : ReadOf(d)' = ReadOf(d)
  BY <1>same DEF ReadOf
\* A connection that is made is new; a stream only grows.
<1>link. \A d \in Clients : link'[d] = link[d] \/ (link[d] = "none" /\ link'[d] = "pending")
  <2>1. CASE Connect(c)
    BY <1>inv, <2>1 DEF Connect, TypeOK
  <2>2. CASE ~Connect(c)
    <3>1. UNCHANGED link
      BY <2>2 DEF ClientSend, ClientThread, ClientClose
    <3>2. QED
      BY <3>1
  <2>3. QED
    BY <2>1, <2>2
<1>sent. /\ \A d \in Clients : toServer[d] # <<>> => toServer'[d] # <<>>
         /\ gone \subseteq gone'
         /\ \A d \in Clients : sent[d] <= sent'[d]
  <2>1. CASE UNCHANGED <<sent, toServer>>
    <3>1. gone \subseteq gone'
      BY DEF Connect, ClientSend, ClientThread, ClientClose
    <3>2. QED
      BY <1>inv, <2>1, <3>1 DEF TypeOK
  <2>2. CASE ~UNCHANGED <<sent, toServer>>
    <3>1. /\ sent' = [sent EXCEPT ![c] = @ + 1] /\ gone' = gone
          /\ toServer' = [toServer EXCEPT ![c] = @ \o Message(c, sent'[c])]
      BY <2>2 DEF Connect, ClientSend, ClientThread, ClientClose
    <3>2. /\ sent'[c] = sent[c] + 1 /\ sent[c] \in Nat /\ toServer[c] \in Seq(Piece)
          /\ toServer'[c] = toServer[c] \o Message(c, sent'[c])
          /\ \A d \in Clients : d # c => sent'[d] = sent[d] /\ toServer'[d] = toServer[d]
          /\ \A d \in Clients : sent[d] \in Nat
      BY <1>inv, <3>1 DEF TypeOK
    <3>3. toServer[c] # <<>> => toServer'[c] # <<>>
      <4>1. Message(c, sent'[c]) \in Seq(Piece)
        BY <3>2, MessageIs
      <4>2. QED
        BY <3>2, <4>1, ConcatEmptySeq
    <3>4. QED
      BY <3>1, <3>2, <3>3
  <2>3. QED
    BY <2>1, <2>2
<1>1. EventsInv'
  <2>1. InLoop' = InLoop
    BY <1>same DEF InLoop
  <2>2. QED
    BY <1>inv, <1>same, <1>link, <1>sent, <2>1 DEF EventsInv
<1>2. ReadInv'
  BY <1>inv, <1>same, <1>link DEF ReadInv
<1>3. StreamInv'
  <2>1. CASE ClientSend(c)
    BY <2>1, SendStream
  <2>2. CASE ~ClientSend(c)
    <3>1. UNCHANGED <<toServer, sent>>
      BY <2>2 DEF Connect, ClientThread, ClientClose
    <3>2. QED
      BY <1>inv, <1>same, <1>read, <1>link, <3>1, StreamSame
  <2>3. QED
    BY <2>1, <2>2
<1>4. BufferInv'
  BY <1>inv, <1>same DEF BufferInv
<1>5. RepliesReachSender'
  <2>1. CASE UNCHANGED toClient
    BY <1>inv, <2>1 DEF RepliesReachSender
  <2>2. CASE toClient[c] # <<>> /\ toClient' = [toClient EXCEPT ![c] = Tail(@)]
    <3> DEFINE s == toClient[c]
    <3>1. s \in Seq(Clients) /\ s # <<>> /\ toClient'[c] = Tail(s)
      BY <1>inv, <2>2 DEF TypeOK
    <3>2. \A i \in DOMAIN Tail(s) : i + 1 \in DOMAIN s /\ Tail(s)[i] = s[i + 1]
      BY <3>1
    <3>3. \A d \in Clients : d # c => toClient'[d] = toClient[d]
      BY <1>inv, <2>2 DEF TypeOK
    <3>4. \A i \in DOMAIN toClient'[c] : toClient'[c][i] = c
      BY <1>inv, <3>1, <3>2 DEF RepliesReachSender
    <3>5. QED
      BY <1>inv, <3>3, <3>4 DEF RepliesReachSender
  <2>3. QED
    BY <2>1, <2>2 DEF Connect, ClientSend, ClientThread, ClientClose
<1>6. CountExact'
  <2>1. InLoop' = InLoop
    BY <1>same DEF InLoop
  <2>2. Open' = Open
    BY <1>link DEF Open
  <2>3. QED
    BY <1>inv, <1>same, <2>1, <2>2, CountSame
<1>7. KilledByDeserter'
  <2>1. \A d \in Clients : handled[d] < sent[d] => handled[d] < sent'[d]
    <3>1. \A d \in Clients : handled[d] \in Nat /\ sent[d] \in Nat /\ sent'[d] \in Nat
      BY <1>inv, <1>type DEF TypeOK
    <3>2. QED
      BY <1>sent, <3>1
  <2>2. QED
    BY <1>inv, <1>same, <1>sent, <2>1 DEF KilledByDeserter, TypeOK
<1>8. ReadNeverSpins'
  BY <1>inv, <1>same, <1>sent DEF ReadNeverSpins, Filled, ReadInv
<1>9. QED
  BY <1>type, <1>1, <1>2, <1>3, <1>4, <1>5, <1>6, <1>7, <1>8 DEF IInv

-------------------------------------------------------------------------------
(* The server: the turns of its loop that read nothing.                    *)

LEMMA LoopIInv ==
  ASSUME IInv, LoopTest \/ EpollWait \/ EpollFails \/ Accept \/ Drain \/ Join \/ Stop
  PROVE  IInv'
<1>inv. /\ TypeOK /\ EventsInv /\ ReadInv /\ StreamInv /\ BufferInv
        /\ RepliesReachSender /\ ReadNeverSpins /\ CountExact /\ KilledByDeserter
  BY DEF IInv
<1>type. TypeOK'
  BY <1>inv, ServerTypeOK DEF ServerStep
<1>same. UNCHANGED <<toClient, gone, sent, sFd, totalRead, buffer, handled>>
  BY DEF LoopTest, EpollWait, EpollFails, Accept, Drain, Join, Stop, clientVars, readVars
<1>pc. /\ sRunning' => sRunning
       /\ \/ sPc' = sPc
          \/ sPc \notin {"read", "failed"} /\ sPc' \notin {"read", "failed", "killed"}
       /\ InLoop' => InLoop
  BY DEF LoopTest, EpollWait, EpollFails, Accept, Drain, Join, Stop, InLoop
<1>read. \A c \in Clients : ReadOf(c)' = ReadOf(c)
  BY <1>same, <1>pc DEF ReadOf
<1>link. \A c \in Clients :
           link'[c] # "closed" =>
             /\ link[c] # "closed" /\ toServer'[c] = toServer[c]
  <2>1. CASE LoopTest \/ EpollWait \/ EpollFails \/ Stop
    <3>1. UNCHANGED <<link, toServer>>
      BY <2>1 DEF LoopTest, EpollWait, EpollFails, Stop
    <3>2. QED
      BY <3>1
  <2>2. CASE Accept
    <3>1. PICK c \in Pending : link' = [link EXCEPT ![c] = "open"]
      BY <2>2 DEF Accept
    <3>2. UNCHANGED toServer
      BY <2>2 DEF Accept
    <3>3. QED
      BY <1>inv, <2>2, <3>1, <3>2 DEF Pending, TypeOK
  <2>3. CASE Drain
    BY <2>3 DEF Drain
  <2>4. CASE Join
    BY <2>4 DEF Join, CloseAll
  <2>5. QED
    BY <2>1, <2>2, <2>3, <2>4
<1>1. EventsInv'
  <2>1. CASE EpollWait
    <3>1. PICK S \in Batches : events' = {<<fd, Flags(fd)>> : fd \in S}
      BY <2>1 DEF EpollWait
    <3>2. \A fd \in S : fd \in Ready
      BY <3>1 DEF Batches
    <3>3. \A e \in events' : e[1] \in S /\ e = <<e[1], Flags(e[1])>>
      BY <3>1
    <3>4. UNCHANGED <<link, toServer>> /\ sPc' = "batch"
      BY <2>1 DEF EpollWait
    <3>5. \A e \in events' : e[1] \in Clients => link[e[1]] = "open"
      BY <3>2, <3>3, IpcFacts DEF Ready
    <3>6. \A c \in Clients : <<c, "in">> \in events' => toServer[c] # <<>>
      <4>1. ASSUME NEW c \in Clients, <<c, "in">> \in events' PROVE toServer[c] # <<>>
        <5>1. c \in S /\ Flags(c) = "in"
          BY <3>3, <4>1
        <5>2. c \notin gone
          BY <5>1 DEF Flags
        <5>3. QED
          BY <3>2, <5>1, <5>2, IpcFacts DEF Ready
      <4>2. QED
        BY <4>1
    <3>7. QED
      BY <3>3, <3>4, <3>5, <3>6 DEF EventsInv
  <2>2. CASE Accept
    <3>1. PICK c \in Pending : link' = [link EXCEPT ![c] = "open"]
      BY <2>2 DEF Accept
    <3>2. \A d \in Clients : link[d] = "open" => link'[d] = "open"
      BY <1>inv, <3>1 DEF TypeOK, Pending
    <3>3. events' \subseteq events /\ UNCHANGED <<toServer, sPc>> /\ InLoop
      BY <2>2 DEF Accept, InLoop
    <3>4. QED
      BY <1>inv, <1>same, <3>2, <3>3 DEF EventsInv
  <2>3. CASE LoopTest \/ EpollFails \/ Stop
    <3>1. UNCHANGED <<link, toServer, events>>
      BY <2>3 DEF LoopTest, EpollFails, Stop
    <3>2. QED
      BY <1>inv, <1>same, <1>pc, <3>1 DEF EventsInv
  <2>4. CASE Drain \/ Join
    <3>1. ~InLoop'
      BY <2>4 DEF Drain, Join, InLoop
    <3>2. QED
      BY <3>1 DEF EventsInv
  <2>5. QED
    BY <2>1, <2>2, <2>3, <2>4
<1>2. ReadInv'
  <2>1. CASE sPc' \in {"read", "failed"}
    <3>1. UNCHANGED <<link, sPc>>
      BY <2>1 DEF LoopTest, EpollWait, EpollFails, Accept, Drain, Join, Stop
    <3>2. QED
      BY <1>inv, <1>same, <3>1 DEF ReadInv
  <2>2. CASE sPc' \notin {"read", "failed"}
    BY <2>2 DEF ReadInv
  <2>3. QED
    BY <2>1, <2>2
<1>3. StreamInv'
  BY <1>inv, <1>same, <1>pc, <1>read, <1>link, StreamSame
<1>4. BufferInv'
  BY <1>inv, <1>same, <1>pc DEF BufferInv
<1>5. RepliesReachSender'
  BY <1>inv, <1>same DEF RepliesReachSender
<1>6. CountExact'
  <2>1. CASE Accept
    <3>1. PICK c \in Pending : link' = [link EXCEPT ![c] = "open"]
      BY <2>1 DEF Accept
    <3>2. c \in Clients /\ link[c] # "open"
      BY <3>1 DEF Pending
    <3>3. Open' = Open \cup {c}
      BY <1>inv, <3>1, <3>2 DEF Open, TypeOK
    <3>4. sCount' = Cardinality(Open')
      BY <1>inv, <2>1, <3>2, <3>3, OpenMore DEF Accept, InLoop
    <3>5. QED
      BY <3>4 DEF CountExact, Open
  <2>2. CASE LoopTest \/ EpollWait \/ EpollFails \/ Stop
    <3>1. UNCHANGED <<sCount, link>>
      BY <2>2 DEF LoopTest, EpollWait, EpollFails, Stop
    <3>2. QED
      BY <1>inv, <1>pc, <3>1, CountSame DEF Open
  <2>3. CASE Drain \/ Join
    <3>1. ~InLoop'
      BY <2>3 DEF Drain, Join, InLoop
    <3>2. QED
      BY <3>1 DEF CountExact
  <2>4. QED
    BY <2>1, <2>2, <2>3
<1>7. KilledByDeserter'
  BY <1>inv, <1>same, <1>pc DEF KilledByDeserter
<1>8. ReadNeverSpins'
  <2>1. CASE sPc' = "read"
    <3>1. UNCHANGED <<toServer, sPc>>
      BY <2>1 DEF LoopTest, EpollWait, EpollFails, Accept, Drain, Join, Stop
    <3>2. QED
      BY <1>inv, <1>same, <1>pc, <3>1 DEF ReadNeverSpins, Filled
  <2>2. CASE sPc' # "read"
    BY <2>2 DEF ReadNeverSpins
  <2>3. QED
    BY <2>1, <2>2
<1>9. QED
  BY <1>type, <1>1, <1>2, <1>3, <1>4, <1>5, <1>6, <1>7, <1>8 DEF IInv

-------------------------------------------------------------------------------
(* The server: the steps on one connection.                                *)

\* A connection is closed: its events are gone, the other connections stand.
LEMMA CloseIInv ==
  ASSUME IInv, NEW c \in Clients, HangUp(c) \/ (RecvFails /\ sFd = c)
  PROVE  IInv'
<1>inv. /\ TypeOK /\ EventsInv /\ ReadInv /\ StreamInv /\ BufferInv
        /\ RepliesReachSender /\ ReadNeverSpins /\ CountExact /\ KilledByDeserter
  BY DEF IInv
<1>type. TypeOK'
  BY <1>inv, ServerTypeOK DEF ServerStep
<1>same. UNCHANGED <<toClient, gone, sent, sRunning, sFd, totalRead, buffer, handled>>
  BY DEF HangUp, RecvFails, clientVars, readVars
<1>loop. /\ InLoop /\ InLoop' /\ link[c] = "open" /\ sCount' = Decremented(sCount)
         /\ sPc' \in {"batch", "failed"} /\ events' \subseteq events
         /\ sPc' = "failed" => sPc = "read" /\ sFd = c
         /\ sPc' = "batch" => sPc = "batch"
  BY <1>inv DEF HangUp, RecvFails, InLoop, EventsInv, ReadInv
<1>link. /\ link'[c] = "closed"
         /\ \A d \in Clients : d # c => link'[d] = link[d] /\ toServer'[d] = toServer[d]
  BY <1>inv DEF HangUp, RecvFails, TypeOK
<1>events. \A e \in events' : e[1] # c
  <2>1. CASE HangUp(c)
    <3>1. <<c, "hup">> \in events /\ events' = events \ {<<c, "hup">>}
      BY <2>1 DEF HangUp
    <3>2. \A e \in events : e[1] = c => e = <<c, "hup">>
      BY <1>inv, <1>loop, <3>1 DEF EventsInv
    <3>3. QED
      BY <3>1, <3>2
  <2>2. CASE RecvFails /\ sFd = c
    BY <1>inv, <1>loop, <2>2 DEF RecvFails, EventsInv
  <2>3. QED
    BY <2>1, <2>2
<1>1. EventsInv'
  BY <1>inv, <1>same, <1>loop, <1>link, <1>events DEF EventsInv
<1>2. ReadInv'
  BY <1>inv, <1>same, <1>loop, <1>link DEF ReadInv
<1>3. StreamInv'
  <2>1. \A d \in Clients : d # c => ReadOf(d)' = ReadOf(d)
    BY <1>same, <1>loop DEF ReadOf
  <2>2. QED
    BY <1>inv, <1>same, <1>link, <2>1, StreamSame
<1>4. BufferInv'
  BY <1>loop DEF BufferInv
<1>5. RepliesReachSender'
  BY <1>inv, <1>same DEF RepliesReachSender
<1>6. CountExact'
  <2>1. Open' = Open \ {c}
    BY <1>inv, <1>link, <1>loop DEF Open, TypeOK
  <2>2. sCount' = Cardinality(Open')
    BY <1>inv, <1>loop, <2>1, OpenLess
  <2>3. QED
    BY <2>2 DEF CountExact, Open
<1>7. KilledByDeserter'
  BY <1>loop DEF KilledByDeserter
<1>8. ReadNeverSpins'
  BY <1>loop DEF ReadNeverSpins
<1>9. QED
  BY <1>type, <1>1, <1>2, <1>3, <1>4, <1>5, <1>6, <1>7, <1>8 DEF IInv

LEMMA StartReadIInv ==
  ASSUME IInv, NEW c \in Clients, StartRead(c)
  PROVE  IInv'
<1>inv. /\ TypeOK /\ EventsInv /\ ReadInv /\ StreamInv /\ BufferInv
        /\ RepliesReachSender /\ ReadNeverSpins /\ CountExact /\ KilledByDeserter
  BY DEF IInv
<1>type. TypeOK'
  BY <1>inv, ServerTypeOK DEF ServerStep
<1>same. UNCHANGED <<link, toServer, toClient, gone, sent, sRunning, sCount, buffer, handled>>
  BY DEF StartRead, clientVars
<1>pc. /\ sPc = "batch" /\ sPc' = "read" /\ sFd' = c /\ totalRead' = 0
       /\ <<c, "in">> \in events /\ events' = events \ {<<c, "in">>}
       /\ InLoop /\ InLoop'
  BY DEF StartRead, InLoop
<1>open. link[c] = "open" /\ \A e \in events : e[1] = c => e = <<c, "in">>
  BY <1>inv, <1>pc DEF EventsInv
<1>1. EventsInv'
  BY <1>inv, <1>same, <1>pc, <1>open DEF EventsInv
<1>2. ReadInv'
  BY <1>same, <1>pc, <1>open DEF ReadInv
<1>3. StreamInv'
  <2>1. \A d \in Clients : ReadOf(d)' = ReadOf(d)
    BY <1>pc DEF ReadOf
  <2>2. QED
    BY <1>inv, <1>same, <2>1, StreamSame
<1>4. BufferInv'
  BY <1>pc DEF BufferInv
<1>5. RepliesReachSender'
  BY <1>inv, <1>same DEF RepliesReachSender
<1>6. CountExact'
  BY <1>inv, <1>same, <1>pc, CountSame DEF Open
<1>7. KilledByDeserter'
  BY <1>pc DEF KilledByDeserter
<1>8. ReadNeverSpins'
  BY <1>inv, <1>same, <1>pc DEF ReadNeverSpins, EventsInv
<1>9. QED
  BY <1>type, <1>1, <1>2, <1>3, <1>4, <1>5, <1>6, <1>7, <1>8 DEF IInv

LEMMA RecvIInv ==
  ASSUME IInv, Recv
  PROVE  IInv'
<1>inv. /\ TypeOK /\ EventsInv /\ ReadInv /\ StreamInv /\ BufferInv
        /\ RepliesReachSender /\ ReadNeverSpins /\ CountExact /\ KilledByDeserter
  BY DEF IInv
<1>type. TypeOK'
  BY <1>inv, ServerTypeOK DEF ServerStep
<1>same. UNCHANGED <<link, toClient, gone, sent, sRunning, sCount, sPc, events, sFd, handled>>
  BY DEF Recv, clientVars
<1>pc. sPc = "read" /\ InLoop /\ InLoop'
  BY <1>same DEF Recv, InLoop
<1>1. EventsInv'
  <2>1. \A d \in Clients : d # sFd => toServer'[d] = toServer[d]
    <3>1. PICK got \in 1 .. Wanted :
            toServer' = [toServer EXCEPT ![sFd] = SubSeq(@, got + 1, Len(@))]
      BY DEF Recv
    <3>2. QED
      BY <1>inv, <3>1 DEF TypeOK
  <2>2. QED
    BY <1>inv, <1>same, <1>pc, <2>1 DEF EventsInv
<1>2. ReadInv'
  BY <1>inv, <1>same DEF ReadInv
<1>3. StreamInv' /\ BufferInv'
  BY RecvStream
<1>4. RepliesReachSender'
  BY <1>inv, <1>same DEF RepliesReachSender
<1>5. CountExact'
  BY <1>inv, <1>same, <1>pc, CountSame DEF Open
<1>6. KilledByDeserter'
  BY <1>inv, <1>same DEF KilledByDeserter
<1>7. ReadNeverSpins'
  <2>1. SUFFICES ASSUME sRunning', toServer'[sFd'] = <<>>, totalRead' # Chunks
                 PROVE  FALSE
    BY DEF ReadNeverSpins, Filled
  <2>2. sFd' \in Clients /\ link'[sFd'] # "closed" /\ ReadOf(sFd)' = totalRead'
    BY <1>inv, <1>same, <1>pc DEF ReadInv, ReadOf
  <2>3. StreamOf(sFd)'
    BY <1>3, <2>1, <2>2 DEF StreamInv
  <2>4. totalRead' = 0
    BY <2>1, <2>2, <2>3 DEF StreamOf
  <2>5. totalRead' >= 1
    BY <1>inv, IpcFacts DEF Recv, Wanted, TypeOK
  <2>6. QED
    BY <2>4, <2>5
<1>8. QED
  BY <1>type, <1>1, <1>2, <1>3, <1>4, <1>5, <1>6, <1>7 DEF IInv

\* When the read loop ends with a message, the buffer is the next message of
\* the connection.
LEMMA MessageInBuffer ==
  ASSUME IInv, HandlerCalled, sRunning, link[sFd] = "open"
  PROVE  /\ sPc = "read" /\ totalRead = Chunks /\ sFd \in Clients /\ ReadOf(sFd) = Chunks
         /\ handled[sFd] < sent[sFd]
         /\ \A i \in 1 .. Chunks : buffer[i] = <<sFd, handled[sFd] + 1, i>>
<1>1. sPc = "read" /\ totalRead = Chunks /\ sFd \in Clients
  BY DEF IInv, HandlerCalled, ReadInv, Filled
<1>2. ReadOf(sFd) = Chunks
  BY <1>1 DEF ReadOf
<1>3. StreamOf(sFd)
  BY <1>1 DEF IInv, StreamInv
<1>4. handled[sFd] < sent[sFd]
  BY <1>2, <1>3, IpcFacts DEF StreamOf
<1>5. \A i \in 1 .. Chunks : buffer[i] = <<sFd, handled[sFd] + 1, i>>
  BY <1>1 DEF IInv, BufferInv
<1>6. QED
  BY <1>1, <1>2, <1>4, <1>5

LEMMA CallHandlerIInv ==
  ASSUME IInv, CallHandler
  PROVE  IInv'
<1>inv. /\ TypeOK /\ EventsInv /\ ReadInv /\ StreamInv /\ BufferInv
        /\ RepliesReachSender /\ ReadNeverSpins /\ CountExact /\ KilledByDeserter
  BY DEF IInv
<1>type. TypeOK'
  BY <1>inv, ServerTypeOK DEF ServerStep
<1>same. UNCHANGED <<toServer, gone, sent, sRunning, sCount, events, buffer>>
  BY DEF CallHandler, clientVars
<1>pc. /\ HandlerCalled /\ sPc \in {"read", "failed"} /\ sPc' \in {"batch", "killed"}
       /\ InLoop /\ (InLoop' <=> sPc' = "batch") /\ sFd \in Clients
       /\ sPc' = "batch" => UNCHANGED link
       /\ sPc' = "killed" => link' = CloseAll /\ Replies /\ sFd \in gone
  BY <1>inv DEF CallHandler, HandlerCalled, InLoop, ReadInv
<1>replies. Replies => sRunning /\ link[sFd] = "open"
  BY DEF Replies, SendAllowed
<1>1. EventsInv'
  <2>1. CASE sPc' = "batch"
    BY <1>inv, <1>same, <1>pc, <2>1 DEF EventsInv
  <2>2. CASE sPc' = "killed"
    BY <1>pc, <2>2 DEF EventsInv
  <2>3. QED
    BY <1>pc, <2>1, <2>2
<1>2. ReadInv' /\ BufferInv'
  BY <1>pc DEF ReadInv, BufferInv
<1>3. StreamInv'
  <2>1. ASSUME sRunning', NEW c \in Clients, link'[c] # "closed"
        PROVE  StreamOf(c)'
    <3>1. ReadOf(c)' = 0
      BY <1>pc DEF ReadOf
    <3>2. link[c] # "closed" /\ sRunning
      BY <1>same, <1>pc, <2>1 DEF CloseAll
    <3>3. StreamOf(c)
      BY <1>inv, <3>2 DEF StreamInv
    <3>4. InOrder(toServer[c], sent[c])'
      BY <1>same, <3>3 DEF StreamOf, InOrder
    \* The message that has been read is handled now.
    <3>5. CASE c = sFd
      <4>1. sPc = "read" /\ link[c] = "open" /\ sPc' = "batch"
        BY <1>inv, <1>pc, <2>1, <3>2, <3>5 DEF ReadInv, CloseAll
      <4>2. handled' = [handled EXCEPT ![c] = @ + 1]
        BY <3>2, <3>5, <4>1 DEF CallHandler
      <4>3. handled'[c] = handled[c] + 1 /\ handled[c] \in Nat
        BY <1>inv, <4>2 DEF TypeOK
      <4>4. ReadOf(c) = Chunks
        BY <1>pc, <3>2, <3>5, <4>1, MessageInBuffer
      <4>5. toServer[c] # <<>> =>
              /\ toServer[c][1] = <<c, handled[c] + 2, 1>>
              /\ toServer[c][Len(toServer[c])] = <<c, sent[c], Chunks>>
        BY <3>3, <4>4, IpcFacts DEF StreamOf
      <4>6. toServer[c] = <<>> => handled[c] + 1 = sent[c]
        BY <3>3, <4>4, IpcFacts DEF StreamOf
      <4>7. handled'[c] + 1 = handled[c] + 2 /\ 0 + 1 = 1 /\ 0 < Chunks /\ ~(0 > 0)
        BY <4>3, IpcFacts
      <4>8. QED
        BY <1>same, <3>1, <3>4, <4>3, <4>5, <4>6, <4>7 DEF StreamOf
    <3>6. CASE c # sFd
      <4>1. handled'[c] = handled[c]
        BY <1>inv, <1>pc, <3>6 DEF CallHandler, TypeOK
      <4>2. ReadOf(c) = 0
        BY <3>6 DEF ReadOf
      <4>3. QED
        BY <1>same, <3>1, <3>3, <3>4, <4>1, <4>2 DEF StreamOf
    <3>7. QED
      BY <3>5, <3>6
  <2>2. QED
    BY <2>1 DEF StreamInv
<1>4. RepliesReachSender'
  <2>1. CASE UNCHANGED toClient
    BY <1>inv, <2>1 DEF RepliesReachSender
  <2>2. CASE ~UNCHANGED toClient
    <3>1. Replies /\ toClient' = [toClient EXCEPT ![sFd] = Append(@, buffer[1][1])]
      BY <2>2 DEF CallHandler
    <3>2. buffer[1][1] = sFd
      <4>1. buffer[1] = <<sFd, handled[sFd] + 1, 1>>
        BY <1>pc, <1>replies, <3>1, MessageInBuffer, IpcFacts
      <4>2. QED
        BY <4>1
    <3> DEFINE s == toClient[sFd]
    <3>3. /\ s \in Seq(Clients) /\ toClient'[sFd] = Append(s, sFd)
          /\ \A d \in Clients : d # sFd => toClient'[d] = toClient[d]
      BY <1>inv, <1>pc, <3>1, <3>2 DEF TypeOK
    <3>4. \A i \in DOMAIN s : s[i] = sFd
      BY <1>inv, <1>pc DEF RepliesReachSender
    <3>5. \A i \in DOMAIN Append(s, sFd) : Append(s, sFd)[i] = sFd
      <4> HIDE DEF s
      <4>1. QED
        BY <1>pc, <3>3, <3>4
    <3>6. QED
      BY <1>inv, <3>3, <3>5 DEF RepliesReachSender
  <2>3. QED
    BY <2>1, <2>2
<1>5. CountExact'
  <2>1. CASE sPc' = "batch"
    BY <1>inv, <1>same, <1>pc, <2>1, CountSame DEF Open
  <2>2. CASE sPc' = "killed"
    BY <1>pc, <2>2 DEF CountExact
  <2>3. QED
    BY <1>pc, <2>1, <2>2
<1>6. KilledByDeserter'
  <2>1. SUFFICES ASSUME sPc' = "killed"
                 PROVE  \E c \in gone' : handled'[c] < sent'[c]
    BY DEF KilledByDeserter
  <2>2. sFd \in gone /\ handled[sFd] < sent[sFd] /\ handled' = handled
    BY <1>pc, <1>replies, <2>1, MessageInBuffer DEF CallHandler
  <2>3. QED
    BY <1>same, <2>2
<1>7. ReadNeverSpins'
  BY <1>pc DEF ReadNeverSpins
<1>8. QED
  BY <1>type, <1>1, <1>2, <1>3, <1>4, <1>5, <1>6, <1>7 DEF IInv

LEMMA NextIInv == IInv /\ [Next]_vars => IInv'
<1> SUFFICES ASSUME IInv, [Next]_vars PROVE IInv'
  OBVIOUS
<1>1. ASSUME NEW c \in Clients, Connect(c) \/ ClientSend(c) \/ ClientThread(c) \/ ClientClose(c)
      PROVE  IInv'
  BY <1>1, ClientIInv
<1>2. CASE LoopTest \/ EpollWait \/ EpollFails \/ Accept \/ Drain \/ Join \/ Stop
  BY <1>2, LoopIInv
<1>3. ASSUME NEW c \in Clients, HangUp(c) PROVE IInv'
  BY <1>3, CloseIInv
<1>4. ASSUME NEW c \in Clients, StartRead(c) PROVE IInv'
  BY <1>4, StartReadIInv
<1>5. CASE Recv
  BY <1>5, RecvIInv
<1>6. CASE RecvFails
  <2>1. sFd \in Clients
    BY <1>6 DEF RecvFails, IInv, ReadInv
  <2>2. QED
    BY <1>6, <2>1, CloseIInv
<1>7. CASE CallHandler
  BY <1>7, CallHandlerIInv
<1>8. CASE UNCHANGED vars
  <2>1. UNCHANGED <<link, gone, toServer, toClient, kRunning, kCount, sRunning, sCount, sPc,
                    events, sFd, totalRead, buffer, sent, handled>>
    BY <1>8 DEF vars, clientVars, readVars
  <2>2. TypeOK'
    BY <2>1 DEF IInv, TypeOK
  <2>3. EventsInv' /\ ReadInv' /\ BufferInv'
    BY <2>1 DEF IInv, EventsInv, InLoop, ReadInv, BufferInv
  <2>4. RepliesReachSender' /\ ReadNeverSpins' /\ KilledByDeserter'
    BY <2>1 DEF IInv, RepliesReachSender, ReadNeverSpins, Filled, KilledByDeserter
  <2>5. StreamInv'
    BY <2>1, StreamSame DEF IInv, ReadOf
  <2>6. CountExact'
    BY <2>1, CountSame DEF IInv, InLoop, Open
  <2>7. QED
    BY <2>2, <2>3, <2>4, <2>5, <2>6 DEF IInv
<1>9. QED
  BY <1>1, <1>2, <1>3, <1>4, <1>5, <1>6, <1>7, <1>8 DEF Next, ServerStep

-------------------------------------------------------------------------------
(* The theorems.                                                           *)

\* The strengthening is an invariant of the connection.
THEOREM Invariance == Spec => []IInv
<1>1. QED
  BY InitIInv, NextIInv, PTL DEF Spec

\* ServerThread calls the handler with whole messages, in the order in which
\* the connection's client has sent them, none left out and none twice: for
\* every way recv may cut the stream and every interleaving with hang-ups,
\* failed reads and other clients.
THEOREM MessagesInOrder == Spec => []HandlerGetsNext
<1>1. IInv => HandlerGetsNext
  <2>1. SUFFICES ASSUME IInv, HandlerCalled, sRunning, link[sFd] = "open"
                 PROVE  buffer = Message(sFd, handled[sFd] + 1)
    BY DEF HandlerGetsNext
  <2>2. \A i \in 1 .. Chunks : buffer[i] = <<sFd, handled[sFd] + 1, i>>
    BY <2>1, MessageInBuffer
  <2>3. buffer \in [1 .. Chunks -> Piece \cup {None}]
    BY <2>1 DEF IInv, TypeOK
  <2>4. QED
    BY <2>2, <2>3 DEF Message
<1>2. QED
  BY <1>1, Invariance, PTL

\* Send, called by the handler, answers the client whose message it has, also
\* after a failed read and while the server stops, when the buffer is stale.
THEOREM RepliesNotMisdirected == Spec => []RepliesReachSender
<1>1. IInv => RepliesReachSender
  BY DEF IInv
<1>2. QED
  BY <1>1, Invariance, PTL

\* The read loop of ServerThread never turns on an empty socket: what is left
\* of a message it has begun is there.
THEOREM ReadsProgress == Spec => []ReadNeverSpins
<1>1. IInv => ReadNeverSpins
  BY DEF IInv
<1>2. QED
  BY <1>1, Invariance, PTL

\* m_ConnectionCount is the number of open connections as long as the thread
\* is in its loop: it neither wraps nor drifts.
THEOREM CountIsExact == Spec => []CountExact
<1>1. IInv => CountExact
  BY DEF IInv
<1>2. QED
  BY <1>1, Invariance, PTL

\* SIGPIPE ends the server only through a client that has left while a message
\* of it was still unanswered.
THEOREM KilledOnlyByDeserter == Spec => []KilledByDeserter
<1>1. IInv => KilledByDeserter
  BY DEF IInv
<1>2. QED
  BY <1>1, Invariance, PTL
===============================================================================
