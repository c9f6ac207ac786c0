------------------------ MODULE SessionHandshakeProofs ------------------------
(* What holds of a session from any source and with any server.            *)
EXTENDS SessionHandshake, FiniteSetTheorems, SequenceTheorems, TLAPS

\* The latch is counted exactly when the started callbacks are installed.
LatchInv ==
    /\ callbacks \in {"none", "init", "started"}
    /\ main = "start" => thread = "none"
    /\ thread \in {"none", "source", "callbacks"} => callbacks = "none"
    /\ start_latch = IF callbacks = "started" THEN 0 ELSE 1

\* A socket is on only between start() and stop().
SocketInv ==
    /\ main = "start" => thread = "none"
    /\ conn # "off" => thread = "wait"
    /\ main = "ended" => thread = "done"

\* The latch's invariant.
THEOREM LatchInductive == Spec => []LatchInv
<1>1. Init => LatchInv
  BY DEF Init, LatchInv
<1>2. LatchInv /\ [Next]_vars => LatchInv'
  <2> SUFFICES ASSUME LatchInv, [Next]_vars PROVE LatchInv'
    OBVIOUS
  <2> USE DEF LatchInv
  <2>1. CASE Main \/ EndSession
    BY <2>1 DEF Main, EndSession, StartThread, StartReturn, EndJoin, socket
  <2>2. CASE Thread
    <3>1. CASE ThreadCallbacks
      BY <3>1 DEF ThreadCallbacks, CallbacksFor, caller
    <3>2. CASE ThreadSource \/ ThreadStart \/ ThreadStop
      BY <3>2 DEF ThreadSource, ThreadStart, ThreadStop, caller, socket
    <3> QED
      BY <2>2, <3>1, <3>2 DEF Thread
  <2>3. CASE Socket
    <3>1. CASE InitStartAck
      BY <3>1 DEF InitStartAck, CallbacksFor, caller
    <3>2. CASE Socket /\ ~InitStartAck
      BY <3>2 DEF Socket, OnOpen, InitKeepAlive, InitOther, OnMessage,
                  OnBadMessage, OnClose, caller, socket
    <3> QED
      BY <2>3, <3>1, <3>2
  <2>4. CASE Server
    BY <2>4 DEF Server, ServerKeepAlive, ServerStartAck, ServerOther, ServerData,
                ServerClose, caller, socket
  <2>5. CASE UNCHANGED vars
    BY <2>5 DEF vars, caller, socket
  <2> QED
    BY <2>1, <2>2, <2>3, <2>4, <2>5 DEF Next, Idle
<1> QED
  BY <1>1, <1>2, PTL DEF Spec

\* _start_latch never goes below zero: the acknowledgement that counts it also
\* takes the callback away that would count it again, and a debug session, which
\* counts it on its own, never has that callback.
THEOREM StartIsCountedOnce == Spec => []StartCountedOnce
<1>1. LatchInv => StartCountedOnce
  BY DEF LatchInv, StartCountedOnce
<1> QED
  BY <1>1, LatchInductive, PTL

\* The socket's invariant.
THEOREM SocketAlways == Spec => []SocketInv
<1>1. Init => SocketInv
  BY DEF Init, SocketInv
<1>2. SocketInv /\ [Next]_vars => SocketInv'
  <2> SUFFICES ASSUME SocketInv, [Next]_vars PROVE SocketInv'
    OBVIOUS
  <2> USE DEF SocketInv
  <2>1. CASE Main \/ EndSession
    BY <2>1 DEF Main, EndSession, StartThread, StartReturn, EndJoin
  <2>2. CASE Thread
    BY <2>2 DEF Thread, ThreadSource, ThreadCallbacks, ThreadStart, ThreadStop,
                caller
  <2>3. CASE Socket
    BY <2>3 DEF Socket, OnOpen, InitKeepAlive, InitStartAck, InitOther, OnMessage,
                OnBadMessage, OnClose, Received, caller
  <2>4. CASE Server
    BY <2>4 DEF Server, ServerKeepAlive, ServerStartAck, ServerOther, ServerData,
                ServerClose, caller
  <2>5. CASE UNCHANGED vars
    BY <2>5 DEF vars, caller
  <2> QED
    BY <2>1, <2>2, <2>3, <2>4, <2>5 DEF Next, Idle
<1> QED
  BY <1>1, <1>2, PTL DEF Spec

\* When end_session has returned the socket is stopped and the thread joined.
THEOREM EndIsQuiet == Spec => []QuietAfterEnd
<1>1. SocketInv => QuietAfterEnd
  BY DEF SocketInv, QuietAfterEnd
<1> QED
  BY <1>1, SocketAlways, PTL

-------------------------------------------------------------------------------
(* Telemetry on its way: numbers offered, numbers in the inbox.            *)

MessageType == [kind : {"ka", "start_ack", "data", "other", "close"}, n : Nat]

\* The telemetry among the first j messages.
DataAt(q, j) == {i \in 1 .. j : q[i].kind = "data"}

\* The messages offered are 1, 2, ..., and those in the inbox carry on from there,
\* up to the last one sent.
Numbered(q, o, s) ==
    /\ q \in Seq(MessageType) /\ o \in Seq(Nat) /\ s \in Nat
    /\ o = [i \in 1 .. Len(o) |-> i]
    /\ \A i \in 1 .. Len(q) :
          q[i].kind = "data" => q[i].n = Len(o) + Cardinality(DataAt(q, i))
    /\ s = Len(o) + Cardinality(DataAt(q, Len(q)))

\* Nothing follows a close, and what finds no started callbacks comes behind the
\* acknowledgement that installs them.
Ordered(q, c) ==
    /\ \A i \in 1 .. Len(q) : q[i].kind = "close" => i = Len(q)
    /\ \A i \in 1 .. Len(q) :
          q[i].kind = "data" /\ c # "started"
            => \E j \in 1 .. i - 1 : q[j].kind = "start_ack"

\* Telemetry is counted.
LEMMA DataCount ==
  ASSUME NEW q, NEW j \in Nat
  PROVE  IsFiniteSet(DataAt(q, j)) /\ Cardinality(DataAt(q, j)) \in Nat
<1>1. IsFiniteSet(1 .. j)
  BY FS_Interval
<1>2. DataAt(q, j) \subseteq 1 .. j
  BY DEF DataAt
<1> QED
  BY <1>1, <1>2, FS_Subset, FS_CardinalityType

\* A message more.
LEMMA DataAppended ==
  ASSUME NEW q \in Seq(MessageType), NEW m \in MessageType
  PROVE  /\ \A j \in 1 .. Len(q) : DataAt(Append(q, m), j) = DataAt(q, j)
         /\ Cardinality(DataAt(Append(q, m), Len(q) + 1))
              = Cardinality(DataAt(q, Len(q))) + (IF m.kind = "data" THEN 1 ELSE 0)
<1> DEFINE L == Len(q)
           a == Append(q, m)
<1>1. L \in Nat /\ \A i \in 1 .. L : a[i] = q[i]
  OBVIOUS
<1>2. a[L + 1] = m
  OBVIOUS
<1> HIDE DEF a, L
<1>3. \A j \in 1 .. L : DataAt(a, j) = DataAt(q, j)
  BY <1>1 DEF DataAt
<1>4. CASE m.kind = "data"
  <2>1. DataAt(a, L + 1) = DataAt(q, L) \cup {L + 1} /\ L + 1 \notin DataAt(q, L)
    BY <1>1, <1>2, <1>4 DEF DataAt
  <2> QED
    BY <1>1, <1>3, <1>4, <2>1, DataCount, FS_AddElement DEF a, L
<1>5. CASE m.kind # "data"
  <2>1. DataAt(a, L + 1) = DataAt(q, L)
    BY <1>1, <1>2, <1>5 DEF DataAt
  <2> QED
    BY <1>1, <1>3, <1>5, <2>1, DataCount DEF a, L
<1> QED
  BY <1>4, <1>5

\* A message less.
LEMMA DataTaken ==
  ASSUME NEW q \in Seq(MessageType), q # << >>, NEW j \in 0 .. Len(q) - 1
  PROVE  Cardinality(DataAt(Tail(q), j))
           = Cardinality(DataAt(q, j + 1)) - (IF Head(q).kind = "data" THEN 1 ELSE 0)
<1> DEFINE D == DataAt(q, j + 1)
           t == Tail(q)
           f == [i \in DataAt(t, j) |-> i + 1]
<1>1. /\ Len(q) \in Nat /\ Len(t) = Len(q) - 1
      /\ \A i \in 1 .. j : t[i] = q[i + 1]
      /\ Head(q) = q[1]
  OBVIOUS
<1>2. IsFiniteSet(D) /\ IsFiniteSet(DataAt(t, j))
  BY DataCount
<1>3. f \in Bijection(DataAt(t, j), D \ {1})
  <2>1. ASSUME NEW i \in DataAt(t, j) PROVE i + 1 \in D \ {1}
    BY <1>1 DEF DataAt
  <2>2. ASSUME NEW k \in D \ {1} PROVE k - 1 \in DataAt(t, j) /\ k - 1 + 1 = k
    <3>1. k - 1 \in 1 .. j /\ k - 1 + 1 = k /\ q[k].kind = "data"
      BY DEF DataAt
    <3> QED
      BY <1>1, <3>1 DEF DataAt
  <2>3. \A a, b \in DataAt(t, j) : a + 1 = b + 1 => a = b
    BY DEF DataAt
  <2>4. f \in [DataAt(t, j) -> D \ {1}]
    BY <2>1
  <2>5. \A k \in D \ {1} : \E i \in DataAt(t, j) : f[i] = k
    BY <2>2
  <2> HIDE DEF D
  <2>6. IsInjective(f)
    BY <2>3 DEF IsInjective
  <2> QED
    BY <2>4, <2>5, <2>6 DEF Bijection, Injection, Surjection
<1>4. Cardinality(DataAt(t, j)) = Cardinality(D \ {1})
  BY <1>2, <1>3, FS_Bijection, FS_RemoveElement DEF ExistsBijection
<1>5. CASE Head(q).kind = "data"
  <2>1. 1 \in D
    BY <1>1, <1>5 DEF DataAt
  <2> QED
    BY <1>2, <1>4, <1>5, <2>1, FS_RemoveElement
<1>6. CASE Head(q).kind # "data"
  <2>1. D \ {1} = D /\ Cardinality(D) \in Nat
    BY <1>1, <1>2, <1>6, FS_CardinalityType DEF DataAt
  <2>2. Cardinality(DataAt(t, j)) = Cardinality(D) /\ Cardinality(D) \in Nat
    BY <1>4, <2>1, Zenon
  <2> HIDE DEF D, t
  <2>3. Cardinality(DataAt(t, j)) = Cardinality(D) - (IF Head(q).kind = "data" THEN 1 ELSE 0)
    BY <1>6, <2>2
  <2> QED
    BY <2>3 DEF D, t
<1> QED
  BY <1>5, <1>6

\* Sending a message, the next one in number if it is telemetry.
LEMMA NumberedSends ==
  ASSUME NEW q, NEW o, NEW s, Numbered(q, o, s), NEW m \in MessageType,
         NEW t \in Nat,
         IF m.kind = "data" THEN t = s + 1 /\ m.n = t ELSE t = s
  PROVE  Numbered(Append(q, m), o, t)
<1> DEFINE L == Len(q)
           a == Append(q, m)
<1>1. /\ q \in Seq(MessageType) /\ o \in Seq(Nat) /\ s \in Nat /\ Len(o) \in Nat
      /\ o = [i \in 1 .. Len(o) |-> i]
      /\ \A i \in 1 .. L :
            q[i].kind = "data" => q[i].n = Len(o) + Cardinality(DataAt(q, i))
      /\ s = Len(o) + Cardinality(DataAt(q, L))
  BY DEF Numbered
<1>2. /\ \A j \in 1 .. L : DataAt(a, j) = DataAt(q, j)
      /\ Cardinality(DataAt(a, L + 1))
           = Cardinality(DataAt(q, L)) + (IF m.kind = "data" THEN 1 ELSE 0)
  BY <1>1, DataAppended
<1>3. /\ a \in Seq(MessageType) /\ Len(a) = L + 1 /\ L \in Nat
      /\ \A i \in 1 .. L : a[i] = q[i]
      /\ a[L + 1] = m
  BY <1>1
<1>4. Cardinality(DataAt(q, L)) \in Nat
  BY <1>3, DataCount
<1> HIDE DEF a, L
<1>5. t = Len(o) + Cardinality(DataAt(a, L + 1))
  BY <1>1, <1>2, <1>4
<1>6. ASSUME NEW i \in 1 .. Len(a), a[i].kind = "data"
      PROVE  a[i].n = Len(o) + Cardinality(DataAt(a, i))
  <2>1. CASE i = L + 1
    BY <1>3, <1>5, <1>6, <2>1
  <2>2. CASE i \in 1 .. L
    BY <1>1, <1>2, <1>3, <1>6, <2>2
  <2> QED
    BY <1>3, <2>1, <2>2
<1>7. Numbered(a, o, t)
  BY <1>1, <1>3, <1>5, <1>6 DEF Numbered
<1> QED
  BY <1>7 DEF a

\* Taking one: telemetry is offered, and is the next one in number.
LEMMA NumberedTakes ==
  ASSUME NEW q, NEW o, NEW s, Numbered(q, o, s), q # << >>,
         NEW u, u = IF Head(q).kind = "data" THEN Append(o, Head(q).n) ELSE o
  PROVE  Numbered(Tail(q), u, s)
<1> DEFINE L == Len(q)
           t == Tail(q)
           one == IF Head(q).kind = "data" THEN 1 ELSE 0
<1>1. /\ q \in Seq(MessageType) /\ o \in Seq(Nat) /\ s \in Nat /\ Len(o) \in Nat
      /\ o = [i \in 1 .. Len(o) |-> i]
      /\ \A i \in 1 .. L :
            q[i].kind = "data" => q[i].n = Len(o) + Cardinality(DataAt(q, i))
      /\ s = Len(o) + Cardinality(DataAt(q, L))
  BY DEF Numbered
<1>2. /\ t \in Seq(MessageType) /\ Len(t) = L - 1 /\ L \in Nat /\ L > 0
      /\ \A i \in 1 .. L - 1 : t[i] = q[i + 1]
      /\ Head(q) = q[1] /\ q[1] \in MessageType
  BY <1>1
<1>3. \A j \in 0 .. L - 1 :
         Cardinality(DataAt(t, j)) = Cardinality(DataAt(q, j + 1)) - one
  BY <1>1, DataTaken
<1>4. \A j \in 0 .. L - 1 :
         Cardinality(DataAt(t, j)) \in Nat /\ Cardinality(DataAt(q, j + 1)) \in Nat
  BY <1>2, DataCount
<1>5. Head(q).kind = "data" => Head(q).n = Len(o) + 1
  <2> SUFFICES ASSUME Head(q).kind = "data"
               PROVE  Head(q).n = Len(o) + 1
    OBVIOUS
  <2>1. DataAt(q, 1) = {1}
    BY <1>2 DEF DataAt
  <2>2. Cardinality(DataAt(q, 1)) = 1
    BY <2>1, FS_Singleton, Zenon
  <2> QED
    BY <1>1, <1>2, <2>2
<1>6. /\ u \in Seq(Nat) /\ Len(u) = Len(o) + one
      /\ u = [i \in 1 .. Len(u) |-> i]
  <2>1. CASE Head(q).kind = "data"
    <3>1. u = Append(o, Len(o) + 1)
      BY <1>5, <2>1
    <3>2. /\ u \in Seq(Nat) /\ Len(u) = Len(o) + 1
          /\ \A i \in 1 .. Len(o) : u[i] = o[i]
          /\ u[Len(o) + 1] = Len(o) + 1
      BY <1>1, <3>1
    <3>3. \A i \in 1 .. Len(u) : u[i] = i
      BY <1>1, <3>2
    <3>4. u = [i \in 1 .. Len(u) |-> i]
      BY <3>2, <3>3
    <3> QED
      BY <2>1, <3>2, <3>4
  <2>2. CASE Head(q).kind # "data"
    BY <1>1, <2>2
  <2> QED
    BY <2>1, <2>2
<1> HIDE DEF L, t
<1>7. ASSUME NEW i \in 1 .. Len(t), t[i].kind = "data"
      PROVE  t[i].n = Len(u) + Cardinality(DataAt(t, i))
  <2>1. i + 1 \in 1 .. L /\ i \in 0 .. L - 1 /\ t[i] = q[i + 1]
    BY <1>2
  <2>2. t[i].n = Len(o) + Cardinality(DataAt(q, i + 1))
    BY <1>1, <1>7, <2>1
  <2>3. Cardinality(DataAt(t, i)) = Cardinality(DataAt(q, i + 1)) - one
    BY <1>3, <2>1
  <2>4. Cardinality(DataAt(q, i + 1)) \in Nat /\ one \in Nat
    BY <1>4, <2>1
  <2> HIDE DEF one
  <2> QED
    BY <1>1, <1>6, <2>2, <2>3, <2>4
<1>8. s = Len(u) + Cardinality(DataAt(t, Len(t)))
  <2>1. L - 1 \in 0 .. L - 1 /\ L - 1 + 1 = L
    BY <1>2
  <2>2. /\ Cardinality(DataAt(t, L - 1)) = Cardinality(DataAt(q, L)) - one
        /\ Cardinality(DataAt(q, L)) \in Nat /\ one \in Nat
    BY <1>3, <1>4, <2>1
  <2> HIDE DEF one
  <2> QED
    BY <1>1, <1>2, <1>6, <2>2
<1>9. Numbered(t, u, s)
  BY <1>1, <1>2, <1>6, <1>7, <1>8 DEF Numbered
<1> QED
  BY <1>9 DEF t

\* Sending keeps the order; telemetry is sent to started callbacks or behind an
\* acknowledgement.
LEMMA OrderedSends ==
  ASSUME NEW q \in Seq(MessageType), NEW c, Ordered(q, c), NEW m \in MessageType,
         q # << >> => Last(q).kind # "close",
         m.kind = "data" /\ c # "started"
           => \E j \in 1 .. Len(q) : q[j].kind = "start_ack"
  PROVE  Ordered(Append(q, m), c)
<1> DEFINE L == Len(q)
           a == Append(q, m)
<1>1. /\ Len(a) = L + 1 /\ L \in Nat
      /\ \A i \in 1 .. L : a[i] = q[i]
      /\ a[L + 1] = m
  OBVIOUS
<1>2. \A i \in 1 .. L : q[i].kind # "close"
  <2> SUFFICES ASSUME NEW i \in 1 .. L, q[i].kind = "close"
               PROVE  FALSE
    OBVIOUS
  <2>1. i = L
    BY DEF Ordered
  <2> QED
    BY <2>1 DEF Last
<1> HIDE DEF a, L
<1>3. ASSUME NEW i \in 1 .. Len(a), a[i].kind = "data", c # "started"
      PROVE  \E j \in 1 .. i - 1 : a[j].kind = "start_ack"
  <2>1. CASE i = L + 1
    <3>1. PICK j \in 1 .. L : q[j].kind = "start_ack"
      BY <1>1, <1>3, <2>1 DEF L
    <3> QED
      BY <1>1, <2>1, <3>1
  <2>2. CASE i \in 1 .. L
    <3>1. PICK j \in 1 .. i - 1 : q[j].kind = "start_ack"
      BY <1>1, <1>3, <2>2 DEF Ordered, L
    <3> QED
      BY <1>1, <2>2, <3>1
  <2> QED
    BY <1>1, <2>1, <2>2
<1>4. Ordered(a, c)
  BY <1>1, <1>2, <1>3 DEF Ordered
<1> QED
  BY <1>4 DEF a

\* So does taking, unless it is the acknowledgement and installs nothing.
LEMMA OrderedTakes ==
  ASSUME NEW q \in Seq(MessageType), q # << >>, NEW c, NEW b, Ordered(q, c),
         b = "started" \/ (b = c /\ Head(q).kind # "start_ack")
  PROVE  /\ Ordered(Tail(q), b)
         /\ Head(q).kind = "close" => Tail(q) = << >>
         /\ Head(q).kind = "data" => c = "started"
<1> DEFINE L == Len(q)
           t == Tail(q)
<1>1. /\ t \in Seq(MessageType) /\ Len(t) = L - 1 /\ L \in Nat /\ L > 0
      /\ \A i \in 1 .. L - 1 : t[i] = q[i + 1]
      /\ Head(q) = q[1]
  OBVIOUS
<1>f. 1 \in 1 .. L /\ 1 .. 1 - 1 = {}
  BY <1>1
<1>2. Head(q).kind = "close" => t = << >>
  <2>1. Head(q).kind = "close" => L = 1
    <3>1. q[1].kind = "close" => 1 = L
      BY <1>f, Zenon DEF Ordered
    <3> QED
      BY <1>1, <3>1
  <2> QED
    BY <1>1, <2>1
<1>3. Head(q).kind = "data" => c = "started"
  <2>1. q[1].kind = "data" /\ c # "started" => \E j \in 1 .. 1 - 1 : q[j].kind = "start_ack"
    BY <1>f, Zenon DEF Ordered
  <2> QED
    BY <1>1, <1>f, <2>1
<1> HIDE DEF t, L
<1>4. ASSUME NEW i \in 1 .. Len(t), t[i].kind = "close"
      PROVE  i = Len(t)
  <2>1. q[i + 1].kind = "close" /\ i + 1 \in 1 .. L
    BY <1>1, <1>4
  <2> QED
    BY <1>1, <2>1 DEF Ordered, L
<1>5. ASSUME NEW i \in 1 .. Len(t), t[i].kind = "data", b # "started"
      PROVE  \E j \in 1 .. i - 1 : t[j].kind = "start_ack"
  <2>1. q[i + 1].kind = "data" /\ i + 1 \in 1 .. L /\ c # "started"
    BY <1>1, <1>5
  <2>2. PICK j \in 1 .. i : q[j].kind = "start_ack"
    BY <1>1, <2>1 DEF Ordered, L
  <2>3. j # 1
    BY <1>1, <1>5, <2>2
  <2>4. j - 1 \in 1 .. i - 1 /\ t[j - 1] = q[j]
    BY <1>1, <2>2, <2>3
  <2> QED
    BY <2>2, <2>4
<1>6. Ordered(t, b)
  BY <1>4, <1>5 DEF Ordered
<1> QED
  BY <1>2, <1>3, <1>6 DEF t

-------------------------------------------------------------------------------
(* Telemetry from the server to the queue.                                 *)

\* What is on its way is numbered and ordered, and the callbacks that take
\* telemetry are there by the time it arrives: a debug session begins with them,
\* a remote server streams behind the acknowledgement that installs them.
StreamInv ==
    /\ conn \in {"off", "connecting", "open"}
    /\ conn # "open" => inbox = << >>
    /\ conn # "off" => thread = "wait" /\ Numbered(inbox, offered, sent)
    /\ thread \in {"none", "source", "callbacks", "start"} => sent = 0 /\ offered = << >>
    /\ thread \in {"start", "wait"} =>
          callbacks \in {"init", "started"}
            /\ (source = "SERVED_DEBUG" => callbacks = "started")
    /\ Ordered(inbox, callbacks)
    /\ conn = "open" /\ streaming /\ callbacks # "started" =>
          \E j \in 1 .. Len(inbox) : inbox[j].kind = "start_ack"

\* Nothing is on its way.
LEMMA Quiet == /\ Numbered(<< >>, << >>, 0)
               /\ \A c : Ordered(<< >>, c)
<1>1. DataAt(<< >>, 0) = {}
  BY DEF DataAt
<1>2. Cardinality(DataAt(<< >>, 0)) = 0
  BY <1>1, FS_EmptySet, Zenon
<1>3. Len(<< >>) = 0
  OBVIOUS
<1>4. << >> = [i \in 1 .. 0 |-> i]
  OBVIOUS
<1> QED
  BY <1>2, <1>3, <1>4 DEF Numbered, Ordered

\* A message sent.
LEMMA StreamSends ==
  ASSUME StreamInv, NEW m \in MessageType, Sends(m),
         UNCHANGED <<source, callbacks, thread, conn, offered>>, sent' \in Nat,
         IF m.kind = "data" THEN sent' = sent + 1 /\ m.n = sent' ELSE sent' = sent,
         m.kind = "data" => streaming \/ source = "SERVED_DEBUG",
         streaming' => streaming \/ m.kind = "start_ack"
  PROVE  StreamInv'
<1>1. /\ conn = "open" /\ thread = "wait" /\ inbox' = Append(inbox, m)
      /\ inbox # << >> => Last(inbox).kind # "close"
      /\ Numbered(inbox, offered, sent) /\ inbox \in Seq(MessageType)
  BY DEF Sends, StreamInv, Numbered
<1>2. Numbered(inbox', offered, sent')
  BY <1>1, NumberedSends
<1>3. Ordered(inbox', callbacks)
  <2>1. m.kind = "data" /\ callbacks # "started" =>
           \E j \in 1 .. Len(inbox) : inbox[j].kind = "start_ack"
    BY <1>1 DEF StreamInv
  <2>2. Ordered(inbox, callbacks)
    BY DEF StreamInv
  <2> QED
    BY <1>1, <2>1, <2>2, OrderedSends
<1>4. streaming' /\ callbacks # "started" =>
         \E j \in 1 .. Len(inbox') : inbox'[j].kind = "start_ack"
  <2> SUFFICES ASSUME streaming', callbacks # "started"
               PROVE  \E j \in 1 .. Len(inbox') : inbox'[j].kind = "start_ack"
    OBVIOUS
  <2>1. /\ Len(inbox') = Len(inbox) + 1 /\ Len(inbox) \in Nat
        /\ \A i \in 1 .. Len(inbox) : inbox'[i] = inbox[i]
        /\ inbox'[Len(inbox) + 1] = m
    BY <1>1
  <2>2. CASE streaming
    <3>1. PICK j \in 1 .. Len(inbox) : inbox[j].kind = "start_ack"
      BY <1>1, <2>2 DEF StreamInv
    <3> QED
      BY <2>1, <3>1
  <2>3. CASE m.kind = "start_ack"
    BY <2>1, <2>3
  <2> QED
    BY <2>2, <2>3
<1> QED
  BY <1>1, <1>2, <1>3, <1>4 DEF StreamInv

\* A message taken by a callback.
LEMMA StreamTakes ==
  ASSUME StreamInv, conn = "open", inbox # << >>, inbox' = Tail(inbox),
         UNCHANGED <<source, thread, sent, streaming>>,
         offered' = IF Head(inbox).kind = "data" /\ callbacks = "started"
                      THEN Append(offered, Head(inbox).n) ELSE offered,
         IF Head(inbox).kind = "start_ack" /\ callbacks = "init"
           THEN callbacks' = "started" ELSE callbacks' = callbacks,
         conn' = IF Head(inbox).kind = "close" THEN "connecting" ELSE conn
  PROVE  StreamInv'
<1>1. /\ thread = "wait" /\ Numbered(inbox, offered, sent)
      /\ inbox \in Seq(MessageType) /\ callbacks \in {"init", "started"}
      /\ source = "SERVED_DEBUG" => callbacks = "started"
      /\ Ordered(inbox, callbacks)
  BY DEF StreamInv, Numbered
<1>2. callbacks' = "started" \/ (callbacks' = callbacks /\ Head(inbox).kind # "start_ack")
  BY <1>1
<1>3. /\ Ordered(inbox', callbacks')
      /\ Head(inbox).kind = "close" => inbox' = << >>
      /\ Head(inbox).kind = "data" => callbacks = "started"
  BY <1>1, <1>2, OrderedTakes
<1>4. offered' = IF Head(inbox).kind = "data"
                   THEN Append(offered, Head(inbox).n) ELSE offered
  BY <1>3
<1>5. Numbered(inbox', offered', sent)
  BY <1>1, <1>4, NumberedTakes
<1>6. conn' = "open" /\ streaming /\ callbacks' # "started" =>
         \E j \in 1 .. Len(inbox') : inbox'[j].kind = "start_ack"
  <2> SUFFICES ASSUME streaming, callbacks' # "started"
               PROVE  \E j \in 1 .. Len(inbox') : inbox'[j].kind = "start_ack"
    OBVIOUS
  <2>1. callbacks # "started" /\ Head(inbox).kind # "start_ack"
    BY <1>2
  <2>2. PICK j \in 1 .. Len(inbox) : inbox[j].kind = "start_ack"
    BY <2>1 DEF StreamInv
  <2>3. /\ Len(inbox') = Len(inbox) - 1 /\ Len(inbox) \in Nat /\ Head(inbox) = inbox[1]
        /\ \A i \in 1 .. Len(inbox) - 1 : inbox'[i] = inbox[i + 1]
    BY <1>1
  <2>4. j # 1
    BY <2>1, <2>2, <2>3
  <2>5. j - 1 \in 1 .. Len(inbox') /\ inbox'[j - 1] = inbox[j]
    BY <2>2, <2>3, <2>4
  <2> QED
    BY <2>2, <2>5
<1>7. /\ conn' \in {"connecting", "open"} /\ (conn' # "open" => inbox' = << >>)
      /\ callbacks' \in {"init", "started"}
      /\ (source = "SERVED_DEBUG" => callbacks' = "started")
  BY <1>1, <1>3
<1> QED
  BY <1>1, <1>3, <1>5, <1>6, <1>7 DEF StreamInv

\* Every step keeps the stream.
LEMMA StreamNext == StreamInv /\ SocketInv /\ LatchInv /\ [Next]_vars => StreamInv'
<1> SUFFICES ASSUME StreamInv, SocketInv, LatchInv, [Next]_vars
             PROVE  StreamInv'
  OBVIOUS
<1> DEFINE link == <<conn, inbox, streaming, sent, offered, source>>
<1>1. CASE Main \/ EndSession \/ UNCHANGED vars
  <2>1. UNCHANGED <<link, callbacks>>
    BY <1>1 DEF Main, EndSession, StartThread, StartReturn, EndJoin, socket, server,
                counts, vars, caller
  <2>2. UNCHANGED thread \/ (thread = "none" /\ thread' = "source")
    BY <1>1 DEF Main, EndSession, StartThread, StartReturn, EndJoin, vars, caller,
                SocketInv
  <2> QED
    BY <2>1, <2>2 DEF StreamInv
<1>2. CASE ThreadSource
  BY <1>2 DEF ThreadSource, StreamInv, socket, server, counts
<1>3. CASE ThreadCallbacks
  <2>1. thread = "callbacks" /\ thread' = "start" /\ UNCHANGED link
    BY <1>3 DEF ThreadCallbacks, server, counts
  <2>2. /\ callbacks' \in {"init", "started"}
        /\ source = "SERVED_DEBUG" => callbacks' = "started"
    BY <1>3 DEF ThreadCallbacks, CallbacksFor
  <2>3. conn = "off" /\ inbox = << >>
    BY <2>1 DEF StreamInv
  <2> QED
    BY <2>1, <2>2, <2>3, Quiet DEF StreamInv
<1>4. CASE ThreadStart
  <2>1. /\ thread = "start" /\ thread' = "wait" /\ conn' = "connecting"
        /\ UNCHANGED <<inbox, streaming, sent, offered, source, callbacks>>
    BY <1>4 DEF ThreadStart, server, counts, socket
  <2>2. conn = "off" /\ inbox = << >> /\ offered = << >> /\ sent = 0
    BY <2>1 DEF StreamInv
  <2> QED
    BY <2>1, <2>2, Quiet DEF StreamInv
<1>5. CASE ThreadStop
  <2>1. /\ thread' = "done" /\ conn' = "off" /\ inbox' = << >>
        /\ UNCHANGED <<callbacks, source>>
    BY <1>5 DEF ThreadStop, socket
  <2> QED
    BY <2>1, Quiet DEF StreamInv
<1>6. CASE OnOpen
  <2>1. /\ conn = "connecting" /\ conn' = "open" /\ inbox' = << >> /\ streaming' = FALSE
        /\ UNCHANGED <<sent, offered, source, callbacks, thread>>
    BY <1>6 DEF OnOpen, counts, socket
  <2> QED
    BY <2>1, Quiet DEF StreamInv
<1>7. CASE Socket /\ ~OnOpen
  <2>1. /\ conn = "open" /\ inbox # << >> /\ inbox' = Tail(inbox)
        /\ UNCHANGED <<source, thread, sent, streaming>>
    BY <1>7 DEF Socket, InitKeepAlive, InitStartAck, InitOther, OnMessage, OnBadMessage,
                OnClose, Received, server, counts
  <2>2. offered' = IF Head(inbox).kind = "data" /\ callbacks = "started"
                     THEN Append(offered, Head(inbox).n) ELSE offered
    BY <1>7 DEF Socket, InitKeepAlive, InitStartAck, InitOther, OnMessage, OnBadMessage,
                OnClose, Received
  <2>3. IF Head(inbox).kind = "start_ack" /\ callbacks = "init"
          THEN callbacks' = "started" ELSE callbacks' = callbacks
    BY <1>7 DEF Socket, InitKeepAlive, InitStartAck, InitOther, OnMessage, OnBadMessage,
                OnClose, Received, socket, CallbacksFor
  <2>4. conn' = IF Head(inbox).kind = "close" THEN "connecting" ELSE conn
    BY <1>7 DEF Socket, InitKeepAlive, InitStartAck, InitOther, OnMessage, OnBadMessage,
                OnClose, Received
  <2> QED
    BY <2>1, <2>2, <2>3, <2>4, StreamTakes
<1>8. CASE Server
  <2>1. UNCHANGED <<source, callbacks, thread, conn, offered>>
    BY <1>8 DEF Server, ServerKeepAlive, ServerStartAck, ServerOther, ServerData,
                ServerClose, socket
  <2>2. sent \in Nat
    BY <1>8 DEF StreamInv, Numbered, Server, ServerKeepAlive, ServerStartAck,
                ServerOther, ServerData, ServerClose, Sends
  <2>3. CASE ServerData
    <3> DEFINE m == [kind |-> "data", n |-> sent + 1]
    <3>1. m \in MessageType /\ m.kind = "data" /\ m.n = sent + 1
      BY <2>2 DEF MessageType
    <3>2. /\ Sends(m) /\ sent' = sent + 1 /\ streaming' = streaming
          /\ streaming \/ source = "SERVED_DEBUG"
      BY <2>3 DEF ServerData, server
    <3> HIDE DEF m
    <3> QED
      BY <2>1, <2>2, <3>1, <3>2, StreamSends
  <2>4. CASE Server /\ ~ServerData
    <3>1. PICK kind \in {"ka", "start_ack", "other", "close"} :
             /\ Sends(Message(kind)) /\ sent' = sent
             /\ streaming' = streaming \/ kind = "start_ack"
      BY <2>4 DEF Server, ServerKeepAlive, ServerStartAck, ServerOther, ServerClose,
                  server, counts
    <3>2. Message(kind) \in MessageType /\ Message(kind).kind = kind
      BY DEF Message, MessageType
    <3> QED
      BY <2>1, <2>2, <3>1, <3>2, StreamSends
  <2> QED
    BY <1>8, <2>3, <2>4
<1> QED
  BY <1>1, <1>2, <1>3, <1>4, <1>5, <1>6, <1>7, <1>8 DEF Next, Idle, Thread

\* No telemetry that a callback has seen is skipped, doubled or out of its order:
\* what was offered is what was sent, up to what is still in the inbox.
THEOREM NothingIsSkipped == Spec => []NothingSkipped
<1>1. Init => StreamInv
  BY Quiet DEF Init, StreamInv
<1>2. StreamInv /\ SocketInv /\ LatchInv /\ [Next]_vars => StreamInv'
  BY StreamNext
<1>3. StreamInv => NothingSkipped
  <2> SUFFICES ASSUME StreamInv, conn # "off"
               PROVE  offered = [i \in 1 .. sent - InboxData |-> i]
    BY DEF NothingSkipped
  <2>1. /\ inbox \in Seq(MessageType) /\ Len(offered) \in Nat
        /\ offered = [i \in 1 .. Len(offered) |-> i]
        /\ sent = Len(offered) + Cardinality(DataAt(inbox, Len(inbox)))
    BY DEF StreamInv, Numbered
  <2>2. DataAt(inbox, Len(inbox)) = {i \in DOMAIN inbox : inbox[i].kind = "data"}
    BY <2>1 DEF DataAt
  <2>3. Len(inbox) \in Nat
    BY <2>1
  <2>4. InboxData = Cardinality(DataAt(inbox, Len(inbox))) /\ InboxData \in Nat
    BY <2>2, <2>3, DataCount DEF InboxData
  <2>5. sent - InboxData = Len(offered)
    BY <2>1, <2>4
  <2> QED
    BY <2>1, <2>5
<1> QED
  BY <1>1, <1>2, <1>3, SocketAlways, LatchInductive, PTL DEF Spec

===============================================================================
