--------------------------- MODULE ReplayServerProofs ---------------------------
(* What holds of the replay server for any number of clients and any recording. *)
EXTENDS ReplayServer, NumberFacts, TLAPS

-------------------------------------------------------------------------------
(* What a recording asks to be sent.                                       *)

\* The properties end where the body begins.
LEMMA BodyFirst ==
  ASSUME NEW lines \in Seq(Lines)
  PROVE  /\ Body(lines) \in 1 .. Len(lines) + 1
         /\ \A i \in 1 .. Len(lines) :
              (\E j \in 1 .. i : lines[j].kind # "header") <=> i >= Body(lines)
<1> DEFINE I == {i \in 1 .. Len(lines) : lines[i].kind # "header"}
<1>1. Len(lines) \in Nat
  OBVIOUS
<1>2. CASE I = {}
  <2>1. Body(lines) = Len(lines) + 1
    BY <1>2 DEF Body, SelectInSeq
  <2> QED
    BY <1>1, <1>2, <2>1
<1>3. CASE I # {}
  <2>1. PICK x \in I : \A y \in I : x <= y
    <3>1. I \in SUBSET Nat
      BY <1>1
    <3> HIDE DEF I
    <3> QED
      BY <1>3, <3>1, LeastExists
  <2>2. Min(I) \in I /\ \A y \in I : Min(I) <= y
    BY <2>1 DEF Min
  <2>3. Body(lines) = Min(I)
    BY <1>1, <1>3, <2>2 DEF Body, SelectInSeq
  <2>4. Body(lines) \in 1 .. Len(lines) /\ lines[Body(lines)].kind # "header"
    BY <2>2, <2>3
  <2>5. \A y \in 1 .. Len(lines) : lines[y].kind # "header" => Body(lines) <= y
    BY <2>2, <2>3
  <2>6. ASSUME NEW i \in 1 .. Len(lines)
        PROVE  (\E j \in 1 .. i : lines[j].kind # "header") <=> i >= Body(lines)
    <3>1. ASSUME NEW j \in 1 .. i, lines[j].kind # "header"
          PROVE  i >= Body(lines)
      <4>1. j \in 1 .. Len(lines)
        BY <1>1
      <4> QED
        BY <1>1, <2>4, <2>5, <3>1, <4>1
    <3>2. ASSUME i >= Body(lines)
          PROVE  Body(lines) \in 1 .. i
      BY <1>1, <2>4, <3>2
    <3> QED
      BY <2>4, <3>1, <3>2
  <2> QED
    BY <1>1, <2>4, <2>6
<1> QED
  BY <1>2, <1>3

\* The payload of the first lines, for each number of them.
Enumerating(f, lines) ==
    f = [n \in 0 .. Len(lines) |->
            IF n = 0 THEN << >>
            ELSE IF Asked(lines, n) THEN Append(f[n - 1], n) ELSE f[n - 1]]

Upto(lines) == CHOOSE f : Enumerating(f, lines)

\* There is such a function: it is extended line by line.
LEMMA EnumerationExists ==
  ASSUME NEW lines \in Seq(Lines)
  PROVE  Enumerating(Upto(lines), lines) /\ PayloadOf(lines) = Upto(lines)[Len(lines)]
<1> DEFINE Within(f, k) ==
             f = [n \in 0 .. k |->
                    IF n = 0 THEN << >>
                    ELSE IF Asked(lines, n) THEN Append(f[n - 1], n) ELSE f[n - 1]]
           Bad == {k \in 0 .. Len(lines) : ~ \E f : Within(f, k)}
<1>1. Len(lines) \in Nat
  OBVIOUS
<1>2. Bad = {}
  <2> SUFFICES ASSUME Bad # {}
               PROVE  FALSE
    OBVIOUS
  <2>1. PICK k \in Bad : \A j \in Bad : k <= j
    <3>1. Bad \in SUBSET Nat
      BY <1>1
    <3> HIDE DEF Bad
    <3> QED
      BY <3>1, LeastExists
  <2>2. k \in 0 .. Len(lines) /\ ~ \E f : Within(f, k)
    OBVIOUS
  <2>3. CASE k = 0
    <3> DEFINE f == [n \in 0 .. 0 |-> << >>]
    <3>1. Within(f, 0)
      OBVIOUS
    <3> QED
      BY <2>2, <2>3, <3>1
  <2>4. CASE k # 0
    <3>1. k - 1 \in 0 .. Len(lines) /\ k - 1 \notin Bad
      <4>1. k - 1 \in 0 .. Len(lines) /\ ~(k <= k - 1)
        BY <1>1, <2>2, <2>4
      <4> HIDE DEF Bad
      <4> QED
        BY <2>1, <4>1
    <3>2. PICK f : Within(f, k - 1)
      BY <3>1
    <3> DEFINE next == IF Asked(lines, k) THEN Append(f[k - 1], k) ELSE f[k - 1]
               g == [n \in 0 .. k |-> IF n = k THEN next ELSE f[n]]
    <3>3. ASSUME NEW n \in 0 .. k
          PROVE  g[n] = IF n = 0 THEN << >>
                        ELSE IF Asked(lines, n) THEN Append(g[n - 1], n) ELSE g[n - 1]
      <4>1. CASE n = k
        <5>1. g[n] = next /\ g[k - 1] = f[k - 1]
          BY <1>1, <2>2, <2>4, <4>1
        <5> QED
          BY <2>4, <4>1, <5>1
      <4>2. CASE n # k
        <5>1. n \in 0 .. k - 1
          BY <1>1, <2>2, <4>2
        <5>2. g[n] = f[n] /\ (n # 0 => g[n - 1] = f[n - 1])
          BY <1>1, <2>2, <5>1
        <5>3. f[n] = IF n = 0 THEN << >>
                     ELSE IF Asked(lines, n) THEN Append(f[n - 1], n) ELSE f[n - 1]
          BY <3>2, <5>1
        <5> QED
          BY <5>2, <5>3
      <4> QED
        BY <4>1, <4>2
    <3>4. Within(g, k)
      BY <3>3
    <3> QED
      BY <2>2, <3>4
  <2> QED
    BY <2>3, <2>4
<1>3. \E g : Enumerating(g, lines)
  <2>1. Len(lines) \in 0 .. Len(lines)
    BY <1>1
  <2>2. PICK g : Within(g, Len(lines))
    BY <1>2, <2>1
  <2> QED
    BY <2>2 DEF Enumerating
<1>4. Enumerating(Upto(lines), lines)
  BY <1>3 DEF Upto
<1>5. PayloadOf(lines) = Upto(lines)[Len(lines)]
  BY DEF PayloadOf, Upto, Enumerating
<1> QED
  BY <1>4, <1>5

\* One line more.
LEMMA UptoNext ==
  ASSUME NEW lines \in Seq(Lines)
  PROVE  /\ Upto(lines)[0] = << >>
         /\ \A n \in 1 .. Len(lines) :
              Upto(lines)[n] = IF Asked(lines, n) THEN Append(Upto(lines)[n - 1], n)
                                                  ELSE Upto(lines)[n - 1]
<1>1. Enumerating(Upto(lines), lines)
  BY EnumerationExists
<1>2. Len(lines) \in Nat
  OBVIOUS
<1>3. PICK f : f = Upto(lines)
  OBVIOUS
<1>4. f = [n \in 0 .. Len(lines) |->
            IF n = 0 THEN << >>
            ELSE IF Asked(lines, n) THEN Append(f[n - 1], n) ELSE f[n - 1]]
  BY <1>1, <1>3 DEF Enumerating
<1>5. f[0] = << >>
  BY <1>2, <1>4
<1>6. ASSUME NEW n \in 1 .. Len(lines)
      PROVE  f[n] = IF Asked(lines, n) THEN Append(f[n - 1], n) ELSE f[n - 1]
  <2>1. n \in 0 .. Len(lines) /\ n # 0
    BY <1>2
  <2>2. f[n] = IF n = 0 THEN << >>
               ELSE IF Asked(lines, n) THEN Append(f[n - 1], n) ELSE f[n - 1]
    BY <1>4, <2>1, Zenon
  <2> QED
    BY <2>1, <2>2, Zenon
<1> QED
  BY <1>3, <1>5, <1>6

\* The payload is a sequence of line numbers.
LEMMA UptoType ==
  ASSUME NEW lines \in Seq(Lines)
  PROVE  \A n \in 0 .. Len(lines) : Upto(lines)[n] \in Seq(1 .. Len(lines))
<1> DEFINE Bad == {n \in 0 .. Len(lines) : Upto(lines)[n] \notin Seq(1 .. Len(lines))}
<1>1. Len(lines) \in Nat
  OBVIOUS
<1> SUFFICES ASSUME Bad # {}
             PROVE  FALSE
  OBVIOUS
<1>2. PICK k \in Bad : \A j \in Bad : k <= j
  <2>1. Bad \in SUBSET Nat
    BY <1>1
  <2> HIDE DEF Bad
  <2> QED
    BY <2>1, LeastExists
<1>3. k \in 0 .. Len(lines) /\ Upto(lines)[k] \notin Seq(1 .. Len(lines))
  OBVIOUS
<1>4. k \in 1 .. Len(lines)
  <2>1. Upto(lines)[0] = << >>
    BY UptoNext
  <2>3. << >> \in Seq(1 .. Len(lines))
    OBVIOUS
  <2>2. k # 0
    BY <1>3, <2>1, <2>3, Zenon
  <2> QED
    BY <1>1, <1>3, <2>2
<1>5. k - 1 \in 0 .. Len(lines) /\ k - 1 \notin Bad
  <2>1. k - 1 \in 0 .. Len(lines) /\ ~(k <= k - 1)
    BY <1>1, <1>4
  <2> HIDE DEF Bad
  <2> QED
    BY <1>2, <2>1
<1>6. Upto(lines)[k - 1] \in Seq(1 .. Len(lines))
  BY <1>5
<1>7. Upto(lines)[k] = IF Asked(lines, k) THEN Append(Upto(lines)[k - 1], k)
                                          ELSE Upto(lines)[k - 1]
  BY <1>4, UptoNext
<1>8. Append(Upto(lines)[k - 1], k) \in Seq(1 .. Len(lines))
  BY <1>4, <1>6
<1> QED
  BY <1>3, <1>6, <1>7, <1>8

\* And grows at its end.
Begins(s, t) == Len(s) <= Len(t) /\ \A i \in 1 .. Len(s) : s[i] = t[i]

LEMMA BeginsPrefix ==
  ASSUME NEW s \in Seq(Nat), NEW t \in Seq(Nat), Begins(s, t)
  PROVE  IsPrefix(s, t)
<1>1. Len(s) \in Nat /\ Len(t) \in Nat /\ Len(s) <= Len(t)
  BY DEF Begins
<1>2. SubSeq(s, 1, Len(s)) = [i \in 1 .. Len(s) |-> s[i]]
  BY <1>1
<1>3. SubSeq(t, 1, Len(s)) = [i \in 1 .. Len(s) |-> t[i]]
  BY <1>1
<1> QED
  BY <1>1, <1>2, <1>3 DEF Begins, IsPrefix

LEMMA UptoGrows ==
  ASSUME NEW lines \in Seq(Lines), NEW m \in 0 .. Len(lines), NEW n \in m .. Len(lines)
  PROVE  Begins(Upto(lines)[m], Upto(lines)[n])
<1> DEFINE U == Upto(lines)
           Bad == {k \in m .. Len(lines) : ~Begins(U[m], U[k])}
<1>1. Len(lines) \in Nat
  OBVIOUS
<1>2. \A k \in 0 .. Len(lines) : U[k] \in Seq(1 .. Len(lines))
  BY UptoType
<1> SUFFICES ASSUME Bad # {}
             PROVE  FALSE
  OBVIOUS
<1>3. PICK k \in Bad : \A j \in Bad : k <= j
  <2>1. Bad \in SUBSET Nat
    BY <1>1
  <2> HIDE DEF Bad
  <2> QED
    BY <2>1, LeastExists
<1>4. k \in m .. Len(lines) /\ ~Begins(U[m], U[k])
  OBVIOUS
<1> HIDE DEF U
<1>5. k # m
  BY <1>1, <1>2, <1>4 DEF Begins
<1>6. k - 1 \in m .. Len(lines) /\ k \in 1 .. Len(lines) /\ k - 1 \in 0 .. Len(lines)
      /\ k - 1 \notin Bad
  <2>1. k - 1 \in m .. Len(lines) /\ k \in 1 .. Len(lines) /\ k - 1 \in 0 .. Len(lines)
        /\ ~(k <= k - 1)
    BY <1>1, <1>4, <1>5
  <2> HIDE DEF Bad
  <2> QED
    BY <1>3, <2>1
<1>7. Begins(U[m], U[k - 1])
  BY <1>6
<1>8. U[k] = IF Asked(lines, k) THEN Append(U[k - 1], k) ELSE U[k - 1]
  BY <1>6, UptoNext DEF U
<1>9. U[m] \in Seq(1 .. Len(lines)) /\ U[k - 1] \in Seq(1 .. Len(lines)) /\ k \in Nat
  BY <1>1, <1>2, <1>6
<1> QED
  BY <1>4, <1>7, <1>8, <1>9 DEF Begins

\* Nothing of the properties is asked for.
LEMMA UptoBody ==
  ASSUME NEW lines \in Seq(Lines)
  PROVE  Upto(lines)[Body(lines) - 1] = << >>
<1> DEFINE U == Upto(lines)
           Bad == {k \in 0 .. Body(lines) - 1 : U[k] # << >>}
<1>1. Len(lines) \in Nat /\ Body(lines) \in 1 .. Len(lines) + 1
  BY BodyFirst
<1> SUFFICES ASSUME Bad # {}
             PROVE  FALSE
  BY <1>1
<1>2. PICK k \in Bad : \A j \in Bad : k <= j
  <2>1. Bad \in SUBSET Nat
    BY <1>1
  <2> HIDE DEF Bad
  <2> QED
    BY <2>1, LeastExists
<1>3. k \in 0 .. Body(lines) - 1 /\ U[k] # << >>
  OBVIOUS
<1> HIDE DEF U
<1>4. k \in 1 .. Len(lines) /\ k < Body(lines)
  BY <1>1, <1>3, UptoNext DEF U
<1>5. k - 1 \notin Bad /\ k - 1 \in 0 .. Body(lines) - 1
  <2>1. k - 1 \in 0 .. Body(lines) - 1 /\ ~(k <= k - 1)
    BY <1>1, <1>4
  <2> HIDE DEF Bad
  <2> QED
    BY <1>2, <2>1
<1>6. ~Asked(lines, k)
  BY <1>1, <1>4, BodyFirst DEF Asked
<1>7. U[k] = U[k - 1]
  BY <1>4, <1>6, UptoNext DEF U
<1> QED
  BY <1>3, <1>5, <1>7

-------------------------------------------------------------------------------
(* Types and owners.                                                       *)

ReplayTypes ==
    /\ recording \in Recordings
    /\ pos \in [Clients -> Nat \ {0}]
    /\ conn \in [Clients -> {"none", "accepted", "open", "closed", "joining", "gone"}]
    /\ held \in [Clients -> SUBSET {"connection", "replay"}]
    /\ replay \in [Clients -> {"none", "props", "loop", "send", "sleep", "end",
                               "leave", "done"}]
    /\ told \in [Clients -> {NONE, 0, 1}]

\* A connection that has not ended owns its socket, and a session has a thread
\* only once its connection was open.
Owned ==
    \A c \in Clients :
        /\ conn[c] \in {"accepted", "open", "closed"} => "connection" \in held[c]
        /\ conn[c] \in {"none", "accepted"} => replay[c] = "none"

\* A replay that has sent a line since it was told to stop does not read another.
StopsReading ==
    \A c \in Clients :
        /\ replay[c] = "none" => told[c] = NONE
        /\ told[c] # NONE /\ told[c] = 1
              => replay[c] \in {"sleep", "loop", "end", "leave", "done"}

SocketInv == ReplayTypes /\ Owned /\ StopsReading

seen == <<recording, pos, conn, held, replay, told>>

\* The invariant is about these six variables only.
LEMMA SocketStutter == SocketInv /\ UNCHANGED seen => SocketInv'
BY DEF SocketInv, ReplayTypes, Owned, StopsReading, Running, seen

\* Nobody but the replay and its connection touches what they share.
LEMMA SocketServer ==
  ASSUME SocketInv,
         Listen \/ Return \/ Stop \/ StopWithoutServer \/ Stopped \/ Tick
  PROVE  SocketInv'
<1>1. UNCHANGED seen
  BY DEF Listen, Return, Stop, StopWithoutServer, Stopped, Tick, Abort, seen,
         server, sockets, reading
<1> QED
  BY <1>1, SocketStutter

\* Telling a thread to stop starts its count at zero.
LEMMA TellType ==
  ASSUME SocketInv, NEW c \in Clients, Tell(c)
  PROVE  /\ told' \in [Clients -> {NONE, 0, 1}]
         /\ \A d \in Clients :
               \/ told'[d] = told[d]
               \/ told'[d] = 0 /\ replay[d] \notin {"none", "done"}
BY DEF SocketInv, ReplayTypes, Tell, Running

\* A connection drops its share of the socket only as it ends.
LEMMA SocketConnection ==
  ASSUME SocketInv, NEW c \in Clients,
         Accept(c) \/ Open(c) \/ Close(c) \/ DropCallback(c) \/ DropSocket(c) \/ Joined(c)
  PROVE  SocketInv'
<1> USE DEF SocketInv, ReplayTypes, Owned, StopsReading, Running, server, sockets, reading
<1>1. CASE Accept(c)
  BY <1>1 DEF Accept
<1>2. CASE Open(c)
  BY <1>2 DEF Open
<1>3. CASE Close(c)
  BY <1>3, TellType DEF Close
<1>4. CASE DropCallback(c)
  BY <1>4, TellType DEF DropCallback
<1>5. CASE DropSocket(c)
  <2>1. CASE held[c] = {"connection"}
    BY <1>5, <2>1, TellType DEF DropSocket
  <2>2. CASE held[c] # {"connection"}
    BY <1>5, <2>2 DEF DropSocket
  <2> QED
    BY <2>1, <2>2
<1>6. CASE Joined(c)
  BY <1>6 DEF Joined
<1> QED
  BY <1>1, <1>2, <1>3, <1>4, <1>5, <1>6

\* Aborting changes nothing but the reason.
LEMMA SocketAbort ==
  ASSUME SocketInv, NEW reason, Abort(reason)
  PROVE  SocketInv'
BY SocketStutter DEF Abort, seen, server, sockets, reading

\* The replay thread adds and removes its own share, and its count stops at one.
LEMMA SocketReplay ==
  ASSUME SocketInv, NEW c \in Clients, ReplayStep(c), aborted' = "no"
  PROVE  SocketInv'
<1> USE DEF SocketInv, ReplayTypes, Owned, StopsReading, Running, server, sockets, reading,
            Goto, Abort
<1>1. CASE Props(c)
  <2>1. Body(recording) \in Nat \ {0}
    BY BodyFirst, RecordingsAssumption
  <2> QED
    BY <1>1, <2>1 DEF Props
<1>2. CASE ReadLine(c)
  <2> DEFINE line == recording[pos[c]]
  <2>1. /\ replay[c] = "loop" /\ told[c] = NONE
        /\ pos' = [pos EXCEPT ![c] = @ + 1]
        /\ replay' = [replay EXCEPT ![c] = "send"] \/ UNCHANGED replay
        /\ UNCHANGED <<recording, conn, held, told>>
    BY <1>2, Zenon DEF ReadLine, Continue
  <2>2. pos' \in [Clients -> Nat \ {0}]
    BY <2>1
  <2> QED
    BY <2>1, <2>2
<1>3. CASE LoopEnds(c)
  BY <1>3 DEF LoopEnds
<1>4. CASE Send(c)
  <2>1. /\ replay[c] = "send"
        /\ replay' = [replay EXCEPT ![c] = "sleep"]
        /\ held' = [held EXCEPT ![c] = @ \union {"replay"}]
        /\ told' = IF told[c] = NONE THEN told ELSE [told EXCEPT ![c] = @ + 1]
        /\ UNCHANGED <<recording, conn, pos>>
    BY <1>4, Zenon DEF Send, Locked
  <2>2. told[c] = NONE \/ told[c] = 0
    BY <2>1
  <2>3. told' \in [Clients -> {NONE, 0, 1}]
    BY <2>1, <2>2
  <2> QED
    BY <2>1, <2>2, <2>3
<1>5. CASE End(c)
  BY <1>5 DEF End, Locked
<1>6. CASE Wake(c)
  BY <1>6 DEF Wake, Release
<1>7. CASE Leave(c)
  BY <1>7 DEF Leave, Release
<1> QED
  BY <1>1, <1>2, <1>3, <1>4, <1>5, <1>6, <1>7 DEF ReplayStep


-------------------------------------------------------------------------------
(* What terminates the program.                                            *)

\* A socket nobody but the replay owns is one whose connection has ended.
Dropped(c) == conn[c] \in {"joining", "gone"} /\ Running(c)

\* Of a running replay, then, the session is being destroyed.
LEMMA NotOwnedIsDropped ==
  ASSUME SocketInv, NEW c \in Clients, "connection" \notin held[c], Running(c)
  PROVE  Dropped(c)
BY DEF SocketInv, ReplayTypes, Owned, Running, Dropped

\* A line that has no ',' to split at and yet contains one is the broken line.
LEMMA BrokenLine ==
  ASSUME SocketInv, NEW c \in Clients, pos[c] <= Len(recording),
         recording[pos[c]].kind = "broken"
  PROVE  Broken \in Range(recording)
<1>1. recording \in Seq(Lines) /\ pos[c] \in 1 .. Len(recording)
  BY RecordingsAssumption DEF SocketInv, ReplayTypes
<1>2. recording[pos[c]] \in Lines
  BY <1>1
<1>3. recording[pos[c]] = Broken
  BY <1>2 DEF Lines, Broken, Plain
<1> QED
  BY <1>1, <1>3 DEF Range

\* A step of a replay either leaves the program running or has one of two causes
\* to terminate it.
LEMMA ReplayAborts ==
  ASSUME SocketInv, aborted = "no", NEW c \in Clients, ReplayStep(c)
  PROVE  \/ aborted' = "no"
         \/ \E reason :
               /\ Abort(reason)
               /\ \/ reason = "bad_line" /\ Broken \in Range(recording)
                  \/ Dropped(c)
<1>t. replay[c] \notin {"none", "done"} <=> Running(c)
  BY DEF Running
<1>1. CASE Props(c)
  BY <1>1, <1>t DEF Props, Dropped
<1>2. CASE ReadLine(c)
  <2>1. CASE aborted' = aborted
    BY <2>1
  <2>2. CASE aborted' # aborted
    <3>1. /\ pos[c] <= Len(recording) /\ recording[pos[c]].kind = "broken"
          /\ Abort("bad_line")
      BY <1>2, <2>2, Zenon DEF ReadLine
    <3> QED
      BY <3>1, BrokenLine
  <2> QED
    BY <2>1, <2>2
<1>3. CASE LoopEnds(c)
  BY <1>3 DEF LoopEnds
<1>4. CASE Send(c)
  BY <1>4, <1>t, NotOwnedIsDropped DEF Send
<1>5. CASE End(c)
  BY <1>5, <1>t, NotOwnedIsDropped DEF End
<1>6. CASE Wake(c)
  BY <1>6, <1>t, NotOwnedIsDropped DEF Wake, Release
<1>7. CASE Leave(c)
  BY <1>7, <1>t, NotOwnedIsDropped DEF Leave, Release
<1> QED
  BY <1>1, <1>2, <1>3, <1>4, <1>5, <1>6, <1>7 DEF ReplayStep

-------------------------------------------------------------------------------
(* The theorems.                                                           *)

\* Before the first connection.
LEMMA SocketInit == Init => SocketInv
BY DEF Init, SocketInv, ReplayTypes, Owned, StopsReading

\* Every step of the worker, the connections and the replays.
LEMMA SocketNext == SocketInv /\ [Next]_vars => SocketInv'
<1> SUFFICES ASSUME SocketInv, [Next]_vars
             PROVE  SocketInv'
  OBVIOUS
<1>1. CASE UNCHANGED vars
  BY <1>1, SocketStutter DEF vars, server, sockets, reading, seen
<1>2. CASE Listen \/ Return \/ Stop \/ StopWithoutServer \/ Stopped \/ Tick
  BY <1>2, SocketServer
<1>3. ASSUME NEW c \in Clients,
             Accept(c) \/ Open(c) \/ Close(c) \/ ConnectionEnds(c)
      PROVE  SocketInv'
  BY <1>3, SocketConnection DEF ConnectionEnds
<1>4. ASSUME aborted = "no", NEW c \in Clients, ReplayStep(c)
      PROVE  SocketInv'
  BY <1>4, ReplayAborts, SocketAbort, SocketReplay
<1> QED
  BY <1>1, <1>2, <1>3, <1>4 DEF Next

\* The owners of the sockets and the stops of the threads in every reachable state.
THEOREM SocketsCorrect == Spec => []SocketInv
BY SocketInit, SocketNext, PTL DEF Spec

\* Whatever clients come and go, a replay that is told to stop sends no more than
\* the line it has read.
THEOREM OneLineAfterStopAlways == Spec => []OneLineAfterStop
<1>1. SocketInv => OneLineAfterStop
  BY DEF SocketInv, ReplayTypes, OneLineAfterStop
<1> QED
  BY <1>1, SocketsCorrect, PTL

\* For any number of clients and any recordings, nothing but a line that cannot be
\* split, a stop without a server, or a connection that ended under a running replay
\* terminates the program: as long as a connection lasts, its socket is owned.
THEOREM AbortsOnlyWhenDroppedAlways == Spec => []AbortsOnlyWhenDropped
<1>1. Init => AbortsOnlyWhenDropped
  BY DEF Init, AbortsOnlyWhenDropped
<1>2. SocketInv /\ AbortsOnlyWhenDropped /\ [Next]_vars => AbortsOnlyWhenDropped'
  <2> SUFFICES ASSUME SocketInv, AbortsOnlyWhenDropped, [Next]_vars
               PROVE  AbortsOnlyWhenDropped'
    OBVIOUS
  <2>1. CASE UNCHANGED vars
    BY <2>1 DEF vars, server, sockets, reading, AbortsOnlyWhenDropped, Running
  <2>2. CASE aborted' \in {"no", "no_server"}
    BY <2>2 DEF AbortsOnlyWhenDropped
  <2>3. ASSUME aborted = "no", Listen \/ Return \/ Stop \/ StopWithoutServer \/ Stopped \/ Tick
        PROVE  aborted' \in {"no", "no_server"}
    BY <2>3 DEF Listen, Return, Stop, StopWithoutServer, Stopped, Tick, Abort
  <2>4. ASSUME aborted = "no", NEW c \in Clients,
               Accept(c) \/ Open(c) \/ Close(c) \/ ConnectionEnds(c)
        PROVE  aborted' = "no"
    BY <2>4 DEF Accept, Open, Close, ConnectionEnds, DropCallback, DropSocket, Joined
  <2>5. ASSUME aborted = "no", NEW c \in Clients, ReplayStep(c)
        PROVE  AbortsOnlyWhenDropped'
    <3>1. CASE aborted' = "no"
      BY <3>1 DEF AbortsOnlyWhenDropped
    <3>2. ASSUME NEW reason, Abort(reason), reason = "bad_line", Broken \in Range(recording)
          PROVE  AbortsOnlyWhenDropped'
      BY <3>2 DEF Abort, server, AbortsOnlyWhenDropped
    <3>3. ASSUME NEW reason, Abort(reason), Dropped(c)
          PROVE  AbortsOnlyWhenDropped'
      BY <3>3 DEF Abort, sockets, Dropped, Running, AbortsOnlyWhenDropped
    <3> QED
      BY <2>5, <3>1, <3>2, <3>3, ReplayAborts
  <2> QED
    BY <2>1, <2>2, <2>3, <2>4, <2>5 DEF Next
<1> QED
  BY <1>1, <1>2, SocketsCorrect, PTL DEF Spec

-------------------------------------------------------------------------------
(* What has been read, what has been sent and when.                        *)

DueOf(lines, i) == IF IsTimed(lines) THEN lines[PayloadOf(lines)[i]].at ELSE i

ReadTypes ==
    /\ sent \in [Clients -> Seq(Nat)]
    /\ timed \in [Clients -> BOOLEAN]
    /\ clock \in [Clients -> Nat] /\ block_point \in [Clients -> Nat]

\* A replay has sent what the lines it has read ask for, but for the one it is
\* about to send; one that ends untold has read them all, or finds no socket.
Read(c) ==
    /\ replay[c] \in {"none", "props"} => sent[c] = << >> /\ block_point[c] = 0
    /\ replay[c] \notin {"none", "props"} =>
          timed[c] = IsTimed(recording) /\ pos[c] \in Body(recording) .. Len(recording) + 1
    /\ replay[c] \notin {"none", "props", "send"} => sent[c] = Upto(recording)[pos[c] - 1]
    /\ replay[c] = "send" =>
          /\ pos[c] > 1 /\ Asked(recording, pos[c] - 1)
          /\ sent[c] = Upto(recording)[pos[c] - 2]
    /\ replay[c] = "end" /\ told[c] = NONE => pos[c] = Len(recording) + 1 \/ held[c] = {}
    /\ replay[c] \in {"leave", "done"} /\ told[c] = NONE => pos[c] = Len(recording) + 1

\* It is blocked until the line it has sent last is due, and reads on after that;
\* untimed lines are due one after the other.
Blocked(c) ==
    /\ ~IsTimed(recording) /\ replay[c] \notin {"none", "props"} =>
          block_point[c] = IF replay[c] = "send" THEN Len(sent[c]) + 1 ELSE Len(sent[c])
    /\ replay[c] = "sleep" =>
          sent[c] # << >> /\ block_point[c] = DueOf(recording, Len(sent[c]))
    /\ replay[c] = "send" => block_point[c] = DueOf(recording, Len(sent[c]) + 1)
    /\ replay[c] \in {"loop", "send"} /\ sent[c] # << >> =>
          /\ DueOf(recording, Len(sent[c])) \in Nat
          /\ clock[c] >= DueOf(recording, Len(sent[c]))

ReadInv == ReadTypes /\ \A c \in Clients : Read(c) /\ Blocked(c)

\* The types of what is read.
LEMMA RecordingType ==
  ASSUME SocketInv
  PROVE  /\ recording \in Seq(Lines) /\ Len(recording) \in Nat
         /\ IsTimed(recording) \in BOOLEAN
         /\ \A i \in 1 .. Len(recording) :
              recording[i].kind = "timed" => recording[i].at \in Nat
<1>1. recording \in Seq(Lines)
  BY RecordingsAssumption DEF SocketInv, ReplayTypes
<1>2. ASSUME NEW i \in 1 .. Len(recording), recording[i].kind = "timed"
      PROVE  recording[i].at \in Nat
  <2>1. recording[i] \in Lines
    BY <1>1
  <2> QED
    BY <1>2, <2>1 DEF Lines, Plain, Broken
<1>3. IsTimed(recording) \in BOOLEAN
  BY DEF IsTimed
<1> QED
  BY <1>1, <1>2, <1>3

\* A replay keeps what holds of it through the steps of all others, while time
\* passes, owners leave and it is told to stop.
LEMMA ReadKept ==
  ASSUME NEW d \in Clients, SocketInv, ReadTypes, Read(d), Blocked(d),
         recording' = recording, replay'[d] = replay[d], sent'[d] = sent[d],
         pos'[d] = pos[d], timed'[d] = timed[d], block_point'[d] = block_point[d],
         clock'[d] \in Nat, clock'[d] >= clock[d],
         told'[d] = told[d] \/ told'[d] # NONE,
         held[d] = {} /\ replay[d] = "end" => held'[d] = {}
  PROVE  Read(d)' /\ Blocked(d)'
<1>1. Read(d)'
  BY DEF Read
<1>2. Blocked(d)'
  <2>1. clock[d] \in Nat
    BY DEF ReadTypes
  <2> QED
    BY <2>1 DEF Blocked
<1> QED
  BY <1>1, <1>2

\* No step that leaves the replays where they are disturbs them.
LEMMA ReadSteady ==
  ASSUME SocketInv, ReadInv,
         UNCHANGED <<recording, replay, sent, pos, timed, block_point>>,
         clock' \in [Clients -> Nat], \A d \in Clients : clock'[d] >= clock[d],
         \A d \in Clients : told'[d] = told[d] \/ told'[d] # NONE,
         \A d \in Clients : held[d] = {} /\ replay[d] = "end" => held'[d] = {}
  PROVE  ReadInv'
<1>1. ReadTypes'
  BY DEF ReadInv, ReadTypes
<1>2. ASSUME NEW d \in Clients
      PROVE  Read(d)' /\ Blocked(d)'
  BY ReadKept DEF ReadInv
<1> QED
  BY <1>1, <1>2 DEF ReadInv

\* The worker, the clock, and the end of the program.
LEMMA ReadServer ==
  ASSUME SocketInv, ReadInv,
         \/ Listen \/ Return \/ Stop \/ StopWithoutServer \/ Stopped \/ Tick
         \/ \E reason : Abort(reason)
         \/ UNCHANGED vars
  PROVE  ReadInv'
<1>1. clock \in [Clients -> Nat]
  BY DEF ReadInv, ReadTypes
<1>2. UNCHANGED <<recording, replay, sent, pos, timed, block_point, told, held>>
  BY DEF Listen, Return, Stop, StopWithoutServer, Stopped, Tick, Abort, vars, server,
         sockets, reading
<1>3. clock' \in [Clients -> Nat] /\ \A d \in Clients : clock'[d] >= clock[d]
  <2>1. CASE Tick
    <3>1. clock' = [c \in Clients |->
                    IF Running(c) /\ clock[c] < MaxTime THEN clock[c] + 1 ELSE clock[c]]
      BY <2>1 DEF Tick
    <3> QED
      BY <1>1, <3>1
  <2>2. CASE UNCHANGED clock
    BY <1>1, <2>2
  <2>3. UNCHANGED clock \/ Tick
    BY DEF Listen, Return, Stop, StopWithoutServer, Stopped, Abort, vars, server
  <2> QED
    BY <2>1, <2>2, <2>3
<1> QED
  BY <1>2, <1>3, ReadSteady

\* The connections.
LEMMA ReadConnection ==
  ASSUME SocketInv, ReadInv, NEW c \in Clients,
         Accept(c) \/ Close(c) \/ DropCallback(c) \/ DropSocket(c) \/ Joined(c)
  PROVE  ReadInv'
<1>1. UNCHANGED <<recording, replay, sent, pos, timed, block_point, clock>>
  BY DEF Accept, Close, DropCallback, DropSocket, Joined, server, reading
<1>2. clock' \in [Clients -> Nat] /\ \A d \in Clients : clock'[d] >= clock[d]
  BY <1>1 DEF ReadInv, ReadTypes
<1>3. \A d \in Clients : told'[d] = told[d] \/ told'[d] # NONE
  <2>1. UNCHANGED told \/ Tell(c)
    BY DEF Accept, Close, DropCallback, DropSocket, Joined
  <2> QED
    BY <2>1, TellType, RecordingsAssumption
<1>4. ASSUME NEW d \in Clients, held[d] = {}, replay[d] = "end"
      PROVE  held'[d] = {}
  <2>1. \/ Accept(c) /\ held' = [held EXCEPT ![c] = {"connection"}]
        \/ UNCHANGED held
        \/ held' = [held EXCEPT ![c] = @ \ {"connection"}]
    BY DEF Accept, Close, DropCallback, DropSocket, Joined, sockets
  <2>2. Accept(c) => replay[c] = "none"
    BY DEF Accept, SocketInv, Owned
  <2> QED
    BY <1>4, <2>1, <2>2 DEF SocketInv, ReplayTypes
<1> QED
  BY <1>1, <1>2, <1>3, <1>4, ReadSteady

\* What a step of one replay leaves of the others.
Apart(c) ==
    /\ recording' = recording
    /\ \A d \in Clients \ {c} :
          /\ replay'[d] = replay[d] /\ sent'[d] = sent[d] /\ pos'[d] = pos[d]
          /\ timed'[d] = timed[d] /\ block_point'[d] = block_point[d]
          /\ clock'[d] = clock[d] /\ told'[d] = told[d] /\ held'[d] = held[d]

LEMMA ReadApart ==
  ASSUME SocketInv, ReadInv, NEW c \in Clients, Apart(c), ReadTypes',
         Read(c)', Blocked(c)'
  PROVE  ReadInv'
<1>1. ASSUME NEW d \in Clients, d # c
      PROVE  Read(d)' /\ Blocked(d)'
  <2>1. ReadTypes /\ Read(d) /\ Blocked(d)
    BY DEF ReadInv
  <2>2. clock[d] \in Nat
    BY <2>1 DEF ReadTypes
  <2> QED
    BY <1>1, <2>1, <2>2, ReadKept DEF Apart
<1> QED
  BY <1>1 DEF ReadInv

\* Of a line asked for, the payload knows the place: after all that was asked
\* for before.
LEMMA PlaceInPayload ==
  ASSUME NEW lines \in Seq(Lines), NEW n \in 1 .. Len(lines), Asked(lines, n)
  PROVE  /\ PayloadOf(lines)[Len(Upto(lines)[n - 1]) + 1] = n
         /\ IsTimed(lines) =>
               lines[n].kind = "timed"
                 /\ DueOf(lines, Len(Upto(lines)[n - 1]) + 1) = lines[n].at
         /\ ~IsTimed(lines) =>
               DueOf(lines, Len(Upto(lines)[n - 1]) + 1) = Len(Upto(lines)[n - 1]) + 1
<1>1. Len(lines) \in Nat /\ n - 1 \in 0 .. Len(lines) /\ n \in 0 .. Len(lines)
      /\ Len(lines) \in n .. Len(lines)
  OBVIOUS
<1>2. PICK a, b : a = Upto(lines)[n - 1] /\ b = Upto(lines)[n]
  OBVIOUS
<1>3. a \in Seq(1 .. Len(lines)) /\ b = Append(a, n)
  BY <1>1, <1>2, UptoType, UptoNext
<1>4. Begins(b, PayloadOf(lines))
  BY <1>1, <1>2, UptoGrows, EnumerationExists
<1>5. Len(a) + 1 \in 1 .. Len(b) /\ b[Len(a) + 1] = n
  BY <1>1, <1>3
<1>6. PayloadOf(lines)[Len(a) + 1] = n
  BY <1>4, <1>5 DEF Begins
<1>7. IsTimed(lines) => lines[n].kind = "timed"
  BY DEF Asked
<1> QED
  BY <1>2, <1>6, <1>7 DEF DueOf

\* The thread of a session starts with the connection.
LEMMA ReadOpen ==
  ASSUME SocketInv, ReadInv, NEW c \in Clients, Open(c)
  PROVE  ReadInv'
<1>1. /\ replay' = [replay EXCEPT ![c] = "props"] /\ replay[c] = "none"
      /\ UNCHANGED <<recording, sent, pos, timed, block_point, clock, told, held>>
  BY DEF Open, SocketInv, Owned, server, reading
<1>2. Apart(c)
  BY <1>1 DEF Apart, SocketInv, ReplayTypes
<1>3. replay'[c] = "props"
  BY <1>1 DEF SocketInv, ReplayTypes
<1>4. ReadTypes'
  BY <1>1 DEF ReadInv, ReadTypes
<1>5. Read(c) /\ Blocked(c)
  BY DEF ReadInv
<1>6. Read(c)' /\ Blocked(c)'
  BY <1>1, <1>3, <1>5 DEF Read, Blocked
<1> QED
  BY <1>2, <1>4, <1>6, ReadApart

\* The properties are read, and the body begins.
LEMMA ReadProps ==
  ASSUME SocketInv, ReadInv, NEW c \in Clients, Props(c), aborted' = "no"
  PROVE  ReadInv'
<1>1. CASE Abort("destroyed_session")
  BY <1>1 DEF Abort
<1>2. CASE ~Abort("destroyed_session")
  <2>1. /\ replay[c] = "props" /\ replay' = [replay EXCEPT ![c] = "loop"]
        /\ pos' = [pos EXCEPT ![c] = Body(recording)]
        /\ timed' = [timed EXCEPT ![c] = IsTimed(recording)]
        /\ UNCHANGED <<recording, sent, block_point, clock, told, held>>
    BY <1>2 DEF Props, Goto, server, sockets
  <2>2. /\ recording \in Seq(Lines) /\ IsTimed(recording) \in BOOLEAN
        /\ Body(recording) \in 1 .. Len(recording) + 1 /\ Len(recording) \in Nat
        /\ Upto(recording)[Body(recording) - 1] = << >>
    BY RecordingType, BodyFirst, UptoBody
  <2>3. Apart(c) /\ replay'[c] = "loop" /\ pos'[c] = Body(recording)
        /\ timed'[c] = IsTimed(recording)
    BY <2>1 DEF Apart, SocketInv, ReplayTypes, ReadInv, ReadTypes
  <2>4. ReadTypes'
    BY <2>1, <2>2 DEF ReadInv, ReadTypes
  <2>5. sent'[c] = << >> /\ block_point'[c] = 0
    BY <2>1 DEF ReadInv, Read
  <2>6. Read(c)'
    BY <2>1, <2>2, <2>3, <2>5 DEF Read
  <2>7. Blocked(c)'
    BY <2>1, <2>3, <2>5 DEF Blocked
  <2> QED
    BY <2>3, <2>4, <2>6, <2>7, ReadApart
<1> QED
  BY <1>1, <1>2, ReadServer

\* A line is read: it is skipped, or is the next to send.
LEMMA ReadALine ==
  ASSUME SocketInv, ReadInv, NEW c \in Clients, ReadLine(c), aborted' = "no", aborted = "no"
  PROVE  ReadInv'
<1> DEFINE line == recording[pos[c]]
           n == pos[c]
<1>1. /\ recording \in Seq(Lines) /\ Len(recording) \in Nat
      /\ IsTimed(recording) \in BOOLEAN
      /\ Body(recording) \in 1 .. Len(recording) + 1
      /\ \A i \in 1 .. Len(recording) :
           recording[i].kind = "timed" => recording[i].at \in Nat
  BY RecordingType, BodyFirst
<1>2. /\ replay[c] = "loop" /\ n <= Len(recording) /\ told[c] = NONE
      /\ timed[c] = IsTimed(recording)
      /\ n \in Body(recording) .. Len(recording) + 1
      /\ sent[c] = Upto(recording)[n - 1]
  BY DEF ReadLine, Continue, ReadInv, Read
<1>3. n \in 1 .. Len(recording) /\ n - 1 \in 0 .. Len(recording)
  BY <1>1, <1>2
<1>a. Asked(recording, n) \/ (IsTimed(recording) /\ line.kind # "timed")
  <2>1. \E j \in 1 .. n : recording[j].kind # "header"
    BY <1>1, <1>2, <1>3, BodyFirst
  <2>2. IsTimed(recording) \/ ~IsTimed(recording)
    OBVIOUS
  <2> QED
    BY <2>1, <2>2, Zenon DEF Asked
<1>4. /\ pos' = [pos EXCEPT ![c] = @ + 1]
      /\ UNCHANGED <<recording, held, told, timed, clock, sent>>
      /\ IF timed[c] /\ line.kind # "timed"
         THEN UNCHANGED <<replay, block_point>>
         ELSE /\ replay' = [replay EXCEPT ![c] = "send"]
              /\ block_point' = [block_point EXCEPT ![c] =
                                    IF timed[c] THEN line.at ELSE @ + 1]
  <2>1. CASE timed[c] /\ line.kind = "broken"
    BY <2>1, Zenon DEF ReadLine, Abort
  <2>2. CASE ~(timed[c] /\ line.kind = "broken")
    BY <2>2, Zenon DEF ReadLine, Goto, server, sockets
  <2> QED
    BY <2>1, <2>2
<1>5. pos'[c] = n + 1 /\ pos' \in [Clients -> Nat \ {0}]
  BY <1>4 DEF SocketInv, ReplayTypes
<1>6. Read(c) /\ Blocked(c) /\ ReadTypes
  BY DEF ReadInv
<1> HIDE DEF n
<1>7. CASE timed[c] /\ line.kind # "timed"
  <2>1. UNCHANGED <<replay, block_point>>
    BY <1>4, <1>7
  <2>2. ~Asked(recording, n)
    BY <1>2, <1>7 DEF Asked, n
  <2>3. Upto(recording)[n] = Upto(recording)[n - 1]
    BY <1>1, <1>3, <2>2, UptoNext
  <2>4. Apart(c) /\ ReadTypes'
    BY <1>4, <1>6, <2>1 DEF Apart, ReadTypes, SocketInv, ReplayTypes
  <2>5. Read(c)'
    BY <1>1, <1>2, <1>3, <1>4, <1>5, <2>1, <2>3 DEF Read
  <2>6. Blocked(c)'
    BY <1>2, <1>4, <1>6, <2>1 DEF Blocked
  <2> QED
    BY <2>4, <2>5, <2>6, ReadApart
<1>8. CASE ~(timed[c] /\ line.kind # "timed")
  <2>1. Asked(recording, n)
    BY <1>2, <1>a, <1>8
  <2> DEFINE bp == IF timed[c] THEN line.at ELSE block_point[c] + 1
  <2>2. /\ replay' = [replay EXCEPT ![c] = "send"]
        /\ block_point' = [block_point EXCEPT ![c] = bp]
    BY <1>4, <1>8
  <2>3. bp \in Nat
    BY <1>1, <1>2, <1>3, <1>6, <1>8 DEF n, ReadTypes
  <2>4. bp = DueOf(recording, Len(sent[c]) + 1)
    <3>1. CASE timed[c]
      <4>1. DueOf(recording, Len(Upto(recording)[n - 1]) + 1) = recording[n].at
        BY <1>1, <1>2, <1>3, <2>1, <3>1, PlaceInPayload
      <4> QED
        BY <1>2, <3>1, <4>1 DEF n
    <3>2. CASE ~timed[c]
      <4>1. block_point[c] = Len(sent[c])
        BY <1>2, <1>6, <3>2 DEF Blocked
      <4> QED
        BY <1>1, <1>2, <1>3, <2>1, <3>2, <4>1, PlaceInPayload
    <3> QED
      BY <3>1, <3>2
  <2> HIDE DEF bp
  <2>5. Apart(c) /\ ReadTypes'
    BY <1>4, <1>6, <2>2, <2>3 DEF Apart, ReadTypes, SocketInv, ReplayTypes
  <2>6. replay'[c] = "send" /\ block_point'[c] = bp
    BY <1>6, <2>2 DEF ReadTypes, SocketInv, ReplayTypes
  <2>7. Read(c)'
    <3>1. pos'[c] - 1 = n /\ pos'[c] - 2 = n - 1 /\ pos'[c] > 1
      BY <1>3, <1>5
    <3> QED
      BY <1>1, <1>2, <1>3, <1>4, <1>5, <2>1, <2>6, <3>1 DEF Read
  <2>8. Blocked(c)'
    <3>1. ~IsTimed(recording) => bp = Len(sent[c]) + 1
      BY <1>2, <1>6, <2>4 DEF Blocked, DueOf
    <3> QED
      BY <1>2, <1>4, <1>6, <2>4, <2>6, <3>1 DEF Blocked
  <2> QED
    BY <2>5, <2>7, <2>8, ReadApart
<1> QED
  BY <1>7, <1>8

\* The loop ends with the recording, untold, unless the socket is gone.
LEMMA ReadLoopEnds ==
  ASSUME SocketInv, ReadInv, NEW c \in Clients, LoopEnds(c)
  PROVE  ReadInv'
<1>1. /\ replay[c] = "loop" /\ replay' = [replay EXCEPT ![c] = "end"]
      /\ told[c] = NONE => held[c] = {} \/ pos[c] > Len(recording)
      /\ UNCHANGED <<recording, sent, pos, timed, block_point, clock, told, held>>
  BY DEF LoopEnds, Goto, Continue, server, sockets, reading
<1>2. Apart(c) /\ ReadTypes' /\ replay'[c] = "end"
  BY <1>1 DEF Apart, SocketInv, ReplayTypes, ReadInv, ReadTypes
<1>3. Read(c) /\ Blocked(c) /\ Len(recording) \in Nat /\ Body(recording) \in Nat
  BY RecordingType, BodyFirst DEF ReadInv
<1>4. Read(c)'
  BY <1>1, <1>2, <1>3 DEF Read
<1>5. Blocked(c)'
  BY <1>1, <1>2, <1>3 DEF Blocked
<1> QED
  BY <1>2, <1>4, <1>5, ReadApart

\* The line that was read is sent.
LEMMA ReadSend ==
  ASSUME SocketInv, ReadInv, NEW c \in Clients, Send(c), aborted' = aborted
  PROVE  ReadInv'
<1> DEFINE n == pos[c] - 1
<1>1. CASE held[c] = {}
  BY <1>1, ReadServer DEF Send
<1>2. CASE held[c] # {}
  <2>1. /\ replay[c] = "send"
        /\ held' = [held EXCEPT ![c] = @ \union {"replay"}]
        /\ sent' = [sent EXCEPT ![c] = Append(@, pos[c] - 1)]
        /\ told' = IF told[c] = NONE THEN told ELSE [told EXCEPT ![c] = @ + 1]
        /\ replay' = [replay EXCEPT ![c] = "sleep"]
        /\ UNCHANGED <<recording, pos, timed, block_point, clock>>
    BY <1>2, Zenon DEF Send, Locked, Goto, server, reading
  <2>2. /\ Read(c) /\ Blocked(c) /\ ReadTypes
        /\ recording \in Seq(Lines) /\ Len(recording) \in Nat
        /\ Body(recording) \in 1 .. Len(recording) + 1
    BY RecordingType, BodyFirst DEF ReadInv
  <2>3. /\ pos[c] > 1 /\ pos[c] \in 1 .. Len(recording) + 1 /\ n \in 1 .. Len(recording)
        /\ Asked(recording, n) /\ sent[c] = Upto(recording)[n - 1]
    BY <2>1, <2>2 DEF Read
  <2>4. sent'[c] = Upto(recording)[n]
    <3>1. sent'[c] = Append(sent[c], n)
      BY <2>1, <2>2 DEF ReadTypes
    <3> QED
      BY <2>2, <2>3, <3>1, UptoNext
  <2>5. sent'[c] # << >> /\ Len(sent'[c]) = Len(sent[c]) + 1
    <3>1. sent'[c] = Append(sent[c], n)
      BY <2>1, <2>2 DEF ReadTypes
    <3>2. sent[c] \in Seq(Nat) /\ n \in Nat
      BY <2>2, <2>3 DEF ReadTypes
    <3> HIDE DEF n
    <3>3. Len(Append(sent[c], n)) = Len(sent[c]) + 1 /\ Len(sent[c]) \in Nat
      BY <3>2
    <3>4. Len(sent'[c]) > 0
      BY <3>1, <3>3
    <3>5. Len(<< >>) = 0
      OBVIOUS
    <3>6. sent'[c] # << >>
      BY <3>4, <3>5
    <3> QED
      BY <3>1, <3>3, <3>6
  <2>6. Apart(c) /\ replay'[c] = "sleep"
    BY <2>1, <2>2 DEF Apart, SocketInv, ReplayTypes, ReadTypes
  <2>7. ReadTypes'
    <3>1. Append(sent[c], n) \in Seq(Nat)
      BY <2>2, <2>3 DEF ReadTypes
    <3> QED
      BY <2>1, <2>2, <3>1 DEF ReadTypes
  <2>8. Read(c)'
    BY <2>1, <2>2, <2>4, <2>6 DEF Read
  <2>9. Blocked(c)'
    BY <2>1, <2>2, <2>5, <2>6 DEF Blocked
  <2> QED
    BY <2>6, <2>7, <2>8, <2>9, ReadApart
<1> QED
  BY <1>1, <1>2

\* The replay of a whole recording ends it; so does that of one who was told.
LEMMA ReadEnd ==
  ASSUME SocketInv, ReadInv, NEW c \in Clients, End(c)
  PROVE  ReadInv'
<1>1. CASE held[c] = {}
  BY <1>1, ReadServer DEF End
<1>2. CASE held[c] # {}
  <2>1. /\ replay[c] = "end" /\ replay' = [replay EXCEPT ![c] = "leave"]
        /\ held' = [held EXCEPT ![c] = @ \union {"replay"}]
        /\ UNCHANGED <<recording, sent, pos, timed, block_point, clock, told>>
    BY <1>2, Zenon DEF End, Locked, Goto, server, reading
  <2>2. Apart(c) /\ ReadTypes' /\ replay'[c] = "leave"
    BY <2>1 DEF Apart, SocketInv, ReplayTypes, ReadInv, ReadTypes
  <2>3. Read(c) /\ Blocked(c)
    BY DEF ReadInv
  <2>4. Read(c)'
    BY <1>2, <2>1, <2>2, <2>3 DEF Read
  <2>5. Blocked(c)'
    BY <2>1, <2>2, <2>3 DEF Blocked
  <2> QED
    BY <2>2, <2>4, <2>5, ReadApart
<1> QED
  BY <1>1, <1>2

\* The thread lets go of the socket, after it has slept or for good.
LEMMA ReadRelease ==
  ASSUME SocketInv, ReadInv, NEW c \in Clients, Wake(c) \/ Leave(c)
  PROVE  ReadInv'
<1>1. CASE held[c] = {"replay"}
  BY <1>1, ReadServer DEF Wake, Leave, Release
<1>2. CASE held[c] # {"replay"}
  <2>1. /\ \/ replay[c] = "sleep" /\ clock[c] >= block_point[c]
              /\ replay' = [replay EXCEPT ![c] = "loop"]
           \/ replay[c] = "leave" /\ replay' = [replay EXCEPT ![c] = "done"]
        /\ held' = [held EXCEPT ![c] = @ \ {"replay"}]
        /\ UNCHANGED <<recording, sent, pos, timed, block_point, clock, told>>
    BY <1>2, Zenon DEF Wake, Leave, Release, Goto, server, reading
  <2>2. /\ Apart(c) /\ ReadTypes'
        /\ \/ replay[c] = "sleep" /\ clock[c] >= block_point[c] /\ replay'[c] = "loop"
           \/ replay[c] = "leave" /\ replay'[c] = "done"
    BY <2>1 DEF Apart, SocketInv, ReplayTypes, ReadInv, ReadTypes
  <2>3. Read(c) /\ Blocked(c) /\ ReadTypes
    BY DEF ReadInv
  <2>4. Read(c)'
    BY <2>1, <2>2, <2>3 DEF Read
  <2>5. Blocked(c)'
    BY <2>1, <2>2, <2>3 DEF Blocked, ReadTypes
  <2> QED
    BY <2>2, <2>4, <2>5, ReadApart
<1> QED
  BY <1>1, <1>2

\* Before the first connection nothing is read.
LEMMA ReadInit == Init => ReadInv
BY RecordingsAssumption DEF Init, ReadInv, ReadTypes, Read, Blocked

\* Every step of the server keeps what was read and what was sent together.
LEMMA ReadNext == SocketInv /\ ReadInv /\ [Next]_vars => ReadInv'
<1> SUFFICES ASSUME SocketInv, ReadInv, [Next]_vars
             PROVE  ReadInv'
  OBVIOUS
<1>1. CASE UNCHANGED vars
  BY <1>1, ReadServer
<1>2. CASE Listen \/ Return \/ Stop \/ StopWithoutServer \/ Stopped \/ Tick
  BY <1>2, ReadServer
<1>3. ASSUME NEW c \in Clients,
             Accept(c) \/ Open(c) \/ Close(c) \/ ConnectionEnds(c)
      PROVE  ReadInv'
  BY <1>3, ReadConnection, ReadOpen DEF ConnectionEnds
<1>4. ASSUME aborted = "no", NEW c \in Clients, ReplayStep(c)
      PROVE  ReadInv'
  <2>1. CASE \E reason : Abort(reason)
    BY <2>1, ReadServer
  <2>2. CASE aborted' = "no"
    BY <1>4, <2>2, ReadProps, ReadALine, ReadLoopEnds, ReadSend, ReadEnd, ReadRelease
    DEF ReplayStep
  <2> QED
    BY <1>4, <2>1, <2>2, ReplayAborts
<1> QED
  BY <1>1, <1>2, <1>3, <1>4 DEF Next

\* What every replay has read and sent, in every reachable state.
THEOREM ReadingCorrect == Spec => [](SocketInv /\ ReadInv)
BY SocketInit, SocketNext, ReadInit, ReadNext, PTL DEF Spec

\* Whatever the recording, and whenever clients come, go and the server is
\* stopped: each client is sent the lines the recording asks for, in order, and
\* all of them if its replay ends untold.
THEOREM SentAsRecordedAlways == Spec => []SentAsRecorded
<1>1. SocketInv /\ ReadInv => SentAsRecorded
  <2> SUFFICES ASSUME SocketInv, ReadInv
               PROVE  SentAsRecorded
    OBVIOUS
  <2>1. OneLineAfterStop
    BY DEF SocketInv, ReplayTypes, OneLineAfterStop
  <2>2. /\ recording \in Seq(Lines) /\ Len(recording) \in Nat
        /\ Body(recording) \in 1 .. Len(recording) + 1
        /\ Upto(recording)[0] = << >>
        /\ Payload = Upto(recording)[Len(recording)]
        /\ \A n \in 0 .. Len(recording) : Upto(recording)[n] \in Seq(1 .. Len(recording))
    BY RecordingType, BodyFirst, UptoNext, UptoType, EnumerationExists DEF Payload
  <2>3. ASSUME NEW c \in Clients
        PROVE  /\ IsPrefix(sent[c], Payload)
               /\ told[c] = NONE /\ replay[c] = "done" => sent[c] = Payload
    <3>1. Read(c)
      BY DEF ReadInv
    <3>2. PICK n \in 0 .. Len(recording) : sent[c] = Upto(recording)[n]
      <4>1. CASE replay[c] \in {"none", "props"}
        <5>1. 0 \in 0 .. Len(recording) /\ sent[c] = Upto(recording)[0]
          BY <2>2, <3>1, <4>1 DEF Read
        <5> QED
          BY <5>1
      <4>2. CASE replay[c] = "send"
        <5>1. pos[c] - 2 \in 0 .. Len(recording) /\ sent[c] = Upto(recording)[pos[c] - 2]
          BY <2>2, <3>1, <4>2 DEF Read
        <5> QED
          BY <5>1
      <4>3. CASE replay[c] \notin {"none", "props", "send"}
        <5>1. pos[c] - 1 \in 0 .. Len(recording) /\ sent[c] = Upto(recording)[pos[c] - 1]
          BY <2>2, <3>1, <4>3 DEF Read
        <5> QED
          BY <5>1
      <4> QED
        BY <4>1, <4>2, <4>3
    <3>3. Len(recording) \in n .. Len(recording) /\ Len(recording) \in 0 .. Len(recording)
      BY <2>2
    <3>4. Begins(sent[c], Payload)
      BY <2>2, <3>2, <3>3, UptoGrows
    <3>5. sent[c] \in Seq(Nat) /\ Payload \in Seq(Nat)
      <4>1. \A s \in Seq(1 .. Len(recording)) : s \in Seq(Nat)
        OBVIOUS
      <4> QED
        BY <2>2, <3>2, <3>3, <4>1
    <3>6. IsPrefix(sent[c], Payload)
      BY <3>4, <3>5, BeginsPrefix
    <3>7. ASSUME told[c] = NONE, replay[c] = "done"
          PROVE  sent[c] = Payload
      <4>1. pos[c] = Len(recording) + 1 /\ sent[c] = Upto(recording)[pos[c] - 1]
        BY <3>1, <3>7 DEF Read
      <4> QED
        BY <2>2, <4>1
    <3> QED
      BY <3>6, <3>7
  <2> QED
    BY <2>1, <2>3 DEF SentAsRecorded
<1> QED
  BY <1>1, ReadingCorrect, PTL

\* A line is sent only once the one before it is due, by the replay's own clock.
THEOREM PacedAlways == Spec => Paced
<1>1. SocketInv /\ ReadInv /\ [Next]_vars =>
        [\A c \in Clients :
           sent'[c] # sent[c] /\ sent[c] # << >> => clock[c] >= Due(Len(sent[c]))]_vars
  <2> SUFFICES ASSUME SocketInv, ReadInv, Next, NEW c \in Clients,
                      sent'[c] # sent[c], sent[c] # << >>
               PROVE  clock[c] >= Due(Len(sent[c]))
    OBVIOUS
  <2>1. \A i : Due(i) = DueOf(recording, i)
    BY DEF Due, DueOf, Payload
  <2>2. PICK d \in Clients : Send(d)
    BY DEF Next, Listen, Return, Stop, StopWithoutServer, Stopped, Tick, Accept, Open,
           Close, ConnectionEnds, DropCallback, DropSocket, Joined, ReplayStep, Props,
           ReadLine, LoopEnds, End, Wake, Leave, Release, Abort
  <2>3. d = c /\ replay[c] = "send"
    <3>1. replay[d] = "send" /\ (sent' = sent \/ sent' = [sent EXCEPT ![d] = Append(@, pos[d] - 1)])
      BY <2>2, Zenon DEF Send, Abort
    <3>2. sent \in [Clients -> Seq(Nat)]
      BY DEF ReadInv, ReadTypes
    <3> QED
      BY <3>1, <3>2
  <2>4. Blocked(c)
    BY DEF ReadInv
  <2> QED
    BY <2>1, <2>3, <2>4 DEF Blocked
<1> QED
  BY <1>1, ReadingCorrect, PTL DEF Spec, Paced

=================================================================================
