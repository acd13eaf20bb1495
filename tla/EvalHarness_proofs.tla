------------------------- MODULE EvalHarness_proofs -------------------------
(***************************************************************************)
(* Theorems about EvalHarness, for every number of captures, of messages   *)
(* read for a reply and of messages waiting.                               *)
(***************************************************************************)
EXTENDS EvalHarness, SequenceTheorems, TLAPS

USE BoundsAssumption

(***************************************************************************)
(* Types.  A capture is given up on at most once, and QEMU says nothing    *)
(* but its greeting before it has been told to.                            *)
(***************************************************************************)

Early == {"start", "connect", "greeting"}

SilentEarly ==
  pc \in Early =>
    /\ ~ready /\ commands = <<>>
    /\ inbox = IF pc = "greeting" THEN <<Message("greeting", 0)>> ELSE <<>>
    /\ shot = 0 /\ gaveUp = 0

Messages(n) == [kind : {"greeting", "return", "error", "event"}, of : 0..n]

QueuesOK == commands \in Seq(0..shot) /\ inbox \in Seq(Messages(shot))

FilesOK ==
  files \in [Shots -> [by : {"nobody", "earlier", "this"}, marks : SUBSET Marks,
                       whole : BOOLEAN]]

\* Where the harness and QEMU are, and what they have counted.
PlacesOK ==
  /\ keep \in BOOLEAN /\ reused \in BOOLEAN
  /\ pc \in {"start", "connect", "greeting", "capabilities", "top", "await",
             "ocr", "done"}
  /\ verdict \in Marks \cup {"none", "timeout", "error"}
  /\ (verdict = "none") = (pc # "done")
  /\ shot \in 0..MaxShots /\ gaveUp \in 0..shot /\ answered \in 0..shot
  /\ reads \in 0..(MaxReads - 1)
  /\ qemu \in {"none", "running", "exited", "reaped"}
  /\ (qemu = "none") => pc \in {"start", "done"}
  /\ ready \in BOOLEAN
  /\ screen \subseteq shown /\ shown \subseteq Marks

UnderWay ==
  /\ pc \in {"await", "ocr"} => shot > 0
  /\ pc = "await" => gaveUp < shot
  /\ pc = "capabilities" => shot = 0 /\ gaveUp = 0
  /\ pc = "start" => qemu = "none"

TypeInv == QueuesOK /\ FilesOK /\ PlacesOK /\ UnderWay /\ SilentEarly

\* The parts make up TypeOK.
LEMMA TypeParts == TypeInv => TypeOK
  BY DEF TypeInv, TypeOK, QueuesOK, FilesOK, PlacesOK, Messages

\* What is left of a queue when its first member is taken.
LEMMA TakeFirst ==
  ASSUME NEW S, NEW s \in Seq(S), s # <<>>
  PROVE  /\ Len(s) \in Nat \ {0} /\ Head(s) = s[1] /\ s[1] \in S
         /\ Tail(s) \in Seq(S) /\ Len(Tail(s)) = Len(s) - 1
         /\ \A i \in 1..(Len(s) - 1) : Tail(s)[i] = s[i + 1]
  BY HeadTailProperties, EmptySeq, ElementOfSeq

\* Every initial state is typed.
LEMMA TypeInit == Init => TypeInv
<1> SUFFICES ASSUME Init PROVE TypeInv
  OBVIOUS
<1>1. FilesOK
  BY DEF Init, FilesOK, File, NoFile
<1>2. QueuesOK
  BY EmptySeq DEF Init, QueuesOK
<1>3. PlacesOK
  <2>1. shot \in 0..MaxShots /\ gaveUp \in 0..shot /\ answered \in 0..shot
    BY DEF Init
  <2>2. reads \in 0..(MaxReads - 1)
    BY DEF Init
  <2>3. screen \subseteq shown /\ shown \subseteq Marks
    BY DEF Init
  <2> QED
    BY <2>1, <2>2, <2>3 DEF Init, PlacesOK
<1>4. UnderWay /\ SilentEarly
  BY DEF Init, UnderWay, SilentEarly, Early
<1> QED
  BY <1>1, <1>2, <1>3, <1>4 DEF TypeInv

\* A reply or an event can be put into the queue, and the first command and
\* the first message are for captures that were asked for.
LEMMA QueueFacts ==
  ASSUME QueuesOK, PlacesOK
  PROVE  /\ \A kind \in {"return", "error", "event"}, n \in 0..shot :
              Append(inbox, Message(kind, n)) \in Seq(Messages(shot))
         /\ Append(commands, 0) \in Seq(0..shot)
         /\ commands # <<>> =>
              Head(commands) \in 0..shot /\ Tail(commands) \in Seq(0..shot)
         /\ inbox # <<>> =>
              Tail(inbox) \in Seq(Messages(shot)) /\ Head(inbox) \in Messages(shot)
<1>1. shot \in Nat /\ 0 \in 0..shot
  BY DEF PlacesOK
<1>2. \A kind \in {"return", "error", "event"}, n \in 0..shot :
        Message(kind, n) \in Messages(shot)
  BY DEF Message, Messages
<1>3. \A kind \in {"return", "error", "event"}, n \in 0..shot :
        Append(inbox, Message(kind, n)) \in Seq(Messages(shot))
  BY <1>2, AppendProperties DEF QueuesOK
<1>4. Append(commands, 0) \in Seq(0..shot)
  BY <1>1, AppendProperties DEF QueuesOK
<1>5. commands # <<>> =>
        Head(commands) \in 0..shot /\ Tail(commands) \in Seq(0..shot)
  BY TakeFirst, ZenonT(30) DEF QueuesOK
<1>6. inbox # <<>> =>
        Tail(inbox) \in Seq(Messages(shot)) /\ Head(inbox) \in Messages(shot)
  BY HeadTailProperties DEF QueuesOK
<1> QED
  BY <1>3, <1>4, <1>5, <1>6

\* Every step of QEMU keeps the types.
LEMMA QemuTypes == TypeInv /\ Qemu => TypeInv'
<1> SUFFICES ASSUME TypeInv, Qemu PROVE TypeInv'
  OBVIOUS
<1>t. QueuesOK /\ FilesOK /\ PlacesOK /\ UnderWay /\ SilentEarly /\ shot \in 0..MaxShots
  BY DEF TypeInv, PlacesOK
<1>w. commands # <<>> \/ ready => pc \notin Early
  BY <1>t DEF SilentEarly
<1>h. Capturing => Head(commands) \in Shots /\ pc \notin Early
  BY <1>t, <1>w, QueueFacts DEF Capturing, Shots
<1>1. QueuesOK'
  <2> USE <1>t, QueueFacts DEF QueuesOK, harness, config, Reply
  <2>1. CASE Draw \/ StartCapture
    BY <2>1 DEF Draw, StartCapture
  <2>2. CASE EmitEvent
    <3>1. Event = Message("event", 0) /\ 0 \in 0..shot
      BY DEF Event, Message
    <3> QED
      BY <2>2, <3>1 DEF EmitEvent
  <2>3. CASE ServeCapabilities
    BY <2>3 DEF ServeCapabilities
  <2>4. CASE FinishCapture \/ FailCapture
    BY <2>4 DEF FinishCapture, FailCapture, Capturing
  <2>5. CASE Exit
    BY <2>5, EmptySeq DEF Exit
  <2> QED
    BY <2>1, <2>2, <2>3, <2>4, <2>5 DEF Qemu
<1>2. FilesOK'
  <2>1. CASE StartCapture
    <3>1. File("this", screen, FALSE) \in
            [by : {"nobody", "earlier", "this"}, marks : SUBSET Marks, whole : BOOLEAN]
      BY <1>t DEF File, PlacesOK
    <3> QED
      BY <1>t, <1>h, <2>1, <3>1 DEF StartCapture, FilesOK
  <2>2. CASE FinishCapture
    BY <1>t, <1>h, <2>2 DEF FinishCapture, FilesOK
  <2>3. CASE UNCHANGED files
    BY <1>t, <2>3 DEF FilesOK
  <2> QED
    BY <2>1, <2>2, <2>3 DEF Qemu, Draw, EmitEvent, ServeCapabilities, FailCapture, Exit
<1>3. PlacesOK' /\ UnderWay'
  BY <1>t DEF Qemu, Draw, EmitEvent, ServeCapabilities, StartCapture, FinishCapture,
              FailCapture, Exit, Capturing, PlacesOK, UnderWay, harness, config
<1>4. SilentEarly'
  <2>1. CASE pc \in Early
    BY <1>t, <1>w, <1>h, <2>1
    DEF Qemu, Draw, EmitEvent, ServeCapabilities, StartCapture, FinishCapture,
        FailCapture, Exit, SilentEarly, Early, harness, config
  <2>2. CASE pc \notin Early
    BY <2>2 DEF Qemu, Draw, EmitEvent, ServeCapabilities, StartCapture,
                FinishCapture, FailCapture, Exit, SilentEarly, harness, config
  <2> QED
    BY <2>1, <2>2
<1> QED
  BY <1>1, <1>2, <1>3, <1>4 DEF TypeInv

\* Every step of the harness keeps the types.
LEMMA HarnessTypes == TypeInv /\ Harness => TypeInv'
<1> SUFFICES ASSUME TypeInv, Harness PROVE TypeInv'
  OBVIOUS
<1>t. QueuesOK /\ FilesOK /\ PlacesOK /\ UnderWay /\ SilentEarly /\ shot \in 0..MaxShots
  BY DEF TypeInv, PlacesOK
<1>g. pc = "greeting" => inbox # <<>> /\ Tail(inbox) = <<>> /\ commands = <<>>
  <2> SUFFICES ASSUME pc = "greeting"
               PROVE  inbox # <<>> /\ Tail(inbox) = <<>> /\ commands = <<>>
    OBVIOUS
  <2>1. commands = <<>> /\ Len(inbox) = 1
    BY <1>t DEF SilentEarly, Early
  <2>2. inbox # <<>> /\ inbox \in Seq(Messages(shot))
    BY <1>t, <2>1 DEF QueuesOK
  <2>3. Tail(inbox) \in Seq(Messages(shot)) /\ Len(Tail(inbox)) = 0
    BY <2>1, <2>2, TakeFirst
  <2> QED
    BY <2>1, <2>2, <2>3, EmptySeq
<1> USE <1>t DEF config, outside, Goto, Leave, GiveUp, Awaiting, ReplyIs, AtDeadline
<1>1. QueuesOK'
  <2> USE QueueFacts DEF QueuesOK
  <2>1. CASE Preflight \/ Judge
    BY <2>1 DEF Preflight, Judge
  <2>2. CASE Connect
    <3>1. <<Message("greeting", 0)>> \in Seq(Messages(shot))
      BY DEF Message, Messages
    <3> QED
      BY <2>2, <3>1 DEF Connect
  <2>3. CASE Greeting
    BY <1>g, <2>3 DEF Greeting
  <2>4. CASE Ask
    <3>1. 0..shot \subseteq 0..(shot + 1) /\ Messages(shot) \subseteq Messages(shot + 1)
      <4>1. \A n \in Nat : 0..n \subseteq 0..(n + 1)
        OBVIOUS
      <4>2. shot \in Nat
        OBVIOUS
      <4> QED
        BY <4>1, <4>2 DEF Messages
    <3>2. commands \in Seq(0..(shot + 1)) /\ inbox \in Seq(Messages(shot + 1))
      BY <3>1, SeqMonotonic
    <3>3. Append(commands, shot + 1) \in Seq(0..(shot + 1))
      BY <3>2, AppendProperties
    <3> QED
      BY <2>4, <3>2, <3>3 DEF Ask
  <2>5. CASE ReadFails \/ SkipEvent
    BY <2>5 DEF ReadFails, SkipEvent
  <2>6. CASE TakeCapabilities \/ TakeAnswer
    BY <2>6 DEF TakeCapabilities, TakeAnswer
  <2> QED
    BY <2>1, <2>2, <2>3, <2>4, <2>5, <2>6 DEF Harness
<1>2. FilesOK'
  BY DEF Harness, Preflight, Connect, Greeting, Ask, ReadFails, SkipEvent,
         TakeCapabilities, TakeAnswer, Judge, FilesOK
<1>3. PlacesOK' /\ UnderWay'
  <2>a. inbox # <<>> => Head(inbox).of \in 0..shot
    BY QueueFacts DEF Messages
  <2> USE DEF PlacesOK, UnderWay
  <2>1. CASE Preflight
    BY <2>1 DEF Preflight
  <2>2. CASE Connect \/ Greeting
    BY <2>2, <1>g DEF Connect, Greeting, SilentEarly, Early
  <2>3. CASE Ask
    BY <2>3 DEF Ask
  <2>4. CASE ReadFails
    BY <2>4 DEF ReadFails
  <2>5. CASE SkipEvent
    BY <2>5 DEF SkipEvent
  <2>6. CASE TakeCapabilities
    BY <2>6 DEF TakeCapabilities
  <2>7. CASE TakeAnswer
    BY <2>7, <2>a DEF TakeAnswer
  <2>8. CASE Judge
    BY <2>8 DEF Judge, Marks
  <2> QED
    BY <2>1, <2>2, <2>3, <2>4, <2>5, <2>6, <2>7, <2>8 DEF Harness
<1>4. SilentEarly'
  BY DEF Harness, Preflight, Connect, Greeting, Ask, ReadFails, SkipEvent,
         TakeCapabilities, TakeAnswer, Judge, SilentEarly, Early
<1> QED
  BY <1>1, <1>2, <1>3, <1>4 DEF TypeInv

\* Every step keeps the types.
LEMMA TypeStep == TypeInv /\ [Next]_vars => TypeInv'
<1>1. TypeInv /\ (Done \/ UNCHANGED vars) => TypeInv'
  BY DEF TypeInv, QueuesOK, FilesOK, PlacesOK, UnderWay, SilentEarly, Early,
         Done, vars, harness, config
<1> QED
  BY <1>1, QemuTypes, HarnessTypes DEF Next

\* Type correctness: no counter leaves its range, and no message is for a
\* capture that was not asked for.
THEOREM TypeCorrect == Spec => []TypeOK
  BY TypeInit, TypeStep, TypeParts, PTL DEF Spec

-----------------------------------------------------------------------------
(***************************************************************************)
(* Replies come in the order of the commands, and none gets lost while     *)
(* QEMU runs.  So what is to come is an interval, from the command that    *)
(* the next reply is for to the last one sent.                             *)
(***************************************************************************)

IsReply(message) == message.kind \in {"return", "error"}

\* The captures that messages q and commands c still have a reply for.
RepliesIn(q) == {i \in 1..Len(q) : IsReply(q[i])}

PendingIn(q, c) ==
  {q[i].of : i \in RepliesIn(q)} \cup {c[i] : i \in 1..Len(c)}

InOrder(q, c) ==
  /\ \A i, j \in RepliesIn(q) : i < j => q[i].of < q[j].of
  /\ \A i, j \in 1..Len(c) : i < j => c[i] < c[j]
  /\ \A i \in RepliesIn(q), j \in 1..Len(c) : q[i].of < c[j]

Pending == PendingIn(inbox, commands)

\* The command that the next reply is for.
Due == IF pc \in {"capabilities", "await"} THEN shot - gaveUp ELSE shot - gaveUp + 1

\* Nothing is read any more.
Over == pc = "done" \/ (pc = "top" /\ qemu # "running")

Complete ==
  ~Over =>
    /\ \A n \in Pending : Due <= n /\ \A m \in Due..n : m \in Pending
    /\ qemu = "running" /\ Due <= shot => shot \in Pending

OrderInv == InOrder(inbox, commands) /\ Complete

\* Every reply is for a command that was sent.
LEMMA RepliesTyped ==
  ASSUME NEW n \in Nat, NEW q \in Seq(Messages(n))
  PROVE  \A i \in RepliesIn(q) : q[i].of \in 0..n
<1> SUFFICES ASSUME NEW i \in RepliesIn(q) PROVE q[i].of \in 0..n
  OBVIOUS
<1>1. i \in 1..Len(q)
  BY DEF RepliesIn
<1>2. q[i] \in Messages(n)
  BY <1>1, ElementOfSeq
<1> QED
  BY <1>2 DEF Messages

\* An event put into the queue changes nothing of what is to come.
LEMMA EventArrives ==
  ASSUME NEW n \in Nat, NEW q \in Seq(Messages(n)), NEW c \in Seq(0..n)
  PROVE  /\ RepliesIn(Append(q, Event)) = RepliesIn(q)
         /\ PendingIn(Append(q, Event), c) = PendingIn(q, c)
         /\ InOrder(q, c) => InOrder(Append(q, Event), c)
<1> DEFINE r == Append(q, Event)
<1>1. Event \in Messages(n) /\ ~IsReply(Event)
  BY DEF Event, Messages, IsReply
<1>2. Len(q) \in Nat /\ Len(r) = Len(q) + 1 /\ r[Len(q) + 1] = Event
  BY <1>1, AppendProperties, LenProperties
<1>3. \A i \in 1..Len(q) : r[i] = q[i]
  BY <1>1, AppendProperties
<1> HIDE DEF r
<1>4. RepliesIn(r) = RepliesIn(q)
  BY <1>1, <1>2, <1>3 DEF RepliesIn
<1>5. \A i \in RepliesIn(q) : r[i] = q[i]
  BY <1>3 DEF RepliesIn
<1>6. PendingIn(r, c) = PendingIn(q, c)
  BY <1>4, <1>5 DEF PendingIn
<1>7. InOrder(q, c) => InOrder(r, c)
  BY <1>4, <1>5 DEF InOrder
<1> QED
  BY <1>4, <1>6, <1>7 DEF r

\* A command that is finished becomes a reply, and stays in its place.
LEMMA CommandServed ==
  ASSUME NEW n \in Nat, NEW q \in Seq(Messages(n)), NEW c \in Seq(0..n),
         c # <<>>, NEW kind \in {"return", "error"}, InOrder(q, c)
  PROVE  /\ PendingIn(Append(q, Message(kind, Head(c))), Tail(c)) = PendingIn(q, c)
         /\ InOrder(Append(q, Message(kind, Head(c))), Tail(c))
<1> DEFINE m == Message(kind, Head(c))
           r == Append(q, m)
           t == Tail(c)
           k == Len(q)
<1>1. /\ Len(c) \in Nat \ {0} /\ Head(c) = c[1] /\ c[1] \in 0..n
      /\ Len(t) = Len(c) - 1 /\ \A i \in 1..(Len(c) - 1) : t[i] = c[i + 1]
  BY TakeFirst
<1>2. m \in Messages(n) /\ m.kind = kind /\ m.of = c[1]
  BY <1>1 DEF Message, Messages
<1>3. k \in Nat /\ Len(r) = k + 1 /\ r[k + 1] = m /\ \A i \in 1..k : r[i] = q[i]
  BY <1>2, AppendProperties, LenProperties
<1>4. RepliesIn(r) = RepliesIn(q) \cup {k + 1} /\ RepliesIn(q) \subseteq 1..k
  <2> HIDE DEF r, m
  <2> QED
    BY <1>2, <1>3 DEF RepliesIn, IsReply
<1>5. \A i \in RepliesIn(q) : r[i] = q[i]
  BY <1>3, <1>4
<1>6. 1..Len(t) = 1..(Len(c) - 1) /\ 1 \in 1..Len(c)
  BY <1>1
<1> HIDE DEF r, m, t, k
<1>7. PendingIn(r, t) = PendingIn(q, c)
  <2>1. {r[i].of : i \in RepliesIn(r)} = {q[i].of : i \in RepliesIn(q)} \cup {c[1]}
    BY <1>2, <1>3, <1>4, <1>5, SMTT(30)
  <2>2. {c[i] : i \in 1..Len(c)} = {c[1]} \cup {t[i] : i \in 1..Len(t)}
    <3>1. \A i \in 1..Len(c) : i = 1 \/ (i - 1 \in 1..Len(t) /\ t[i - 1] = c[i])
      BY <1>1
    <3>2. \A i \in 1..Len(t) : i + 1 \in 1..Len(c) /\ t[i] = c[i + 1]
      BY <1>1
    <3>3. \A x \in {c[i] : i \in 1..Len(c)} :
            x \in {c[1]} \cup {t[i] : i \in 1..Len(t)}
      <4> SUFFICES ASSUME NEW i \in 1..Len(c)
                   PROVE  c[i] \in {c[1]} \cup {t[j] : j \in 1..Len(t)}
        OBVIOUS
      <4> QED
        BY <3>1
    <3>4. \A x \in {c[1]} \cup {t[i] : i \in 1..Len(t)} :
            x \in {c[i] : i \in 1..Len(c)}
      BY <1>6, <3>2
    <3> QED
      BY <3>3, <3>4
  <2> QED
    BY <2>1, <2>2 DEF PendingIn
<1>8. InOrder(r, t)
  <2>1. \A i, j \in RepliesIn(r) : i < j => r[i].of < r[j].of
    <3>1. \A i \in RepliesIn(q) : q[i].of < c[1]
      BY <1>6 DEF InOrder
    <3>2. \A i, j \in RepliesIn(q) : i < j => q[i].of < q[j].of
      BY DEF InOrder
    <3>3. \A i \in RepliesIn(q) : i \in Nat /\ i < k + 1
      BY <1>3, <1>4
    <3>4. r[k + 1].of = c[1] /\ k + 1 \in Nat
      BY <1>2, <1>3
    <3> QED
      BY <1>4, <1>5, <3>1, <3>2, <3>3, <3>4
  <2>2. \A i \in 1..Len(t) : i + 1 \in 1..Len(c) /\ t[i] = c[i + 1]
    BY <1>1
  <2>3. \A i, j \in 1..Len(t) : i < j => t[i] < t[j]
    <3>1. \A i, j \in 1..Len(c) : i < j => c[i] < c[j]
      BY DEF InOrder
    <3>2. ASSUME NEW i \in 1..Len(t), NEW j \in 1..Len(t), i < j
          PROVE  t[i] < t[j]
      <4>1. i + 1 \in 1..Len(c) /\ j + 1 \in 1..Len(c) /\ i + 1 < j + 1
        BY <2>2, <3>2
      <4> QED
        BY <2>2, <3>1, <4>1
    <3> QED
      BY <3>2
  <2>4. \A i \in RepliesIn(r), j \in 1..Len(t) : r[i].of < t[j]
    <3>1. ASSUME NEW j \in 1..Len(t) PROVE c[1] < t[j]
      <4>1. \A i, l \in 1..Len(c) : i < l => c[i] < c[l]
        BY DEF InOrder
      <4>2. j \in Nat /\ 1 <= j
        BY <1>1
      <4>3. 1 < j + 1
        BY <4>2
      <4>4. j + 1 \in 1..Len(c) /\ t[j] = c[j + 1] /\ 1 \in 1..Len(c)
        BY <1>6, <2>2
      <4> QED
        BY <4>1, <4>3, <4>4, Zenon
    <3>2. \A i \in RepliesIn(q), j \in 1..Len(t) : q[i].of < t[j]
      BY <2>2 DEF InOrder
    <3> QED
      BY <1>2, <1>3, <1>4, <1>5, <3>1, <3>2, ZenonT(30)
  <2> QED
    BY <2>1, <2>3, <2>4 DEF InOrder
<1> QED
  BY <1>7, <1>8 DEF r, m, t

\* When QEMU exits the replies it has sent come, and no others.
LEMMA CommandsLost ==
  ASSUME NEW n \in Nat, NEW q \in Seq(Messages(n)), NEW c \in Seq(0..n),
         InOrder(q, c)
  PROVE  /\ PendingIn(q, <<>>) \subseteq PendingIn(q, c)
         /\ \A x \in PendingIn(q, <<>>), y \in PendingIn(q, c) :
              y <= x => y \in PendingIn(q, <<>>)
         /\ InOrder(q, <<>>)
<1>1. 1..Len(<<>>) = {}
  BY EmptySeq
<1>2. PendingIn(q, <<>>) = {q[i].of : i \in RepliesIn(q)}
  BY <1>1 DEF PendingIn
<1>3. \A i \in RepliesIn(q) : q[i].of \in 0..n
  BY RepliesTyped
<1>4. \A j \in 1..Len(c) : c[j] \in 0..n
  BY ElementOfSeq
<1>5. \A i \in RepliesIn(q), j \in 1..Len(c) : ~(c[j] <= q[i].of)
  BY <1>3, <1>4 DEF InOrder
<1>6. InOrder(q, <<>>)
  BY <1>1 DEF InOrder
<1> QED
  BY <1>2, <1>5, <1>6 DEF PendingIn

\* A message read leaves the replies behind it in order; a reply read is for
\* the first of what was to come.
LEMMA MessageTaken ==
  ASSUME NEW n \in Nat, NEW q \in Seq(Messages(n)), NEW c \in Seq(0..n),
         q # <<>>, InOrder(q, c)
  PROVE  /\ InOrder(Tail(q), c)
         /\ ~IsReply(Head(q)) => PendingIn(Tail(q), c) = PendingIn(q, c)
         /\ IsReply(Head(q)) =>
              /\ Head(q).of \in PendingIn(q, c)
              /\ \A x \in PendingIn(q, c) : x = Head(q).of \/ Head(q).of < x
              /\ PendingIn(Tail(q), c) = PendingIn(q, c) \ {Head(q).of}
<1> DEFINE t == Tail(q)
<1>1. /\ Len(q) \in Nat \ {0} /\ Head(q) = q[1] /\ Len(t) = Len(q) - 1
      /\ \A i \in 1..(Len(q) - 1) : t[i] = q[i + 1]
  BY TakeFirst
<1> HIDE DEF t
<1>2. \A i \in RepliesIn(q) : q[i].of \in 0..n
  BY RepliesTyped
<1>3. \A j \in 1..Len(c) : c[j] \in 0..n
  BY ElementOfSeq
<1>4. \A i \in RepliesIn(t) : i \in Nat /\ i + 1 \in RepliesIn(q) /\ t[i] = q[i + 1]
  BY <1>1 DEF RepliesIn
<1>5. \A i \in RepliesIn(q) : i = 1 \/ (i - 1 \in RepliesIn(t) /\ t[i - 1] = q[i])
  <2> SUFFICES ASSUME NEW i \in RepliesIn(q), i # 1
               PROVE  i - 1 \in RepliesIn(t) /\ t[i - 1] = q[i]
    OBVIOUS
  <2>1. i \in 1..Len(q) /\ i - 1 \in 1..(Len(q) - 1) /\ (i - 1) + 1 = i
    BY <1>1 DEF RepliesIn
  <2>2. t[i - 1] = q[i]
    BY <1>1, <2>1
  <2> QED
    BY <1>1, <2>1, <2>2 DEF RepliesIn
<1>6. InOrder(t, c)
  <2>1. \A i, j \in RepliesIn(t) : i < j => t[i].of < t[j].of
    BY <1>4 DEF InOrder
  <2>2. \A i \in RepliesIn(t), j \in 1..Len(c) : t[i].of < c[j]
    BY <1>4 DEF InOrder
  <2> QED
    BY <2>1, <2>2 DEF InOrder
<1>7. CASE ~IsReply(q[1])
  <2>1. 1 \notin RepliesIn(q)
    BY <1>7 DEF RepliesIn
  <2>2. {t[i].of : i \in RepliesIn(t)} = {q[i].of : i \in RepliesIn(q)}
    BY <1>4, <1>5, <2>1
  <2> QED
    BY <1>1, <1>6, <1>7, <2>2 DEF PendingIn, t
<1>8. CASE IsReply(q[1])
  <2>1. 1 \in RepliesIn(q)
    BY <1>1, <1>8 DEF RepliesIn
  <2>2. \A i \in RepliesIn(q) : i \in Nat /\ (i = 1 \/ 1 < i)
    BY DEF RepliesIn
  <2>3. \A i \in RepliesIn(q) : i = 1 \/ q[1].of < q[i].of
    BY <2>1, <2>2 DEF InOrder
  <2>4. \A j \in 1..Len(c) : q[1].of < c[j]
    BY <2>1 DEF InOrder
  <2>5. \A x \in PendingIn(q, c) : x = q[1].of \/ q[1].of < x
    BY <2>3, <2>4 DEF PendingIn
  <2>6. q[1].of \in PendingIn(q, c)
    BY <2>1 DEF PendingIn
  <2>7. PendingIn(t, c) \subseteq PendingIn(q, c)
    BY <1>4 DEF PendingIn
  <2>8. q[1].of \notin PendingIn(t, c)
    <3>1. \A i \in RepliesIn(t) : q[1].of < t[i].of
      <4> SUFFICES ASSUME NEW i \in RepliesIn(t) PROVE q[1].of < t[i].of
        OBVIOUS
      <4>1. i + 1 \in RepliesIn(q) /\ i + 1 # 1 /\ t[i] = q[i + 1]
        <5>1. i \in 1..Len(t)
          BY DEF RepliesIn
        <5> QED
          BY <1>4, <5>1
      <4> QED
        BY <2>3, <4>1
    <3>2. q[1].of \in Int
      BY <1>2, <2>1
    <3> QED
      BY <2>4, <3>1, <3>2 DEF PendingIn
  <2>9. \A x \in PendingIn(q, c) : x = q[1].of \/ x \in PendingIn(t, c)
    BY <1>5 DEF PendingIn
  <2> QED
    BY <1>1, <1>6, <1>8, <2>5, <2>6, <2>7, <2>8, <2>9 DEF t
<1> QED
  BY <1>1, <1>7, <1>8

\* A command sent is the last of what is to come.
LEMMA CommandSent ==
  ASSUME NEW n \in Nat, NEW q \in Seq(Messages(n)), NEW c \in Seq(0..n),
         InOrder(q, c)
  PROVE  /\ PendingIn(q, Append(c, n + 1)) = PendingIn(q, c) \cup {n + 1}
         /\ InOrder(q, Append(c, n + 1))
<1> DEFINE d == Append(c, n + 1)
<1>1. c \in Seq(0..(n + 1)) /\ n + 1 \in 0..(n + 1)
  <2>1. 0..n \subseteq 0..(n + 1)
    OBVIOUS
  <2> QED
    BY <2>1, SeqMonotonic
<1>2. /\ Len(c) \in Nat /\ Len(d) = Len(c) + 1 /\ d[Len(c) + 1] = n + 1
      /\ \A i \in 1..Len(c) : d[i] = c[i]
  BY <1>1, AppendProperties, LenProperties
<1> HIDE DEF d
<1>3. \A i \in 1..Len(c) : c[i] \in 0..n
  BY ElementOfSeq
<1>4. \A i \in RepliesIn(q) : q[i].of \in 0..n
  BY RepliesTyped
<1>5. {d[i] : i \in 1..Len(d)} = {c[i] : i \in 1..Len(c)} \cup {n + 1}
  <2>1. 1..Len(d) = 1..Len(c) \cup {Len(c) + 1}
    BY <1>2
  <2> QED
    BY <1>2, <2>1
<1>6. PendingIn(q, d) = PendingIn(q, c) \cup {n + 1}
  BY <1>5 DEF PendingIn
<1>7. \A i, j \in 1..Len(d) : i < j => d[i] < d[j]
  <2> SUFFICES ASSUME NEW i \in 1..Len(d), NEW j \in 1..Len(d), i < j
               PROVE  d[i] < d[j]
    OBVIOUS
  <2>1. i \in 1..Len(c) /\ d[i] = c[i] /\ c[i] \in 0..n
    BY <1>2, <1>3
  <2>4. j = Len(c) + 1 \/ j \in 1..Len(c)
    <3>1. \A l \in Nat : \A m \in 1..(l + 1) : m = l + 1 \/ m \in 1..l
      OBVIOUS
    <3> QED
      BY <1>2, <3>1
  <2>2. CASE j = Len(c) + 1
    BY <1>2, <2>1, <2>2
  <2>3. CASE j \in 1..Len(c)
    BY <1>2, <2>1, <2>3 DEF InOrder
  <2> QED
    BY <2>4, <2>2, <2>3
<1>8. \A i \in RepliesIn(q), j \in 1..Len(d) : q[i].of < d[j]
  <2> SUFFICES ASSUME NEW i \in RepliesIn(q), NEW j \in 1..Len(d)
               PROVE  q[i].of < d[j]
    OBVIOUS
  <2>1. CASE j = Len(c) + 1
    BY <1>2, <1>4, <2>1
  <2>2. CASE j \in 1..Len(c)
    BY <1>2, <2>2 DEF InOrder
  <2> QED
    BY <1>2, <2>1, <2>2
<1>9. InOrder(q, d)
  BY <1>7, <1>8 DEF InOrder
<1> QED
  BY <1>6, <1>9 DEF d

\* Nothing is to come at first.
LEMMA OrderInit == Init => OrderInv
<1> SUFFICES ASSUME Init PROVE OrderInv
  OBVIOUS
<1>1. inbox = <<>> /\ commands = <<>> /\ shot = 0 /\ gaveUp = 0 /\ pc = "start"
  BY DEF Init
<1>2. RepliesIn(<<>>) = {} /\ 1..Len(<<>>) = {}
  BY EmptySeq DEF RepliesIn
<1>3. Pending = {} /\ InOrder(inbox, commands)
  BY <1>1, <1>2 DEF Pending, PendingIn, InOrder
<1> QED
  BY <1>1, <1>3 DEF OrderInv, Complete, Due

\* QEMU keeps the order, and takes nothing back but when it exits.
LEMMA QemuOrder == TypeInv /\ OrderInv /\ Qemu => OrderInv'
<1> SUFFICES ASSUME TypeInv, OrderInv, Qemu PROVE OrderInv'
  OBVIOUS
<1>t. /\ shot \in Nat /\ inbox \in Seq(Messages(shot)) /\ commands \in Seq(0..shot)
      /\ gaveUp \in Nat
  BY DEF TypeInv, PlacesOK, QueuesOK
<1>h. UNCHANGED <<pc, shot, gaveUp>>
  BY DEF Qemu, Draw, EmitEvent, ServeCapabilities, StartCapture, FinishCapture,
         FailCapture, Exit, harness
<1>p. ASSUME InOrder(inbox', commands'), Pending' = Pending, qemu' = qemu
      PROVE  OrderInv'
  BY <1>h, <1>p DEF OrderInv, Complete, Due, Over
<1> USE <1>t DEF OrderInv, Pending
<1>1. CASE Draw \/ StartCapture
  BY <1>1, <1>p DEF Draw, StartCapture
<1>2. CASE EmitEvent
  BY <1>2, <1>p, EventArrives DEF EmitEvent
<1>3. CASE ServeCapabilities
  BY <1>3, <1>p, CommandServed DEF ServeCapabilities
<1>4. CASE FinishCapture \/ FailCapture
  <2>1. PICK kind \in {"return", "error"} : Reply(kind)
    BY <1>4 DEF FinishCapture, FailCapture
  <2>2. commands # <<>> /\ qemu' = qemu
    BY <1>4 DEF FinishCapture, FailCapture, Capturing
  <2> QED
    BY <1>p, <2>1, <2>2, CommandServed DEF Reply
<1>5. CASE Exit
  <2>1. inbox' = inbox /\ commands' = <<>> /\ qemu' = "exited" /\ qemu = "running"
    BY <1>5 DEF Exit
  <2>2. /\ PendingIn(inbox, <<>>) \subseteq Pending
        /\ \A x \in PendingIn(inbox, <<>>), y \in Pending :
             y <= x => y \in PendingIn(inbox, <<>>)
        /\ InOrder(inbox, <<>>)
    BY CommandsLost
  <2>3. Due \in Int /\ Due' = Due
    BY <1>h DEF Due
  <2>4. ASSUME ~Over', NEW x \in Pending'
        PROVE  Due <= x /\ \A m \in Due..x : m \in Pending'
    <3>1. ~Over /\ x \in Pending
      BY <1>h, <2>1, <2>2, <2>4 DEF Over
    <3> QED
      BY <2>1, <2>2, <2>3, <2>4, <3>1 DEF Complete
  <2> QED
    BY <2>1, <2>2, <2>3, <2>4 DEF Complete
<1> QED
  BY <1>1, <1>2, <1>3, <1>4, <1>5 DEF Qemu

\* The reply that comes is for the command that is due.
LEMMA NextReplyIsDue ==
  ASSUME TypeInv, OrderInv, pc \in {"capabilities", "await"},
         inbox # <<>>, IsReply(Head(inbox))
  PROVE  Head(inbox).of = Due
<1>t. /\ shot \in Nat /\ inbox \in Seq(Messages(shot)) /\ commands \in Seq(0..shot)
      /\ gaveUp \in Nat
  BY DEF TypeInv, PlacesOK, QueuesOK
<1>1. /\ Head(inbox).of \in Pending
      /\ \A x \in Pending : x = Head(inbox).of \/ Head(inbox).of < x
  BY <1>t, MessageTaken DEF OrderInv, Pending
<1>2. Due <= Head(inbox).of /\ \A m \in Due..Head(inbox).of : m \in Pending
  BY <1>1 DEF OrderInv, Complete, Over
<1>3. Due \in Int /\ Head(inbox).of \in Int
  <2>1. Head(inbox) \in Messages(shot)
    BY <1>t, TakeFirst
  <2> QED
    BY <1>t, <2>1 DEF Due, Messages
<1>4. Due \in Pending
  BY <1>2, <1>3
<1> QED
  BY <1>1, <1>2, <1>3, <1>4

\* The harness sends the next command, reads the reply that is due, or gives up
\* on it without taking the command back.
LEMMA HarnessOrder == TypeInv /\ OrderInv /\ Harness => OrderInv'
<1> SUFFICES ASSUME TypeInv, OrderInv, Harness PROVE OrderInv'
  OBVIOUS
<1>t. /\ shot \in Nat /\ inbox \in Seq(Messages(shot)) /\ commands \in Seq(0..shot)
      /\ gaveUp \in Nat /\ InOrder(inbox, commands)
  BY DEF TypeInv, PlacesOK, QueuesOK, OrderInv
<1>e. RepliesIn(<<>>) = {} /\ 1..Len(<<>>) = {}
  BY EmptySeq DEF RepliesIn
<1>d. Due \in Int
  BY <1>t DEF Due
<1>p. ASSUME InOrder(inbox', commands'), Pending' = Pending, Due' = Due \/ Over',
             ~Over, qemu' = qemu \/ Over', shot' = shot
      PROVE  OrderInv'
  BY <1>p DEF OrderInv, Complete
<1>n. ASSUME InOrder(inbox', commands'), Pending' = {}, ~(Due' <= shot') PROVE OrderInv'
  BY <1>n DEF OrderInv, Complete
<1> USE <1>t DEF Goto, Leave, config
<1>1. CASE Preflight
  <2>1. UNCHANGED <<inbox, commands, shot, gaveUp>> /\ pc' \in {"connect", "done"}
    BY <1>1 DEF Preflight
  <2>2. shot = 0 /\ gaveUp = 0 /\ inbox = <<>> /\ commands = <<>>
    BY <1>1 DEF Preflight, TypeInv, SilentEarly, Early
  <2>3. Pending' = {} /\ Due' = 1 /\ InOrder(inbox', commands')
    BY <1>e, <2>1, <2>2 DEF Pending, PendingIn, Due, InOrder
  <2> QED
    BY <1>n, <2>1, <2>2, <2>3
<1>2. CASE Connect
  <2>1. /\ UNCHANGED <<commands, shot, gaveUp>> /\ pc' \in {"greeting", "done"}
        /\ inbox' \in {<<>>, <<Message("greeting", 0)>>}
        /\ shot = 0 /\ gaveUp = 0 /\ commands = <<>>
    BY <1>2 DEF Connect, TypeInv, SilentEarly, Early
  <2>2. RepliesIn(<<Message("greeting", 0)>>) = {}
    BY DEF RepliesIn, IsReply, Message
  <2>3. Pending' = {} /\ Due' = 1 /\ InOrder(inbox', commands')
    BY <1>e, <2>1, <2>2 DEF Pending, PendingIn, Due, InOrder
  <2> QED
    BY <1>n, <2>1, <2>3
<1>3. CASE Greeting
  <2>1. shot = 0 /\ gaveUp = 0 /\ commands = <<>> /\ Len(inbox) = 1
    BY <1>3 DEF Greeting, TypeInv, SilentEarly, Early
  <2>2. inbox' = <<>> /\ UNCHANGED <<shot, gaveUp>>
    <3>1. inbox # <<>>
      BY <2>1
    <3>2. Tail(inbox) \in Seq(Messages(shot)) /\ Len(Tail(inbox)) = 0
      BY <2>1, <3>1, TakeFirst
    <3> QED
      BY <1>3, <3>2, EmptySeq DEF Greeting
  <2>3. CASE pc' = "done" /\ commands' = commands
    BY <1>e, <2>1, <2>2, <2>3 DEF OrderInv, Complete, Over, InOrder
  <2>4. CASE pc' = "capabilities" /\ commands' = Append(commands, 0)
    <3>1. Len(commands') = 1 /\ commands'[1] = 0
      BY <2>1, <2>4, AppendProperties, EmptySeq
    <3>2. Pending' = {0} /\ InOrder(inbox', commands')
      BY <1>e, <2>2, <3>1 DEF Pending, PendingIn, InOrder
    <3>3. Due' = 0 /\ shot' = 0
      BY <2>1, <2>2, <2>4 DEF Due
    <3> QED
      BY <3>2, <3>3 DEF OrderInv, Complete
  <2> QED
    BY <1>3, <2>3, <2>4 DEF Greeting
<1>4. CASE Ask
  <2>1. CASE Over' /\ UNCHANGED <<inbox, commands>>
    BY <2>1 DEF OrderInv, Complete
  <2>2. CASE /\ shot' = shot + 1 /\ qemu = "running" /\ qemu' = qemu
             /\ pc' = "await" /\ commands' = Append(commands, shot + 1)
             /\ UNCHANGED <<inbox, gaveUp>>
    <3>1. Pending' = Pending \cup {shot + 1} /\ InOrder(inbox', commands')
      BY <2>2, CommandSent DEF Pending
    <3>2. ~Over /\ Due' = Due
      BY <1>4, <2>2 DEF Ask, Over, Due
    <3>3. ASSUME NEW x \in Pending' PROVE Due <= x /\ \A m \in Due..x : m \in Pending'
      <4>1. CASE x \in Pending
        BY <3>1, <3>2, <4>1 DEF OrderInv, Complete
      <4>2. CASE x = shot + 1
        <5>1. Due <= shot + 1
          <6>1. gaveUp >= 0
            OBVIOUS
          <6> QED
            BY <1>4, <6>1 DEF Ask, Due
        <5>2. ASSUME NEW m \in Due..(shot + 1), m # shot + 1 PROVE m \in Pending
          <6>1. m \in Due..shot /\ Due <= shot
            BY <1>d, <5>2
          <6> QED
            BY <2>2, <3>2, <6>1 DEF OrderInv, Complete
        <5> QED
          BY <3>1, <4>2, <5>1, <5>2
      <4> QED
        BY <3>1, <4>1, <4>2
    <3> QED
      BY <2>2, <3>1, <3>2, <3>3 DEF OrderInv, Complete
  <2> QED
    BY <1>4, <2>1, <2>2 DEF Ask, AtDeadline, Over
<1>5. CASE ReadFails
  <2>1. ~Over /\ UNCHANGED <<inbox, commands, shot>>
    BY <1>5 DEF ReadFails, Awaiting, Over, GiveUp
  <2>2. (qemu' = qemu /\ Due' = Due) \/ Over'
    BY <1>5 DEF ReadFails, Awaiting, GiveUp, Over, Due
  <2> QED
    BY <1>p, <2>1, <2>2 DEF Pending
<1>6. CASE SkipEvent
  <2>1. ~Over /\ UNCHANGED <<commands, shot>> /\ inbox # <<>> /\ inbox' = Tail(inbox)
    BY <1>6 DEF SkipEvent, Awaiting, Over, GiveUp
  <2>2. (qemu' = qemu /\ Due' = Due) \/ Over'
    BY <1>6 DEF SkipEvent, Awaiting, GiveUp, Over, Due
  <2>3. ~IsReply(Head(inbox))
    BY <1>6 DEF SkipEvent, IsReply
  <2> QED
    BY <1>p, <2>1, <2>2, <2>3, MessageTaken DEF Pending
<1>7. CASE TakeCapabilities \/ TakeAnswer
  <2>1. /\ ~Over /\ UNCHANGED <<commands, shot, gaveUp, qemu>>
        /\ inbox # <<>> /\ inbox' = Tail(inbox) /\ IsReply(Head(inbox))
        /\ pc \in {"capabilities", "await"} /\ pc' \in {"top", "ocr"}
    BY <1>7 DEF TakeCapabilities, TakeAnswer, Over, ReplyIs, IsReply
  <2>2. Head(inbox).of = Due /\ Due' = Due + 1
    BY <2>1, NextReplyIsDue DEF Due
  <2>3. /\ InOrder(inbox', commands')
        /\ \A x \in Pending : x = Due \/ Due < x
        /\ Pending' = Pending \ {Due}
    BY <2>1, <2>2, MessageTaken DEF Pending
  <2>4. Pending \subseteq Int
    <3>1. \A i \in RepliesIn(inbox) : inbox[i].of \in 0..shot
      BY RepliesTyped
    <3>2. \A i \in 1..Len(commands) : commands[i] \in 0..shot
      BY ElementOfSeq
    <3> QED
      BY <3>1, <3>2 DEF Pending, PendingIn
  <2>5. ASSUME NEW x \in Pending' PROVE Due + 1 <= x /\ \A m \in (Due + 1)..x : m \in Pending'
    <3>1. x \in Pending /\ x \in Int /\ Due < x
      BY <2>3, <2>4
    <3>2. \A m \in Due..x : m \in Pending
      BY <2>1, <3>1 DEF OrderInv, Complete
    <3> QED
      BY <1>d, <2>3, <3>1, <3>2
  <2>6. qemu' = "running" /\ Due + 1 <= shot => shot \in Pending'
    BY <1>d, <2>1, <2>3 DEF OrderInv, Complete
  <2> QED
    BY <2>1, <2>2, <2>3, <2>5, <2>6 DEF OrderInv, Complete
<1>8. CASE Judge
  <2>1. ~Over /\ UNCHANGED <<inbox, commands, shot, gaveUp>>
    BY <1>8 DEF Judge, Over
  <2>2. (qemu' = qemu /\ Due' = Due) \/ Over'
    BY <1>8 DEF Judge, Over, Due
  <2> QED
    BY <1>p, <2>1, <2>2 DEF Pending
<1> QED
  BY <1>1, <1>2, <1>3, <1>4, <1>5, <1>6, <1>7, <1>8 DEF Harness

\* Every step keeps the order.
LEMMA OrderStep == TypeInv /\ OrderInv /\ [Next]_vars => OrderInv'
<1>1. OrderInv /\ (Done \/ UNCHANGED vars) => OrderInv'
  BY DEF OrderInv, Complete, Pending, Due, Over, Done, vars, harness
<1> QED
  BY <1>1, QemuOrder, HarnessOrder DEF Next

(***************************************************************************)
(* The files.                                                              *)
(***************************************************************************)

CapturedWhole ==
  \A i \in RepliesIn(inbox) :
    inbox[i].kind = "return" /\ inbox[i].of # 0 =>
      files[inbox[i].of].by = "this" /\ files[inbox[i].of].whole

MarksOnceShown ==
  \A n \in Shots :
    /\ files[n].by = "this" => files[n].marks \subseteq shown
    /\ files[n].by = "earlier" => reused
    /\ files[n].by = "nobody" => files[n].marks = {}

FileInv == CapturedWhole /\ MarksOnceShown /\ ReplyLag /\ VerdictJustified

ProcessInv == QemuReaped /\ (pc # "done" => qemu # "reaped")
-----------------------------------------------------------------------------
(***************************************************************************)
(* Processes, files and verdicts.                                          *)
(***************************************************************************)

\* QEMU is killed where run returns, and nowhere else.
LEMMA ProcessStep == TypeInv /\ ProcessInv /\ [Next]_vars => ProcessInv'
<1> SUFFICES ASSUME TypeInv, ProcessInv, [Next]_vars PROVE ProcessInv'
  OBVIOUS
<1>t. /\ qemu \in {"none", "running", "exited", "reaped"} /\ keep \in BOOLEAN
      /\ (qemu = "none" => pc \in {"start", "done"})
      /\ (pc = "start" => qemu = "none")
  BY DEF TypeInv, PlacesOK, UnderWay
<1> USE <1>t DEF ProcessInv, QemuReaped, config, outside, Goto, Leave
<1>1. CASE Qemu
  BY <1>1 DEF Qemu, Draw, EmitEvent, ServeCapabilities, StartCapture,
              FinishCapture, FailCapture, Exit, Capturing, harness
<1>2. CASE Preflight \/ Connect \/ Greeting
  BY <1>2 DEF Preflight, Connect, Greeting
<1>3. CASE Ask
  BY <1>3 DEF Ask, AtDeadline
<1>4. CASE ReadFails \/ SkipEvent
  BY <1>4 DEF ReadFails, SkipEvent, Awaiting, GiveUp
<1>5. CASE TakeCapabilities \/ TakeAnswer
  BY <1>5 DEF TakeCapabilities, TakeAnswer
<1>6. CASE Judge
  BY <1>6 DEF Judge
<1>7. CASE Done \/ UNCHANGED vars
  BY <1>7 DEF Done, vars, harness
<1> QED
  BY <1>1, <1>2, <1>3, <1>4, <1>5, <1>6, <1>7 DEF Next, Harness

\* QEMU is dead and waited for whenever the harness has ended, with
\* --keep-running never touched.
THEOREM QemuAlwaysReaped == Spec => []QemuReaped
<1>1. Init => ProcessInv
  BY DEF Init, ProcessInv, QemuReaped
<1>2. ProcessInv => QemuReaped
  BY DEF ProcessInv
<1> QED
  BY TypeInit, TypeStep, <1>1, ProcessStep, <1>2, PTL DEF Spec

\* A reply that says the capture has been made is only sent when it has, and a
\* capture shows what has been on the screen.
LEMMA QemuFiles == TypeInv /\ OrderInv /\ FileInv /\ Qemu => FileInv'
<1> SUFFICES ASSUME TypeInv, OrderInv, FileInv, Qemu PROVE FileInv'
  OBVIOUS
<1>t. /\ shot \in Nat /\ inbox \in Seq(Messages(shot)) /\ commands \in Seq(0..shot)
      /\ FilesOK /\ screen \subseteq shown /\ shot \in 0..MaxShots
      /\ QueuesOK /\ PlacesOK
  BY DEF TypeInv, PlacesOK, QueuesOK
<1>c. CapturedWhole /\ MarksOnceShown /\ ReplyLag /\ VerdictJustified
  BY DEF FileInv
<1>h. /\ UNCHANGED <<pc, verdict, shot, gaveUp, answered, reused>>
      /\ shown \subseteq shown'
  BY DEF Qemu, Draw, EmitEvent, ServeCapabilities, StartCapture, FinishCapture,
         FailCapture, Exit, harness, config
<1>s. Capturing => Head(commands) \in Shots /\ Head(commands) # 0
  BY <1>t, QueueFacts DEF Capturing, Shots
<1>v. VerdictJustified'
  BY <1>c, <1>h DEF VerdictJustified
<1>o. pc = "ocr" => shot \in Shots
  BY <1>t DEF TypeInv, UnderWay, Shots
<1>1. CASE Draw \/ EmitEvent \/ ServeCapabilities \/ FailCapture \/ Exit
  <2>f. UNCHANGED files
    BY <1>1 DEF Draw, EmitEvent, ServeCapabilities, FailCapture, Exit
  <2>1. MarksOnceShown' /\ ReplyLag'
    BY <2>f, <1>c, <1>h DEF MarksOnceShown, ReplyLag
  <2>2. CapturedWhole'
    <3>1. CASE Draw \/ Exit
      BY <2>f, <1>c, <3>1 DEF Draw, Exit, CapturedWhole
    <3>2. CASE EmitEvent \/ ServeCapabilities \/ FailCapture
      <4>1. PICK m \in Messages(shot) :
              /\ inbox' = Append(inbox, m)
              /\ m.kind = "return" => m.of = 0
        <5>1. CASE EmitEvent
          <6>1. Event \in Messages(shot) /\ Event.kind # "return"
            BY <1>t DEF Event, Messages
          <6> QED
            BY <5>1, <6>1 DEF EmitEvent
        <5>2. CASE ServeCapabilities
          <6>1. Message("return", 0) \in Messages(shot) /\ Message("return", 0).of = 0
            BY <1>t DEF Message, Messages
          <6> QED
            BY <5>2, <6>1 DEF ServeCapabilities
        <5>3. CASE FailCapture
          <6>1. Message("error", Head(commands)) \in Messages(shot)
            BY <1>t, <5>3, QueueFacts DEF FailCapture, Capturing, Message, Messages
          <6> QED
            BY <5>3, <6>1 DEF FailCapture, Reply, Message
        <5> QED
          BY <3>2, <5>1, <5>2, <5>3
      <4>2. /\ Len(inbox) \in Nat /\ Len(inbox') = Len(inbox) + 1
            /\ \A i \in 1..Len(inbox) : inbox'[i] = inbox[i]
            /\ inbox'[Len(inbox) + 1] = m
        BY <1>t, <4>1, AppendProperties, LenProperties
      <4>3. \A i \in RepliesIn(inbox') :
              (i \in RepliesIn(inbox) /\ inbox'[i] = inbox[i]) \/ inbox'[i] = m
        BY <4>2 DEF RepliesIn
      <4> QED
        BY <2>f, <1>c, <4>1, <4>3 DEF CapturedWhole
    <3> QED
      BY <1>1, <3>1, <3>2
  <2> QED
    BY <1>v, <2>1, <2>2 DEF FileInv
<1>2. CASE StartCapture
  <2> DEFINE h == Head(commands)
  <2>1. /\ h \in Shots /\ files[h].by # "this" /\ UNCHANGED <<inbox, shown>>
        /\ files' = [files EXCEPT ![h] = File("this", screen, FALSE)]
    BY <1>2, <1>s DEF StartCapture
  <2>2. \A n \in Shots : files'[n] = IF n = h THEN File("this", screen, FALSE) ELSE files[n]
    BY <1>t, <2>1 DEF FilesOK
  <2> HIDE DEF h
  <2>3. CapturedWhole'
    <3> SUFFICES ASSUME NEW i \in RepliesIn(inbox), inbox[i].kind = "return",
                        inbox[i].of # 0
                 PROVE  files'[inbox[i].of].by = "this" /\ files'[inbox[i].of].whole
      BY <2>1 DEF CapturedWhole
    <3>1. inbox[i].of \in Shots
      BY <1>t, RepliesTyped DEF Shots
    <3>2. files[inbox[i].of].by = "this" /\ files[inbox[i].of].whole
      BY <1>c DEF CapturedWhole
    <3> QED
      BY <2>1, <2>2, <3>1, <3>2
  <2>4. MarksOnceShown'
    BY <1>c, <1>h, <1>t, <2>1, <2>2 DEF MarksOnceShown, File
  <2>5. ReplyLag'
    <3>1. pc = "ocr" /\ gaveUp = 0 => shot # h
      BY <1>c, <2>1 DEF ReplyLag
    <3>2. pc = "ocr" /\ gaveUp = 0 => files'[shot] = files[shot]
      BY <1>o, <2>2, <3>1
    <3> QED
      BY <1>c, <1>h, <3>2 DEF ReplyLag
  <2> QED
    BY <1>v, <2>3, <2>4, <2>5 DEF FileInv
<1>3. CASE FinishCapture
  <2> DEFINE h == Head(commands)
  <2>1. /\ h \in Shots /\ files[h].by = "this" /\ UNCHANGED shown
        /\ files' = [files EXCEPT ![h].whole = TRUE]
        /\ inbox' = Append(inbox, Message("return", h))
    BY <1>3, <1>s DEF FinishCapture, Reply
  <2>2. \A n \in Shots : /\ files'[n].by = files[n].by /\ files'[n].marks = files[n].marks
                         /\ files'[n].whole = (n = h \/ files[n].whole)
    BY <1>t, <2>1 DEF FilesOK
  <2>3. /\ Len(inbox) \in Nat /\ Len(inbox') = Len(inbox) + 1
        /\ \A i \in 1..Len(inbox) : inbox'[i] = inbox[i]
        /\ inbox'[Len(inbox) + 1] = Message("return", h)
    <3>1. Message("return", h) \in Messages(shot)
      BY <1>3, <1>t, QueueFacts DEF FinishCapture, Capturing, Message, Messages
    <3> QED
      BY <1>t, <2>1, <3>1, AppendProperties, LenProperties
  <2>4. \A i \in RepliesIn(inbox') :
          (i \in RepliesIn(inbox) /\ inbox'[i] = inbox[i]) \/ inbox'[i].of = h
    BY <2>3 DEF RepliesIn, Message
  <2> HIDE DEF h
  <2>5. CapturedWhole'
    <3> SUFFICES ASSUME NEW i \in RepliesIn(inbox'), inbox'[i].kind = "return",
                        inbox'[i].of # 0
                 PROVE  files'[inbox'[i].of].by = "this" /\ files'[inbox'[i].of].whole
      BY DEF CapturedWhole
    <3>1. CASE inbox'[i].of = h
      BY <2>1, <2>2, <3>1
    <3>2. CASE i \in RepliesIn(inbox) /\ inbox'[i] = inbox[i]
      <4>1. inbox[i].of \in Shots
        BY <1>t, <3>2, RepliesTyped DEF Shots
      <4>2. files[inbox[i].of].by = "this" /\ files[inbox[i].of].whole
        BY <1>c, <3>2 DEF CapturedWhole
      <4> QED
        BY <2>2, <3>2, <4>1, <4>2
    <3> QED
      BY <2>4, <3>1, <3>2
  <2>6. MarksOnceShown'
    BY <1>c, <1>h, <2>1, <2>2 DEF MarksOnceShown
  <2>7. ReplyLag'
    BY <1>c, <1>h, <1>o, <2>2 DEF ReplyLag
  <2> QED
    BY <1>v, <2>5, <2>6, <2>7 DEF FileInv
<1> QED
  BY <1>1, <1>2, <1>3 DEF Qemu, Draw, EmitEvent, ServeCapabilities, FailCapture, Exit

\* A verdict rests on the file read, and that is the one asked for as long as
\* no reply has been given up on.
LEMMA HarnessFiles == TypeInv /\ OrderInv /\ FileInv /\ Harness => FileInv'
<1> SUFFICES ASSUME TypeInv, OrderInv, FileInv, Harness PROVE FileInv'
  OBVIOUS
<1>t. /\ shot \in Nat /\ inbox \in Seq(Messages(shot)) /\ shot \in 0..MaxShots
      /\ gaveUp \in Nat
  BY DEF TypeInv, PlacesOK, QueuesOK
<1>c. CapturedWhole /\ MarksOnceShown /\ ReplyLag /\ VerdictJustified
  BY DEF FileInv
<1>m. MarksOnceShown'
  BY <1>c DEF Harness, Preflight, Connect, Greeting, Ask, ReadFails, SkipEvent,
              TakeCapabilities, TakeAnswer, Judge, Goto, Leave, GiveUp, AtDeadline,
              config, outside, MarksOnceShown
<1>f. UNCHANGED <<files, shown, reused>>
  BY DEF Harness, Preflight, Connect, Greeting, Ask, ReadFails, SkipEvent,
         TakeCapabilities, TakeAnswer, Judge, GiveUp, config, outside
<1>w. CapturedWhole'
  <2>1. CASE inbox # <<>> /\ inbox' = Tail(inbox)
    <3>1. /\ Len(inbox) \in Nat \ {0} /\ Len(inbox') = Len(inbox) - 1
          /\ \A i \in 1..(Len(inbox) - 1) : inbox'[i] = inbox[i + 1]
      BY <1>t, <2>1, TakeFirst
    <3>2. \A i \in RepliesIn(inbox') :
            i + 1 \in RepliesIn(inbox) /\ inbox'[i] = inbox[i + 1]
      BY <3>1 DEF RepliesIn
    <3> QED
      BY <1>c, <1>f, <3>2 DEF CapturedWhole
  <2>2. CASE RepliesIn(inbox') = {}
    BY <2>2 DEF CapturedWhole
  <2>3. CASE inbox' = inbox
    BY <1>c, <1>f, <2>3 DEF CapturedWhole
  <2>4. CASE Connect
    <3>1. RepliesIn(<<Message("greeting", 0)>>) = {}
      BY DEF RepliesIn, IsReply, Message
    <3> QED
      BY <2>2, <2>3, <2>4, <3>1 DEF Connect
  <2>5. CASE Greeting
    <3>1. Len(inbox) = 1
      BY <2>5 DEF Greeting, TypeInv, SilentEarly, Early
    <3>2. inbox # <<>>
      BY <3>1
    <3> QED
      BY <2>1, <2>5, <3>2 DEF Greeting
  <2> QED
    BY <2>1, <2>3, <2>4, <2>5
    DEF Harness, Preflight, Ask, ReadFails, SkipEvent, TakeCapabilities,
        TakeAnswer, Judge, ReplyIs
<1>1. CASE TakeAnswer
  <2>1. /\ pc = "await" /\ inbox # <<>> /\ IsReply(Head(inbox))
        /\ answered' = Head(inbox).of /\ UNCHANGED <<shot, gaveUp, verdict>>
        /\ pc' = "ocr" => Head(inbox).kind = "return"
    BY <1>1 DEF TakeAnswer, ReplyIs, IsReply, Goto
  <2>2. answered' = shot - gaveUp
    BY <2>1, NextReplyIsDue DEF Due
  <2>3. pc' = "ocr" /\ gaveUp = 0 => files[shot].by = "this" /\ files[shot].whole
    <3> SUFFICES ASSUME pc' = "ocr", gaveUp = 0
                 PROVE  files[shot].by = "this" /\ files[shot].whole
      OBVIOUS
    <3>1. Head(inbox) = inbox[1] /\ 1 \in RepliesIn(inbox)
      BY <1>t, <2>1, TakeFirst DEF RepliesIn
    <3>2. inbox[1].kind = "return" /\ inbox[1].of = shot /\ shot # 0
      BY <1>t, <2>1, <2>2, <3>1 DEF TypeInv, UnderWay
    <3> QED
      BY <1>c, <3>1, <3>2 DEF CapturedWhole
  <2>4. VerdictJustified'
    BY <1>c, <1>f, <2>1 DEF VerdictJustified
  <2> QED
    BY <1>f, <1>m, <1>w, <2>1, <2>2, <2>3, <2>4 DEF FileInv, ReplyLag
<1>2. CASE Judge
  <2>1. ReplyLag' /\ UNCHANGED gaveUp
    BY <1>2 DEF Judge, Goto, Leave, ReplyLag
  <2>2. PICK text \in SUBSET files[shot].marks :
          verdict' \in text \/ verdict' = verdict
    BY <1>2 DEF Judge, Goto, Leave
  <2>3. pc = "ocr" /\ shot \in Shots
    BY <1>2, <1>t DEF Judge, TypeInv, UnderWay, Shots
  <2>4. ASSUME verdict' \in text PROVE VerdictJustified'
    <3>1. files[shot].marks \subseteq shown \/ (gaveUp > 0 /\ reused)
      <4>1. files[shot].by \in {"nobody", "earlier", "this"}
        BY <2>3 DEF TypeInv, FilesOK
      <4>2. gaveUp = 0 => files[shot].by = "this"
        BY <1>c, <2>3 DEF ReplyLag
      <4> QED
        BY <1>c, <1>t, <2>3, <4>1, <4>2 DEF MarksOnceShown
    <3> QED
      BY <1>f, <2>1, <2>4, <3>1 DEF VerdictJustified
  <2>5. ASSUME verdict' = verdict PROVE VerdictJustified'
    BY <1>c, <1>f, <2>1, <2>5 DEF VerdictJustified
  <2>6. VerdictJustified'
    BY <2>2, <2>4, <2>5
  <2> QED
    BY <1>m, <1>w, <2>1, <2>6 DEF FileInv
<1>3. CASE ~TakeAnswer /\ ~Judge
  <2>1. /\ pc' # "ocr" /\ (verdict' = verdict \/ verdict' \in {"timeout", "error"})
        /\ (gaveUp' = gaveUp \/ gaveUp' = gaveUp + 1)
    BY <1>3 DEF Harness, Preflight, Connect, Greeting, Ask, ReadFails, SkipEvent,
                TakeCapabilities, Goto, Leave, GiveUp, AtDeadline, Awaiting, config
  <2>2. VerdictJustified'
    BY <1>c, <1>f, <1>t, <2>1 DEF VerdictJustified, Marks
  <2> QED
    BY <1>m, <1>w, <2>1, <2>2 DEF FileInv, ReplyLag
<1> QED
  BY <1>1, <1>2, <1>3

\* The work directory holds an earlier run's captures, or nothing.
LEMMA FileInit == Init => FileInv
<1> SUFFICES ASSUME Init PROVE FileInv
  OBVIOUS
<1>1. inbox = <<>> /\ pc = "start" /\ verdict = "none"
  BY DEF Init
<1>2. CapturedWhole
  BY <1>1, EmptySeq DEF CapturedWhole, RepliesIn
<1>3. MarksOnceShown
  BY DEF Init, MarksOnceShown, File, NoFile
<1> QED
  BY <1>1, <1>2, <1>3 DEF FileInv, ReplyLag, VerdictJustified, Marks

\* Every reachable state has the replies in order and the files as told.
LEMMA Answered == Spec => [](OrderInv /\ FileInv)
<1>1. TypeInv /\ OrderInv /\ FileInv /\ [Next]_vars => FileInv'
  <2>1. FileInv /\ (Done \/ UNCHANGED vars) => FileInv'
    BY DEF FileInv, CapturedWhole, MarksOnceShown, ReplyLag, VerdictJustified,
           Done, vars, harness, config
  <2> QED
    BY <2>1, QemuFiles, HarnessFiles DEF Next
<1> QED
  BY TypeInit, TypeStep, OrderInit, OrderStep, FileInit, <1>1, PTL DEF Spec

\* The reply taken is behind the capture by exactly the replies given up on, for
\* good; before the first of them the capture read is the one asked for.
THEOREM ReplyLagHolds == Spec => []ReplyLag
<1>1. FileInv => ReplyLag
  BY DEF FileInv
<1> QED
  BY Answered, <1>1, PTL

\* PASS and FAIL rest on what this machine has shown, but for a late reply in a
\* work directory used before.
THEOREM VerdictAlwaysJustified == Spec => []VerdictJustified
<1>1. FileInv => VerdictJustified
  BY DEF FileInv
<1> QED
  BY Answered, <1>1, PTL
=============================================================================
