-------------------------- MODULE PdoMappingProofs --------------------------
(* Theorems about SDO transfers and the PDO mapping made of them. *)
EXTENDS PdoMapping, TLAPS, SequenceTheorems, WellFoundedInduction

-----------------------------------------------------------------------------
(* Sums. *)

\* A nonempty set of natural numbers has a least one.
LEMMA LeastNat ==
  ASSUME NEW T, T \subseteq Nat, T # {}
  PROVE  \E m \in T : \A n \in T : m <= n
<1> DEFINE R == OpToRel(<, Nat)
<1>1. IsWellFoundedOn(R, Nat)
  BY NatLessThanWellFounded
<1>2. \A x, y \in Nat : x < y => <<x, y>> \in R
  BY DEF OpToRel
<1> HIDE DEF R
<1>3. \E x \in T : \A y \in T : ~ (<<y, x>> \in R)
  BY <1>1, WFMin
<1>4. \A x, y \in T : ~ (<<y, x>> \in R) => x <= y
  BY <1>2
<1> QED
  BY <1>3, <1>4

\* Induction, over a set: what holds at 0, and at n + 1 if at n, holds for all.
LEMMA SetInduction ==
  ASSUME NEW T, T \subseteq Nat, 0 \in T, \A n \in T : n + 1 \in T
  PROVE  T = Nat
<1> SUFFICES ASSUME T # Nat PROVE FALSE
  OBVIOUS
<1>1. PICK m \in Nat \ T : \A n \in Nat \ T : m <= n
  <2>1. Nat \ T \subseteq Nat /\ Nat \ T # {}
    OBVIOUS
  <2> QED BY <2>1, LeastNat
<1>2. m # 0 /\ m - 1 \in Nat
  BY <1>1
<1>3. m - 1 \in T
  BY <1>1, <1>2
<1>4. (m - 1) + 1 \in T
  BY <1>3
<1> QED BY <1>1, <1>4

(* The function of sums that Total takes its value of. *)
Sums(f, n, g) == g = [k \in 0 .. n |-> IF k = 0 THEN 0 ELSE g[k - 1] + f[k]]

\* The sums of a function of natural numbers exist, step by step.
LEMMA SumsExist ==
  ASSUME NEW f PROVE \A n \in Nat : \E g : Sums(f, n, g)
<1> DEFINE T == {n \in Nat : \E g : Sums(f, n, g)}
<1>1. 0 \in T
  <2> DEFINE g == [k \in 0 .. 0 |-> 0]
  <2>1. Sums(f, 0, g)
    BY DEF Sums
  <2> QED BY <2>1
<1>2. ASSUME NEW n \in T PROVE n + 1 \in T
  <2>1. PICK g : Sums(f, n, g)
    OBVIOUS
  <2> DEFINE h == [k \in 0 .. n + 1 |->
                     IF k <= n THEN g[k] ELSE g[n] + f[n + 1]]
  <2>2. \A k \in 0 .. n : g[k] = IF k = 0 THEN 0 ELSE g[k - 1] + f[k]
    BY <2>1 DEF Sums
  <2>3. \A k \in 0 .. n + 1 : h[k] = IF k = 0 THEN 0 ELSE h[k - 1] + f[k]
    <3> SUFFICES ASSUME NEW k \in 0 .. n + 1
                 PROVE h[k] = IF k = 0 THEN 0 ELSE h[k - 1] + f[k]
      OBVIOUS
    <3>1. CASE k <= n
      <4>1. k \in 0 .. n /\ h[k] = g[k] /\ (k # 0 => k - 1 \in 0 .. n + 1 /\ h[k - 1] = g[k - 1])
        BY <3>1
      <4> HIDE DEF h
      <4> QED BY <2>2, <4>1
    <3>2. CASE k = n + 1
      <4>1. h[k] = g[n] + f[n + 1] /\ h[n] = g[n] /\ k # 0 /\ k - 1 = n
        BY <3>2
      <4> HIDE DEF h
      <4> QED BY <3>2, <4>1
    <3> QED BY <3>1, <3>2
  <2>4. h = [k \in 0 .. n + 1 |-> h[k]]
    OBVIOUS
  <2> HIDE DEF h
  <2>5. Sums(f, n + 1, h)
    BY <2>3, <2>4 DEF Sums
  <2> QED BY <2>5
<1>3. T = Nat
  <2>1. T \subseteq Nat
    OBVIOUS
  <2> HIDE DEF T
  <2> QED BY <1>1, <1>2, <2>1, SetInduction
<1> QED BY <1>3

\* There is one such function.
LEMMA SumsAgree ==
  ASSUME NEW f, NEW m \in Nat, NEW n \in Nat, NEW g, NEW h,
         Sums(f, m, g), Sums(f, n, h)
  PROVE  \A k \in Nat : k <= m /\ k <= n => g[k] = h[k]
<1> DEFINE T == {k \in Nat : k <= m /\ k <= n => g[k] = h[k]}
<1>1. \A k \in 0 .. m : g[k] = IF k = 0 THEN 0 ELSE g[k - 1] + f[k]
  BY DEF Sums
<1>2. \A k \in 0 .. n : h[k] = IF k = 0 THEN 0 ELSE h[k - 1] + f[k]
  BY DEF Sums
<1>3. 0 \in T
  BY <1>1, <1>2
<1>4. ASSUME NEW k \in T PROVE k + 1 \in T
  BY <1>1, <1>2
<1>5. T \subseteq Nat
  OBVIOUS
<1>6. T = Nat
  <2> HIDE DEF T
  <2> QED BY <1>3, <1>4, <1>5, SetInduction
<1> QED BY <1>6

\* What Total is: nothing of nothing, and one more term at a time.
LEMMA TotalStep ==
  ASSUME NEW f, NEW n \in Nat
  PROVE  /\ Total(f, 0) = 0
         /\ Total(f, n + 1) = Total(f, n) + f[n + 1]
<1> DEFINE s(m) == CHOOSE g : Sums(f, m, g)
<1>1. \A m \in Nat : Sums(f, m, s(m))
  BY SumsExist
<1>2. \A m \in Nat : Total(f, m) = s(m)[m]
  BY DEF Total, Sums
<1> HIDE DEF s
<1>3. s(0)[0] = 0
  BY <1>1 DEF Sums
<1>4. s(n + 1)[n + 1] = s(n + 1)[n] + f[n + 1]
  <2>1. Sums(f, n + 1, s(n + 1))
    BY <1>1
  <2>2. n + 1 \in 0 .. n + 1 /\ n + 1 # 0 /\ (n + 1) - 1 = n
    OBVIOUS
  <2>3. \A k \in 0 .. n + 1 : s(n + 1)[k] = IF k = 0 THEN 0 ELSE s(n + 1)[k - 1] + f[k]
    BY <2>1 DEF Sums
  <2> QED BY <2>2, <2>3
<1>5. s(n + 1)[n] = s(n)[n]
  BY <1>1, SumsAgree
<1> QED BY <1>2, <1>3, <1>4, <1>5

\* A sum of natural numbers is one.
LEMMA TotalNat ==
  ASSUME NEW n \in Nat, NEW f, \A k \in 1 .. n : f[k] \in Nat
  PROVE  Total(f, n) \in Nat
<1> DEFINE T == {k \in Nat : k <= n => Total(f, k) \in Nat}
<1>1. 0 \in T
  BY TotalStep
<1>2. ASSUME NEW k \in T PROVE k + 1 \in T
  <2>1. k \in Nat /\ Total(f, k + 1) = Total(f, k) + f[k + 1]
    BY TotalStep
  <2>2. k + 1 <= n => Total(f, k) \in Nat /\ f[k + 1] \in Nat
    BY <2>1
  <2> QED
    BY <2>1, <2>2
<1>3. T \subseteq Nat
  OBVIOUS
<1>4. T = Nat
  <2> HIDE DEF T
  <2> QED
    BY <1>1, <1>2, <1>3, SetInduction
<1> QED
  BY <1>4

-----------------------------------------------------------------------------
(* What a mailbox takes of a value. *)

Values == Seq(Nat)

\* First takes at most a mailbox full, Rest what is left, and nothing is lost.
LEMMA FirstAndRest ==
  ASSUME NEW s \in Values
  PROVE  /\ First(s) \in Values /\ Rest(s) \in Values
         /\ First(s) \o Rest(s) = s
         /\ s # <<>> => First(s) # <<>>
         /\ Len(s) <= Chunk => First(s) = s /\ Rest(s) = <<>>
         /\ Len(Rest(s)) <= Len(s)
<1> DEFINE n == IF Len(s) < Chunk THEN Len(s) ELSE Chunk
<1>0. Chunk \in Nat \ {0}
  BY MailboxAssumption
<1>1. Len(s) \in Nat /\ n \in 0 .. Len(s)
  BY <1>0 DEF Values
<1>2. /\ First(s) \in Values /\ Len(First(s)) = n
      /\ \A i \in 1 .. n : First(s)[i] = s[i]
  BY <1>1 DEF First, Values
<1>3. /\ Rest(s) \in Values
      /\ Len(Rest(s)) = IF Chunk <= Len(s) THEN Len(s) - Chunk ELSE 0
      /\ \A i \in 1 .. Len(Rest(s)) : Rest(s)[i] = s[Chunk + i]
  BY <1>0, <1>1 DEF Rest, Values
<1>a. n = IF Len(s) < Chunk THEN Len(s) ELSE Chunk
  OBVIOUS
<1> HIDE DEF n
<1>b. Len(First(s)) + Len(Rest(s)) = Len(s)
  <2>1. Len(First(s)) = n
    BY <1>2
  <2>2. Len(Rest(s)) = IF Chunk <= Len(s) THEN Len(s) - Chunk ELSE 0
    BY <1>3
  <2>3. Chunk <= Len(s) \/ Len(s) < Chunk
    BY <1>0, <1>1
  <2>4. CASE Chunk <= Len(s)
    <3>1. n = Chunk /\ Len(Rest(s)) = Len(s) - Chunk
      BY <1>0, <1>1, <1>a, <2>2, <2>4
    <3> QED
      BY <1>0, <1>1, <2>1, <3>1
  <2>5. CASE Len(s) < Chunk
    <3>1. n = Len(s) /\ Len(Rest(s)) = 0
      BY <1>0, <1>1, <1>a, <2>2, <2>5
    <3> QED
      BY <1>1, <2>1, <3>1
  <2> QED
    BY <2>3, <2>4, <2>5
<1>4. First(s) \o Rest(s) = s
  <2>1. First(s) \o Rest(s) \in Seq(Nat)
    BY <1>2, <1>3 DEF Values
  <2>2. Len(First(s) \o Rest(s)) = Len(s)
    BY <1>b, <1>2, <1>3, ConcatProperties DEF Values
  <2>3. ASSUME NEW i \in 1 .. Len(s) PROVE (First(s) \o Rest(s))[i] = s[i]
    <3>1. (First(s) \o Rest(s))[i] = IF i <= n THEN First(s)[i] ELSE Rest(s)[i - n]
      <4>1. i \in 1 .. Len(First(s)) + Len(Rest(s))
        BY <1>b
      <4>2. First(s) \in Seq(Nat) /\ Rest(s) \in Seq(Nat) /\ Len(First(s)) = n
        BY <1>2, <1>3 DEF Values
      <4> QED
        BY <4>1, <4>2, ConcatProperties
    <3>2. CASE i <= n
      BY <3>1, <3>2, <1>1, <1>2
    <3>3. CASE i > n
      <4>1. n = Chunk /\ i - n \in 1 .. Len(Rest(s)) /\ Chunk + (i - n) = i
        BY <3>3, <1>0, <1>1, <1>3, <1>a
      <4> QED
        BY <3>1, <3>3, <4>1, <1>1, <1>3
    <3>4. i <= n \/ i > n
      BY <1>1
    <3> QED
      BY <3>2, <3>3, <3>4
  <2> QED
    BY <2>1, <2>2, <2>3, SeqEqual DEF Values
<1>5. s # <<>> => First(s) # <<>>
  BY <1>0, <1>1, <1>2, <1>a DEF Values
<1>6. Len(s) <= Chunk => First(s) = s /\ Rest(s) = <<>>
  <2>1. ASSUME Len(s) <= Chunk PROVE First(s) = s
    BY <2>1, <1>0, <1>1, <1>2, <1>a, SeqEqual DEF Values
  <2>2. ASSUME Len(s) <= Chunk PROVE Rest(s) = <<>>
    BY <2>2, <1>0, <1>1, <1>3, EmptySeq DEF Values
  <2> QED
    BY <2>1, <2>2
<1> QED
  BY <1>0, <1>1, <1>2, <1>3, <1>4, <1>5, <1>6

\* What an object of the dictionary is.
LEMMA ObjectType ==
  ASSUME NEW index \in Indices
  PROVE  /\ index \in Nat /\ index >= 4096
         /\ Od[index] \in Seq(Nat)
         /\ Len(Od[index]) \in Nat /\ Len(Od[index]) < 256
         /\ EntryBytes[index] \in Nat \ {0}
<1>1. /\ index \in Nat /\ index >= 4096 /\ Od[index] \in Seq(Nat)
      /\ Len(Od[index]) < 256 /\ EntryBytes[index] \in Nat \ {0}
  BY DictionaryAssumption
<1>2. Len(Od[index]) \in Nat
  BY <1>1
<1> QED
  BY <1>1, <1>2

\* What a read of the slave's memory gives is a nonempty sequence of numbers.
LEMMA ValueType ==
  ASSUME NEW index, NEW sub, Exists(index, sub)
  PROVE  /\ Value(index, sub) \in Values /\ Value(index, sub) # <<>>
         /\ index \in Int /\ sub \in Int
         /\ sub # ALL => Len(Value(index, sub)) = 1
         /\ First(Value(index, sub)) \in Values
         /\ Rest(Value(index, sub)) \in Values
<1>1. index \in Int /\ sub \in Int
  <2>1. index \in Indices /\ Len(Od[index]) \in Nat
    BY DictionaryAssumption DEF Exists
  <2>2. sub = -1 \/ sub \in 0 .. Len(Od[index])
    BY DEF Exists, ALL
  <2> QED
    BY <2>1, <2>2, DictionaryAssumption
<1>2. Od[index] \in Values /\ Len(Od[index]) \in Nat
  BY DictionaryAssumption DEF Exists, Values
<1>3. CASE sub = ALL
  <2>1. <<Len(Od[index])>> \in Values /\ Len(<<Len(Od[index])>>) = 1
    BY <1>2 DEF Values
  <2>2. Value(index, sub) = <<Len(Od[index])>> \o Od[index]
    BY <1>3 DEF Value, ALL
  <2>3. Value(index, sub) \in Values /\ Len(Value(index, sub)) > 0
    BY <1>2, <2>1, <2>2, ConcatProperties DEF Values
  <2> QED
    BY <1>1, <1>3, <2>3, FirstAndRest DEF Values
<1>4. CASE sub = 0
  <2>1. Value(index, sub) = <<Len(Od[index])>>
    BY <1>4 DEF Value, ALL
  <2>2. Value(index, sub) \in Values /\ Len(Value(index, sub)) = 1
    BY <1>2, <2>1 DEF Values
  <2>3. Value(index, sub) # <<>>
    BY <2>2, EmptySeq
  <2>4. First(Value(index, sub)) \in Values /\ Rest(Value(index, sub)) \in Values
    BY <2>2, FirstAndRest
  <2> QED
    BY <2>3, <2>4, <1>1, <2>2
<1>5. CASE sub # ALL /\ sub # 0
  <2>1. Value(index, sub) = <<Od[index][sub]>> /\ sub \in 1 .. Len(Od[index])
    BY <1>1, <1>5 DEF Value, Exists
  <2>2. Value(index, sub) \in Values /\ Len(Value(index, sub)) = 1
    BY <1>2, <2>1 DEF Values
  <2>3. Value(index, sub) # <<>>
    BY <2>2, EmptySeq
  <2>4. First(Value(index, sub)) \in Values /\ Rest(Value(index, sub)) \in Values
    BY <2>2, FirstAndRest
  <2> QED
    BY <2>3, <2>4, <1>1, <2>2
<1> QED
  BY <1>3, <1>4, <1>5

-----------------------------------------------------------------------------
(* Types of the mailboxes. *)

Kinds == {"none", "up", "down", "segup", "segdown", "seg", "emcy", "abort"}
Message == [kind : Kinds, index : Int, sub : Int, data : Values,
            last : BOOLEAN, toggle : BOOLEAN]
Transfer == [pc : {"idle", "drain", "send", "wait", "read", "ack"},
             op : {"read", "write"}, index : Int, sub : Int, room : Int,
             segment : BOOLEAN, toggle : BOOLEAN, left : Values, got : Values,
             ok : BOOLEAN, want : BOOLEAN]
Server == [todo : Message, last : Message, op : {"read", "write"}, index : Int,
           data : Values, toggle : BOOLEAN]

MailboxTyped ==
  /\ env \in Environments
  /\ sdo \in Transfer
  /\ inMbx \in Message /\ outMbx \in Message
  /\ repeatReq \in BOOLEAN /\ repeatAck \in BOOLEAN
  /\ slave \in Server
  /\ stored \in [Indices -> Values]
  /\ losses \in 0 .. env.losses /\ emergencies \in 0 .. env.emergencies

\* The messages that are made, and the empty ones, are of their type.
LEMMA MessageType ==
  ASSUME NEW kind \in Kinds, NEW index \in Int, NEW sub \in Int,
         NEW data \in Values, NEW last \in BOOLEAN, NEW toggle \in BOOLEAN
  PROVE  Msg(kind, index, sub, data, last, toggle) \in Message
BY DEF Msg, Message

\* What is there before the first transfer is of its type.
LEMMA IdleType ==
  /\ <<>> \in Values /\ NoMsg \in Message
  /\ SdoIdle \in Transfer /\ SlaveIdle \in Server
<1>1. <<>> \in Values
  BY EmptySeq DEF Values
<1>2. NoMsg \in Message
  BY <1>1 DEF NoMsg, Msg, Message, Kinds
<1> QED
  BY <1>1, <1>2 DEF SdoIdle, SlaveIdle, Transfer, Server

\* The request of a transfer, and the transfer once it was handed over.
LEMMA RequestType ==
  ASSUME sdo \in Transfer
  PROVE  Request \in Message /\ Sent \in Transfer
<1>1. First(sdo.left) \in Values /\ Rest(sdo.left) \in Values
  BY FirstAndRest DEF Transfer
<1>2. Request \in Message
  <2>1. /\ sdo.index \in Int /\ sdo.sub \in Int /\ sdo.toggle \in BOOLEAN
        /\ (Rest(sdo.left) = <<>>) \in BOOLEAN
        /\ {"up", "segup", "down", "segdown"} \subseteq Kinds
    BY DEF Transfer, Kinds
  <2>2. /\ Msg("up", sdo.index, sdo.sub, <<>>, TRUE, FALSE) \in Message
        /\ Msg("segup", sdo.index, sdo.sub, <<>>, TRUE, sdo.toggle) \in Message
        /\ Msg("down", sdo.index, sdo.sub, Data, Rest(sdo.left) = <<>>, FALSE)
             \in Message
        /\ Msg("segdown", 0, 0, Data, Rest(sdo.left) = <<>>, sdo.toggle)
             \in Message
    BY <1>1, <2>1, IdleType DEF Data, Msg, Message
  <2> QED
    BY <2>2 DEF Request
<1>3. Sent \in Transfer
  BY <1>1 DEF Sent, Transfer
<1> QED
  BY <1>2, <1>3

\* Whatever ends or continues a transfer keeps its type.
LEMMA ContinueType ==
  ASSUME NEW s \in Transfer
  PROVE  /\ Finish(s, TRUE) \in Transfer /\ Finish(s, FALSE) \in Transfer
         /\ NextSegment(s) \in Transfer
         /\ NoAnswer(s) \in Transfer
BY DEF Finish, NextSegment, NoAnswer, Transfer

\* So is what a transfer makes of an answer.
LEMMA ReceivedType ==
  ASSUME sdo \in Transfer, NEW m \in Message
  PROVE  Received(m) \in Transfer
<1> DEFINE s == [sdo EXCEPT !.got = m.data]
           t == [sdo EXCEPT !.got = @ \o m.data]
<1>1. m.data \in Values /\ sdo.got \o m.data \in Values
  BY ConcatProperties DEF Message, Transfer, Values
<1>2. s \in Transfer /\ t \in Transfer
  BY <1>1 DEF Transfer
<1>3. \/ \E r \in {sdo, s, t} : \/ Received(m) = Finish(r, TRUE)
                                \/ Received(m) = Finish(r, FALSE)
                                \/ Received(m) = NextSegment(r)
  BY DEF Received
<1> HIDE DEF s, t
<1> QED
  BY <1>2, <1>3, ContinueType

\* A toggled repeat bit is a bit, whether the toggling got lost or not.
LEMMA RequestRepeatType ==
  ASSUME MailboxTyped, NEW emptied \in BOOLEAN, NEW lost \in {0, 1},
         lost = 0 \/ losses < env.losses, RequestRepeat(emptied, lost)
  PROVE  /\ outMbx' \in Message /\ repeatReq' \in BOOLEAN
         /\ losses' \in 0 .. env.losses
<1>1. env.losses \in Nat
  BY MailboxAssumption DEF MailboxTyped
<1>2. outMbx' \in Message
  BY IdleType DEF RequestRepeat, MailboxTyped
<1>3. repeatReq' \in BOOLEAN
  BY DEF RequestRepeat, MailboxTyped
<1>4. \/ losses' = losses + lost
      \/ losses + lost < env.losses /\ losses' = losses + lost + 1
  BY DEF RequestRepeat
<1>5. losses' \in 0 .. env.losses
  BY <1>1, <1>4 DEF MailboxTyped
<1> QED
  BY <1>2, <1>3, <1>5

\* So are the message in the mailbox, and the slave, once it has answered.
LEMMA AnswerType ==
  ASSUME NEW msg \in Message, NEW s \in Server, Answer(msg, s)
  PROVE  /\ outMbx' = msg /\ slave' \in Server
         /\ slave'.todo = NoMsg /\ slave'.last = msg
         /\ slave'.op = s.op /\ slave'.index = s.index
         /\ slave'.data = s.data /\ slave'.toggle = s.toggle
BY IdleType DEF Answer, Server

(* The slave after each of its answers to request req.                     *)
Uploaded(req) ==
  LET value == Value(req.index, req.sub) IN
  /\ req.kind = "up" /\ Exists(req.index, req.sub)
  /\ outMbx' = Msg("up", req.index, req.sub, First(value), Rest(value) = <<>>,
                   FALSE)
  /\ slave'.op = "read" /\ slave'.data = Rest(value) /\ slave'.toggle = FALSE
  /\ stored' = stored

SegmentUploaded(req) ==
  /\ InTransfer(req, "segup", "read")
  /\ outMbx' = Msg("seg", 0, 0, First(slave.data), Rest(slave.data) = <<>>,
                   req.toggle)
  /\ slave'.op = "read" /\ slave'.data = Rest(slave.data)
  /\ slave'.toggle = ~slave.toggle
  /\ stored' = stored

Downloaded(req) ==
  /\ req.kind = "down" /\ req.index \in Indices
  /\ outMbx' = Msg("down", req.index, req.sub, <<>>, TRUE, FALSE)
  /\ slave'.op = "write" /\ slave'.index = req.index /\ slave'.toggle = FALSE
  /\ slave'.data = IF req.last THEN <<>> ELSE req.data
  /\ stored' = IF req.last THEN [stored EXCEPT ![req.index] = req.data]
                           ELSE stored

SegmentDownloaded(req) ==
  LET data == slave.data \o req.data IN
  /\ InTransfer(req, "segdown", "write")
  /\ outMbx' = Msg("segdown", 0, 0, <<>>, TRUE, req.toggle)
  /\ slave'.op = "write" /\ slave'.index = slave.index
  /\ slave'.toggle = ~slave.toggle
  /\ slave'.data = IF req.last THEN <<>> ELSE data
  /\ stored' = IF req.last THEN [stored EXCEPT ![slave.index] = data]
                           ELSE stored

Aborted(req) ==
  /\ ~\/ req.kind = "up" /\ Exists(req.index, req.sub)
      \/ req.kind = "down" /\ req.index \in Indices
      \/ InTransfer(req, "segup", "read")
      \/ InTransfer(req, "segdown", "write")
  /\ outMbx' = Msg("abort", 0, 0, <<>>, TRUE, FALSE)
  /\ slave'.data = <<>> /\ stored' = stored

\* An answer is one of these five, and is kept for a repeat.
LEMMA AnswerCases ==
  ASSUME MailboxTyped, SlaveAnswer
  PROVE  /\ outMbx = NoMsg /\ slave.todo # NoMsg
         /\ slave'.todo = NoMsg /\ slave'.last = outMbx'
         /\ outMbx' \in Message /\ slave' \in Server
         /\ stored' \in [Indices -> Values]
         /\ \/ Uploaded(slave.todo) \/ SegmentUploaded(slave.todo)
            \/ Downloaded(slave.todo) \/ SegmentDownloaded(slave.todo)
            \/ Aborted(slave.todo)
<1> DEFINE req == slave.todo
           Goal == /\ slave'.todo = NoMsg /\ slave'.last = outMbx'
                   /\ outMbx' \in Message /\ slave' \in Server
                   /\ stored' \in [Indices -> Values]
<1>0. /\ req \in Message /\ slave.data \in Values
      /\ First(slave.data) \in Values /\ Rest(slave.data) \in Values
      /\ req.index \in Int /\ req.sub \in Int /\ req.data \in Values
      /\ req.toggle \in BOOLEAN /\ stored \in [Indices -> Values]
      /\ slave.data \o req.data \in Values
  <2>1. /\ req \in Message /\ slave.data \in Values
        /\ req.index \in Int /\ req.sub \in Int /\ req.data \in Values
        /\ req.toggle \in BOOLEAN /\ stored \in [Indices -> Values]
    BY DEF MailboxTyped, Server, Message
  <2> QED
    BY <2>1, FirstAndRest, ConcatProperties DEF Values
<1> HIDE DEF req
<1>1. ASSUME AnswerUpload(req) PROVE Goal /\ Uploaded(req)
  <2> DEFINE value == Value(req.index, req.sub)
             msg == Msg("up", req.index, req.sub, First(value),
                        Rest(value) = <<>>, FALSE)
             s == [slave EXCEPT !.op = "read", !.data = Rest(value),
                                !.toggle = FALSE]
  <2>1. First(value) \in Values /\ Rest(value) \in Values
    BY <1>1, ValueType DEF AnswerUpload
  <2>2. msg \in Message
    BY <1>0, <2>1 DEF Msg, Message, Kinds
  <2>3. s \in Server /\ s.op = "read" /\ s.data = Rest(value) /\ s.toggle = FALSE
    BY <2>1 DEF MailboxTyped, Server
  <2>4. Answer(msg, s) /\ stored' = stored
        /\ req.kind = "up" /\ Exists(req.index, req.sub)
    BY <1>1 DEF AnswerUpload
  <2> HIDE DEF s
  <2> QED
    BY <1>0, <2>2, <2>3, <2>4, AnswerType DEF Uploaded
<1>2. ASSUME AnswerSegment(req) PROVE Goal /\ SegmentUploaded(req)
  <2> DEFINE msg == Msg("seg", 0, 0, First(slave.data), Rest(slave.data) = <<>>,
                        req.toggle)
             s == [slave EXCEPT !.data = Rest(@), !.toggle = ~@]
  <2>1. msg \in Message
    BY <1>0 DEF Msg, Message, Kinds
  <2>2. /\ s \in Server /\ s.op = slave.op /\ s.data = Rest(slave.data)
        /\ s.toggle = ~slave.toggle
    BY <1>0 DEF MailboxTyped, Server
  <2>3. Answer(msg, s) /\ stored' = stored /\ InTransfer(req, "segup", "read")
    BY <1>2 DEF AnswerSegment
  <2> HIDE DEF s
  <2> QED
    BY <1>0, <2>1, <2>2, <2>3, AnswerType DEF SegmentUploaded, InTransfer
<1>3. ASSUME AnswerDownload(req) PROVE Goal /\ Downloaded(req)
  <2> DEFINE msg == Msg("down", req.index, req.sub, <<>>, TRUE, FALSE)
             data == IF req.last THEN <<>> ELSE req.data
             s == [slave EXCEPT !.op = "write", !.index = req.index,
                                !.data = data, !.toggle = FALSE]
  <2>1. msg \in Message
    BY <1>0, IdleType DEF Msg, Message, Kinds
  <2>2. data \in Values
    BY <1>0, IdleType
  <2>3. /\ Answer(msg, s) /\ req.kind = "down" /\ req.index \in Indices
        /\ stored' = IF req.last THEN [stored EXCEPT ![req.index] = req.data]
                                 ELSE stored
    BY <1>3 DEF AnswerDownload
  <2>4. /\ s \in Server /\ s.op = "write" /\ s.index = req.index
        /\ s.data = data /\ s.toggle = FALSE
    <3> HIDE DEF data
    <3> QED
      BY <1>0, <2>2 DEF MailboxTyped, Server
  <2>5. stored' \in [Indices -> Values]
    BY <1>0, <2>3
  <2> HIDE DEF s
  <2> QED
    BY <2>1, <2>3, <2>4, <2>5, AnswerType DEF Downloaded
<1>4. ASSUME AnswerDownSegment(req) PROVE Goal /\ SegmentDownloaded(req)
  <2> DEFINE msg == Msg("segdown", 0, 0, <<>>, TRUE, req.toggle)
             all == slave.data \o req.data
             data == IF req.last THEN <<>> ELSE all
             s == [slave EXCEPT !.data = data, !.toggle = ~@]
  <2>1. msg \in Message
    BY <1>0, IdleType DEF Msg, Message, Kinds
  <2>2. all \in Values /\ data \in Values
    BY <1>0, IdleType
  <2>3. /\ Answer(msg, s) /\ InTransfer(req, "segdown", "write")
        /\ stored' = IF req.last THEN [stored EXCEPT ![slave.index] = all]
                                 ELSE stored
    BY <1>4 DEF AnswerDownSegment
  <2>4. /\ s \in Server /\ s.op = slave.op /\ s.index = slave.index
        /\ s.data = data /\ s.toggle = ~slave.toggle
    <3> HIDE DEF data
    <3> QED
      BY <1>0, <2>2 DEF MailboxTyped, Server
  <2>5. stored' \in [Indices -> Values]
    <3> HIDE DEF all
    <3> QED
      BY <1>0, <2>2, <2>3
  <2> HIDE DEF s
  <2> QED
    BY <2>1, <2>3, <2>4, <2>5, AnswerType DEF SegmentDownloaded, InTransfer
<1>5. ASSUME AnswerAbort(req) PROVE Goal /\ Aborted(req)
  <2> DEFINE msg == Msg("abort", 0, 0, <<>>, TRUE, FALSE)
             s == [slave EXCEPT !.data = <<>>]
  <2>1. msg \in Message
    BY IdleType DEF Msg, Message, Kinds
  <2>2. s \in Server /\ s.data = <<>>
    BY IdleType DEF MailboxTyped, Server
  <2>3. Answer(msg, s) /\ stored' = stored
    BY <1>5 DEF AnswerAbort
  <2> HIDE DEF s
  <2> QED
    BY <1>0, <1>5, <2>1, <2>2, <2>3, AnswerType DEF Aborted, AnswerAbort
<1>6. outMbx = NoMsg /\ req # NoMsg
      /\ \/ AnswerUpload(req) \/ AnswerSegment(req) \/ AnswerDownload(req)
         \/ AnswerDownSegment(req) \/ AnswerAbort(req)
  BY DEF SlaveAnswer, req
<1> QED
  BY <1>1, <1>2, <1>3, <1>4, <1>5, <1>6 DEF req

\* Every step of the mailboxes keeps the types.
LEMMA MailboxStepType ==
  ASSUME MailboxTyped, MNext
  PROVE  MailboxTyped'
<1>0. /\ env.losses \in Nat /\ env.emergencies \in Nat
  BY MailboxAssumption DEF MailboxTyped
<1>1. CASE Drain
  <2>1. sdo' \in Transfer
    BY <1>1 DEF Drain, MailboxTyped, Transfer
  <2>2. outMbx' \in Message /\ repeatReq' \in BOOLEAN /\ losses' \in 0 .. env.losses
    BY <1>1, RequestRepeatType, IdleType DEF Drain, MayLose, MailboxTyped
  <2> QED
    BY <1>1, <2>1, <2>2 DEF Drain, MailboxTyped
<1>2. CASE MbxSend
  <2>1. [Sent EXCEPT !.pc = "wait"] \in Transfer /\ NoAnswer(Sent) \in Transfer
    BY RequestType, ContinueType DEF MailboxTyped, Transfer
  <2>2. sdo' \in Transfer /\ inMbx' \in Message
    BY <1>2, <2>1, RequestType, IdleType DEF MbxSend, MailboxTyped
  <2>3. losses' \in 0 .. env.losses
    BY <1>0, <1>2 DEF MbxSend, MayLose, MailboxTyped
  <2> QED
    BY <1>2, <2>2, <2>3 DEF MbxSend, MailboxTyped
<1>3. CASE SendTimeout
  <2>1. sdo' \in Transfer
    BY <1>3, RequestType, ContinueType DEF SendTimeout, MailboxTyped
  <2> QED
    BY <1>3, <2>1 DEF SendTimeout, MailboxTyped
<1>4. CASE MbxAvailable
  <2>1. sdo' \in Transfer
    BY <1>4 DEF MbxAvailable, MailboxTyped, Transfer
  <2> QED
    BY <1>4, <2>1 DEF MbxAvailable, MailboxTyped
<1>5. CASE MbxReceive
  <2>1. sdo' \in Transfer /\ outMbx' \in Message
    BY <1>5, ReceivedType, IdleType DEF MbxReceive, MailboxTyped
  <2> QED
    BY <1>5, <2>1 DEF MbxReceive, MailboxTyped
<1>6. CASE MbxReadLost
  <2>1. sdo' \in Transfer
    BY <1>6 DEF MbxReadLost, MailboxTyped, Transfer
  <2>2. outMbx' \in Message /\ repeatReq' \in BOOLEAN /\ losses' \in 0 .. env.losses
    BY <1>6, RequestRepeatType DEF MbxReadLost, MayLose
  <2> QED
    BY <1>6, <2>1, <2>2 DEF MbxReadLost, MailboxTyped
<1>7. CASE ReceiveTimeout
  <2>1. sdo' \in Transfer
    BY <1>7, ContinueType DEF ReceiveTimeout, MailboxTyped
  <2> QED
    BY <1>7, <2>1 DEF ReceiveTimeout, MailboxTyped
<1>8. CASE SlaveTake
  <2>1. slave' \in Server /\ inMbx' \in Message
    BY <1>8, IdleType DEF SlaveTake, MailboxTyped, Server
  <2> QED
    BY <1>8, <2>1 DEF SlaveTake, MailboxTyped
<1>9. CASE SlaveAnswer
  BY <1>9, AnswerCases DEF SlaveAnswer, MailboxTyped
<1>10. CASE SlaveRepeat
  <2>1. outMbx' \in Message
    BY <1>10 DEF SlaveRepeat, MailboxTyped, Server
  <2> QED
    BY <1>10, <2>1 DEF SlaveRepeat, MailboxTyped
<1>11. CASE SlaveEmergency
  <2> DEFINE emcy == Msg("emcy", 0, 0, <<>>, TRUE, FALSE)
  <2>1. emcy \in Message
    BY IdleType DEF Msg, Message, Kinds
  <2>2. slave' = [slave EXCEPT !.last = emcy] /\ outMbx' = emcy
    BY <1>11 DEF SlaveEmergency
  <2> HIDE DEF emcy
  <2>3. slave' \in Server
    BY <2>1, <2>2 DEF MailboxTyped, Server
  <2>4. emergencies' \in 0 .. env.emergencies
    BY <1>0, <1>11 DEF SlaveEmergency, MailboxTyped
  <2> QED
    BY <1>11, <2>1, <2>2, <2>3, <2>4 DEF SlaveEmergency, MailboxTyped
<1> QED
  BY <1>1, <1>2, <1>3, <1>4, <1>5, <1>6, <1>7, <1>8, <1>9, <1>10, <1>11
     DEF MNext, Master

-----------------------------------------------------------------------------
(* Types of the mapping. *)

Structures == {seq \in Values : seq # <<>>}

Locals == [pc : {"idle", "types", "type", "counted", "pdoindex", "entries",
                 "bits", "sm", "count", "pdo", "desc", "entry"},
           ca : BOOLEAN, iSM : 2 .. EC_MAXSM, nSM : 0 .. EC_MAXSM,
           bug : {0, 1}, idxloop : Nat, nidx : Nat, idx : Nat,
           subidxloop : Nat, subidx : Nat, bsize : Nat, Osize : Nat,
           Isize : Nat, ret : BOOLEAN]

MapTyped ==
  /\ map \in Locals
  /\ buf \in [types : Structures, assign : Structures, desc : Structures]
  /\ SMtype \in [2 .. EC_MAXSM - 1 -> Nat]
  /\ calls \in 0 .. env.calls

(* Where the loops are. *)
LoopsBounded ==
  /\ map.pc # "idle" => map.idxloop \in 1 .. map.nidx + 1
  /\ map.pc = "types" => map.iSM = 2
  /\ map.pc \notin {"idle", "types", "sm"} => map.iSM < map.nSM
  /\ map.pc \in {"pdoindex", "desc", "entries", "entry", "bits"} =>
       map.idxloop <= map.nidx

Typed == MailboxTyped /\ MapTyped /\ LoopsBounded

\* A field of a structure, and a structure that a read was copied into.
LEMMA FilledType ==
  ASSUME MailboxTyped, NEW old \in Structures
  PROVE  Filled(old) \in Structures
<1> DEFINE n == IF Len(sdo.got) > Len(old) THEN Len(sdo.got) ELSE Len(old)
           e(k) == IF k <= Len(sdo.got) THEN sdo.got[k]
                   ELSE IF k = 1 THEN 0 ELSE old[k]
<1>1. /\ sdo.got \in Seq(Nat) /\ old \in Seq(Nat) /\ old # <<>>
  BY DEF MailboxTyped, Transfer, Structures, Values
<1>2. Len(sdo.got) \in Nat /\ Len(old) \in Nat \ {0}
  BY <1>1, EmptySeq
<1>3. n \in Nat \ {0}
  BY <1>2
<1>4. ASSUME NEW k \in 1 .. n PROVE e(k) \in Nat
  BY <1>1, <1>2, <1>4, ElementOfSeq, SMTT(30)
<1>5. Filled(old) = [k \in 1 .. n |-> e(k)]
  BY DEF Filled
<1> HIDE DEF n, e
<1>6. Filled(old) \in [1 .. n -> Nat]
  BY <1>4, <1>5
<1>7. Filled(old) \in Seq(Nat) /\ Len(Filled(old)) = n
  BY <1>3, <1>6
<1> QED
  BY <1>3, <1>7, EmptySeq DEF Structures, Values

\* The count of a structure is a number.
LEMMA CountType ==
  ASSUME NEW seq \in Structures
  PROVE  seq[1] \in Nat
<1>1. seq \in Seq(Nat) /\ Len(seq) \in Nat \ {0}
  BY EmptySeq DEF Structures, Values
<1> QED
  BY <1>1, ElementOfSeq

\* So is a field of it, there or not.
LEMMA AtType ==
  ASSUME NEW seq \in Values, NEW k \in Int
  PROVE  At(seq, k) \in Nat
BY ElementOfSeq DEF At, Values

(* What a step of the mapping asks of the mailboxes: a read, or nothing.   *)
Asks ==
  \/ UNCHANGED mvars
  \/ \E index, sub, room \in Int : SDOread(index, sub, room)

\* The locals before a mapping.
LEMMA MapIdleType == MapIdle \in Locals
<1>1. 2 \in 2 .. EC_MAXSM /\ 0 \in 0 .. EC_MAXSM
  BY DEF EC_MAXSM
<1> QED
  BY <1>1 DEF MapIdle, Locals

\* A call of the mailbox functions keeps the types.
LEMMA CallType ==
  ASSUME MailboxTyped,
         \/ Asks
         \/ \E index \in Indices, data \in Values : SDOwrite(index, data)
  PROVE  MailboxTyped'
<1>1. CASE UNCHANGED mvars
  BY <1>1 DEF MailboxTyped, mvars
<1>2. ASSUME NEW index \in Int, NEW sub \in Int, NEW room \in Int,
             SDOread(index, sub, room)
      PROVE  MailboxTyped'
  <2>1. sdo' \in Transfer
    BY <1>2, IdleType DEF SDOread, Transfer
  <2> QED
    BY <1>2, <2>1 DEF SDOread, MailboxTyped
<1>3. ASSUME NEW index \in Indices, NEW data \in Values, SDOwrite(index, data)
      PROVE  MailboxTyped'
  <2>1. index \in Int /\ ALL \in Int
    BY DictionaryAssumption DEF ALL
  <2>2. sdo' \in Transfer
    BY <1>3, <2>1, IdleType DEF SDOwrite, Transfer
  <2> QED
    BY <1>3, <2>2 DEF SDOwrite, MailboxTyped
<1> QED
  BY <1>1, <1>2, <1>3 DEF Asks

\* One of the blocking reads: the locals and what is asked.
LEMMA ReadType ==
  ASSUME NEW pc, NEW index \in Int, NEW sub \in Int, NEW room \in Int,
         map \in Locals, Read(map, pc, index, sub, room)
  PROVE  /\ Asks
         /\ map' = [map EXCEPT !.pc = pc]
         /\ buf' = buf /\ SMtype' = SMtype /\ calls' = calls
<1>1. /\ SDOread(index, IF map.ca THEN ALL ELSE sub, IF map.ca THEN Large ELSE room)
      /\ map' = [map EXCEPT !.pc = pc]
      /\ buf' = buf /\ SMtype' = SMtype /\ calls' = calls
  BY DEF Read
<1>2. (IF map.ca THEN ALL ELSE sub) \in Int /\ (IF map.ca THEN Large ELSE room) \in Int
  BY DEF ALL, Large
<1>3. Asks
  BY <1>1, <1>2 DEF Asks
<1> QED
  BY <1>1, <1>3

\* The end of a mapping, or its start all over without complete access.
LEMMA EndMappingType ==
  ASSUME map \in Locals, EndMapping(map)
  PROVE  /\ Asks /\ map' \in Locals
         /\ SMtype' = SMtype /\ calls' = calls
         /\ \/ map'.pc = "idle"
            \/ /\ map'.pc = "types" /\ map'.iSM = 2
               /\ map'.idxloop = 1 /\ map'.nidx = 0
<1> DEFINE found == map.Isize > 0 \/ map.Osize > 0
<1>1. CASE map.ca /\ ~found
  <2>1. /\ map' = [MapIdle EXCEPT !.pc = "types"]
        /\ SDOread(ECT_SDO_SMCOMMTYPE, 0, 1)
        /\ UNCHANGED <<SMtype, bits, calls>>
    BY <1>1 DEF EndMapping
  <2>2. Asks
    BY <2>1 DEF Asks, ECT_SDO_SMCOMMTYPE
  <2>3. map' \in Locals /\ map'.pc = "types" /\ map'.iSM = 2
        /\ map'.idxloop = 1 /\ map'.nidx = 0
    <3>1. [MapIdle EXCEPT !.pc = "types"] \in Locals
      BY MapIdleType DEF Locals
    <3>2. /\ [MapIdle EXCEPT !.pc = "types"].pc = "types"
          /\ [MapIdle EXCEPT !.pc = "types"].iSM = 2
          /\ [MapIdle EXCEPT !.pc = "types"].idxloop = 1
          /\ [MapIdle EXCEPT !.pc = "types"].nidx = 0
      BY DEF MapIdle
    <3> QED
      BY <2>1, <3>1, <3>2
  <2> QED
    BY <2>1, <2>2, <2>3
<1>2. CASE ~(map.ca /\ ~found)
  <2>1. /\ map' = [map EXCEPT !.pc = "idle", !.ret = found]
        /\ UNCHANGED <<mvars, SMtype, calls>>
    BY <1>2 DEF EndMapping
  <2>2. found \in BOOLEAN
    OBVIOUS
  <2> HIDE DEF found
  <2>3. map' \in Locals /\ map'.pc = "idle"
    BY <2>1, <2>2 DEF Locals
  <2> QED
    BY <2>1, <2>3 DEF Asks
<1> QED
  BY <1>1, <1>2

\* The type of a sync manager is used.
LEMMA UseTypeType ==
  ASSUME MapTyped, LoopsBounded, NEW t \in Nat, UseType(t),
         map.pc \in {"sm", "type"}, map.iSM < map.nSM
  PROVE  Asks /\ MapTyped' /\ LoopsBounded'
<1> DEFINE bug == IF map.iSM = 2 /\ t = 2 THEN 1 ELSE map.bug
           tSM == Corrected(t, bug)
<1>1. bug \in {0, 1}
  BY DEF MapTyped, Locals
<1>2. tSM \in Nat
  <2> HIDE DEF bug
  <2> QED
    BY <1>1 DEF Corrected, MapTyped, Locals, EC_MAXSM
<1>3. /\ SMtype' = [SMtype EXCEPT ![map.iSM] = tSM]
      /\ map' = IF tSM \in {3, 4}
                THEN [map EXCEPT !.pc = "count", !.bug = bug]
                ELSE [map EXCEPT !.pc = "sm", !.bug = bug, !.iSM = @ + 1]
      /\ UNCHANGED <<mvars, buf, bits, calls>>
  BY DEF UseType
<1> HIDE DEF bug, tSM
<1>4. map' \in Locals
  <2>1. /\ map.iSM \in 2 .. EC_MAXSM /\ map.nSM \in 0 .. EC_MAXSM
        /\ map.iSM + 1 \in 2 .. EC_MAXSM
    BY DEF MapTyped, Locals, EC_MAXSM
  <2>2. [map EXCEPT !.pc = "count", !.bug = bug] \in Locals
    BY <1>1 DEF MapTyped, Locals
  <2>3. [map EXCEPT !.pc = "sm", !.bug = bug, !.iSM = @ + 1] \in Locals
    BY <1>1, <2>1 DEF MapTyped, Locals
  <2> QED
    BY <1>3, <2>2, <2>3
<1>5. SMtype' \in [2 .. EC_MAXSM - 1 -> Nat]
  BY <1>2, <1>3 DEF MapTyped
<1>6. env' = env /\ MapTyped'
  BY <1>3, <1>4, <1>5 DEF MapTyped, mvars
<1>7. LoopsBounded'
  BY <1>3 DEF LoopsBounded, MapTyped, Locals, EC_MAXSM
<1> QED
  BY <1>3, <1>6, <1>7 DEF Asks

\* A PDO assignment is done with, or the next PDO is.
LEMMA AssignedType ==
  ASSUME map \in Locals, map.iSM < map.nSM, NEW size \in Nat
  PROVE  /\ Assigned(map, size) \in Locals
         /\ Assigned(map, size).pc = "sm"
         /\ Assigned(map, size).iSM = map.iSM + 1
         /\ Assigned(map, size).idxloop = map.idxloop
         /\ Assigned(map, size).nidx = map.nidx
<1>1. map.iSM + 1 \in 2 .. EC_MAXSM
  BY DEF Locals, EC_MAXSM
<1>2. map.Osize + size \in Nat /\ map.Isize + size \in Nat
  BY DEF Locals
<1>3. Assigned(map, size) \in Locals
  BY <1>1, <1>2 DEF Assigned, Locals
<1> QED
  BY <1>3 DEF Assigned, Locals

\* The index of a PDO is used, or skipped.
LEMMA UsePDOType ==
  ASSUME MapTyped, LoopsBounded, NEW idx \in Nat, map' = UsePDO(idx),
         map.pc \in {"pdo", "pdoindex"}, map.idxloop <= map.nidx
  PROVE  map' \in Locals /\ LoopsBounded'
<1>1. map.idxloop \in Nat /\ map.nidx \in Nat
  BY DEF MapTyped, Locals
<1>2. CASE idx > 0
  <2>1. map' = [map EXCEPT !.pc = "desc", !.idx = idx]
    BY <1>2 DEF UsePDO
  <2> QED
    BY <1>1, <2>1 DEF MapTyped, Locals, LoopsBounded
<1>3. CASE ~(idx > 0)
  <2>1. map' = [map EXCEPT !.pc = "pdo", !.idxloop = @ + 1]
    BY <1>3 DEF UsePDO
  <2>2. map' \in Locals
    <3>1. map.idxloop + 1 \in Nat
      BY <1>1
    <3> QED
      BY <2>1, <3>1 DEF MapTyped, Locals
  <2>3. LoopsBounded'
    <3>1. /\ map'.pc = "pdo" /\ map'.idxloop = map.idxloop + 1
          /\ map'.nidx = map.nidx /\ map'.iSM = map.iSM /\ map'.nSM = map.nSM
      BY <2>1 DEF MapTyped, Locals
    <3>2. map.idxloop \in 1 .. map.nidx + 1 /\ map.iSM < map.nSM
      BY DEF LoopsBounded
    <3>3. map'.idxloop \in 1 .. map'.nidx + 1
      BY <1>1, <3>1, <3>2
    <3> QED
      BY <3>1, <3>2, <3>3 DEF LoopsBounded
  <2> QED
    BY <2>2, <2>3
<1> QED
  BY <1>2, <1>3

\* The environment is fixed for a behaviour.
LEMMA EnvironmentStays ==
  ASSUME Asks \/ MNext \/ \E index, data : SDOwrite(index, data)
  PROVE  env' = env
BY DEF Asks, SDOread, SDOwrite, mvars, MNext, Master, Drain, MbxSend,
       SendTimeout, MbxAvailable, MbxReceive, MbxReadLost, ReceiveTimeout,
       SlaveTake, SlaveAnswer, SlaveRepeat, SlaveEmergency

\* A step of the mapping keeps the types and stays within its loops.
LEMMA MappingStepType ==
  ASSUME Typed, Mapping
  PROVE  Asks /\ MapTyped' /\ LoopsBounded'
<1> USE DEF Typed
<1>0. /\ map \in Locals /\ sdo \in Transfer /\ sdo.got \in Values
      /\ map.iSM \in Nat /\ map.idxloop \in Nat /\ map.nidx \in Nat
      /\ map.idx \in Nat /\ map.subidxloop \in Nat /\ map.bsize \in Nat
  BY SMTT(30) DEF MailboxTyped, MapTyped, Transfer, Locals
<1>a. ASSUME Asks, map' \in Locals, buf' = buf, SMtype' = SMtype, calls' = calls
      PROVE  MapTyped'
  BY <1>a, EnvironmentStays DEF MapTyped
<1>1. CASE TypesRead
  <2> DEFINE types == IF map.ca THEN Filled(buf.types) ELSE buf.types
             n == IF map.ca THEN types[1] ELSE At(sdo.got, 1)
  <2>1. types \in Structures
    BY FilledType DEF MapTyped
  <2>2. n \in Nat
    BY <1>0, <2>1, AtType, CountType
  <2>3. buf' = [buf EXCEPT !.types = types]
    BY <1>1 DEF TypesRead
  <2>4. map.pc = "types" /\ map.iSM = 2
    BY <1>1 DEF TypesRead, Returned, LoopsBounded
  <2>5. \/ /\ map' = [map EXCEPT !.pc = "sm",
                        !.nSM = IF n > EC_MAXSM THEN EC_MAXSM ELSE n]
           /\ UNCHANGED <<mvars, SMtype, bits, calls>>
        \/ EndMapping(map)
    BY <1>1 DEF TypesRead
  <2> HIDE DEF types, n
  <2>6. buf' \in [types : Structures, assign : Structures, desc : Structures]
    BY <2>1, <2>3 DEF MapTyped
  <2>7. CASE EndMapping(map)
    <3>1. /\ Asks /\ map' \in Locals /\ SMtype' = SMtype /\ calls' = calls
          /\ LoopsBounded'
      BY <1>0, <2>7, EndMappingType DEF LoopsBounded
    <3> QED
      BY <2>6, <3>1, EnvironmentStays DEF MapTyped
  <2>8. CASE map' = [map EXCEPT !.pc = "sm",
                       !.nSM = IF n > EC_MAXSM THEN EC_MAXSM ELSE n]
             /\ UNCHANGED <<mvars, SMtype, bits, calls>>
    <3>1. (IF n > EC_MAXSM THEN EC_MAXSM ELSE n) \in 0 .. EC_MAXSM
      BY <2>2 DEF EC_MAXSM
    <3>2. map' \in Locals
      BY <1>0, <2>8, <3>1 DEF Locals
    <3>3. LoopsBounded'
      BY <1>0, <2>4, <2>8 DEF LoopsBounded, Locals
    <3> QED
      BY <2>6, <2>8, <3>2, <3>3 DEF Asks, MapTyped, mvars
  <2> QED
    BY <2>5, <2>7, <2>8
<1>2. CASE NextSM
  <2>1. CASE map.ca
    <3>1. At(buf.types, map.iSM + 2) \in Nat
      <4>1. buf.types \in Values /\ buf.assign \in Values
        BY DEF MapTyped, Structures
      <4> QED
        BY <1>0, <4>1, AtType
    <3> QED
      BY <1>2, <2>1, <3>1, UseTypeType DEF NextSM
  <2>2. CASE ~map.ca
    <3>1. Read(map, "type", ECT_SDO_SMCOMMTYPE, map.iSM + 1, 1)
      BY <1>2, <2>2 DEF NextSM
    <3>2. /\ Asks /\ map' = [map EXCEPT !.pc = "type"]
          /\ buf' = buf /\ SMtype' = SMtype /\ calls' = calls
      BY <1>0, <3>1, ReadType DEF ECT_SDO_SMCOMMTYPE
    <3>3. map' \in Locals
      BY <1>0, <3>2 DEF Locals
    <3>4. LoopsBounded'
      BY <1>0, <1>2, <3>2 DEF LoopsBounded, NextSM, Locals
    <3> QED
      BY <1>a, <3>2, <3>3, <3>4
  <2> QED
    BY <2>1, <2>2
<1>3. CASE LastSM
  <2>1. /\ Asks /\ map' \in Locals /\ SMtype' = SMtype /\ calls' = calls
        /\ LoopsBounded' /\ buf' = buf
    BY <1>0, <1>3, EndMappingType DEF LoopsBounded, LastSM
  <2> QED
    BY <1>a, <2>1
<1>4. CASE TypeRead
  <2>1. CASE sdo.ok
    BY <1>0, <1>4, <2>1, AtType, UseTypeType DEF TypeRead, Returned, LoopsBounded
  <2>2. CASE ~sdo.ok
    <3>1. /\ map.pc = "type" /\ map.iSM < map.nSM
          /\ map' = [map EXCEPT !.pc = "sm", !.iSM = @ + 1]
          /\ UNCHANGED <<mvars, buf, SMtype, bits, calls>>
      BY <1>4, <2>2 DEF TypeRead, Returned, LoopsBounded
    <3>2. map.iSM + 1 \in 2 .. EC_MAXSM
      BY <1>0, <3>1 DEF Locals, EC_MAXSM
    <3>3. map' \in Locals
      BY <1>0, <3>1, <3>2 DEF Locals
    <3>4. LoopsBounded'
      BY <1>0, <3>1 DEF LoopsBounded, Locals
    <3> QED
      BY <1>a, <3>1, <3>3, <3>4 DEF Asks
  <2> QED
    BY <2>1, <2>2
<1>5. CASE ReadCount
  <2>1. map.pc = "count"
        /\ Read(map, "counted", ECT_SDO_PDOASSIGN + map.iSM, 0, 2)
    BY <1>5 DEF ReadCount
  <2>2. ECT_SDO_PDOASSIGN + map.iSM \in Int
    BY <1>0 DEF ECT_SDO_PDOASSIGN
  <2>3. /\ Asks /\ map' = [map EXCEPT !.pc = "counted"]
        /\ buf' = buf /\ SMtype' = SMtype /\ calls' = calls
    BY <1>0, <2>1, <2>2, ReadType
  <2>4. map' \in Locals /\ LoopsBounded'
    BY <1>0, <2>1, <2>3 DEF LoopsBounded, Locals
  <2> QED
    BY <1>a, <2>3, <2>4
<1>6. CASE Counted
  <2> DEFINE assign == IF map.ca THEN Filled(buf.assign) ELSE buf.assign
             n == IF map.ca THEN assign[1] ELSE At(sdo.got, 1)
  <2>1. assign \in Structures
    BY FilledType DEF MapTyped
  <2>2. n \in Nat
    BY <1>0, <2>1, AtType, CountType
  <2>3. /\ map.pc = "counted" /\ map.iSM < map.nSM
        /\ buf' = [buf EXCEPT !.assign = assign]
        /\ map' = IF sdo.ok /\ n > 0 THEN FirstPDO(n) ELSE Assigned(map, 0)
        /\ UNCHANGED <<mvars, SMtype, bits, calls>>
    BY <1>6 DEF Counted, Returned, LoopsBounded
  <2> HIDE DEF assign, n
  <2>4. buf' \in [types : Structures, assign : Structures, desc : Structures]
    BY <2>1, <2>3 DEF MapTyped
  <2>5. /\ FirstPDO(n) \in Locals /\ FirstPDO(n).pc = "pdo"
        /\ FirstPDO(n).idxloop = 1 /\ FirstPDO(n).nidx = n
        /\ FirstPDO(n).iSM = map.iSM /\ FirstPDO(n).nSM = map.nSM
    BY <1>0, <2>2 DEF FirstPDO, Locals
  <2>6. Assigned(map, 0) \in Locals /\ Assigned(map, 0).pc = "sm"
        /\ Assigned(map, 0).idxloop = map.idxloop
        /\ Assigned(map, 0).nidx = map.nidx
    BY <1>0, <2>3, AssignedType
  <2>7. map' \in Locals /\ LoopsBounded'
    BY <1>0, <2>2, <2>3, <2>5, <2>6 DEF LoopsBounded
  <2> QED
    BY <2>3, <2>4, <2>7 DEF Asks, MapTyped, mvars
<1>7. CASE NextPDO
  <2>1. CASE PDOsDone
    <3>1. /\ map' = Assigned(map, map.bsize) /\ map.pc = "pdo"
          /\ map.iSM < map.nSM
          /\ UNCHANGED <<mvars, buf, SMtype, bits, calls>>
      BY <1>7, <2>1 DEF NextPDO, LoopsBounded
    <3>2. map' \in Locals /\ map'.pc = "sm" /\ map'.idxloop = map.idxloop
          /\ map'.nidx = map.nidx
      BY <1>0, <3>1, AssignedType
    <3>3. LoopsBounded'
      BY <3>1, <3>2 DEF LoopsBounded
    <3> QED
      BY <1>a, <3>1, <3>2, <3>3 DEF Asks
  <2>2. CASE ~PDOsDone /\ map.ca
    <3>1. /\ map' = UsePDO(At(buf.assign, map.idxloop + 1)) /\ map.pc = "pdo"
          /\ map.idxloop <= map.nidx
          /\ UNCHANGED <<mvars, buf, SMtype, bits, calls>>
      BY <1>0, <1>7, <2>2 DEF NextPDO, PDOsDone
    <3>2. At(buf.assign, map.idxloop + 1) \in Nat
      <4>1. buf.types \in Values /\ buf.assign \in Values
        BY DEF MapTyped, Structures
      <4> QED
        BY <1>0, <4>1, AtType
    <3>3. map' \in Locals /\ LoopsBounded'
      BY <3>1, <3>2, UsePDOType
    <3> QED
      BY <1>a, <3>1, <3>3 DEF Asks
  <2>3. CASE ~PDOsDone /\ ~map.ca
    <3>1. /\ Read(map, "pdoindex", ECT_SDO_PDOASSIGN + map.iSM, map.idxloop, 2)
          /\ map.pc = "pdo" /\ map.idxloop <= map.nidx
      BY <1>0, <1>7, <2>3 DEF NextPDO, PDOsDone
    <3>2. ECT_SDO_PDOASSIGN + map.iSM \in Int
      BY <1>0 DEF ECT_SDO_PDOASSIGN
    <3>3. /\ Asks /\ map' = [map EXCEPT !.pc = "pdoindex"]
          /\ buf' = buf /\ SMtype' = SMtype /\ calls' = calls
      BY <1>0, <3>1, <3>2, ReadType
    <3>4. map' \in Locals /\ LoopsBounded'
      BY <1>0, <3>1, <3>3 DEF LoopsBounded, Locals
    <3> QED
      BY <1>a, <3>3, <3>4
  <2> QED
    BY <2>1, <2>2, <2>3
<1>8. CASE PDOIndexRead
  <2>1. /\ map.pc = "pdoindex" /\ map.idxloop <= map.nidx
        /\ map' = UsePDO(At(sdo.got, 1))
        /\ UNCHANGED <<mvars, buf, SMtype, bits, calls>>
    BY <1>8 DEF PDOIndexRead, Returned, LoopsBounded
  <2>2. map' \in Locals /\ LoopsBounded'
    BY <1>0, <2>1, AtType, UsePDOType
  <2> QED
    BY <1>a, <2>1, <2>2 DEF Asks
<1>9. CASE ReadEntries
  <2>1. map.pc = "desc" /\ Read(map, "entries", map.idx, 0, 1)
    BY <1>9 DEF ReadEntries
  <2>2. /\ Asks /\ map' = [map EXCEPT !.pc = "entries"]
        /\ buf' = buf /\ SMtype' = SMtype /\ calls' = calls
    BY <1>0, <2>1, ReadType
  <2>3. map' \in Locals /\ LoopsBounded'
    BY <1>0, <2>1, <2>2 DEF LoopsBounded, Locals
  <2> QED
    BY <1>a, <2>2, <2>3
<1>10. CASE EntriesRead
  <2>1. map.pc = "entries" /\ map.idxloop <= map.nidx /\ map.iSM < map.nSM
    BY <1>10 DEF EntriesRead, Returned, LoopsBounded
  <2>2. CASE map.ca
    <3> DEFINE desc == Filled(buf.desc)
               f == [k \in 1 .. desc[1] |-> At(desc, k + 1)]
               size == Total(f, desc[1])
    <3>1. desc \in Structures
      BY FilledType DEF MapTyped
    <3>2. desc[1] \in Nat
      BY <3>1, CountType
    <3>3. \A k \in 1 .. desc[1] : f[k] \in Nat
      BY <3>1, AtType DEF Structures
    <3>4. size \in Nat
      <4> HIDE DEF f
      <4> QED
        BY <3>2, <3>3, TotalNat
    <3>5. /\ buf' = [buf EXCEPT !.desc = desc]
          /\ map' = [map EXCEPT !.pc = "pdo", !.idxloop = @ + 1,
                                !.bsize = @ + size]
          /\ UNCHANGED <<mvars, SMtype, bits, calls>>
      BY <1>10, <2>2 DEF EntriesRead
    <3> HIDE DEF desc, size
    <3>6. buf' \in [types : Structures, assign : Structures, desc : Structures]
      BY <3>1, <3>5 DEF MapTyped
    <3>7. map' \in Locals
      <4>1. map.idxloop + 1 \in Nat /\ map.bsize + size \in Nat
        BY <1>0, <3>4
      <4> QED
        BY <1>0, <3>5, <4>1 DEF Locals
    <3>8. LoopsBounded'
      BY <1>0, <2>1, <3>5 DEF LoopsBounded, Locals
    <3> QED
      BY <3>5, <3>6, <3>7, <3>8 DEF Asks, MapTyped, mvars
  <2>3. CASE ~map.ca
    <3>1. /\ map' = [map EXCEPT !.pc = "entry", !.subidx = At(sdo.got, 1),
                                !.subidxloop = 1]
          /\ UNCHANGED <<mvars, buf, SMtype, bits, calls>>
      BY <1>10, <2>3 DEF EntriesRead
    <3>2. At(sdo.got, 1) \in Nat
      BY <1>0, AtType
    <3>3. map' \in Locals /\ LoopsBounded'
      BY <1>0, <2>1, <3>1, <3>2 DEF LoopsBounded, Locals
    <3> QED
      BY <1>a, <3>1, <3>3 DEF Asks
  <2> QED
    BY <2>2, <2>3
<1>11. CASE NextEntry
  <2>1. map.pc = "entry" /\ map.idxloop <= map.nidx /\ map.iSM < map.nSM
    BY <1>11 DEF NextEntry, LoopsBounded
  <2>2. CASE map.subidxloop <= map.subidx
    <3>1. Read(map, "bits", map.idx, map.subidxloop, 4)
      BY <1>11, <2>2 DEF NextEntry
    <3>2. /\ Asks /\ map' = [map EXCEPT !.pc = "bits"]
          /\ buf' = buf /\ SMtype' = SMtype /\ calls' = calls
      BY <1>0, <3>1, ReadType
    <3>3. map' \in Locals /\ LoopsBounded'
      BY <1>0, <2>1, <3>2 DEF LoopsBounded, Locals
    <3> QED
      BY <1>a, <3>2, <3>3
  <2>3. CASE ~(map.subidxloop <= map.subidx)
    <3>1. /\ map' = [map EXCEPT !.pc = "pdo", !.idxloop = @ + 1]
          /\ UNCHANGED <<mvars, buf, SMtype, bits, calls>>
      BY <1>11, <2>3 DEF NextEntry
    <3>2. map' \in Locals
      <4>1. map.idxloop + 1 \in Nat
        BY <1>0
      <4> QED
        BY <1>0, <3>1, <4>1 DEF Locals
    <3>3. LoopsBounded'
      BY <1>0, <2>1, <3>1 DEF LoopsBounded, Locals
    <3> QED
      BY <1>a, <3>1, <3>2, <3>3 DEF Asks
  <2> QED
    BY <2>2, <2>3
<1>12. CASE BitsRead
  <2>1. /\ map.pc = "bits" /\ map.idxloop <= map.nidx /\ map.iSM < map.nSM
        /\ map' = [map EXCEPT !.pc = "entry", !.subidxloop = @ + 1,
                              !.bsize = @ + At(sdo.got, 1)]
        /\ UNCHANGED <<mvars, buf, SMtype, bits, calls>>
    BY <1>12 DEF BitsRead, Returned, LoopsBounded
  <2>2. At(sdo.got, 1) \in Nat
    BY <1>0, AtType
  <2>3. map' \in Locals
    <3>1. map.subidxloop + 1 \in Nat /\ map.bsize + At(sdo.got, 1) \in Nat
      BY <1>0, <2>2
    <3> QED
      BY <1>0, <2>1, <3>1 DEF Locals
  <2>4. LoopsBounded'
    BY <1>0, <2>1 DEF LoopsBounded, Locals
  <2> QED
    BY <1>a, <2>1, <2>3, <2>4 DEF Asks
<1> QED
  BY <1>1, <1>2, <1>3, <1>4, <1>5, <1>6, <1>7, <1>8, <1>9, <1>10, <1>11, <1>12
     DEF Mapping

\* Whatever happens, the mailboxes take a step of their own or are called.
LEMMA StepType ==
  ASSUME Typed, Next
  PROVE  /\ Typed'
         /\ \/ MNext
            \/ Asks
            \/ \E index \in Indices, data \in Values : SDOwrite(index, data)
<1>1. CASE StartMapping
  <2>1. PICK ca \in BOOLEAN :
          /\ map' = [MapIdle EXCEPT !.pc = "types", !.ca = ca]
          /\ SDOread(ECT_SDO_SMCOMMTYPE, IF ca THEN ALL ELSE 0,
                     IF ca THEN Large ELSE 1)
    BY <1>1 DEF StartMapping
  <2>2. Asks
    BY <2>1 DEF Asks, ECT_SDO_SMCOMMTYPE, ALL, Large
  <2>3. map' \in Locals
    BY <2>1, MapIdleType DEF Locals
  <2>4. LoopsBounded'
    BY <2>1, MapIdleType DEF MapIdle, LoopsBounded
  <2>5. calls' \in 0 .. env.calls /\ buf' = buf /\ SMtype' = SMtype
    BY <1>1, MailboxAssumption DEF StartMapping, Typed, MailboxTyped, MapTyped
  <2> QED
    BY <2>2, <2>3, <2>4, <2>5, CallType, EnvironmentStays DEF Typed, MapTyped
<1>2. CASE Mapping
  BY <1>2, MappingStepType, CallType DEF Typed
<1>3. CASE Write
  <2>1. PICK index \in Indices, data \in WriteData : SDOwrite(index, data)
    BY <1>3 DEF Write
  <2>2. data \in Values
    BY WriteAssumption DEF Values
  <2>3. calls' \in 0 .. env.calls /\ UNCHANGED <<map, buf, SMtype>>
    BY <1>3, MailboxAssumption DEF Write, Typed, MailboxTyped, MapTyped
  <2>4. MailboxTyped' /\ env' = env
    BY <2>1, <2>2, CallType, EnvironmentStays DEF Typed
  <2>5. MapTyped' /\ LoopsBounded'
    BY <2>3, <2>4 DEF Typed, MapTyped, LoopsBounded
  <2> QED
    BY <2>1, <2>2, <2>4, <2>5 DEF Typed
<1>4. CASE MNext /\ UNCHANGED pvars
  <2>1. MailboxTyped' /\ env' = env
    BY <1>4, MailboxStepType, EnvironmentStays DEF Typed
  <2>2. MapTyped' /\ LoopsBounded'
    BY <1>4, <2>1 DEF Typed, MapTyped, LoopsBounded, pvars
  <2> QED
    BY <1>4, <2>1, <2>2 DEF Typed
<1> QED
  BY <1>1, <1>2, <1>3, <1>4 DEF Next

\* The types hold at first.
LEMMA InitType == Init => Typed
<1> SUFFICES ASSUME Init PROVE Typed
  OBVIOUS
<1>1. MailboxTyped
  <2>1. env.losses \in Nat /\ env.emergencies \in Nat
    BY MailboxAssumption DEF Init, MInit
  <2>2. 0 \in 0 .. env.losses /\ 0 \in 0 .. env.emergencies
    BY <2>1
  <2>3. stored \in [Indices -> Values]
    BY IdleType DEF Init, MInit
  <2> QED
    BY <2>2, <2>3, IdleType DEF Init, MInit, MailboxTyped
<1>2. <<0>> \in Structures
  BY EmptySeq DEF Structures, Values
<1>3. MapTyped
  BY <1>1, <1>2, MapIdleType, MailboxAssumption DEF Init, MapTyped, MailboxTyped
<1>4. LoopsBounded
  BY DEF Init, LoopsBounded, MapIdle
<1> QED
  BY <1>1, <1>3, <1>4 DEF Typed

\* And always.
LEMMA TypedAlways == Spec => []Typed
<1>1. Typed /\ [Next]_vars => Typed'
  <2>1. ASSUME Typed, UNCHANGED vars PROVE Typed'
    BY <2>1 DEF Typed, MailboxTyped, MapTyped, LoopsBounded, vars, mvars, pvars
  <2> QED
    BY <2>1, StepType
<1> QED
  BY <1>1, InitType, PTL DEF Spec

\* The variables keep their types, and the loops of a mapping their bounds:
\* sync managers below EC_MAXSM, PDOs up to the number that was read
\* (ecx_readPDOmap, ecx_readPDOassign).
THEOREM TypeCorrect == Spec => []TypeOK
<1>1. Typed => TypeOK
  <2> SUFFICES ASSUME Typed PROVE TypeOK
    OBVIOUS
  <2>1. map.iSM \in 2 .. EC_MAXSM /\ map.nSM \in 0 .. EC_MAXSM
    BY DEF Typed, MapTyped, Locals
  <2>2. sdo.pc \in {"idle", "drain", "send", "wait", "read", "ack"}
    BY DEF Typed, MailboxTyped, Transfer
  <2> QED
    BY <2>1, <2>2 DEF Typed, MailboxTyped, MapTyped, LoopsBounded, TypeOK
<1> QED
  BY <1>1, TypedAlways, PTL

-----------------------------------------------------------------------------
(* Whatever is lost or late: a read of one value gets one of its object.   *)

(* What the slave sends in answer to an upload is the value's first part;  *)
(* in answer to a download, nothing.                                       *)
AnswersTruly(msg) ==
  /\ msg.kind = "up" =>
       /\ Exists(msg.index, msg.sub)
       /\ msg.data = First(Value(msg.index, msg.sub))
       /\ msg.last <=> Rest(Value(msg.index, msg.sub)) = <<>>
  /\ msg.kind = "down" => msg.data = <<>> /\ msg.last

(* A buffer too small for a value and the count of a complete access.      *)
SmallRoom(index, sub, room) ==
  sub # ALL /\ index \in Indices => room < 2 + EntryBytes[index]

OneOf(index, got) ==
  \/ got = <<>>
  \/ /\ index \in Indices
     /\ \E sub \in 0 .. Len(Od[index]) : got = Value(index, sub)

ReadsOneObject ==
  /\ AnswersTruly(outMbx) /\ AnswersTruly(slave.last)
  /\ sdo.op = "read" =>
       /\ SmallRoom(sdo.index, sdo.sub, sdo.room)
       /\ sdo.sub # ALL => ~sdo.segment /\ OneOf(sdo.index, sdo.got)

(* The PDO whose entries are read was listed by an assignment.             *)
PdoIsAssigned ==
  /\ map.pc \in {"desc", "entries", "entry", "bits"} /\ ~map.ca =>
       (map.idx \in Indices => EntryBytes[map.idx] = 4)
  /\ map.pc = "pdoindex" =>
       /\ sdo.op = "read" /\ sdo.sub # ALL
       /\ sdo.index = ECT_SDO_PDOASSIGN + map.iSM

\* What a first answer is worth to a read of one value.
LEMMA OneAnswer ==
  ASSUME MailboxTyped, ReadsOneObject, sdo.op = "read", sdo.sub # ALL,
         NEW msg \in Message, AnswersTruly(msg)
  PROVE  /\ ~Received(msg).segment
         /\ OneOf(sdo.index, Received(msg).got)
<1>1. /\ ~sdo.segment /\ OneOf(sdo.index, sdo.got)
      /\ SmallRoom(sdo.index, sdo.sub, sdo.room)
      /\ sdo \in Transfer
  BY DEF ReadsOneObject, MailboxTyped
<1>2. CASE ~(AnswerToRead(msg) /\ Announced(msg) <= sdo.room)
  <2>1. Received(msg) = Finish(sdo, FALSE)
    BY <1>1, <1>2 DEF Received
  <2> QED
    BY <1>1, <2>1 DEF Finish, Transfer
<1>3. CASE AnswerToRead(msg) /\ Announced(msg) <= sdo.room
  <2> DEFINE s == [sdo EXCEPT !.got = msg.data]
  <2>1. Received(msg) = IF msg.last THEN Finish(s, TRUE) ELSE NextSegment(s)
    BY <1>1, <1>3 DEF Received
  <2>2. msg.last /\ OneOf(sdo.index, msg.data)
    <3>1. CASE msg.kind = "down"
      BY <3>1 DEF AnswersTruly, OneOf
    <3>2. CASE msg.kind = "up"
      <4> DEFINE value == Value(msg.index, msg.sub)
      <4>1. /\ Exists(msg.index, msg.sub) /\ msg.index = sdo.index
            /\ msg.data = First(value) /\ (msg.last <=> Rest(value) = <<>>)
            /\ value \in Values
        BY <1>3, <3>2, ValueType DEF AnswersTruly, AnswerToRead
      <4>2. /\ msg.index \in Indices /\ Od[msg.index] \in Seq(Nat)
            /\ Len(Od[msg.index]) \in Nat
            /\ EntryBytes[msg.index] \in Nat \ {0}
        <5>1. msg.index \in Indices
          BY <4>1 DEF Exists
        <5> QED
          BY <5>1, ObjectType
      <4>3. PICK sub \in 0 .. Len(Od[msg.index]) :
               value = Value(msg.index, sub) /\ Len(value) = 1
        <5>1. CASE msg.sub # ALL
          BY <4>1, <5>1, ValueType DEF Exists
        <5>2. CASE msg.sub = ALL
          <6>1. 2 + Len(Od[msg.index]) * EntryBytes[msg.index] <= sdo.room
            BY <1>3, <3>2, <5>2 DEF Announced, Bytes, ALL
          <6>2. sdo.room < 2 + EntryBytes[msg.index]
            BY <1>1, <4>1, <4>2 DEF SmallRoom
          <6>3. Len(Od[msg.index]) * EntryBytes[msg.index] < EntryBytes[msg.index]
            <7>1. Len(Od[msg.index]) * EntryBytes[msg.index] \in Int
              BY <4>2
            <7>2. sdo.room \in Int
              BY <1>1 DEF Transfer
            <7> QED
              BY <4>2, <6>1, <6>2, <7>1, <7>2
          <6>4. Len(Od[msg.index]) = 0
            BY <4>2, <6>3
          <6>5. Od[msg.index] = <<>>
            BY <4>2, <6>4, EmptySeq
          <6>6. value = <<0>> \o <<>> /\ Value(msg.index, 0) = <<0>>
            BY <5>2, <6>4, <6>5 DEF Value, ALL
          <6>7. value = <<0>>
            BY <6>6
          <6> QED
            BY <6>4, <6>6, <6>7
        <5> QED
          BY <5>1, <5>2
      <4>4. First(value) = value /\ Rest(value) = <<>>
        <5>1. Len(value) <= Chunk
          BY <4>3, MailboxAssumption
        <5> QED
          BY <4>1, <5>1, FirstAndRest
      <4> QED
        BY <4>1, <4>2, <4>3, <4>4 DEF OneOf
    <3> QED
      BY <1>3, <3>1, <3>2 DEF AnswerToRead
  <2> QED
    BY <1>1, <2>1, <2>2 DEF Finish, Transfer
<1> QED
  BY <1>2, <1>3

\* The messages that a step puts in the mailbox, or keeps, answer truly.
LEMMA AnswersStayTrue ==
  ASSUME MailboxTyped, ReadsOneObject, MNext
  PROVE  AnswersTruly(outMbx)' /\ AnswersTruly(slave.last)'
<1>0. AnswersTruly(NoMsg)
  BY DEF AnswersTruly, NoMsg, Msg
<1>1. CASE SlaveAnswer
  <2>1. AnswersTruly(outMbx')
    <3>1. CASE Uploaded(slave.todo)
      BY <3>1 DEF Uploaded, AnswersTruly, Msg
    <3>2. CASE SegmentUploaded(slave.todo)
      BY <3>2 DEF SegmentUploaded, AnswersTruly, Msg
    <3>3. CASE Downloaded(slave.todo)
      BY <3>3 DEF Downloaded, AnswersTruly, Msg
    <3>4. CASE SegmentDownloaded(slave.todo)
      BY <3>4 DEF SegmentDownloaded, AnswersTruly, Msg
    <3>5. CASE Aborted(slave.todo)
      BY <3>5 DEF Aborted, AnswersTruly, Msg
    <3> QED
      BY <1>1, <3>1, <3>2, <3>3, <3>4, <3>5, AnswerCases
  <2> QED
    BY <1>1, <2>1, AnswerCases
<1>2. CASE SlaveEmergency
  BY <1>2 DEF SlaveEmergency, AnswersTruly, Msg, MailboxTyped, Server
<1>3. CASE SlaveTake
  <2>1. slave'.last = slave.last /\ outMbx' = outMbx
    BY <1>3 DEF SlaveTake, MailboxTyped, Server
  <2> QED
    BY <2>1 DEF ReadsOneObject
<1>4. CASE SlaveRepeat
  BY <1>4 DEF SlaveRepeat, ReadsOneObject
<1>5. CASE Master
  <2>1. slave' = slave /\ outMbx' \in {outMbx, NoMsg}
    BY <1>5 DEF Master, Drain, MbxSend, SendTimeout, MbxAvailable, MbxReceive,
                MbxReadLost, ReceiveTimeout, RequestRepeat
  <2> QED
    BY <1>0, <2>1 DEF ReadsOneObject
<1> QED
  BY <1>1, <1>2, <1>3, <1>4, <1>5 DEF MNext

\* A step of the mailboxes leaves the arguments of the call under way alone.
LEMMA CallStays ==
  ASSUME MailboxTyped, MNext
  PROVE  /\ sdo'.op = sdo.op /\ sdo'.index = sdo.index
         /\ sdo'.sub = sdo.sub /\ sdo'.room = sdo.room
<1> DEFINE Same(s) == /\ s \in Transfer
                      /\ s.op = sdo.op /\ s.index = sdo.index
                      /\ s.sub = sdo.sub /\ s.room = sdo.room
<1>0. Same(sdo)
  BY DEF MailboxTyped
<1>1. ASSUME NEW s, Same(s)
      PROVE  /\ Same(Finish(s, TRUE)) /\ Same(Finish(s, FALSE))
             /\ Same(NextSegment(s)) /\ Same(NoAnswer(s))
  <2>1. /\ s \in Transfer
        /\ Finish(s, TRUE) \in Transfer /\ Finish(s, FALSE) \in Transfer
        /\ NextSegment(s) \in Transfer
    BY <1>1, ContinueType
  <2>2. Same(Finish(s, TRUE))
    BY <1>1, <2>1 DEF Finish, Transfer
  <2>3. Same(Finish(s, FALSE))
    BY <1>1, <2>1 DEF Finish, Transfer
  <2>4. Same(NextSegment(s))
    BY <1>1, <2>1 DEF NextSegment, Transfer
  <2>5. NoAnswer(s) = NextSegment(s) \/ NoAnswer(s) = Finish(s, FALSE)
    BY DEF NoAnswer
  <2> HIDE DEF Same
  <2> QED
    BY <2>2, <2>3, <2>4, <2>5
<1>2. Same(Sent) /\ Same([Sent EXCEPT !.pc = "wait"])
  <2>1. sdo \in Transfer /\ Sent \in Transfer
    BY <1>0, RequestType
  <2>2. /\ Sent.op = sdo.op /\ Sent.index = sdo.index
        /\ Sent.sub = sdo.sub /\ Sent.room = sdo.room
    BY <2>1 DEF Sent, Transfer
  <2>3. Same(Sent)
    BY <2>1, <2>2
  <2> DEFINE s == Sent
  <2>4. Same(s)
    BY <2>3
  <2> HIDE DEF s
  <2>5. Same([s EXCEPT !.pc = "wait"])
    BY <2>4 DEF Transfer
  <2> QED
    BY <2>3, <2>5 DEF s
<1>3. ASSUME NEW msg \in Message PROVE Same(Received(msg))
  <2> DEFINE s == [sdo EXCEPT !.got = msg.data]
             t == [sdo EXCEPT !.got = @ \o msg.data]
  <2>1. msg.data \in Values /\ sdo.got \o msg.data \in Values
    BY <1>0, ConcatProperties DEF Message, Transfer, Values
  <2>2. Same(s) /\ Same(t)
    BY <1>0, <2>1 DEF Transfer
  <2>3. \/ \E r \in {sdo, s, t} : \/ Received(msg) = Finish(r, TRUE)
                                  \/ Received(msg) = Finish(r, FALSE)
                                  \/ Received(msg) = NextSegment(r)
    BY DEF Received
  <2> HIDE DEF s, t, Same
  <2> QED
    BY <1>0, <1>1, <2>2, <2>3
<1>4. Same([sdo EXCEPT !.pc = "send"]) /\ Same([sdo EXCEPT !.pc = "read"])
      /\ Same([sdo EXCEPT !.pc = "ack", !.want = ~repeatReq])
  BY <1>0 DEF Transfer, MailboxTyped
<1> HIDE DEF Same
<1>5. Same(sdo')
  BY <1>0, <1>1, <1>2, <1>3, <1>4
     DEF MNext, Master, Drain, MbxSend, SendTimeout, MbxAvailable, MbxReceive,
         MbxReadLost, ReceiveTimeout, SlaveTake, SlaveAnswer, SlaveRepeat,
         SlaveEmergency, MailboxTyped
<1> QED
  BY <1>5 DEF Same

\* A read of one value is never segmented, and gets nothing but one value of
\* its object.
LEMMA ReadStaysSingle ==
  ASSUME MailboxTyped, ReadsOneObject, MNext
  PROVE  ReadsOneObject'
<1>0. AnswersTruly(outMbx)' /\ AnswersTruly(slave.last)'
  BY AnswersStayTrue
<1>1. SUFFICES ASSUME sdo.op = "read", sdo.sub # ALL
               PROVE  ~sdo'.segment /\ OneOf(sdo.index, sdo'.got)
  BY <1>0, CallStays DEF ReadsOneObject
<1>2. ~sdo.segment /\ OneOf(sdo.index, sdo.got) /\ sdo \in Transfer
  BY <1>1 DEF ReadsOneObject, MailboxTyped
<1>3. ~Sent.segment /\ Sent.got = sdo.got /\ Sent \in Transfer
  BY <1>2, RequestType DEF Sent, Transfer
<1>4. /\ ~NoAnswer(sdo).segment /\ NoAnswer(sdo).got = sdo.got
      /\ ~NoAnswer(Sent).segment /\ NoAnswer(Sent).got = sdo.got
  BY <1>2, <1>3 DEF NoAnswer, Finish, Transfer
<1>5. ASSUME MbxReceive PROVE ~sdo'.segment /\ OneOf(sdo.index, sdo'.got)
  BY <1>1, <1>2, <1>5, OneAnswer DEF MbxReceive, MailboxTyped, ReadsOneObject
<1>6. ASSUME ~MbxReceive PROVE ~sdo'.segment /\ sdo'.got = sdo.got
  BY <1>2, <1>3, <1>4, <1>6
     DEF MNext, Master, Drain, MbxSend, SendTimeout, MbxAvailable, MbxReadLost,
         ReceiveTimeout, SlaveTake, SlaveAnswer, SlaveRepeat, SlaveEmergency,
         Transfer
<1> QED
  BY <1>2, <1>5, <1>6

\* What a read is begun with.
LEMMA ReadBegins ==
  ASSUME ReadsOneObject, NEW index, NEW sub, NEW room,
         SmallRoom(index, sub, room), SDOread(index, sub, room)
  PROVE  /\ ReadsOneObject'
         /\ sdo'.op = "read" /\ sdo'.index = index /\ sdo'.sub = sub
<1>1. /\ sdo'.op = "read" /\ sdo'.index = index /\ sdo'.sub = sub
      /\ sdo'.room = room /\ sdo'.segment = FALSE /\ sdo'.got = <<>>
      /\ outMbx' = outMbx /\ slave' = slave
  BY DEF SDOread, SdoIdle
<1> QED
  BY <1>1 DEF ReadsOneObject, OneOf

\* The reads of a mapping have a small buffer, or ask for complete access.
LEMMA ReadsAreSmall ==
  ASSUME Typed, PdoIsAssigned, ReadsOneObject, StartMapping \/ Mapping
  PROVE  /\ ReadsOneObject'
         /\ \/ UNCHANGED mvars
            \/ sdo'.op = "read"
<1>0. /\ map.iSM \in Nat /\ map.idxloop \in Nat /\ map.subidxloop \in Nat
      /\ map.ca \in BOOLEAN
  BY DEF Typed, MapTyped, Locals
<1>1. ASSUME UNCHANGED mvars PROVE ReadsOneObject'
  BY <1>1 DEF ReadsOneObject, mvars
<1>2. ASSUME NEW index, NEW room, NEW sub, room <= 2, room \in Int
      PROVE  SmallRoom(index, sub, room)
  BY <1>2, ObjectType DEF SmallRoom
<1>3. ASSUME NEW index, NEW room PROVE SmallRoom(index, ALL, room)
  BY DEF SmallRoom
<1>4. ASSUME NEW pc, NEW index, NEW sub, NEW room \in Int,
             Read(map, pc, index, sub, room),
             map.ca \/ SmallRoom(index, sub, room)
      PROVE  ReadsOneObject' /\ sdo'.op = "read"
  <2>1. SDOread(index, IF map.ca THEN ALL ELSE sub,
                IF map.ca THEN Large ELSE room)
    BY <1>4 DEF Read
  <2>2. SmallRoom(index, IF map.ca THEN ALL ELSE sub,
                  IF map.ca THEN Large ELSE room)
    BY <1>3, <1>4
  <2> QED
    BY <2>1, <2>2, ReadBegins
<1>5. ASSUME EndMapping(map)
      PROVE  ReadsOneObject' /\ (UNCHANGED mvars \/ sdo'.op = "read")
  <2>1. UNCHANGED mvars \/ SDOread(ECT_SDO_SMCOMMTYPE, 0, 1)
    BY <1>5 DEF EndMapping
  <2> QED
    BY <1>1, <1>2, <2>1, ReadBegins
<1>6. CASE StartMapping
  <2>1. \/ SDOread(ECT_SDO_SMCOMMTYPE, ALL, Large)
        \/ SDOread(ECT_SDO_SMCOMMTYPE, 0, 1)
    BY <1>6 DEF StartMapping
  <2> QED
    BY <1>2, <1>3, <2>1, ReadBegins
<1>7. CASE TypesRead
  BY <1>1, <1>5, <1>7 DEF TypesRead
<1>8. CASE NextSM
  BY <1>1, <1>2, <1>4, <1>8 DEF NextSM, UseType
<1>9. CASE LastSM
  BY <1>5, <1>9 DEF LastSM
<1>10. CASE ReadCount
  BY <1>2, <1>4, <1>10 DEF ReadCount
<1>11. CASE NextPDO
  BY <1>1, <1>2, <1>4, <1>11 DEF NextPDO
<1>12. CASE ReadEntries
  BY <1>2, <1>4, <1>12 DEF ReadEntries
<1>13. CASE NextEntry
  <2>1. CASE Read(map, "bits", map.idx, map.subidxloop, 4)
    <3>1. map.pc = "entry"
      BY <1>13 DEF NextEntry
    <3>2. map.ca \/ SmallRoom(map.idx, map.subidxloop, 4)
      BY <3>1 DEF PdoIsAssigned, SmallRoom
    <3> QED
      BY <1>4, <2>1, <3>2
  <2>2. CASE UNCHANGED mvars
    BY <1>1, <2>2
  <2> QED
    BY <1>13, <2>1, <2>2 DEF NextEntry
<1>14. CASE UNCHANGED mvars
  BY <1>1, <1>14
<1>15. ASSUME TypeRead \/ Counted \/ PDOIndexRead \/ EntriesRead \/ BitsRead
       PROVE  UNCHANGED mvars
  BY <1>15 DEF TypeRead, Counted, PDOIndexRead, EntriesRead, BitsRead, UseType,
               mvars
<1> QED
  BY <1>6, <1>7, <1>8, <1>9, <1>10, <1>11, <1>12, <1>13, <1>14, <1>15
     DEF Mapping

\* The index of a PDO was read from an assignment, or is none of an object:
\* numbers of PDOs are smaller than any index.
LEMMA IndexIsAssigned ==
  ASSUME Typed, PdoIsAssigned, ReadsOneObject, map.pc = "pdoindex"
  PROVE  At(sdo.got, 1) \in Indices => EntryBytes[At(sdo.got, 1)] = 4
<1> DEFINE assign == ECT_SDO_PDOASSIGN + map.iSM
<1>1. OneOf(assign, sdo.got) /\ map.iSM \in 2 .. EC_MAXSM - 1
  <2>1. map.iSM \in 2 .. EC_MAXSM /\ map.nSM \in 0 .. EC_MAXSM
        /\ map.iSM < map.nSM
    BY DEF Typed, MapTyped, Locals, LoopsBounded
  <2> QED
    BY <2>1 DEF PdoIsAssigned, ReadsOneObject, EC_MAXSM
<1>2. CASE sdo.got = <<>>
  <2>1. At(sdo.got, 1) = 0
    BY <1>2, EmptySeq DEF At
  <2> QED
    BY <2>1, ObjectType
<1>3. CASE sdo.got # <<>>
  <2>1. PICK sub \in 0 .. Len(Od[assign]) :
           assign \in Indices /\ sdo.got = Value(assign, sub)
    BY <1>1, <1>3 DEF OneOf
  <2>2. Len(Od[assign]) \in Nat /\ Len(Od[assign]) < 256
    BY <2>1, ObjectType
  <2>3. CASE sub = 0
    <3>1. sdo.got = <<Len(Od[assign])>>
      BY <2>1, <2>3 DEF Value, ALL
    <3>2. At(sdo.got, 1) = Len(Od[assign])
      BY <3>1 DEF At
    <3> QED
      BY <2>2, <3>2, ObjectType
  <2>4. CASE sub # 0
    <3>1. sub \in 1 .. Len(Od[assign]) /\ sub # ALL
      BY <2>2, <2>4 DEF ALL
    <3>2. sdo.got = <<Od[assign][sub]>>
      BY <2>1, <3>1 DEF Value, ALL
    <3>3. At(sdo.got, 1) = Od[assign][sub]
      BY <3>2 DEF At
    <3> QED
      BY <1>1, <2>1, <3>1, <3>3, PdoAssumption
  <2> QED
    BY <2>3, <2>4
<1> QED
  BY <1>2, <1>3

\* The PDO whose entries are read stays one that an assignment lists.
LEMMA PdoStaysAssigned ==
  ASSUME Typed, PdoIsAssigned, ReadsOneObject, StartMapping \/ Mapping
  PROVE  PdoIsAssigned'
<1>0. /\ map \in Locals /\ map.iSM \in Nat /\ map.idxloop \in Nat
      /\ map.ca \in BOOLEAN
  BY DEF Typed, MapTyped, Locals
<1>1. ASSUME map'.pc \notin {"desc", "entries", "entry", "bits", "pdoindex"}
      PROVE  PdoIsAssigned'
  BY <1>1 DEF PdoIsAssigned
<1>2. ASSUME map.pc \in {"desc", "entries", "entry", "bits"},
             map'.pc \in {"entries", "entry", "bits"},
             map'.ca = map.ca, map'.idx = map.idx
      PROVE  PdoIsAssigned'
  BY <1>2 DEF PdoIsAssigned
<1>3. CASE NextPDO
  <2>1. CASE ~PDOsDone /\ ~map.ca
    <3>1. /\ map' = [map EXCEPT !.pc = "pdoindex"]
          /\ SDOread(ECT_SDO_PDOASSIGN + map.iSM, map.idxloop, 2)
      BY <1>3, <2>1 DEF NextPDO, Read
    <3>2. /\ map'.pc = "pdoindex" /\ map'.iSM = map.iSM
          /\ sdo'.op = "read" /\ sdo'.sub # ALL
          /\ sdo'.index = ECT_SDO_PDOASSIGN + map.iSM
      BY <1>0, <3>1 DEF SDOread, SdoIdle, ALL, Locals
    <3> QED
      BY <3>2 DEF PdoIsAssigned
  <2>2. CASE ~PDOsDone /\ map.ca
    <3>1. map' = UsePDO(At(buf.assign, map.idxloop + 1))
      BY <1>3, <2>2 DEF NextPDO
    <3>2. map'.pc \in {"desc", "pdo"} /\ map'.ca
      BY <1>0, <2>2, <3>1 DEF UsePDO, Locals
    <3> QED
      BY <3>2 DEF PdoIsAssigned
  <2>3. CASE PDOsDone
    <3>1. map'.pc = "sm"
      BY <1>0, <1>3, <2>3 DEF NextPDO, Assigned, Locals
    <3> QED
      BY <1>1, <3>1
  <2> QED
    BY <2>1, <2>2, <2>3
<1>4. CASE PDOIndexRead
  <2>1. map.pc = "pdoindex" /\ map' = UsePDO(At(sdo.got, 1))
    BY <1>4 DEF PDOIndexRead, Returned
  <2>2. \/ map'.pc = "pdo"
        \/ map'.pc = "desc" /\ map'.idx = At(sdo.got, 1)
    BY <1>0, <2>1 DEF UsePDO, Locals
  <2> QED
    BY <2>1, <2>2, IndexIsAssigned DEF PdoIsAssigned
<1>5. CASE ReadEntries
  BY <1>0, <1>2, <1>5 DEF ReadEntries, Read, Locals
<1>6. CASE EntriesRead
  <2>1. map.pc = "entries"
    BY <1>6 DEF EntriesRead, Returned
  <2>2. \/ map'.pc = "pdo"
        \/ map'.pc = "entry" /\ map'.ca = map.ca /\ map'.idx = map.idx
    BY <1>0, <1>6 DEF EntriesRead, Locals
  <2> QED
    BY <1>1, <1>2, <2>1, <2>2
<1>7. CASE NextEntry
  <2>1. map.pc = "entry"
    BY <1>7 DEF NextEntry
  <2>2. \/ map'.pc = "pdo"
        \/ map'.pc = "bits" /\ map'.ca = map.ca /\ map'.idx = map.idx
    BY <1>0, <1>7 DEF NextEntry, Read, Locals
  <2> QED
    BY <1>1, <1>2, <2>1, <2>2
<1>8. CASE BitsRead
  <2>1. /\ map.pc = "bits" /\ map'.pc = "entry"
        /\ map'.ca = map.ca /\ map'.idx = map.idx
    BY <1>0, <1>8 DEF BitsRead, Returned, Locals
  <2> QED
    BY <1>2, <2>1
<1>9. ASSUME \/ StartMapping \/ TypesRead \/ NextSM \/ LastSM \/ TypeRead
             \/ ReadCount \/ Counted
      PROVE  map'.pc \in {"types", "idle", "sm", "type", "count", "counted", "pdo"}
  <2>1. ASSUME EndMapping(map) PROVE map'.pc \in {"idle", "types"}
    BY <1>0, <2>1 DEF EndMapping, MapIdle, Locals
  <2>2. ASSUME NEW t, UseType(t) PROVE map'.pc \in {"sm", "count"}
    BY <1>0, <2>2 DEF UseType, Locals
  <2>3. CASE StartMapping
    BY <2>3 DEF StartMapping, MapIdle
  <2>4. CASE TypesRead
    BY <1>0, <2>1, <2>4 DEF TypesRead, Locals
  <2>5. CASE NextSM
    BY <1>0, <2>2, <2>5 DEF NextSM, Read, Locals
  <2>6. CASE LastSM
    BY <2>1, <2>6 DEF LastSM
  <2>7. CASE TypeRead
    BY <1>0, <2>2, <2>7 DEF TypeRead, Locals
  <2>8. CASE ReadCount
    BY <1>0, <2>8 DEF ReadCount, Read, Locals
  <2>9. CASE Counted
    BY <1>0, <2>9 DEF Counted, FirstPDO, Assigned, Locals
  <2> QED
    BY <1>9, <2>3, <2>4, <2>5, <2>6, <2>7, <2>8, <2>9
<1> QED
  BY <1>1, <1>3, <1>4, <1>5, <1>6, <1>7, <1>8, <1>9 DEF Mapping

\* Whatever is lost or late, a read of one value that succeeds gets one of the
\* object it asked for: the answer of another object is refused by its index,
\* that of a complete access by its size (ecx_SDOread).
THEOREM ReadIndicesAreRight == Spec => []ReadIndexIsRight
<1> DEFINE Inv == ReadsOneObject /\ PdoIsAssigned
<1>1. Init => Inv
  <2> SUFFICES ASSUME Init PROVE Inv
    OBVIOUS
  <2>1. SmallRoom(0, 0, 0)
    BY ObjectType DEF SmallRoom
  <2>2. AnswersTruly(NoMsg)
    BY DEF AnswersTruly, NoMsg, Msg
  <2> QED
    BY <2>1, <2>2 DEF Init, MInit, SdoIdle, SlaveIdle, MapIdle, ReadsOneObject,
                      OneOf, PdoIsAssigned
<1>2. Typed /\ Inv /\ [Next]_vars => Inv'
  <2> SUFFICES ASSUME Typed, Inv, [Next]_vars PROVE Inv'
    OBVIOUS
  <2>1. CASE StartMapping \/ Mapping
    BY <2>1, ReadsAreSmall, PdoStaysAssigned
  <2>2. CASE Write
    <3>1. /\ map.pc = "idle" /\ map' = map
          /\ sdo'.op = "write" /\ outMbx' = outMbx /\ slave' = slave
      BY <2>2 DEF Write, SDOwrite, SdoIdle
    <3> QED
      BY <3>1 DEF ReadsOneObject, PdoIsAssigned
  <2>3. CASE MNext /\ UNCHANGED pvars
    BY <2>3, ReadStaysSingle, CallStays DEF Typed, PdoIsAssigned, pvars
  <2>4. CASE UNCHANGED vars
    BY <2>4 DEF ReadsOneObject, PdoIsAssigned, vars, mvars, pvars
  <2> QED
    BY <2>1, <2>2, <2>3, <2>4 DEF Next
<1>3. Inv => ReadIndexIsRight
  BY DEF ReadsOneObject, OneOf, ReadIndexIsRight, Succeeded
<1> QED
  BY <1>1, <1>2, <1>3, TypedAlways, PTL DEF Spec

-----------------------------------------------------------------------------
(* With losses that a repeat request makes good: a request is made, served  *)
(* and answered once, and the data of a transfer are in three places, what  *)
(* the slave has of them, what is in the mailbox and what the master has.   *)

Emergency == Msg("emcy", 0, 0, <<>>, TRUE, FALSE)

Quiet ==
  /\ inMbx = NoMsg /\ slave.todo = NoMsg /\ outMbx = NoMsg
  /\ repeatReq = repeatAck

(* The transfer before a request.                                          *)
Ready ==
  \/ /\ ~sdo.segment /\ ~sdo.toggle
     /\ sdo.op = "write" => sdo.left = sdo.got
  \/ /\ sdo.segment /\ sdo.op = "read"
     /\ Exists(sdo.index, sdo.sub)
     /\ slave.op = "read" /\ slave.toggle = sdo.toggle /\ slave.data # <<>>
     /\ sdo.got \o slave.data = Value(sdo.index, sdo.sub)
  \/ /\ sdo.segment /\ sdo.op = "write" /\ sdo.left # <<>>
     /\ slave.op = "write" /\ slave.toggle = sdo.toggle /\ slave.data # <<>>
     /\ slave.index = sdo.index
     /\ slave.data \o sdo.left = sdo.got

(* What the request, once made, has to do with the transfer.               *)
Asked(msg) ==
  \/ /\ ~sdo.segment /\ ~sdo.toggle /\ sdo.op = "read"
     /\ msg.kind = "up" /\ msg.index = sdo.index /\ msg.sub = sdo.sub
  \/ /\ sdo.segment /\ sdo.op = "read"
     /\ msg.kind = "segup" /\ msg.toggle = ~sdo.toggle
     /\ Exists(sdo.index, sdo.sub)
     /\ slave.op = "read" /\ slave.toggle = msg.toggle /\ slave.data # <<>>
     /\ sdo.got \o slave.data = Value(sdo.index, sdo.sub)
  \/ /\ ~sdo.segment /\ ~sdo.toggle /\ sdo.op = "write"
     /\ msg.kind = "down" /\ msg.index = sdo.index /\ msg.sub = sdo.sub
     /\ msg.data \o sdo.left = sdo.got /\ msg.last = (sdo.left = <<>>)
     /\ sdo.left # <<>> => msg.data # <<>>
  \/ /\ sdo.segment /\ sdo.op = "write"
     /\ msg.kind = "segdown" /\ msg.toggle = ~sdo.toggle
     /\ slave.op = "write" /\ slave.toggle = msg.toggle /\ slave.data # <<>>
     /\ slave.index = sdo.index
     /\ (slave.data \o msg.data) \o sdo.left = sdo.got
     /\ msg.last = (sdo.left = <<>>)

(* What the answer has to do with it.                                      *)
Answered(msg) ==
  \/ msg.kind = "abort"
  \/ /\ ~sdo.segment /\ ~sdo.toggle /\ sdo.op = "read"
     /\ msg.kind = "up" /\ msg.index = sdo.index /\ msg.sub = sdo.sub
     /\ Exists(sdo.index, sdo.sub)
     /\ slave.op = "read" /\ ~slave.toggle
     /\ msg.data \o slave.data = Value(sdo.index, sdo.sub)
     /\ msg.last = (slave.data = <<>>)
  \/ /\ sdo.segment /\ sdo.op = "read"
     /\ msg.kind = "seg"
     /\ Exists(sdo.index, sdo.sub)
     /\ slave.op = "read" /\ slave.toggle = sdo.toggle
     /\ (sdo.got \o msg.data) \o slave.data = Value(sdo.index, sdo.sub)
     /\ msg.last = (slave.data = <<>>)
  \/ /\ sdo.op = "write"
     /\ msg.kind = (IF sdo.segment THEN "segdown" ELSE "down")
     /\ ~sdo.segment => ~sdo.toggle /\ msg.index = sdo.index /\ msg.sub = sdo.sub
     /\ sdo.left = <<>> => stored[sdo.index] = sdo.got
     /\ sdo.left # <<>> =>
          /\ slave.op = "write" /\ slave.toggle = sdo.toggle
          /\ slave.data # <<>> /\ slave.index = sdo.index
          /\ slave.data \o sdo.left = sdo.got

Underway ==
  /\ inMbx # NoMsg /\ Asked(inMbx)
  /\ slave.todo = NoMsg /\ outMbx = NoMsg /\ sdo.pc = "wait"

InService ==
  /\ slave.todo # NoMsg /\ Asked(slave.todo)
  /\ inMbx = NoMsg
  /\ outMbx \in {NoMsg, Emergency}
  /\ outMbx = Emergency \/ sdo.pc \in {"read", "ack"} => slave.last = Emergency

Served ==
  /\ slave.last # NoMsg /\ slave.last # Emergency /\ Answered(slave.last)
  /\ inMbx = NoMsg /\ slave.todo = NoMsg
  /\ \/ outMbx = slave.last
     \/ outMbx = NoMsg /\ sdo.pc = "ack" /\ repeatReq # repeatAck

Handshake ==
  /\ sdo.pc \in {"idle", "drain", "send"} => Quiet
  /\ sdo.pc \in {"wait", "read"} => repeatReq = repeatAck
  /\ sdo.pc = "ack" => sdo.want = repeatReq
  /\ sdo.pc \in {"wait", "read", "ack"} => Underway \/ InService \/ Served

Exact ==
  /\ sdo.op = "write" => sdo.index \in Indices /\ sdo.sub = ALL
  /\ sdo.pc = "drain" => ~sdo.segment
  /\ sdo.pc \in {"drain", "send"} => Ready
  /\ Succeeded("read") => /\ Exists(sdo.index, sdo.sub)
                          /\ sdo.got = Value(sdo.index, sdo.sub)
  /\ Succeeded("write") => stored[sdo.index] = sdo.got

GentleTransfer == Gentle => Handshake /\ Exact

\* Data joined to data joined to data.
LEMMA Associative ==
  ASSUME NEW s \in Values, NEW t \in Values, NEW u \in Values
  PROVE  (s \o t) \o u = s \o (t \o u)
<1>1. s \in Seq(Nat) /\ t \in Seq(Nat) /\ u \in Seq(Nat)
  BY DEF Values
<1> QED
  BY <1>1, ConcatAssociative, SMTT(60)

\* These relations only look at the data of the transfer, and at the slave's.
LEMMA DataKept ==
  ASSUME sdo'.op = sdo.op, sdo'.index = sdo.index, sdo'.sub = sdo.sub,
         sdo'.segment = sdo.segment, sdo'.toggle = sdo.toggle,
         sdo'.left = sdo.left, sdo'.got = sdo.got,
         slave'.op = slave.op, slave'.index = slave.index,
         slave'.data = slave.data, slave'.toggle = slave.toggle,
         stored' = stored
  PROVE  /\ Ready => Ready'
         /\ \A msg : Asked(msg) => Asked(msg)'
         /\ \A msg : Answered(msg) => Answered(msg)'
<1>1. Ready => Ready'
  BY DEF Ready
<1>2. ASSUME NEW msg, Asked(msg) PROVE Asked(msg)'
  BY <1>2 DEF Asked
<1>3. ASSUME NEW msg, Answered(msg) PROVE Answered(msg)'
  BY <1>3 DEF Answered
<1> QED
  BY <1>1, <1>2, <1>3

\* In a gentle environment the timer does not run out: what the master waits
\* for is on its way.
LEMMA NothingTimesOut ==
  ASSUME Gentle, Handshake
  PROVE  ~SendTimeout /\ ~ReceiveTimeout
<1>1. ~env.slow
  BY DEF Gentle
<1>2. ~SendTimeout
  BY <1>1 DEF SendTimeout
<1>3. ASSUME sdo.pc \in {"wait", "ack"} PROVE Coming
  BY <1>3 DEF Handshake, Underway, InService, Served, Coming
<1> QED
  BY <1>1, <1>2, <1>3 DEF ReceiveTimeout

\* A transfer is begun: by a read, or a write of an object there is.
LEMMA GentleCall ==
  ASSUME MailboxTyped, Handshake, Exact,
         \/ \E index, sub, room : SDOread(index, sub, room)
         \/ \E index \in Indices : \E data : SDOwrite(index, data)
  PROVE  Handshake' /\ Exact'
<1>1. sdo.pc = "idle" /\ Quiet
  BY DEF SDOread, SDOwrite, Handshake
<1> DEFINE Goal == /\ sdo'.pc = "drain" /\ ~sdo'.segment /\ ~sdo'.toggle
                   /\ sdo'.op = "write" =>
                        sdo'.index \in Indices /\ sdo'.sub = ALL
                          /\ sdo'.left = sdo'.got
                   /\ inMbx' = inMbx /\ slave' = slave /\ outMbx' = outMbx
                   /\ repeatReq' = repeatReq /\ repeatAck' = repeatAck
<1>2. Goal
  <2>1. ASSUME NEW index, NEW sub, NEW room, SDOread(index, sub, room)
        PROVE  Goal
    BY <2>1 DEF SDOread, SdoIdle
  <2>2. ASSUME NEW index \in Indices, NEW data, SDOwrite(index, data)
        PROVE  Goal
    BY <2>2 DEF SDOwrite, SdoIdle
  <2> QED
    BY <2>1, <2>2
<1> QED
  BY <1>1, <1>2 DEF Handshake, Quiet, Exact, Ready, Succeeded

\* The mailbox is empty already, and is emptied again.
LEMMA GentleDrain ==
  ASSUME MailboxTyped, Handshake, Exact, Drain
  PROVE  Handshake' /\ Exact'
<1>1. sdo.pc = "drain" /\ Quiet /\ Ready
  BY DEF Drain, Handshake, Exact
<1>2. /\ sdo' = [sdo EXCEPT !.pc = "send"] /\ outMbx' = NoMsg
      /\ UNCHANGED <<inMbx, repeatReq, repeatAck, slave, stored>>
  BY <1>1 DEF Drain, Quiet
<1>3. /\ sdo'.pc = "send" /\ sdo'.op = sdo.op /\ sdo'.index = sdo.index
      /\ sdo'.sub = sdo.sub /\ sdo'.segment = sdo.segment
      /\ sdo'.toggle = sdo.toggle /\ sdo'.left = sdo.left /\ sdo'.got = sdo.got
  BY <1>2 DEF MailboxTyped, Transfer
<1>4. Ready'
  BY <1>1, <1>2, <1>3, DataKept
<1>5. Handshake'
  BY <1>1, <1>2, <1>3 DEF Handshake, Quiet
<1> QED
  BY <1>3, <1>4, <1>5 DEF Exact, Succeeded

\* A request is made of the data that are left.
LEMMA GentleSend ==
  ASSUME MailboxTyped, Gentle, Handshake, Exact, MbxSend
  PROVE  Handshake' /\ Exact'
<1>1. sdo.pc = "send" /\ Quiet /\ Ready /\ sdo \in Transfer
      /\ sdo.left \in Values /\ sdo.got \in Values /\ slave.data \in Values
  BY DEF MbxSend, Handshake, Exact, MailboxTyped, Transfer, Server
<1>2. /\ inMbx' = Request /\ sdo' = [Sent EXCEPT !.pc = "wait"]
      /\ UNCHANGED <<outMbx, repeatReq, repeatAck, slave, stored>>
  BY DEF MbxSend, MayLose, Gentle
<1>3. /\ sdo'.pc = "wait" /\ sdo'.op = sdo.op /\ sdo'.index = sdo.index
      /\ sdo'.sub = sdo.sub /\ sdo'.segment = sdo.segment
      /\ sdo'.toggle = (IF sdo.segment THEN ~sdo.toggle ELSE sdo.toggle)
      /\ sdo'.left = Rest(sdo.left) /\ sdo'.got = sdo.got
  BY <1>1, <1>2 DEF Sent, Transfer
<1>4. Request.kind # "none" /\ Request # NoMsg
  BY <1>1 DEF Request, Msg, NoMsg, Transfer
<1>5. Asked(inMbx)'
  <2>1. /\ First(sdo.left) \o Rest(sdo.left) = sdo.left
        /\ First(sdo.left) \in Values /\ Rest(sdo.left) \in Values
        /\ sdo.left # <<>> => First(sdo.left) # <<>>
        /\ sdo.left = <<>> => Rest(sdo.left) = <<>>
    <3>1. sdo.left = <<>> => Len(sdo.left) <= Chunk
      BY MailboxAssumption
    <3> QED
      BY <1>1, <3>1, FirstAndRest
  <2>2. CASE sdo.op = "read" /\ ~sdo.segment
    <3>1. inMbx' = Msg("up", sdo.index, sdo.sub, <<>>, TRUE, FALSE)
      BY <1>2, <2>2 DEF Request
    <3> QED
      BY <1>1, <1>3, <2>2, <3>1 DEF Ready, Asked, Msg
  <2>3. CASE sdo.op = "read" /\ sdo.segment
    <3>1. inMbx' = Msg("segup", sdo.index, sdo.sub, <<>>, TRUE, sdo.toggle)
      BY <1>2, <2>3 DEF Request
    <3>2. inMbx'.kind = "segup" /\ inMbx'.toggle = sdo.toggle
      BY <3>1 DEF Msg
    <3>3. inMbx'.toggle = ~sdo'.toggle
      BY <1>1, <1>3, <2>3, <3>2 DEF Transfer
    <3>4. /\ Exists(sdo.index, sdo.sub)
          /\ slave.op = "read" /\ slave.toggle = sdo.toggle
          /\ slave.data # <<>>
          /\ sdo.got \o slave.data = Value(sdo.index, sdo.sub)
      BY <1>1, <2>3 DEF Ready
    <3> QED
      BY <1>2, <1>3, <2>3, <3>2, <3>3, <3>4 DEF Asked
  <2>4. CASE sdo.op = "write" /\ ~sdo.segment
    <3>1. inMbx' = Msg("down", sdo.index, sdo.sub, First(sdo.left),
                       Rest(sdo.left) = <<>>, FALSE)
      BY <1>2, <2>4 DEF Request, Data
    <3>2. sdo.left = sdo.got /\ ~sdo.toggle
      BY <1>1, <2>4 DEF Ready
    <3>3. Rest(sdo.left) # <<>> => First(sdo.left) # <<>>
      BY <2>1
    <3> QED
      BY <1>3, <2>1, <2>4, <3>1, <3>2, <3>3 DEF Asked, Msg
  <2>5. CASE sdo.op = "write" /\ sdo.segment
    <3>1. inMbx' = Msg("segdown", 0, 0, First(sdo.left), Rest(sdo.left) = <<>>,
                       sdo.toggle)
      BY <1>2, <2>5 DEF Request, Data
    <3>2. /\ slave.op = "write" /\ slave.toggle = sdo.toggle
          /\ slave.data # <<>> /\ slave.index = sdo.index
          /\ slave.data \o sdo.left = sdo.got
      BY <1>1, <2>5 DEF Ready
    <3>3. (slave.data \o First(sdo.left)) \o Rest(sdo.left) = sdo.got
      <4>1. (slave.data \o First(sdo.left)) \o Rest(sdo.left)
              = slave.data \o (First(sdo.left) \o Rest(sdo.left))
        BY <1>1, <2>1, Associative, Zenon
      <4> QED
        BY <2>1, <3>2, <4>1, Zenon
    <3>4. /\ inMbx'.kind = "segdown" /\ inMbx'.toggle = sdo.toggle
          /\ inMbx'.data = First(sdo.left)
          /\ inMbx'.last = (Rest(sdo.left) = <<>>)
      BY <3>1 DEF Msg
    <3>5. inMbx'.toggle = ~sdo'.toggle
      BY <1>1, <1>3, <2>5, <3>4 DEF Transfer
    <3> QED
      BY <1>2, <1>3, <2>5, <3>2, <3>3, <3>4, <3>5 DEF Asked
  <2> QED
    BY <1>1, <2>2, <2>3, <2>4, <2>5 DEF Transfer
<1>6. Handshake'
  BY <1>1, <1>2, <1>3, <1>4, <1>5 DEF Handshake, Quiet, Underway
<1>7. Exact'
  BY <1>3 DEF Exact, Succeeded
<1> QED
  BY <1>6, <1>7

\* There is a message to read: the answer, or an emergency before it.
LEMMA GentleAvailable ==
  ASSUME MailboxTyped, Handshake, Exact, MbxAvailable
  PROVE  Handshake' /\ Exact'
<1>1. /\ sdo.pc \in {"wait", "ack"} /\ outMbx # NoMsg
      /\ sdo.pc = "ack" => repeatAck = sdo.want
      /\ sdo' = [sdo EXCEPT !.pc = "read"]
      /\ UNCHANGED <<env, inMbx, outMbx, repeatReq, repeatAck, slave, stored>>
  BY DEF MbxAvailable, Acknowledged
<1>2. repeatReq = repeatAck
  BY <1>1 DEF Handshake
<1>3. /\ sdo'.pc = "read" /\ sdo'.op = sdo.op /\ sdo'.index = sdo.index
      /\ sdo'.sub = sdo.sub /\ sdo'.segment = sdo.segment
      /\ sdo'.toggle = sdo.toggle /\ sdo'.left = sdo.left /\ sdo'.got = sdo.got
  BY <1>1 DEF MailboxTyped, Transfer
<1>4. /\ \A msg : Asked(msg) => Asked(msg)'
      /\ \A msg : Answered(msg) => Answered(msg)'
  BY <1>1, <1>3, DataKept
<1>5. InService \/ Served
  BY <1>1 DEF Handshake, Underway
<1>6. ASSUME InService PROVE InService'
  BY <1>1, <1>4, <1>6 DEF InService
<1>7. ASSUME Served PROVE Served'
  BY <1>1, <1>4, <1>7 DEF Served
<1>8. Handshake'
  BY <1>1, <1>2, <1>3, <1>5, <1>6, <1>7 DEF Handshake
<1> QED
  BY <1>3, <1>8 DEF Exact, Succeeded

\* What the master makes of the answer that was meant.
LEMMA GentleAnswerUsed ==
  ASSUME MailboxTyped, Exact, NEW msg \in Message, Answered(msg),
         sdo' = Received(msg), slave' = slave, stored' = stored
  PROVE  /\ sdo'.pc \in {"idle", "send"}
         /\ sdo'.pc = "send" => Ready'
         /\ sdo'.op = sdo.op /\ sdo'.index = sdo.index /\ sdo'.sub = sdo.sub
         /\ Exact'
<1>0. /\ sdo \in Transfer /\ sdo.toggle \in BOOLEAN /\ sdo.got \in Values
      /\ slave.data \in Values /\ slave.toggle \in BOOLEAN
      /\ msg.data \in Values /\ msg.last \in BOOLEAN
  BY DEF MailboxTyped, Transfer, Server, Message
<1>1. ASSUME NEW s \in Transfer
      PROVE  /\ Finish(s, TRUE).pc = "idle" /\ Finish(s, TRUE).ok = TRUE
             /\ Finish(s, FALSE).pc = "idle" /\ Finish(s, FALSE).ok = FALSE
             /\ Finish(s, TRUE).op = s.op /\ Finish(s, FALSE).op = s.op
             /\ Finish(s, TRUE).index = s.index /\ Finish(s, TRUE).sub = s.sub
             /\ Finish(s, FALSE).index = s.index /\ Finish(s, FALSE).sub = s.sub
             /\ Finish(s, TRUE).got = s.got
             /\ NextSegment(s).pc = "send" /\ NextSegment(s).segment = TRUE
             /\ NextSegment(s).op = s.op
             /\ NextSegment(s).index = s.index /\ NextSegment(s).sub = s.sub
             /\ NextSegment(s).toggle = s.toggle
             /\ NextSegment(s).got = s.got /\ NextSegment(s).left = s.left
  BY DEF Finish, NextSegment, Transfer
<1> DEFINE got == IF sdo.segment THEN sdo.got \o msg.data ELSE msg.data
           s == [sdo EXCEPT !.got = got]
           Same == sdo'.op = sdo.op /\ sdo'.index = sdo.index
                     /\ sdo'.sub = sdo.sub
<1>2. got \in Values
  BY <1>0, ConcatProperties DEF Values
<1>3. /\ s \in Transfer /\ s.op = sdo.op /\ s.index = sdo.index
      /\ s.sub = sdo.sub /\ s.toggle = sdo.toggle /\ s.got = got
  <2> HIDE DEF got
  <2> QED
    BY <1>0, <1>2 DEF Transfer
<1>a. s = [sdo EXCEPT !.got = got]
  OBVIOUS
<1>b. got = IF sdo.segment THEN sdo.got \o msg.data ELSE msg.data
  OBVIOUS
<1>4. CASE sdo' = Finish(sdo, FALSE)
  <2>1. Same /\ sdo'.pc = "idle" /\ sdo'.ok = FALSE
    <3>1. /\ Finish(sdo, FALSE).op = sdo.op /\ Finish(sdo, FALSE).index = sdo.index
          /\ Finish(sdo, FALSE).sub = sdo.sub
          /\ Finish(sdo, FALSE).pc = "idle" /\ Finish(sdo, FALSE).ok = FALSE
      BY <1>0, <1>1, Zenon
    <3> QED
      BY <1>4, <3>1, Zenon
  <2> QED
    BY <2>1 DEF Exact, Succeeded
<1>5. CASE sdo.op = "read" /\ sdo' # Finish(sdo, FALSE)
  <2>1. \/ msg.last /\ sdo' = Finish(s, TRUE)
        \/ ~msg.last /\ sdo' = NextSegment(s)
    BY <1>0, <1>5 DEF Received
  <2>2. msg.kind # "abort"
    BY <1>5 DEF Received, AnswerToRead
  <2> HIDE DEF s, got
  <2>3. /\ Exists(sdo.index, sdo.sub)
        /\ slave.op = "read" /\ slave.toggle = sdo.toggle
        /\ got \o slave.data = Value(sdo.index, sdo.sub)
        /\ msg.last = (slave.data = <<>>)
    BY <1>0, <1>5, <1>b, <2>2 DEF Answered
  <2>4. CASE msg.last /\ sdo' = Finish(s, TRUE)
    <3>1. Same /\ sdo'.pc = "idle" /\ sdo'.got = got
      <4>1. /\ Finish(s, TRUE).pc = "idle" /\ Finish(s, TRUE).got = s.got
            /\ Finish(s, TRUE).op = s.op /\ Finish(s, TRUE).index = s.index
            /\ Finish(s, TRUE).sub = s.sub
        BY <1>1, <1>3, Zenon
      <4> QED
        BY <1>3, <2>4, <4>1, Zenon
    <3>2. slave.data = <<>>
      BY <2>3, <2>4
    <3>3. got \o <<>> = got
      BY <1>2, ConcatEmptySeq DEF Values
    <3>4. got = Value(sdo.index, sdo.sub)
      BY <2>3, <3>2, <3>3
    <3> QED
      BY <1>5, <2>3, <3>1, <3>4 DEF Exact, Succeeded
  <2>5. CASE ~msg.last /\ sdo' = NextSegment(s)
    <3>1. /\ Same /\ sdo'.pc = "send" /\ sdo'.got = got /\ sdo'.segment
          /\ sdo'.toggle = sdo.toggle
      <4>1. /\ NextSegment(s).pc = "send" /\ NextSegment(s).segment = TRUE
            /\ NextSegment(s).op = s.op /\ NextSegment(s).index = s.index
            /\ NextSegment(s).sub = s.sub /\ NextSegment(s).got = s.got
            /\ NextSegment(s).toggle = s.toggle
        BY <1>1, <1>3, Zenon
      <4> QED
        BY <1>3, <2>5, <4>1, Zenon
    <3>2. slave.data # <<>>
      BY <2>3, <2>5
    <3>3. Ready'
      BY <1>5, <2>3, <3>1, <3>2 DEF Ready
    <3> QED
      BY <1>5, <3>1, <3>3 DEF Exact, Succeeded
  <2> QED
    BY <2>1, <2>4, <2>5
<1>6. CASE sdo.op = "write" /\ sdo' # Finish(sdo, FALSE)
  <2>1. \/ sdo.left = <<>> /\ sdo' = Finish(sdo, TRUE)
        \/ sdo.left # <<>> /\ sdo' = NextSegment(sdo)
    BY <1>6 DEF Received
  <2>2. msg.kind # "abort"
    BY <1>6 DEF Received
  <2>3. /\ sdo.left = <<>> => stored[sdo.index] = sdo.got
        /\ sdo.left # <<>> =>
             /\ slave.op = "write" /\ slave.toggle = sdo.toggle
             /\ slave.data # <<>> /\ slave.index = sdo.index
             /\ slave.data \o sdo.left = sdo.got
    BY <1>6, <2>2 DEF Answered
  <2>4. CASE sdo.left = <<>> /\ sdo' = Finish(sdo, TRUE)
    <3>1. Same /\ sdo'.pc = "idle" /\ sdo'.got = sdo.got
      <4>1. /\ Finish(sdo, TRUE).op = sdo.op /\ Finish(sdo, TRUE).index = sdo.index
            /\ Finish(sdo, TRUE).sub = sdo.sub
            /\ Finish(sdo, TRUE).pc = "idle" /\ Finish(sdo, TRUE).got = sdo.got
        BY <1>0, <1>1, Zenon
      <4> QED
        BY <2>4, <4>1, Zenon
    <3> QED
      BY <1>6, <2>3, <2>4, <3>1 DEF Exact, Succeeded
  <2>5. CASE sdo.left # <<>> /\ sdo' = NextSegment(sdo)
    <3>1. /\ Same /\ sdo'.pc = "send" /\ sdo'.got = sdo.got /\ sdo'.segment
          /\ sdo'.toggle = sdo.toggle /\ sdo'.left = sdo.left
      <4>1. /\ NextSegment(sdo).op = sdo.op /\ NextSegment(sdo).index = sdo.index
            /\ NextSegment(sdo).sub = sdo.sub /\ NextSegment(sdo).pc = "send"
            /\ NextSegment(sdo).got = sdo.got /\ NextSegment(sdo).segment
            /\ NextSegment(sdo).toggle = sdo.toggle
            /\ NextSegment(sdo).left = sdo.left
        BY <1>0, <1>1
      <4> QED
        BY <2>5, <4>1, Zenon
    <3>2. Ready'
      BY <1>6, <2>3, <2>5, <3>1 DEF Ready
    <3> QED
      BY <1>6, <3>1, <3>2 DEF Exact, Succeeded
  <2> QED
    BY <2>1, <2>4, <2>5
<1> QED
  BY <1>0, <1>4, <1>5, <1>6 DEF Transfer

\* A message is read: an emergency, and the answer is still to come, or the
\* answer, and nothing is on its way any more.
LEMMA GentleReceive ==
  ASSUME MailboxTyped, Handshake, Exact, MbxReceive
  PROVE  Handshake' /\ Exact'
<1>1. /\ sdo.pc = "read" /\ outMbx # NoMsg /\ outMbx' = NoMsg
      /\ sdo' = IF outMbx.kind = "emcy" THEN sdo ELSE Received(outMbx)
      /\ UNCHANGED <<env, inMbx, repeatReq, repeatAck, slave, stored>>
  BY DEF MbxReceive
<1>2. repeatReq = repeatAck /\ (InService \/ Served)
  BY <1>1 DEF Handshake, Underway
<1>3. CASE InService
  <2>1. outMbx = Emergency /\ outMbx.kind = "emcy"
    BY <1>1, <1>3 DEF InService, Emergency, Msg
  <2>2. sdo' = sdo
    BY <1>1, <2>1
  <2>3. \A msg : Asked(msg) => Asked(msg)'
    BY <1>1, <2>2, DataKept
  <2>4. InService'
    BY <1>1, <1>3, <2>2, <2>3 DEF InService
  <2> QED
    BY <1>1, <1>2, <2>2, <2>4 DEF Handshake, Exact, Succeeded
<1>4. CASE Served
  <2>1. outMbx = slave.last /\ inMbx = NoMsg /\ slave.todo = NoMsg
        /\ Answered(outMbx)
    BY <1>1, <1>4 DEF Served
  <2>2. outMbx.kind # "emcy"
    BY <2>1 DEF Answered
  <2>3. sdo' = Received(outMbx) /\ outMbx \in Message
    BY <1>1, <2>2 DEF MailboxTyped
  <2>4. sdo'.pc \in {"idle", "send"} /\ Exact'
    BY <1>1, <2>1, <2>3, GentleAnswerUsed
  <2> QED
    BY <1>1, <1>2, <2>1, <2>4 DEF Handshake, Quiet
<1> QED
  BY <1>2, <1>3, <1>4

\* A read of the mailbox got lost, or found nothing: the repeat bit is toggled.
LEMMA GentleReadLost ==
  ASSUME MailboxTyped, Gentle, Handshake, Exact, MbxReadLost
  PROVE  Handshake' /\ Exact'
<1>1. /\ sdo.pc = "read"
      /\ sdo' = [sdo EXCEPT !.pc = "ack", !.want = ~repeatReq]
      /\ repeatReq' = ~repeatReq
      /\ outMbx' \in {outMbx, NoMsg}
      /\ outMbx = NoMsg => outMbx' = NoMsg
      /\ UNCHANGED <<env, inMbx, repeatAck, slave, stored>>
  BY DEF MbxReadLost, RequestRepeat, Gentle
<1>2. repeatReq = repeatAck /\ (InService \/ Served)
  BY <1>1 DEF Handshake, Underway
<1>3. /\ sdo'.pc = "ack" /\ sdo'.op = sdo.op /\ sdo'.index = sdo.index
      /\ sdo'.sub = sdo.sub /\ sdo'.segment = sdo.segment
      /\ sdo'.toggle = sdo.toggle /\ sdo'.left = sdo.left /\ sdo'.got = sdo.got
      /\ sdo'.want = repeatReq'
  BY <1>1 DEF MailboxTyped, Transfer
<1>4. /\ \A msg : Asked(msg) => Asked(msg)'
      /\ \A msg : Answered(msg) => Answered(msg)'
  BY <1>1, <1>3, DataKept
<1>5. repeatReq' # repeatAck'
  BY <1>1, <1>2 DEF MailboxTyped
<1>6. ASSUME InService PROVE InService'
  BY <1>1, <1>4, <1>6 DEF InService
<1>7. ASSUME Served PROVE Served'
  BY <1>1, <1>3, <1>4, <1>5, <1>7 DEF Served
<1>8. Handshake'
  BY <1>2, <1>3, <1>6, <1>7 DEF Handshake
<1> QED
  BY <1>3, <1>8 DEF Exact, Succeeded

\* The slave takes the request that is under way.
LEMMA GentleTake ==
  ASSUME MailboxTyped, Handshake, Exact, SlaveTake
  PROVE  Handshake' /\ Exact'
<1>1. /\ inMbx # NoMsg /\ inMbx' = NoMsg
      /\ slave' = [slave EXCEPT !.todo = inMbx]
      /\ UNCHANGED <<env, sdo, outMbx, repeatReq, repeatAck, stored>>
  BY DEF SlaveTake
<1>2. sdo.pc \in {"wait", "read", "ack"}
  BY <1>1 DEF Handshake, Quiet, MailboxTyped, Transfer
<1>3. Underway
  BY <1>1, <1>2 DEF Handshake, InService, Served
<1>4. /\ slave'.todo = inMbx /\ slave'.op = slave.op
      /\ slave'.index = slave.index /\ slave'.data = slave.data
      /\ slave'.toggle = slave.toggle
  BY <1>1 DEF MailboxTyped, Server
<1>5. Asked(inMbx) => Asked(slave.todo)'
  <2>1. \A msg : Asked(msg) => Asked(msg)'
    BY <1>1, <1>4, DataKept
  <2>2. Asked(inMbx) => \E msg : msg = slave'.todo /\ Asked(msg)'
    BY <1>4, <2>1
  <2> QED
    BY <2>2
<1>6. NoMsg # Emergency
  BY DEF NoMsg, Emergency, Msg
<1>7. InService'
  BY <1>1, <1>3, <1>4, <1>5, <1>6 DEF Underway, InService
<1> QED
  BY <1>1, <1>2, <1>3, <1>7 DEF Handshake, Exact, Succeeded, Underway

\* Its answer is the one that was asked for.
LEMMA GentleAnswered ==
  ASSUME MailboxTyped, Exact, SlaveAnswer, Asked(slave.todo), sdo' = sdo
  PROVE  Answered(slave.last)'
<1> DEFINE req == slave.todo
           msg == outMbx'
<1>0. /\ sdo \in Transfer /\ sdo.toggle \in BOOLEAN /\ sdo.got \in Values
      /\ sdo.left \in Values
      /\ slave.data \in Values /\ slave.toggle \in BOOLEAN
      /\ req \in Message /\ req.data \in Values /\ req.toggle \in BOOLEAN
      /\ req.last \in BOOLEAN
      /\ stored \in [Indices -> Values]
  BY DEF MailboxTyped, Transfer, Server, Message
<1>1. slave'.last = msg /\ Asked(req)
  BY AnswerCases
<1> HIDE DEF req
<1> SUFFICES \E m : m = msg /\ Answered(m)'
  BY <1>1
<1>2. CASE Uploaded(req)
  <2> DEFINE value == Value(req.index, req.sub)
  <2>1. /\ req.kind = "up" /\ Exists(req.index, req.sub)
        /\ msg = Msg("up", req.index, req.sub, First(value), Rest(value) = <<>>,
                     FALSE)
        /\ slave'.op = "read" /\ slave'.data = Rest(value)
        /\ slave'.toggle = FALSE
    BY <1>2 DEF Uploaded
  <2>2. /\ ~sdo.segment /\ ~sdo.toggle /\ sdo.op = "read"
        /\ req.index = sdo.index /\ req.sub = sdo.sub
    BY <1>1, <2>1 DEF Asked
  <2>3. First(value) \o Rest(value) = value
    BY <2>1, ValueType, FirstAndRest
  <2>4. /\ msg.kind = "up" /\ msg.index = sdo.index /\ msg.sub = sdo.sub
        /\ msg.data = First(value) /\ msg.last = (Rest(value) = <<>>)
    BY <2>1, <2>2 DEF Msg
  <2>5. value = Value(sdo.index, sdo.sub)
    BY <2>2
  <2> HIDE DEF value
  <2> QED
    BY <2>1, <2>2, <2>3, <2>4, <2>5 DEF Answered
<1>3. CASE SegmentUploaded(req)
  <2>1. /\ req.kind = "segup" /\ req.toggle = slave.toggle
        /\ msg = Msg("seg", 0, 0, First(slave.data), Rest(slave.data) = <<>>,
                     req.toggle)
        /\ slave'.op = "read" /\ slave'.data = Rest(slave.data)
        /\ slave'.toggle = ~slave.toggle
    BY <1>3 DEF SegmentUploaded, InTransfer
  <2>2. /\ sdo.segment /\ sdo.op = "read" /\ req.toggle = ~sdo.toggle
        /\ Exists(sdo.index, sdo.sub)
        /\ sdo.got \o slave.data = Value(sdo.index, sdo.sub)
    BY <1>1, <2>1 DEF Asked
  <2>3. slave'.toggle = sdo.toggle
    BY <1>0, <2>1, <2>2
  <2>4. (sdo.got \o First(slave.data)) \o Rest(slave.data)
          = Value(sdo.index, sdo.sub)
    <3>1. /\ First(slave.data) \o Rest(slave.data) = slave.data
          /\ First(slave.data) \in Values /\ Rest(slave.data) \in Values
      BY <1>0, FirstAndRest
    <3>2. (sdo.got \o First(slave.data)) \o Rest(slave.data)
            = sdo.got \o (First(slave.data) \o Rest(slave.data))
      <4>1. sdo.got \in Values
        BY <1>0
      <4>2. First(slave.data) \in Values /\ Rest(slave.data) \in Values
        BY <3>1
      <4> QED
        BY <4>1, <4>2, Associative
    <3> QED
      BY <2>2, <3>1, <3>2, Zenon
  <2>5. /\ msg.kind = "seg" /\ msg.data = First(slave.data)
        /\ msg.last = (Rest(slave.data) = <<>>)
    BY <2>1 DEF Msg
  <2>6. (sdo'.got \o msg.data) \o slave'.data = Value(sdo'.index, sdo'.sub)
    BY <2>1, <2>4, <2>5
  <2>7. /\ sdo'.segment /\ sdo'.op = "read" /\ Exists(sdo'.index, sdo'.sub)
        /\ slave'.op = "read" /\ slave'.toggle = sdo'.toggle
        /\ msg.last = (slave'.data = <<>>)
    BY <2>1, <2>2, <2>3, <2>5
  <2> QED
    BY <2>5, <2>6, <2>7 DEF Answered
<1>4. CASE Downloaded(req)
  <2>1. /\ req.kind = "down" /\ req.index \in Indices
        /\ msg = Msg("down", req.index, req.sub, <<>>, TRUE, FALSE)
        /\ slave'.op = "write" /\ slave'.index = req.index
        /\ slave'.toggle = FALSE
        /\ slave'.data = IF req.last THEN <<>> ELSE req.data
        /\ stored' = IF req.last THEN [stored EXCEPT ![req.index] = req.data]
                                 ELSE stored
    BY <1>4 DEF Downloaded
  <2>2. /\ ~sdo.segment /\ ~sdo.toggle /\ sdo.op = "write"
        /\ req.index = sdo.index /\ req.sub = sdo.sub
        /\ req.data \o sdo.left = sdo.got /\ req.last = (sdo.left = <<>>)
        /\ sdo.left # <<>> => req.data # <<>>
    BY <1>1, <2>1 DEF Asked
  <2>3. /\ msg.kind = "down" /\ msg.index = sdo.index /\ msg.sub = sdo.sub
    BY <2>1, <2>2 DEF Msg
  <2>4. sdo.left = <<>> => stored'[sdo.index] = sdo.got
    <3>1. req.data \o <<>> = req.data
      BY <1>0, ConcatEmptySeq DEF Values
    <3>2. ASSUME sdo.left = <<>> PROVE stored'[sdo.index] = req.data
      BY <1>0, <2>1, <2>2, <3>2
    <3> QED
      BY <2>2, <3>1, <3>2
  <2>5. sdo.left # <<>> =>
          /\ slave'.op = "write" /\ slave'.toggle = sdo.toggle
          /\ slave'.data # <<>> /\ slave'.index = sdo.index
          /\ slave'.data \o sdo.left = sdo.got
    BY <1>0, <2>1, <2>2
  <2> QED
    BY <2>2, <2>3, <2>4, <2>5 DEF Answered
<1>5. CASE SegmentDownloaded(req)
  <2> DEFINE data == slave.data \o req.data
  <2>1. /\ req.kind = "segdown" /\ req.toggle = slave.toggle
        /\ msg = Msg("segdown", 0, 0, <<>>, TRUE, req.toggle)
        /\ slave'.op = "write" /\ slave'.index = slave.index
        /\ slave'.toggle = ~slave.toggle
        /\ slave'.data = IF req.last THEN <<>> ELSE data
        /\ stored' = IF req.last THEN [stored EXCEPT ![slave.index] = data]
                                 ELSE stored
    BY <1>5 DEF SegmentDownloaded, InTransfer
  <2>2. /\ sdo.segment /\ sdo.op = "write" /\ req.toggle = ~sdo.toggle
        /\ slave.data # <<>> /\ slave.index = sdo.index
        /\ data \o sdo.left = sdo.got /\ req.last = (sdo.left = <<>>)
    BY <1>1, <2>1 DEF Asked
  <2>3. slave'.toggle = sdo.toggle
    BY <1>0, <2>1, <2>2
  <2>4. msg.kind = "segdown"
    BY <2>1 DEF Msg
  <2>5. data \in Values /\ data # <<>>
    BY <1>0, <2>2, ConcatProperties, ConcatSimplifications DEF Values
  <2> HIDE DEF data
  <2>6. sdo.left = <<>> => stored'[sdo.index] = sdo.got
    <3>1. data \o <<>> = data
      BY <2>5, ConcatEmptySeq DEF Values
    <3>2. sdo.index \in Indices
      BY <2>2 DEF Exact
    <3>3. ASSUME sdo.left = <<>> PROVE stored'[sdo.index] = data
      BY <1>0, <2>1, <2>2, <3>2, <3>3
    <3> QED
      BY <2>2, <3>1, <3>3
  <2>7. sdo.left # <<>> =>
          /\ slave'.op = "write" /\ slave'.data # <<>>
          /\ slave'.index = sdo.index /\ slave'.data \o sdo.left = sdo.got
    BY <1>0, <2>1, <2>2, <2>5
  <2> QED
    BY <2>2, <2>3, <2>4, <2>6, <2>7 DEF Answered
<1>6. CASE Aborted(req)
  <2>1. msg.kind = "abort"
    BY <1>6 DEF Aborted, Msg
  <2> QED
    BY <2>1 DEF Answered
<1> QED
  BY <1>2, <1>3, <1>4, <1>5, <1>6, AnswerCases DEF req

\* The slave answers once, and sends no second answer before the next request.
LEMMA GentleAnswer ==
  ASSUME MailboxTyped, Handshake, Exact, SlaveAnswer
  PROVE  Handshake' /\ Exact'
<1>1. /\ outMbx = NoMsg /\ slave.todo # NoMsg /\ slave'.todo = NoMsg
      /\ slave'.last = outMbx' /\ outMbx' \in Message
      /\ UNCHANGED <<env, sdo, inMbx, repeatReq, repeatAck>>
  BY AnswerCases DEF SlaveAnswer
<1>2. sdo.pc \in {"wait", "read", "ack"}
  BY <1>1 DEF Handshake, Quiet, MailboxTyped, Transfer
<1>3. InService
  BY <1>1, <1>2 DEF Handshake, Underway, Served
<1>4. Answered(slave.last)'
  BY <1>1, <1>3, GentleAnswered DEF InService
<1>5. slave'.last # NoMsg /\ slave'.last # Emergency
  <2>1. slave'.last.kind \in {"abort", "up", "seg", "segdown", "down"}
    BY <1>4 DEF Answered
  <2>2. NoMsg.kind = "none" /\ Emergency.kind = "emcy"
    BY DEF NoMsg, Emergency, Msg
  <2> QED
    BY <2>1, <2>2
<1>6. Served'
  BY <1>1, <1>3, <1>4, <1>5 DEF Served, InService
<1> QED
  BY <1>1, <1>2, <1>6 DEF Handshake, Exact, Succeeded

\* The repeat that was asked for: what is read again is what was missed.
LEMMA GentleRepeat ==
  ASSUME MailboxTyped, Handshake, Exact, SlaveRepeat
  PROVE  Handshake' /\ Exact'
<1>1. /\ repeatReq # repeatAck /\ repeatAck' = repeatReq
      /\ outMbx' = IF outMbx = NoMsg THEN slave.last ELSE outMbx
      /\ UNCHANGED <<env, sdo, inMbx, repeatReq, slave, stored>>
  BY DEF SlaveRepeat
<1>2. sdo.pc = "ack" /\ (InService \/ Served)
  BY <1>1 DEF Handshake, Quiet, MailboxTyped, Transfer, Underway
<1>3. /\ \A msg : Asked(msg) => Asked(msg)'
      /\ \A msg : Answered(msg) => Answered(msg)'
  BY <1>1, DataKept
<1>4. ASSUME InService PROVE InService'
  BY <1>1, <1>2, <1>3, <1>4 DEF InService
<1>5. ASSUME Served PROVE Served'
  BY <1>1, <1>2, <1>3, <1>5 DEF Served
<1> QED
  BY <1>1, <1>2, <1>4, <1>5 DEF Handshake, Exact, Succeeded

\* An emergency comes before the answer.
LEMMA GentleEmergency ==
  ASSUME MailboxTyped, Handshake, Exact, SlaveEmergency
  PROVE  Handshake' /\ Exact'
<1>1. /\ outMbx = NoMsg /\ slave.todo # NoMsg /\ outMbx' = Emergency
      /\ slave' = [slave EXCEPT !.last = Emergency]
      /\ UNCHANGED <<env, sdo, inMbx, repeatReq, repeatAck, stored>>
  BY DEF SlaveEmergency, Emergency
<1>2. /\ slave'.last = Emergency /\ slave'.todo = slave.todo
      /\ slave'.op = slave.op /\ slave'.index = slave.index
      /\ slave'.data = slave.data /\ slave'.toggle = slave.toggle
  BY <1>1 DEF MailboxTyped, Server
<1>3. sdo.pc \in {"wait", "read", "ack"}
  BY <1>1 DEF Handshake, Quiet, MailboxTyped, Transfer
<1>4. InService
  BY <1>1, <1>3 DEF Handshake, Underway, Served
<1>5. \A msg : Asked(msg) => Asked(msg)'
  BY <1>1, <1>2, DataKept
<1>6. InService'
  BY <1>1, <1>2, <1>4, <1>5 DEF InService
<1> QED
  BY <1>1, <1>3, <1>6 DEF Handshake, Exact, Succeeded

\* What a step asks of the mailboxes: nothing, a call, or one of their own.
LEMMA StepCalls ==
  ASSUME Typed, [Next]_vars
  PROVE  /\ \/ UNCHANGED mvars
            \/ \E index, sub, room : SDOread(index, sub, room)
            \/ \E index \in Indices : \E data : SDOwrite(index, data)
            \/ MNext
         /\ env' = env
<1>1. CASE StartMapping
  <2>1. \E index, sub, room : SDOread(index, sub, room)
    BY <1>1 DEF StartMapping
  <2> QED
    BY <2>1, EnvironmentStays DEF SDOread
<1>2. CASE Mapping
  BY <1>2, MappingStepType, EnvironmentStays DEF Asks
<1>3. CASE Write
  BY <1>3 DEF Write, SDOwrite
<1>4. CASE UNCHANGED vars
  BY <1>4 DEF vars, mvars
<1>5. CASE MNext
  BY <1>5, EnvironmentStays
<1> QED
  BY <1>1, <1>2, <1>3, <1>4, <1>5 DEF Next

\* Every step keeps both: a call of a caller, and a step of the mailboxes.
LEMMA GentleStep ==
  ASSUME Typed, Gentle, Handshake, Exact, [Next]_vars
  PROVE  Handshake' /\ Exact'
<1>1. CASE UNCHANGED mvars
  <2>1. UNCHANGED <<sdo, inMbx, outMbx, repeatReq, repeatAck, slave, stored>>
    BY <1>1 DEF mvars
  <2>2. /\ Ready => Ready'
        /\ \A msg : Asked(msg) => Asked(msg)'
        /\ \A msg : Answered(msg) => Answered(msg)'
    BY <2>1, DataKept
  <2>3. Quiet => Quiet'
    BY <2>1 DEF Quiet
  <2>4. Underway => Underway'
    BY <2>1, <2>2 DEF Underway
  <2>5. InService => InService'
    BY <2>1, <2>2 DEF InService
  <2>6. Served => Served'
    BY <2>1, <2>2 DEF Served
  <2>7. Handshake'
    BY <2>1, <2>3, <2>4, <2>5, <2>6 DEF Handshake
  <2>8. Exact'
    BY <2>1, <2>2 DEF Exact, Succeeded
  <2> QED
    BY <2>7, <2>8
<1>2. CASE \/ \E index, sub, room : SDOread(index, sub, room)
           \/ \E index \in Indices : \E data : SDOwrite(index, data)
  BY <1>2, GentleCall DEF Typed
<1>3. CASE MNext
  <2>1. MailboxTyped
    BY DEF Typed
  <2>2. \/ Drain \/ MbxSend \/ MbxAvailable \/ MbxReceive \/ MbxReadLost
        \/ SlaveTake \/ SlaveAnswer \/ SlaveRepeat \/ SlaveEmergency
    BY <1>3, NothingTimesOut DEF MNext, Master
  <2> QED
    BY <2>1, <2>2, GentleDrain, GentleSend, GentleAvailable,
       GentleReceive, GentleReadLost, GentleTake, GentleAnswer, GentleRepeat,
       GentleEmergency
<1> QED
  BY <1>1, <1>2, <1>3, StepCalls

\* With losses that repeat requests make good, the transfers are exact.
LEMMA GentleAlways == Spec => []GentleTransfer
<1>1. Init => GentleTransfer
  <2> SUFFICES ASSUME Init PROVE Handshake /\ Exact
    BY DEF GentleTransfer
  <2>1. /\ sdo = SdoIdle /\ slave = SlaveIdle /\ inMbx = NoMsg /\ outMbx = NoMsg
        /\ repeatReq = FALSE /\ repeatAck = FALSE
    BY DEF Init, MInit
  <2>2. /\ sdo.pc = "idle" /\ sdo.op = "read" /\ sdo.ok = FALSE
        /\ slave.todo = NoMsg
    BY <2>1 DEF SdoIdle, SlaveIdle
  <2> QED
    BY <2>1, <2>2 DEF Handshake, Quiet, Exact, Succeeded
<1>2. Typed /\ GentleTransfer /\ [Next]_vars => GentleTransfer'
  <2> SUFFICES ASSUME Typed, GentleTransfer, [Next]_vars, Gentle'
               PROVE  Handshake' /\ Exact'
    BY DEF GentleTransfer
  <2>1. env' = env
    BY StepCalls
  <2>2. Gentle
    BY <2>1 DEF Gentle
  <2> QED
    BY <2>2, GentleStep DEF GentleTransfer
<1> QED
  BY <1>1, <1>2, TypedAlways, PTL DEF Spec

\* A read that reports success returns the value it asked for (ecx_SDOread),
\* although neither counter nor toggle bit of an answer is looked at: there is
\* never more than one request, or the answer to it, on its way.
THEOREM ReadsAreRight == Spec => []ReadIsRight
<1>1. GentleTransfer => ReadIsRight
  BY DEF GentleTransfer, Exact, ReadIsRight
<1> QED
  BY <1>1, GentleAlways, PTL

\* A write that reports success is what the slave has stored (ecx_SDOwrite).
THEOREM WritesAreRight == Spec => []WriteIsRight
<1>1. GentleTransfer => WriteIsRight
  BY DEF GentleTransfer, Exact, WriteIsRight
<1> QED
  BY <1>1, GentleAlways, PTL

\* Sums of the same terms are the same.
LEMMA TotalSame ==
  ASSUME NEW n \in Nat, NEW f, NEW g, \A k \in 1 .. n : f[k] = g[k]
  PROVE  Total(f, n) = Total(g, n)
<1> DEFINE T == {k \in Nat : k <= n => Total(f, k) = Total(g, k)}
<1>1. 0 \in T
  BY TotalStep
<1>2. ASSUME NEW k \in T PROVE k + 1 \in T
  <2>1. /\ k \in Nat /\ Total(f, k + 1) = Total(f, k) + f[k + 1]
        /\ Total(g, k + 1) = Total(g, k) + g[k + 1]
    BY TotalStep
  <2>2. k + 1 <= n => Total(f, k) = Total(g, k) /\ f[k + 1] = g[k + 1]
    BY <2>1
  <2> QED
    BY <2>1, <2>2
<1>3. T \subseteq Nat
  OBVIOUS
<1>4. T = Nat
  <2> HIDE DEF T
  <2> QED
    BY <1>1, <1>2, <1>3, SetInduction
<1> QED
  BY <1>4

-----------------------------------------------------------------------------
(* A read of what the slave has, into a buffer that it fits, succeeds.     *)

(* Nothing to refuse.                                                      *)
Welcome ==
  /\ sdo.op = "read" /\ Exists(sdo.index, sdo.sub)
  /\ Bytes(sdo.index, sdo.sub) <= sdo.room

Granted ==
  Welcome =>
    /\ sdo.pc = "idle" => sdo.ok
    /\ /\ sdo.pc \in {"wait", "read", "ack"}
       /\ inMbx = NoMsg /\ slave.todo = NoMsg
       => slave.last.kind # "abort"

\* The slave does not abort such a read.
LEMMA AnswerGranted ==
  ASSUME MailboxTyped, Handshake, SlaveAnswer, Welcome
  PROVE  sdo'.pc # "idle" /\ slave'.last.kind # "abort"
<1>1. slave.todo # NoMsg /\ sdo' = sdo
  BY DEF SlaveAnswer
<1>2. sdo.pc \in {"wait", "read", "ack"}
  BY <1>1 DEF Handshake, Quiet, MailboxTyped, Transfer
<1>3. Asked(slave.todo)
  BY <1>1, <1>2 DEF Handshake, Underway, InService, Served
<1>4. \/ slave.todo.kind = "up" /\ Exists(slave.todo.index, slave.todo.sub)
      \/ InTransfer(slave.todo, "segup", "read")
  BY <1>3 DEF Asked, Welcome, InTransfer
<1>5. ~AnswerAbort(slave.todo)
  BY <1>4 DEF AnswerAbort
<1>6. \/ AnswerUpload(slave.todo) \/ AnswerSegment(slave.todo)
      \/ AnswerDownload(slave.todo) \/ AnswerDownSegment(slave.todo)
  BY <1>5 DEF SlaveAnswer
<1>7. outMbx'.kind \in {"up", "seg", "down", "segdown"} /\ slave'.last = outMbx'
  BY <1>6, AnswerCases
     DEF AnswerUpload, AnswerSegment, AnswerDownload, AnswerDownSegment,
         Answer, Msg, MailboxTyped, Server
<1> QED
  BY <1>1, <1>2, <1>7

\* An answer that is no abort is taken, and leads to the end or further.
LEMMA ReceiptGranted ==
  ASSUME MailboxTyped, Handshake, Exact, Granted, Welcome, MbxReceive
  PROVE  \/ sdo'.pc \in {"read", "send"} /\ inMbx' = inMbx /\ slave' = slave
         \/ sdo'.pc = "idle" /\ sdo'.ok
<1>1. /\ sdo.pc = "read" /\ outMbx # NoMsg
      /\ sdo' = IF outMbx.kind = "emcy" THEN sdo ELSE Received(outMbx)
      /\ UNCHANGED <<inMbx, slave>>
  BY DEF MbxReceive
<1>2. CASE outMbx.kind = "emcy"
  BY <1>1, <1>2
<1>3. CASE outMbx.kind # "emcy"
  <2>1. Served
    BY <1>1, <1>3 DEF Handshake, Underway, InService, Emergency, Msg
  <2>2. /\ outMbx = slave.last /\ inMbx = NoMsg /\ slave.todo = NoMsg
        /\ Answered(outMbx)
    BY <1>1, <2>1 DEF Served
  <2>3. outMbx.kind # "abort"
    BY <1>1, <2>2 DEF Granted
  <2>4. sdo \in Transfer /\ outMbx \in Message
    BY DEF MailboxTyped
  <2> DEFINE s == [sdo EXCEPT !.got = outMbx.data]
             t == [sdo EXCEPT !.got = @ \o outMbx.data]
  <2>5. \E r \in {s, t} : sdo' \in {Finish(r, TRUE), NextSegment(r)}
    <3>1. CASE ~sdo.segment
      <4>1. /\ outMbx.kind = "up" /\ outMbx.index = sdo.index
            /\ outMbx.sub = sdo.sub
        BY <2>2, <2>3, <3>1 DEF Answered, Welcome
      <4>2. AnswerToRead(outMbx) /\ Announced(outMbx) <= sdo.room
        BY <4>1 DEF AnswerToRead, Announced, Welcome
      <4>3. Received(outMbx) = IF outMbx.last THEN Finish(s, TRUE) ELSE NextSegment(s)
        BY <3>1, <4>2 DEF Received, Welcome
      <4> QED
        BY <1>1, <1>3, <4>3
    <3>2. CASE sdo.segment
      <4>1. outMbx.kind = "seg"
        BY <2>2, <2>3, <3>2 DEF Answered, Welcome
      <4>2. Received(outMbx) = IF outMbx.last THEN Finish(t, TRUE) ELSE NextSegment(t)
        BY <3>2, <4>1 DEF Received, Welcome
      <4> QED
        BY <1>1, <1>3, <4>2
    <3> QED
      BY <3>1, <3>2
  <2>6. s \in Transfer /\ t \in Transfer
    <3>1. outMbx.data \in Values /\ sdo.got \o outMbx.data \in Values
      BY <2>4, ConcatProperties DEF Message, Transfer, Values
    <3> QED
      BY <2>4, <3>1 DEF Transfer
  <2> HIDE DEF s, t
  <2>7. PICK r \in Transfer : sdo' \in {Finish(r, TRUE), NextSegment(r)}
    BY <2>5, <2>6
  <2> QED
    BY <1>1, <2>7 DEF Finish, NextSegment, Transfer
<1> QED
  BY <1>2, <1>3

\* Every step keeps the promise.
LEMMA GrantedStep ==
  ASSUME Typed, Gentle, Handshake, Exact, Granted, [Next]_vars
  PROVE  Granted'
<1>0. MailboxTyped
  BY DEF Typed
<1>1. CASE UNCHANGED mvars
  BY <1>1 DEF mvars, Granted, Welcome
<1>2. CASE \/ \E index, sub, room : SDOread(index, sub, room)
           \/ \E index \in Indices : \E data : SDOwrite(index, data)
  <2>1. sdo'.pc = "drain"
    BY <1>2 DEF SDOread, SDOwrite, SdoIdle
  <2> QED
    BY <2>1 DEF Granted
<1>3. CASE MNext
  <2>1. Welcome' <=> Welcome
    BY <1>0, <1>3, CallStays DEF Welcome
  <2> SUFFICES ASSUME Welcome
               PROVE  /\ sdo'.pc = "idle" => sdo'.ok
                      /\ /\ sdo'.pc \in {"wait", "read", "ack"}
                         /\ inMbx' = NoMsg /\ slave'.todo = NoMsg
                         => slave'.last.kind # "abort"
    BY <2>1 DEF Granted
  <2>2. \/ Drain \/ MbxSend \/ MbxAvailable \/ MbxReceive \/ MbxReadLost
        \/ SlaveTake \/ SlaveAnswer \/ SlaveRepeat \/ SlaveEmergency
    BY <1>0, <1>3, NothingTimesOut DEF MNext, Master
  <2>3. CASE Drain
    BY <1>0, <2>3 DEF Drain, MailboxTyped, Transfer
  <2>4. CASE MbxSend
    <3>1. inMbx' = Request /\ sdo' = [Sent EXCEPT !.pc = "wait"]
      BY <2>4 DEF MbxSend, MayLose, Gentle
    <3>2. inMbx' # NoMsg
      BY <3>1 DEF Request, NoMsg, Msg
    <3>3. sdo'.pc = "wait"
      BY <1>0, <3>1, RequestType DEF Transfer, MailboxTyped, Sent
    <3> QED
      BY <3>2, <3>3
  <2>5. CASE MbxAvailable
    <3>1. /\ sdo.pc \in {"wait", "ack"} /\ sdo'.pc = "read"
          /\ UNCHANGED <<inMbx, slave>>
      BY <1>0, <2>5 DEF MbxAvailable, MailboxTyped, Transfer
    <3> QED
      BY <3>1 DEF Granted
  <2>6. CASE MbxReceive
    <3>1. sdo.pc = "read"
      BY <2>6 DEF MbxReceive
    <3> QED
      BY <1>0, <2>6, <3>1, ReceiptGranted DEF Granted
  <2>7. CASE MbxReadLost
    <3>1. sdo.pc = "read" /\ sdo'.pc = "ack" /\ UNCHANGED <<inMbx, slave>>
      BY <1>0, <2>7 DEF MbxReadLost, MailboxTyped, Transfer
    <3> QED
      BY <3>1 DEF Granted
  <2>8. CASE SlaveTake
    <3>1. slave'.todo # NoMsg /\ sdo' = sdo
      BY <1>0, <2>8 DEF SlaveTake, MailboxTyped, Server
    <3> QED
      BY <3>1 DEF Granted
  <2>9. CASE SlaveAnswer
    BY <1>0, <2>9, AnswerGranted
  <2>10. CASE SlaveRepeat
    BY <2>10 DEF SlaveRepeat, Granted
  <2>11. CASE SlaveEmergency
    <3>1. slave'.todo # NoMsg /\ sdo' = sdo
      BY <1>0, <2>11 DEF SlaveEmergency, MailboxTyped, Server
    <3> QED
      BY <3>1 DEF Granted
  <2> QED
    BY <2>2, <2>3, <2>4, <2>5, <2>6, <2>7, <2>8, <2>9, <2>10, <2>11
<1> QED
  BY <1>1, <1>2, <1>3, StepCalls

-----------------------------------------------------------------------------
(* The mapping, with reads that succeed.                                   *)

Types == Od[ECT_SDO_SMCOMMTYPE]
Assignment(i) == Od[ECT_SDO_PDOASSIGN + i]

(* What the sums are of: the sync managers of a type, the PDOs of one.     *)
SMSizes(t) ==
  [k \in 1 .. Len(Types) - 2 |-> IF Types[k + 2] = t THEN SMBits(k + 1) ELSE 0]
PDOSizes(i) ==
  [k \in 1 .. Len(Assignment(i)) |-> PDOBits(Assignment(i)[k])]

(* The read under way.                                                     *)
Called(index, sub, room) ==
  /\ sdo.op = "read" /\ sdo.index = index
  /\ sdo.sub = IF map.ca THEN ALL ELSE sub
  /\ sdo.room = IF map.ca THEN Large ELSE room

Waiting ==
  /\ map.pc = "types" => Called(ECT_SDO_SMCOMMTYPE, 0, 1)
  /\ map.pc = "type" => Called(ECT_SDO_SMCOMMTYPE, map.iSM + 1, 1)
  /\ map.pc = "counted" => Called(ECT_SDO_PDOASSIGN + map.iSM, 0, 2)
  /\ map.pc = "pdoindex" =>
       Called(ECT_SDO_PDOASSIGN + map.iSM, map.idxloop, 2)
  /\ map.pc = "entries" => Called(map.idx, 0, 1)
  /\ map.pc = "bits" => Called(map.idx, map.subidxloop, 4)

(* What has been found out, in locals m, structures b and types found st.  *)
Found(m, b) ==
  /\ m.nSM = Len(Types) /\ m.nSM > 2 /\ m.bug = 0 /\ m.iSM <= m.nSM
  /\ m.Osize = Total(SMSizes(3), m.iSM - 2)
  /\ m.Isize = Total(SMSizes(4), m.iSM - 2)
  /\ m.ca => \A k \in 1 .. Len(Types) : At(b.types, k + 1) = Types[k]
ProcessData(m, st) ==
  /\ m.iSM < m.nSM
  /\ st[m.iSM] = Types[m.iSM + 1] /\ Types[m.iSM + 1] \in {3, 4}
PDOs(m, b) ==
  /\ m.nidx = Len(Assignment(m.iSM))
  /\ m.idxloop \in 1 .. m.nidx + 1
  /\ m.bsize = Total(PDOSizes(m.iSM), m.idxloop - 1)
                 + (IF m.pc \in {"entry", "bits"}
                    THEN Total(Od[m.idx], m.subidxloop - 1) ELSE 0)
  /\ m.ca => \A k \in 1 .. m.nidx : At(b.assign, k + 1) = Assignment(m.iSM)[k]
PDO(m) ==
  /\ m.idxloop <= m.nidx
  /\ m.idx = Assignment(m.iSM)[m.idxloop]
Entries(m) ==
  /\ ~m.ca /\ m.subidx = Len(Od[m.idx])
  /\ m.subidxloop \in 1 .. m.subidx + 1
  /\ m.pc = "bits" => m.subidxloop <= m.subidx

Right(m, b, st) ==
  /\ m.pc = "types" => m.iSM = 2 /\ m.bug = 0 /\ m.Osize = 0 /\ m.Isize = 0
  /\ m.pc \notin {"idle", "types"} => Found(m, b)
  /\ m.pc = "type" => ~m.ca /\ m.iSM < m.nSM
  /\ m.pc \notin {"idle", "types", "sm", "type"} => ProcessData(m, st)
  /\ m.pc \in {"pdo", "pdoindex", "desc", "entries", "entry", "bits"} =>
       PDOs(m, b)
  /\ m.pc = "pdoindex" => ~m.ca /\ m.idxloop <= m.nidx
  /\ m.pc \in {"desc", "entries", "entry", "bits"} => PDO(m)
  /\ m.pc \in {"entry", "bits"} => Entries(m)

Mapped ==
  /\ Right(map, buf, SMtype) /\ Waiting /\ MappingIsRight

\* What a read of an object there is comes back with.
LEMMA ReadResult ==
  ASSUME MailboxTyped, Exact, Granted, WellFormed, sdo.pc = "idle",
         NEW index \in Indices, NEW sub \in 0 .. Len(Od[index]), NEW room,
         Called(index, sub, room), Bytes(index, sub) <= room
  PROVE  /\ sdo.ok
         /\ map.ca => sdo.got = Value(index, ALL)
         /\ ~map.ca => sdo.got = Value(index, sub)
<1>1. sdo.op = "read" /\ sdo.index = index
      /\ sdo.sub = (IF map.ca THEN ALL ELSE sub)
      /\ sdo.room = IF map.ca THEN Large ELSE room
  BY DEF Called
<1>2. Welcome
  <2>1. Bytes(index, ALL) <= Large
    BY DEF WellFormed
  <2>2. CASE map.ca
    BY <1>1, <2>1, <2>2 DEF Welcome, Exists
  <2>3. CASE ~map.ca
    BY <1>1, <2>3 DEF Welcome, Exists
  <2> QED
    BY <2>2, <2>3
<1>3. sdo.ok
  BY <1>2 DEF Granted
<1>4. sdo.got = Value(sdo.index, sdo.sub)
  BY <1>1, <1>3 DEF Exact, Succeeded
<1> QED
  BY <1>1, <1>3, <1>4

\* An object, and what its parts are.
LEMMA Parts ==
  ASSUME NEW index \in Indices
  PROVE  /\ Len(Od[index]) \in Nat /\ Od[index] \in Values
         /\ \A k \in 1 .. Len(Od[index]) : Od[index][k] \in Nat
         /\ At(Value(index, 0), 1) = Len(Od[index])
         /\ \A k \in 1 .. Len(Od[index]) :
              At(Value(index, k), 1) = Od[index][k]
         /\ Value(index, ALL) \in Values
         /\ Len(Value(index, ALL)) = Len(Od[index]) + 1
         /\ Value(index, ALL)[1] = Len(Od[index])
         /\ \A k \in 1 .. Len(Od[index]) :
              Value(index, ALL)[k + 1] = Od[index][k]
<1> DEFINE od == Od[index]
           n == Len(od)
<1>1. od \in Seq(Nat)
  BY DictionaryAssumption
<1> HIDE DEF od
<1>2. n \in Nat /\ \A k \in 1 .. n : od[k] \in Nat
  BY <1>1, ElementOfSeq
<1>3. At(Value(index, 0), 1) = n
  BY DEF Value, At, ALL, od
<1>4. ASSUME NEW k \in 1 .. n PROVE At(Value(index, k), 1) = od[k]
  <2>1. k # 0 /\ k # ALL
    BY <1>2 DEF ALL
  <2>2. Value(index, k) = <<od[k]>>
    BY <2>1 DEF Value, od
  <2> QED
    BY <2>2 DEF At
<1>5. Value(index, ALL) = <<n>> \o od
  <2>1. Value(index, ALL) = <<Len(Od[index])>> \o Od[index]
    BY DEF Value, ALL
  <2> QED
    BY <2>1 DEF od
<1> HIDE DEF n
<1>6. /\ <<n>> \o od \in Seq(Nat) /\ Len(<<n>> \o od) = Len(od) + 1
      /\ (<<n>> \o od)[1] = n
      /\ \A k \in 1 .. Len(od) : (<<n>> \o od)[k + 1] = od[k]
  <2>1. <<n>> \in Seq(Nat) /\ Len(<<n>>) = 1 /\ <<n>>[1] = n
    BY <1>2
  <2>2. /\ <<n>> \o od \in Seq(Nat)
        /\ Len(<<n>> \o od) = Len(<<n>>) + Len(od)
        /\ \A i \in 1 .. Len(<<n>>) + Len(od) :
             (<<n>> \o od)[i] = IF i <= Len(<<n>>) THEN <<n>>[i]
                                ELSE od[i - Len(<<n>>)]
    BY <1>1, <2>1, ConcatProperties
  <2>3. Len(od) \in Nat
    BY <1>1
  <2> DEFINE v == <<n>> \o od
             one == <<n>>
  <2>4. \A i \in 1 .. 1 + Len(od) : v[i] = IF i <= 1 THEN one[1] ELSE od[i - 1]
    <3> SUFFICES ASSUME NEW i \in 1 .. 1 + Len(od)
                 PROVE v[i] = IF i <= 1 THEN one[1] ELSE od[i - 1]
      OBVIOUS
    <3>1. v[i] = IF i <= 1 THEN one[i] ELSE od[i - 1]
      BY <2>1, <2>2
    <3> QED
      BY <2>3, <3>1
  <2> HIDE DEF v
  <2>5. v[1] = n
    BY <2>1, <2>3, <2>4
  <2>6. \A k \in 1 .. Len(od) : v[k + 1] = od[k]
    <3> SUFFICES ASSUME NEW k \in 1 .. Len(od) PROVE v[k + 1] = od[k]
      OBVIOUS
    <3>1. k + 1 \in 1 .. 1 + Len(od) /\ ~(k + 1 <= 1) /\ (k + 1) - 1 = k
      BY <2>3
    <3> QED
      BY <2>4, <3>1
  <2>7. Len(v) = Len(od) + 1 /\ v \in Seq(Nat)
    BY <2>1, <2>2, <2>3 DEF v
  <2> QED
    BY <2>5, <2>6, <2>7 DEF v
<1> QED
  BY <1>1, <1>2, <1>3, <1>4, <1>5, <1>6 DEF od, n, Values

\* A structure that the whole object was copied into.
LEMMA FilledRight ==
  ASSUME NEW index \in Indices, NEW old \in Structures,
         sdo.got = Value(index, ALL)
  PROVE  /\ Filled(old)[1] = Len(Od[index])
         /\ \A k \in 1 .. Len(Od[index]) : At(Filled(old), k + 1) = Od[index][k]
<1> DEFINE g == sdo.got
           n == IF Len(g) > Len(old) THEN Len(g) ELSE Len(old)
<1>1. /\ Len(Od[index]) \in Nat /\ Len(g) = Len(Od[index]) + 1
      /\ g[1] = Len(Od[index])
      /\ \A k \in 1 .. Len(Od[index]) : g[k + 1] = Od[index][k]
  BY Parts
<1>2. Len(old) \in Nat
  BY DEF Structures, Values
<1>3. n \in Nat /\ Len(g) <= n
  BY <1>1, <1>2
<1>4. Filled(old) = [k \in 1 .. n |-> IF k <= Len(g) THEN g[k]
                                      ELSE IF k = 1 THEN 0 ELSE old[k]]
  BY DEF Filled
<1> HIDE DEF n, g
<1>5. \A k \in 1 .. Len(g) : Filled(old)[k] = g[k]
  BY <1>1, <1>3, <1>4
<1>6. Len(Filled(old)) = n
  BY <1>3, <1>4
<1>7. Filled(old)[1] = Len(Od[index])
  <2>1. 1 \in 1 .. Len(g)
    BY <1>1
  <2> QED
    BY <1>1, <1>5, <2>1
<1>8. ASSUME NEW k \in 1 .. Len(Od[index])
      PROVE  At(Filled(old), k + 1) = Od[index][k]
  <2>1. k + 1 \in 1 .. Len(g) /\ k + 1 \in 1 .. n
    BY <1>1, <1>3
  <2>2. At(Filled(old), k + 1) = g[k + 1]
    BY <1>5, <1>6, <2>1 DEF At
  <2> QED
    BY <1>1, <2>2
<1> QED
  BY <1>7, <1>8

\* What the dictionary promises of the types.
LEMMA TypesKnown ==
  ASSUME WellFormed
  PROVE  /\ Len(Types) \in 0 .. EC_MAXSM
         /\ \A k \in 1 .. Len(Types) : Types[k] \in Nat
         /\ Len(Types) >= 3 => Types[3] # 0 /\ Types[3] # 2
         /\ Len(Types) >= 4 => Types[4] # 0
<1>1. ECT_SDO_SMCOMMTYPE \in Indices /\ Len(Types) <= EC_MAXSM
  BY DEF WellFormed, Types
<1>2. Len(Types) \in Nat /\ \A k \in 1 .. Len(Types) : Types[k] \in Nat
  BY <1>1, Parts DEF Types
<1>3. Len(Types) \in 0 .. EC_MAXSM
  <2> DEFINE n == Len(Types)
  <2>1. EC_MAXSM = 8
    BY DEF EC_MAXSM
  <2>2. n <= EC_MAXSM /\ n \in Nat
    BY <1>1, <1>2
  <2> HIDE DEF n
  <2>3. n \in 0 .. EC_MAXSM
    BY <2>1, <2>2
  <2> QED
    BY <2>3 DEF n
<1> QED
  BY <1>2, <1>3 DEF WellFormed, Types

\* The same of the assignment of a sync manager that has one.
LEMMA AssignmentKnown ==
  ASSUME WellFormed, NEW i \in 2 .. Len(Types) - 1, Types[i + 1] \in {3, 4}
  PROVE  /\ ECT_SDO_PDOASSIGN + i \in Indices
         /\ EntryBytes[ECT_SDO_PDOASSIGN + i] <= 2
         /\ Len(Assignment(i)) \in Nat
         /\ \A k \in 1 .. Len(Assignment(i)) :
              /\ Assignment(i)[k] \in Indices /\ Assignment(i)[k] \in Nat
              /\ Assignment(i)[k] > 0 /\ EntryBytes[Assignment(i)[k]] = 4
<1>1. /\ ECT_SDO_PDOASSIGN + i \in Indices
      /\ EntryBytes[ECT_SDO_PDOASSIGN + i] <= 2
      /\ \A k \in 1 .. Len(Assignment(i)) : Assignment(i)[k] \in Indices
  BY DEF WellFormed, Types, Assignment
<1>2. Len(Assignment(i)) \in Nat
  BY <1>1, Parts DEF Assignment
<1>3. i \in 2 .. EC_MAXSM - 1
  <2>1. EC_MAXSM = 8 /\ Len(Types) \in 0 .. EC_MAXSM
    BY TypesKnown DEF EC_MAXSM
  <2> QED
    BY <2>1
<1>4. ASSUME NEW k \in 1 .. Len(Assignment(i))
      PROVE  EntryBytes[Assignment(i)[k]] = 4
  BY <1>1, <1>3, <1>4, PdoAssumption DEF Assignment
<1>5. \A j \in Indices : j \in Nat /\ j > 0
  BY DictionaryAssumption
<1> QED
  BY <1>1, <1>2, <1>4, <1>5

\* A sync manager before the last type is within the array of types.
LEMMA WithinSMs ==
  ASSUME NEW len \in 0 .. EC_MAXSM, NEW i \in 2 .. len - 1
  PROVE  i \in 2 .. EC_MAXSM - 1
<1>1. EC_MAXSM = 8
  BY DEF EC_MAXSM
<1> QED
  BY <1>1

\* The sums over sync managers, one further.
LEMMA OneMoreSM ==
  ASSUME WellFormed, NEW t, NEW i \in 2 .. Len(Types) - 1
  PROVE  Total(SMSizes(t), i - 1) =
           Total(SMSizes(t), i - 2) + (IF Types[i + 1] = t THEN SMBits(i) ELSE 0)
<1>1. Len(Types) \in Nat
  BY TypesKnown
<1>2. i - 2 \in Nat /\ (i - 2) + 1 = i - 1 /\ i - 1 \in 1 .. Len(Types) - 2
  BY <1>1
<1>3. Total(SMSizes(t), i - 1) = Total(SMSizes(t), i - 2) + SMSizes(t)[i - 1]
  BY <1>2, TotalStep
<1>4. (i - 1) + 2 = i + 1 /\ (i - 1) + 1 = i
  BY <1>1
<1>5. SMSizes(t)[i - 1] =
        IF Types[(i - 1) + 2] = t THEN SMBits((i - 1) + 1) ELSE 0
  BY <1>2 DEF SMSizes
<1> QED
  BY <1>3, <1>4, <1>5

\* What those sums are of.
LEMMA SMBitsNat ==
  ASSUME WellFormed, NEW i \in 2 .. Len(Types) - 1, Types[i + 1] \in {3, 4}
  PROVE  SMBits(i) \in Nat /\ SMBits(i) = Total(PDOSizes(i), Len(Assignment(i)))
<1>1. SMBits(i) = Total(PDOSizes(i), Len(Assignment(i)))
  BY DEF SMBits, PDOSizes, Assignment
<1>2. ASSUME NEW k \in 1 .. Len(Assignment(i))
      PROVE  PDOSizes(i)[k] \in Nat
  <2>1. Assignment(i)[k] \in Indices
    BY AssignmentKnown
  <2>2. PDOBits(Assignment(i)[k]) \in Nat
    BY <2>1, Parts, TotalNat DEF PDOBits
  <2> QED
    BY <2>2 DEF PDOSizes
<1> QED
  BY <1>1, <1>2, AssignmentKnown, TotalNat

\* Between reads and outside the end, only the locals matter.
LEMMA Between ==
  ASSUME map'.pc \in {"sm", "count", "pdo", "desc", "entry"},
         Right(map', buf', SMtype')
  PROVE  Mapped'
BY DEF Mapped, Waiting, MappingIsRight

\* The type of a sync manager is taken over as it is.
LEMMA UseTypeMapped ==
  ASSUME Typed, WellFormed, Found(map, buf), map.iSM < map.nSM,
         UseType(Types[map.iSM + 1])
  PROVE  Mapped'
<1> DEFINE i == map.iSM
           t == Types[i + 1]
<1>1. map \in Locals /\ SMtype \in [2 .. EC_MAXSM - 1 -> Nat]
  BY DEF Typed, MapTyped
<1>2. /\ i \in 2 .. Len(Types) - 1 /\ Len(Types) \in 0 .. EC_MAXSM
      /\ map.nSM = Len(Types) /\ map.nSM > 2 /\ map.bug = 0
  <2>1. i \in 2 .. EC_MAXSM /\ i < Len(Types) /\ Len(Types) \in 0 .. EC_MAXSM
    BY <1>1, TypesKnown DEF Found, Locals
  <2>2. EC_MAXSM = 8
    BY DEF EC_MAXSM
  <2> QED
    BY <2>1, <2>2 DEF Found
<1>3. EC_MAXSM = 8
  BY DEF EC_MAXSM
<1>4. t \in Nat /\ (i = 2 => t # 0 /\ t # 2) /\ (i = 3 => t # 0)
  <2>1. i + 1 \in 1 .. Len(Types)
    BY <1>2, <1>3
  <2> QED
    BY <1>2, <2>1, TypesKnown
<1>5. Corrected(t, 0) = t
  <2>1. (IF t > 0 THEN t + 0 ELSE t) = t
    BY <1>4
  <2>2. ~(t = 0 /\ i \in {2, 3})
    BY <1>4
  <2> QED
    BY <2>1, <2>2 DEF Corrected
<1>6. (IF i = 2 /\ t = 2 THEN 1 ELSE map.bug) = 0
  BY <1>2, <1>4
<1>7. /\ SMtype' = [SMtype EXCEPT ![i] = t]
      /\ map' = IF t \in {3, 4} THEN [map EXCEPT !.pc = "count", !.bug = 0]
                ELSE [map EXCEPT !.pc = "sm", !.bug = 0, !.iSM = @ + 1]
      /\ UNCHANGED <<mvars, buf, bits, calls>>
  <2>1. UseType(t)
    OBVIOUS
  <2> HIDE DEF t
  <2>2. SMtype' = [SMtype EXCEPT ![i] = t]
    BY <1>5, <1>6, <2>1 DEF UseType
  <2>3. map' = IF t \in {3, 4} THEN [map EXCEPT !.pc = "count", !.bug = 0]
               ELSE [map EXCEPT !.pc = "sm", !.bug = 0, !.iSM = @ + 1]
    BY <1>5, <1>6, <2>1 DEF UseType
  <2>4. UNCHANGED <<mvars, buf, bits, calls>>
    BY <2>1 DEF UseType
  <2> QED
    BY <2>2, <2>3, <2>4
<1>8. SMtype'[i] = t
  <2>1. i \in 2 .. EC_MAXSM - 1
    <3>1. Len(Types) \in 0 .. EC_MAXSM /\ i \in 2 .. Len(Types) - 1
      BY <1>2
    <3> HIDE DEF i
    <3> QED
      BY <3>1, WithinSMs
  <2> QED
    BY <1>1, <1>7, <2>1
<1>9. CASE t \in {3, 4}
  <2>1. /\ map'.pc = "count" /\ map'.iSM = i /\ map'.nSM = map.nSM
        /\ map'.bug = 0 /\ map'.ca = map.ca
        /\ map'.Osize = map.Osize /\ map'.Isize = map.Isize
    BY <1>1, <1>7, <1>9 DEF Locals
  <2>2. Found(map', buf')
    BY <1>7, <2>1 DEF Found
  <2>3. ProcessData(map', SMtype')
    BY <1>8, <1>9, <2>1 DEF ProcessData
  <2>4. Right(map', buf', SMtype')
    BY <2>1, <2>2, <2>3 DEF Right
  <2> QED
    BY <2>1, <2>4, Between
<1>10. CASE t \notin {3, 4}
  <2>1. /\ map'.pc = "sm" /\ map'.iSM = i + 1 /\ map'.nSM = map.nSM
        /\ map'.bug = 0 /\ map'.ca = map.ca
        /\ map'.Osize = map.Osize /\ map'.Isize = map.Isize
    BY <1>1, <1>7, <1>10 DEF Locals
  <2>2. /\ Total(SMSizes(3), i - 1) = Total(SMSizes(3), i - 2) + 0
        /\ Total(SMSizes(4), i - 1) = Total(SMSizes(4), i - 2) + 0
    <3>1. /\ Total(SMSizes(3), i - 1) = Total(SMSizes(3), i - 2)
               + (IF Types[i + 1] = 3 THEN SMBits(i) ELSE 0)
          /\ Total(SMSizes(4), i - 1) = Total(SMSizes(4), i - 2)
               + (IF Types[i + 1] = 4 THEN SMBits(i) ELSE 0)
      <4>1. i \in 2 .. Len(Types) - 1
        BY <1>2
      <4> HIDE DEF i
      <4> QED
        BY <4>1, OneMoreSM
    <3>2. Types[i + 1] # 3 /\ Types[i + 1] # 4
      BY <1>10
    <3> QED
      BY <3>1, <3>2
  <2>3. (i + 1) - 2 = i - 1 /\ i + 1 <= map.nSM
    BY <1>2, <1>3
  <2>4. map.Osize \in Nat /\ map.Isize \in Nat
    BY <1>1 DEF Locals
  <2>5. map.Osize = Total(SMSizes(3), i - 2) /\ map.Isize = Total(SMSizes(4), i - 2)
    BY DEF Found
  <2>6. map'.Osize = Total(SMSizes(3), i - 1) /\ map'.Isize = Total(SMSizes(4), i - 1)
    BY <2>1, <2>2, <2>4, <2>5
  <2>7. Found(map', buf')
    BY <1>7, <2>1, <2>3, <2>6 DEF Found
  <2>8. Right(map', buf', SMtype')
    BY <2>1, <2>7 DEF Right
  <2> QED
    BY <2>1, <2>8, Between
<1> QED
  BY <1>9, <1>10

\* A sync manager's process data is added to its direction.
LEMMA AssignedMapped ==
  ASSUME Typed, WellFormed, Found(map, buf), ProcessData(map, SMtype),
         map' = Assigned(map, SMBits(map.iSM)),
         buf'.types = buf.types, SMtype' = SMtype
  PROVE  Mapped'
<1> DEFINE i == map.iSM
           n == SMBits(i)
<1>1. map \in Locals
  BY DEF Typed, MapTyped
<1>2. /\ i \in 2 .. Len(Types) - 1 /\ Len(Types) \in 0 .. EC_MAXSM
      /\ map.nSM = Len(Types) /\ map.nSM > 2 /\ map.bug = 0
  <2>1. i \in 2 .. EC_MAXSM /\ i < Len(Types) /\ Len(Types) \in 0 .. EC_MAXSM
    BY <1>1, TypesKnown DEF Found, ProcessData, Locals
  <2>2. EC_MAXSM = 8
    BY DEF EC_MAXSM
  <2> QED
    BY <2>1, <2>2 DEF Found
<1>3. EC_MAXSM = 8
  BY DEF EC_MAXSM
<1>4. Types[i + 1] \in {3, 4} /\ SMtype[i] = Types[i + 1]
  BY DEF ProcessData
<1>5. n \in Nat
  BY <1>2, <1>4, SMBitsNat
<1>6. /\ map.Osize = Total(SMSizes(3), i - 2)
      /\ map.Isize = Total(SMSizes(4), i - 2)
      /\ map.Osize \in Nat /\ map.Isize \in Nat
  BY <1>1 DEF Found, Locals
<1>7. /\ Total(SMSizes(3), i - 1) =
           map.Osize + (IF Types[i + 1] = 3 THEN n ELSE 0)
      /\ Total(SMSizes(4), i - 1) =
           map.Isize + (IF Types[i + 1] = 4 THEN n ELSE 0)
  BY <1>2, <1>6, OneMoreSM, SMTT(30)
<1>8. /\ map'.pc = "sm" /\ map'.iSM = i + 1 /\ map'.nSM = map.nSM
      /\ map'.bug = 0 /\ map'.ca = map.ca
  BY <1>1, <1>2 DEF Assigned, Locals
<1> HIDE DEF n
<1>9. /\ map'.Osize = IF SMtype[i] = 3 THEN map.Osize + n ELSE map.Osize
      /\ map'.Isize = IF SMtype[i] = 3 THEN map.Isize ELSE map.Isize + n
  BY <1>1 DEF Assigned, Locals, n
<1>10. map'.Osize = Total(SMSizes(3), i - 1) /\ map'.Isize = Total(SMSizes(4), i - 1)
  <2>1. CASE Types[i + 1] = 3
    BY <1>4, <1>5, <1>6, <1>7, <1>9, <2>1
  <2>2. CASE Types[i + 1] = 4
    BY <1>4, <1>5, <1>6, <1>7, <1>9, <2>2
  <2> QED
    BY <1>4, <2>1, <2>2
<1>11. (i + 1) - 2 = i - 1 /\ i + 1 <= map.nSM
  BY <1>2, <1>3
<1>12. Found(map', buf')
  BY <1>2, <1>8, <1>10, <1>11 DEF Found
<1>13. Right(map', buf', SMtype')
  BY <1>8, <1>12 DEF Right
<1> QED
  BY <1>8, <1>13, Between

(* Where a mapping is while a read is under way that is not its first.     *)
Reads == {"type", "counted", "pdoindex", "entries", "bits"}

\* What a read changes.
LEMMA ReadBegun ==
  ASSUME map \in Locals, NEW pc \in Reads, NEW index, NEW sub, NEW room,
         Read(map, pc, index, sub, room)
  PROVE  /\ map' = [map EXCEPT !.pc = pc] /\ map'.pc = pc
         /\ sdo'.op = "read" /\ sdo'.index = index
         /\ sdo'.sub = IF map.ca THEN ALL ELSE sub
         /\ sdo'.room = IF map.ca THEN Large ELSE room
         /\ UNCHANGED <<buf, SMtype, bits, calls>>
<1>1. /\ map' = [map EXCEPT !.pc = pc]
      /\ SDOread(index, IF map.ca THEN ALL ELSE sub, IF map.ca THEN Large ELSE room)
      /\ UNCHANGED <<buf, SMtype, bits, calls>>
  BY DEF Read
<1>2. map'.pc = pc
  BY <1>1 DEF Locals
<1>3. sdo' = [SdoIdle EXCEPT !.pc = "drain", !.op = "read", !.index = index,
                !.sub = IF map.ca THEN ALL ELSE sub,
                !.room = IF map.ca THEN Large ELSE room]
  BY <1>1 DEF SDOread
<1> QED
  BY <1>1, <1>2, <1>3 DEF SdoIdle

\* The other locals of a mapping that goes on to read.
LEMMA LocalsKept ==
  ASSUME map \in Locals, NEW pc \in Reads, map' = [map EXCEPT !.pc = pc]
  PROVE  /\ map'.pc = pc /\ map'.ca = map.ca
         /\ map'.iSM = map.iSM /\ map'.nSM = map.nSM /\ map'.bug = map.bug
         /\ map'.idxloop = map.idxloop /\ map'.nidx = map.nidx
         /\ map'.idx = map.idx /\ map'.subidxloop = map.subidxloop
         /\ map'.subidx = map.subidx /\ map'.bsize = map.bsize
         /\ map'.Osize = map.Osize /\ map'.Isize = map.Isize
BY DEF Locals

\* The next PDO is the one that is assigned next.
LEMMA UsePDOMapped ==
  ASSUME Typed, WellFormed, Found(map, buf), ProcessData(map, SMtype),
         PDOs(map, buf), map.pc \in {"pdo", "pdoindex"},
         map.idxloop <= map.nidx,
         map' = UsePDO(Assignment(map.iSM)[map.idxloop]),
         buf' = buf, SMtype' = SMtype
  PROVE  Mapped'
<1> DEFINE pdo == Assignment(map.iSM)[map.idxloop]
<1>1. map \in Locals
  BY DEF Typed, MapTyped
<1>2. map.iSM \in 2 .. Len(Types) - 1 /\ Types[map.iSM + 1] \in {3, 4}
  <2>1. /\ map.iSM \in 2 .. EC_MAXSM /\ map.iSM < Len(Types)
        /\ Len(Types) \in 0 .. EC_MAXSM
    BY <1>1, TypesKnown DEF Found, ProcessData, Locals
  <2>2. EC_MAXSM = 8
    BY DEF EC_MAXSM
  <2> QED
    BY <2>1, <2>2 DEF ProcessData
<1>3. pdo > 0
  <2>1. map.idxloop \in 1 .. Len(Assignment(map.iSM))
    BY <1>1 DEF PDOs, Locals
  <2> QED
    BY <1>2, <2>1, AssignmentKnown
<1>4. map' = [map EXCEPT !.pc = "desc", !.idx = pdo]
  BY <1>3 DEF UsePDO
<1>5. /\ map'.pc = "desc" /\ map'.ca = map.ca /\ map'.idx = pdo
      /\ map'.iSM = map.iSM /\ map'.nSM = map.nSM /\ map'.bug = map.bug
      /\ map'.idxloop = map.idxloop /\ map'.nidx = map.nidx
      /\ map'.bsize = map.bsize
      /\ map'.Osize = map.Osize /\ map'.Isize = map.Isize
  BY <1>1, <1>4 DEF Locals
<1>6. Found(map', buf')
  BY <1>5 DEF Found
<1>7. ProcessData(map', SMtype')
  BY <1>5 DEF ProcessData
<1>8. PDOs(map', buf')
  BY <1>5 DEF PDOs
<1>9. PDO(map')
  BY <1>5 DEF PDO
<1>10. Right(map', buf', SMtype')
  BY <1>5, <1>6, <1>7, <1>8, <1>9 DEF Right
<1> QED
  BY <1>5, <1>10, Between

\* The next mapping begins with the number of sync managers.
LEMMA Begun ==
  ASSUME NEW ca \in BOOLEAN,
         map'.pc = "types", map'.ca = ca, map'.iSM = 2, map'.bug = 0,
         map'.Osize = 0, map'.Isize = 0,
         SDOread(ECT_SDO_SMCOMMTYPE, IF ca THEN ALL ELSE 0,
                 IF ca THEN Large ELSE 1)
  PROVE  Mapped'
<1>1. sdo' = [SdoIdle EXCEPT !.pc = "drain", !.op = "read",
                !.index = ECT_SDO_SMCOMMTYPE, !.sub = IF ca THEN ALL ELSE 0,
                !.room = IF ca THEN Large ELSE 1]
  BY DEF SDOread
<1>2. /\ sdo'.op = "read" /\ sdo'.index = ECT_SDO_SMCOMMTYPE
      /\ sdo'.sub = (IF ca THEN ALL ELSE 0)
      /\ sdo'.room = (IF ca THEN Large ELSE 1)
  BY <1>1 DEF SdoIdle
<1>3. Right(map', buf', SMtype')
  BY DEF Right
<1>4. Waiting'
  BY <1>2 DEF Waiting, Called
<1> QED
  BY <1>3, <1>4 DEF Mapped, MappingIsRight

\* It ends with the sizes found.
LEMMA EndMapped ==
  ASSUME Typed, WellFormed, EndMapping(map), map.pc # "idle",
         \/ map.Osize = 0 /\ map.Isize = 0
         \/ Found(map, buf) /\ map.iSM = map.nSM
  PROVE  Mapped'
<1>1. map \in Locals
  BY DEF Typed, MapTyped
<1> DEFINE found == map.Isize > 0 \/ map.Osize > 0
<1>2. CASE map.ca /\ ~found
  <2>1. /\ map' = [MapIdle EXCEPT !.pc = "types"]
        /\ SDOread(ECT_SDO_SMCOMMTYPE, 0, 1)
    BY <1>2 DEF EndMapping
  <2>2. /\ map'.pc = "types" /\ map'.ca = FALSE /\ map'.iSM = 2
        /\ map'.bug = 0 /\ map'.Osize = 0 /\ map'.Isize = 0
    BY <2>1 DEF MapIdle
  <2> QED
    BY <2>1, <2>2, Begun
<1>3. CASE ~(map.ca /\ ~found)
  <2>1. /\ map' = [map EXCEPT !.pc = "idle", !.ret = found]
        /\ bits' = [O |-> map.Osize, I |-> map.Isize]
    BY <1>3 DEF EndMapping
  <2>2. map'.pc = "idle" /\ map'.ret = found
    BY <1>1, <2>1 DEF Locals
  <2>3. Right(map', buf', SMtype') /\ Waiting'
    BY <2>2 DEF Right, Waiting
  <2>4. ASSUME found PROVE bits' = [O |-> TrueBits(3), I |-> TrueBits(4)]
    <3>1. map.Osize \in Nat /\ map.Isize \in Nat
      BY <1>1 DEF Locals
    <3>2. Found(map, buf) /\ map.iSM = map.nSM
      BY <2>4, <3>1
    <3>3. /\ map.Osize = Total(SMSizes(3), Len(Types) - 2)
          /\ map.Isize = Total(SMSizes(4), Len(Types) - 2)
      BY <3>2 DEF Found
    <3>4. \A t : TrueBits(t) = Total(SMSizes(t), Len(Types) - 2)
      BY DEF TrueBits, SMSizes, Types
    <3> QED
      BY <2>1, <3>3, <3>4
  <2>5. MappingIsRight'
    BY <2>2, <2>4 DEF MappingIsRight
  <2> QED
    BY <2>3, <2>5 DEF Mapped
<1> QED
  BY <1>2, <1>3

\* Where a mapping is that reads a sync manager's process data.
LEMMA Here ==
  ASSUME Typed, WellFormed, Found(map, buf), ProcessData(map, SMtype)
  PROVE  /\ map.iSM \in 2 .. Len(Types) - 1 /\ Types[map.iSM + 1] \in {3, 4}
         /\ ECT_SDO_PDOASSIGN + map.iSM \in Indices
         /\ EntryBytes[ECT_SDO_PDOASSIGN + map.iSM] <= 2
         /\ Len(Assignment(map.iSM)) \in Nat
         /\ \A k \in 1 .. Len(Assignment(map.iSM)) :
              /\ Assignment(map.iSM)[k] \in Indices
              /\ Assignment(map.iSM)[k] \in Nat /\ Assignment(map.iSM)[k] > 0
              /\ EntryBytes[Assignment(map.iSM)[k]] = 4
<1>1. map.iSM \in 2 .. Len(Types) - 1 /\ Types[map.iSM + 1] \in {3, 4}
  <2>1. /\ map.iSM \in 2 .. EC_MAXSM /\ map.iSM < Len(Types)
        /\ Len(Types) \in 0 .. EC_MAXSM
    BY TypesKnown DEF Typed, MapTyped, Found, ProcessData, Locals
  <2>2. EC_MAXSM = 8
    BY DEF EC_MAXSM
  <2> QED
    BY <2>1, <2>2 DEF ProcessData
<1> QED
  BY <1>1, AssignmentKnown

\* What one value takes.
LEMMA OneValue ==
  ASSUME NEW index
  PROVE  /\ Bytes(index, 0) = 1
         /\ \A k \in Nat \ {0} : Bytes(index, k) = EntryBytes[index]
BY DEF Bytes, ALL

\* The number of sync managers.
LEMMA MapTypesRead ==
  ASSUME Typed, WellFormed, Exact, Granted, Mapped, TypesRead
  PROVE  Mapped'
<1> DEFINE types == IF map.ca THEN Filled(buf.types) ELSE buf.types
           n == IF map.ca THEN types[1] ELSE At(sdo.got, 1)
<1>1. /\ map.pc = "types" /\ sdo.pc = "idle"
      /\ buf' = [buf EXCEPT !.types = types]
      /\ IF sdo.ok /\ n > 2
         THEN /\ map' = [map EXCEPT !.pc = "sm",
                           !.nSM = IF n > EC_MAXSM THEN EC_MAXSM ELSE n]
              /\ UNCHANGED <<mvars, SMtype, bits, calls>>
         ELSE EndMapping(map)
  BY DEF TypesRead, Returned
<1>2. /\ map \in Locals /\ buf.types \in Structures /\ MailboxTyped
      /\ buf \in [types : Structures, assign : Structures, desc : Structures]
  BY DEF Typed, MapTyped
<1>3. map.iSM = 2 /\ map.bug = 0 /\ map.Osize = 0 /\ map.Isize = 0
  BY <1>1 DEF Mapped, Right
<1>4. ECT_SDO_SMCOMMTYPE \in Indices /\ Called(ECT_SDO_SMCOMMTYPE, 0, 1)
  BY <1>1 DEF WellFormed, Mapped, Waiting
<1>5. Len(Types) \in Nat
  BY <1>4, Parts DEF Types
<1>6. /\ map.ca => sdo.got = Value(ECT_SDO_SMCOMMTYPE, ALL)
      /\ ~map.ca => sdo.got = Value(ECT_SDO_SMCOMMTYPE, 0)
  <2>1. 0 \in 0 .. Len(Od[ECT_SDO_SMCOMMTYPE])
    BY <1>5 DEF Types
  <2>2. Bytes(ECT_SDO_SMCOMMTYPE, 0) <= 1
    BY OneValue
  <2> QED
    BY <1>1, <1>2, <1>4, <2>1, <2>2, ReadResult
<1>7. /\ n = Len(Types)
      /\ map.ca => \A k \in 1 .. Len(Types) : At(types, k + 1) = Types[k]
  <2>1. CASE map.ca
    BY <1>2, <1>4, <1>6, <2>1, FilledRight DEF Types
  <2>2. CASE ~map.ca
    BY <1>4, <1>6, <2>2, Parts DEF Types
  <2> QED
    BY <2>1, <2>2
<1>8. buf'.types = types
  BY <1>1, <1>2
<1> HIDE DEF types, n
<1>9. CASE sdo.ok /\ n > 2
  <2>1. (IF n > EC_MAXSM THEN EC_MAXSM ELSE n) = Len(Types)
    <3>1. Len(Types) \in 0 .. EC_MAXSM /\ EC_MAXSM = 8
      BY TypesKnown DEF EC_MAXSM
    <3> QED
      BY <1>7, <3>1
  <2>2. map' = [map EXCEPT !.pc = "sm", !.nSM = Len(Types)]
    BY <1>1, <1>9, <2>1
  <2>3. /\ map'.pc = "sm" /\ map'.ca = map.ca /\ map'.nSM = Len(Types)
        /\ map'.iSM = 2 /\ map'.bug = 0 /\ map'.Osize = 0 /\ map'.Isize = 0
    BY <1>2, <1>3, <2>2 DEF Locals
  <2>4. Total(SMSizes(3), 0) = 0 /\ Total(SMSizes(4), 0) = 0
    BY TotalStep
  <2>5. map'.iSM <= map'.nSM /\ map'.nSM > 2 /\ map'.iSM - 2 = 0
    BY <1>5, <1>7, <1>9, <2>3
  <2>6. Found(map', buf')
    BY <1>7, <1>8, <2>3, <2>4, <2>5 DEF Found
  <2>7. Right(map', buf', SMtype')
    BY <2>3, <2>6 DEF Right
  <2> QED
    BY <2>3, <2>7, Between
<1>10. CASE ~(sdo.ok /\ n > 2)
  BY <1>1, <1>3, <1>10, EndMapped
<1> QED
  BY <1>9, <1>10

\* Before the last sync manager there is one more type to use.
LEMMA NextTypeKnown ==
  ASSUME WellFormed, map \in Locals, Found(map, buf), map.iSM < map.nSM
  PROVE  /\ map.iSM + 1 \in 1 .. Len(Types) /\ Len(Types) \in Nat
         /\ (map.iSM + 1) + 1 = map.iSM + 2
<1>1. map.iSM \in Nat
  <2>1. map.iSM \in 2 .. EC_MAXSM
    BY DEF Locals
  <2>2. EC_MAXSM = 8
    BY DEF EC_MAXSM
  <2> QED
    BY <2>1, <2>2
<1>2. map.nSM = Len(Types)
  BY DEF Found
<1>3. Len(Types) \in Nat
  <2>1. Len(Types) \in 0 .. EC_MAXSM /\ EC_MAXSM = 8
    BY TypesKnown DEF EC_MAXSM
  <2> QED
    BY <2>1
<1> QED
  BY <1>1, <1>2, <1>3

\* The next sync manager.
LEMMA MapNextSM ==
  ASSUME Typed, WellFormed, Mapped, NextSM
  PROVE  Mapped'
<1>1. /\ map.pc = "sm" /\ map.iSM < map.nSM
      /\ IF map.ca THEN UseType(At(buf.types, map.iSM + 2))
         ELSE Read(map, "type", ECT_SDO_SMCOMMTYPE, map.iSM + 1, 1)
  BY DEF NextSM
<1>2. map \in Locals
  BY DEF Typed, MapTyped
<1>3. Found(map, buf)
  BY <1>1 DEF Mapped, Right
<1>4. CASE map.ca
  <2>1. map.iSM + 1 \in 1 .. Len(Types) /\ (map.iSM + 1) + 1 = map.iSM + 2
    BY <1>1, <1>2, <1>3, NextTypeKnown
  <2>2. At(buf.types, (map.iSM + 1) + 1) = Types[map.iSM + 1]
    BY <1>3, <1>4, <2>1 DEF Found
  <2>3. UseType(Types[map.iSM + 1])
    BY <1>1, <1>4, <2>1, <2>2
  <2> QED
    BY <1>1, <1>3, <2>3, UseTypeMapped
<1>5. CASE ~map.ca
  <2>1. Read(map, "type", ECT_SDO_SMCOMMTYPE, map.iSM + 1, 1)
    BY <1>1, <1>5
  <2>2. /\ map' = [map EXCEPT !.pc = "type"] /\ map'.pc = "type"
        /\ sdo'.op = "read" /\ sdo'.index = ECT_SDO_SMCOMMTYPE
        /\ sdo'.sub = map.iSM + 1 /\ sdo'.room = 1
        /\ UNCHANGED <<buf, SMtype, bits, calls>>
    <3>1. /\ map' = [map EXCEPT !.pc = "type"] /\ map'.pc = "type"
          /\ sdo'.op = "read" /\ sdo'.index = ECT_SDO_SMCOMMTYPE
          /\ sdo'.sub = (IF map.ca THEN ALL ELSE map.iSM + 1)
          /\ sdo'.room = (IF map.ca THEN Large ELSE 1)
          /\ UNCHANGED <<buf, SMtype, bits, calls>>
      BY <1>2, <2>1, ReadBegun DEF Reads
    <3> QED
      BY <1>5, <3>1
  <2>3. /\ map'.ca = map.ca /\ map'.iSM = map.iSM /\ map'.nSM = map.nSM
        /\ map'.bug = map.bug
        /\ map'.Osize = map.Osize /\ map'.Isize = map.Isize
    BY <1>2, <2>2, LocalsKept DEF Reads
  <2>4. Found(map', buf')
    BY <1>3, <2>2, <2>3 DEF Found
  <2>5. Right(map', buf', SMtype')
    BY <1>1, <1>5, <2>2, <2>3, <2>4 DEF Right
  <2>6. Waiting'
    BY <1>5, <2>2, <2>3 DEF Waiting, Called
  <2> QED
    BY <2>2, <2>5, <2>6 DEF Mapped, MappingIsRight
<1> QED
  BY <1>4, <1>5

\* The end of the mapping.
LEMMA MapLastSM ==
  ASSUME Typed, WellFormed, Mapped, LastSM
  PROVE  Mapped'
<1>1. map.pc = "sm" /\ map.iSM >= map.nSM /\ EndMapping(map)
  BY DEF LastSM
<1>2. Found(map, buf)
  BY <1>1 DEF Mapped, Right
<1>3. map.iSM = map.nSM
  BY <1>1, <1>2 DEF Found, Typed, MapTyped, Locals
<1> QED
  BY <1>1, <1>2, <1>3, EndMapped

\* A type that was read.
LEMMA MapTypeRead ==
  ASSUME Typed, WellFormed, Exact, Granted, Mapped, TypeRead
  PROVE  Mapped'
<1>1. /\ map.pc = "type" /\ sdo.pc = "idle"
      /\ sdo.ok => UseType(At(sdo.got, 1))
  BY DEF TypeRead, Returned
<1>2. map \in Locals /\ MailboxTyped
  BY DEF Typed, MapTyped
<1>3. Found(map, buf) /\ ~map.ca /\ map.iSM < map.nSM
  BY <1>1 DEF Mapped, Right
<1>4. /\ ECT_SDO_SMCOMMTYPE \in Indices /\ EntryBytes[ECT_SDO_SMCOMMTYPE] = 1
      /\ Called(ECT_SDO_SMCOMMTYPE, map.iSM + 1, 1)
  BY <1>1 DEF WellFormed, Mapped, Waiting
<1>5. map.iSM + 1 \in 1 .. Len(Types) /\ Len(Types) \in Nat
  BY <1>2, <1>3, NextTypeKnown
<1>6. sdo.ok /\ sdo.got = Value(ECT_SDO_SMCOMMTYPE, map.iSM + 1)
  <2>1. map.iSM + 1 \in 0 .. Len(Od[ECT_SDO_SMCOMMTYPE])
    BY <1>5 DEF Types
  <2>2. Bytes(ECT_SDO_SMCOMMTYPE, map.iSM + 1) <= 1
    BY <1>4, <1>5, OneValue
  <2> QED
    BY <1>1, <1>2, <1>3, <1>4, <2>1, <2>2, ReadResult
<1>7. At(sdo.got, 1) = Types[map.iSM + 1]
  BY <1>4, <1>5, <1>6, Parts DEF Types
<1>8. UseType(Types[map.iSM + 1])
  BY <1>1, <1>6, <1>7
<1> QED
  BY <1>3, <1>8, UseTypeMapped

\* The number of PDOs of a sync manager is asked for.
LEMMA MapReadCount ==
  ASSUME Typed, WellFormed, Mapped, ReadCount
  PROVE  Mapped'
<1>1. /\ map.pc = "count"
      /\ Read(map, "counted", ECT_SDO_PDOASSIGN + map.iSM, 0, 2)
  BY DEF ReadCount
<1>2. map \in Locals
  BY DEF Typed, MapTyped
<1>3. Found(map, buf) /\ ProcessData(map, SMtype)
  BY <1>1 DEF Mapped, Right
<1>4. /\ map' = [map EXCEPT !.pc = "counted"] /\ map'.pc = "counted"
      /\ sdo'.op = "read" /\ sdo'.index = ECT_SDO_PDOASSIGN + map.iSM
      /\ sdo'.sub = (IF map.ca THEN ALL ELSE 0)
      /\ sdo'.room = (IF map.ca THEN Large ELSE 2)
      /\ UNCHANGED <<buf, SMtype, bits, calls>>
  BY <1>1, <1>2, ReadBegun DEF Reads
<1>5. /\ map'.ca = map.ca /\ map'.iSM = map.iSM /\ map'.nSM = map.nSM
      /\ map'.bug = map.bug
      /\ map'.Osize = map.Osize /\ map'.Isize = map.Isize
  BY <1>2, <1>4, LocalsKept DEF Reads
<1>6. Found(map', buf') /\ ProcessData(map', SMtype')
  BY <1>3, <1>4, <1>5 DEF Found, ProcessData
<1>7. Right(map', buf', SMtype')
  BY <1>4, <1>6 DEF Right
<1>8. Waiting'
  BY <1>4, <1>5 DEF Waiting, Called
<1> QED
  BY <1>4, <1>7, <1>8 DEF Mapped, MappingIsRight

\* It is found, by either kind of access.
LEMMA MapCounted ==
  ASSUME Typed, WellFormed, Exact, Granted, Mapped, Counted
  PROVE  Mapped'
<1> DEFINE index == ECT_SDO_PDOASSIGN + map.iSM
           assign == IF map.ca THEN Filled(buf.assign) ELSE buf.assign
           n == IF map.ca THEN assign[1] ELSE At(sdo.got, 1)
<1>1. /\ map.pc = "counted" /\ sdo.pc = "idle"
      /\ buf' = [buf EXCEPT !.assign = assign]
      /\ map' = IF sdo.ok /\ n > 0 THEN FirstPDO(n) ELSE Assigned(map, 0)
      /\ SMtype' = SMtype
  BY DEF Counted, Returned
<1>2. /\ map \in Locals /\ buf.assign \in Structures /\ MailboxTyped
      /\ buf \in [types : Structures, assign : Structures, desc : Structures]
  BY DEF Typed, MapTyped
<1>3. Found(map, buf) /\ ProcessData(map, SMtype)
  BY <1>1 DEF Mapped, Right
<1>4. /\ index \in Indices /\ Called(index, 0, 2)
      /\ Len(Assignment(map.iSM)) \in Nat
      /\ map.iSM \in 2 .. Len(Types) - 1 /\ Types[map.iSM + 1] \in {3, 4}
  BY <1>1, <1>3, Here DEF Mapped, Waiting
<1>5. /\ sdo.ok
      /\ map.ca => sdo.got = Value(index, ALL)
      /\ ~map.ca => sdo.got = Value(index, 0)
  <2>1. 0 \in 0 .. Len(Od[index])
    BY <1>4 DEF Assignment
  <2>2. Bytes(index, 0) <= 2
    BY OneValue
  <2> HIDE DEF index
  <2> QED
    BY <1>1, <1>2, <1>4, <2>1, <2>2, ReadResult
<1>6. /\ n = Len(Assignment(map.iSM))
      /\ map.ca => \A k \in 1 .. Len(Assignment(map.iSM)) :
                     At(assign, k + 1) = Assignment(map.iSM)[k]
  <2>1. Assignment(map.iSM) = Od[index]
    BY DEF Assignment
  <2> HIDE DEF index
  <2>2. CASE map.ca
    BY <1>2, <1>4, <1>5, <2>1, <2>2, FilledRight
  <2>3. CASE ~map.ca
    BY <1>4, <1>5, <2>1, <2>3, Parts
  <2> QED
    BY <2>2, <2>3
<1>7. buf'.assign = assign /\ buf'.types = buf.types
  BY <1>1, <1>2
<1> HIDE DEF assign, n, index
<1>8. CASE n > 0
  <2>1. map' = [map EXCEPT !.pc = "pdo", !.nidx = n, !.idxloop = 1, !.bsize = 0]
    BY <1>1, <1>5, <1>8 DEF FirstPDO
  <2>2. /\ map'.pc = "pdo" /\ map'.nidx = n /\ map'.idxloop = 1 /\ map'.bsize = 0
        /\ map'.ca = map.ca /\ map'.iSM = map.iSM /\ map'.nSM = map.nSM
        /\ map'.bug = map.bug
        /\ map'.Osize = map.Osize /\ map'.Isize = map.Isize
    BY <1>2, <2>1 DEF Locals
  <2>3. Found(map', buf')
    BY <1>3, <1>7, <2>2 DEF Found
  <2>4. ProcessData(map', SMtype')
    BY <1>1, <1>3, <2>2 DEF ProcessData
  <2>5. PDOs(map', buf')
    <3>1. Total(PDOSizes(map.iSM), 0) = 0
      BY TotalStep
    <3>2. map'.idxloop \in 1 .. map'.nidx + 1 /\ map'.idxloop - 1 = 0
      BY <1>4, <1>6, <2>2
    <3>3. map'.bsize = Total(PDOSizes(map'.iSM), map'.idxloop - 1) + 0
      BY <2>2, <3>1, <3>2
    <3> QED
      BY <1>6, <1>7, <2>2, <3>2, <3>3 DEF PDOs
  <2>6. Right(map', buf', SMtype')
    BY <2>2, <2>3, <2>4, <2>5 DEF Right
  <2> QED
    BY <2>2, <2>6, Between
<1>9. CASE ~(n > 0)
  <2>1. Len(Assignment(map.iSM)) = 0
    BY <1>4, <1>6, <1>9
  <2>2. SMBits(map.iSM) = 0
    BY <1>4, <2>1, SMBitsNat, TotalStep
  <2>3. map' = Assigned(map, SMBits(map.iSM))
    BY <1>1, <1>9, <2>2
  <2> QED
    BY <1>1, <1>3, <1>7, <2>3, AssignedMapped
<1> QED
  BY <1>8, <1>9

\* The next PDO.
LEMMA MapNextPDO ==
  ASSUME Typed, WellFormed, Mapped, NextPDO
  PROVE  Mapped'
<1>1. map.pc = "pdo" /\ map \in Locals
  BY DEF NextPDO, Typed, MapTyped
<1>2. Found(map, buf) /\ ProcessData(map, SMtype) /\ PDOs(map, buf)
  BY <1>1 DEF Mapped, Right
<1>3. /\ Len(Assignment(map.iSM)) \in Nat /\ map.nidx = Len(Assignment(map.iSM))
      /\ map.idxloop \in 1 .. map.nidx + 1
      /\ map.iSM \in 2 .. Len(Types) - 1 /\ Types[map.iSM + 1] \in {3, 4}
  BY <1>2, Here DEF PDOs
<1>4. CASE PDOsDone
  <2>1. /\ map' = Assigned(map, map.bsize)
        /\ UNCHANGED <<buf, SMtype>>
    BY <1>4 DEF NextPDO
  <2>2. map.idxloop - 1 = Len(Assignment(map.iSM))
    BY <1>3, <1>4 DEF PDOsDone
  <2>3. map.bsize \in Nat /\ Total(PDOSizes(map.iSM), map.idxloop - 1) \in Nat
    BY <1>1, <1>3, <2>2, SMBitsNat DEF Locals
  <2>4. map.bsize = Total(PDOSizes(map.iSM), map.idxloop - 1) + 0
    BY <1>1, <1>2 DEF PDOs
  <2>5. map.bsize = SMBits(map.iSM)
    BY <1>3, <2>2, <2>3, <2>4, SMBitsNat
  <2> QED
    BY <1>2, <2>1, <2>5, AssignedMapped
<1>5. CASE ~PDOsDone /\ map.ca
  <2>1. map.idxloop \in 1 .. map.nidx
    BY <1>3, <1>5 DEF PDOsDone
  <2>2. At(buf.assign, map.idxloop + 1) = Assignment(map.iSM)[map.idxloop]
    BY <1>2, <1>5, <2>1 DEF PDOs
  <2>3. /\ map' = UsePDO(At(buf.assign, map.idxloop + 1))
        /\ buf' = buf /\ SMtype' = SMtype
    BY <1>5 DEF NextPDO
  <2>4. map' = UsePDO(Assignment(map.iSM)[map.idxloop])
    BY <2>2, <2>3
  <2>5. map.idxloop <= map.nidx
    BY <2>1
  <2> QED
    BY <1>1, <1>2, <2>3, <2>4, <2>5, UsePDOMapped
<1>6. CASE ~PDOsDone /\ ~map.ca
  <2>1. map.idxloop <= map.nidx
    BY <1>3, <1>6 DEF PDOsDone
  <2>2. Read(map, "pdoindex", ECT_SDO_PDOASSIGN + map.iSM, map.idxloop, 2)
    BY <1>6 DEF NextPDO
  <2>3. /\ map' = [map EXCEPT !.pc = "pdoindex"] /\ map'.pc = "pdoindex"
        /\ sdo'.op = "read" /\ sdo'.index = ECT_SDO_PDOASSIGN + map.iSM
        /\ sdo'.sub = (IF map.ca THEN ALL ELSE map.idxloop)
        /\ sdo'.room = (IF map.ca THEN Large ELSE 2)
        /\ UNCHANGED <<buf, SMtype, bits, calls>>
    BY <1>1, <2>2, ReadBegun DEF Reads
  <2>4. /\ map'.ca = map.ca /\ map'.iSM = map.iSM /\ map'.nSM = map.nSM
        /\ map'.bug = map.bug /\ map'.idxloop = map.idxloop
        /\ map'.nidx = map.nidx /\ map'.bsize = map.bsize
        /\ map'.Osize = map.Osize /\ map'.Isize = map.Isize
    BY <1>1, <2>3, LocalsKept DEF Reads
  <2>5. Found(map', buf') /\ ProcessData(map', SMtype')
    BY <1>2, <2>3, <2>4 DEF Found, ProcessData
  <2>6. PDOs(map', buf')
    <3>1. map.bsize = Total(PDOSizes(map.iSM), map.idxloop - 1) + 0
      BY <1>1, <1>2 DEF PDOs
    <3> QED
      BY <1>2, <2>3, <2>4, <3>1 DEF PDOs
  <2>7. Right(map', buf', SMtype')
    BY <1>6, <2>1, <2>3, <2>4, <2>5, <2>6 DEF Right
  <2>8. Waiting'
    BY <2>3, <2>4 DEF Waiting, Called
  <2> QED
    BY <2>3, <2>7, <2>8 DEF Mapped, MappingIsRight
<1> QED
  BY <1>4, <1>5, <1>6

\* The index of a PDO that was read.
LEMMA MapPDOIndexRead ==
  ASSUME Typed, WellFormed, Exact, Granted, Mapped, PDOIndexRead
  PROVE  Mapped'
<1> DEFINE index == ECT_SDO_PDOASSIGN + map.iSM
<1>1. /\ map.pc = "pdoindex" /\ sdo.pc = "idle" /\ map' = UsePDO(At(sdo.got, 1))
      /\ buf' = buf /\ SMtype' = SMtype
  BY DEF PDOIndexRead, Returned
<1>2. map \in Locals /\ MailboxTyped
  BY DEF Typed, MapTyped
<1>3. /\ Found(map, buf) /\ ProcessData(map, SMtype) /\ PDOs(map, buf)
      /\ ~map.ca /\ map.idxloop <= map.nidx
  BY <1>1 DEF Mapped, Right
<1>4. /\ index \in Indices /\ EntryBytes[index] <= 2
      /\ Called(index, map.idxloop, 2)
      /\ map.idxloop \in 1 .. Len(Od[index]) /\ Len(Od[index]) \in Nat
  <2>1. /\ map.nidx = Len(Assignment(map.iSM)) /\ map.idxloop \in 1 .. map.nidx + 1
        /\ map.nidx \in Nat
    BY <1>2, <1>3 DEF PDOs, Locals
  <2>2. map.idxloop \in 1 .. Len(Od[index]) /\ Len(Od[index]) \in Nat
    BY <1>3, <2>1 DEF Assignment
  <2> QED
    BY <1>1, <1>3, <2>2, Here DEF Mapped, Waiting
<1>5. Assignment(map.iSM) = Od[index]
  BY DEF Assignment
<1> HIDE DEF index
<1>6. sdo.ok /\ sdo.got = Value(index, map.idxloop)
  <2>1. Bytes(index, map.idxloop) <= 2 /\ map.idxloop \in 0 .. Len(Od[index])
    BY <1>4, OneValue
  <2> QED
    BY <1>1, <1>2, <1>3, <1>4, <2>1, ReadResult
<1>7. At(sdo.got, 1) = Assignment(map.iSM)[map.idxloop]
  BY <1>4, <1>5, <1>6, Parts
<1>8. map' = UsePDO(Assignment(map.iSM)[map.idxloop])
  BY <1>1, <1>7
<1> QED
  BY <1>1, <1>3, <1>8, UsePDOMapped

\* The PDO that is being read.
LEMMA ThisPDO ==
  ASSUME Typed, WellFormed, Found(map, buf), ProcessData(map, SMtype),
         PDOs(map, buf), PDO(map)
  PROVE  /\ map.idx \in Indices /\ EntryBytes[map.idx] = 4
         /\ Len(Od[map.idx]) \in Nat /\ PDOBits(map.idx) \in Nat
         /\ Total(PDOSizes(map.iSM), map.idxloop) =
              Total(PDOSizes(map.iSM), map.idxloop - 1) + PDOBits(map.idx)
         /\ Total(PDOSizes(map.iSM), map.idxloop - 1) \in Nat
<1>1. map.idxloop \in 1 .. Len(Assignment(map.iSM)) /\ map.idxloop \in Nat
  BY DEF PDOs, PDO, Typed, MapTyped, Locals
<1>2. map.idx = Assignment(map.iSM)[map.idxloop]
  BY DEF PDO
<1>3. map.idx \in Indices /\ EntryBytes[map.idx] = 4
  BY <1>1, <1>2, Here
<1>4. Len(Od[map.idx]) \in Nat /\ PDOBits(map.idx) \in Nat
  BY <1>3, Parts, TotalNat DEF PDOBits
<1>5. PDOSizes(map.iSM)[map.idxloop] = PDOBits(map.idx)
  BY <1>1, <1>2 DEF PDOSizes
<1>6. map.idxloop - 1 \in Nat /\ (map.idxloop - 1) + 1 = map.idxloop
  BY <1>1
<1>7. Total(PDOSizes(map.iSM), map.idxloop) =
        Total(PDOSizes(map.iSM), map.idxloop - 1) + PDOSizes(map.iSM)[map.idxloop]
  BY <1>6, TotalStep
<1>8. Total(PDOSizes(map.iSM), map.idxloop - 1) \in Nat
  <2>1. /\ Len(Assignment(map.iSM)) \in Nat
        /\ \A k \in 1 .. Len(Assignment(map.iSM)) :
             Assignment(map.iSM)[k] \in Indices
    BY Here
  <2>2. map.idxloop \in 1 .. Len(Assignment(map.iSM))
    BY <1>1
  <2>3. map.idxloop - 1 \in Nat
        /\ \A k \in 1 .. map.idxloop - 1 : k \in 1 .. Len(Assignment(map.iSM))
    BY <2>1, <2>2
  <2>4. ASSUME NEW k \in 1 .. map.idxloop - 1 PROVE PDOSizes(map.iSM)[k] \in Nat
    <3>1. k \in 1 .. Len(Assignment(map.iSM)) /\ Assignment(map.iSM)[k] \in Indices
      BY <2>1, <2>3, <2>4
    <3>2. PDOBits(Assignment(map.iSM)[k]) \in Nat
      BY <3>1, Parts, TotalNat DEF PDOBits
    <3> QED
      BY <3>1, <3>2 DEF PDOSizes
  <2> QED
    BY <2>3, <2>4, TotalNat
<1> QED
  BY <1>3, <1>4, <1>5, <1>7, <1>8

\* The number of its entries is asked for.
LEMMA MapReadEntries ==
  ASSUME Typed, WellFormed, Mapped, ReadEntries
  PROVE  Mapped'
<1>1. map.pc = "desc" /\ map \in Locals /\ Read(map, "entries", map.idx, 0, 1)
  BY DEF ReadEntries, Typed, MapTyped
<1>2. /\ Found(map, buf) /\ ProcessData(map, SMtype) /\ PDOs(map, buf)
      /\ PDO(map)
  BY <1>1 DEF Mapped, Right
<1>3. /\ map' = [map EXCEPT !.pc = "entries"] /\ map'.pc = "entries"
      /\ sdo'.op = "read" /\ sdo'.index = map.idx
      /\ sdo'.sub = (IF map.ca THEN ALL ELSE 0)
      /\ sdo'.room = (IF map.ca THEN Large ELSE 1)
      /\ UNCHANGED <<buf, SMtype, bits, calls>>
  BY <1>1, ReadBegun DEF Reads
<1>4. /\ map'.ca = map.ca /\ map'.iSM = map.iSM /\ map'.nSM = map.nSM
      /\ map'.bug = map.bug /\ map'.idxloop = map.idxloop
      /\ map'.nidx = map.nidx /\ map'.bsize = map.bsize /\ map'.idx = map.idx
      /\ map'.Osize = map.Osize /\ map'.Isize = map.Isize
  BY <1>1, <1>3, LocalsKept DEF Reads
<1>5. Found(map', buf') /\ ProcessData(map', SMtype')
  BY <1>2, <1>3, <1>4 DEF Found, ProcessData
<1>6. PDOs(map', buf') /\ PDO(map')
  <2>1. map.bsize = Total(PDOSizes(map.iSM), map.idxloop - 1) + 0
    BY <1>1, <1>2 DEF PDOs
  <2> QED
    BY <1>2, <1>3, <1>4, <2>1 DEF PDOs, PDO
<1>7. Right(map', buf', SMtype')
  BY <1>3, <1>5, <1>6 DEF Right
<1>8. Waiting'
  BY <1>3, <1>4 DEF Waiting, Called
<1> QED
  BY <1>3, <1>7, <1>8 DEF Mapped, MappingIsRight

\* It is found, and with complete access all of the entries.
LEMMA MapEntriesRead ==
  ASSUME Typed, WellFormed, Exact, Granted, Mapped, EntriesRead
  PROVE  Mapped'
<1> DEFINE desc == Filled(buf.desc)
           od == Od[map.idx]
           found == [k \in 1 .. desc[1] |-> At(desc, k + 1)]
<1>1. /\ map.pc = "entries" /\ sdo.pc = "idle" /\ SMtype' = SMtype
      /\ IF map.ca
         THEN /\ buf' = [buf EXCEPT !.desc = desc]
              /\ map' = [map EXCEPT !.pc = "pdo", !.idxloop = @ + 1,
                           !.bsize = @ + Total(found, desc[1])]
         ELSE /\ map' = [map EXCEPT !.pc = "entry", !.subidx = At(sdo.got, 1),
                                    !.subidxloop = 1]
              /\ UNCHANGED buf
  BY DEF EntriesRead, Returned
<1>2. /\ map \in Locals /\ buf.desc \in Structures /\ MailboxTyped
      /\ buf \in [types : Structures, assign : Structures, desc : Structures]
  BY DEF Typed, MapTyped
<1>3. /\ Found(map, buf) /\ ProcessData(map, SMtype) /\ PDOs(map, buf)
      /\ PDO(map) /\ Called(map.idx, 0, 1)
  BY <1>1 DEF Mapped, Right, Waiting
<1>4. /\ map.idx \in Indices /\ Len(od) \in Nat /\ PDOBits(map.idx) \in Nat
      /\ Total(PDOSizes(map.iSM), map.idxloop) =
           Total(PDOSizes(map.iSM), map.idxloop - 1) + PDOBits(map.idx)
      /\ Total(PDOSizes(map.iSM), map.idxloop - 1) \in Nat
  BY <1>3, ThisPDO
<1>5. /\ sdo.ok
      /\ map.ca => sdo.got = Value(map.idx, ALL)
      /\ ~map.ca => sdo.got = Value(map.idx, 0)
  <2>1. 0 \in 0 .. Len(Od[map.idx])
    BY <1>4
  <2>2. Bytes(map.idx, 0) <= 1
    BY OneValue
  <2> QED
    BY <1>1, <1>2, <1>3, <1>4, <2>1, <2>2, ReadResult
<1>6. /\ map.bsize = Total(PDOSizes(map.iSM), map.idxloop - 1) + 0
      /\ map.bsize \in Nat
  BY <1>1, <1>2, <1>3 DEF PDOs, Locals
<1>7. /\ map.nidx \in Nat /\ map.nidx = Len(Assignment(map.iSM))
      /\ map.idxloop \in 1 .. map.nidx
  BY <1>2, <1>3 DEF PDOs, PDO, Locals
<1> HIDE DEF desc, od, found
<1>8. CASE map.ca
  <2>1. /\ desc[1] = Len(od)
        /\ \A k \in 1 .. Len(od) : At(desc, k + 1) = od[k]
    BY <1>2, <1>4, <1>5, <1>8, FilledRight DEF desc, od
  <2>2. Total(found, Len(od)) = PDOBits(map.idx)
    <3>1. \A k \in 1 .. Len(od) : found[k] = od[k]
      BY <2>1 DEF found
    <3> QED
      BY <1>4, <3>1, TotalSame DEF PDOBits, od
  <2>3. /\ map' = [map EXCEPT !.pc = "pdo", !.idxloop = @ + 1,
                     !.bsize = @ + PDOBits(map.idx)]
        /\ buf' = [buf EXCEPT !.desc = desc]
    BY <1>1, <1>8, <2>1, <2>2
  <2>4. /\ map'.pc = "pdo" /\ map'.idxloop = map.idxloop + 1
        /\ map'.bsize = map.bsize + PDOBits(map.idx)
        /\ map'.ca = map.ca /\ map'.iSM = map.iSM /\ map'.nSM = map.nSM
        /\ map'.bug = map.bug /\ map'.nidx = map.nidx
        /\ map'.Osize = map.Osize /\ map'.Isize = map.Isize
    BY <1>2, <2>3 DEF Locals
  <2>5. buf'.types = buf.types /\ buf'.assign = buf.assign
    BY <1>2, <2>3
  <2>6. Found(map', buf') /\ ProcessData(map', SMtype')
    BY <1>1, <1>3, <2>4, <2>5 DEF Found, ProcessData
  <2>7. PDOs(map', buf')
    <3>1. /\ map'.idxloop \in 1 .. map'.nidx + 1
          /\ map'.idxloop - 1 = map.idxloop
      BY <1>7, <2>4
    <3>2. map'.bsize = Total(PDOSizes(map.iSM), map.idxloop) + 0
      BY <1>4, <1>6, <2>4
    <3>3. map'.ca => \A k \in 1 .. map'.nidx :
                       At(buf'.assign, k + 1) = Assignment(map'.iSM)[k]
      BY <1>3, <2>4, <2>5 DEF PDOs
    <3> QED
      BY <1>7, <2>4, <3>1, <3>2, <3>3 DEF PDOs
  <2>8. Right(map', buf', SMtype')
    BY <2>4, <2>6, <2>7 DEF Right
  <2> QED
    BY <2>4, <2>8, Between
<1>9. CASE ~map.ca
  <2>1. At(sdo.got, 1) = Len(od)
    BY <1>4, <1>5, <1>9, Parts DEF od
  <2>2. /\ map' = [map EXCEPT !.pc = "entry", !.subidx = Len(od), !.subidxloop = 1]
        /\ buf' = buf
    BY <1>1, <1>9, <2>1
  <2>3. /\ map'.pc = "entry" /\ map'.subidx = Len(od) /\ map'.subidxloop = 1
        /\ map'.ca = map.ca /\ map'.iSM = map.iSM /\ map'.nSM = map.nSM
        /\ map'.bug = map.bug /\ map'.nidx = map.nidx /\ map'.idx = map.idx
        /\ map'.idxloop = map.idxloop /\ map'.bsize = map.bsize
        /\ map'.Osize = map.Osize /\ map'.Isize = map.Isize
    BY <1>2, <2>2 DEF Locals
  <2>4. Found(map', buf') /\ ProcessData(map', SMtype') /\ PDO(map')
    BY <1>1, <1>3, <2>2, <2>3 DEF Found, ProcessData, PDO
  <2>5. PDOs(map', buf')
    <3>1. Total(Od[map'.idx], map'.subidxloop - 1) = 0
      <4>1. map'.subidxloop - 1 = 0
        BY <2>3
      <4> QED
        BY <4>1, TotalStep
    <3> QED
      BY <1>3, <1>6, <2>2, <2>3, <3>1 DEF PDOs
  <2>6. Entries(map')
    BY <1>4, <1>9, <2>3 DEF Entries, od
  <2>7. Right(map', buf', SMtype')
    BY <2>3, <2>4, <2>5, <2>6 DEF Right
  <2> QED
    BY <2>3, <2>7, Between
<1> QED
  BY <1>8, <1>9

\* Its entries, one after the other.
LEMMA MapNextEntry ==
  ASSUME Typed, WellFormed, Mapped, NextEntry
  PROVE  Mapped'
<1>1. map.pc = "entry" /\ map \in Locals
  BY DEF NextEntry, Typed, MapTyped
<1>2. /\ Found(map, buf) /\ ProcessData(map, SMtype) /\ PDOs(map, buf)
      /\ PDO(map) /\ Entries(map)
  BY <1>1 DEF Mapped, Right
<1>3. /\ ~map.ca /\ map.subidx = Len(Od[map.idx]) /\ Len(Od[map.idx]) \in Nat
      /\ map.subidxloop \in 1 .. map.subidx + 1
      /\ PDOBits(map.idx) \in Nat
      /\ Total(PDOSizes(map.iSM), map.idxloop) =
           Total(PDOSizes(map.iSM), map.idxloop - 1) + PDOBits(map.idx)
  BY <1>2, ThisPDO DEF Entries
<1>4. /\ map.bsize = Total(PDOSizes(map.iSM), map.idxloop - 1)
                       + Total(Od[map.idx], map.subidxloop - 1)
  BY <1>1, <1>2 DEF PDOs
<1>5. /\ map.nidx \in Nat /\ map.nidx = Len(Assignment(map.iSM))
      /\ map.idxloop \in 1 .. map.nidx
  BY <1>1, <1>2 DEF PDOs, PDO, Locals
<1>6. CASE map.subidxloop <= map.subidx
  <2>1. Read(map, "bits", map.idx, map.subidxloop, 4)
    BY <1>6 DEF NextEntry
  <2>2. /\ map' = [map EXCEPT !.pc = "bits"] /\ map'.pc = "bits"
        /\ sdo'.op = "read" /\ sdo'.index = map.idx
        /\ sdo'.sub = (IF map.ca THEN ALL ELSE map.subidxloop)
        /\ sdo'.room = (IF map.ca THEN Large ELSE 4)
        /\ UNCHANGED <<buf, SMtype, bits, calls>>
    BY <1>1, <2>1, ReadBegun DEF Reads
  <2>3. /\ map'.ca = map.ca /\ map'.iSM = map.iSM /\ map'.nSM = map.nSM
        /\ map'.bug = map.bug /\ map'.idxloop = map.idxloop
        /\ map'.nidx = map.nidx /\ map'.bsize = map.bsize /\ map'.idx = map.idx
        /\ map'.subidx = map.subidx /\ map'.subidxloop = map.subidxloop
        /\ map'.Osize = map.Osize /\ map'.Isize = map.Isize
    BY <1>1, <2>2, LocalsKept DEF Reads
  <2>4. Found(map', buf') /\ ProcessData(map', SMtype')
    BY <1>2, <2>2, <2>3 DEF Found, ProcessData
  <2>5. PDOs(map', buf') /\ PDO(map')
    BY <1>2, <1>4, <2>2, <2>3 DEF PDOs, PDO
  <2>6. Entries(map')
    BY <1>2, <1>6, <2>3 DEF Entries
  <2>7. Right(map', buf', SMtype')
    BY <2>2, <2>4, <2>5, <2>6 DEF Right
  <2>8. Waiting'
    BY <2>2, <2>3 DEF Waiting, Called
  <2> QED
    BY <2>2, <2>7, <2>8 DEF Mapped, MappingIsRight
<1>7. CASE ~(map.subidxloop <= map.subidx)
  <2>1. /\ map' = [map EXCEPT !.pc = "pdo", !.idxloop = @ + 1]
        /\ UNCHANGED <<buf, SMtype>>
    BY <1>7 DEF NextEntry
  <2>2. /\ map'.pc = "pdo" /\ map'.idxloop = map.idxloop + 1
        /\ map'.ca = map.ca /\ map'.iSM = map.iSM /\ map'.nSM = map.nSM
        /\ map'.bug = map.bug /\ map'.nidx = map.nidx
        /\ map'.bsize = map.bsize
        /\ map'.Osize = map.Osize /\ map'.Isize = map.Isize
    BY <1>1, <2>1 DEF Locals
  <2>3. Found(map', buf') /\ ProcessData(map', SMtype')
    BY <1>2, <2>1, <2>2 DEF Found, ProcessData
  <2>4. PDOs(map', buf')
    <3>1. /\ map'.idxloop \in 1 .. map'.nidx + 1
          /\ map'.idxloop - 1 = map.idxloop
      BY <1>5, <2>2
    <3>2. map.subidxloop - 1 = Len(Od[map.idx])
      BY <1>3, <1>7
    <3>3. map.bsize = Total(PDOSizes(map.iSM), map.idxloop)
      BY <1>3, <1>4, <3>2 DEF PDOBits
    <3>4. Total(PDOSizes(map.iSM), map.idxloop) \in Nat
      BY <1>1, <3>3 DEF Locals
    <3>5. map'.bsize = Total(PDOSizes(map.iSM), map'.idxloop - 1) + 0
      BY <2>2, <3>1, <3>3, <3>4
    <3> QED
      BY <1>3, <1>5, <2>2, <3>1, <3>5 DEF PDOs
  <2>5. Right(map', buf', SMtype')
    BY <2>2, <2>3, <2>4 DEF Right
  <2> QED
    BY <2>2, <2>5, Between
<1> QED
  BY <1>6, <1>7

\* The size of an entry that was read.
LEMMA MapBitsRead ==
  ASSUME Typed, WellFormed, Exact, Granted, Mapped, BitsRead
  PROVE  Mapped'
<1>1. /\ map.pc = "bits" /\ sdo.pc = "idle"
      /\ map' = [map EXCEPT !.pc = "entry", !.subidxloop = @ + 1,
                            !.bsize = @ + At(sdo.got, 1)]
      /\ UNCHANGED <<buf, SMtype>>
  BY DEF BitsRead, Returned
<1>2. map \in Locals /\ MailboxTyped
  BY DEF Typed, MapTyped
<1>3. /\ Found(map, buf) /\ ProcessData(map, SMtype) /\ PDOs(map, buf)
      /\ PDO(map) /\ Entries(map) /\ Called(map.idx, map.subidxloop, 4)
  BY <1>1 DEF Mapped, Right, Waiting
<1> DEFINE od == Od[map.idx]
<1>4. /\ ~map.ca /\ map.subidx = Len(od) /\ Len(od) \in Nat
      /\ map.subidxloop \in 1 .. Len(od)
      /\ map.idx \in Indices /\ EntryBytes[map.idx] = 4
  <2>1. /\ ~map.ca /\ map.subidx = Len(od) /\ map.subidxloop \in 1 .. map.subidx + 1
        /\ map.subidxloop <= map.subidx
    BY <1>1, <1>3 DEF Entries
  <2>2. Len(od) \in Nat /\ map.idx \in Indices /\ EntryBytes[map.idx] = 4
    BY <1>3, ThisPDO
  <2> HIDE DEF od
  <2> QED
    BY <2>1, <2>2
<1>5. sdo.ok /\ sdo.got = Value(map.idx, map.subidxloop)
  <2>1. map.subidxloop \in 0 .. Len(Od[map.idx])
    BY <1>4
  <2>2. Bytes(map.idx, map.subidxloop) <= 4
    BY <1>4, OneValue
  <2> QED
    BY <1>1, <1>2, <1>3, <1>4, <2>1, <2>2, ReadResult
<1>6. At(sdo.got, 1) = od[map.subidxloop] /\ od[map.subidxloop] \in Nat
  BY <1>4, <1>5, Parts
<1>7. \A k \in 0 .. Len(od) : Total(od, k) \in Nat
  <2>1. \A k \in 1 .. Len(od) : od[k] \in Nat
    BY <1>4, Parts
  <2> HIDE DEF od
  <2> SUFFICES ASSUME NEW k \in 0 .. Len(od) PROVE Total(od, k) \in Nat
    OBVIOUS
  <2>2. k \in Nat /\ \A j \in 1 .. k : od[j] \in Nat
    BY <1>4, <2>1
  <2> QED
    BY <2>2, TotalNat
<1>8. /\ map.bsize = Total(PDOSizes(map.iSM), map.idxloop - 1)
                       + Total(od, map.subidxloop - 1)
  BY <1>1, <1>3 DEF PDOs
<1> HIDE DEF od
<1>9. Total(od, map.subidxloop) =
        Total(od, map.subidxloop - 1) + od[map.subidxloop]
  <2>1. map.subidxloop - 1 \in Nat /\ (map.subidxloop - 1) + 1 = map.subidxloop
    BY <1>4
  <2> QED
    BY <2>1, TotalStep
<1>10. Total(PDOSizes(map.iSM), map.idxloop - 1) \in Nat
  BY <1>3, ThisPDO
<1>11. /\ map'.pc = "entry" /\ map'.subidxloop = map.subidxloop + 1
       /\ map'.bsize = map.bsize + At(sdo.got, 1)
       /\ map'.subidx = map.subidx
       /\ map'.ca = map.ca /\ map'.iSM = map.iSM /\ map'.nSM = map.nSM
       /\ map'.bug = map.bug /\ map'.nidx = map.nidx /\ map'.idx = map.idx
       /\ map'.idxloop = map.idxloop
       /\ map'.Osize = map.Osize /\ map'.Isize = map.Isize
  BY <1>1, <1>2 DEF Locals
<1>12. Found(map', buf') /\ ProcessData(map', SMtype') /\ PDO(map')
  BY <1>1, <1>3, <1>11 DEF Found, ProcessData, PDO
<1>13. PDOs(map', buf')
  <2>1. map'.subidxloop - 1 = map.subidxloop
    BY <1>4, <1>11
  <2>2. map'.bsize = Total(PDOSizes(map.iSM), map.idxloop - 1)
                       + Total(od, map.subidxloop)
    <3>1. Total(od, map.subidxloop - 1) \in Nat
      <4>1. map.subidxloop - 1 \in 0 .. Len(od)
        BY <1>4
      <4> QED
        BY <1>7, <4>1
    <3> QED
      BY <1>6, <1>8, <1>9, <1>10, <1>11, <3>1
  <2> QED
    BY <1>1, <1>3, <1>11, <2>1, <2>2 DEF PDOs, od
<1>14. Entries(map')
  BY <1>4, <1>11 DEF Entries, od
<1>15. Right(map', buf', SMtype')
  BY <1>11, <1>12, <1>13, <1>14 DEF Right
<1> QED
  BY <1>11, <1>15, Between

\* A mapping begins.
LEMMA MapStarted ==
  ASSUME StartMapping
  PROVE  Mapped'
<1>1. PICK ca \in BOOLEAN :
        /\ map' = [MapIdle EXCEPT !.pc = "types", !.ca = ca]
        /\ SDOread(ECT_SDO_SMCOMMTYPE, IF ca THEN ALL ELSE 0,
                   IF ca THEN Large ELSE 1)
  BY DEF StartMapping
<1>2. /\ map'.pc = "types" /\ map'.ca = ca /\ map'.iSM = 2 /\ map'.bug = 0
      /\ map'.Osize = 0 /\ map'.Isize = 0
  BY <1>1 DEF MapIdle
<1> QED
  BY <1>1, <1>2, Begun

\* Everything that is found out is right.
LEMMA MappedStep ==
  ASSUME Typed, WellFormed, Exact, Granted, Mapped, [Next]_vars
  PROVE  Mapped'
<1>1. CASE UNCHANGED pvars /\ (MNext \/ UNCHANGED mvars)
  <2>1. map' = map /\ buf' = buf /\ SMtype' = SMtype /\ bits' = bits
    BY <1>1 DEF pvars
  <2>2. /\ sdo'.op = sdo.op /\ sdo'.index = sdo.index
        /\ sdo'.sub = sdo.sub /\ sdo'.room = sdo.room
    BY <1>1, CallStays DEF Typed, mvars
  <2>3. Right(map', buf', SMtype')
    BY <2>1 DEF Mapped
  <2>4. Waiting'
    BY <2>1, <2>2 DEF Mapped, Waiting, Called
  <2>5. MappingIsRight'
    BY <2>1 DEF Mapped, MappingIsRight
  <2> QED
    BY <2>3, <2>4, <2>5 DEF Mapped
<1>2. CASE Write
  <2>1. map.pc = "idle" /\ UNCHANGED <<map, buf, SMtype, bits>>
    BY <1>2 DEF Write, SDOwrite, mvars
  <2> QED
    BY <2>1 DEF Mapped, Right, Waiting, MappingIsRight
<1>3. CASE Mapping
  BY <1>3, MapTypesRead, MapNextSM, MapLastSM, MapTypeRead, MapReadCount,
     MapCounted, MapNextPDO, MapPDOIndexRead, MapReadEntries, MapEntriesRead,
     MapNextEntry, MapBitsRead DEF Mapping
<1> QED
  BY <1>1, <1>2, <1>3, MapStarted DEF Next, vars

(* The inductive invariant.                                                *)
GentleMapping == Gentle => Handshake /\ Exact /\ Granted /\ Mapped

\* A mapping that is reported successful has the sizes of the slave's process
\* data (ecx_readPDOmap, ecx_readPDOmapCA), with losses that repeat requests
\* make good, if the slave's dictionary needs none of the corrections.
THEOREM GentleMappingsAreRight ==
  ASSUME WellFormed
  PROVE  Spec => []GentleMappingIsRight
<1>1. Init => GentleMapping
  <2> SUFFICES ASSUME Init PROVE Handshake /\ Exact /\ Granted /\ Mapped
    BY DEF GentleMapping
  <2>1. /\ sdo = SdoIdle /\ slave = SlaveIdle /\ inMbx = NoMsg /\ outMbx = NoMsg
        /\ repeatReq = FALSE /\ repeatAck = FALSE /\ map = MapIdle
    BY DEF Init, MInit
  <2>2. /\ sdo.pc = "idle" /\ sdo.op = "read" /\ sdo.ok = FALSE
        /\ sdo.index = 0 /\ slave.todo = NoMsg
    BY <2>1 DEF SdoIdle, SlaveIdle
  <2>3. Handshake /\ Exact
    BY <2>1, <2>2 DEF Handshake, Quiet, Exact, Succeeded
  <2>4. Granted
    <3>1. 0 \notin Indices
      BY DictionaryAssumption
    <3> QED
      BY <2>2, <3>1 DEF Granted, Welcome, Exists
  <2>5. Mapped
    <3>1. map.pc = "idle" /\ map.ret = FALSE
      BY <2>1 DEF MapIdle
    <3> QED
      BY <3>1 DEF Mapped, Right, Waiting, MappingIsRight
  <2> QED
    BY <2>3, <2>4, <2>5
<1>2. Typed /\ GentleMapping /\ [Next]_vars => GentleMapping'
  <2> SUFFICES ASSUME Typed, GentleMapping, [Next]_vars, Gentle'
               PROVE  Handshake' /\ Exact' /\ Granted' /\ Mapped'
    BY DEF GentleMapping
  <2>1. env' = env
    BY StepCalls
  <2>2. Gentle
    BY <2>1 DEF Gentle
  <2>3. Handshake /\ Exact /\ Granted /\ Mapped
    BY <2>2 DEF GentleMapping
  <2> QED
    BY <2>2, <2>3, GentleStep, GrantedStep, MappedStep
<1>3. GentleMapping => GentleMappingIsRight
  BY DEF GentleMapping, Mapped, GentleMappingIsRight
<1> QED
  BY <1>1, <1>2, <1>3, TypedAlways, PTL DEF Spec
=============================================================================
