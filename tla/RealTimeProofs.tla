--------------------------- MODULE RealTimeProofs ---------------------------
(* Theorems about RealTime, for every number of blocks and messages and     *)
(* every capacity of the channel into Notify.                               *)
EXTENDS RealTime, SequenceTheorems, TLAPS

(***************************************************************************)
(* The inductive invariant                                                 *)
(***************************************************************************)
\* A goroutine that holds a block holds one that was announced or lies below.
HeldAreBlocks ==
    /\ receive.pc = "offer" => receive.b \in Numbers
    /\ extract.pc \in {"run", "offer"} => extract.b \in Numbers
    /\ notify.pc = "post" => notify.b \in Numbers

\* The goroutines close one after the other, each with nothing left to do.
ClosedInOrder ==
    /\ schedule.pc = "closed" => schedule.next > schedule.prev
    /\ extract.pc = "closed" => schedule.pc = "closed"
    /\ notify.pc = "closed" => extract.pc = "closed" /\ buffer = <<>>

\* prev is the last head.
PrevIsLast ==
    IF received = <<>> THEN schedule.prev = 0 ELSE schedule.prev = received[Len(received)]

\* What is missing between the heads is what Schedule is about to emit.
OnlyNextMissing ==
    \A i \in DOMAIN received :
        received[1]..received[i] \subseteq Range(scheduled) \cup schedule.next..schedule.prev

Rising == \A i \in 1..Len(received) - 1 : received[i] < received[i + 1]

\* While the heads rise, next is the block after the last that was given away.
NextInLine ==
    Rising => IF received = <<>>
              THEN scheduled = <<>>
              ELSE /\ schedule.next = received[1] + Len(scheduled)
                   /\ schedule.next <= schedule.prev + 1
                   /\ \A i \in DOMAIN scheduled : scheduled[i] = received[1] + i - 1

Typing == TypeOK /\ HeldAreBlocks

IndInv == /\ Typing /\ ClosedInOrder /\ PrevIsLast
          /\ OnlyNextMissing /\ NextInLine /\ NotificationsConserved

(***************************************************************************)
(* Sequences                                                               *)
(***************************************************************************)
LEMMA OneElement ==
  ASSUME NEW S, NEW e \in S
  PROVE  /\ <<e>> \in Seq(S) /\ Len(<<e>>) = 1 /\ <<e>>[1] = e
  OBVIOUS

LEMMA HeadAndTail ==
  ASSUME NEW S, NEW s \in Seq(S), s # <<>>
  PROVE  s = <<Head(s)>> \o Tail(s)
<1>1. Len(s) \in 1..Len(s) /\ 1 \in 1..Len(s)
  BY EmptySeq, LenProperties
<1>2. SubSeq(s, 1, Len(s)) = <<s[1]>> \o SubSeq(s, 2, Len(s))
  BY <1>1, SubSeqRecursiveFirst
<1>3. QED
  BY <1>2, SubSeqFull, TailIsSubSeq

LEMMA AppendRange ==
  ASSUME NEW S, NEW s \in Seq(S), NEW e \in S
  PROVE  Range(Append(s, e)) = Range(s) \cup {e}
<1>1. /\ Append(s, e) \in Seq(S) /\ Len(Append(s, e)) = Len(s) + 1
      /\ \A i \in 1..Len(s) : Append(s, e)[i] = s[i]
      /\ Append(s, e)[Len(s) + 1] = e
      /\ Len(s) \in Nat
  BY AppendProperties, LenProperties
<1>2. /\ Range(s) = {s[i] : i \in 1..Len(s)}
      /\ Range(Append(s, e)) = {Append(s, e)[i] : i \in 1..Len(s) + 1}
  BY <1>1, RangeEquality
<1>3. 1..Len(s) + 1 = 1..Len(s) \cup {Len(s) + 1}
  BY <1>1
<1>4. QED
  BY <1>1, <1>2, <1>3

(***************************************************************************)
(* Types                                                                   *)
(***************************************************************************)
LEMMA TypingInit == Init => Typing
  BY BoundAssumption, EmptySeq DEF Init, Typing, TypeOK, HeldAreBlocks, Numbers, Unusable

LEMMA TypingNext == Typing /\ [Next]_vars => Typing'
<1> SUFFICES ASSUME Typing, [Next]_vars PROVE Typing'
  OBVIOUS
<1> USE BoundAssumption DEF Typing, TypeOK, HeldAreBlocks, Numbers, Unusable
<1>1. ASSUME NEW m \in Numbers \cup {Unusable}, NodeSends(m) PROVE Typing'
  BY <1>1 DEF NodeSends, history
<1>2. CASE Disconnect
  BY <1>2 DEF Disconnect, history
<1>3. CASE Subscribed \/ SubscribeFails \/ ReadError
  <2>1. CASE Subscribed
    BY <2>1 DEF Subscribed, node, history
  <2>2. CASE SubscribeFails
    BY <2>2 DEF SubscribeFails, node, history
  <2>3. CASE ReadError
    BY <2>3 DEF ReadError, node, history
  <2>4. QED
    BY <1>3, <2>1, <2>2, <2>3
<1>4. CASE Read
  <2>1. Head(wire) \in Numbers \cup {0} /\ Tail(wire) \in Seq(Numbers \cup {0})
    BY <1>4, HeadTailProperties DEF Read
  <2>2. QED
    BY <1>4, <2>1 DEF Read, history
<1>5. CASE TakeHead
  <2>1. receive.b \in Numbers
    BY <1>5 DEF TakeHead
  <2>2. NextAfter(receive.b) \in 1..MaxBlock + 1
    BY <2>1 DEF NextAfter
  <2>3. Append(received, receive.b) \in Seq(Numbers)
    BY <2>1, AppendProperties
  <2>4. schedule' \in [pc : {"range", "closed"}, prev : 0..MaxBlock, next : 1..MaxBlock + 1]
    <3>1. schedule' = [schedule EXCEPT !.prev = receive.b, !.next = NextAfter(receive.b)]
      BY <1>5 DEF TakeHead
    <3>2. receive.b \in 0..MaxBlock
      BY <2>1
    <3>3. schedule \in [pc : {"range", "closed"}, prev : 0..MaxBlock, next : 1..MaxBlock + 1]
      OBVIOUS
    <3> HIDE BoundAssumption DEF Typing, TypeOK, HeldAreBlocks, Numbers, Unusable
    <3>4. QED
      BY <2>2, <3>1, <3>2, <3>3
  <2>5. receive' \in [pc : {"subscribe", "read", "offer", "closed"}, b : Numbers \cup {0}]
        /\ receive'.pc = "read"
    BY <1>5 DEF TakeHead
  <2>6. QED
    BY <1>5, <2>3, <2>4, <2>5 DEF TakeHead, node
<1>6. CASE Emit
  <2>1. schedule.next \in Numbers /\ schedule.next + 1 \in 1..MaxBlock + 1
    <3>1. schedule.prev \in 0..MaxBlock /\ schedule.next \in 1..MaxBlock + 1
      OBVIOUS
    <3>2. schedule.next <= schedule.prev
      BY <1>6 DEF Emit, Emitting
    <3>3. QED
      BY <3>1, <3>2
  <2>2. Append(scheduled, schedule.next) \in Seq(Numbers)
    BY <2>1, AppendProperties
  <2>3. schedule' \in [pc : {"range", "closed"}, prev : 0..MaxBlock, next : 1..MaxBlock + 1]
    BY <1>6, <2>1 DEF Emit
  <2>4. QED
    BY <1>6, <2>1, <2>2, <2>3 DEF Emit, node
<1>7. CASE ScheduleClose
  BY <1>7 DEF ScheduleClose, node, history
<1>8. CASE Extracted
  <2>1. Append(succeeded, extract.b) \in Seq(Numbers)
    BY <1>8, AppendProperties DEF Extracted
  <2>2. QED
    BY <1>8, <2>1 DEF Extracted, node
<1>9. CASE ExtractFailed \/ ExtractClose
  <2>1. CASE ExtractFailed
    BY <2>1 DEF ExtractFailed, node, history
  <2>2. CASE ExtractClose
    BY <2>2 DEF ExtractClose, node, history
  <2>3. QED
    BY <1>9, <2>1, <2>2
<1>10. CASE Offer
  <2>1. Append(buffer, extract.b) \in Seq(Numbers) /\ Len(Append(buffer, extract.b)) <= BufferCap
    BY <1>10, AppendProperties, LenProperties DEF Offer
  <2>2. QED
    BY <1>10, <2>1 DEF Offer, node, history
<1>11. CASE NotifyTake
  <2>1. /\ Head(buffer) \in Numbers /\ Tail(buffer) \in Seq(Numbers)
        /\ Len(Tail(buffer)) <= BufferCap
    BY <1>11, HeadTailProperties, LenProperties, SMTT(30) DEF NotifyTake
  <2>2. QED
    BY <1>11, <2>1 DEF NotifyTake, node, history
<1>12. CASE Posted
  <2>1. Append(tried, notify.b) \in Seq(Numbers)
    BY <1>12, AppendProperties DEF Posted
  <2>2. QED
    BY <1>12, <2>1 DEF Posted, node
<1>13. CASE NotifyClose
  BY <1>13 DEF NotifyClose, node, history
<1>14. CASE UNCHANGED vars
  BY <1>14 DEF vars, node, history
<1>15. QED
  BY <1>1, <1>2, <1>3, <1>4, <1>5, <1>6, <1>7, <1>8, <1>9, <1>10, <1>11, <1>12, <1>13, <1>14
  DEF Next, ReceiveStep, ScheduleStep, ExtractStep, NotifyStep

\* What the proofs below need of the types.
LEMMA Types ==
  Typing => /\ received \in Seq(Numbers) /\ scheduled \in Seq(Numbers)
            /\ succeeded \in Seq(Numbers) /\ tried \in Seq(Numbers)
            /\ buffer \in Seq(Numbers)
            /\ schedule.prev \in Int /\ schedule.prev >= 0
            /\ schedule.next \in Int /\ schedule.next >= 1
  BY BoundAssumption DEF Typing, TypeOK

(***************************************************************************)
(* Frames: the actions that change a part of the state                     *)
(***************************************************************************)
LEMMA ScheduleFrame ==
  [Next]_vars => \/ TakeHead \/ Emit \/ ScheduleClose
                 \/ UNCHANGED <<schedule, received, scheduled>>
  BY DEF Next, NodeSends, Disconnect, ReceiveStep, Subscribed, SubscribeFails, Read, ReadError,
         ScheduleStep, ExtractStep, Extracted, ExtractFailed, Offer, ExtractClose,
         NotifyStep, NotifyTake, Posted, NotifyClose, history, vars

LEMMA NotifyFrame ==
  [Next]_vars => \/ Emit \/ ExtractStep \/ NotifyStep
                 \/ UNCHANGED <<extract, buffer, notify, succeeded, tried>>
  BY DEF Next, NodeSends, Disconnect, ReceiveStep, Subscribed, SubscribeFails, Read, ReadError,
         ScheduleStep, TakeHead, ScheduleClose, history, vars

(***************************************************************************)
(* Closing                                                                 *)
(***************************************************************************)
LEMMA ClosedNext == Typing /\ ClosedInOrder /\ [Next]_vars => ClosedInOrder'
<1> SUFFICES ASSUME Typing, ClosedInOrder, [Next]_vars PROVE ClosedInOrder'
  OBVIOUS
<1> DEFINE ScheduleDone == schedule.pc = "closed" => schedule.next > schedule.prev
           InOrder == /\ extract.pc = "closed" => schedule.pc = "closed"
                      /\ notify.pc = "closed" => extract.pc = "closed" /\ buffer = <<>>
<1>1. ScheduleDone'
  <2>1. CASE TakeHead
    BY <2>1 DEF TakeHead, Typing, TypeOK
  <2>2. CASE Emit
    BY <2>2 DEF Emit, Emitting, Typing, TypeOK
  <2>3. CASE ScheduleClose
    BY <2>3, Types DEF ScheduleClose, Emitting, Typing, TypeOK
  <2>4. CASE UNCHANGED <<schedule, received, scheduled>>
    BY <2>4 DEF ClosedInOrder
  <2>5. QED
    BY <2>1, <2>2, <2>3, <2>4, ScheduleFrame
<1>2. schedule.pc = "closed" => schedule'.pc = "closed"
  BY ScheduleFrame DEF TakeHead, Emit, ScheduleClose, Emitting, Typing, TypeOK
<1>3. InOrder'
  <2> USE <1>2 DEF ClosedInOrder, Typing, TypeOK
  <2>1. CASE Emit
    BY <2>1 DEF Emit
  <2>2. CASE Extracted
    BY <2>2 DEF Extracted
  <2>3. CASE ExtractFailed
    BY <2>3 DEF ExtractFailed
  <2>4. CASE Offer
    BY <2>4 DEF Offer
  <2>5. CASE ExtractClose
    BY <2>5 DEF ExtractClose
  <2>6. CASE NotifyTake
    BY <2>6 DEF NotifyTake
  <2>7. CASE Posted
    BY <2>7 DEF Posted
  <2>8. CASE NotifyClose
    BY <2>8 DEF NotifyClose
  <2>9. CASE UNCHANGED <<extract, buffer, notify, succeeded, tried>>
    BY <2>9
  <2>10. QED
    BY <2>1, <2>2, <2>3, <2>4, <2>5, <2>6, <2>7, <2>8, <2>9, NotifyFrame
    DEF ExtractStep, NotifyStep
<1>4. QED
  BY <1>1, <1>3 DEF ClosedInOrder

(***************************************************************************)
(* The heads and the blocks between them                                   *)
(***************************************************************************)
LEMMA PrevNext == Typing /\ PrevIsLast /\ [Next]_vars => PrevIsLast'
<1> SUFFICES ASSUME Typing, PrevIsLast, [Next]_vars PROVE PrevIsLast'
  OBVIOUS
<1>1. CASE TakeHead
  <2>1. receive.b \in Numbers
    BY <1>1 DEF TakeHead, Typing, HeldAreBlocks
  <2>2. /\ received' # <<>>
        /\ received'[Len(received')] = receive.b
    <3>1. received \in Seq(Numbers) /\ received' = Append(received, receive.b)
      BY <1>1, Types DEF TakeHead
    <3>2. /\ Append(received, receive.b) # <<>>
          /\ Len(Append(received, receive.b)) = Len(received) + 1
          /\ Append(received, receive.b)[Len(received) + 1] = receive.b
      BY <2>1, <3>1, AppendProperties
    <3>3. QED
      BY <3>1, <3>2
  <2>3. schedule'.prev = receive.b
    BY <1>1 DEF TakeHead, Typing, TypeOK
  <2>4. QED
    BY <2>2, <2>3 DEF PrevIsLast
<1>2. CASE Emit
  <2>1. schedule'.prev = schedule.prev /\ received' = received
    BY <1>2 DEF Emit, Typing, TypeOK
  <2>2. QED
    BY <2>1 DEF PrevIsLast
<1>3. CASE ScheduleClose
  <2>1. schedule'.prev = schedule.prev /\ received' = received
    BY <1>3 DEF ScheduleClose, history, Typing, TypeOK
  <2>2. QED
    BY <2>1 DEF PrevIsLast
<1>4. CASE UNCHANGED <<schedule, received, scheduled>>
  BY <1>4 DEF PrevIsLast
<1>5. QED
  BY <1>1, <1>2, <1>3, <1>4, ScheduleFrame

\* A head taken: the sequence of heads is longer by it, Schedule goes on after
\* the head before.
LEMMA HeadTaken ==
  ASSUME Typing, PrevIsLast, TakeHead
  PROVE  /\ receive.b \in Numbers /\ receive.b \in Int /\ receive.b >= 1
         /\ Len(received') = Len(received) + 1 /\ Len(received) \in Nat
         /\ DOMAIN received' = 1..Len(received) + 1 /\ DOMAIN received = 1..Len(received)
         /\ received # <<>> => Len(received) >= 1
         /\ received = <<>> => Len(received) = 0
         /\ \A i \in 1..Len(received) : received'[i] = received[i] /\ received[i] \in Int
         /\ received'[Len(received) + 1] = receive.b
         /\ schedule'.prev = receive.b
         /\ schedule'.next = IF received = <<>> THEN receive.b ELSE schedule.prev + 1
         /\ schedule.next > schedule.prev
         /\ scheduled' = scheduled
<1>1. receive.b \in Numbers /\ receive.b \in Int /\ receive.b >= 1
  BY BoundAssumption DEF TakeHead, Typing, HeldAreBlocks, Numbers
<1>2. /\ received' = Append(received, receive.b) /\ scheduled' = scheduled
      /\ schedule'.prev = receive.b /\ schedule'.next = NextAfter(receive.b)
      /\ schedule.next > schedule.prev
  BY Types DEF TakeHead, Emitting, Typing, TypeOK
<1>3. received \in Seq(Numbers) /\ received' \in Seq(Numbers)
  BY <1>1, <1>2, Types, AppendProperties
<1>4. /\ Len(received') = Len(received) + 1 /\ Len(received) \in Nat
      /\ DOMAIN received' = 1..Len(received) + 1 /\ DOMAIN received = 1..Len(received)
      /\ \A i \in 1..Len(received) : received'[i] = received[i]
      /\ received'[Len(received) + 1] = receive.b
  BY <1>1, <1>2, <1>3, AppendProperties, LenProperties
<1>5. /\ received # <<>> => Len(received) >= 1
      /\ received = <<>> => Len(received) = 0
  BY <1>3, <1>4, EmptySeq
<1>6. \A i \in 1..Len(received) : received[i] \in Int /\ received[i] >= 1
  BY <1>3, <1>4, BoundAssumption, ElementOfSeq DEF Numbers
<1>7. NextAfter(receive.b) = IF received = <<>> THEN receive.b ELSE schedule.prev + 1
  <2>1. received # <<>> => schedule.prev >= 1
    BY <1>4, <1>5, <1>6 DEF PrevIsLast
  <2>2. QED
    BY <2>1 DEF NextAfter, PrevIsLast
<1>8. QED
  BY <1>1, <1>2, <1>4, <1>5, <1>6, <1>7

\* A block given to Extract: the first of those that are missing.
LEMMA BlockEmitted ==
  ASSUME Typing, Emit
  PROVE  /\ schedule.next <= schedule.prev
         /\ schedule.next \in Numbers
         /\ schedule'.prev = schedule.prev /\ schedule'.next = schedule.next + 1
         /\ received' = received
         /\ scheduled' = Append(scheduled, schedule.next)
         /\ Range(scheduled') = Range(scheduled) \cup {schedule.next}
<1>1. /\ schedule.next <= schedule.prev /\ received' = received
      /\ scheduled' = Append(scheduled, schedule.next)
  BY DEF Emit, Emitting
<1>2. /\ schedule'.prev = schedule.prev /\ schedule'.next = schedule.next + 1
      /\ schedule.prev \in 0..MaxBlock /\ schedule.next \in 1..MaxBlock + 1
  BY DEF Emit, Typing, TypeOK
<1>3. schedule.next \in Numbers
  BY <1>1, <1>2, BoundAssumption DEF Numbers
<1>4. QED
  BY <1>1, <1>2, <1>3, Types, AppendRange

LEMMA OnlyNextMissingNext ==
  Typing /\ PrevIsLast /\ OnlyNextMissing /\ [Next]_vars => OnlyNextMissing'
<1> SUFFICES ASSUME Typing, PrevIsLast, OnlyNextMissing, [Next]_vars PROVE OnlyNextMissing'
  OBVIOUS
<1>1. CASE TakeHead
  <2> SUFFICES ASSUME NEW i \in DOMAIN received', NEW x \in received'[1]..received'[i]
               PROVE  x \in Range(scheduled) \cup schedule'.next..schedule'.prev
    BY <1>1, HeadTaken DEF OnlyNextMissing
  <2>1. \A j \in 1..Len(received) : received[1]..received[j] \subseteq Range(scheduled)
    <3>1. /\ DOMAIN received = 1..Len(received)
          /\ schedule.next > schedule.prev
          /\ schedule.prev \in Int /\ schedule.next \in Int
      BY <1>1, HeadTaken, Types
    <3>2. schedule.next..schedule.prev = {}
      BY <3>1
    <3>3. QED
      BY <3>1, <3>2 DEF OnlyNextMissing
  <2>2. CASE i \in 1..Len(received)
    <3>1. received'[1] = received[1] /\ received'[i] = received[i]
      BY <1>1, <2>2, HeadTaken
    <3>2. QED
      BY <2>1, <2>2, <3>1
  <2>3. CASE i = Len(received) + 1 /\ received = <<>>
    BY <1>1, <2>3, HeadTaken
  <2>4. CASE i = Len(received) + 1 /\ received # <<>>
    <3>1. /\ received'[1] = received[1] /\ received[1] \in Int /\ received'[i] = receive.b
          /\ schedule.prev = received[Len(received)] /\ schedule.prev \in Int
      BY <1>1, <2>4, HeadTaken, Types DEF PrevIsLast
    <3>2. CASE x <= schedule.prev
      BY <1>1, <2>1, <2>4, <3>1, <3>2, HeadTaken
    <3>3. CASE x > schedule.prev
      BY <1>1, <2>4, <3>1, <3>3, HeadTaken
    <3>4. x \in Int
      BY <1>1, <3>1, HeadTaken
    <3>5. QED
      BY <3>1, <3>2, <3>3, <3>4
  <2>5. QED
    BY <1>1, <2>2, <2>3, <2>4, HeadTaken
<1>2. CASE Emit
  <2>1. schedule.next..schedule.prev \subseteq
            {schedule.next} \cup schedule'.next..schedule'.prev
    BY <1>2, BlockEmitted, Types
  <2>2. QED
    BY <1>2, <2>1, BlockEmitted DEF OnlyNextMissing
<1>3. CASE ScheduleClose
  <2>1. /\ schedule'.prev = schedule.prev /\ schedule'.next = schedule.next
        /\ received' = received /\ scheduled' = scheduled
    BY <1>3 DEF ScheduleClose, history, Typing, TypeOK
  <2>2. QED
    BY <2>1 DEF OnlyNextMissing
<1>4. CASE UNCHANGED <<schedule, received, scheduled>>
  BY <1>4 DEF OnlyNextMissing
<1>5. QED
  BY <1>1, <1>2, <1>3, <1>4, ScheduleFrame

LEMMA NextInLineNext == Typing /\ PrevIsLast /\ NextInLine /\ [Next]_vars => NextInLine'
<1> SUFFICES ASSUME Typing, PrevIsLast, NextInLine, [Next]_vars, Rising'
             PROVE  IF received' = <<>>
                    THEN scheduled' = <<>>
                    ELSE /\ schedule'.next = received'[1] + Len(scheduled')
                         /\ schedule'.next <= schedule'.prev + 1
                         /\ \A i \in DOMAIN scheduled' : scheduled'[i] = received'[1] + i - 1
  BY DEF NextInLine
<1>1. CASE TakeHead
  <2>1. received' # <<>>
    BY <1>1, HeadTaken, EmptySeq
  <2>2. Rising
    <3> SUFFICES ASSUME NEW i \in 1..Len(received) - 1 PROVE received[i] < received[i + 1]
      BY DEF Rising
    <3>1. i \in 1..Len(received') - 1
          /\ received'[i] = received[i] /\ received'[i + 1] = received[i + 1]
      BY <1>1, HeadTaken
    <3>2. QED
      BY <3>1 DEF Rising
  <2>3. CASE received = <<>>
    <3>1. scheduled = <<>> /\ scheduled' = scheduled
      BY <1>1, <2>2, <2>3, HeadTaken DEF NextInLine
    <3>2. /\ schedule'.next = receive.b /\ schedule'.prev = receive.b
          /\ received'[1] = receive.b /\ receive.b \in Int
      BY <1>1, <2>3, HeadTaken
    <3>3. Len(scheduled') = 0 /\ DOMAIN scheduled' = {}
      BY <3>1, EmptySeq
    <3>4. QED
      BY <2>1, <3>2, <3>3
  <2>4. CASE received # <<>>
    <3>1. /\ Len(received) \in 1..Len(received') - 1 /\ Len(received) >= 1
          /\ received'[Len(received) + 1] = receive.b
          /\ received'[Len(received)] = schedule.prev
          /\ received'[1] = received[1]
          /\ receive.b \in Int /\ schedule.prev \in Int /\ schedule.next \in Int
          /\ schedule'.next = schedule.prev + 1 /\ schedule'.prev = receive.b
          /\ schedule.next > schedule.prev /\ scheduled' = scheduled
      BY <1>1, <2>4, HeadTaken, Types DEF PrevIsLast
    <3>2. schedule.prev < receive.b
      BY <3>1 DEF Rising
    <3>3. schedule'.next = schedule.next
      BY <2>2, <2>4, <3>1 DEF NextInLine
    <3>4. QED
      BY <2>1, <2>2, <2>4, <3>1, <3>2, <3>3 DEF NextInLine
  <2>5. QED
    BY <2>3, <2>4
<1>2. CASE Emit
  <2>1. Rising /\ received' = received
    BY <1>2, BlockEmitted DEF Rising
  <2>2. received # <<>>
    BY <1>2, BlockEmitted, Types DEF PrevIsLast
  <2>3. /\ schedule.next = received[1] + Len(scheduled)
        /\ \A i \in DOMAIN scheduled : scheduled[i] = received[1] + i - 1
    BY <2>1, <2>2 DEF NextInLine
  <2>4. received[1] \in Int
    <3>1. received \in Seq(Numbers) /\ 1 \in 1..Len(received)
      BY <2>2, Types, EmptySeq
    <3>2. QED
      BY <3>1, ElementOfSeq, BoundAssumption DEF Numbers
  <2>5. /\ scheduled \in Seq(Numbers) /\ schedule.next \in Numbers
        /\ scheduled' = Append(scheduled, schedule.next)
    BY <1>2, BlockEmitted, Types
  <2>6. /\ Len(scheduled') = Len(scheduled) + 1 /\ Len(scheduled) \in Nat
        /\ DOMAIN scheduled' = 1..Len(scheduled) + 1 /\ DOMAIN scheduled = 1..Len(scheduled)
        /\ \A i \in 1..Len(scheduled) : scheduled'[i] = scheduled[i]
        /\ scheduled'[Len(scheduled) + 1] = schedule.next
    BY <2>5, AppendProperties, LenProperties
  <2>7. /\ schedule'.next = schedule.next + 1 /\ schedule'.prev = schedule.prev
        /\ schedule.next <= schedule.prev
        /\ schedule.next \in Int /\ schedule.prev \in Int
    BY <1>2, BlockEmitted, Types
  <2>8. schedule'.next = received[1] + Len(scheduled') /\ schedule'.next <= schedule'.prev + 1
    <3>1. schedule.next = received[1] + Len(scheduled)
      BY <2>3
    <3>2. Len(scheduled') = Len(scheduled) + 1 /\ Len(scheduled) \in Nat
      BY <2>6
    <3>3. QED
      BY <3>1, <3>2, <2>4, <2>7
  <2>9. \A i \in DOMAIN scheduled' : scheduled'[i] = received[1] + i - 1
    BY <2>3, <2>4, <2>6
  <2>10. QED
    BY <2>1, <2>2, <2>8, <2>9
<1>3. CASE ScheduleClose
  <2>1. /\ schedule'.prev = schedule.prev /\ schedule'.next = schedule.next
        /\ received' = received /\ scheduled' = scheduled
    BY <1>3 DEF ScheduleClose, history, Typing, TypeOK
  <2>2. Rising
    BY <2>1 DEF Rising
  <2>3. QED
    BY <2>1, <2>2 DEF NextInLine
<1>4. CASE UNCHANGED <<schedule, received, scheduled>>
  <2>1. Rising
    BY <1>4 DEF Rising
  <2>2. QED
    BY <1>4, <2>1 DEF NextInLine
<1>5. QED
  BY <1>1, <1>2, <1>3, <1>4, ScheduleFrame

(***************************************************************************)
(* Notifications                                                           *)
(***************************************************************************)
\* The notifications between Extract and the end of Notify, from the oldest on.
Posting  == IF notify.pc = "post" THEN <<notify.b>> ELSE <<>>
Offering == IF extract.pc = "offer" THEN <<extract.b>> ELSE <<>>

LEMMA NotificationTypes ==
  ASSUME Typing
  PROVE  /\ succeeded \in Seq(Numbers) /\ tried \in Seq(Numbers) /\ buffer \in Seq(Numbers)
         /\ Posting \in Seq(Numbers) /\ Offering \in Seq(Numbers)
         /\ tried \o Posting \in Seq(Numbers) /\ (tried \o Posting) \o buffer \in Seq(Numbers)
<1>1. Posting \in Seq(Numbers)
  BY EmptySeq, OneElement DEF Posting, Typing, HeldAreBlocks
<1>2. Offering \in Seq(Numbers)
  BY EmptySeq, OneElement DEF Offering, Typing, HeldAreBlocks
<1>3. tried \o Posting \in Seq(Numbers)
  BY <1>1, Types, ConcatProperties
<1>4. QED
  BY <1>1, <1>2, <1>3, Types, ConcatProperties

LEMMA ConservedNext ==
  Typing /\ NotificationsConserved /\ [Next]_vars => NotificationsConserved'
<1> SUFFICES ASSUME Typing, succeeded = ((tried \o Posting) \o buffer) \o Offering, [Next]_vars
             PROVE  succeeded' = ((tried' \o Posting') \o buffer') \o Offering'
  BY DEF NotificationsConserved, Posting, Offering
<1>1. CASE Emit \/ ExtractFailed \/ ExtractClose \/ NotifyClose
  <2>1. CASE Emit
    BY <2>1 DEF Emit, Posting, Offering
  <2>2. CASE ExtractFailed
    BY <2>2 DEF ExtractFailed, history, Posting, Offering
  <2>3. CASE ExtractClose
    BY <2>3 DEF ExtractClose, history, Posting, Offering, Typing, TypeOK
  <2>4. CASE NotifyClose
    BY <2>4 DEF NotifyClose, history, Posting, Offering, Typing, TypeOK
  <2>5. QED
    BY <1>1, <2>1, <2>2, <2>3, <2>4
<1>2. CASE Extracted
  <2>1. /\ extract.b \in Numbers /\ succeeded' = Append(succeeded, extract.b)
        /\ Offering = <<>> /\ Offering' = <<extract.b>>
        /\ tried' = tried /\ Posting' = Posting /\ buffer' = buffer
    BY <1>2 DEF Extracted, Offering, Posting, Typing, TypeOK, HeldAreBlocks
  <2>2. succeeded = (tried \o Posting) \o buffer
    BY <2>1, NotificationTypes, ConcatEmptySeq
  <2>3. succeeded' = succeeded \o <<extract.b>>
    BY <2>1, Types, AppendIsConcat
  <2>4. QED
    BY <2>1, <2>2, <2>3
<1>3. CASE Offer
  <2>1. /\ extract.b \in Numbers /\ succeeded' = succeeded
        /\ Offering = <<extract.b>> /\ Offering' = <<>>
        /\ tried' = tried /\ Posting' = Posting /\ buffer' = Append(buffer, extract.b)
    BY <1>3 DEF Offer, history, Offering, Posting, Typing, TypeOK, HeldAreBlocks
  <2>2. buffer' = buffer \o <<extract.b>> /\ <<extract.b>> \in Seq(Numbers)
    BY <2>1, Types, AppendIsConcat, OneElement
  <2>3. (tried \o Posting) \o (buffer \o <<extract.b>>)
          = ((tried \o Posting) \o buffer) \o <<extract.b>>
    <3> DEFINE before == tried \o Posting
               last   == <<extract.b>>
    <3>1. before \in Seq(Numbers) /\ buffer \in Seq(Numbers) /\ last \in Seq(Numbers)
      BY <2>2, NotificationTypes
    <3> HIDE DEF before, last
    <3>2. before \o (buffer \o last) = (before \o buffer) \o last
      BY <3>1, ConcatAssociative, SMTT(30)
    <3>3. QED
      BY <3>2 DEF before, last
  <2>4. ((tried \o Posting) \o buffer) \o <<extract.b>> \in Seq(Numbers)
    BY <2>2, NotificationTypes, ConcatProperties
  <2>5. QED
    BY <2>1, <2>2, <2>3, <2>4, ConcatEmptySeq
<1>4. CASE NotifyTake
  <2>1. /\ Posting = <<>> /\ Posting' = <<Head(buffer)>> /\ buffer' = Tail(buffer)
        /\ tried' = tried /\ succeeded' = succeeded /\ Offering' = Offering /\ buffer # <<>>
    BY <1>4 DEF NotifyTake, history, Offering, Posting
  <2>2. /\ buffer = <<Head(buffer)>> \o Tail(buffer)
        /\ <<Head(buffer)>> \in Seq(Numbers) /\ Tail(buffer) \in Seq(Numbers)
    BY <2>1, Types, HeadAndTail, HeadTailProperties, OneElement
  <2>3. (tried \o <<Head(buffer)>>) \o Tail(buffer)
          = tried \o (<<Head(buffer)>> \o Tail(buffer))
    <3> DEFINE first == <<Head(buffer)>>
               rest  == Tail(buffer)
    <3>1. tried \in Seq(Numbers) /\ first \in Seq(Numbers) /\ rest \in Seq(Numbers)
      BY <2>2, Types
    <3> HIDE DEF first, rest
    <3>2. (tried \o first) \o rest = tried \o (first \o rest)
      BY <3>1, ConcatAssociative, SMTT(30)
    <3>3. QED
      BY <3>2 DEF first, rest
  <2>4. tried \o Posting = tried
    BY <2>1, Types, ConcatEmptySeq
  <2>5. QED
    BY <2>1, <2>2, <2>3, <2>4
<1>5. CASE Posted
  <2>1. /\ notify.b \in Numbers /\ Posting = <<notify.b>> /\ Posting' = <<>>
        /\ tried' = Append(tried, notify.b)
        /\ buffer' = buffer /\ succeeded' = succeeded /\ Offering' = Offering
    BY <1>5 DEF Posted, Offering, Posting, Typing, HeldAreBlocks
  <2>2. tried' = tried \o Posting /\ tried' \in Seq(Numbers)
    BY <2>1, Types, AppendIsConcat, AppendProperties
  <2>3. tried' \o Posting' = tried \o Posting
    BY <2>1, <2>2, ConcatEmptySeq
  <2>4. QED
    BY <2>1, <2>3
<1>6. CASE UNCHANGED <<extract, buffer, notify, succeeded, tried>>
  BY <1>6 DEF Posting, Offering
<1>7. QED
  BY <1>1, <1>2, <1>3, <1>4, <1>5, <1>6, NotifyFrame DEF ExtractStep, NotifyStep

(***************************************************************************)
(* The invariant, and what follows from it                                 *)
(***************************************************************************)
LEMMA IndInvInit == Init => IndInv
<1> SUFFICES ASSUME Init PROVE IndInv
  OBVIOUS
<1>1. Typing
  BY TypingInit
<1>2. ClosedInOrder /\ PrevIsLast
  BY DEF Init, ClosedInOrder, PrevIsLast
<1>3. received = <<>> /\ scheduled = <<>> /\ DOMAIN received = {}
  BY EmptySeq DEF Init
<1>4. OnlyNextMissing /\ NextInLine
  BY <1>3 DEF OnlyNextMissing, NextInLine
<1>5. NotificationsConserved
  <2>1. <<>> \o <<>> = <<>>
    BY EmptySeq, ConcatEmptySeq
  <2>2. QED
    BY <2>1 DEF Init, NotificationsConserved
<1>6. QED
  BY <1>1, <1>2, <1>4, <1>5 DEF IndInv

LEMMA IndInvNext == IndInv /\ [Next]_vars => IndInv'
  BY TypingNext, ClosedNext, PrevNext, OnlyNextMissingNext, NextInLineNext, ConservedNext DEF IndInv

LEMMA IndInvInvariant == Spec => []IndInv
  BY IndInvInit, IndInvNext, PTL DEF Spec

\* Heads and blocks keep to their types, and the channel into Notify to its
\* capacity, whatever the node sends and whenever the connection breaks.
THEOREM TypesInvariant == Spec => []TypeOK
<1>1. IndInv => TypeOK
  BY DEF IndInv, Typing
<1>2. QED
  BY <1>1, IndInvInvariant, PTL

\* Schedule fills the gaps: once it has done with a head, every block from the
\* first head up to it has been given to Extract.
THEOREM NoGapInvariant == Spec => []NoGap
<1>1. IndInv => NoGap
  <2> SUFFICES ASSUME IndInv, ~Emitting, NEW i \in DOMAIN received
               PROVE  received[1]..received[i] \subseteq Range(scheduled)
    BY DEF NoGap
  <2>1. schedule.next..schedule.prev = {}
    <3>1. CASE schedule.pc = "range"
      BY <3>1, Types DEF Emitting, IndInv
    <3>2. CASE schedule.pc = "closed"
      BY <3>2, Types DEF ClosedInOrder, IndInv
    <3>3. QED
      BY <3>1, <3>2 DEF IndInv, Typing, TypeOK
  <2>2. QED
    BY <2>1 DEF IndInv, OnlyNextMissing
<1>2. QED
  BY <1>1, IndInvInvariant, PTL

\* Extract gets consecutive blocks, each once, as long as the heads rise.
THEOREM ConsecutiveInvariant == Spec => []Consecutive
<1>1. IndInv => Consecutive
  <2> SUFFICES ASSUME IndInv, Rising, NEW i \in DOMAIN scheduled
               PROVE  scheduled[i] = received[1] + i - 1
    BY DEF Consecutive, Rising
  <2>1. received # <<>>
    BY EmptySeq DEF IndInv, NextInLine
  <2>2. QED
    BY <2>1 DEF IndInv, NextInLine
<1>2. QED
  BY <1>1, IndInvInvariant, PTL

\* From Extract to the end of Notify no notification is lost, doubled or
\* overtaken, whatever the capacity of the channel.
THEOREM NotificationsConservedInvariant == Spec => []NotificationsConserved
<1>1. IndInv => NotificationsConserved
  BY DEF IndInv
<1>2. QED
  BY <1>1, IndInvInvariant, PTL

\* When Notify closes "done" every block extracted has been posted or skipped,
\* and every block between the heads has been given to Extract.
THEOREM DrainedInvariant == Spec => []DrainedWhenDone
<1>1. IndInv => DrainedWhenDone
  <2> SUFFICES ASSUME IndInv, notify.pc = "closed"
               PROVE  /\ succeeded = tried
                      /\ \A i \in DOMAIN received :
                            received[1]..received[i] \subseteq Range(scheduled)
    BY DEF DrainedWhenDone
  <2>1. /\ extract.pc = "closed" /\ buffer = <<>>
        /\ schedule.next > schedule.prev /\ Typing
    BY DEF IndInv, ClosedInOrder
  <2>2. succeeded = tried
    <3>1. succeeded = ((tried \o <<>>) \o <<>>) \o <<>>
      BY <2>1 DEF IndInv, NotificationsConserved
    <3>2. tried \o <<>> = tried
      BY <2>1, Types, ConcatEmptySeq
    <3>3. QED
      BY <3>1, <3>2
  <2>3. schedule.next..schedule.prev = {}
    BY <2>1, Types
  <2>4. QED
    BY <2>2, <2>3 DEF IndInv, OnlyNextMissing
<1>2. QED
  BY <1>1, IndInvInvariant, PTL
=============================================================================
