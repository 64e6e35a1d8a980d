------------------------------ MODULE RealTime ------------------------------
(***************************************************************************)
(* The real-time pipeline of the orchestrator: Receive, Schedule, Extract  *)
(* (orc/service/extraction_rt.go) and Notify (newblock.go), four goroutines*)
(* in a row.  Receive reads new heads from the node's websocket, Schedule  *)
(* fills the gaps between heads, Extract runs each block, Notify posts the *)
(* blocks extracted to the ws service.  The channels are unbuffered (a     *)
(* joint step) but for the one into Notify.                                *)
(*                                                                         *)
(* What Extract does to the task queue is the subject of Orchestrator; its *)
(* feed is the channel Emit stands for here.                               *)
(***************************************************************************)
EXTENDS Integers, SequencesExt

CONSTANTS
    MaxBlock,      \* bound: block numbers announced
    MaxMessages,   \* bound: messages of the node
    BufferCap      \* capacity of the channel into Notify, 10 in the code

ASSUME BoundAssumption ==
    MaxBlock \in Nat \ {0} /\ MaxMessages \in Nat /\ BufferCap \in Nat \ {0}

Numbers == 1..MaxBlock

\* A message Receive has no use for: no valid JSON, no header, or a number that
\* does not parse, as "0x0" does once TrimLeft has taken its zeros.
Unusable == 0

VARIABLES
    wire,       \* messages the node has sent and Receive has not read
    messages,   \* messages sent so far
    conn,       \* the websocket is open
    receive,    \* [pc, b]: subscribing, reading, offering b, or closed
    schedule,   \* [pc, prev, next]: emitting next..prev, or closed
    extract,    \* [pc, b]: taking, running b, offering b, or closed
    buffer,     \* blocks in the channel into Notify
    notify,     \* [pc, b]: taking, posting b, or closed
    received,   \* auxiliary: heads Schedule has taken, in order
    scheduled,  \* auxiliary: blocks Extract has taken, in order
    succeeded,  \* auxiliary: blocks extracted successfully, in order
    tried       \* auxiliary: blocks Notify has posted or skipped, in order

node    == <<wire, messages, conn>>
history == <<received, scheduled, succeeded, tried>>
vars    == <<node, receive, schedule, extract, buffer, notify, history>>

TypeOK ==
    /\ wire \in Seq(Numbers \cup {Unusable}) /\ messages \in 0..MaxMessages /\ conn \in BOOLEAN
    /\ receive \in [pc : {"subscribe", "read", "offer", "closed"}, b : Numbers \cup {0}]
    /\ schedule \in [pc : {"range", "closed"}, prev : 0..MaxBlock, next : 1..MaxBlock + 1]
    /\ extract \in [pc : {"take", "run", "offer", "closed"}, b : Numbers \cup {0}]
    /\ buffer \in Seq(Numbers) /\ Len(buffer) <= BufferCap
    /\ notify \in [pc : {"take", "post", "closed"}, b : Numbers \cup {0}]
    /\ {received, scheduled, succeeded, tried} \subseteq Seq(Numbers)

Init ==
    /\ wire = <<>> /\ messages = 0 /\ conn = TRUE
    /\ receive = [pc |-> "subscribe", b |-> 0]
    /\ schedule = [pc |-> "range", prev |-> 0, next |-> 1]
    /\ extract = [pc |-> "take", b |-> 0]
    /\ buffer = <<>>
    /\ notify = [pc |-> "take", b |-> 0]
    /\ received = <<>> /\ scheduled = <<>> /\ succeeded = <<>> /\ tried = <<>>
-----------------------------------------------------------------------------
(* The node and the connection.                                            *)

\* A new best head: the next number, a jump, the same or a lower one.
NodeSends(m) ==
    /\ conn /\ messages < MaxMessages
    /\ wire' = Append(wire, m)
    /\ messages' = messages + 1
    /\ UNCHANGED <<conn, receive, schedule, extract, buffer, notify, history>>

\* Closed by either side, or broken.
Disconnect ==
    /\ conn
    /\ conn' = FALSE
    /\ UNCHANGED <<wire, messages, receive, schedule, extract, buffer, notify, history>>
-----------------------------------------------------------------------------
(* Receive                                                                 *)

\* The first message answers the subscription.
Subscribed ==
    /\ receive.pc = "subscribe" /\ conn
    /\ receive' = [receive EXCEPT !.pc = "read"]
    /\ UNCHANGED <<node, schedule, extract, buffer, notify, history>>

\* No answer, or one that does not parse.
SubscribeFails ==
    /\ receive.pc = "subscribe"
    /\ receive' = [receive EXCEPT !.pc = "closed"]
    /\ UNCHANGED <<node, schedule, extract, buffer, notify, history>>

\* Mutant: a number that does not parse is passed on.
ReadUnchecked ==
    /\ receive.pc = "read" /\ wire # <<>>
    /\ receive' = [pc |-> "offer", b |-> Head(wire)]
    /\ wire' = Tail(wire)
    /\ UNCHANGED <<messages, conn, schedule, extract, buffer, notify, history>>

Read ==
    /\ receive.pc = "read" /\ wire # <<>>
    /\ receive' = IF Head(wire) = Unusable THEN receive
                                           ELSE [pc |-> "offer", b |-> Head(wire)]
    /\ wire' = Tail(wire)
    /\ UNCHANGED <<messages, conn, schedule, extract, buffer, notify, history>>

\* Mutant: a read error is logged and the loop goes on.
ReadErrorIgnored ==
    /\ receive.pc = "read" /\ ~conn
    /\ UNCHANGED vars

\* A read error ends Receive; messages not read are lost.
ReadError ==
    /\ receive.pc = "read" /\ ~conn
    /\ receive' = [receive EXCEPT !.pc = "closed"]
    /\ UNCHANGED <<node, schedule, extract, buffer, notify, history>>
-----------------------------------------------------------------------------
(* Schedule                                                                *)

Emitting == schedule.pc = "range" /\ schedule.next <= schedule.prev

\* Mutant: a head is passed on alone, gaps are not filled.
NextAloneAfter(b) == b

\* The block after the previous head; before the first head prev is 0.
NextAfter(b) == IF schedule.prev = 0 THEN b ELSE schedule.prev + 1

\* Schedule takes a head: the blocks up to it are next, none if it is not above.
TakeHead ==
    /\ receive.pc = "offer" /\ schedule.pc = "range" /\ ~Emitting
    /\ schedule' = [schedule EXCEPT !.prev = receive.b, !.next = NextAfter(receive.b)]
    /\ received' = Append(received, receive.b)
    /\ receive' = [pc |-> "read", b |-> 0]
    /\ UNCHANGED <<node, extract, buffer, notify, scheduled, succeeded, tried>>

\* Schedule's channel meets Extract's range.
Emit ==
    /\ Emitting /\ extract.pc = "take"
    /\ extract' = [pc |-> "run", b |-> schedule.next]
    /\ schedule' = [schedule EXCEPT !.next = @ + 1]
    /\ scheduled' = Append(scheduled, schedule.next)
    /\ UNCHANGED <<node, receive, buffer, notify, received, succeeded, tried>>

\* Mutant: Schedule stops when its input closes, whatever it has to emit.
ScheduleStops ==
    /\ schedule.pc = "range" /\ receive.pc = "closed"
    /\ schedule' = [schedule EXCEPT !.pc = "closed"]
    /\ UNCHANGED <<node, receive, extract, buffer, notify, history>>

ScheduleClose ==
    /\ schedule.pc = "range" /\ ~Emitting /\ receive.pc = "closed"
    /\ schedule' = [schedule EXCEPT !.pc = "closed"]
    /\ UNCHANGED <<node, receive, extract, buffer, notify, history>>
-----------------------------------------------------------------------------
(* Extract                                                                 *)

Extracted ==
    /\ extract.pc = "run"
    /\ extract' = [extract EXCEPT !.pc = "offer"]
    /\ succeeded' = Append(succeeded, extract.b)
    /\ UNCHANGED <<node, receive, schedule, buffer, notify, received, scheduled, tried>>

\* Mutant: a failed extraction ends the goroutine.
ExtractFailedEnds ==
    /\ extract.pc = "run"
    /\ extract' = [pc |-> "closed", b |-> 0]
    /\ UNCHANGED <<node, receive, schedule, buffer, notify, history>>

\* The upsert, the extraction or an update failed: on to the next block.
ExtractFailed ==
    /\ extract.pc = "run"
    /\ extract' = [pc |-> "take", b |-> 0]
    /\ UNCHANGED <<node, receive, schedule, buffer, notify, history>>

\* Mutant: the notification is dropped when the buffer is full.
OfferOrDrop ==
    /\ extract.pc = "offer"
    /\ buffer' = IF Len(buffer) < BufferCap THEN Append(buffer, extract.b) ELSE buffer
    /\ extract' = [pc |-> "take", b |-> 0]
    /\ UNCHANGED <<node, receive, schedule, notify, history>>

Offer ==
    /\ extract.pc = "offer" /\ Len(buffer) < BufferCap
    /\ buffer' = Append(buffer, extract.b)
    /\ extract' = [pc |-> "take", b |-> 0]
    /\ UNCHANGED <<node, receive, schedule, notify, history>>

ExtractClose ==
    /\ extract.pc = "take" /\ schedule.pc = "closed"
    /\ extract' = [extract EXCEPT !.pc = "closed"]
    /\ UNCHANGED <<node, receive, schedule, buffer, notify, history>>
-----------------------------------------------------------------------------
(* Notify                                                                  *)

NotifyTake ==
    /\ notify.pc = "take" /\ buffer # <<>>
    /\ notify' = [pc |-> "post", b |-> Head(buffer)]
    /\ buffer' = Tail(buffer)
    /\ UNCHANGED <<node, receive, schedule, extract, history>>

\* Posted, refused, or given up after 2 seconds; without a host it is skipped.
\* Whatever the outcome the block is not posted again.
Posted ==
    /\ notify.pc = "post"
    /\ tried' = Append(tried, notify.b)
    /\ notify' = [pc |-> "take", b |-> 0]
    /\ UNCHANGED <<node, receive, schedule, extract, buffer, received, scheduled, succeeded>>

NotifyClose ==
    /\ notify.pc = "take" /\ buffer = <<>> /\ extract.pc = "closed"
    /\ notify' = [notify EXCEPT !.pc = "closed"]
    /\ UNCHANGED <<node, receive, schedule, extract, buffer, history>>
-----------------------------------------------------------------------------
ReceiveStep  == Subscribed \/ SubscribeFails \/ Read \/ ReadError
ScheduleStep == TakeHead \/ Emit \/ ScheduleClose
ExtractStep  == Extracted \/ ExtractFailed \/ Offer \/ ExtractClose
NotifyStep   == NotifyTake \/ Posted \/ NotifyClose

Next ==
    \/ \E m \in Numbers \cup {Unusable} : NodeSends(m)
    \/ Disconnect
    \/ ReceiveStep \/ ScheduleStep \/ ExtractStep \/ NotifyStep

Spec == Init /\ [][Next]_vars

\* Every goroutine runs, an extraction ends, a post ends within its timeout.
FairSpec ==
    /\ Spec
    /\ WF_vars(ReceiveStep) /\ WF_vars(ScheduleStep)
    /\ WF_vars(ExtractStep) /\ WF_vars(NotifyStep)
-----------------------------------------------------------------------------
(* Properties                                                              *)

\* "handle jumpy blocks": whatever heads come, jumps, repeats and lower heads
\* included, every block from the first head up to each head Schedule has done
\* with has been given to Extract.
NoGap ==
    ~Emitting => \A i \in DOMAIN received :
        received[1]..received[i] \subseteq Range(scheduled)

\* As long as the heads rise, Extract gets consecutive blocks, each once.
Consecutive ==
    (\A i \in 1..Len(received) - 1 : received[i] < received[i + 1]) =>
        \A i \in DOMAIN scheduled : scheduled[i] = received[1] + i - 1

\* What has been extracted is in Extract's hand, in the buffer, in Notify's
\* hand or tried, in the order of extraction: none lost, doubled or overtaken.
NotificationsConserved ==
    succeeded = tried \o (IF notify.pc = "post" THEN <<notify.b>> ELSE <<>>)
                      \o buffer
                      \o (IF extract.pc = "offer" THEN <<extract.b>> ELSE <<>>)

\* When Notify closes "done", nothing that entered the pipeline is left in it.
DrainedWhenDone ==
    notify.pc = "closed" =>
        /\ succeeded = tried
        /\ \A i \in DOMAIN received : received[1]..received[i] \subseteq Range(scheduled)

\* Losing the node ends the pipeline, and through it the orchestrator.
DisconnectEndsPipeline == ~conn ~> notify.pc = "closed"

\* Every head taken is eventually done with, unless Notify is stuck for ever.
HeadsAreWorkedOff == Emitting ~> ~Emitting
=============================================================================
