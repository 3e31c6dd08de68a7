-------------------------- MODULE MessageTransport --------------------------
(***************************************************************************)
(* How the ESPHome component moves messages in chunks of one notification  *)
(* or one write (tesla_ble_vehicle.cpp): chunks from the vehicle wait in   *)
(* ble_read_queue_, are put together in ble_read_buffer_ by the length in  *)
(* front of each message, and the messages wait in response_queue_.        *)
(* Messages to the vehicle are cut into ble_write_queue_, which sends one  *)
(* chunk per loop().                                                       *)
(*                                                                         *)
(* Lengths are counted in chunks.  The first chunk of a message announces  *)
(* how many the message has; the first two bytes of any other chunk are    *)
(* payload, and announce anything when they are taken for a length.        *)
(***************************************************************************)
EXTENDS Integers, Sequences

CONSTANTS
  MaxParts,     \* chunks of the longest message
  BufferParts,  \* chunks that fit in the read buffer (MAX_BLE_MESSAGE_SIZE)
  MaxOffered,   \* bound: messages the vehicle sends
  MaxSent,      \* bound: messages the component sends
  MaxWaiting    \* bound: commands in the queue

ASSUME PartsAssumption == MaxParts \in Nat \ {0}
ASSUME BufferAssumption == BufferParts \in Nat /\ MaxParts <= BufferParts
ASSUME BoundsAssumption == MaxOffered \in Nat /\ MaxSent \in Nat /\ MaxWaiting \in Nat

VARIABLES
  air,         \* chunks of the vehicle's current message that are still to be notified
  readQueue, readBuffer, responses,
  offered,     \* messages the vehicle has begun to send
  latest,      \* the latest message process_response_queue has taken
  arrivals,    \* how many it has taken
  writeQueue,
  sent,        \* messages given to writeBLE
  onAir,       \* the chunk written last on this connection, if any
  waiting,     \* commands in the queue
  link,        \* "established" or "down"
  phase        \* the queue loop() is to process next

readVars == <<air, readQueue, readBuffer, responses, offered, latest, arrivals>>
writeVars == <<writeQueue, sent, onAir>>
vars == <<air, readQueue, readBuffer, responses, offered, latest, arrivals,
          writeQueue, sent, onAir, waiting, link, phase>>

Sizes == 1..MaxParts

(* The lengths a chunk may announce; TooLong stands for every length that the   *)
(* buffer cannot hold.                                                        *)
TooLong == BufferParts + 2
Headers == 1..BufferParts \cup {TooLong}

InChunk == [message : Nat \ {0}, part : Sizes, size : Sizes, header : Headers]
OutChunk == [message : Nat \ {0}, part : Sizes, size : Sizes]

Garbled == 0  \* a message parsed from bytes that no message is made of
NoChunk == [message |-> 0, part |-> 0, size |-> 0]

(* Message m of the vehicle in chunks, when chunk i announces headers[i]. *)
Notifications(m, headers) ==
  [i \in 1..Len(headers) |->
    [message |-> m, part |-> i, size |-> Len(headers), header |-> headers[i]]]

(* writeBLE cuts message m into n chunks. *)
Chunks(m, n) == [i \in 1..n |-> [message |-> m, part |-> i, size |-> n]]

----------------------------------------------------------------------------
(* process_ble_read_queue: one chunk per loop.                               *)

CompleteOneEarly(b) == Len(b) + 1 >= Head(b).header
Complete(b) == Len(b) >= Head(b).header

(* The buffer holds one message from its first chunk to its last. *)
Whole(b) ==
  /\ Len(b) = b[1].size
  /\ \A i \in 1..Len(b) : b[i].message = b[1].message /\ b[i].part = i

(* What parsing the buffer adds to the response queue.  Chunks that are not one *)
(* message mostly fail to parse; what is parsed from them nevertheless is       *)
(* handled like any message, but is none the vehicle sent.                    *)
Parsed(b) == IF Whole(b) THEN {<<Head(b).message>>} ELSE {<<>>, <<Garbled>>}

HasRoomBeforeAppend == Len(readBuffer) <= BufferParts
HasRoom == Len(readBuffer) + 1 <= BufferParts
FullNeverCleared == readBuffer
ClearedWhenFull == <<>>

NoChunkToRead ==
  /\ readQueue = <<>>
  /\ UNCHANGED <<readQueue, readBuffer, responses>>

(* The buffer has no room: it is cleared and the chunk stays in the queue. *)
Overflow ==
  /\ readQueue # <<>> /\ ~HasRoom
  /\ readBuffer' = ClearedWhenFull
  /\ UNCHANGED <<readQueue, responses>>

Appended == Append(readBuffer, Head(readQueue))

(* The chunk joins the buffer, and a complete buffer is parsed and cleared. *)
Collect ==
  /\ readQueue # <<>> /\ HasRoom
  /\ readQueue' = Tail(readQueue)
  /\ \/ ~Complete(Appended) /\ readBuffer' = Appended /\ UNCHANGED responses
     \/ /\ Complete(Appended) /\ readBuffer' = <<>>
        /\ \E parsed \in Parsed(Appended) : responses' = responses \o parsed

process_ble_read_queue ==
  /\ phase = "read" /\ link = "established" /\ phase' = "respond"
  /\ NoChunkToRead \/ Overflow \/ Collect
  /\ UNCHANGED <<air, offered, latest, arrivals, writeVars, waiting, link>>

----------------------------------------------------------------------------
(* process_response_queue and process_command_queue, as far as they touch the *)
(* transport.                                                               *)

DropFirst(rs) == IF rs = <<>> THEN rs ELSE Tail(rs)

(* pop_command_and_tidy_up, when rs are the responses that wait: the buffer is *)
(* cleared and one response dropped, whatever they belong to.                *)
TidyUp(rs) ==
  /\ waiting > 0 /\ waiting' = waiting - 1
  /\ readBuffer' = <<>>
  /\ responses' = DropFirst(rs)

AfterPeeking == responses
AfterTaking == Tail(responses)

(* The response may be the one that ends the front command. *)
process_response_queue ==
  /\ phase = "respond" /\ phase' = "command"
  /\ \/ /\ responses = <<>>
        /\ UNCHANGED <<responses, readBuffer, latest, arrivals, waiting>>
     \/ /\ responses # <<>>
        /\ \/ responses' = AfterTaking /\ UNCHANGED <<readBuffer, waiting>>
           \/ TidyUp(AfterTaking)
        /\ IF Head(responses) = Garbled
           THEN UNCHANGED <<latest, arrivals>>
           ELSE latest' = Head(responses) /\ arrivals' = arrivals + 1
  /\ UNCHANGED <<air, readQueue, offered, writeVars, link>>

writeBLE ==
  /\ sent < MaxSent /\ sent' = sent + 1
  /\ \E n \in Sizes : writeQueue' = writeQueue \o Chunks(sent + 1, n)
  /\ UNCHANGED onAir

(* The front command does nothing here, is popped, waits no longer for its     *)
(* answer (cpp:482-493), sends, or sends for the last time and is popped, as a  *)
(* wake that is given up (cpp:376-399).                                       *)
process_command_queue ==
  /\ phase = "command" /\ phase' = "write"
  /\ \/ UNCHANGED <<readBuffer, responses, waiting, writeVars>>
     \/ TidyUp(responses) /\ UNCHANGED writeVars
     \/ /\ waiting > 0 /\ readBuffer' = <<>> /\ responses' = DropFirst(responses)
        /\ UNCHANGED <<waiting, writeVars>>
     \/ waiting > 0 /\ writeBLE /\ UNCHANGED <<readBuffer, responses, waiting>>
     \/ writeBLE /\ TidyUp(responses)
  /\ UNCHANGED <<air, readQueue, offered, latest, arrivals, link>>

----------------------------------------------------------------------------

AfterWriteError == Tail(writeQueue)
AfterRefusedWrite == writeQueue

(* process_ble_write_queue: a chunk that the stack refuses stays in front. *)
process_ble_write_queue ==
  /\ phase = "write" /\ phase' = "read"
  /\ \/ writeQueue = <<>> /\ UNCHANGED <<writeQueue, onAir>>
     \/ writeQueue # <<>> /\ writeQueue' = AfterRefusedWrite /\ UNCHANGED onAir
     \/ writeQueue # <<>> /\ onAir' = Head(writeQueue) /\ writeQueue' = Tail(writeQueue)
  /\ UNCHANGED <<readVars, sent, waiting, link>>

(* loop() without a connection only drops one command. *)
LoopDisconnected ==
  /\ phase = "read" /\ link # "established"
  /\ TidyUp(responses)
  /\ UNCHANGED <<air, readQueue, offered, latest, arrivals, writeVars, link, phase>>

Loop ==
  \/ process_ble_read_queue \/ process_response_queue
  \/ process_command_queue \/ process_ble_write_queue
  \/ LoopDisconnected

----------------------------------------------------------------------------
(* Between loops.                                                            *)

BetweenLoops == phase = "read" /\ UNCHANGED phase

(* The vehicle begins a message. *)
Offer ==
  /\ BetweenLoops
  /\ link = "established" /\ air = <<>> /\ offered < MaxOffered
  /\ offered' = offered + 1
  /\ \E n \in Sizes : \E headers \in [1..n -> Headers] :
       headers[1] = n /\ air' = Notifications(offered + 1, headers)
  /\ UNCHANGED <<readQueue, readBuffer, responses, latest, arrivals, writeVars,
                 waiting, link>>

(* ESP_GATTC_NOTIFY_EVT *)
Notify ==
  /\ BetweenLoops
  /\ air # <<>> /\ air' = Tail(air)
  /\ readQueue' = Append(readQueue, Head(air))
  /\ UNCHANGED <<readBuffer, responses, offered, latest, arrivals, writeVars,
                 waiting, link>>

Enqueue ==
  /\ BetweenLoops
  /\ waiting < MaxWaiting /\ waiting' = waiting + 1
  /\ UNCHANGED <<readVars, writeVars, link>>

(* startPair and direct calls write without a command. *)
SendDirectly ==
  /\ BetweenLoops /\ writeBLE
  /\ UNCHANGED <<readVars, waiting, link>>

(* ESP_GATTC_REG_FOR_NOTIFY_EVT *)
Established ==
  /\ BetweenLoops
  /\ link = "down" /\ link' = "established"
  /\ UNCHANGED <<readVars, writeVars, waiting>>

(* ESP_GATTC_CLOSE_EVT: what the vehicle had left to send is lost; the          *)
(* component keeps every queue and the buffer.                                *)
Disconnected ==
  /\ BetweenLoops
  /\ link = "established" /\ link' = "down"
  /\ air' = <<>> /\ onAir' = NoChunk
  /\ UNCHANGED <<readQueue, readBuffer, responses, offered, latest, arrivals,
                 writeQueue, sent, waiting>>

Init ==
  /\ air = <<>> /\ readQueue = <<>> /\ readBuffer = <<>> /\ responses = <<>>
  /\ offered = 0 /\ latest = 0 /\ arrivals = 0
  /\ writeQueue = <<>> /\ sent = 0 /\ onAir = NoChunk
  /\ waiting = 0 /\ link = "down" /\ phase = "read"

Next ==
  \/ Loop
  \/ Offer \/ Notify \/ Enqueue \/ SendDirectly
  \/ Established \/ Disconnected

(* ESPHome's main task keeps calling loop(). *)
Fairness == WF_vars(Loop)

Spec == Init /\ [][Next]_vars
FairSpec == Spec /\ Fairness
----------------------------------------------------------------------------

TypeOK ==
  /\ air \in Seq(InChunk) /\ readQueue \in Seq(InChunk) /\ readBuffer \in Seq(InChunk)
  /\ Len(readBuffer) <= BufferParts
  /\ responses \in Seq(Nat)
  /\ offered \in Nat /\ latest \in Nat /\ arrivals \in Nat
  /\ writeQueue \in Seq(OutChunk) /\ sent \in Nat
  /\ onAir \in OutChunk \cup {NoChunk}
  /\ waiting \in Nat
  /\ link \in {"established", "down"}
  /\ phase \in {"read", "respond", "command", "write"}

Channel == INSTANCE LossyChannel

(* However chunks are torn apart by tidying up, overflows and lost connections, *)
(* the vehicle's own messages reach the handlers whole, in order and each at    *)
(* most once (cpp:547-617).  What torn chunks may parse as besides (Garbled)    *)
(* reaches the handlers too and is not among the arrivals.                    *)
ImplementsChannel == Channel!Spec

(* "Empty the response queue if there's anything in it" (.h:341): there never    *)
(* is.  A message put together in one loop is taken in the same loop, before    *)
(* any command is popped, so tidying up throws no answer away.                 *)
NothingToTidy == phase # "respond" => responses = <<>>

(* d is what may come after c in a stream of whole messages. *)
Follows(c, d) ==
  IF c.part = c.size THEN d.part = 1
  ELSE d.message = c.message /\ d.part = c.part + 1

(* Whole messages and nothing else. *)
Clean(s) ==
  s # <<>> =>
    /\ s[1].part = 1 /\ s[Len(s)].part = s[Len(s)].size
    /\ \A i \in 1..(Len(s) - 1) : Follows(s[i], s[i + 1])

(* The vehicle's chunks that have not been parsed or thrown away. *)
Stream == readBuffer \o readQueue \o air

MessagesOf(s) == {s[i].message : i \in 1..Len(s)}

(* The buffer is emptied under a message that is half received, or the rest of  *)
(* one is lost with the connection.                                           *)
Torn ==
  \/ phase # "read" /\ readBuffer # <<>> /\ readBuffer' = <<>>
  \/ LoopDisconnected /\ readBuffer # <<>>
  \/ link' = "down" /\ air # <<>>

(* Only a torn message is lost: while the chunks on their way are whole        *)
(* messages they stay so, no overflow and no misread length clears the buffer,  *)
(* and every message goes on to the handlers (cpp:547-607).                    *)
OnlyTornIsLost ==
  [][Clean(Stream) /\ ~Torn =>
       /\ Clean(Stream')
       /\ \A m \in MessagesOf(Stream) :
            m \in MessagesOf(Stream') \/ responses' = <<m>>]_vars

(* A chunk that was refused or a connection that was lost tears at most the     *)
(* message at the front of the write queue: behind it whole messages follow,     *)
(* and on one connection no message is cut short or begun in the middle of       *)
(* another (cpp:526-545, 1506-1525).                                          *)
WritesInOrder ==
  /\ \A i \in 1..(Len(writeQueue) - 1) : Follows(writeQueue[i], writeQueue[i + 1])
  /\ onAir # NoChunk =>
       IF writeQueue = <<>> THEN onAir.part = onAir.size ELSE Follows(onAir, writeQueue[1])

(* An overflow leaves its chunk in the queue (cpp:559-566), but it does not      *)
(* block it: while the link holds, every chunk is read.                        *)
ChunksAreRead == readQueue # <<>> ~> (readQueue = <<>> \/ link = "down")
============================================================================
