------------------------------- MODULE SpiProofs -------------------------------
(***************************************************************************)
(* Theorems about SPI transfers.  First the queue (SpiQueue), for any      *)
(* number of transfers and locks, of which some never start because of     *)
(* their chunk size: the bus has one user at a time, and a callback is     *)
(* told what became of its own transfer.  They assume that a lock is       *)
(* released with no transfer running.                                      *)
(*                                                                         *)
(* Then the transfer itself (SpiDma), for packets of any size, and buffers *)
(* of any length in any number of chunks, any number of times: the chip    *)
(* select, the channels and what the driver believes agree; the error      *)
(* reported is the one that was; and all bytes are moved, in order.  All   *)
(* three hold until a transfer meets the completion of one that a script   *)
(* abandoned; nothing is promised from then on.                            *)
(***************************************************************************)
EXTENDS SpiQueue, SpiDma, SequenceTheorems, TLAPS

Users == Transfers \union Locks
Jobs == {"ready", "execute"} \union Locks
Outcomes == {"none", "ok", "error"}

Types ==
  /\ transfers \in Seq(Transfers) /\ locks \in Seq(Locks) /\ ready \subseteq Locks
  /\ immediates \in Seq(Jobs)
  /\ listeners \in Seq(Users)
  /\ emitting \in [to : Seq(Users), failed : BOOLEAN]
  /\ bus \in {NULL} \union [owner : Users, dma : {"running", "ok", "error"}]
  /\ outcome \in [Transfers -> Outcomes] /\ result \in [Transfers -> Outcomes]

(* Nobody uses the bus; somebody does, until everyone has been told.       *)
Quiet == bus = NULL /\ listeners = <<>> /\ ~Running
InUse(user) ==
  \/ bus # NULL /\ bus.owner = user /\ listeners = <<user>> /\ ~Running
  \/ bus = NULL /\ listeners = <<>> /\ emitting.to = <<user>>

(* The bus is passed on by one callback or listener at a time.  The last   *)
(* state is the one a length that no chunk size divides leads to.          *)
Nothing == locks = <<>> /\ transfers = <<>> /\ ready = {} /\ immediates = <<>> /\ Quiet
Granting ==
  locks # <<>> /\ ready = {} /\ immediates \in {<<"ready">>, <<Head(locks)>>} /\ Quiet
Held ==
  /\ locks # <<>> /\ ready = {Head(locks)} /\ immediates = <<>>
  /\ Quiet \/ InUse(Head(locks))
Resuming == transfers # <<>> /\ ready = {} /\ immediates = <<"execute">> /\ Quiet
Transferring ==
  transfers # <<>> /\ ready = {} /\ immediates = <<>> /\ InUse(Head(transfers))
Wedged ==
  /\ transfers # <<>> /\ ready = {} /\ immediates = <<>>
  /\ bus = NULL /\ listeners = <<Head(transfers)>> /\ ~Running

Turn == Nothing \/ Granting \/ Held \/ Resuming \/ Transferring \/ Wedged

(* What a transfer is told is what the DMA did with it.                    *)
Queued(t) == \E i \in 1..Len(transfers) : transfers[i] = t

Told ==
  /\ \A i, j \in 1..Len(transfers) : transfers[i] = transfers[j] => i = j
  /\ \A t \in Transfers : Queued(t) => t \in pushed
  /\ \A t \in Transfers : t \notin pushed \/ Queued(t) => result[t] = "none"
  /\ bus # NULL /\ bus.dma # "running" /\ bus.owner \in Transfers =>
       outcome[bus.owner] = bus.dma
  /\ Running /\ Head(emitting.to) \in Transfers =>
       outcome[Head(emitting.to)] = Report(emitting.failed)
  /\ OwnResult

LEMMA AppendIn ==
  ASSUME NEW S, NEW s \in Seq(S), NEW e \in S
  PROVE  Append(s, e) \in Seq(S)
  OBVIOUS

LEMMA StartedAs ==
  ASSUME NEW user \in Users
  PROVE  LET b == [owner |-> user, dma |-> "running"]
         IN  b # NULL /\ b \in [owner : Users, dma : {"running", "ok", "error"}]
  BY SpiAssumption DEF Users

(* _execute_async with nobody on the bus.                                  *)
LEMMA ExecuteAs ==
  ASSUME NEW queue \in Seq(Transfers), bus = NULL, listeners = <<>>, Execute(queue)
  PROVE  /\ queue = <<>> => bus' = NULL /\ listeners' = <<>>
         /\ queue # <<>> =>
              /\ listeners' = <<Head(queue)>> /\ Head(queue) \in Transfers
              /\ \/ bus' = NULL
                 \/ bus' = [owner |-> Head(queue), dma |-> "running"] /\ bus' # NULL
<1>1. CASE queue = <<>>
  BY <1>1 DEF Execute
<1>2. CASE queue # <<>>
  <2>1. Head(queue) \in Transfers
    BY <1>2
  <2>2. listeners' = <<Head(queue)>>
    BY <1>2 DEF Execute
  <2>3. bus' = NULL \/ bus' = [owner |-> Head(queue), dma |-> "running"]
    BY <1>2 DEF Execute, Begin
  <2>4. [owner |-> Head(queue), dma |-> "running"] # NULL
    BY <2>1, StartedAs DEF Users
  <2>5. QED
    BY <1>2, <2>1, <2>2, <2>3, <2>4
<1>3. QED
  BY <1>1, <1>2

(* Nobody is told by two at once: outside the turns of the queue nothing   *)
(* is executed while the bus is used.                                      *)
LEMMA ReadyIsHead ==
  ASSUME Types, Turn, NEW l \in ready
  PROVE  Held /\ l = Head(locks)
  BY DEF Turn, Nothing, Granting, Held, Resuming, Transferring, Wedged

LEMMA InitInv == Init => Types /\ Turn /\ Told
<1> SUFFICES ASSUME Init PROVE Types /\ Turn /\ Told
  OBVIOUS
<1>1. emitting \in [to : Seq(Users), failed : BOOLEAN] /\ emitting.to = <<>>
  BY DEF Init
<1>2. Types
  BY <1>1 DEF Init, Types, Outcomes
<1>3. Turn
  BY <1>1 DEF Init, Turn, Nothing, Quiet, Running
<1>4. Told
  BY <1>1 DEF Init, Told, Queued, OwnResult, Running
<1>5. QED
  BY <1>2, <1>3, <1>4

-----------------------------------------------------------------------------
(* The types.                                                              *)

LEMMA ExecuteTypes ==
  ASSUME Types, NEW queue \in Seq(Transfers), Execute(queue)
  PROVE  /\ listeners' \in Seq(Users)
         /\ bus' \in {NULL} \union [owner : Users, dma : {"running", "ok", "error"}]
<1>1. CASE queue = <<>>
  BY <1>1 DEF Execute, Types
<1>2. CASE queue # <<>>
  <2>1. Head(queue) \in Users
    <3>1. Head(queue) \in Transfers
      BY <1>2
    <3>2. QED
      BY <3>1 DEF Users
  <2>2. listeners' \in Seq(Users)
    <3>1. listeners \in Seq(Users)
      BY DEF Types
    <3>2. listeners' = Append(listeners, Head(queue))
      BY <1>2 DEF Execute
    <3>3. QED
      BY <2>1, <3>1, <3>2, AppendIn
  <2>3. bus' \in {bus, [owner |-> Head(queue), dma |-> "running"]}
    BY <1>2 DEF Execute, Begin
  <2>4. QED
    BY <2>1, <2>2, <2>3, StartedAs DEF Types
<1>3. QED
  BY <1>1, <1>2

LEMMA TypeStep ==
  ASSUME Types, Turn, [Next]_vars
  PROVE  Types'
<1> USE DEF Types
<1>1. ASSUME NEW t \in Transfers, PushTransfer(t) PROVE Types'
  <2>1. /\ transfers' = Append(transfers, t) /\ transfers' \in Seq(Transfers)
        /\ UNCHANGED <<locks, ready, immediates, emitting, outcome, result>>
    BY <1>1 DEF PushTransfer
  <2>2. Execute(transfers') \/ UNCHANGED <<listeners, bus>>
    BY <1>1 DEF PushTransfer
  <2>3. QED
    BY <2>1, <2>2, ExecuteTypes
<1>2. ASSUME NEW l \in Locks, RegisterLock(l) PROVE Types'
  <2>1. /\ locks' = Append(locks, l) /\ immediates' \in {immediates, Append(immediates, l)}
        /\ UNCHANGED <<transfers, ready, listeners, emitting, bus, outcome, result>>
    BY <1>2 DEF RegisterLock
  <2>2. l \in Jobs
    BY DEF Jobs
  <2>3. locks' \in Seq(Locks) /\ immediates' \in Seq(Jobs)
    <3>1. Append(locks, l) \in Seq(Locks)
      BY AppendIn
    <3>2. Append(immediates, l) \in Seq(Jobs)
      BY <2>2, AppendIn
    <3>3. QED
      BY <2>1, <3>1, <3>2
  <2>4. QED
    BY <2>1, <2>3
<1>3. ASSUME NEW l \in Locks, DeregisterLock(l) PROVE Types'
  <2>1. /\ ready' \subseteq ready /\ locks' = Tail(locks) /\ l \in ready
        /\ UNCHANGED <<transfers, emitting, outcome, result>>
    BY <1>3 DEF DeregisterLock
  <2>2. locks # <<>>
    BY <2>1, ReadyIsHead DEF Held
  <2>3. locks' \in Seq(Locks)
    BY <2>1, <2>2
  <2>4. \/ immediates' = Append(immediates, "ready") /\ UNCHANGED <<listeners, bus>>
        \/ Execute(transfers) /\ UNCHANGED immediates
    BY <1>3 DEF DeregisterLock
  <2>5. immediates' \in Seq(Jobs)
    <3>1. "ready" \in Jobs
      BY DEF Jobs
    <3>2. Append(immediates, "ready") \in Seq(Jobs)
      BY <3>1, AppendIn
    <3>3. QED
      BY <2>4, <3>2
  <2>6. QED
    BY <2>1, <2>3, <2>4, <2>5, ExecuteTypes
<1>4. ASSUME NEW l \in Locks, RawTransaction(l) PROVE Types'
  <2>1. /\ listeners' = Append(listeners, l) /\ bus' \in {bus, [owner |-> l, dma |-> "running"]}
        /\ UNCHANGED <<transfers, locks, ready, immediates, emitting, outcome, result>>
    BY <1>4 DEF RawTransaction, Begin
  <2>2. l \in Users
    BY DEF Users
  <2>3. listeners' \in Seq(Users)
    BY <2>1, <2>2
  <2>4. QED
    BY <2>1, <2>2, <2>3, StartedAs
<1>5. CASE RunImmediate
  <2>1. /\ immediates' \in Seq(Jobs)
        /\ UNCHANGED <<transfers, locks, emitting, outcome, result>>
    BY <1>5 DEF RunImmediate
  <2>2. CASE ready' = ready
    <3>1. Execute(transfers) \/ UNCHANGED <<listeners, bus>>
      BY <1>5, <2>2 DEF RunImmediate
    <3>2. QED
      BY <2>1, <2>2, <3>1, ExecuteTypes
  <2>3. CASE ready' # ready
    <3>1. /\ UNCHANGED <<listeners, bus>>
          /\ \/ Head(immediates) \in Locks /\ ready' = ready \union {Head(immediates)}
             \/ immediates # <<>> /\ Head(immediates) = "ready"
                  /\ ready' = ready \union {Head(locks)}
      BY <1>5, <2>3 DEF RunImmediate, Ready
    <3>2. Head(immediates) = "ready" /\ immediates # <<>> => locks # <<>>
      BY SpiAssumption DEF Turn, Nothing, Granting, Held, Resuming, Transferring, Wedged
    <3>3. ready' \subseteq Locks
      BY <3>1, <3>2
    <3>4. QED
      BY <2>1, <3>1, <3>3
  <2>4. QED
    BY <2>2, <2>3
<1>6. ASSUME NEW failed \in BOOLEAN, DmaDone(failed) PROVE Types'
  <2>1. /\ bus \in [owner : Users, dma : {"running", "ok", "error"}]
        /\ bus' = [bus EXCEPT !.dma = Report(failed)]
        /\ outcome' \in {outcome, [outcome EXCEPT ![bus.owner] = Report(failed)]}
        /\ UNCHANGED <<transfers, locks, ready, immediates, listeners, emitting, result>>
    BY <1>6 DEF DmaDone
  <2>2. Report(failed) \in {"ok", "error"}
    BY DEF Report
  <2>3. QED
    BY <2>1, <2>2 DEF Outcomes
<1>7. CASE AsyncSpiCallback
  <2>1. /\ bus' = NULL /\ listeners' = <<>>
        /\ emitting' = [to |-> listeners, failed |-> bus.dma = "error"]
        /\ UNCHANGED <<transfers, locks, ready, immediates, outcome, result>>
    BY <1>7 DEF AsyncSpiCallback
  <2> DEFINE f == bus.dma = "error"
  <2>2. f \in BOOLEAN
    OBVIOUS
  <2>3. emitting' = [to |-> listeners, failed |-> f]
    BY <2>1
  <2> HIDE DEF f
  <2>4. emitting' \in [to : Seq(Users), failed : BOOLEAN]
    BY <2>2, <2>3
  <2>5. QED
    BY <2>1, <2>4
<1>8. CASE RawComplete \/ ProcessTransferCB
  <2>1. /\ emitting.to # <<>> /\ emitting' = [emitting EXCEPT !.to = Tail(emitting.to)]
        /\ UNCHANGED <<locks, ready, listeners, bus, outcome>>
    BY <1>8 DEF RawComplete, ProcessTransferCB, Running
  <2>2. emitting' \in [to : Seq(Users), failed : BOOLEAN]
    <3>1. Tail(emitting.to) \in Seq(Users)
      BY <2>1
    <3>2. QED
      BY <2>1, <3>1
  <2>3. CASE RawComplete
    BY <2>1, <2>2, <2>3 DEF RawComplete
  <2>4. CASE ProcessTransferCB
    <3>1. /\ transfers' = Tail(transfers) /\ Head(emitting.to) \in Transfers
          /\ immediates' = immediates \o FollowUp(transfers')
          /\ result' = [result EXCEPT ![Head(emitting.to)] = Report(emitting.failed)]
      BY <2>4 DEF ProcessTransferCB
    <3>2. Head(emitting.to) \notin Locks
      BY <3>1, SpiAssumption
    <3>3. transfers # <<>>
      BY <2>1, <3>2 DEF Turn, Nothing, Granting, Held, Resuming, Transferring, Wedged,
                        Quiet, InUse, Running
    <3>4. transfers' \in Seq(Transfers)
      BY <3>1, <3>3
    <3>5. FollowUp(transfers') \in Seq(Jobs)
      <4>1. "ready" \in Jobs /\ "execute" \in Jobs
        BY DEF Jobs
      <4>2. <<>> \in Seq(Jobs) /\ <<"ready">> \in Seq(Jobs) /\ <<"execute">> \in Seq(Jobs)
        <5>1. \A j \in Jobs : <<j>> \in Seq(Jobs)
          OBVIOUS
        <5>2. QED
          BY <4>1, <5>1
      <4>3. FollowUp(transfers') \in {<<>>, <<"ready">>, <<"execute">>}
        BY DEF FollowUp
      <4>4. QED
        BY <4>2, <4>3
    <3>6. immediates' \in Seq(Jobs)
      BY <3>1, <3>5
    <3>7. Report(emitting.failed) \in Outcomes
      BY DEF Report, Outcomes
    <3>8. result' \in [Transfers -> Outcomes]
      BY <3>1, <3>7
    <3>9. QED
      BY <2>1, <2>2, <3>4, <3>6, <3>8
  <2>5. QED
    BY <1>8, <2>3, <2>4
<1>9. CASE UNCHANGED vars
  BY <1>9 DEF vars
<1>10. QED
  BY <1>1, <1>2, <1>3, <1>4, <1>5, <1>6, <1>7, <1>8, <1>9 DEF Next, Runtime

-----------------------------------------------------------------------------
(* The turns.                                                              *)

LEMMA AppendedHead ==
  ASSUME NEW S, NEW s \in Seq(S), NEW e \in S
  PROVE  /\ Append(s, e) # <<>>
         /\ s = <<>> => Append(s, e) = <<e>>
         /\ s # <<>> => Head(Append(s, e)) = Head(s)
<1>1. s = <<>> => Append(s, e) = <<e>>
  OBVIOUS
<1>2. QED
  BY <1>1, AppendProperties

(* Starting the head of the queue, with nobody on the bus.                 *)
LEMMA ExecuteTurn ==
  ASSUME NEW queue \in Seq(Transfers), queue # <<>>, Execute(queue), transfers' = queue,
         Quiet, ready' = {}, immediates' = <<>>, UNCHANGED emitting
  PROVE  Turn'
<1>1. /\ listeners' = <<Head(queue)>>
      /\ \/ bus' = NULL
         \/ bus' # NULL /\ bus'.owner = Head(queue)
  BY ExecuteAs DEF Quiet
<1>2. ~Running'
  BY DEF Quiet, Running
<1>3. QED
  BY <1>1, <1>2 DEF Turn, Wedged, Transferring, InUse

LEMMA TurnStep ==
  ASSUME Types, Turn, HoldersWait, [Next]_vars
  PROVE  Turn'
<1>1. ASSUME NEW t \in Transfers, PushTransfer(t) PROVE Turn'
  <2>1. /\ transfers' = Append(transfers, t) /\ transfers' \in Seq(Transfers)
        /\ UNCHANGED <<locks, ready, immediates, emitting>>
    BY <1>1 DEF PushTransfer, Types
  <2>2. /\ transfers' # <<>>
        /\ transfers # <<>> => Head(transfers') = Head(transfers)
    BY <2>1, AppendedHead DEF Types
  <2>3. CASE QueueIdle
    <3>1. Nothing
      BY <2>3 DEF QueueIdle, Turn, Granting, Held, Resuming, Transferring, Wedged
    <3>2. Execute(transfers')
      BY <1>1, <2>3 DEF PushTransfer
    <3>3. QED
      BY <2>1, <2>2, <3>1, <3>2, ExecuteTurn DEF Nothing
  <2>4. CASE ~QueueIdle
    <3>1. UNCHANGED <<listeners, bus>>
      BY <1>1, <2>4 DEF PushTransfer
    <3>2. QED
      BY <2>1, <2>2, <2>4, <3>1 DEF QueueIdle, Turn, Nothing, Granting, Held, Resuming,
                                    Transferring, Wedged, Quiet, InUse, Running
  <2>5. QED
    BY <2>3, <2>4
<1>2. ASSUME NEW l \in Locks, RegisterLock(l) PROVE Turn'
  <2>1. /\ locks' = Append(locks, l)
        /\ UNCHANGED <<transfers, ready, listeners, emitting, bus>>
    BY <1>2 DEF RegisterLock
  <2>2. /\ locks' # <<>>
        /\ locks = <<>> => Head(locks') = l
        /\ locks # <<>> => Head(locks') = Head(locks)
    BY <2>1, AppendedHead DEF Types
  <2>3. CASE QueueIdle
    <3>1. Nothing
      BY <2>3 DEF QueueIdle, Turn, Granting, Held, Resuming, Transferring, Wedged
    <3>2. immediates' = <<l>>
      BY <1>2, <2>3, <3>1 DEF RegisterLock, Nothing
    <3>3. QED
      BY <2>1, <2>2, <3>1, <3>2 DEF Nothing, Turn, Granting, Quiet, Running
  <2>4. CASE ~QueueIdle
    <3>1. immediates' = immediates
      BY <1>2, <2>4 DEF RegisterLock
    <3>2. QED
      BY <2>1, <2>2, <2>4, <3>1 DEF QueueIdle, Turn, Nothing, Granting, Held, Resuming,
                                    Transferring, Wedged, Quiet, InUse, Running
  <2>5. QED
    BY <2>3, <2>4
<1>3. ASSUME NEW l \in Locks, DeregisterLock(l) PROVE Turn'
  <2>1. /\ l \in ready /\ bus = NULL /\ ~Running
        /\ ready' = ready \ {l} /\ UNCHANGED <<transfers, emitting>>
    BY <1>3 DEF DeregisterLock
  <2>2. Held /\ Quiet /\ ready' = {}
    BY <2>1, ReadyIsHead DEF Held, InUse, Running
  <2>3. CASE locks' # <<>> /\ immediates' = Append(immediates, "ready")
               /\ UNCHANGED <<listeners, bus>>
    <3>1. immediates' = <<"ready">>
      BY <2>2, <2>3 DEF Held
    <3>2. QED
      BY <2>1, <2>2, <2>3, <3>1 DEF Turn, Granting, Quiet, Running
  <2>4. CASE locks' = <<>> /\ Execute(transfers) /\ UNCHANGED immediates
    <3>1. CASE transfers = <<>>
      <4>1. bus' = NULL /\ listeners' = <<>>
        BY <2>2, <2>4, <3>1, ExecuteAs DEF Quiet, Types
      <4>2. QED
        BY <2>1, <2>2, <2>4, <3>1, <4>1 DEF Turn, Nothing, Held, Quiet, Running
    <3>2. CASE transfers # <<>>
      BY <2>1, <2>2, <2>4, <3>2, ExecuteTurn DEF Held, Types
    <3>3. QED
      BY <3>1, <3>2
  <2>5. QED
    BY <1>3, <2>3, <2>4 DEF DeregisterLock
<1>4. ASSUME NEW l \in Locks, RawTransaction(l) PROVE Turn'
  <2>1. /\ l \in ready /\ bus = NULL /\ ~Running
        /\ listeners' = Append(listeners, l) /\ bus' = [owner |-> l, dma |-> "running"]
        /\ UNCHANGED <<transfers, locks, ready, immediates, emitting>>
    BY <1>4 DEF RawTransaction, Begin
  <2>2. Held /\ Quiet /\ l = Head(locks)
    BY <2>1, ReadyIsHead DEF Held, InUse, Running
  <2>3. listeners' = <<l>> /\ bus' # NULL /\ bus'.owner = l
    BY <2>1, <2>2, StartedAs DEF Quiet, Users
  <2>4. QED
    BY <2>1, <2>2, <2>3 DEF Turn, Held, InUse, Running
<1>5. CASE RunImmediate
  <2>1. /\ ~Running /\ immediates # <<>> /\ immediates' = Tail(immediates)
        /\ UNCHANGED <<transfers, locks, emitting>>
    BY <1>5 DEF RunImmediate
  <2>2. Granting \/ Resuming
    BY <2>1 DEF Turn, Nothing, Held, Transferring, Wedged
  <2>3. CASE Granting
    <3>1. immediates' = <<>> /\ Head(immediates) \in {"ready", Head(locks)}
      BY <2>1, <2>3 DEF Granting
    <3>2. Head(locks) \in Locks
      BY <2>3 DEF Granting, Types
    <3>3. ready' = {Head(locks)} /\ UNCHANGED <<listeners, bus>>
      BY <1>5, <2>3, <3>1, <3>2, SpiAssumption DEF RunImmediate, Ready, Granting
    <3>4. QED
      BY <2>1, <2>3, <3>1, <3>3 DEF Turn, Granting, Held, Quiet, Running
  <2>4. CASE Resuming
    <3>1. immediates' = <<>> /\ Head(immediates) = "execute"
      BY <2>1, <2>4 DEF Resuming
    <3>2. ready' = ready /\ Execute(transfers)
      BY <1>5, <3>1, SpiAssumption DEF RunImmediate
    <3>3. QED
      BY <2>1, <2>4, <3>1, <3>2, ExecuteTurn DEF Resuming, Types
  <2>5. QED
    BY <2>2, <2>3, <2>4
<1>6. ASSUME NEW failed \in BOOLEAN, DmaDone(failed) PROVE Turn'
  <2>1. /\ bus \in [owner : Users, dma : {"running", "ok", "error"}]
        /\ bus' = [bus EXCEPT !.dma = Report(failed)]
        /\ UNCHANGED <<transfers, locks, ready, immediates, listeners, emitting>>
    BY <1>6 DEF DmaDone, Types
  <2>2. Report(failed) \in {"ok", "error"}
    BY DEF Report
  <2>3. bus' # NULL /\ bus'.owner = bus.owner
    BY <2>1, <2>2, SpiAssumption DEF Users
  <2>4. bus # NULL
    BY <1>6 DEF DmaDone
  <2>5. QED
    BY <2>1, <2>3, <2>4 DEF Turn, Nothing, Granting, Held, Resuming, Transferring, Wedged,
                            Quiet, InUse, Running
<1>7. CASE AsyncSpiCallback
  <2>1. /\ ~Running /\ bus # NULL /\ bus' = NULL /\ listeners' = <<>>
        /\ emitting'.to = listeners
        /\ UNCHANGED <<transfers, locks, ready, immediates>>
    BY <1>7 DEF AsyncSpiCallback
  <2>2. QED
    BY <2>1 DEF Turn, Nothing, Granting, Held, Resuming, Transferring, Wedged,
                Quiet, InUse
<1>8. CASE RawComplete \/ ProcessTransferCB
  <2>1. /\ Running /\ emitting' = [emitting EXCEPT !.to = Tail(emitting.to)]
        /\ UNCHANGED <<locks, ready, listeners, bus>>
    BY <1>8 DEF RawComplete, ProcessTransferCB
  <2>2. \/ Held /\ emitting.to = <<Head(locks)>>
        \/ Transferring /\ emitting.to = <<Head(transfers)>>
    BY <2>1 DEF Turn, Nothing, Granting, Held, Resuming, Transferring, Wedged, Quiet, InUse,
                Running
  <2>3. emitting'.to = <<>> /\ Quiet'
    <3>1. emitting'.to = <<>>
      BY <2>1, <2>2 DEF Types
    <3>2. bus = NULL /\ listeners = <<>>
      BY <2>1, <2>2 DEF Held, Transferring, Quiet, InUse, Running
    <3>3. QED
      BY <2>1, <3>1, <3>2 DEF Quiet, Running
  <2>4. Head(emitting.to) \in Locks => Held
    BY <2>2, SpiAssumption DEF Transferring, Types
  <2>5. Head(emitting.to) \in Transfers => Transferring
    BY <2>2, SpiAssumption DEF Held, Types
  <2>6. CASE RawComplete
    <3>1. Held /\ UNCHANGED <<transfers, immediates>>
      BY <2>4, <2>6 DEF RawComplete
    <3>2. QED
      BY <2>1, <2>3, <3>1 DEF Turn, Held
  <2>7. CASE ProcessTransferCB
    <3>1. Transferring /\ immediates' = immediates \o FollowUp(transfers')
      BY <2>5, <2>7 DEF ProcessTransferCB
    <3>2. immediates' = FollowUp(transfers')
      <4>1. FollowUp(transfers') \in {<<>>, <<"ready">>, <<"execute">>}
        BY DEF FollowUp
      <4>2. QED
        BY <3>1, <4>1 DEF Transferring
    <3>3. QED
      BY <2>1, <2>3, <3>1, <3>2 DEF FollowUp, Turn, Transferring, Granting, Resuming, Nothing
  <2>8. QED
    BY <1>8, <2>6, <2>7
<1>9. CASE UNCHANGED vars
  BY <1>9 DEF vars, Turn, Nothing, Granting, Held, Resuming, Transferring, Wedged,
              Quiet, InUse, Running
<1>10. QED
  BY <1>1, <1>2, <1>3, <1>4, <1>5, <1>6, <1>7, <1>8, <1>9 DEF Next, Runtime

-----------------------------------------------------------------------------
(* What a transfer is told.                                                *)

(* Whoever uses the bus or is told, if it is a transfer, is the head.      *)
LEMMA UserIsHead ==
  ASSUME Types, Turn
  PROVE  /\ bus # NULL => ~Running /\ listeners = <<bus.owner>>
         /\ bus # NULL /\ bus.owner \in Transfers =>
              transfers # <<>> /\ bus.owner = Head(transfers)
         /\ Running => bus = NULL
         /\ Running /\ Head(emitting.to) \in Transfers =>
              transfers # <<>> /\ emitting.to = <<Head(transfers)>>
<1>1. locks # <<>> => Head(locks) \notin Transfers
  BY SpiAssumption DEF Types
<1>2. QED
  BY <1>1 DEF Turn, Nothing, Granting, Held, Resuming, Transferring, Wedged, Quiet, InUse,
              Running

(* A step that ends no transfer and calls nobody back.                     *)
LEMMA ToldKept ==
  ASSUME Told, UNCHANGED <<transfers, emitting, outcome, result>>,
         pushed \subseteq pushed', pushed' \cap Transfers \subseteq pushed,
         bus' = bus \/ bus' = NULL \/ bus'.dma = "running"
  PROVE  Told'
<1>1. \A t : Queued(t)' <=> Queued(t)
  BY DEF Queued
<1>2. (\A i, j \in 1..Len(transfers) : transfers[i] = transfers[j] => i = j)'
  BY DEF Told
<1>3. (\A t \in Transfers : Queued(t) => t \in pushed)'
  BY <1>1 DEF Told
<1>4. (\A t \in Transfers : t \notin pushed \/ Queued(t) => result[t] = "none")'
  BY <1>1 DEF Told
<1>5. OwnResult'
  BY DEF Told, OwnResult
<1>6. QED
  BY <1>2, <1>3, <1>4, <1>5 DEF Told, Running

LEMMA ToldStep ==
  ASSUME Types, Turn, Told, [Next]_vars
  PROVE  Told'
<1>1. ASSUME NEW t \in Transfers, PushTransfer(t) PROVE Told'
  <2>1. /\ t \notin pushed /\ pushed' = pushed \union {t}
        /\ transfers' = Append(transfers, t)
        /\ UNCHANGED <<emitting, outcome, result>>
    BY <1>1 DEF PushTransfer
  <2>2. bus' = bus \/ bus'.dma = "running"
    BY <1>1 DEF PushTransfer, Execute, Begin
  <2>3. /\ Len(transfers') = Len(transfers) + 1 /\ Len(transfers) \in Nat
        /\ \A i \in 1..Len(transfers) : transfers'[i] = transfers[i]
        /\ transfers'[Len(transfers) + 1] = t
    BY <2>1, AppendProperties DEF Types
  <2>4. ~Queued(t)
    BY <2>1 DEF Told
  <2>5. \A u : Queued(u)' => Queued(u) \/ u = t
    BY <2>3 DEF Queued
  <2>6. (\A i, j \in 1..Len(transfers) : transfers[i] = transfers[j] => i = j)'
    BY <2>3, <2>4 DEF Told, Queued
  <2>7. (\A u \in Transfers : Queued(u) => u \in pushed)'
    BY <2>1, <2>5 DEF Told
  <2>8. (\A u \in Transfers : u \notin pushed \/ Queued(u) => result[u] = "none")'
    BY <2>1, <2>5 DEF Told
  <2>9. OwnResult'
    BY <2>1 DEF Told, OwnResult
  <2>10. QED
    BY <2>1, <2>2, <2>6, <2>7, <2>8, <2>9 DEF Told, Running
<1>2. ASSUME NEW l \in Locks, RegisterLock(l) PROVE Told'
  BY <1>2, ToldKept, SpiAssumption DEF RegisterLock
<1>3. ASSUME NEW l \in Locks, DeregisterLock(l) PROVE Told'
  BY <1>3, ToldKept DEF DeregisterLock, Execute, Begin
<1>4. ASSUME NEW l \in Locks, RawTransaction(l) PROVE Told'
  BY <1>4, ToldKept DEF RawTransaction, Begin
<1>5. CASE RunImmediate
  BY <1>5, ToldKept DEF RunImmediate, Execute, Begin
<1>6. ASSUME NEW failed \in BOOLEAN, DmaDone(failed) PROVE Told'
  <2>1. /\ bus # NULL /\ bus \in [owner : Users, dma : {"running", "ok", "error"}]
        /\ bus' = [bus EXCEPT !.dma = Report(failed)]
        /\ UNCHANGED <<transfers, emitting, pushed, result>>
    BY <1>6 DEF DmaDone, Types
  <2>2. bus'.owner = bus.owner /\ bus'.dma = Report(failed)
    BY <2>1
  <2>3. CASE bus.owner \notin Transfers
    <3>1. UNCHANGED outcome
      BY <1>6, <2>3 DEF DmaDone
    <3>2. ~Running'
      BY <2>1, UserIsHead DEF Running
    <3>3. \A t : Queued(t)' <=> Queued(t)
      BY <2>1 DEF Queued
    <3>4. OwnResult'
      BY <2>1, <3>1 DEF Told, OwnResult
    <3>5. QED
      BY <2>1, <2>2, <2>3, <3>1, <3>2, <3>3, <3>4 DEF Told
  <2>4. CASE bus.owner \in Transfers
    <3>1. outcome' = [outcome EXCEPT ![bus.owner] = Report(failed)]
      BY <1>6, <2>4 DEF DmaDone
    <3>2. outcome'[bus'.owner] = bus'.dma
      BY <2>2, <2>4, <3>1 DEF Types
    <3>3. ~Running'
      BY <2>1, UserIsHead DEF Running
    <3>4. \A t : Queued(t)' <=> Queued(t)
      BY <2>1 DEF Queued
    <3>5. Queued(bus.owner)
      <4>1. transfers # <<>> /\ bus.owner = Head(transfers)
        BY <2>1, <2>4, UserIsHead
      <4>2. 1 \in 1..Len(transfers) /\ transfers[1] = bus.owner
        BY <4>1 DEF Types
      <4>3. QED
        BY <4>2 DEF Queued
    <3>6. result[bus.owner] = "none"
      BY <2>4, <3>5 DEF Told
    <3>7. OwnResult'
      BY <2>1, <3>1, <3>6 DEF Told, OwnResult, Types
    <3>8. QED
      BY <2>1, <3>2, <3>3, <3>4, <3>7 DEF Told
  <2>5. QED
    BY <2>3, <2>4
<1>7. CASE AsyncSpiCallback
  <2>1. /\ bus # NULL /\ bus.dma # "running" /\ bus' = NULL
        /\ emitting' = [to |-> listeners, failed |-> bus.dma = "error"]
        /\ UNCHANGED <<transfers, pushed, outcome, result>>
    BY <1>7 DEF AsyncSpiCallback
  <2>2. emitting'.to = <<bus.owner>>
    BY <2>1, UserIsHead
  <2>3. Report(emitting'.failed) = bus.dma
    BY <2>1 DEF Types, Report
  <2>4. Running' /\ Head(emitting'.to) \in Transfers =>
          outcome'[Head(emitting'.to)] = Report(emitting'.failed)
    BY <2>1, <2>2, <2>3 DEF Told
  <2>5. \A t : Queued(t)' <=> Queued(t)
    BY <2>1 DEF Queued
  <2>6. OwnResult'
    BY <2>1 DEF Told, OwnResult
  <2>7. QED
    BY <2>1, <2>4, <2>5, <2>6 DEF Told, Report
<1>8. CASE RawComplete
  <2>1. /\ Running /\ emitting' = [emitting EXCEPT !.to = Tail(emitting.to)]
        /\ UNCHANGED <<transfers, bus, pushed, outcome, result>>
    BY <1>8 DEF RawComplete
  <2>2. Head(emitting.to) \notin Transfers
    BY <1>8, SpiAssumption DEF RawComplete
  <2>3. emitting.to = <<Head(locks)>>
    BY <2>1, <2>2 DEF Turn, Nothing, Granting, Held, Resuming, Transferring, Wedged, Quiet,
                      InUse, Running, Types
  <2>4. ~Running'
    BY <2>1, <2>3 DEF Running, Types
  <2>5. \A t : Queued(t)' <=> Queued(t)
    BY <2>1 DEF Queued
  <2>6. OwnResult'
    BY <2>1 DEF Told, OwnResult
  <2>7. QED
    BY <2>1, <2>4, <2>5, <2>6 DEF Told
<1>9. CASE ProcessTransferCB
  <2> DEFINE h == Head(transfers)
  <2>1. /\ Running /\ Head(emitting.to) \in Transfers
        /\ emitting' = [emitting EXCEPT !.to = Tail(emitting.to)]
        /\ transfers' = Tail(transfers)
        /\ result' = [result EXCEPT ![Head(emitting.to)] = Report(emitting.failed)]
        /\ UNCHANGED <<bus, pushed, outcome>>
    BY <1>9 DEF ProcessTransferCB
  <2>2. transfers # <<>> /\ emitting.to = <<h>> /\ bus = NULL
    BY <2>1, UserIsHead
  <2>3. h \in Transfers /\ h = transfers[1]
    BY <2>2 DEF Types
  <2>4. ~Running'
    BY <2>1, <2>2 DEF Running, Types
  <2>5. /\ Len(transfers) \in Nat /\ Len(transfers') = Len(transfers) - 1
        /\ \A i \in 1..Len(transfers') : transfers'[i] = transfers[i + 1]
    BY <2>1, <2>2 DEF Types
  <2>6. (\A i, j \in 1..Len(transfers) : transfers[i] = transfers[j] => i = j)'
    BY <2>5 DEF Told
  <2>7. \A u : Queued(u)' => Queued(u) /\ u # h
    BY <2>3, <2>5 DEF Told, Queued
  <2>8. Head(emitting.to) = h /\ result' = [result EXCEPT ![h] = Report(emitting.failed)]
    BY <2>1, <2>2
  <2>9. Queued(h)
    BY <2>2, <2>3, <2>5 DEF Queued
  <2> HIDE DEF h
  <2>10. \A u \in Transfers : u # h => result'[u] = result[u]
    BY <2>8 DEF Types
  <2>11. result'[h] = outcome'[h]
    BY <2>1, <2>3, <2>8 DEF Types, Told
  <2>12. (\A u \in Transfers : Queued(u) => u \in pushed)'
    BY <2>1, <2>7 DEF Told
  <2>13. (\A u \in Transfers : u \notin pushed \/ Queued(u) => result[u] = "none")'
    BY <2>1, <2>3, <2>7, <2>9, <2>10 DEF Told
  <2>14. OwnResult'
    BY <2>1, <2>10, <2>11 DEF Told, OwnResult
  <2>15. QED
    BY <2>1, <2>2, <2>4, <2>6, <2>12, <2>13, <2>14 DEF Told
<1>10. CASE UNCHANGED vars
  BY <1>10, ToldKept DEF vars
<1>11. QED
  BY <1>1, <1>2, <1>3, <1>4, <1>5, <1>6, <1>7, <1>8, <1>9, <1>10 DEF Next, Runtime

-----------------------------------------------------------------------------
(* A lock is ready only at the head of the queue, and while it is nothing  *)
(* queued is on the bus.                                                   *)
THEOREM OneUserAtATime == ASSUME HoldersWait PROVE Spec => []BusExclusive
<1>1. Types /\ Turn => BusExclusive
  <2> SUFFICES ASSUME Types, Turn PROVE BusExclusive
    OBVIOUS
  <2>1. TypeOK
    BY DEF Types, TypeOK, Jobs, Users
  <2>2. OneHolder
    BY ReadyIsHead DEF OneHolder, Held, Quiet, InUse
  <2>3. QED
    BY <2>1, <2>2 DEF BusExclusive
<1>2. Types /\ Turn /\ [Next]_vars => (Types /\ Turn)'
  BY TypeStep, TurnStep
<1>3. QED
  BY <1>1, <1>2, InitInv, PTL DEF Spec

(* A callback is told what the DMA did with its own transfer.              *)
THEOREM ToldOwnResult == ASSUME HoldersWait PROVE Spec => []OwnResult
<1>1. Types /\ Turn /\ Told /\ [Next]_vars => (Types /\ Turn /\ Told)'
  BY TypeStep, TurnStep, ToldStep
<1>2. Told => OwnResult
  BY DEF Told
<1>3. QED
  BY <1>1, <1>2, InitInv, PTL DEF Spec
-----------------------------------------------------------------------------
(* The transfer over DMA.                                                  *)

(* What the code takes for granted.  JS does send an empty buffer in       *)
(* chunks if asked to (tessel.js:1302): the end is then triggered before   *)
(* the transfer starts (hw_spi_async.c:320).  A transfer with several      *)
(* chunks or two channels forgets errors (:294).  The last packet of an    *)
(* exact multiple has no length (:138).                                    *)
NoEmptyBuffer == \A r \in Requests : r.len > 0
FaultsAlone == \A r \in Requests : r.faults => ~r.rx /\ r.chunk = r.len /\ r.repeat = 1
NoFullPacket == \A r \in Requests : r.chunk % MaxDmaSize # 0

PacketType == [from : Nat, size : Nat]
Channel == [packets : Seq(PacketType), irq : {"none", "tc", "error"}]
Status == [req : Requests \union {NoRequest}, held : BOOLEAN, length : Nat, offset : Nat,
           repeat : Nat, done : Nat, error : Nat]
Worlds == [st : Status, chan : [Channels -> Channel], cs : {"low", "high"}, event : BOOLEAN]

-----------------------------------------------------------------------------
(* The invariant.  What it says of the state that handlers share is a      *)
(* predicate of the record w on which they run.                            *)

Counted(w, c) == IF c \in Used(w.st) /\ w.chan[c] = Off THEN 1 ELSE 0

(* Of the packets of a chunk, the last n are left.                         *)
Rest(s, n) ==
  [i \in 1..n |-> Packets(s.offset, s.req.chunk)[NumLinkedLists(s.req.chunk) - n + i]]

(* The bytes of earlier chunks, and of the packets of this one that moved. *)
Before(s) == (s.req.repeat - s.repeat) * s.req.len + s.offset
Within(s, n) ==
  IF n = 0 THEN s.req.chunk ELSE (NumLinkedLists(s.req.chunk) - n) * MaxDmaSize

Byte(r, k) == ((k - 1) % r.len) + 1
Right(s, b, n) == Len(b) = Before(s) + n /\ \A k \in 1..Len(b) : b[k] = Byte(s.req, k)
BytesOf(p) == [k \in 1..p.size |-> p.from + k]

InStep(w, bytes, c) ==
  LET left == w.chan[c].packets IN
  /\ Len(left) \in 0..NumLinkedLists(w.st.req.chunk)
  /\ left = Rest(w.st, Len(left))
  /\ w.chan[c].irq # "error"
  /\ w.chan[c].irq = "tc" => left = <<>>
  /\ w.st.req.chunk % MaxDmaSize # 0 =>
       /\ Len(bytes[c]) = Before(w.st) + Within(w.st, Len(left))
       /\ \A k \in 1..Len(bytes[c]) : bytes[c][k] = Byte(w.st.req, k)

(* A chunk starts on a multiple of its size.                               *)
Aligned(s) ==
  /\ s.offset + s.req.chunk <= s.req.len
  /\ (s.req.len - s.offset) % s.req.chunk = 0

(* A transfer without errors is under way: a chunk ends when all channels  *)
(* in use are counted.                                                     *)
UnderWay(w, bytes) ==
  /\ w.st.req \in Requests /\ ~w.st.req.faults
  /\ w.st.held /\ w.st.length = w.st.req.len /\ Aligned(w.st)
  /\ w.st.repeat \in 1..w.st.req.repeat /\ w.st.error = 0
  /\ w.st.done = Counted(w, "tx") + Counted(w, "rx")
  /\ w.st.done < Expected(w.st)
  /\ ~w.event /\ w.cs = "low"
  /\ \A c \in Channels : IF c \in Used(w.st) THEN InStep(w, bytes, c) ELSE w.chan[c] = Off

(* It has ended, though perhaps it is not reported or released yet.        *)
Ended(w, bytes) ==
  /\ w.st.req \in Requests /\ ~w.st.req.faults
  /\ w.st.repeat = 0 /\ w.st.error = 0 /\ w.st.done \in 0..2
  /\ \A c \in Channels : w.chan[c] = Off
  /\ w.cs = "high"
  /\ w.event => w.st.held
  /\ w.st.req.chunk % MaxDmaSize # 0 =>
       \A c \in Used(w.st) : bytes[c] = Wanted(w.st.req)

(* A transfer that may fail or be abandoned: one chunk, one channel.  It   *)
(* is interrupted at most once, and what the counters say by then is true. *)
Faulty(w, failing) ==
  /\ w.st.req \in Requests /\ w.st.req.faults
  /\ w.st.offset = 0
  /\ w.chan["rx"] = Off
  /\ w.chan["tx"].irq # "none" => w.chan["tx"].packets = <<>>
  /\ \/ /\ w.st.repeat = 1 /\ w.st.done = 0 /\ w.st.error = 0 /\ ~failing
        /\ w.st.length = (IF w.st.held THEN w.st.req.len ELSE 0)
        /\ ~w.event /\ w.cs = "low"
     \/ /\ w.st.repeat = 0 /\ w.st.done \in 0..1 /\ w.st.error \in 0..1
        /\ failing <=> w.st.error > 0
        /\ w.chan["tx"] = Off /\ w.cs = "high"

Idle(w) ==
  /\ w.st = Free /\ w.cs = "high" /\ ~w.event
  /\ \A c \in Channels : w.chan[c] = Off

DmaTypes ==
  /\ World \in Worlds
  /\ moved \in [Channels -> Seq(Nat)]
  /\ main \in {"idle", "cleanup", "cancel"}
  /\ errored \in BOOLEAN

Reported == report # NoRequest => (report.failed <=> report.error > 0)

Sound ==
  /\ DmaTypes
  /\ \/ Idle(World) /\ ~errored /\ main = "idle"
     \/ UnderWay(World, moved) /\ ~errored /\ main = "idle"
     \/ Ended(World, moved) /\ ~errored /\ (main # "idle" => ~event)
     \/ Faulty(World, errored)
  /\ Reported

(* Only an abandoned transfer leaves anything behind: where the buffers    *)
(* are not held, or are let go of, no completion is pending or to come.    *)
Leftovers ==
  past = "clean" /\ (~st.held \/ main # "idle") => ~event /\ \A c \in Channels : chan[c] = Off

(* All of it until a stale completion is met.                              *)
IInv ==
  /\ past \in {"clean", "abandoned", "stale"}
  /\ Sane => Sound /\ Leftovers

-----------------------------------------------------------------------------
(* Division, packets and bytes.                                            *)

LEMMA DivFacts ==
  ASSUME NEW a \in Nat, NEW b \in Nat \ {0}
  PROVE  a = b * (a \div b) + (a % b) /\ a \div b \in Nat /\ a % b \in 0..(b - 1)
BY SMTT(30)

LEMMA RestOfSum ==
  ASSUME NEW b \in Nat \ {0}, NEW q \in Int, NEW r \in 0..(b - 1)
  PROVE  (b * q + r) % b = r
<1> DEFINE a == b * q + r
<1>1. a = b * (a \div b) + (a % b) /\ a \div b \in Int /\ a % b \in 0..(b - 1)
  BY SMTT(30)
<1> HIDE DEF a
<1>2. r - (a % b) = b * ((a \div b) - q) /\ r - (a % b) > -b /\ r - (a % b) < b
  <2>1. a = b * q + r
    BY DEF a
  <2>2. b * ((a \div b) - q) = b * (a \div b) - b * q
    BY <1>1
  <2>3. QED
    BY <1>1, <2>1, <2>2
<1>3. (a \div b) - q = 0
  <2> DEFINE d == (a \div b) - q
  <2>1. d \in Int
    BY <1>1
  <2> HIDE DEF d
  <2>2. d >= 1 => b * d = b + b * (d - 1) /\ b * (d - 1) >= 0
    BY <2>1
  <2>3. d <= -1 => b * d = -b + b * (d + 1) /\ b * (d + 1) <= 0
    BY <2>1
  <2>4. b * d > -b /\ b * d < b
    BY <1>1, <1>2 DEF d
  <2>5. d = 0
    BY <2>1, <2>2, <2>3, <2>4
  <2>6. QED
    BY <2>5 DEF d
<1>4. QED
  BY <1>1, <1>2, <1>3 DEF a

LEMMA SmallRest ==
  ASSUME NEW b \in Nat, NEW r \in 0..(b - 1)
  PROVE  r % b = r
<1>1. b \in Nat \ {0} /\ b * 0 + r = r
  OBVIOUS
<1>2. (b * 0 + r) % b = r
  BY <1>1, RestOfSum
<1>3. QED
  BY <1>1, <1>2

(* Of a positive multiple of a chunk, a whole chunk can be taken.          *)
LEMMA ChunkFits ==
  ASSUME NEW chunk \in Nat \ {0}, NEW left \in Nat \ {0}, left % chunk = 0
  PROVE  left >= chunk /\ (left - chunk) % chunk = 0
<1>1. PICK q \in Nat : left = chunk * q
  BY DivFacts
<1>2. q >= 1
  BY <1>1
<1>3. left - chunk = chunk * (q - 1) + 0
  BY <1>1
<1>4. left >= chunk
  BY <1>1, <1>2, SMTT(30)
<1>5. QED
  BY <1>2, <1>3, <1>4, RestOfSum

LEMMA PacketCount ==
  ASSUME NEW n \in Nat \ {0}
  PROVE  /\ NumLinkedLists(n) \in Nat \ {0}
         /\ n % MaxDmaSize \in 0..(MaxDmaSize - 1)
         /\ n % MaxDmaSize # 0 => n = (NumLinkedLists(n) - 1) * MaxDmaSize + (n % MaxDmaSize)
<1> DEFINE q == n \div MaxDmaSize
           r == n % MaxDmaSize
<1>1. n = MaxDmaSize * q + r /\ q \in Nat /\ r \in 0..(MaxDmaSize - 1)
  BY DivFacts, SpiDmaAssumption
<1> HIDE DEF q, r
<1>2. NumLinkedLists(n) = q + (IF r # 0 THEN 1 ELSE 0)
  BY DEF NumLinkedLists, q, r
<1>3. r = 0 => q # 0
  BY <1>1, SpiDmaAssumption
<1>4. r # 0 => n = (NumLinkedLists(n) - 1) * MaxDmaSize + r
  BY <1>1, <1>2, SpiDmaAssumption
<1>5. NumLinkedLists(n) \in Nat \ {0}
  BY <1>1, <1>2, <1>3
<1>6. QED
  BY <1>1, <1>4, <1>5, Zenon DEF r

(* The packet that follows when n are left, and its place in the chunk.    *)
LEMMA NextPacket ==
  ASSUME NEW from \in Nat, NEW size \in Nat \ {0}, NEW n \in 1..NumLinkedLists(size)
  PROVE  LET total == NumLinkedLists(size)
             p == Packets(from, size)[total - n + 1]
         IN  /\ p.from = from + (total - n) * MaxDmaSize /\ p \in PacketType
             /\ p.size = IF n = 1 THEN size % MaxDmaSize ELSE MaxDmaSize
             /\ size % MaxDmaSize # 0 /\ n = 1 => (total - n) * MaxDmaSize + p.size = size
             /\ size % MaxDmaSize # 0 /\ n # 1 =>
                  /\ (total - n) * MaxDmaSize + p.size = (total - (n - 1)) * MaxDmaSize
                  /\ (total - (n - 1)) * MaxDmaSize <= size
<1> DEFINE total == NumLinkedLists(size)
           p == Packets(from, size)[total - n + 1]
<1>1. /\ total \in Nat \ {0} /\ size % MaxDmaSize \in Nat
      /\ size % MaxDmaSize # 0 => size = (total - 1) * MaxDmaSize + (size % MaxDmaSize)
  BY PacketCount
<1>2. total - n + 1 \in 1..total
  BY <1>1
<1>3. p = [from |-> from + (total - n) * MaxDmaSize,
           size |-> IF n = 1 THEN size % MaxDmaSize ELSE MaxDmaSize]
  BY <1>1, <1>2 DEF Packets
<1>4. (total - n) * MaxDmaSize \in Nat /\ MaxDmaSize \in Nat \ {0}
  BY <1>1, SpiDmaAssumption
<1>5. n # 1 => (total - n) * MaxDmaSize + MaxDmaSize = (total - (n - 1)) * MaxDmaSize
  BY <1>1, <1>4
<1>6. n # 1 => (total - (n - 1)) * MaxDmaSize <= (total - 1) * MaxDmaSize
  <2>1. n # 1 => (total - 1) * MaxDmaSize = (total - (n - 1)) * MaxDmaSize + (n - 2) * MaxDmaSize
    BY <1>1, <1>4
  <2>2. n # 1 => (n - 2) * MaxDmaSize \in Nat
    BY <1>4
  <2>3. (total - (n - 1)) * MaxDmaSize \in Int /\ (total - 1) * MaxDmaSize \in Int
    BY <1>1, <1>4
  <2>4. QED
    BY <2>1, <2>2, <2>3
<1>7. p.from = from + (total - n) * MaxDmaSize
      /\ p.size = IF n = 1 THEN size % MaxDmaSize ELSE MaxDmaSize
  BY <1>3
<1>8. p \in PacketType
  BY <1>1, <1>3, <1>4 DEF PacketType
<1> HIDE DEF total, p
<1>9. size % MaxDmaSize # 0 /\ n = 1 => (total - n) * MaxDmaSize + p.size = size
  BY <1>1, <1>7
<1>10. size % MaxDmaSize # 0 /\ n # 1 =>
          /\ (total - n) * MaxDmaSize + p.size = (total - (n - 1)) * MaxDmaSize
          /\ (total - (n - 1)) * MaxDmaSize <= size
  <2> SUFFICES ASSUME size % MaxDmaSize # 0, n # 1
               PROVE  /\ (total - n) * MaxDmaSize + p.size = (total - (n - 1)) * MaxDmaSize
                      /\ (total - (n - 1)) * MaxDmaSize <= size
    OBVIOUS
  <2>1. p.size = MaxDmaSize /\ size = (total - 1) * MaxDmaSize + (size % MaxDmaSize)
    BY <1>1, <1>7
  <2> DEFINE a == (total - (n - 1)) * MaxDmaSize
             b == (total - 1) * MaxDmaSize
             e == (total - n) * MaxDmaSize
             f == size % MaxDmaSize
  <2>2. a \in Int /\ b \in Int /\ e \in Int /\ f \in Nat
    BY <1>1, <1>4
  <2>3. e + MaxDmaSize = a /\ a <= b /\ size = b + f
    BY <1>5, <1>6, <2>1
  <2> HIDE DEF a, b, e, f
  <2>4. e + p.size = a /\ a <= size
    BY <2>1, <2>2, <2>3
  <2>5. QED
    BY <2>4 DEF a, e
<1>11. QED
  BY <1>7, <1>8, <1>9, <1>10 DEF p, total

LEMMA TailOf ==
  ASSUME NEW S, NEW q \in Seq(S), q # <<>>
  PROVE  Tail(q) = [i \in 1..(Len(q) - 1) |-> q[i + 1]]
<1> DEFINE t == Tail(q)
<1>1. t \in Seq(S) /\ Len(t) = Len(q) - 1 /\ \A i \in 1..Len(t) : t[i] = q[i + 1]
  BY HeadTailProperties
<1>2. t \in [1..Len(t) -> S]
  BY <1>1, LenProperties
<1> HIDE DEF t
<1>3. t = [i \in 1..(Len(q) - 1) |-> q[i + 1]]
  BY <1>1, <1>2
<1>4. QED
  BY <1>3 DEF t

LEMMA LastOne ==
  ASSUME NEW S, NEW q \in Seq(S), q # <<>>
  PROVE  Len(q) = 1 <=> Tail(q) = <<>>
<1>1. Len(q) \in Nat /\ Tail(q) \in Seq(S) /\ Len(Tail(q)) = Len(q) - 1
  BY HeadTailProperties, LenProperties
<1>2. Tail(q) = <<>> <=> Len(Tail(q)) = 0
  BY <1>1, EmptySeq
<1>3. QED
  BY <1>1, <1>2

LEMMA RestIsSeq ==
  ASSUME NEW s \in Status, s.req \in Requests, NEW n \in 0..NumLinkedLists(s.req.chunk)
  PROVE  /\ Rest(s, n) \in Seq(PacketType) /\ Len(Rest(s, n)) = n
         /\ n # 0 => /\ Head(Rest(s, n)) = Packets(s.offset, s.req.chunk)[NumLinkedLists(s.req.chunk) - n + 1]
                     /\ Tail(Rest(s, n)) = Rest(s, n - 1)
<1> DEFINE total == NumLinkedLists(s.req.chunk)
           all == Packets(s.offset, s.req.chunk)
<1>1. s.req.chunk \in Nat \ {0} /\ s.offset \in Nat
  BY SpiDmaAssumption DEF Status
<1>2. total \in Nat \ {0}
  BY <1>1, PacketCount
<1>3. \A i \in 1..total : all[i] \in PacketType
  <2> TAKE i \in 1..total
  <2>1. total - i + 1 \in 1..total /\ total - (total - i + 1) + 1 = i
    BY <1>2
  <2>2. QED
    BY <1>1, <2>1, NextPacket
<1> HIDE DEF total, all
<1>4. Rest(s, n) = [i \in 1..n |-> all[total - n + i]]
  BY DEF Rest, total, all
<1>5. Rest(s, n) \in Seq(PacketType) /\ Len(Rest(s, n)) = n
  BY <1>2, <1>3, <1>4 DEF total
<1>6. ASSUME n # 0 PROVE Tail(Rest(s, n)) = Rest(s, n - 1)
  <2>1. Rest(s, n - 1) = [i \in 1..(n - 1) |-> all[total - (n - 1) + i]]
    BY DEF Rest, total, all
  <2>2. Tail(Rest(s, n)) = [i \in 1..(n - 1) |-> Rest(s, n)[i + 1]]
    BY <1>5, <1>6, TailOf
  <2>3. \A i \in 1..(n - 1) : Rest(s, n)[i + 1] = all[total - (n - 1) + i]
    BY <1>2, <1>4 DEF total
  <2>4. QED
    BY <2>1, <2>2, <2>3
<1>7. n # 0 => Head(Rest(s, n)) = all[total - n + 1]
  BY <1>4, <1>5
<1>8. QED
  BY <1>5, <1>6, <1>7 DEF all, total

(* So many bytes is a number.                                              *)
LEMMA BeforeIsNumber ==
  ASSUME NEW s, s.req.repeat \in Nat, s.req.len \in Nat, s.repeat \in Nat, s.offset \in Nat
  PROVE  Before(s) \in Int
<1> DEFINE q == s.req.repeat - s.repeat
           len == s.req.len
           off == s.offset
           whole == q * len
<1>1. q \in Int /\ len \in Int /\ off \in Int
  OBVIOUS
<1>2. Before(s) = whole + off
  BY DEF Before
<1> HIDE DEF q, len, off
<1>3. whole \in Int
  BY <1>1
<1> HIDE DEF whole
<1>4. QED
  BY <1>1, <1>2, <1>3

(* The bytes of a packet continue the buffer where the chunk has got to.   *)
LEMMA BytesFollow ==
  ASSUME NEW s \in Status, s.req \in Requests, s.repeat \in 1..s.req.repeat,
         s.offset + s.req.chunk <= s.req.len,
         NEW off \in Nat, NEW size \in Nat, off + size <= s.req.chunk, NEW j \in 1..size
  PROVE  Byte(s.req, Before(s) + off + j) = s.offset + off + j
<1> DEFINE len == s.req.len
           q == s.req.repeat - s.repeat
           r == s.offset + off + j - 1
<1>1. len \in Nat \ {0} /\ q \in Int /\ r \in 0..(len - 1)
  BY SpiDmaAssumption DEF Status
<1>2. (len * q + r) % len = r
  BY <1>1, RestOfSum
<1>3. (Before(s) + off + j) - 1 = len * q + r
  <2>1. q * len = len * q /\ q * len \in Int
    BY <1>1
  <2>2. Before(s) = q * len + s.offset
    BY DEF Before
  <2> HIDE DEF q, len
  <2>3. QED
    BY <2>1, <2>2 DEF Status
<1>4. Byte(s.req, Before(s) + off + j) = r + 1
  <2>1. Byte(s.req, Before(s) + off + j) = (((Before(s) + off + j) - 1) % len) + 1
    BY Zenon DEF Byte
  <2> HIDE DEF q, r, len
  <2>2. QED
    BY <1>2, <1>3, <2>1
<1>5. QED
  BY <1>1, <1>4 DEF Status

(* Appending a packet's bytes to what is right so far.                     *)
LEMMA BytesAppended ==
  ASSUME NEW s \in Status, s.req \in Requests, s.repeat \in 1..s.req.repeat,
         s.offset + s.req.chunk <= s.req.len,
         NEW off \in Nat, NEW p \in PacketType,
         p.from = s.offset + off, off + p.size <= s.req.chunk,
         NEW b \in Seq(Nat), Right(s, b, off)
  PROVE  Right(s, b \o BytesOf(p), off + p.size)
<1> DEFINE t == BytesOf(p)
           m == b \o t
<1>0. Len(b) = Before(s) + off /\ \A k \in 1..Len(b) : b[k] = Byte(s.req, k)
  BY DEF Right
<1>1. p.size \in Nat /\ p.from \in Nat /\ s.offset \in Nat
  BY DEF PacketType, Status
<1>2. t \in Seq(Nat) /\ Len(t) = p.size
  <2> DEFINE n == p.size
             from == p.from
  <2> HIDE DEF n, from
  <2>1. n \in Nat /\ \A k \in 1..n : from + k \in Nat
    BY <1>1 DEF n, from
  <2>2. [k \in 1..n |-> from + k] \in Seq(Nat) /\ Len([k \in 1..n |-> from + k]) = n
    BY <2>1
  <2>3. QED
    BY <2>2 DEF n, from, BytesOf
<1>3. \A k \in 1..p.size : t[k] = p.from + k
  BY <1>1 DEF BytesOf
<1>9. m = b \o t
  OBVIOUS
<1> HIDE DEF t, m
<1>4. /\ Len(m) = Len(b) + p.size /\ Len(b) \in Nat
      /\ \A k \in 1..(Len(b) + p.size) : m[k] = IF k <= Len(b) THEN b[k] ELSE t[k - Len(b)]
  <2>1. /\ Len(b \o t) = Len(b) + Len(t)
        /\ \A k \in 1..(Len(b) + Len(t)) : (b \o t)[k] = IF k <= Len(b) THEN b[k] ELSE t[k - Len(b)]
    BY <1>2, ConcatProperties
  <2>2. Len(b) \in Nat
    BY LenProperties
  <2>3. QED
    BY <1>2, <1>9, <2>1, <2>2
<1>5. ASSUME NEW k \in 1..Len(m) PROVE m[k] = Byte(s.req, k)
  <2>1. CASE k <= Len(b)
    BY <1>0, <1>4, <1>5, <2>1
  <2>2. CASE k > Len(b)
    <3> DEFINE j == k - Len(b)
    <3>1. j \in 1..p.size /\ k = Before(s) + off + j
      <4>1. k \in Int /\ Len(b) \in Nat /\ k <= Len(b) + p.size
        BY <1>1, <1>4, <1>5
      <4>2. j \in 1..p.size
        BY <4>1, <2>2, <1>1
      <4>3. k = Len(b) + j
        BY <4>1
      <4>4. QED
        BY <1>0, <4>2, <4>3
    <3>2. m[k] = p.from + j
      <4>1. m[k] = t[j]
        BY <1>4, <1>5, <2>2
      <4>2. t[j] = p.from + j
        BY <1>3, <3>1
      <4>3. QED
        BY <4>1, <4>2
    <3> HIDE DEF j
    <3>3. Byte(s.req, Before(s) + off + j) = s.offset + off + j
      BY <1>1, <3>1, BytesFollow
    <3>4. QED
      BY <3>1, <3>2, <3>3
  <2>3. k <= Len(b) \/ k > Len(b)
    BY <1>4, <1>5
  <2>4. QED
    BY <2>1, <2>2, <2>3
<1>6. Before(s) + off + p.size = Before(s) + (off + p.size)
  <2>1. /\ s.req.len \in Nat /\ s.req.repeat \in Nat
        /\ s.repeat \in Nat /\ s.offset \in Nat
    BY SpiDmaAssumption DEF Status
  <2>2. Before(s) \in Int
    BY <2>1, BeforeIsNumber
  <2> DEFINE done == Before(s)
  <2>3. done \in Int /\ off \in Int /\ p.size \in Int
    BY <2>2 DEF PacketType
  <2> HIDE DEF done
  <2>4. done + off + p.size = done + (off + p.size)
    BY <2>3
  <2>5. QED
    BY <2>4 DEF done
<1>7. QED
  BY <1>0, <1>4, <1>5, <1>6 DEF Right, m, t

-----------------------------------------------------------------------------
(* What the driver's operators do to a record of the state.                *)

(* hw_spi_transfer_step: the channels in use have a whole chunk to move,   *)
(* and nothing is counted.                                                 *)
LEMMA StepEffect ==
  ASSUME NEW w \in Worlds, w.st.req \in Requests,
         \A c \in Used(w.st) : w.chan[c] = Off
  PROVE  /\ Step(w) \in Worlds
         /\ Step(w).cs = "low" /\ Step(w).event = w.event
         /\ Step(w).st = [w.st EXCEPT !.done = 0, !.error = 0]
         /\ \A c \in Channels : Step(w).chan[c] =
              IF c \in Used(w.st)
              THEN [packets |-> Rest(w.st, NumLinkedLists(w.st.req.chunk)), irq |-> "none"]
              ELSE w.chan[c]
<1>1. w.st \in Status /\ w.chan \in [Channels -> Channel] /\ w.event \in BOOLEAN
  BY DEF Worlds
<1>2. w.st.req.chunk \in Nat \ {0} /\ w.st.offset \in Nat
  BY <1>1, SpiDmaAssumption DEF Status
<1> DEFINE total == NumLinkedLists(w.st.req.chunk)
           all == Packets(w.st.offset, w.st.req.chunk)
<1>3. total \in Nat \ {0}
  BY <1>2, PacketCount
<1>4. Rest(w.st, total) = all
  <2>1. \A i \in 1..total : total - total + i = i
    BY <1>3
  <2>2. all = [i \in 1..total |-> all[i]]
    BY DEF Packets
  <2>3. Rest(w.st, total) = [i \in 1..total |-> all[total - total + i]]
    BY DEF Rest
  <2> HIDE DEF total, all
  <2>4. QED
    BY <2>1, <2>2, <2>3
<1>5. all \in Seq(PacketType)
  BY <1>1, <1>3, <1>4, RestIsSeq
<1> DEFINE ch == [c \in Channels |-> IF c \in Used(w.st)
                    THEN [w.chan[c] EXCEPT !.packets = all] ELSE w.chan[c]]
<1>6. Step(w) = [st |-> Fresh(w.st), chan |-> ch, cs |-> "low", event |-> w.event]
  <2>1. Select(w) = [st |-> w.st, chan |-> w.chan, cs |-> "low", event |-> w.event]
    BY DEF Select, Worlds
  <2> DEFINE sel == [st |-> w.st, chan |-> w.chan, cs |-> "low", event |-> w.event]
  <2>2. Step(w) = [sel EXCEPT !.st = Fresh(@), !.chan = ch]
    BY <2>1, Zenon DEF Step
  <2> HIDE DEF ch
  <2>3. QED
    BY <2>2
<1>7. Fresh(w.st) \in Status
  BY <1>1 DEF Status, Fresh
<1> HIDE DEF all
<1>8. \A c \in Channels : ch[c] = IF c \in Used(w.st) THEN [packets |-> all, irq |-> "none"]
                                  ELSE w.chan[c]
  BY <1>1 DEF Off
<1>9. ch \in [Channels -> Channel]
  BY <1>1, <1>5, <1>8 DEF Channel
<1> HIDE DEF ch
<1>10. Step(w) \in Worlds
  BY <1>1, <1>6, <1>7, <1>9 DEF Worlds
<1>11. QED
  BY <1>4, <1>6, <1>8, <1>10 DEF Fresh

(* Before a chunk is started: so many bytes have moved before.             *)
AtChunk(w, bytes, len) ==
  /\ w.st.req \in Requests /\ ~w.st.req.faults
  /\ w.st.held /\ w.st.length = w.st.req.len /\ Aligned(w.st)
  /\ w.st.repeat \in 1..w.st.req.repeat /\ ~w.event
  /\ \A c \in Channels : w.chan[c] = Off
  /\ w.st.req.chunk % MaxDmaSize # 0 =>
       \A c \in Used(w.st) : Len(bytes[c]) = len /\ \A k \in 1..Len(bytes[c]) : bytes[c][k] = Byte(w.st.req, k)

LEMMA StepRuns ==
  ASSUME NEW w \in Worlds, NEW bytes, AtChunk(w, bytes, Before(w.st))
  PROVE  Step(w) \in Worlds /\ UnderWay(Step(w), bytes)
<1> DEFINE n == Step(w)
           total == NumLinkedLists(w.st.req.chunk)
           rest == Rest(w.st, total)
<1>1. /\ n \in Worlds /\ n.cs = "low" /\ n.event = w.event
      /\ n.st = [w.st EXCEPT !.done = 0, !.error = 0]
      /\ \A c \in Channels : n.chan[c] =
           IF c \in Used(w.st) THEN [packets |-> rest, irq |-> "none"] ELSE w.chan[c]
  <2>1. \A c \in Used(w.st) : w.chan[c] = Off
    BY DEF AtChunk, Used, Channels
  <2>2. QED
    BY <2>1, StepEffect DEF AtChunk
<1>2. w.st \in Status /\ w.st.req \in Requests
  BY DEF Worlds, AtChunk
<1>3. w.st.req.chunk \in Nat \ {0} /\ total \in Nat \ {0}
  BY <1>2, SpiDmaAssumption, PacketCount DEF Status
<1>4. rest \in Seq(PacketType) /\ Len(rest) = total
  BY <1>2, <1>3, RestIsSeq
<1> HIDE DEF n
<1>5. /\ n.st.req = w.st.req /\ n.st.held = w.st.held /\ n.st.length = w.st.length
      /\ n.st.offset = w.st.offset /\ n.st.repeat = w.st.repeat
      /\ n.st.done = 0 /\ n.st.error = 0
  BY <1>1, <1>2 DEF Status
<1>6. Used(n.st) = Used(w.st) /\ Expected(n.st) \in 1..2 /\ Before(n.st) = Before(w.st)
      /\ Used(w.st) \subseteq Channels
  BY <1>5 DEF Used, Expected, Before, Channels
<1>7. Rest(n.st, total) = rest
  BY <1>5 DEF Rest
<1>8. ASSUME NEW c \in Used(w.st) PROVE InStep(n, bytes, c)
  <2>1. n.chan[c] = [packets |-> rest, irq |-> "none"]
    BY <1>1, <1>6, <1>8
  <2>2. w.st.req.chunk % MaxDmaSize # 0 => Len(bytes[c]) = Before(n.st) + Within(n.st, total)
    <3>1. Within(n.st, total) = 0
      <4>1. (total - total) * MaxDmaSize = 0
        BY <1>3, SpiDmaAssumption
      <4>2. Within(n.st, total) = (total - total) * MaxDmaSize
        BY <1>3, <1>5 DEF Within
      <4>3. QED
        BY <4>1, <4>2
    <3>2. Before(w.st) \in Int
      <4>1. w.st.req.len \in Nat /\ w.st.req.repeat \in Nat /\ w.st.repeat \in Nat /\ w.st.offset \in Nat
        BY <1>2, SpiDmaAssumption DEF Status
      <4>2. QED
        BY <4>1, BeforeIsNumber
    <3>3. w.st.req.chunk % MaxDmaSize # 0 => Len(bytes[c]) = Before(w.st)
      BY <1>8 DEF AtChunk
    <3> HIDE DEF total
    <3>4. QED
      BY <3>1, <3>2, <3>3, <1>6
  <2>3. w.st.req.chunk % MaxDmaSize # 0 => \A k \in 1..Len(bytes[c]) : bytes[c][k] = Byte(n.st.req, k)
    BY <1>5, <1>8 DEF AtChunk
  <2>4. n.chan[c].packets = rest /\ n.chan[c].irq = "none"
    BY <2>1
  <2>5. Len(rest) \in 0..NumLinkedLists(n.st.req.chunk) /\ rest = Rest(n.st, Len(rest))
    BY <1>3, <1>4, <1>5, <1>7
  <2> HIDE DEF total, rest
  <2>6. QED
    BY <1>4, <1>5, <2>2, <2>3, <2>4, <2>5 DEF InStep
<1>9. \A c \in Channels : Counted(n, c) = 0
  <2> TAKE c \in Channels
  <2>1. ASSUME c \in Used(n.st) PROVE n.chan[c] # Off
    <3>1. n.chan[c].packets = rest
      BY <1>1, <1>6, <2>1
    <3>2. rest # <<>>
      BY <1>3, <1>4
    <3>3. QED
      BY <3>1, <3>2 DEF Off
  <2>2. QED
    BY <2>1 DEF Counted
<1>10. Aligned(n.st)
  BY <1>5 DEF Aligned, AtChunk
<1>11. \A c \in Channels : IF c \in Used(n.st) THEN InStep(n, bytes, c) ELSE n.chan[c] = Off
  BY <1>1, <1>6, <1>8 DEF AtChunk
<1>12. n.st.done = Counted(n, "tx") + Counted(n, "rx") /\ n.st.done < Expected(n.st)
  BY <1>5, <1>6, <1>9 DEF Channels
<1>13. UnderWay(n, bytes)
  BY <1>1, <1>5, <1>10, <1>11, <1>12 DEF UnderWay, AtChunk
<1>14. QED
  BY <1>1, <1>13 DEF n

(* default_complete_cb after a chunk: the next chunk, the next time, or    *)
(* the end.                                                                *)
LEMMA CompleteKeeps ==
  ASSUME NEW w \in Worlds, w.st.error = 0, w.st.done \in 0..2,
         NEW bytes \in [Channels -> Seq(Nat)],
         AtChunk(w, bytes, Before(w.st) + w.st.req.chunk)
  PROVE  /\ Complete(w) \in Worlds
         /\ UnderWay(Complete(w), bytes) \/ Ended(Complete(w), bytes)
<1> DEFINE r == w.st.req
           off == w.st.offset
           rep == w.st.repeat
           chunk == r.chunk
           len == r.len
           next == off + chunk
           wraps == next + chunk > w.st.length
           again == (rep - 1) % RepeatWidth
           s == [w.st EXCEPT !.offset = IF wraps THEN 0 ELSE next,
                             !.repeat = IF wraps THEN again ELSE @]
           after == [st |-> s, chan |-> w.chan, cs |-> "high", event |-> w.event]
<1>1. /\ w.st \in Status /\ r \in Requests /\ w.chan \in [Channels -> Channel]
      /\ w.event = FALSE /\ w.st.held = TRUE
  BY DEF Worlds, AtChunk, Status
<1>2. /\ chunk \in Nat \ {0} /\ len \in Nat /\ r.repeat \in 1..(RepeatWidth - 1)
      /\ RepeatWidth \in Nat /\ off \in Nat /\ rep \in 1..r.repeat
      /\ w.st.length = len /\ len % chunk = 0
  BY <1>1, SpiDmaAssumption DEF Status, AtChunk
<1>3. next <= len /\ (len - off) % chunk = 0
  BY DEF AtChunk, Aligned
<1>4. again = rep - 1 /\ again \in Nat /\ next \in Nat
  <2>1. rep - 1 \in 0..(RepeatWidth - 1)
    BY <1>2
  <2>2. again = rep - 1
    BY <1>2, <2>1, SmallRest
  <2> HIDE DEF again
  <2>3. QED
    BY <1>2, <2>2
<1>5. (wraps <=> next = len) /\ (~wraps => (len - next) % chunk = 0 /\ next + chunk <= len)
  <2> HIDE DEF off, chunk, len
  <2>1. next = len => wraps
    BY <1>2
  <2>2. ASSUME next # len PROVE (len - next) % chunk = 0 /\ next + chunk <= len
    <3>1. len - off \in Nat \ {0} /\ len - next \in Nat \ {0}
      BY <1>2, <1>3, <2>2
    <3>2. (len - off) - chunk = len - next
      BY <1>2
    <3>3. (len - next) % chunk = 0
      <4>1. ((len - off) - chunk) % chunk = 0
        BY <1>2, <1>3, <3>1, ChunkFits
      <4>2. QED
        BY <3>2, <4>1
    <3>4. len - next >= chunk
      BY <1>2, <3>1, <3>3, ChunkFits
    <3>5. QED
      BY <1>2, <3>1, <3>3, <3>4
  <2>3. next + chunk <= len => ~wraps
    BY <1>2
  <2>4. QED
    BY <2>1, <2>2, <2>3
<1>7. /\ s \in Status /\ after \in Worlds
      /\ s.req = r /\ s.held = TRUE /\ s.length = len /\ s.error = 0 /\ s.done = w.st.done
      /\ s.offset = (IF wraps THEN 0 ELSE next)
      /\ s.repeat = (IF wraps THEN rep - 1 ELSE rep)
  <2>1. /\ s.req = r /\ s.held = TRUE /\ s.length = len /\ s.error = 0 /\ s.done = w.st.done
        /\ s.offset = (IF wraps THEN 0 ELSE next)
        /\ s.repeat = (IF wraps THEN again ELSE rep)
    BY <1>1, <1>2 DEF Status
  <2>2. again \in Nat /\ next \in Nat
    BY <1>4
  <2> HIDE DEF again, next, wraps
  <2>3. s \in Status
    BY <1>1, <2>2 DEF Status
  <2> HIDE DEF s
  <2>4. after \in Worlds
    BY <1>1, <2>3 DEF Worlds
  <2>5. QED
    BY <1>4, <2>1, <2>3, <2>4
<1>8. Complete(w) = IF wraps /\ again = 0 THEN [after EXCEPT !.event = TRUE] ELSE Step(after)
  <2>1. [w EXCEPT !.cs = "high", !.st = s] = after
    <3> HIDE DEF s
    <3> DEFINE high == [w EXCEPT !.cs = "high"]
    <3>1. high = [st |-> w.st, chan |-> w.chan, cs |-> "high", event |-> w.event]
      BY DEF Worlds
    <3>2. [w EXCEPT !.cs = "high", !.st = s] = [high EXCEPT !.st = s]
      BY Zenon
    <3> HIDE DEF high
    <3>3. [high EXCEPT !.st = s] = after
      BY <3>1
    <3>4. QED
      BY <3>2, <3>3
  <2>2. QED
    BY <2>1, Zenon DEF Complete
<1>9. Before(w.st) + chunk = (r.repeat - rep) * len + next /\ Before(w.st) \in Int
  <2> DEFINE b == (r.repeat - rep) * len
  <2>1. b \in Int
    BY <1>2
  <2>2. Before(w.st) = b + off
    BY DEF Before
  <2> HIDE DEF b, r
  <2>3. Before(w.st) + chunk = b + next /\ Before(w.st) \in Int
    BY <1>2, <2>1, <2>2 DEF r
  <2>4. QED
    BY <2>3 DEF b, r
<1> HIDE DEF again, wraps, s
<1>10. ASSUME wraps, again = 0 PROVE Ended([after EXCEPT !.event = TRUE], bytes)
                                   /\ [after EXCEPT !.event = TRUE] \in Worlds
  <2> DEFINE n == [after EXCEPT !.event = TRUE]
  <2>1. n \in Worlds /\ n.st = s /\ n.chan = w.chan /\ n.cs = "high" /\ n.event = TRUE
    <3>1. after \in Worlds /\ after.st = s /\ after.chan = w.chan /\ after.cs = "high"
      BY <1>7
    <3> HIDE DEF after
    <3>2. QED
      BY <3>1 DEF Worlds
  <2> HIDE DEF n
  <2>2. rep = 1 /\ next = len
    BY <1>2, <1>4, <1>5, <1>10
  <2>3. Before(w.st) + chunk = len * r.repeat
    <3>1. (r.repeat - 1) * len + len = len * r.repeat
      BY <1>2
    <3>2. QED
      BY <1>9, <2>2, <3>1
  <2>4. ASSUME chunk % MaxDmaSize # 0, NEW c \in Used(w.st) PROVE bytes[c] = Wanted(r)
    <3>1. c \in Channels /\ bytes[c] \in Seq(Nat)
      BY DEF Used, Channels
    <3>2. Len(bytes[c]) = len * r.repeat /\ \A k \in 1..Len(bytes[c]) : bytes[c][k] = Byte(r, k)
      BY <2>3, <2>4 DEF AtChunk
    <3>3. bytes[c] \in [1..Len(bytes[c]) -> Nat]
      BY <3>1, LenProperties
    <3>4. Wanted(r) = [k \in 1..(len * r.repeat) |-> Byte(r, k)]
      BY Zenon DEF Wanted, Byte
    <3> HIDE DEF r
    <3>5. QED
      BY <3>2, <3>3, <3>4
  <2>5. Used(n.st) = Used(w.st) /\ n.st.req = r
    BY <1>7, <2>1 DEF Used
  <2>6. Ended(n, bytes)
    <3>2. r \in Requests /\ ~r.faults /\ \A c \in Channels : w.chan[c] = Off
      BY DEF AtChunk
    <3>3. s.repeat = 0
      BY <1>7, <1>10, <2>2
    <3> HIDE DEF r
    <3>4. QED
      BY <1>7, <2>1, <2>4, <2>5, <3>2, <3>3 DEF Ended, chunk
  <2>7. QED
    BY <2>1, <2>6 DEF n
<1>11. ASSUME ~(wraps /\ again = 0) PROVE Step(after) \in Worlds /\ UnderWay(Step(after), bytes)
  <2>1. Aligned(s) /\ s.repeat \in 1..r.repeat
    <3>1. CASE wraps
      <4>1. s.offset = 0 /\ s.repeat = rep - 1 /\ rep # 1
        BY <1>4, <1>7, <1>11, <3>1, <1>2
      <4>2. len \in Nat \ {0} /\ len % chunk = 0 /\ len - 0 = len
        BY <1>1, <1>2, <1>3, SpiDmaAssumption
      <4>3. 0 + chunk <= len
        <5> HIDE DEF off, chunk, len
        <5>1. QED
          BY <1>2, <1>3
      <4>4. QED
        BY <1>2, <1>7, <4>1, <4>2, <4>3 DEF Aligned
    <3>2. CASE ~wraps
      BY <1>2, <1>5, <1>7, <3>2 DEF Aligned
    <3>3. QED
      BY <3>1, <3>2
  <2>2. Before(s) = Before(w.st) + chunk
    <3>1. CASE wraps
      <4>1. next = len /\ s.offset = 0 /\ s.repeat = rep - 1
        BY <1>5, <1>7, <3>1
      <4>2. Before(s) = (r.repeat - (rep - 1)) * len + 0
        BY <1>7, <4>1 DEF Before
      <4>3. (r.repeat - (rep - 1)) * len + 0 = (r.repeat - rep) * len + len
        BY <1>2
      <4>4. QED
        BY <1>9, <4>1, <4>2, <4>3
    <3>2. CASE ~wraps
      BY <1>7, <1>9, <3>2 DEF Before
    <3>3. QED
      BY <3>1, <3>2
  <2>3. Used(s) = Used(w.st)
    BY <1>7 DEF Used
  <2>4. after.st = s /\ after.chan = w.chan /\ after.event = FALSE
    BY <1>1
  <2> HIDE DEF after
  <2>5. AtChunk(after, bytes, Before(after.st))
    BY <1>1, <1>7, <2>1, <2>2, <2>3, <2>4 DEF AtChunk
  <2>6. QED
    BY <1>7, <2>5, StepRuns
<1>12. QED
  BY <1>8, <1>10, <1>11

(* An interrupt of a channel that has finished: it is counted, and the     *)
(* last one completes the chunk.                                           *)
LEMMA CounterKeeps ==
  ASSUME NEW w \in Worlds, NEW bytes \in [Channels -> Seq(Nat)], UnderWay(w, bytes),
         NEW c \in Channels
  PROVE  /\ DmaCounter(w, c) \in Worlds
         /\ UnderWay(DmaCounter(w, c), bytes) \/ Ended(DmaCounter(w, c), bytes)
<1>1. /\ w.st \in Status /\ w.st.req \in Requests /\ w.chan \in [Channels -> Channel]
      /\ Used(w.st) \subseteq Channels
  BY DEF Worlds, UnderWay, Used, Channels
<1>2. CASE w.chan[c].irq = "none"
  <2>1. DmaCounter(w, c) = w
    BY <1>2, Zenon DEF DmaCounter
  <2>2. QED
    BY <2>1
<1>3. CASE w.chan[c].irq # "none"
  <2>1. c \in Used(w.st)
    <3>1. c \notin Used(w.st) => w.chan[c] = Off
      BY DEF UnderWay
    <3>2. QED
      BY <1>3, <3>1 DEF Off
  <2>2. InStep(w, bytes, c)
    BY <2>1 DEF UnderWay
  <2>3. w.chan[c].irq = "tc" /\ w.chan[c].packets = <<>> /\ w.chan[c] \in Channel
    BY <1>1, <1>3, <2>2 DEF InStep, Channel
  <2> DEFINE clear == [w EXCEPT !.chan[c].irq = "none"]
             counted == [clear EXCEPT !.st.done = @ + 1]
             ch == [w.chan EXCEPT ![c] = Off]
             s == [w.st EXCEPT !.done = @ + 1]
             n == [st |-> s, chan |-> ch, cs |-> w.cs, event |-> w.event]
  <2>4. clear = [st |-> w.st, chan |-> ch, cs |-> w.cs, event |-> w.event]
    <3>1. [w.chan[c] EXCEPT !.irq = "none"] = Off
      BY <2>3 DEF Channel, Off
    <3>2. [w.chan EXCEPT ![c].irq = "none"] = ch
      BY <3>1, <1>1
    <3> HIDE DEF ch
    <3>3. clear = [w EXCEPT !.chan = [w.chan EXCEPT ![c].irq = "none"]]
      BY Zenon
    <3>4. clear = [w EXCEPT !.chan = ch]
      BY <3>2, <3>3
    <3> HIDE DEF clear
    <3>5. QED
      BY <3>4 DEF Worlds
  <2>5. counted = n
    <3> DEFINE cl == [st |-> w.st, chan |-> ch, cs |-> w.cs, event |-> w.event]
    <3>1. counted = [cl EXCEPT !.st = [cl.st EXCEPT !.done = cl.st.done + 1]]
      BY <2>4, Zenon
    <3>2. [cl.st EXCEPT !.done = cl.st.done + 1] = s
      OBVIOUS
    <3>3. counted = [cl EXCEPT !.st = s]
      BY <3>1, <3>2
    <3> HIDE DEF ch, s, counted
    <3>4. QED
      BY <3>3
  <2>6. /\ DmaCounter(w, c) = IF counted.st.done = Expected(w.st) THEN Complete(counted) ELSE counted
    <3>1. w.chan[c].irq # "none" /\ w.chan[c].irq # "error"
      BY <2>3
    <3>2. QED
      BY <3>1, Zenon DEF DmaCounter
  <2>7. DmaCounter(w, c) = IF n.st.done = Expected(w.st) THEN Complete(n) ELSE n
    BY <2>5, <2>6, Zenon
  <2> HIDE DEF clear, counted
  <2>8. /\ s \in Status /\ s.req = w.st.req /\ s.held = w.st.held /\ s.length = w.st.length
        /\ s.offset = w.st.offset /\ s.repeat = w.st.repeat /\ s.error = w.st.error
        /\ s.done = w.st.done + 1
    <3>1. w.st.done + 1 \in Nat
      BY <1>1 DEF Status
    <3>2. s = [w.st EXCEPT !.done = w.st.done + 1]
      OBVIOUS
    <3> HIDE DEF s
    <3>3. QED
      BY <1>1, <3>1, <3>2 DEF Status
  <2>9. ch \in [Channels -> Channel] /\ ch[c] = Off
        /\ \A d \in Channels : d # c => ch[d] = w.chan[d]
    BY <1>1 DEF Channel, Off, PacketType
  <2>10. n \in Worlds /\ n.st = s /\ n.chan = ch /\ n.cs = w.cs /\ n.event = w.event
    <3> HIDE DEF s, ch
    <3>1. QED
      BY <2>8, <2>9 DEF Worlds
  <2> HIDE DEF n, s, ch
  <2>11. Used(n.st) = Used(w.st) /\ Before(n.st) = Before(w.st) /\ Expected(n.st) = Expected(w.st)
         /\ Expected(w.st) = IF "rx" \in Used(w.st) THEN 2 ELSE 1
    BY <2>8, <2>10 DEF Used, Before, Expected, Channels
  <2>12. Counted(w, c) = 0 /\ Counted(n, c) = 1
         /\ \A d \in Channels : d # c => Counted(n, d) = Counted(w, d)
    BY <1>3, <2>1, <2>9, <2>10, <2>11 DEF Counted, Off
  <2>13. n.st.done = Counted(n, "tx") + Counted(n, "rx")
    <3>1. \A d \in Channels : Counted(w, d) \in Nat /\ Counted(n, d) \in Nat
      BY DEF Counted
    <3>2. w.st.done = Counted(w, "tx") + Counted(w, "rx")
      BY DEF UnderWay
    <3>3. c = "tx" \/ c = "rx"
      BY DEF Channels
    <3>4. QED
      BY <2>8, <2>10, <2>12, <3>1, <3>2, <3>3 DEF Channels
  <2>14. /\ w.st.error = 0 /\ w.st.held /\ w.st.length = w.st.req.len /\ Aligned(w.st)
         /\ w.st.repeat \in 1..w.st.req.repeat /\ ~w.event /\ w.cs = "low" /\ ~w.st.req.faults
         /\ w.st.done < Expected(w.st)
    BY DEF UnderWay
  <2>15. Aligned(n.st)
    BY <2>8, <2>10, <2>14 DEF Aligned
  <2>16. CASE n.st.done = Expected(w.st)
    <3>1. \A d \in Channels : n.chan[d] = Off
      <4> TAKE d \in Channels
      <4>1. CASE d \notin Used(w.st)
        <5>1. w.chan[d] = Off /\ d # c
          BY <2>1, <4>1 DEF UnderWay
        <5>2. QED
          BY <2>9, <2>10, <5>1
      <4>2. CASE d \in Used(w.st)
        <5>1. Counted(n, d) = 1
          <6>1. \A e \in Channels : Counted(n, e) \in 0..1
            BY DEF Counted
          <6>2. "rx" \notin Used(w.st) => Counted(n, "rx") = 0
            BY <2>11 DEF Counted
          <6>3. d = "tx" \/ d = "rx"
            BY DEF Channels
          <6>4. QED
            BY <2>11, <2>13, <2>16, <4>2, <6>1, <6>2, <6>3 DEF Channels
        <5>2. QED
          BY <5>1 DEF Counted
      <4>3. QED
        BY <4>1, <4>2
    <3>2. ASSUME w.st.req.chunk % MaxDmaSize # 0, NEW d \in Used(w.st)
          PROVE  /\ Len(bytes[d]) = Before(w.st) + w.st.req.chunk
                 /\ \A k \in 1..Len(bytes[d]) : bytes[d][k] = Byte(w.st.req, k)
      <4>1. InStep(w, bytes, d) /\ d \in Channels
        BY <1>1 DEF UnderWay
      <4>2. w.chan[d].packets = <<>>
        <5>1. CASE d = c
          BY <2>3, <5>1
        <5>2. CASE d # c
          BY <2>9, <2>10, <3>1, <4>1, <5>2 DEF Off
        <5>3. QED
          BY <5>1, <5>2
      <4>3. Within(w.st, Len(w.chan[d].packets)) = w.st.req.chunk
        BY <4>2 DEF Within
      <4>4. QED
        BY <3>2, <4>1, <4>3 DEF InStep
    <3>3. AtChunk(n, bytes, Before(n.st) + n.st.req.chunk)
      <4>1. n.st.req = w.st.req /\ n.st.held = w.st.held /\ n.st.length = w.st.length
            /\ n.st.repeat = w.st.repeat /\ n.event = w.event
        BY <2>8, <2>10
      <4>2. w.st.req.chunk % MaxDmaSize # 0 =>
              \A d \in Used(w.st) : /\ Len(bytes[d]) = Before(n.st) + w.st.req.chunk
                                   /\ \A k \in 1..Len(bytes[d]) : bytes[d][k] = Byte(w.st.req, k)
        BY <2>11, <3>2
      <4>3. QED
        BY <1>1, <2>11, <2>14, <2>15, <3>1, <4>1, <4>2 DEF AtChunk
    <3>4. n.st.done \in 0..2 /\ n.st.error = 0
      BY <2>8, <2>10, <2>11, <2>14, <2>16
    <3>5. QED
      BY <2>7, <2>10, <2>16, <3>3, <3>4, CompleteKeeps
  <2>17. CASE n.st.done # Expected(w.st)
    <3>1. n.st.done < Expected(n.st)
      BY <1>1, <2>8, <2>10, <2>11, <2>14, <2>17 DEF Status
    <3>2. ASSUME NEW d \in Used(w.st) PROVE InStep(n, bytes, d)
      <4>1. InStep(w, bytes, d) /\ d \in Channels
        BY <1>1 DEF UnderWay
      <4>2. n.chan[d].packets = w.chan[d].packets /\ (n.chan[d].irq = w.chan[d].irq \/ n.chan[d].irq = "none")
        BY <2>3, <2>9, <2>10, <4>1 DEF Off
      <4>3. \A k \in Nat : Rest(n.st, k) = Rest(w.st, k) /\ Within(n.st, k) = Within(w.st, k)
        BY <2>8, <2>10 DEF Rest, Within
      <4>4. Len(w.chan[d].packets) \in Nat
        BY <1>1, <4>1, LenProperties DEF Channel
      <4>5. QED
        BY <2>8, <2>10, <2>11, <4>1, <4>2, <4>3, <4>4 DEF InStep
    <3>3. \A d \in Channels : IF d \in Used(n.st) THEN InStep(n, bytes, d) ELSE n.chan[d] = Off
      <4>1. \A d \in Channels : d \notin Used(w.st) => w.chan[d] = Off /\ d # c
        BY <2>1 DEF UnderWay
      <4>2. QED
        BY <2>9, <2>10, <2>11, <3>2, <4>1
    <3>4. UnderWay(n, bytes)
      BY <1>1, <2>8, <2>10, <2>13, <2>14, <2>15, <3>1, <3>3 DEF UnderWay
    <3>5. QED
      BY <2>7, <2>10, <2>17, <3>4
  <2>18. QED
    BY <2>16, <2>17
<1>4. QED
  BY <1>2, <1>3

-----------------------------------------------------------------------------
(* The steps.                                                              *)

LEMMA DmaInitInv == DmaInit => IInv
<1> SUFFICES ASSUME DmaInit PROVE IInv
  OBVIOUS
<1>1. /\ st = Free /\ chan = [c \in Channels |-> Off] /\ cs = "high" /\ event = FALSE
      /\ moved = [c \in Channels |-> <<>>] /\ main = "idle" /\ errored = FALSE /\ report = NoRequest
      /\ past = "clean"
  BY DEF DmaInit
<1>2. Off \in Channel
  BY DEF Off, Channel
<1>3. Free \in Status
  BY DEF Free, Status
<1>4. World \in Worlds
  BY <1>1, <1>2, <1>3 DEF World, Worlds
<1>5. moved \in [Channels -> Seq(Nat)]
  BY <1>1
<1>6. DmaTypes
  BY <1>1, <1>4, <1>5 DEF DmaTypes
<1>7. Idle(World)
  BY <1>1 DEF Idle, World
<1>8. Sound
  BY <1>1, <1>6, <1>7 DEF Sound, Reported
<1>9. QED
  BY <1>1, <1>8 DEF IInv, Leftovers

LEMMA WorldType ==
  ASSUME DmaTypes
  PROVE  /\ st \in Status /\ chan \in [Channels -> Channel] /\ cs \in {"low", "high"} /\ event \in BOOLEAN
         /\ World.st = st /\ World.chan = chan /\ World.cs = cs /\ World.event = event
BY DEF DmaTypes, World, Worlds

LEMMA WorldAfter ==
  ASSUME NEW w \in Worlds, Become(w)
  PROVE  World' = w
BY DEF World, Worlds, Become

(* A transfer starts as it should, unless a completion is left over.       *)
LEMMA TransferStep ==
  ASSUME NoEmptyBuffer, FaultsAlone, Sound, ~event, NEW r \in Requests, Transfer(r)
  PROVE  Sound' /\ st'.held
<1> DEFINE ch == [c \in Channels |-> IF c = "tx" \/ r.rx THEN Off ELSE chan[c]]
           s == [req |-> r, held |-> TRUE, length |-> r.len, offset |-> 0,
                 repeat |-> r.repeat, done |-> 0, error |-> 0]
           w == [st |-> s, chan |-> ch, cs |-> "high", event |-> FALSE]
<1>1. DmaTypes /\ main = "idle" /\ ~st.held /\ ~event /\ main' = main /\ report' = report
      /\ errored' = FALSE /\ moved' = [c \in Channels |-> <<>>]
  BY DEF Sound, Transfer
<1>2. chan \in [Channels -> Channel] /\ World.st = st /\ World.chan = chan /\ World.event = event
  BY <1>1, WorldType
<1>3. /\ r.len \in Nat \ {0} /\ r.chunk \in Nat \ {0} /\ r.repeat \in Nat \ {0}
      /\ r.len % r.chunk = 0 /\ r.rx \in BOOLEAN /\ r.faults \in BOOLEAN
      /\ r.faults => ~r.rx /\ r.repeat = 1
  BY SpiDmaAssumption DEF NoEmptyBuffer, FaultsAlone
<1>4. r.chunk <= r.len
  BY <1>3, ChunkFits
<1>5. ~r.rx => chan["rx"] = Off
  BY <1>1, <1>2 DEF Sound, Idle, UnderWay, Ended, Faulty, Channels
<1>6. \A c \in Channels : ch[c] = Off
  BY <1>2, <1>5 DEF Channels
<1>7. w \in Worlds
  <2>1. s \in Status
    BY <1>3 DEF Status
  <2>2. ch \in [Channels -> Channel]
    <3>1. Off \in Channel
      BY DEF Off, Channel
    <3>2. QED
      BY <1>6, <3>1
  <2> HIDE DEF s, ch
  <2>3. QED
    BY <2>1, <2>2 DEF Worlds
<1>8. Become(Step(w))
  <2>1. (event \/ r.repeat = 0 \/ r.chunk > r.len) = FALSE
    BY <1>1, <1>2, <1>3, <1>4
  <2> DEFINE e == event \/ r.repeat = 0 \/ r.chunk > r.len
  <2>2. Become(Step([st |-> s, chan |-> ch, cs |-> "high", event |-> e]))
    BY Zenon DEF Transfer
  <2>3. e = FALSE
    BY <2>1
  <2> HIDE DEF s, ch, e
  <2>4. QED
    BY <2>2, <2>3
<1>9. w.st = s /\ w.chan = ch /\ w.event = FALSE /\ w.st.req = r
  OBVIOUS
<1>10. moved' \in [Channels -> Seq(Nat)]
  BY <1>1
<1>11. CASE ~r.faults
  <2>1. Before(s) = 0
    <3>1. (r.repeat - r.repeat) * r.len + 0 = 0
      BY <1>3
    <3>2. QED
      BY <3>1 DEF Before
  <2>2. Aligned(s)
    BY <1>3, <1>4 DEF Aligned
  <2>3. \A c \in Used(s) : Len(moved'[c]) = 0
    BY <1>1 DEF Used, Channels
  <2>4. s.repeat \in 1..s.req.repeat
    BY <1>3
  <2>5. s.held = TRUE /\ s.length = s.req.len /\ s.req = r
    OBVIOUS
  <2> HIDE DEF s, ch, w
  <2>6. AtChunk(w, moved', Before(w.st))
    BY <1>6, <1>9, <1>11, <2>1, <2>2, <2>3, <2>4, <2>5 DEF AtChunk
  <2>7. Step(w) \in Worlds /\ UnderWay(Step(w), moved')
    BY <1>7, <2>6, StepRuns
  <2>8. World' = Step(w)
    BY <1>8, <2>7, WorldAfter
  <2>9. st'.held
    <3>1. World'.st = st'
      BY DEF World
    <3>2. QED
      BY <2>7, <2>8, <3>1 DEF UnderWay
  <2>10. QED
    BY <1>1, <1>10, <2>7, <2>8, <2>9 DEF Sound, DmaTypes, Reported
<1>12. CASE r.faults
  <2>1. Used(w.st) = {"tx"}
    BY <1>3, <1>9, <1>12 DEF Used
  <2>2. \A c \in Used(w.st) : w.chan[c] = Off
    BY <1>6, <1>9, <2>1 DEF Channels
  <2> DEFINE n == Step(w)
  <2>3. /\ n \in Worlds /\ n.cs = "low" /\ n.event = FALSE
        /\ n.st = [s EXCEPT !.done = 0, !.error = 0]
        /\ n.chan["tx"].irq = "none" /\ n.chan["rx"] = Off
    <3> HIDE DEF w
    <3>1. /\ n \in Worlds /\ n.cs = "low" /\ n.event = w.event
          /\ n.st = [w.st EXCEPT !.done = 0, !.error = 0]
          /\ \A c \in Channels : n.chan[c] =
               IF c \in Used(w.st)
               THEN [packets |-> Rest(w.st, NumLinkedLists(w.st.req.chunk)), irq |-> "none"]
               ELSE w.chan[c]
      BY <1>7, <1>9, <2>2, StepEffect
    <3> HIDE DEF n, s, ch
    <3>2. n.chan["tx"].irq = "none" /\ n.chan["rx"] = Off
      BY <1>6, <1>9, <2>1, <3>1 DEF Channels
    <3>3. QED
      BY <1>9, <3>1, <3>2
  <2>4. /\ n.st.req = r /\ n.st.held /\ n.st.offset = 0 /\ n.st.repeat = 1 /\ n.st.done = 0
        /\ n.st.error = 0 /\ n.st.length = r.len
    <3> HIDE DEF n, w
    <3>1. QED
      BY <1>3, <1>12, <2>3
  <2> HIDE DEF n
  <2>5. Faulty(n, FALSE)
    BY <1>12, <2>3, <2>4 DEF Faulty
  <2>6. World' = n
    BY <1>8, <2>3, WorldAfter DEF n
  <2>7. st'.held
    <3>1. World'.st = st'
      BY DEF World
    <3>2. QED
      BY <2>4, <2>6, <3>1
  <2>8. QED
    BY <1>1, <1>10, <2>3, <2>5, <2>6, <2>7 DEF Sound, DmaTypes, Reported
<1>13. QED
  BY <1>3, <1>11, <1>12

LEMMA PacketBytes ==
  ASSUME NEW p \in PacketType
  PROVE  BytesOf(p) \in Seq(Nat)
<1> DEFINE n == p.size
           from == p.from
<1>1. n \in Nat /\ from \in Nat
  BY DEF PacketType
<1> HIDE DEF n, from
<1>2. [k \in 1..n |-> from + k] \in Seq(Nat)
  BY <1>1
<1>3. QED
  BY <1>2 DEF n, from, BytesOf

(* A packet is moved, and its bytes are those that come next.              *)
LEMMA MovePacketStep ==
  ASSUME Sound, NEW c \in Channels, MovePacket(c)
  PROVE  Sound'
<1> DEFINE left == chan[c].packets
           p == Head(left)
           new == [packets |-> Tail(left), irq |-> IF Len(left) = 1 THEN "tc" ELSE "none"]
<1>1. /\ DmaTypes /\ left # <<>> /\ chan[c].irq = "none"
      /\ UNCHANGED <<st, cs, event, main, errored, report>>
  BY DEF Sound, MovePacket
<1>2. /\ st \in Status /\ chan \in [Channels -> Channel] /\ cs \in {"low", "high"} /\ event \in BOOLEAN
      /\ World.st = st /\ World.chan = chan /\ World.cs = cs /\ World.event = event
  BY <1>1, WorldType
<1>3. left \in Seq(PacketType) /\ p \in PacketType /\ Tail(left) \in Seq(PacketType)
      /\ Len(left) \in Nat \ {0} /\ Len(Tail(left)) = Len(left) - 1
  BY <1>1, <1>2, HeadTailProperties, EmptySeq, LenProperties DEF Channel
<1>4. chan' = [chan EXCEPT ![c] = new]
  BY Zenon DEF MovePacket
<1>5. moved' = [moved EXCEPT ![c] = moved[c] \o BytesOf(p)]
  BY Zenon DEF MovePacket, BytesOf
<1>6. moved \in [Channels -> Seq(Nat)]
  BY <1>1 DEF DmaTypes
<1>7. moved' \in [Channels -> Seq(Nat)]
  <2>1. moved[c] \o BytesOf(p) \in Seq(Nat)
    BY <1>3, <1>6, PacketBytes, ConcatProperties
  <2>2. QED
    BY <1>5, <1>6, <2>1
<1>8. new \in Channel
  BY <1>3 DEF Channel
<1> HIDE DEF new
<1>9. /\ chan' \in [Channels -> Channel] /\ chan'[c] = new
      /\ \A d \in Channels : d # c => chan'[d] = chan[d] /\ moved'[d] = moved[d]
  BY <1>2, <1>4, <1>5, <1>6, <1>8
<1>10. /\ World' \in Worlds /\ World'.st = st /\ World'.chan = chan' /\ World'.cs = cs
       /\ World'.event = event
  <2>1. World' = [st |-> st, chan |-> chan', cs |-> cs, event |-> event]
    BY <1>1 DEF World
  <2>2. QED
    BY <1>2, <1>9, <2>1 DEF Worlds
<1>11. DmaTypes' /\ Reported'
  BY <1>1, <1>7, <1>10 DEF DmaTypes, Sound, Reported
<1>12. chan[c] # Off
  BY <1>1 DEF Off
<1>13. CASE Faulty(World, errored)
  <2>1. c = "tx" /\ chan'["rx"] = Off
    BY <1>2, <1>9, <1>12, <1>13 DEF Faulty, Channels
  <2>2. chan'["tx"].irq # "none" => chan'["tx"].packets = <<>>
    <3>1. Len(left) = 1 => Tail(left) = <<>>
      BY <1>1, <1>3, LastOne
    <3>2. QED
      BY <1>9, <2>1, <3>1 DEF new
  <2>3. World.st.repeat # 0
    BY <1>2, <1>12, <1>13, <2>1 DEF Faulty
  <2>4. Faulty(World', errored)
    BY <1>2, <1>10, <1>13, <2>1, <2>2, <2>3 DEF Faulty
  <2>5. QED
    BY <1>1, <1>11, <2>4 DEF Sound
<1>14. CASE UnderWay(World, moved) /\ ~errored /\ main = "idle"
  <2> DEFINE r == st.req
             n == Len(left)
             total == NumLinkedLists(r.chunk)
  <2>1. c \in Used(st)
    BY <1>2, <1>12, <1>14 DEF UnderWay
  <2>2. /\ r \in Requests /\ Aligned(st) /\ st.repeat \in 1..r.repeat
        /\ InStep(World, moved, c)
    BY <1>2, <1>14, <2>1 DEF UnderWay
  <2>3. r.chunk \in Nat \ {0} /\ total \in Nat \ {0} /\ st.offset \in Nat
    BY <1>2, <2>2, SpiDmaAssumption, PacketCount DEF Status
  <2>4. n \in 1..total /\ left = Rest(st, n)
    BY <1>2, <1>3, <2>2 DEF InStep
  <2>5. Tail(left) = Rest(st, n - 1) /\ p = Packets(st.offset, r.chunk)[total - n + 1]
    <3> HIDE DEF left, total, r, n
    <3>1. n \in 0..NumLinkedLists(st.req.chunk) /\ n # 0 /\ left = Rest(st, n) /\ st.req \in Requests
      BY <2>2, <2>3, <2>4 DEF r, total
    <3>2. QED
      BY <1>2, <3>1, RestIsSeq DEF total, r
  <2>6. InStep(World', moved', c)
    <3>1. chan'[c].packets = Rest(st, n - 1) /\ Len(chan'[c].packets) = n - 1
      BY <1>3, <1>9, <2>5 DEF new
    <3>2. chan'[c].irq # "error" /\ (chan'[c].irq = "tc" => chan'[c].packets = <<>>)
      BY <1>3, <1>9, EmptySeq DEF new
    <3>3. ASSUME r.chunk % MaxDmaSize # 0
          PROVE  /\ Len(moved'[c]) = Before(st) + Within(st, n - 1)
                 /\ \A k \in 1..Len(moved'[c]) : moved'[c][k] = Byte(r, k)
      <4> DEFINE off == (total - n) * MaxDmaSize
      <4>1. /\ p.from = st.offset + off
            /\ n = 1 => off + p.size = r.chunk
            /\ n # 1 => off + p.size = (total - (n - 1)) * MaxDmaSize /\ off + p.size <= r.chunk
        <5> HIDE DEF p, total, n, r, off
        <5>1. n \in 1..NumLinkedLists(r.chunk)
          BY <2>4 DEF total
        <5>2. LET q == Packets(st.offset, r.chunk)[total - n + 1]
              IN  /\ q.from = st.offset + off
                  /\ n = 1 => off + q.size = r.chunk
                  /\ n # 1 => off + q.size = (total - (n - 1)) * MaxDmaSize
                                /\ (total - (n - 1)) * MaxDmaSize <= r.chunk
          BY <2>3, <3>3, <5>1, NextPacket DEF total, off
        <5>3. QED
          BY <2>5, <5>2
      <4>2. off \in Nat
        BY <2>3, <2>4, SpiDmaAssumption
      <4>3. Within(st, n - 1) = off + p.size
        <5>1. CASE n = 1
          BY <4>1, <5>1 DEF Within
        <5>2. CASE n # 1
          <6>1. n - 1 # 0
            BY <2>4, <5>2
          <6>2. QED
            BY <4>1, <5>2, <6>1 DEF Within
        <5>3. QED
          BY <5>1, <5>2
      <4>4. Len(moved[c]) = Before(st) + off /\ \A k \in 1..Len(moved[c]) : moved[c][k] = Byte(r, k)
        <5>1. Within(st, n) = off
          BY <2>4 DEF Within
        <5>2. QED
          BY <1>2, <2>2, <3>3, <5>1 DEF InStep
      <4>5. off + p.size <= r.chunk
        BY <2>3, <4>1
      <4>6. st.offset + st.req.chunk <= st.req.len
        BY <2>2 DEF Aligned
      <4>7. moved'[c] = moved[c] \o BytesOf(p) /\ moved[c] \in Seq(Nat)
        BY <1>5, <1>6
      <4> DEFINE b == moved[c]
                 m == moved'[c]
      <4>8. /\ Len(m) = Before(st) + (off + p.size)
            /\ \A k \in 1..Len(m) : m[k] = Byte(st.req, k)
        <5>1. /\ p \in PacketType /\ p.from = st.offset + off /\ off + p.size <= st.req.chunk
              /\ off \in Nat /\ b \in Seq(Nat)
              /\ m = b \o BytesOf(p)
              /\ st \in Status /\ st.req \in Requests /\ st.repeat \in 1..st.req.repeat
          BY <1>2, <1>3, <2>2, <4>1, <4>2, <4>4, <4>5, <4>7
        <5>2. Right(st, b, off)
          BY <4>4 DEF Right
        <5> HIDE DEF off, p, b, m, r, total
        <5>3. Right(st, m, off + p.size)
          BY <4>6, <5>1, <5>2, BytesAppended
        <5>4. QED
          BY <5>3 DEF Right
      <4>9. Before(st) \in Int /\ p.size \in Nat
        <5>1. /\ st.req.len \in Nat /\ st.req.repeat \in Nat
              /\ st.repeat \in Nat /\ st.offset \in Nat
          BY <1>2, <2>2, SpiDmaAssumption DEF Status
        <5>2. Before(st) \in Int
          BY <5>1, BeforeIsNumber
        <5>3. p.size \in Nat
          BY <1>3, <2>3 DEF p, PacketType
        <5>4. QED
          BY <5>2, <5>3
      <4>10. QED
        BY <4>2, <4>3, <4>8, <4>9
    <3>4. n - 1 \in 0..total
      BY <2>3, <2>4
    <3> HIDE DEF n, total, left
    <3>5. QED
      BY <1>10, <3>1, <3>2, <3>3, <3>4 DEF InStep, total
  <2>7. \A d \in Channels : IF d \in Used(st) THEN InStep(World', moved', d) ELSE chan'[d] = Off
    <3> TAKE d \in Channels
    <3>1. CASE d = c
      BY <2>1, <2>6, <3>1
    <3>2. CASE d # c
      <4>1. chan'[d] = chan[d] /\ moved'[d] = moved[d]
        BY <1>9, <3>2
      <4>2. IF d \in Used(st) THEN InStep(World, moved, d) ELSE chan[d] = Off
        BY <1>2, <1>14 DEF UnderWay
      <4>3. QED
        BY <1>2, <1>10, <4>1, <4>2 DEF InStep
    <3>3. QED
      BY <3>1, <3>2
  <2>8. \A d \in Channels : Counted(World', d) = Counted(World, d)
    <3>1. chan'[c] # Off
      <4>1. Len(left) # 1 => Tail(left) # <<>>
        BY <1>1, <1>3, LastOne
      <4>2. QED
        BY <1>9, <4>1 DEF new, Off
    <3>2. QED
      BY <1>2, <1>9, <1>10, <1>12, <3>1 DEF Counted
  <2>9. UnderWay(World', moved')
    BY <1>2, <1>10, <1>14, <2>7, <2>8 DEF UnderWay, Channels
  <2>10. QED
    BY <1>1, <1>11, <1>14, <2>9 DEF Sound
<1>15. QED
  <2>1. ~Idle(World) /\ ~Ended(World, moved)
    BY <1>2, <1>12 DEF Idle, Ended
  <2>2. QED
    BY <1>13, <1>14, <2>1 DEF Sound

(* A transfer of one chunk and one channel ends, with or without an error. *)
LEMMA CompleteAlone ==
  ASSUME FaultsAlone, NEW w \in Worlds, w.st.req \in Requests, w.st.req.faults,
         w.st.offset = 0, w.st.repeat = 1, w.st.length \in {0, w.st.req.len}
  PROVE  /\ Complete(w) \in Worlds
         /\ Complete(w).chan = w.chan /\ Complete(w).cs = "high" /\ Complete(w).event = TRUE
         /\ Complete(w).st.req = w.st.req /\ Complete(w).st.held = w.st.held
         /\ Complete(w).st.length = w.st.length /\ Complete(w).st.offset = 0
         /\ Complete(w).st.repeat = 0 /\ Complete(w).st.done = w.st.done
         /\ Complete(w).st.error = w.st.error
<1> DEFINE next == w.st.offset + w.st.req.chunk
           wraps == next + w.st.req.chunk > w.st.length
           again == (w.st.repeat - 1) % RepeatWidth
           s == [w.st EXCEPT !.offset = IF wraps THEN 0 ELSE next,
                             !.repeat = IF wraps THEN again ELSE @]
           after == [w EXCEPT !.cs = "high", !.st = s]
           z == [w.st EXCEPT !.repeat = 0]
           ended == [st |-> z, chan |-> w.chan, cs |-> "high", event |-> w.event]
           n == [ended EXCEPT !.event = TRUE]
<1>1. /\ w.st \in Status /\ w.chan \in [Channels -> Channel]
      /\ w.st.req.chunk \in Nat \ {0} /\ w.st.req.len = w.st.req.chunk
      /\ w.st.req.repeat \in 1..(RepeatWidth - 1) /\ RepeatWidth \in Nat
  BY SpiDmaAssumption DEF FaultsAlone, Worlds
<1>2. wraps = TRUE
  BY <1>1
<1>3. again = 0
  <2>1. 0 \in 0..(RepeatWidth - 1)
    BY <1>1
  <2>2. 0 % RepeatWidth = 0
    BY <1>1, <2>1, SmallRest
  <2>3. QED
    BY <2>2
<1>4. s = z
  <2> DEFINE y == [w.st EXCEPT !.offset = 0, !.repeat = 0]
  <2>1. s = y
    <3> HIDE DEF wraps, again
    <3>1. QED
      BY <1>2, <1>3
  <2>2. y = z
    BY <1>1 DEF Status
  <2>3. QED
    BY <2>1, <2>2
<1>5. /\ z \in Status /\ z.req = w.st.req /\ z.held = w.st.held /\ z.length = w.st.length
      /\ z.offset = 0 /\ z.repeat = 0 /\ z.done = w.st.done /\ z.error = w.st.error
  BY <1>1 DEF Status
<1>6. [after EXCEPT !.event = TRUE] = n
  <2> DEFINE before == [w EXCEPT !.cs = "high", !.st = z]
  <2>1. after = before
    BY <1>4, Zenon
  <2> DEFINE high == [w EXCEPT !.cs = "high"]
  <2> HIDE DEF z, after
  <2>2. high = [st |-> w.st, chan |-> w.chan, cs |-> "high", event |-> w.event]
    BY DEF Worlds
  <2>3. before = [high EXCEPT !.st = z]
    BY Zenon
  <2> HIDE DEF high, before
  <2>4. before = ended
    BY <2>2, <2>3
  <2>5. [after EXCEPT !.event = TRUE] = [ended EXCEPT !.event = TRUE]
    BY <2>1, <2>4
  <2> HIDE DEF ended
  <2>6. QED
    BY <2>5
<1>7. Complete(w) = n
  <2>1. Complete(w) = IF wraps /\ again = 0 THEN [after EXCEPT !.event = TRUE] ELSE Step(after)
    BY Zenon DEF Complete
  <2> HIDE DEF wraps, again, after, n
  <2>2. QED
    BY <1>2, <1>3, <1>6, <2>1
<1>8. n \in Worlds /\ n.chan = w.chan /\ n.cs = "high" /\ n.event = TRUE /\ n.st = z
  <2> HIDE DEF z
  <2>1. /\ ended \in Worlds /\ ended.st = z /\ ended.chan = w.chan /\ ended.cs = "high"
    BY <1>1, <1>5 DEF Worlds
  <2> HIDE DEF ended
  <2>2. QED
    BY <2>1 DEF Worlds
<1> HIDE DEF n, z, ended
<1>9. QED
  BY <1>5, <1>7, <1>8

LEMMA CounterAlone ==
  ASSUME FaultsAlone, NEW w \in Worlds, NEW failing \in BOOLEAN, Faulty(w, failing),
         w.chan["tx"].irq # "none"
  PROVE  /\ DmaCounter(w, "tx") \in Worlds
         /\ Faulty(DmaCounter(w, "tx"), failing \/ w.chan["tx"].irq = "error")
         /\ DmaCounter(w, "tx").st.held = w.st.held
<1> DEFINE clear == [w EXCEPT !.chan["tx"].irq = "none"]
           ch == [w.chan EXCEPT !["tx"] = Off]
           quiet == [st |-> w.st, chan |-> ch, cs |-> w.cs, event |-> w.event]
<1>1. /\ w.st \in Status /\ w.st.req \in Requests /\ w.st.req.faults
      /\ w.chan \in [Channels -> Channel] /\ w.cs \in {"low", "high"} /\ w.event \in BOOLEAN
      /\ "tx" \in Channels /\ "rx" \in Channels /\ w.chan["tx"].packets = <<>>
      /\ w.chan["tx"].irq \in {"tc", "error"}
      /\ w.st.offset = 0 /\ w.chan["rx"] = Off
  BY DEF Worlds, Faulty, Channels, Channel
<1>2. /\ w.st.repeat = 1 /\ w.st.done = 0 /\ w.st.error = 0 /\ ~failing
      /\ w.st.length \in {0, w.st.req.len}
  BY DEF Faulty, Off
<1>3. ch \in [Channels -> Channel] /\ ch["tx"] = Off /\ ch["rx"] = Off
  BY <1>1 DEF Channel, Off, Channels, PacketType
<1>4. clear = quiet
  <2>1. [w.chan["tx"] EXCEPT !.irq = "none"] = Off
    <3>1. w.chan["tx"] \in Channel
      BY <1>1
    <3>2. QED
      BY <1>1, <3>1 DEF Channel, Off
  <2>2. [w.chan EXCEPT !["tx"].irq = "none"] = ch
    BY <1>1, <2>1
  <2> HIDE DEF ch
  <2>3. clear = [w EXCEPT !.chan = [w.chan EXCEPT !["tx"].irq = "none"]]
    BY Zenon
  <2>4. clear = [w EXCEPT !.chan = ch]
    BY <2>2, <2>3
  <2> HIDE DEF clear
  <2>5. QED
    BY <2>4 DEF Worlds
<1>5. CASE w.chan["tx"].irq = "error"
  <2> DEFINE s == [w.st EXCEPT !.error = w.st.error + 1]
             n == [st |-> s, chan |-> ch, cs |-> w.cs, event |-> w.event]
  <2>1. /\ s \in Status /\ s.req = w.st.req /\ s.held = w.st.held /\ s.length = w.st.length
        /\ s.offset = 0 /\ s.repeat = 1 /\ s.done = 0 /\ s.error = 1
    BY <1>1, <1>2 DEF Status
  <2>2. DmaCounter(w, "tx") = Complete([clear EXCEPT !.st = Failed(@)])
    BY <1>5, Zenon DEF DmaCounter
  <2>3. [quiet EXCEPT !.st = Failed(@)] = n
    <3>1. Failed(quiet.st) = s
      BY DEF Failed
    <3> HIDE DEF ch, s
    <3>2. QED
      BY <3>1
  <2>4. [clear EXCEPT !.st = Failed(@)] = n
    BY <1>4, <2>3, Zenon
  <2>5. DmaCounter(w, "tx") = Complete(n)
    BY <2>2, <2>4, Zenon
  <2> HIDE DEF s, ch
  <2>6. n \in Worlds /\ n.st = s /\ n.chan = ch
    BY <1>1, <1>3, <2>1 DEF Worlds
  <2> HIDE DEF n
  <2> DEFINE m == Complete(n)
  <2>7. /\ m \in Worlds
        /\ m.chan = ch /\ m.cs = "high" /\ m.event = TRUE
        /\ m.st.req = w.st.req /\ m.st.offset = 0 /\ m.st.held = w.st.held
        /\ m.st.repeat = 0 /\ m.st.done = 0 /\ m.st.error = 1
    BY <1>1, <1>2, <2>1, <2>6, CompleteAlone
  <2> HIDE DEF m
  <2>8. Faulty(m, TRUE)
    BY <1>1, <1>3, <2>7 DEF Faulty, Off
  <2>9. QED
    BY <1>5, <2>5, <2>7, <2>8 DEF m
<1>6. CASE w.chan["tx"].irq = "tc"
  <2> DEFINE s == [w.st EXCEPT !.done = w.st.done + 1]
             n == [st |-> s, chan |-> ch, cs |-> w.cs, event |-> w.event]
             counted == [clear EXCEPT !.st.done = @ + 1]
  <2>1. /\ s \in Status /\ s.req = w.st.req /\ s.held = w.st.held /\ s.length = w.st.length
        /\ s.offset = 0 /\ s.repeat = 1 /\ s.done = 1 /\ s.error = 0
    BY <1>1, <1>2 DEF Status
  <2>2. DmaCounter(w, "tx") = IF counted.st.done = Expected(w.st) THEN Complete(counted) ELSE counted
    <3>1. w.chan["tx"].irq # "none" /\ w.chan["tx"].irq # "error"
      BY <1>6
    <3>2. QED
      BY <3>1, Zenon DEF DmaCounter
  <2>3. counted = n
    <3>1. counted = [quiet EXCEPT !.st = [quiet.st EXCEPT !.done = quiet.st.done + 1]]
      BY <1>4, Zenon
    <3>2. [quiet.st EXCEPT !.done = quiet.st.done + 1] = s
      OBVIOUS
    <3>3. counted = [quiet EXCEPT !.st = s]
      BY <3>1, <3>2
    <3> HIDE DEF ch, s, counted
    <3>4. QED
      BY <3>3
  <2>4. DmaCounter(w, "tx") = IF n.st.done = Expected(w.st) THEN Complete(n) ELSE n
    BY <2>2, <2>3, Zenon
  <2> HIDE DEF s, ch
  <2>5. n \in Worlds /\ n.st = s /\ n.chan = ch
    BY <1>1, <1>3, <2>1 DEF Worlds
  <2>6. Expected(w.st) = 1
    BY <1>1 DEF Expected, FaultsAlone
  <2> HIDE DEF n
  <2> DEFINE m == Complete(n)
  <2>7. DmaCounter(w, "tx") = m
    BY <2>1, <2>4, <2>5, <2>6
  <2>8. /\ m \in Worlds
        /\ m.chan = ch /\ m.cs = "high" /\ m.event = TRUE
        /\ m.st.req = w.st.req /\ m.st.offset = 0 /\ m.st.held = w.st.held
        /\ m.st.repeat = 0 /\ m.st.done = 1 /\ m.st.error = 0
    BY <1>1, <1>2, <2>1, <2>5, CompleteAlone
  <2> HIDE DEF m
  <2>9. Faulty(m, FALSE)
    BY <1>1, <1>3, <2>8 DEF Faulty, Off
  <2>10. QED
    BY <1>2, <1>6, <2>7, <2>8, <2>9
<1>7. QED
  BY <1>1, <1>5, <1>6

LEMMA DmaErrorStep ==
  ASSUME Sound, NEW c \in Channels, DmaError(c)
  PROVE  Sound'
<1> DEFINE new == [packets |-> <<>>, irq |-> "error"]
<1>1. /\ DmaTypes /\ chan[c].packets # <<>> /\ chan' = [chan EXCEPT ![c] = new]
      /\ st.req # NoRequest /\ st.req.faults
      /\ UNCHANGED <<st, cs, event, main, moved, errored, report>>
  BY DEF Sound, DmaError
<1>2. /\ st \in Status /\ chan \in [Channels -> Channel] /\ cs \in {"low", "high"} /\ event \in BOOLEAN
      /\ World.st = st /\ World.chan = chan /\ World.cs = cs /\ World.event = event
  BY <1>1, WorldType
<1>3. new \in Channel /\ new.packets = <<>>
  BY DEF Channel
<1> HIDE DEF new
<1>4. /\ chan' \in [Channels -> Channel] /\ chan'[c] = new
      /\ \A d \in Channels : d # c => chan'[d] = chan[d]
  BY <1>1, <1>2, <1>3
<1>5. /\ World' \in Worlds /\ World'.st = st /\ World'.chan = chan' /\ World'.cs = cs
      /\ World'.event = event
  <2>1. World' = [st |-> st, chan |-> chan', cs |-> cs, event |-> event]
    BY <1>1 DEF World
  <2>2. QED
    BY <1>2, <1>4, <2>1 DEF Worlds
<1>6. DmaTypes' /\ Reported'
  BY <1>1, <1>5 DEF DmaTypes, Sound, Reported
<1>7. Faulty(World, errored)
  BY <1>1, <1>2 DEF Sound, Idle, UnderWay, Ended, Free
<1>8. chan[c] # Off /\ c = "tx"
  BY <1>1, <1>2, <1>7 DEF Off, Faulty, Channels
<1>9. chan'["rx"] = Off /\ chan'["tx"].packets = <<>>
  BY <1>2, <1>3, <1>4, <1>7, <1>8 DEF Faulty, Channels
<1>10. World.st.repeat # 0
  BY <1>2, <1>7, <1>8 DEF Faulty
<1>11. Faulty(World', errored)
  BY <1>2, <1>5, <1>7, <1>9, <1>10 DEF Faulty
<1>12. QED
  BY <1>1, <1>6, <1>11 DEF Sound

LEMMA SpiIrqStep ==
  ASSUME FaultsAlone, Sound, SpiIrq
  PROVE  /\ Sound'
         /\ st'.held = st.held \/ UnderWay(World', moved') \/ Ended(World', moved')
<1> DEFINE tx == DmaCounter(World, "tx")
           both == DmaCounter(tx, "rx")
<1>1. /\ DmaTypes /\ \E c \in Channels : chan[c].irq # "none"
      /\ Become(both) /\ errored' = (errored \/ \E c \in Channels : chan[c].irq = "error")
      /\ UNCHANGED <<main, moved, report>>
  BY DEF Sound, SpiIrq
<1>2. /\ st \in Status /\ chan \in [Channels -> Channel]
      /\ World.st = st /\ World.chan = chan /\ World.event = event
      /\ "tx" \in Channels /\ "rx" \in Channels
      /\ World \in Worlds /\ moved \in [Channels -> Seq(Nat)] /\ errored \in BOOLEAN
  BY <1>1, WorldType DEF Channels, DmaTypes
<1>3. ASSUME NEW w \in Worlds, w.chan["rx"] = Off
      PROVE  DmaCounter(w, "rx") = w
  <2>1. w.chan["rx"].irq = "none"
    BY <1>3 DEF Off
  <2>2. QED
    BY <2>1, Zenon DEF DmaCounter
<1>4. ASSUME both \in Worlds PROVE World' = both /\ (DmaTypes' <=> errored' \in BOOLEAN)
  <2>1. World' = both
    BY <1>1, <1>4, WorldAfter
  <2>2. QED
    BY <1>1, <1>4, <2>1 DEF DmaTypes
<1>5. CASE UnderWay(World, moved) /\ ~errored /\ main = "idle"
  <2>1. tx \in Worlds /\ (UnderWay(tx, moved) \/ Ended(tx, moved))
    BY <1>2, <1>5, CounterKeeps
  <2>2. both \in Worlds /\ (UnderWay(both, moved) \/ Ended(both, moved))
    <3> HIDE DEF tx
    <3>1. CASE UnderWay(tx, moved)
      BY <1>2, <2>1, <3>1, CounterKeeps
    <3>2. CASE Ended(tx, moved)
      <4>1. tx.chan["rx"] = Off
        BY <1>2, <3>2 DEF Ended
      <4>2. both = tx
        BY <1>3, <2>1, <4>1
      <4>3. QED
        BY <2>1, <3>2, <4>2
    <3>3. QED
      BY <2>1, <3>1, <3>2
  <2>3. \A c \in Channels : chan[c].irq # "error"
    BY <1>2, <1>5 DEF UnderWay, InStep, Off
  <2>4. errored' = FALSE
    BY <1>1, <1>5, <2>3
  <2> HIDE DEF tx, both
  <2>5. QED
    BY <1>1, <1>4, <1>5, <2>2, <2>4 DEF Sound, Reported
<1>6. CASE Faulty(World, errored)
  <2>1. chan["rx"].irq = "none" /\ chan["tx"].irq # "none"
    BY <1>1, <1>2, <1>6 DEF Faulty, Off, Channels
  <2>2. /\ tx \in Worlds /\ Faulty(tx, errored \/ chan["tx"].irq = "error")
        /\ tx.st.held = st.held
    BY <1>2, <1>6, <2>1, CounterAlone
  <2>3. both = tx
    <3> HIDE DEF tx
    <3>1. tx.chan["rx"] = Off
      BY <2>2 DEF Faulty
    <3>2. QED
      BY <1>3, <2>2, <3>1
  <2>4. errored' = (errored \/ chan["tx"].irq = "error")
    BY <1>1, <2>1 DEF Channels
  <2> HIDE DEF tx, both
  <2>5. Faulty(World', errored') /\ DmaTypes' /\ World'.st.held = st.held
    BY <1>2, <1>4, <2>2, <2>3, <2>4
  <2>6. World'.st = st'
    BY DEF World
  <2>7. QED
    BY <1>1, <2>5, <2>6 DEF Sound, Reported
<1>7. QED
  <2>1. ~Idle(World) /\ ~Ended(World, moved)
    BY <1>1, <1>2 DEF Idle, Ended, Off
  <2>2. QED
    BY <1>5, <1>6, <2>1 DEF Sound

LEMMA AsyncCallbackStep ==
  ASSUME Sound, AsyncCallback
  PROVE  Sound'
<1>1. /\ DmaTypes /\ main = "idle" /\ event /\ event' = FALSE
      /\ UNCHANGED <<st, chan, cs, moved, errored>>
      /\ \/ st.held /\ report' = [error |-> st.error, failed |-> errored] /\ main' = "cleanup"
         \/ report' = report /\ main' = main
  BY DEF Sound, AsyncCallback
<1>2. /\ st \in Status /\ chan \in [Channels -> Channel] /\ cs \in {"low", "high"}
      /\ World.st = st /\ World.chan = chan /\ World.cs = cs /\ World.event = event
  BY <1>1, WorldType
<1>3. /\ World' \in Worlds /\ World'.st = st /\ World'.chan = chan /\ World'.cs = cs
      /\ World'.event = FALSE
  <2>1. World' = [st |-> st, chan |-> chan, cs |-> cs, event |-> FALSE]
    BY <1>1 DEF World
  <2>2. QED
    BY <1>2, <2>1 DEF Worlds
<1>4. DmaTypes'
  BY <1>1, <1>3 DEF DmaTypes
<1>5. ~Idle(World) /\ ~UnderWay(World, moved)
  BY <1>1, <1>2 DEF Idle, UnderWay
<1>6. \/ Ended(World, moved) /\ Ended(World', moved') /\ ~errored /\ ~errored' /\ st.error = 0
      \/ Faulty(World, errored) /\ Faulty(World', errored') /\ (errored <=> st.error > 0)
  <2>1. CASE Ended(World, moved) /\ ~errored
    BY <1>1, <1>2, <1>3, <2>1 DEF Ended
  <2>2. CASE Faulty(World, errored)
    BY <1>1, <1>2, <1>3, <2>2 DEF Faulty
  <2>3. QED
    BY <1>5, <2>1, <2>2 DEF Sound
<1>7. Reported'
  <2>1. errored <=> st.error > 0
    BY <1>6
  <2>2. CASE report' = report
    BY <2>2 DEF Sound, Reported
  <2>3. CASE report' = [error |-> st.error, failed |-> errored]
    BY <2>1, <2>3 DEF Reported
  <2>4. QED
    BY <1>1, <2>2, <2>3
<1>8. QED
  BY <1>1, <1>4, <1>6, <1>7 DEF Sound

LEMMA ScriptEndsStep ==
  ASSUME Sound, ScriptEnds
  PROVE  Sound'
<1>1. /\ DmaTypes /\ st.held /\ st.req.faults /\ main' = "cleanup"
      /\ UNCHANGED <<st, chan, cs, event, moved, errored, report>>
  BY DEF Sound, ScriptEnds
<1>2. World' = World /\ World.st = st
  BY <1>1 DEF World
<1>3. DmaTypes' /\ Reported'
  BY <1>1, <1>2 DEF DmaTypes, Sound, Reported
<1>4. Faulty(World, errored)
  BY <1>1, <1>2 DEF Sound, Idle, UnderWay, Ended, Free
<1>5. QED
  BY <1>1, <1>2, <1>3, <1>4 DEF Sound

(* The buffers are let go of only when the transfer has ended or may fail. *)
LEMMA CleanupFreeStep ==
  ASSUME Sound, CleanupFree
  PROVE  Sound'
<1>1. /\ DmaTypes /\ main = "cleanup" /\ st' = Release /\ main' = "cancel"
      /\ UNCHANGED <<chan, cs, event, moved, errored, report>>
  BY DEF Sound, CleanupFree
<1>2. /\ st \in Status /\ chan \in [Channels -> Channel] /\ cs \in {"low", "high"} /\ event \in BOOLEAN
      /\ World.st = st /\ World.chan = chan /\ World.cs = cs /\ World.event = event
  BY <1>1, WorldType
<1>3. /\ st' \in Status /\ st'.req = st.req /\ ~st'.held /\ st'.length = 0
      /\ st'.offset = st.offset /\ st'.repeat = st.repeat /\ st'.done = st.done
      /\ st'.error = st.error
  BY <1>1, <1>2 DEF Release, Status
<1>4. /\ World' \in Worlds /\ World'.st = st' /\ World'.chan = chan /\ World'.cs = cs
      /\ World'.event = event
  <2>1. World' = [st |-> st', chan |-> chan, cs |-> cs, event |-> event]
    BY <1>1 DEF World
  <2>2. QED
    BY <1>2, <1>3, <2>1 DEF Worlds
<1>5. DmaTypes' /\ Reported'
  BY <1>1, <1>4 DEF DmaTypes, Sound, Reported
<1>6. CASE Ended(World, moved) /\ ~errored /\ (main # "idle" => ~event)
  <2>1. Used(st') = Used(st)
    BY <1>3 DEF Used
  <2>2. Ended(World', moved')
    BY <1>1, <1>2, <1>3, <1>4, <1>6, <2>1 DEF Ended
  <2>3. QED
    BY <1>1, <1>5, <1>6, <2>2 DEF Sound
<1>7. CASE Faulty(World, errored)
  <2>1. Faulty(World', errored')
    BY <1>1, <1>2, <1>3, <1>4, <1>7 DEF Faulty
  <2>2. QED
    BY <1>5, <2>1 DEF Sound
<1>8. QED
  BY <1>1, <1>6, <1>7 DEF Sound

LEMMA CleanupCancelStep ==
  ASSUME Sound, CleanupCancel
  PROVE  Sound'
<1>1. /\ DmaTypes /\ main = "cancel" /\ main' = "idle"
      /\ chan' = [c \in Channels |-> [chan[c] EXCEPT !.packets = <<>>]]
      /\ UNCHANGED <<st, cs, event, moved, errored, report>>
  BY DEF Sound, CleanupCancel
<1>2. /\ st \in Status /\ chan \in [Channels -> Channel] /\ cs \in {"low", "high"} /\ event \in BOOLEAN
      /\ World.st = st /\ World.chan = chan /\ World.cs = cs /\ World.event = event
  BY <1>1, WorldType
<1>3. /\ chan' \in [Channels -> Channel]
      /\ \A c \in Channels : chan'[c].packets = <<>> /\ chan'[c].irq = chan[c].irq
                             /\ (chan[c] = Off => chan'[c] = Off)
  <2>1. ASSUME NEW c \in Channels
        PROVE  /\ chan'[c] \in Channel /\ chan'[c].packets = <<>> /\ chan'[c].irq = chan[c].irq
               /\ (chan[c] = Off => chan'[c] = Off)
    <3> DEFINE new == [packets |-> <<>>, irq |-> chan[c].irq]
    <3>1. chan[c] \in Channel
      BY <1>2
    <3>2. [chan[c] EXCEPT !.packets = <<>>] = new
      BY <3>1 DEF Channel
    <3>3. new \in Channel /\ (chan[c] = Off => new = Off)
      BY <3>1 DEF Channel, Off
    <3>4. QED
      BY <1>1, <3>2, <3>3
  <2>2. chan' = [c \in Channels |-> chan'[c]]
    BY <1>1
  <2>3. QED
    BY <2>1, <2>2
<1>4. /\ World' \in Worlds /\ World'.st = st /\ World'.chan = chan' /\ World'.cs = cs
      /\ World'.event = event
  <2>1. World' = [st |-> st, chan |-> chan', cs |-> cs, event |-> event]
    BY <1>1 DEF World
  <2>2. QED
    BY <1>2, <1>3, <2>1 DEF Worlds
<1>5. DmaTypes' /\ Reported'
  BY <1>1, <1>4 DEF DmaTypes, Sound, Reported
<1>6. CASE Ended(World, moved) /\ ~errored
  <2>1. Ended(World', moved')
    BY <1>1, <1>2, <1>3, <1>4, <1>6 DEF Ended
  <2>2. QED
    BY <1>1, <1>5, <1>6, <2>1 DEF Sound
<1>7. CASE Faulty(World, errored)
  <2>1. Faulty(World', errored')
    BY <1>1, <1>2, <1>3, <1>4, <1>7 DEF Faulty, Channels
  <2>2. QED
    BY <1>5, <2>1 DEF Sound
<1>8. QED
  BY <1>1, <1>6, <1>7 DEF Sound

(* Only an end of a script leaves a completion behind.                     *)
LEMMA LeftoversStep ==
  ASSUME NoEmptyBuffer, FaultsAlone, Sound, Sound', Leftovers, past' = past, past = "clean",
         \/ \E c \in Channels : MovePacket(c) \/ DmaError(c)
         \/ SpiIrq \/ AsyncCallback \/ CleanupFree \/ CleanupCancel
  PROVE  Leftovers'
<1> USE DEF Leftovers
<1>1. /\ st \in Status /\ chan \in [Channels -> Channel] /\ event \in BOOLEAN
      /\ World.st = st /\ World.chan = chan /\ World.event = event
      /\ World'.st = st' /\ World'.chan = chan' /\ World'.event = event'
  BY WorldType DEF Sound, World
<1>2. ASSUME NEW c \in Channels, MovePacket(c) \/ DmaError(c) PROVE Leftovers'
  <2>1. chan[c].packets # <<>> /\ UNCHANGED <<st, main>>
    BY <1>2 DEF MovePacket, DmaError
  <2>2. chan[c] # Off
    BY <2>1 DEF Off
  <2>3. QED
    BY <2>1, <2>2
<1>3. CASE SpiIrq
  <2>1. PICK c \in Channels : chan[c].irq # "none"
    BY <1>3 DEF SpiIrq
  <2>2. chan[c] # Off /\ main' = main
    BY <1>3, <2>1 DEF SpiIrq, Off
  <2>3. st.held /\ main = "idle"
    BY <2>2
  <2>4. st'.held = st.held \/ UnderWay(World', moved') \/ Ended(World', moved')
    BY <1>3, SpiIrqStep
  <2>5. st'.held \/ (~event' /\ \A d \in Channels : chan'[d] = Off)
    BY <1>1, <2>3, <2>4 DEF UnderWay, Ended
  <2>6. QED
    BY <2>2, <2>3, <2>5
<1>4. CASE AsyncCallback
  <2>1. event /\ event' = FALSE /\ chan' = chan
    BY <1>4 DEF AsyncCallback
  <2>2. \A c \in Channels : chan[c] = Off
    BY <1>1, <2>1 DEF Sound, Idle, UnderWay, Ended, Faulty, Channels
  <2>3. QED
    BY <2>1, <2>2
<1>5. CASE CleanupFree
  BY <1>5 DEF CleanupFree
<1>6. CASE CleanupCancel
  <2>1. main = "cancel" /\ event' = event
        /\ chan' = [c \in Channels |-> [chan[c] EXCEPT !.packets = <<>>]]
    BY <1>6 DEF CleanupCancel
  <2>2. \A c \in Channels : chan'[c] = [Off EXCEPT !.packets = <<>>]
    BY <2>1
  <2>3. [Off EXCEPT !.packets = <<>>] = Off
    BY DEF Off
  <2>4. QED
    BY <2>1, <2>2, <2>3
<1>7. QED
  BY <1>2, <1>3, <1>4, <1>5, <1>6

LEMMA StepInv ==
  ASSUME NoEmptyBuffer, FaultsAlone, IInv, [DmaNext]_dmaVars
  PROVE  IInv'
<1> USE DEF IInv, Sane
<1>1. ASSUME NEW r \in Requests, Transfer(r) PROVE IInv'
  <2>1. ~st.held
        /\ past' = IF past = "stale" \/ (past = "abandoned" /\ event) THEN "stale" ELSE "clean"
    BY <1>1 DEF Transfer
  <2>2. CASE past' = "stale"
    BY <2>2
  <2>3. CASE past' # "stale"
    <3>1. Sound /\ ~event /\ past' = "clean"
      BY <2>1, <2>3 DEF Leftovers
    <3>2. Sound' /\ st'.held
      BY <1>1, <3>1, TransferStep
    <3>3. main' = "idle"
      BY <1>1 DEF Transfer
    <3>4. QED
      BY <3>1, <3>2, <3>3 DEF Leftovers
  <2>4. QED
    BY <2>2, <2>3
<1>2. CASE ScriptEnds
  <2>1. past' = IF past = "stale" THEN "stale" ELSE "abandoned"
    BY <1>2 DEF ScriptEnds
  <2>2. Sane => Sound'
    BY <1>2, ScriptEndsStep
  <2>3. QED
    BY <2>1, <2>2 DEF Leftovers
<1>3. ASSUME \/ \E c \in Channels : MovePacket(c) \/ DmaError(c)
             \/ SpiIrq \/ AsyncCallback \/ CleanupFree \/ CleanupCancel
      PROVE  IInv'
  <2>1. past' = past
    BY <1>3 DEF MovePacket, DmaError, SpiIrq, AsyncCallback, CleanupFree, CleanupCancel
  <2>2. Sound => Sound'
    BY <1>3, MovePacketStep, DmaErrorStep, SpiIrqStep, AsyncCallbackStep, CleanupFreeStep,
       CleanupCancelStep
  <2>3. CASE past = "clean"
    BY <1>3, <2>1, <2>2, <2>3, LeftoversStep
  <2>4. CASE past # "clean"
    BY <2>1, <2>2, <2>4 DEF Leftovers
  <2>5. QED
    BY <2>3, <2>4
<1>4. CASE UNCHANGED dmaVars
  <2>1. World' = World /\ UNCHANGED <<st, chan, moved, main, errored, report, event, past>>
    BY <1>4 DEF dmaVars, World
  <2>2. Sound => Sound'
    BY <2>1 DEF Sound, DmaTypes, Reported
  <2>3. QED
    BY <2>1, <2>2 DEF Leftovers
<1>5. QED
  BY <1>1, <1>2, <1>3, <1>4 DEF DmaNext

-----------------------------------------------------------------------------
(* What the invariant gives.                                               *)

LEMMA IInvWire == FaultsAlone /\ IInv => WireFramed
<1> SUFFICES ASSUME FaultsAlone, Sound PROVE DmaTypeOK /\ QuietAtEnd /\ ChipSelectFrames
  BY DEF IInv, WireFramed
<1>1. /\ st \in Status /\ chan \in [Channels -> Channel]
      /\ World.st = st /\ World.chan = chan /\ World.cs = cs /\ World.event = event
      /\ main \in {"idle", "cleanup", "cancel"}
  BY WorldType DEF Sound, DmaTypes
<1>2. st.req \in Requests => st.req.repeat \in 1..(RepeatWidth - 1)
  BY SpiDmaAssumption
<1>3. RepeatWidth \in Nat \ {0}
  BY SpiDmaAssumption
<1>4. CASE Idle(World)
  <2>1. Free.req = NoRequest /\ Free.held = FALSE /\ Free.done = 0 /\ Free.error = 0 /\ Free.repeat = 0
    BY DEF Free
  <2>2. st = Free /\ ~event /\ \A c \in Channels : chan[c] = Off
    BY <1>1, <1>4 DEF Idle
  <2>3. DmaTypeOK
    <3>1. \A c \in Channels : chan[c].irq \in {"none", "tc", "error"}
      BY <1>1 DEF Channel
    <3>2. st.req = NoRequest /\ st.held \in BOOLEAN
      BY <1>1, <2>1, <2>2 DEF Status
    <3>3. st.done \in 0..2 /\ st.error \in 0..2 /\ st.repeat \in 0..(RepeatWidth - 1)
      BY <1>3, <2>1, <2>2
    <3>4. main \in {"idle", "cleanup", "cancel"}
      BY <1>1
    <3>5. QED
      BY <3>1, <3>2, <3>3, <3>4, Zenon DEF DmaTypeOK
  <2>4. QED
    BY <2>1, <2>2, <2>3 DEF QuietAtEnd, ChipSelectFrames, Off
<1>5. CASE UnderWay(World, moved)
  <2>1. st.done \in 0..2 /\ st.error = 0 /\ st.repeat \in 1..st.req.repeat /\ st.req \in Requests
        /\ st.held /\ ~event /\ cs = "low"
    BY <1>1, <1>5 DEF UnderWay, Counted
  <2>2. QED
    BY <1>1, <1>2, <1>3, <2>1 DEF DmaTypeOK, QuietAtEnd, ChipSelectFrames, Channel, Status
<1>6. CASE Ended(World, moved)
  <2>1. /\ st.done \in 0..2 /\ st.error = 0 /\ st.repeat = 0 /\ st.req \in Requests
        /\ \A c \in Channels : chan[c] = Off
        /\ cs = "high"
    BY <1>1, <1>6 DEF Ended
  <2>2. QED
    BY <1>1, <1>2, <1>3, <2>1 DEF DmaTypeOK, QuietAtEnd, ChipSelectFrames, Channel, Status, Off
<1>7. CASE Faulty(World, errored)
  <2>1. /\ st.done \in 0..2 /\ st.error \in 0..2 /\ st.repeat \in 0..1 /\ st.req \in Requests
        /\ st.req.faults
        /\ chan["rx"].packets = <<>>
        /\ chan["tx"].packets # <<>> => cs = "low"
        /\ event => cs = "high"
    BY <1>1, <1>7 DEF Faulty, Off
  <2>2. st.held \in BOOLEAN /\ \A c \in Channels : chan[c].irq \in {"none", "tc", "error"}
    BY <1>1 DEF Status, Channel
  <2>3. DmaTypeOK
    BY <1>1, <1>2, <1>3, <2>1, <2>2 DEF DmaTypeOK
  <2>4. ChipSelectFrames
    BY <2>1 DEF ChipSelectFrames, Channels
  <2>5. QED
    BY <2>1, <2>3, <2>4, SpiDmaAssumption DEF QuietAtEnd
<1>8. QED
  BY <1>4, <1>5, <1>6, <1>7 DEF Sound

(* Chip select, channels and driver agree, whatever the requests are, so   *)
(* long as no buffer is empty and faults only befall single chunks; until  *)
(* a transfer meets the completion of one that a script abandoned.         *)
THEOREM TransferFramed == ASSUME NoEmptyBuffer, FaultsAlone PROVE DmaSpec => []WireFramed
<1>1. DmaInit => IInv
  BY DmaInitInv
<1>2. IInv /\ [DmaNext]_dmaVars => IInv'
  BY StepInv
<1>3. IInv => WireFramed
  BY IInvWire
<1>4. QED
  BY <1>1, <1>2, <1>3, PTL DEF DmaSpec

(* The script is told of an error exactly if there was one, also after     *)
(* abandoned transfers, until a stale completion is met.                   *)
THEOREM ErrorsReported == ASSUME NoEmptyBuffer, FaultsAlone PROVE DmaSpec => []ErrorReported
<1>1. DmaInit => IInv
  BY DmaInitInv
<1>2. IInv /\ [DmaNext]_dmaVars => IInv'
  BY StepInv
<1>3. IInv => ErrorReported
  BY DEF IInv, Sound, Reported, ErrorReported
<1>4. QED
  BY <1>1, <1>2, <1>3, PTL DEF DmaSpec

(* When the end is reported, all bytes of all chunks have moved, in order, *)
(* until a stale completion is met.                                        *)
THEOREM EveryByteMoved ==
  ASSUME NoEmptyBuffer, FaultsAlone, NoFullPacket
  PROVE  DmaSpec => []AllBytesMoved
<1>1. DmaInit => IInv
  BY DmaInitInv
<1>2. IInv /\ [DmaNext]_dmaVars => IInv'
  BY StepInv
<1>3. IInv => AllBytesMoved
  <2> SUFFICES ASSUME Sound, event, st.req # NoRequest, ~st.req.faults
               PROVE  \A c \in Used(st) : moved[c] = Wanted(st.req)
    BY DEF AllBytesMoved, IInv
  <2>1. World.st = st /\ World.event = event
    BY WorldType DEF Sound
  <2>2. Ended(World, moved)
    BY <2>1 DEF Sound, Idle, UnderWay, Faulty
  <2>3. st.req.chunk % MaxDmaSize # 0
    BY <2>1, <2>2 DEF Ended, NoFullPacket
  <2>4. QED
    BY <2>1, <2>2, <2>3 DEF Ended
<1>4. QED
  BY <1>1, <1>2, <1>3, PTL DEF DmaSpec
=============================================================================
