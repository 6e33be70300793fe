--------------------------- MODULE DispatchWorker ---------------------------
(***************************************************************************)
(* federation::DispatchWorker: the durable outbound transaction queue, its *)
(* worker thread, the per-destination backoff and circuit breaker, and the *)
(* replay of the persisted queue when a new process starts.                *)
(*                                                                         *)
(* Callers enqueue while the worker takes, attempts, settles or re-queues; *)
(* a step is one critical section of mutex_ or one blocking call.  The     *)
(* process may crash between any two steps, and any write to the           *)
(* persistent store may fail.                                              *)
(*                                                                         *)
(* Times are ticks from now: next_retry_ts and retry_after_ts are only     *)
(* ever compared with the clock, so what counts is how far ahead they are, *)
(* and Tick brings all of them one nearer.                                 *)
(***************************************************************************)
EXTENDS Integers, Sequences, FiniteSets, Functions

CONSTANTS
    Txns,            \* transactions, each with a fresh random transaction_id
    NoTxn,           \* no transaction is in flight
    Destinations,    \* server names
    DestOf,          \* the destination of each transaction
    MaxDepth,        \* config_.max_queue_depth; 0 disables the bound
    MaxRetries,      \* config_.max_retries
    BaseInterval,    \* base_retry_interval_ms, in ticks
    MaxInterval,     \* max_retry_interval_ms, in ticks
    MaxAttempt,      \* bound: ticks one attempt takes (its connect and total timeouts)
    MaxStarts,       \* bound: processes started, one after the other
    MaxFaults,       \* bound: writes to the persistent store that fail
    MaxRotations     \* bound: signing key rotations

ASSUME TxnsAssumption == NoTxn \notin Txns /\ DestOf \in [Txns -> Destinations]
ASSUME BoundsAssumption ==
    /\ MaxDepth \in Nat /\ MaxAttempt \in Nat /\ MaxStarts \in Nat
    /\ MaxFaults \in Nat /\ MaxRotations \in Nat
    /\ MaxRetries \in Nat \ {0} /\ BaseInterval \in Nat \ {0} /\ MaxInterval \in Nat

VARIABLES
    pc,          \* where the worker thread is; "down" when there is no process
    shutdown,    \* shutdown_requested_
    draining,    \* loop() has left its first while
    queue,       \* queue_, as transactions
    parked,      \* pending_replay_
    current,     \* the transaction run_once() has in hand
    memory,      \* retry_count and next_retry_ts of the transactions in memory
    pending,     \* summary_.pending
    age,         \* ticks since run_once() read the clock
    open,        \* destination_should_retry() was false at that reading
    destination, \* destinations_: consecutive_failures and retry_after_ts
    key,         \* config_.key_id: how many rotations it is from
    callKey,     \* the key the attempt in flight is signed with
    rows,        \* federation_transactions in the persistent store
    destRows,    \* federation_destinations in the persistent store
    status,      \* history: what has become of each transaction
    attempts,    \* history: requests sent for each transaction
    arrived,     \* history: transactions the remote server has received
    staleSends,  \* history: requests signed with a key that was already retired
    starts, faults

worker == <<pc, draining, current, age, open, callKey>>
process == <<shutdown, queue, parked, memory, pending>>
durable == <<rows, destRows, faults>>
history == <<status, attempts, arrived, staleSends>>
vars == <<pc, shutdown, draining, queue, parked, current, memory, pending, age, open,
          destination, key, callKey, rows, destRows, status, attempts, arrived,
          staleSends, starts, faults>>

Retry == [retries : Nat, wait : Nat]
NoRow == [retries |-> 0, wait |-> -1]
Backoff == [failures : Nat, wait : Nat]
Fresh == [failures |-> 0, wait |-> 0]

PcValues == {"down", "check", "take", "wait", "taken", "resolve", "sign", "send",
             "delivered", "failed", "opened", "retry", "park", "exited"}

Attempting == {"resolve", "sign", "send", "delivered", "failed", "opened", "retry", "park"}

Stored == {x \in Txns : rows[x] # NoRow}
InMemory == Range(queue) \cup Range(parked) \cup ({current} \ {NoTxn})
Ready == {i \in DOMAIN queue : memory[queue[i]].wait = 0}

(* The loop of compute_backoff(): doubling from base, capped at max. *)
ComputeBackoff(base, max, n) ==
    LET interval[k \in 0 .. n] ==
            IF k = 0 THEN base
            ELSE IF interval[k - 1] >= max \/ interval[k - 1] > max \div 2 THEN max
            ELSE interval[k - 1] * 2
    IN  interval[n]

(* How far ahead `now + compute_backoff(n)` is, for a `now` read age ticks ago. *)
BackoffAhead(n) ==
    LET ahead == ComputeBackoff(BaseInterval, MaxInterval, n) - age
    IN  IF ahead > 0 THEN ahead ELSE 0

Full(q) == MaxDepth # 0 /\ Len(q) >= MaxDepth

Init ==
    /\ pc = "down" /\ shutdown = FALSE /\ draining = FALSE
    /\ queue = <<>> /\ parked = <<>> /\ current = NoTxn
    /\ memory = [x \in Txns |-> [retries |-> 0, wait |-> 0]]
    /\ pending = 0 /\ age = 0 /\ open = FALSE
    /\ destination = [d \in Destinations |-> Fresh]
    /\ key = 0 /\ callKey = 0
    /\ rows = [x \in Txns |-> NoRow]
    /\ destRows = [d \in Destinations |-> Fresh]
    /\ status = [x \in Txns |-> "none"]
    /\ attempts = [x \in Txns |-> 0] /\ arrived = {} /\ staleSends = 0
    /\ starts = 0 /\ faults = 0
-----------------------------------------------------------------------------
(***************************************************************************)
(* The persistent store's helpers: the write happens, or fails and leaves  *)
(* everything as it was.                                                   *)
(***************************************************************************)
StoreFails == faults < MaxFaults /\ faults' = faults + 1

(* store_federation_transaction(): upsert by transaction_id *)
StoreTransaction(x, row) ==
    /\ rows' = [rows EXCEPT ![x] = row]
    /\ UNCHANGED faults

(* delete_federation_transaction() *)
DeleteTransaction(x) ==
    /\ rows' = [rows EXCEPT ![x] = NoRow]
    /\ UNCHANGED faults

-----------------------------------------------------------------------------
(***************************************************************************)
(* Callers: enqueue() of a well-formed transaction, under mutex_.          *)
(***************************************************************************)
EnqueueAccepts(x) ==
    /\ pc # "down" /\ status[x] = "none"
    /\ ~shutdown /\ ~Full(queue)
    /\ StoreTransaction(x, [retries |-> 0, wait |-> 0])
    /\ memory' = [memory EXCEPT ![x] = [retries |-> 0, wait |-> 0]]
    /\ queue' = Append(queue, x)
    /\ pending' = pending + 1
    /\ status' = [status EXCEPT ![x] = "owned"]
    /\ UNCHANGED <<worker, shutdown, parked, destination, key, destRows,
                   attempts, arrived, staleSends, starts>>

(* enqueue() returns false: shutting down, at the depth limit, or the row  *)
(* could not be written.                                                   *)
EnqueueRefuses(x) ==
    /\ pc # "down" /\ status[x] = "none"
    /\ \/ (shutdown \/ Full(queue)) /\ UNCHANGED faults
       \/ ~shutdown /\ ~Full(queue) /\ StoreFails
    /\ status' = [status EXCEPT ![x] = "refused"]
    /\ UNCHANGED <<worker, process, destination, key, rows, destRows,
                   attempts, arrived, staleSends, starts>>

(* update_signing_identity(), from rotate_server_signing_key() *)
UpdateSigningIdentity ==
    /\ pc # "down" /\ key < MaxRotations
    /\ key' = key + 1
    /\ UNCHANGED <<worker, process, destination, durable, history, starts>>

(* request_shutdown(), by the destructor: the flag is set without mutex_. *)
RequestShutdown ==
    /\ pc # "down" /\ ~shutdown
    /\ starts < MaxStarts
    /\ shutdown' = TRUE
    /\ UNCHANGED <<worker, queue, parked, memory, pending, destination, key,
                   durable, history, starts>>

-----------------------------------------------------------------------------
(***************************************************************************)
(* The process: a crash, an orderly exit, and a start, which replays the   *)
(* persisted queue before the worker thread exists.                        *)
(***************************************************************************)
LoseMemory ==
    /\ pc' = "down" /\ shutdown' = FALSE /\ draining' = FALSE
    /\ queue' = <<>> /\ parked' = <<>> /\ current' = NoTxn
    /\ memory' = [x \in Txns |-> [retries |-> 0, wait |-> 0]]
    /\ pending' = 0 /\ age' = 0 /\ open' = FALSE
    /\ destination' = [d \in Destinations |-> Fresh]
    /\ callKey' = 0
    /\ UNCHANGED <<key, durable, history, starts>>

Crash ==
    /\ pc # "down" /\ starts < MaxStarts
    /\ LoseMemory

(* join() returns and the worker is destroyed. *)
Exit ==
    /\ pc = "exited"
    /\ LoseMemory

(* replay_pending() and start(): destinations first, then the rows, in the *)
(* order the store returns them; what does not fit is parked.              *)
Start ==
    /\ pc = "down" /\ starts < MaxStarts
    /\ starts' = starts + 1
    /\ destination' = destRows
    /\ \E order \in Injection(1 .. Cardinality(Stored), Stored) :
          LET fits == IF MaxDepth = 0 \/ Len(order) <= MaxDepth THEN Len(order) ELSE MaxDepth
          IN  /\ queue' = SubSeq(order, 1, fits)
              /\ parked' = SubSeq(order, fits + 1, Len(order))
              /\ pending' = fits
    /\ memory' = [x \in Txns |-> IF x \in Stored THEN rows[x] ELSE memory[x]]
    /\ pc' = "check"
    /\ UNCHANGED <<shutdown, draining, current, age, open, callKey, key, durable, history>>

-----------------------------------------------------------------------------
(***************************************************************************)
(* The worker thread: loop(), take_next() and run_once().                  *)
(***************************************************************************)

(* while (!shutdown_requested_), and the drain loop after it *)
Check ==
    /\ pc = "check"
    /\ draining' = (draining \/ shutdown)
    /\ pc' = "take"
    /\ UNCHANGED <<current, age, open, callKey, process, destination, key,
                   durable, history, starts>>

(* top_up_replay_locked(): parked transactions move up while there is room. *)
TopUp(q) ==
    LET room == IF MaxDepth = 0 \/ MaxDepth - Len(q) >= Len(parked) THEN Len(parked)
                ELSE IF MaxDepth > Len(q) THEN MaxDepth - Len(q) ELSE 0
    IN  /\ queue' = q \o SubSeq(parked, 1, room)
        /\ parked' = SubSeq(parked, room + 1, Len(parked))
        /\ pending' = pending + room

Erase(q, i) == SubSeq(q, 1, i - 1) \o SubSeq(q, i + 1, Len(q))

(* take_next(): the first transaction whose retry delay has elapsed *)
TakeNext ==
    /\ pc = "take"
    /\ \E i \in Ready :
          /\ \A j \in Ready : i <= j
          /\ current' = queue[i]
          /\ TopUp(Erase(queue, i))
    /\ pc' = "taken"
    /\ UNCHANGED <<draining, age, open, callKey, shutdown, memory, destination, key,
                   durable, history, starts>>

(* take_next() found nothing ready: wait, or the drain is over. *)
TakeNothing ==
    /\ pc = "take"
    /\ Ready = {}
    /\ pc' = IF draining THEN "exited" ELSE "wait"
    /\ UNCHANGED <<draining, current, age, open, callKey, process, destination, key,
                   durable, history, starts>>

(* cv_.wait_for(): its predicate holds as soon as the queue has anything, *)
(* ready or not; otherwise idle_poll runs out.                            *)
WaitReturns ==
    /\ pc = "wait"
    /\ queue # <<>> \/ shutdown
    /\ pc' = "check"
    /\ UNCHANGED <<draining, current, age, open, callKey, process, destination, key,
                   durable, history, starts>>

WaitTimesOut ==
    /\ pc = "wait"
    /\ queue = <<>> /\ ~shutdown
    /\ pc' = "check"
    /\ UNCHANGED <<draining, current, age, open, callKey, process, destination, key,
                   durable, history, starts>>

(* --summary_.pending, then the clock is read: the attempt's `now`. *)
BeginAttempt ==
    /\ pc = "taken"
    /\ pending' = IF pending > 0 THEN pending - 1 ELSE 0
    /\ age' = 0
    /\ open' = (destination[DestOf[current]].wait > 0)
    /\ pc' = "resolve"
    /\ UNCHANGED <<draining, current, callKey, shutdown, queue, parked, memory,
                   destination, key, durable, history, starts>>

(* apply_outbound_result() *)
ApplySuccess(d) ==
    destination' = [destination EXCEPT ![d] = Fresh]

ApplyFailure(d) ==
    destination' = [destination EXCEPT ![d] =
                      [failures |-> @.failures + 1, wait |-> BackoffAhead(@.failures + 1)]]

Resolve ==
    /\ pc = "resolve"
    /\ \/ pc' = "sign" /\ UNCHANGED destination
       \/ pc' = "failed" /\ ApplyFailure(DestOf[current])
    /\ UNCHANGED <<draining, current, age, open, callKey, process, key,
                   durable, history, starts>>

(* The private copy of the signing identity, under mutex_ *)
CopySigningIdentity ==
    /\ pc = "sign"
    /\ callKey' = key
    /\ pc' = "send"
    /\ UNCHANGED <<draining, current, age, open, process, destination, key,
                   durable, history, starts>>

(* perform_outbound_transaction() with the circuit open: nothing is sent. *)
CircuitOpen ==
    /\ pc = "send"
    /\ open
    /\ pc' = "opened"
    /\ UNCHANGED <<draining, current, age, open, callKey, process, destination, key,
                   durable, history, starts>>

(* Mutant: any answer counts as a delivery, a transport failure included. *)
SendAlwaysSucceeds ==
    /\ pc = "send"
    /\ ~open
    /\ attempts' = [attempts EXCEPT ![current] = @ + 1]
    /\ staleSends' = IF callKey = key THEN staleSends ELSE staleSends + 1
    /\ arrived' \in {arrived, arrived \cup {current}}
    /\ ApplySuccess(DestOf[current])
    /\ pc' = "delivered"
    /\ UNCHANGED <<draining, current, age, open, callKey, process, key,
                   durable, status, starts>>

(* client_.perform(): the request arrives or is lost, and the answer is a  *)
(* 2xx only if it arrived; an answer may also be lost, late or an error.   *)
Send ==
    /\ pc = "send"
    /\ ~open
    /\ attempts' = [attempts EXCEPT ![current] = @ + 1]
    /\ staleSends' = IF callKey = key THEN staleSends ELSE staleSends + 1
    /\ \/ /\ arrived' = arrived \cup {current}
          /\ ApplySuccess(DestOf[current])
          /\ pc' = "delivered"
       \/ /\ arrived' \in {arrived, arrived \cup {current}}
          /\ ApplyFailure(DestOf[current])
          /\ pc' = "failed"
    /\ UNCHANGED <<draining, current, age, open, callKey, process, key,
                   durable, status, starts>>

(* store_federation_destination(), whose result is ignored *)
StoreDestination(d) ==
    destRows' \in {destRows, [destRows EXCEPT ![d] = destination[d]]}

(* The attempt is over: run_once() returns to loop(). *)
Return ==
    /\ pc' = "check"
    /\ current' = NoTxn /\ age' = 0 /\ open' = FALSE /\ callKey' = 0
    /\ UNCHANGED draining

(* 2xx: the durable row is dropped, or the transaction is retried. *)
SettleDelivered ==
    /\ pc = "delivered"
    /\ \/ /\ DeleteTransaction(current)
          /\ status' = [status EXCEPT ![current] = "delivered"]
          /\ Return
       \/ /\ StoreFails
          /\ pc' = "retry"
          /\ UNCHANGED <<rows, status, draining, current, age, open, callKey>>
    /\ StoreDestination(DestOf[current])
    /\ UNCHANGED <<process, destination, key, attempts, arrived, staleSends, starts>>

(* Anything else: count the failure, then retry or wait for the circuit. *)
RecordFailure ==
    /\ pc \in {"failed", "opened"}
    /\ StoreDestination(DestOf[current])
    /\ pc' = IF pc = "failed" THEN "retry" ELSE "park"
    /\ UNCHANGED <<draining, current, age, open, callKey, process, destination, key,
                   rows, faults, history, starts>>

(* Mutant: the transaction is re-queued whether or not it was persisted. *)
RequeueUnpersisted(x, retry) ==
    /\ StoreTransaction(x, retry) \/ (StoreFails /\ UNCHANGED rows)
    /\ memory' = [memory EXCEPT ![x] = retry]
    /\ queue' = Append(queue, x)
    /\ pending' = pending + 1
    /\ UNCHANGED status

(* Back on the queue, once the new retry state is persisted; if it cannot  *)
(* be, the transaction leaves memory and its row waits for the next start. *)
Requeue(x, retry) ==
    \/ /\ StoreTransaction(x, retry)
       /\ memory' = [memory EXCEPT ![x] = retry]
       /\ queue' = Append(queue, x)
       /\ pending' = pending + 1
       /\ UNCHANGED status
    \/ /\ StoreFails
       /\ UNCHANGED <<rows, memory, queue, pending, status>>

(* max_retries reached: the row is deleted, or survives for the next start. *)
DropTransaction(x) ==
    /\ \/ DeleteTransaction(x) /\ status' = [status EXCEPT ![x] = "dropped"]
       \/ StoreFails /\ UNCHANGED <<rows, status>>
    /\ UNCHANGED <<memory, queue, pending>>

(* re_enqueue_with_backoff() *)
ReEnqueueWithBackoff ==
    /\ pc = "retry"
    /\ LET retries == memory[current].retries + 1 IN
       IF retries >= MaxRetries
         THEN DropTransaction(current)
         ELSE Requeue(current, [retries |-> retries, wait |-> BackoffAhead(retries)])
    /\ Return
    /\ UNCHANGED <<shutdown, parked, destination, key, destRows,
                   attempts, arrived, staleSends, starts>>

(* Mutant: the circuit_open branch persists the transaction and forgets it. *)
ParkForgets ==
    /\ pc = "park"
    /\ StoreTransaction(current, [retries |-> memory[current].retries,
                                  wait |-> destination[DestOf[current]].wait])
    /\ Return
    /\ UNCHANGED <<shutdown, parked, memory, queue, pending, status, destination, key,
                   destRows, attempts, arrived, staleSends, starts>>

(* The circuit_open branch: retry_count stays, next_retry_ts becomes the   *)
(* destination's retry_after_ts.                                           *)
Park ==
    /\ pc = "park"
    /\ Requeue(current, [retries |-> memory[current].retries,
                         wait |-> destination[DestOf[current]].wait])
    /\ Return
    /\ UNCHANGED <<shutdown, parked, destination, key, destRows,
                   attempts, arrived, staleSends, starts>>

-----------------------------------------------------------------------------
(* The clock moves on: every deadline comes one tick nearer. *)
Nearer(r) == IF r.wait > 0 THEN [r EXCEPT !.wait = @ - 1] ELSE r

Tick ==
    /\ pc \in Attempting => age < MaxAttempt
    /\ \/ pc \in Attempting
       \/ \E x \in Txns : rows[x].wait > 0 \/ memory[x].wait > 0
       \/ \E d \in Destinations : destination[d].wait > 0 \/ destRows[d].wait > 0
    /\ age' = IF pc \in Attempting THEN age + 1 ELSE age
    /\ memory' = [x \in Txns |-> Nearer(memory[x])]
    /\ rows' = [x \in Txns |-> Nearer(rows[x])]
    /\ destination' = [d \in Destinations |-> Nearer(destination[d])]
    /\ destRows' = [d \in Destinations |-> Nearer(destRows[d])]
    /\ UNCHANGED <<pc, draining, current, open, callKey, shutdown, queue, parked,
                   pending, key, faults, history, starts>>

-----------------------------------------------------------------------------
Work ==
    \/ Check \/ TakeNext \/ TakeNothing \/ WaitReturns \/ WaitTimesOut
    \/ BeginAttempt \/ Resolve \/ CopySigningIdentity \/ CircuitOpen \/ Send
    \/ SettleDelivered \/ RecordFailure \/ ReEnqueueWithBackoff \/ Park

Environment ==
    \/ \E x \in Txns : EnqueueAccepts(x) \/ EnqueueRefuses(x)
    \/ UpdateSigningIdentity \/ RequestShutdown \/ Crash

Next == Work \/ Environment \/ Start \/ Exit \/ Tick

Spec == Init /\ [][Next]_vars

(* The worker thread is scheduled, the clock runs, and a process that went *)
(* down is started again.                                                  *)
Fairness == WF_vars(Work) /\ WF_vars(Start) /\ WF_vars(Exit) /\ WF_vars(Tick)

FairSpec == Spec /\ Fairness

-----------------------------------------------------------------------------
(***************************************************************************)
(* Properties                                                              *)
(***************************************************************************)

(* Every variable stays in its type. *)
TypeOK ==
    /\ pc \in PcValues
    /\ shutdown \in BOOLEAN /\ draining \in BOOLEAN /\ open \in BOOLEAN
    /\ queue \in Seq(Txns) /\ parked \in Seq(Txns)
    /\ current \in Txns \cup {NoTxn}
    /\ memory \in [Txns -> Retry]
    /\ pending \in Nat /\ age \in Nat /\ key \in Nat /\ callKey \in Nat
    /\ destination \in [Destinations -> Backoff]
    /\ destRows \in [Destinations -> Backoff]
    /\ rows \in [Txns -> Retry \cup {NoRow}]
    /\ status \in [Txns -> {"none", "refused", "owned", "delivered", "dropped"}]
    /\ attempts \in [Txns -> Nat] /\ arrived \in SUBSET Txns /\ staleSends \in Nat
    /\ starts \in Nat /\ faults \in Nat

(* The store and the live queue agree.  A transaction whose enqueue()      *)
(* returned true has a row until it is settled, across crashes and failed  *)
(* writes; whatever is queued, parked or in flight has a row with the very *)
(* same retry state, so a restart resumes where the process stopped and    *)
(* never brings a settled transaction back.                                *)
StoreAgrees ==
    /\ Stored = {x \in Txns : status[x] = "owned"}
    /\ \A x \in InMemory : rows[x] = memory[x]

(* No transaction is in the worker's hands twice: replay, top-up, retry    *)
(* and the circuit-open branch never leave a second copy in the queue, the *)
(* parked overflow or the attempt in flight.                               *)
NoDuplicates ==
    /\ IsInjective(queue \o parked)
    /\ current \notin Range(queue) \cup Range(parked)

(* Replay overflow is parked only while there is no room: no parked        *)
(* transaction waits behind a queue that could take it.                    *)
ParkedOnlyWhenFull == parked # <<>> => Len(queue) >= MaxDepth

(* enqueue() and replay respect max_queue_depth: only a transaction that   *)
(* came back from an attempt, after a failure of its own or with the       *)
(* circuit open, can lie beyond it, and never a second one.                *)
DepthBound ==
    MaxDepth # 0 =>
        /\ Len(queue) <= MaxDepth + 1
        /\ Len(queue) > MaxDepth =>
              LET x == queue[Len(queue)]
              IN  memory[x].retries > 0 \/ destination[DestOf[x]].failures > 0

(* summary_.pending is the length of the queue, except between take_next() *)
(* and the critical section that counts the taken transaction out.         *)
PendingCounts == pending = Len(queue) + IF pc = "taken" THEN 1 ELSE 0

(* The queue, the parked overflow and their count agree and keep to the    *)
(* bound, whatever order replay, retries and new work come in.             *)
QueueBounded == NoDuplicates /\ ParkedOnlyWhenFull /\ DepthBound /\ PendingCounts

(* The retry budget: at most max_retries requests are sent for a           *)
(* transaction, plus one for each restart that may have hidden an attempt  *)
(* whose retry count was not persisted.                                    *)
AttemptsBounded == \A x \in Txns : attempts[x] <= MaxRetries + (IF starts = 0 THEN 0 ELSE starts - 1)

(* A key rotation overtakes at most the one attempt in flight: every later *)
(* request is signed with the new key.                                     *)
OneStaleSendPerRotation == staleSends <= key

(* The queue, the rows behind it and the budgets of its transactions agree *)
(* across retries, crashes, restarts, failed writes and key rotations.     *)
QueueIsSound == TypeOK /\ StoreAgrees /\ QueueBounded /\ AttemptsBounded /\ OneStaleSendPerRotation

(* The worker keeps the promises of the Outbox, crashes and failed writes  *)
(* included: settled once, received only while owned, delivered only if    *)
(* received.                                                               *)
Promise == INSTANCE Outbox
ImplementsOutbox == Promise!Spec

(* Every accepted transaction is delivered or dropped in the end, whatever *)
(* crashes, lost requests, open circuits and full queues it meets, as long *)
(* as no write to the store fails.                                         *)
EventuallySettled == [](faults = 0) => Promise!Settles

(* A shutdown ends: the drain phase runs out of ready transactions and the *)
(* process goes down.                                                      *)
ShutdownCompletes == shutdown ~> pc = "down"
=============================================================================
