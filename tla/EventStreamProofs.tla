------------------------- MODULE EventStreamProofs -------------------------
(***************************************************************************)
(* That StreamIsSound holds of the event stream for any number of writers, *)
(* clients, events, rooms, stripes and restarts, and whatever writes fail. *)
(*                                                                         *)
(* StreamIsSound is not inductive.  That a new position is no stored       *)
(* event's needs Below; that what an ingest commits is what it applies     *)
(* later, with other rooms' threads in between, needs Held and InTransit;  *)
(* that the current state it applies is the row it committed needs Landed. *)
(***************************************************************************)
EXTENDS EventStream, TLAPS

\* A leaf that names no prover is SMT's, and has half a minute.
USE SMTT(30)

\* The counter is past every position that has been handed out.
Below ==
    /\ eventMark < next
    /\ \A e \in Events : dbOrd[e] < next
    /\ \A i \in Ingests : ord[i] < next

\* An ingest holds the stripe of its room from Prepare to Apply.
Held == \A i \in Ingests : pc[i] \in {"prepared", "committed"} <=> stripe[StripeFor(i)] = i

\* A prepared statement writes a row of current state exactly for a state event.
Rowed == \A i \in Ingests : pc[i] = "prepared" => (row[i] = "none" <=> KeyOf[EventOf[i]] = NoKey)

\* An ingest in flight has a position; one that has committed has its event in
\* the database at that position, and not in memory.
InTransit ==
    \A i \in InFlight :
        /\ ord[i] # 0
        /\ pc[i] = "committed" => dbOrd[EventOf[i]] = ord[i] /\ memOrd[EventOf[i]] = 0

\* What an ingest has committed and not applied is the current state of its row
\* in the database, unless another store has crossed with it.
Landed ==
    \A i \in Ingests : pc[i] = "committed" /\ KeyOf[EventOf[i]] \in Keys \ crossed
                         => dbState[KeyOf[EventOf[i]]] = EventOf[i]

IInv == TypeOK /\ Below /\ Held /\ Rowed /\ InTransit /\ Landed /\ StreamIsSound

-----------------------------------------------------------------------------
USE StreamAssumption DEF Writers, Positions, InFlight, Larger

\* The stream starts empty, with nothing in flight.
LEMMA InitIInv == Init => IInv
  <1> SUFFICES ASSUME Init PROVE IInv
    OBVIOUS
  <1>1. TypeOK
    <2>1. /\ 0 \in Positions /\ 0 \in Nat /\ 1 \in 1 .. (MaxOrderings + 1)
          /\ 0 \in 0 .. MaxSurfaces /\ 0 \in 0 .. MaxRestarts
      OBVIOUS
    <2>2. /\ notified \in [ord : Positions, sync : Nat] /\ row \in [Ingests -> {"none", "insert", "update"}]
          /\ pc \in [Writers -> {"idle", "reserved", "prepared", "committed", "applied", "done", "failed"}]
      BY <2>1, Zenon DEF Init
    <2> QED
      BY <2>1, <2>2, Zenon DEF Init, TypeOK
  <1>2. Below /\ OrderingsUnique /\ TokenNotAhead
    BY DEF Init, Below, OrderingsUnique, TokenNotAhead
  <1>3. Held
    <2>1. \A i \in Ingests : StripeFor(i) \in Stripes /\ i # None
      BY Zenon DEF StripeFor
    <2>2. \A i \in Ingests : pc[i] = "idle" /\ stripe[StripeFor(i)] = None
      BY <2>1, Zenon DEF Init
    <2> QED
      BY <2>1, <2>2, Zenon DEF Held
  <1>4. Rowed /\ InTransit /\ Landed
    BY DEF Init, Rowed, InTransit, Landed
  <1>5. EventsMirrored /\ StateMirrored /\ MembershipFollowsState
    BY DEF Init, EventsMirrored, StateMirrored, MembershipFollowsState
  <1> QED
    BY <1>1, <1>2, <1>3, <1>4, <1>5, Zenon DEF IInv, StreamIsSound

\* What the two allocators do to the counters and the watermarks.
LEMMA Allocation ==
  ASSUME next \in 1 .. (MaxOrderings + 1), eventMark \in Positions, NEW n \in {1, 2}, AllocateOrderings(n)
  PROVE  /\ next' = next + n /\ next' \in 1 .. (MaxOrderings + 1)
         /\ next \in Nat /\ next' \in Nat /\ next < next' /\ next <= next'
         /\ next + n - 1 \in Positions
         /\ eventMark' \in Positions
         /\ eventMark < next => eventMark' < next'
  BY DEF AllocateOrderings, Marked

\* The same for next_sync_stream_id, which has no bound.
LEMMA SyncAllocation ==
  ASSUME syncId \in Nat, syncMark \in Nat, AllocateSyncId
  PROVE  /\ syncId' = syncId + 1 /\ syncId' \in Nat /\ syncId <= syncId' /\ syncMark' \in Nat
  BY DEF AllocateSyncId, Marked

\* A counter that stays does not move back.
LEMMA Staying == \A n \in Nat : n <= n
  OBVIOUS

\* publish() keeps both positions of the notifier in range.
LEMMA Published ==
  ASSUME notified \in [ord : Positions, sync : Nat], NEW o \in Positions, NEW s \in Nat, Publish(o, s)
  PROVE  notified' \in [ord : Positions, sync : Nat]
  BY DEF Publish

\* Clients that keep their tokens stay behind counters that do not move back.
LEMMA TokensKept ==
  ASSUME TokenNotAhead, next \in Nat, next' \in Nat, syncId \in Nat, syncId' \in Nat,
         since \in [Clients -> Positions], sinceSync \in [Clients -> Nat],
         UNCHANGED <<since, sinceSync>>, behind => behind',
         ~behind' => next <= next' /\ syncId <= syncId'
  PROVE  TokenNotAhead'
  BY DEF TokenNotAhead

\* The counter stays past the stored positions when it does not move back and
\* the rows stay.
LEMMA BelowKept ==
  ASSUME Below, next \in Nat, next' \in Nat, next <= next', eventMark' < next',
         dbOrd \in [Events -> Positions], UNCHANGED dbOrd, \A i \in Ingests : ord'[i] < next'
  PROVE  Below'
  BY DEF Below

\* The rows stay, an ingest in flight was so before with the same position, and
\* one that has committed keeps its stripe: what the rows say of it still holds.
LEMMA RowsUntouched ==
  ASSUME InTransit, OrderingsUnique, EventsMirrored, UNCHANGED <<dbOrd, memOrd>>,
         \A j \in InFlight' : j \in InFlight /\ ord'[j] = ord[j],
         \A j \in Ingests : pc'[j] = "committed" <=> pc[j] = "committed",
         \A j \in Ingests : pc[j] = "committed" /\ stripe[StripeFor(j)] = j => stripe'[StripeFor(j)] = j
  PROVE  InTransit' /\ OrderingsUnique' /\ EventsMirrored'
  <1>1. InTransit'
    BY Zenon DEF InTransit
  <1>2. OrderingsUnique'
    BY DEF OrderingsUnique
  <1>3. EventsMirrored'
    BY DEF EventsMirrored
  <1> QED
    BY <1>1, <1>2, <1>3, Zenon

\* The current state stays, and with it which ingests have committed.
LEMMA StateKept ==
  ASSUME Landed, StateMirrored, UNCHANGED <<dbState, memState, crossed>>,
         \A j \in Ingests : pc'[j] = "committed" <=> pc[j] = "committed"
  PROVE  Landed' /\ StateMirrored'
  <1>1. Landed'
    BY Zenon DEF Landed
  <1>2. StateMirrored'
    BY DEF StateMirrored
  <1> QED
    BY <1>1, <1>2, Zenon

\* Two ingests that write the same row of current state do not both hold the
\* stripe of its room.
LEMMA OneStripe ==
  ASSUME NEW i \in Ingests, NEW j \in Ingests, stripe[StripeFor(i)] = i, stripe[StripeFor(j)] = j,
         KeyOf[EventOf[i]] = KeyOf[EventOf[j]], KeyOf[EventOf[i]] # NoKey
  PROVE  i = j
  <1>1. EventOf[i] \in Events /\ EventOf[j] \in Events
    BY Zenon
  <1>2. RoomOf[EventOf[i]] = RoomOf[EventOf[j]]
    BY <1>1, Zenon
  <1>3. StripeFor(i) = StripeFor(j)
    BY <1>2, Zenon DEF StripeFor
  <1> QED
    BY <1>3, Zenon

\* The membership row is written with the state event, or its key is marked.
LEMMA MembershipKept ==
  ASSUME MembershipFollowsState, NEW e \in Events, split \subseteq MemberKeys,
         member \in [MemberKeys -> Events \cup {None}], memState \in [Keys -> Events \cup {None}],
         memState' = IF KeyOf[e] = NoKey THEN memState ELSE [memState EXCEPT ![KeyOf[e]] = e],
         UpsertMembership(e) \/ MembershipFails(e)
  PROVE  /\ MembershipFollowsState'
         /\ member' \in [MemberKeys -> Events \cup {None}] /\ split' \subseteq MemberKeys
  <1>1. CASE UpsertMembership(e)
    BY <1>1 DEF UpsertMembership, MembershipFollowsState
  <1>2. CASE MembershipFails(e)
    BY <1>2 DEF MembershipFails, MembershipFollowsState
  <1> QED
    BY <1>1, <1>2, Zenon

\* A step that moves no ingest and no row keeps what relates the two.
LEMMA IngestsUntouched ==
  ASSUME Held, Rowed, InTransit, OrderingsUnique, EventsMirrored,
         UNCHANGED <<dbOrd, memOrd, stripe, ord, row>>, \A i \in Ingests : pc'[i] = pc[i]
  PROVE  Held' /\ Rowed' /\ InTransit' /\ OrderingsUnique' /\ EventsMirrored'
  <1>1. Held' /\ Rowed'
    BY Zenon DEF Held, Rowed, StripeFor
  <1>2. InFlight' = InFlight
    BY Zenon
  <1> QED
    BY <1>1, <1>2, RowsUntouched, Zenon

\* The rebuilt counter is past every stored event, and not behind the old one
\* unless a watermark had not been written; memory is what the database is.
LEMMA RestartStep ==
  ASSUME IInv, Restart
  PROVE  IInv'
  <1> TypeOK /\ Below /\ Held /\ Rowed /\ InTransit /\ Landed /\ StreamIsSound
    BY Zenon DEF IInv
  <1>0. PICK top \in {dbOrd[e] : e \in Events} \cup {eventMark} :
          /\ eventMark <= top /\ \A e \in Events : dbOrd[e] <= top
          /\ next' = top + 1
          /\ eventMark' \in Marked(eventMark, top, 1)
          /\ notified' = [ord |-> top, sync |-> syncMark]
    BY Zenon DEF Restart, RestoreCounters
  <1>1. top \in Positions /\ top < next
    BY <1>0 DEF TypeOK, Below
  <1>2. /\ eventMark' \in Positions /\ eventMark' < next'
    BY <1>0, <1>1 DEF Marked, TypeOK
  <1>a. /\ memOrd' = dbOrd /\ memState' = dbState
        /\ split' = split \cup (MemberKeys \cap (crossed \cup Unapplied)) /\ crossed' = {}
        /\ behind' = (behind \/ eventMark # next - 1 \/ syncMark # syncId)
        /\ stripe' = [s \in Stripes |-> None]
        /\ ord' = [i \in Ingests |-> 0] /\ sid' = [i \in Ingests |-> 0]
        /\ row' = [i \in Ingests |-> "none"]
        /\ pc' = [w \in Writers |->
                    IF w \in Ingests /\ pc[w] \notin {"idle", "done"} THEN "failed" ELSE pc[w]]
        /\ UNCHANGED <<syncMark, dbOrd, dbState, member, since, sinceSync, got, surfaces>>
        /\ syncId' = syncMark
    BY Zenon DEF Restart, RestoreCounters
  <1>b. restarts < MaxRestarts /\ restarts' = restarts + 1
    BY Zenon DEF Restart
  <1>c. waiting' \in [Clients -> BOOLEAN]
    BY Zenon DEF Restart
  <1>3. /\ pc' \in [Writers -> {"idle", "reserved", "prepared", "committed", "applied", "done", "failed"}]
        /\ \A i \in Ingests : pc'[i] \notin {"reserved", "prepared", "committed", "applied"}
    BY <1>a, Zenon DEF TypeOK
  <1>d. crossed' \subseteq Keys /\ split' \subseteq MemberKeys /\ behind' \in BOOLEAN
    BY <1>a, Zenon DEF TypeOK
  <1>e. notified' \in [ord : Positions, sync : Nat]
    BY <1>0, <1>1, Zenon DEF TypeOK
  <1>f. /\ next' \in 1 .. (MaxOrderings + 1) /\ next' \in Nat /\ 0 < next' /\ 0 \in Positions
        /\ restarts' \in 0 .. MaxRestarts /\ restarts' # 0
    <2>1. restarts \in 0 .. MaxRestarts
      BY Zenon DEF TypeOK
    <2> QED
      BY <1>0, <1>1, <1>b, <2>1
  <1>4. TypeOK'
    BY <1>2, <1>3, <1>a, <1>c, <1>d, <1>e, <1>f, Zenon DEF TypeOK
  <1>5. Below'
    <2>1. \A e \in Events : dbOrd[e] < next'
      <3>1. dbOrd \in [Events -> Positions]
        BY Zenon DEF TypeOK
      <3> QED
        BY <1>0, <1>1, <3>1
    <2> QED
      BY <1>2, <1>a, <1>f, <2>1, Zenon DEF Below
  <1>g. \A i \in Ingests : StripeFor(i) \in Stripes /\ stripe'[StripeFor(i)] = None /\ i # None
    BY <1>a, Zenon DEF StripeFor
  <1>h. InFlight' = {}
    BY <1>3, Zenon
  <1>6. Held' /\ InTransit'
    <2>1. Held'
      BY <1>3, <1>g DEF Held
    <2>2. InTransit'
      BY <1>h, Zenon DEF InTransit
    <2> QED
      BY <2>1, <2>2, Zenon
  <1>7. OrderingsUnique' /\ EventsMirrored'
    <2>1. OrderingsUnique'
      BY <1>h, <1>a, Zenon DEF StreamIsSound, OrderingsUnique
    <2>2. EventsMirrored'
      BY <1>a, Zenon DEF EventsMirrored
    <2> QED
      BY <2>1, <2>2, Zenon
  <1>i. Rowed' /\ Landed' /\ StateMirrored'
    BY <1>3, <1>a, Zenon DEF Rowed, Landed, StateMirrored
  <1>8. MembershipFollowsState'
    <2>1. SUFFICES ASSUME NEW k \in MemberKeys \ split' PROVE member[k] = dbState[k]
      BY <1>a, Zenon DEF MembershipFollowsState
    <2>2. k \in Keys \ crossed /\ k \notin split /\ k \notin Unapplied
      BY <1>a, Zenon
    <2>3. \A i \in Ingests : pc[i] = "committed" => KeyOf[EventOf[i]] \in Unapplied
      BY Zenon DEF Unapplied
    <2>4. memState[k] = dbState[k]
      <3>1. StateMirrored
        BY Zenon DEF StreamIsSound
      <3> QED
        BY <2>2, <2>3, <3>1 DEF StateMirrored
    <2> QED
      BY <2>2, <2>4, Zenon DEF StreamIsSound, MembershipFollowsState
  <1>9. TokenNotAhead'
    <2>1. /\ next \in Nat /\ syncId \in Nat /\ syncMark \in Nat /\ syncMark <= syncMark
          /\ since \in [Clients -> Positions] /\ sinceSync \in [Clients -> Nat]
      BY DEF TypeOK
    <2>2. eventMark = next - 1 => next <= next'
      BY <1>0, <1>1, <2>1
    <2>3. ~behind' => next <= next' /\ syncId <= syncId'
      BY <1>a, <2>1, <2>2, Zenon
    <2> QED
      BY <1>a, <1>f, <2>1, <2>3, TokensKept, Zenon DEF StreamIsSound
  <1> QED
    BY <1>4, <1>5, <1>6, <1>7, <1>8, <1>9, <1>i, Zenon DEF IInv, StreamIsSound

\* A reserved position is next, which nothing stored or in flight has.
LEMMA ReserveStep ==
  ASSUME IInv, NEW i \in Ingests, Reserve(i)
  PROVE  IInv'
  <1> TypeOK /\ Below /\ Held /\ Rowed /\ InTransit /\ Landed /\ StreamIsSound
    BY Zenon DEF IInv
  <1>t. /\ next \in 1 .. (MaxOrderings + 1) /\ eventMark \in Positions /\ eventMark < next
        /\ dbOrd \in [Events -> Positions] /\ ord \in [Ingests -> Positions] /\ DOMAIN pc = Writers
        /\ \A e \in Events : dbOrd[e] < next
        /\ \A j \in Ingests : ord[j] < next
    BY Zenon DEF TypeOK, Below
  <1>r. /\ AllocateOrderings(1) /\ pc[i] \in {"idle", "failed"} /\ pc' = [pc EXCEPT ![i] = "reserved"]
        /\ ord' = [ord EXCEPT ![i] = next] /\ UNCHANGED <<dbOrd, memOrd, stripe, row, since, sinceSync>>
        /\ UNCHANGED <<dbState, memState, member, crossed, split, behind>>
    BY Zenon DEF Reserve, storeVars, clientVars, history
  <1>0. /\ next' = next + 1 /\ next' \in 1 .. (MaxOrderings + 1) /\ next \in Positions /\ next # 0
        /\ eventMark' \in Positions /\ eventMark' < next'
        /\ next \in Nat /\ next' \in Nat /\ next < next' /\ next <= next'
    BY <1>t, <1>r, Allocation
  <1>a. /\ syncId' = syncId + 1 /\ syncMark' \in Nat /\ syncId \in Nat
        /\ syncId' \in Nat /\ syncId <= syncId'
    BY SyncAllocation, Zenon DEF Reserve, TypeOK
  <1>1. TypeOK'
    BY <1>0, <1>a, Zenon DEF Reserve, TypeOK, storeVars, clientVars, history
  <1>2. Landed' /\ StateMirrored'
    BY <1>r, <1>t, StateKept, Zenon DEF StreamIsSound
  <1>3. Below'
    <2>1. \A j \in Ingests : ord'[j] < next'
      BY <1>t, <1>r, <1>0
    <2> QED
      BY <1>t, <1>r, <1>0, <2>1, BelowKept, Zenon
  <1>4. Held' /\ Rowed'
    BY <1>r, <1>t, Zenon DEF Held, Rowed, StripeFor
  <1>5. InTransit'
    BY <1>0, <1>r, <1>t, Zenon DEF InTransit
  <1>6. OrderingsUnique'
    BY <1>0, <1>r, <1>t DEF StreamIsSound, OrderingsUnique
  <1>7. EventsMirrored'
    BY <1>r, <1>t DEF StreamIsSound, EventsMirrored
  <1>8. MembershipFollowsState'
    BY <1>r, Zenon DEF StreamIsSound, MembershipFollowsState
  <1>9. TokenNotAhead'
    BY <1>0, <1>r, <1>a, TokensKept, Zenon DEF StreamIsSound, TypeOK
  <1> QED
    BY <1>1, <1>2, <1>3, <1>4, <1>5, <1>6, <1>7, <1>8, <1>9, Zenon DEF IInv, StreamIsSound

\* Leaving without having stored the event, before or after the stripe is taken.
LEMMA RejectStep ==
  ASSUME IInv, NEW i \in Ingests, Reject(i),
         pc[i] \in {"reserved", "prepared"}, stripe[StripeFor(i)] \in {None, i},
         UNCHANGED <<counterVars, storeVars, notified, clientVars, history, surfaces, restarts>>
  PROVE  IInv'
  <1> TypeOK /\ Below /\ Held /\ Rowed /\ InTransit /\ Landed /\ StreamIsSound
    BY Zenon DEF IInv
  <1>0. /\ StripeFor(i) \in Stripes
        /\ stripe' = [stripe EXCEPT ![StripeFor(i)] = None]
        /\ pc' = [pc EXCEPT ![i] = "failed"]
        /\ ord' = [ord EXCEPT ![i] = 0] /\ sid' = [sid EXCEPT ![i] = 0]
        /\ row' = [row EXCEPT ![i] = "none"]
    BY Zenon DEF Reject, Return, StripeFor
  <1>a. /\ ord \in [Ingests -> Positions] /\ DOMAIN pc = Writers
        /\ stripe \in [Stripes -> Ingests \cup {None}] /\ UNCHANGED <<dbOrd, memOrd>>
    BY Zenon DEF TypeOK, storeVars
  <1>s. \A j \in Ingests : StripeFor(j) \in Stripes /\ j # None
    BY Zenon DEF StripeFor
  <1>b. 0 \in Positions /\ 0 \in Nat /\ 0 < next
    BY DEF TypeOK
  <1>1. TypeOK'
    BY <1>0, <1>b, Zenon DEF TypeOK, counterVars, storeVars, clientVars, history
  <1>2. Below'
    <2>1. \A j \in Ingests : ord'[j] < next'
      BY <1>0, <1>a, <1>b, Zenon DEF Below, counterVars
    <2> QED
      BY <1>a, <2>1, Zenon DEF Below, counterVars
  <1>3. Held' /\ Rowed'
    <2>1. Held'
      BY <1>0, <1>a, <1>s DEF Held
    <2>2. DOMAIN row = Ingests
      BY Zenon DEF TypeOK
    <2>3. Rowed'
      BY <1>0, <1>a, <2>2, Zenon DEF Rowed
    <2> QED
      BY <2>1, <2>3, Zenon
  <1>4. /\ \A j \in InFlight' : j \in InFlight /\ ord'[j] = ord[j]
        /\ \A j \in Ingests : pc'[j] = "committed" <=> pc[j] = "committed"
    BY <1>0, <1>a, Zenon
  <1>5. \A j \in Ingests : pc[j] = "committed" /\ stripe[StripeFor(j)] = j => stripe'[StripeFor(j)] = j
    BY <1>0, <1>a, <1>s
  <1>6. InTransit' /\ OrderingsUnique' /\ EventsMirrored'
    BY <1>a, <1>4, <1>5, RowsUntouched, Zenon DEF StreamIsSound
  <1>7. MembershipFollowsState' /\ TokenNotAhead'
    BY Zenon DEF StreamIsSound, MembershipFollowsState, TokenNotAhead, storeVars, clientVars, counterVars, history
  <1>8. Landed' /\ StateMirrored'
    BY <1>4, StateKept, Zenon DEF StreamIsSound, storeVars, history
  <1> QED
    BY <1>1, <1>2, <1>3, <1>6, <1>7, <1>8, Zenon DEF IInv, StreamIsSound

\* Taking the stripe keeps every other holder's: it was free.
LEMMA PrepareStep ==
  ASSUME IInv, NEW i \in Ingests, Prepare(i)
  PROVE  IInv'
  <1>1. CASE Reject(i)
    BY <1>1, RejectStep, Zenon DEF Prepare
  <1>2. CASE ~Reject(i)
    <2> TypeOK /\ Below /\ Held /\ Rowed /\ InTransit /\ Landed /\ StreamIsSound
      BY Zenon DEF IInv
    <2>0. /\ pc[i] = "reserved" /\ stripe[StripeFor(i)] = None /\ memOrd[EventOf[i]] = 0
          /\ StripeFor(i) \in Stripes
          /\ stripe' = [stripe EXCEPT ![StripeFor(i)] = i]
          /\ row' = [row EXCEPT ![i] = RowFor(EventOf[i])]
          /\ RowFor(EventOf[i]) \in {"none", "insert", "update"}
          /\ pc' = [pc EXCEPT ![i] = "prepared"]
          /\ UNCHANGED <<ord, sid, counterVars, storeVars, notified, clientVars, history, surfaces, restarts>>
      BY <1>2, Zenon DEF Prepare, RowFor, StripeFor
    <2>1. TypeOK'
      BY <2>0, Zenon DEF TypeOK, counterVars, storeVars, clientVars, history
    <2>2. Below'
      BY <2>0, Zenon DEF Below, counterVars, storeVars
    <2>a. DOMAIN pc = Writers /\ stripe \in [Stripes -> Ingests \cup {None}] /\ UNCHANGED <<dbOrd, memOrd>>
      BY <2>0, Zenon DEF TypeOK, storeVars
    <2>s. \A j \in Ingests : StripeFor(j) \in Stripes /\ j # None
      BY Zenon DEF StripeFor
    <2>3. Held' /\ Rowed'
      <3>1. Held'
        BY <2>0, <2>a, <2>s DEF Held
      <3>2. DOMAIN row = Ingests /\ (RowFor(EventOf[i]) = "none" <=> KeyOf[EventOf[i]] = NoKey)
        BY DEF TypeOK, RowFor
      <3>3. Rowed'
        BY <2>0, <2>a, <3>2, Zenon DEF Rowed
      <3> QED
        BY <3>1, <3>3, Zenon
    <2>4. /\ \A j \in InFlight' : j \in InFlight /\ ord'[j] = ord[j]
          /\ \A j \in Ingests : pc'[j] = "committed" <=> pc[j] = "committed"
      BY <2>0, <2>a, Zenon
    <2>5. \A j \in Ingests : pc[j] = "committed" /\ stripe[StripeFor(j)] = j => stripe'[StripeFor(j)] = j
      BY <2>0, <2>a, <2>s
    <2>6. InTransit' /\ OrderingsUnique' /\ EventsMirrored'
      BY <2>a, <2>4, <2>5, RowsUntouched, Zenon DEF StreamIsSound
    <2>7. MembershipFollowsState' /\ TokenNotAhead'
      BY <2>0, Zenon DEF StreamIsSound, MembershipFollowsState, TokenNotAhead, storeVars, clientVars, counterVars,
                         history
    <2>8. Landed' /\ StateMirrored'
      BY <2>0, <2>4, StateKept, Zenon DEF StreamIsSound, storeVars, history
    <2> QED
      BY <2>1, <2>2, <2>3, <2>6, <2>7, <2>8, Zenon DEF IInv, StreamIsSound
  <1> QED
    BY <1>1, <1>2, Zenon

\* The database gets the event at a position nobody else has.
LEMMA CommitStep ==
  ASSUME IInv, NEW i \in Ingests, Commit(i)
  PROVE  IInv'
  <1>1. CASE Reject(i) /\ UNCHANGED <<dbOrd, dbState>>
    <2>1. stripe[StripeFor(i)] = i /\ pc[i] = "prepared"
      BY Zenon DEF Commit, IInv, Held
    <2> QED
      BY <1>1, <2>1, RejectStep, Zenon DEF Commit, storeVars
  <1>2. CASE ~(Reject(i) /\ UNCHANGED <<dbOrd, dbState>>)
    <2> TypeOK /\ Below /\ Held /\ Rowed /\ InTransit /\ Landed /\ StreamIsSound
      BY Zenon DEF IInv
    <2>0. /\ pc[i] = "prepared" /\ stripe[StripeFor(i)] = i
          /\ EventOf[i] \in Events /\ dbOrd[EventOf[i]] = 0 /\ memOrd[EventOf[i]] = 0
          /\ ord[i] # 0 /\ \A e \in Events : dbOrd[e] # ord[i]
          /\ dbOrd' = [dbOrd EXCEPT ![EventOf[i]] = ord[i]]
          /\ CommitRows(EventOf[i], ord[i], row[i])
          /\ pc' = [pc EXCEPT ![i] = "committed"]
          /\ UNCHANGED <<stripe, ord, sid, row>>
          /\ UNCHANGED <<counterVars, memOrd, memState, member, notified, clientVars, history, surfaces, restarts>>
      <3>1. /\ pc[i] = "prepared" /\ EventOf[i] \in Events /\ dbOrd[EventOf[i]] = 0
            /\ CommitRows(EventOf[i], ord[i], row[i])
            /\ pc' = [pc EXCEPT ![i] = "committed"]
            /\ UNCHANGED <<stripe, ord, sid, row>>
            /\ UNCHANGED <<counterVars, memOrd, memState, member, notified, clientVars, history, surfaces, restarts>>
        BY <1>2, Zenon DEF Commit, Conflicts
      <3>2. stripe[StripeFor(i)] = i /\ ord[i] # 0
        BY <3>1, Zenon DEF Held, InTransit
      <3>3. memOrd[EventOf[i]] = 0
        BY <3>1, Zenon DEF StreamIsSound, EventsMirrored
      <3>4. \A e \in Events : dbOrd[e] # ord[i]
        BY <3>1, Zenon DEF StreamIsSound, OrderingsUnique
      <3> QED
        BY <3>1, <3>2, <3>3, <3>4, Zenon DEF CommitRows
    <2>1. TypeOK'
      <3>1. dbState' \in [Keys -> Events \cup {None}]
        BY <2>0, Zenon DEF TypeOK, CommitRows
      <3>2. /\ dbOrd' \in [Events -> Positions]
            /\ pc' \in [Writers -> {"idle", "reserved", "prepared", "committed", "applied", "done", "failed"}]
        BY <2>0, Zenon DEF TypeOK
      <3> QED
        BY <2>0, <3>1, <3>2, Zenon DEF TypeOK, counterVars, clientVars, history
    <2>2. Below'
      BY <2>0, Zenon DEF Below, counterVars, TypeOK
    <2>3. Held' /\ Rowed'
      BY <2>0, Zenon DEF Held, Rowed, TypeOK, StripeFor
    <2>a. /\ dbOrd \in [Events -> Positions] /\ ord \in [Ingests -> Positions] /\ DOMAIN pc = Writers
      BY Zenon DEF TypeOK
    <2>4. InTransit'
      BY <2>0, <2>a DEF InTransit
    <2>5. OrderingsUnique'
      BY <2>0, <2>a DEF StreamIsSound, OrderingsUnique
    <2>6. EventsMirrored'
      BY <2>0, <2>a DEF StreamIsSound, EventsMirrored
    <2>7. MembershipFollowsState' /\ TokenNotAhead'
      BY <2>0, Zenon DEF StreamIsSound, MembershipFollowsState, TokenNotAhead, clientVars, counterVars, history
    <2>b. /\ KeyOf[EventOf[i]] \in Keys \cup {NoKey} /\ NoKey \notin Keys
          /\ dbState' = IF KeyOf[EventOf[i]] = NoKey
                        THEN dbState ELSE [dbState EXCEPT ![KeyOf[EventOf[i]]] = EventOf[i]]
          /\ dbState \in [Keys -> Events \cup {None}] /\ UNCHANGED <<memState, crossed>>
      BY <2>0, Zenon DEF TypeOK, history, Rowed, CommitRows
    <2>c. \A j \in Ingests : /\ pc[j] = "committed" /\ KeyOf[EventOf[j]] = KeyOf[EventOf[i]]
                              /\ KeyOf[EventOf[i]] # NoKey
                              => j = i
      BY <2>0, OneStripe, Zenon DEF Held
    <2>8. Landed'
      BY <2>0, <2>a, <2>b, <2>c DEF Landed
    <2>9. StateMirrored'
      BY <2>0, <2>a, <2>b DEF StreamIsSound, StateMirrored
    <2> QED
      BY <2>1, <2>2, <2>3, <2>4, <2>5, <2>6, <2>7, <2>8, <2>9, Zenon DEF IInv, StreamIsSound
  <1> QED
    BY <1>1, <1>2, Zenon

\* Memory gets the row the database already has.
LEMMA ApplyStep ==
  ASSUME IInv, NEW i \in Ingests, Apply(i)
  PROVE  IInv'
  <1> TypeOK /\ Below /\ Held /\ Rowed /\ InTransit /\ Landed /\ StreamIsSound
    BY Zenon DEF IInv
  <1>0. memOrd[EventOf[i]] = 0 /\ dbOrd[EventOf[i]] = ord[i] /\ ord[i] # 0 /\ stripe[StripeFor(i)] = i
    BY Zenon DEF Apply, InTransit, Held
  <1>a. /\ memOrd' = [memOrd EXCEPT ![EventOf[i]] = ord[i]]
        /\ memState' = IF KeyOf[EventOf[i]] = NoKey
                       THEN memState ELSE [memState EXCEPT ![KeyOf[EventOf[i]]] = EventOf[i]]
    BY <1>0, Zenon DEF Apply, ApplyRows
  <1>b. /\ pc[i] = "committed" /\ pc' = [pc EXCEPT ![i] = "applied"]
        /\ stripe' = [stripe EXCEPT ![StripeFor(i)] = None]
        /\ UNCHANGED <<dbOrd, dbState, ord, row, crossed, behind>>
    BY Zenon DEF Apply
  <1>c. /\ memOrd \in [Events -> Positions] /\ memState \in [Keys -> Events \cup {None}]
        /\ dbOrd \in [Events -> Positions] /\ ord \in [Ingests -> Positions]
        /\ stripe \in [Stripes -> Ingests \cup {None}] /\ DOMAIN pc = Writers
    BY Zenon DEF TypeOK
  <1>s. \A j \in Ingests : StripeFor(j) \in Stripes /\ j # None
    BY Zenon DEF StripeFor
  <1>d. MembershipFollowsState' /\ member' \in [MemberKeys -> Events \cup {None}] /\ split' \subseteq MemberKeys
    <2>1. /\ EventOf[i] \in Events /\ split \subseteq MemberKeys /\ member \in [MemberKeys -> Events \cup {None}]
          /\ MembershipFollowsState /\ (UpsertMembership(EventOf[i]) \/ MembershipFails(EventOf[i]))
      BY Zenon DEF TypeOK, StreamIsSound, Apply
    <2> QED
      BY <1>a, <1>c, <2>1, MembershipKept, Zenon
  <1>1. TypeOK'
    <2>1. memOrd' \in [Events -> Positions] /\ memState' \in [Keys -> Events \cup {None}]
      BY <1>a, <1>c
    <2>2. /\ stripe' \in [Stripes -> Ingests \cup {None}]
          /\ pc' \in [Writers -> {"idle", "reserved", "prepared", "committed", "applied", "done", "failed"}]
      BY Zenon DEF Apply, TypeOK, StripeFor
    <2> QED
      BY <1>d, <2>1, <2>2, Zenon DEF Apply, TypeOK, counterVars, clientVars
  <1>2. Landed'
    BY <1>b, <1>c, Zenon DEF Landed
  <1>3. Below'
    BY Zenon DEF Apply, Below, counterVars, TypeOK
  <1>4. Held' /\ Rowed'
    <2>1. Held'
      BY <1>0, <1>b, <1>c, <1>s DEF Held
    <2>2. Rowed'
      BY <1>b, <1>c, Zenon DEF Rowed
    <2> QED
      BY <2>1, <2>2, Zenon
  <1>5. InTransit'
    <2>1. \A j \in Ingests : EventOf[j] = EventOf[i] => StripeFor(j) = StripeFor(i)
      BY Zenon DEF StripeFor
    <2>2. \A j \in Ingests : pc[j] = "committed" => stripe[StripeFor(j)] = j
      BY Zenon DEF Held
    <2>3. \A j \in Ingests : pc[j] = "committed" /\ EventOf[j] = EventOf[i] => j = i
      BY <1>0, <2>1, <2>2, Zenon
    <2> QED
      BY <1>a, <1>b, <1>c, <2>3 DEF InTransit
  <1>6. OrderingsUnique'
    BY <1>b, <1>c, Zenon DEF StreamIsSound, OrderingsUnique
  <1>7. EventsMirrored'
    BY <1>0, <1>a, <1>b, <1>c, <1>s DEF StreamIsSound, EventsMirrored
  <1>8. StateMirrored'
    <2>1. KeyOf[EventOf[i]] \in Keys \cup {NoKey} /\ NoKey \notin Keys
      BY Zenon
    <2>2. KeyOf[EventOf[i]] \in Keys \ crossed => dbState[KeyOf[EventOf[i]]] = EventOf[i]
      BY <1>b, Zenon DEF Landed
    <2> QED
      BY <1>a, <1>b, <1>c, <2>1, <2>2 DEF StreamIsSound, StateMirrored
  <1>9. TokenNotAhead'
    BY Zenon DEF Apply, StreamIsSound, TokenNotAhead, clientVars, counterVars
  <1> QED
    BY <1>1, <1>2, <1>3, <1>4, <1>5, <1>6, <1>7, <1>8, <1>9, <1>d, Zenon DEF IInv, StreamIsSound

\* Announcing changes the notifier and the locals of a call that returns.
LEMMA AnnounceStep ==
  ASSUME IInv, NEW i \in Ingests, Announce(i)
  PROVE  IInv'
  <1> TypeOK /\ Below /\ Held /\ Rowed /\ InTransit /\ Landed /\ StreamIsSound
    BY Zenon DEF IInv
  <1>a. /\ pc[i] = "applied" /\ pc' = [pc EXCEPT ![i] = "done"]
        /\ ord' = [ord EXCEPT ![i] = 0]
        /\ row' = [row EXCEPT ![i] = "none"]
        /\ UNCHANGED <<counterVars, dbOrd, memOrd, dbState, memState, crossed, stripe>>
    BY Zenon DEF Announce, Return, storeVars, history
  <1>b. ord \in [Ingests -> Positions] /\ DOMAIN pc = Writers /\ DOMAIN row = Ingests
    BY Zenon DEF TypeOK
  <1>c. 0 \in Positions /\ 0 \in Nat /\ 0 < next
    BY DEF TypeOK
  <1>1. TypeOK'
    <2>1. notified' \in [ord : Positions, sync : Nat]
      BY Published, Zenon DEF Announce, TypeOK
    <2> QED
      BY <1>c, <2>1, Zenon DEF Announce, Return, TypeOK, counterVars, storeVars, clientVars, history
  <1>2. Below'
    <2>1. \A j \in Ingests : ord'[j] < next'
      BY <1>a, <1>b, <1>c, Zenon DEF Below, counterVars
    <2> QED
      BY <1>a, <2>1, Zenon DEF Below, counterVars
  <1>3. Held' /\ Rowed'
    BY <1>a, <1>b, Zenon DEF Held, Rowed, StripeFor
  <1>4. InTransit' /\ OrderingsUnique' /\ EventsMirrored' /\ Landed' /\ StateMirrored'
    <2>1. /\ \A j \in InFlight' : j \in InFlight /\ ord'[j] = ord[j]
          /\ \A j \in Ingests : pc'[j] = "committed" <=> pc[j] = "committed"
      BY <1>a, <1>b, Zenon
    <2> QED
      BY <1>a, <2>1, RowsUntouched, StateKept, Zenon DEF StreamIsSound
  <1>5. MembershipFollowsState' /\ TokenNotAhead'
    BY Zenon DEF Announce, StreamIsSound, MembershipFollowsState, TokenNotAhead, storeVars, clientVars, counterVars,
                 history
  <1> QED
    BY <1>1, <1>2, <1>3, <1>4, <1>5, Zenon DEF IInv, StreamIsSound

\* A request that ends is no ingest, and no ingest moves with it.
LEMMA Finishing ==
  ASSUME NEW l \in Locals, NEW how \in {"done", "failed"}, Finish(l, how),
         pc \in [Writers -> {"idle", "reserved", "prepared", "committed", "applied", "done", "failed"}]
  PROVE  /\ \A i \in Ingests : pc'[i] = pc[i]
         /\ pc' \in [Writers -> {"idle", "reserved", "prepared", "committed", "applied", "done", "failed"}]
  BY Zenon DEF Finish

\* A store in one critical section, at the position next: the same row in the
\* database and in memory, under no other's position.
LEMMA StoreStep ==
  ASSUME IInv, NEW l \in Locals, NEW how \in {"done", "failed"}, StoreEvent(EventOf[l]), Finish(l, how),
         next' \in 1 .. (MaxOrderings + 1), next < next', eventMark' < next', UNCHANGED <<stripe, ord, row>>
  PROVE  /\ dbOrd' \in [Events -> Positions] /\ memOrd' \in [Events -> Positions]
         /\ dbState' \in [Keys -> Events \cup {None}] /\ memState' \in [Keys -> Events \cup {None}]
         /\ crossed' \subseteq Keys
         /\ Below' /\ Held' /\ Rowed' /\ InTransit' /\ Landed' /\ OrderingsUnique' /\ EventsMirrored' /\ StateMirrored'
  <1> DEFINE e == EventOf[l]
  <1> TypeOK /\ Below /\ Held /\ Rowed /\ InTransit /\ Landed /\ StreamIsSound
    BY Zenon DEF IInv
  <1>0. \A i \in Ingests : pc'[i] = pc[i]
    <2>1. pc \in [Writers -> {"idle", "reserved", "prepared", "committed", "applied", "done", "failed"}]
      BY Zenon DEF TypeOK
    <2> QED
      BY <2>1, Finishing, Zenon
  <1>1. /\ e \in Events /\ next \in Positions /\ next # 0
        /\ memOrd[e] = 0 /\ dbOrd[e] = 0
        /\ dbOrd' = [dbOrd EXCEPT ![e] = next] /\ memOrd' = [memOrd EXCEPT ![e] = next]
    <2>1. next \in Positions /\ next # 0
      <3>1. next \in 1 .. (MaxOrderings + 1)
        BY Zenon DEF TypeOK
      <3> QED
        BY <3>1
    <2> QED
      BY <2>1, Zenon DEF StoreEvent, Conflicts, CommitRows, ApplyRows
  <1>2. dbOrd' \in [Events -> Positions] /\ memOrd' \in [Events -> Positions]
    BY <1>1, Zenon DEF TypeOK
  <1>3. dbState' \in [Keys -> Events \cup {None}]
    BY <1>1, Zenon DEF StoreEvent, CommitRows, TypeOK
  <1>4. memState' \in [Keys -> Events \cup {None}]
    BY <1>1, Zenon DEF StoreEvent, ApplyRows, TypeOK
  <1>d. /\ KeyOf[e] \in Keys \cup {NoKey} /\ NoKey \notin Keys
        /\ dbState' = IF KeyOf[e] = NoKey THEN dbState ELSE [dbState EXCEPT ![KeyOf[e]] = e]
        /\ memState' = IF KeyOf[e] = NoKey THEN memState ELSE [memState EXCEPT ![KeyOf[e]] = e]
        /\ dbState \in [Keys -> Events \cup {None}] /\ memState \in [Keys -> Events \cup {None}]
        /\ crossed \subseteq Keys
    <2>1. RowFor(e) = "none" <=> KeyOf[e] = NoKey
      BY DEF RowFor
    <2> QED
      BY <1>1, <2>1, Zenon DEF StoreEvent, CommitRows, ApplyRows, TypeOK
  <1>e. /\ crossed' \subseteq Keys /\ crossed \subseteq crossed'
        /\ \A i \in Ingests : pc[i] = "committed" /\ KeyOf[EventOf[i]] \in Keys \ crossed' => KeyOf[EventOf[i]] # KeyOf[e]
    BY <1>d, Zenon DEF StoreEvent, Crossed
  <1> HIDE DEF e
  <1>a. /\ ord \in [Ingests -> Positions]
        /\ dbOrd \in [Events -> Positions] /\ memOrd \in [Events -> Positions]
        /\ \A f \in Events : dbOrd[f] < next
        /\ \A i \in Ingests : ord[i] < next
    BY Zenon DEF TypeOK, Below
  <1>b. /\ \A f \in Events : dbOrd[f] # next /\ dbOrd'[f] < next'
        /\ \A i \in Ingests : ord[i] # next /\ ord[i] < next'
    BY <1>1, <1>a
  <1>5. Below'
    BY <1>b, Zenon DEF Below
  <1>6. Held' /\ Rowed'
    BY <1>0, Zenon DEF Held, Rowed, StripeFor
  <1>c. InFlight' = InFlight
    BY <1>0, Zenon
  <1>7. InTransit'
    BY <1>0, <1>1, <1>a, <1>c DEF InTransit
  <1>8. OrderingsUnique'
    <2>1. \A f, g \in Events : dbOrd'[f] = dbOrd'[g] /\ dbOrd'[f] # 0 => f = g
      BY <1>1, <1>a, <1>b DEF StreamIsSound, OrderingsUnique
    <2>2. \A i \in InFlight : \A f \in Events :
             dbOrd'[f] = ord[i] => f = EventOf[i] /\ pc[i] = "committed"
      BY <1>1, <1>a, <1>b DEF StreamIsSound, OrderingsUnique
    <2> QED
      BY <1>0, <1>c, <2>1, <2>2, Zenon DEF StreamIsSound, OrderingsUnique
  <1>9. EventsMirrored'
    BY <1>0, <1>1, <1>a DEF StreamIsSound, EventsMirrored
  <1>f. Landed'
    BY <1>0, <1>d, <1>e DEF Landed
  <1>g. StateMirrored'
    BY <1>0, <1>d, <1>e DEF StreamIsSound, StateMirrored
  <1> QED
    BY <1>2, <1>3, <1>4, <1>5, <1>6, <1>7, <1>8, <1>9, <1>e, <1>f, <1>g, Zenon

\* A refused store leaves a gap in the orderings and nothing else.
LEMMA StoreFailsStep ==
  ASSUME IInv, NEW l \in Locals, StoreFails(l)
  PROVE  IInv'
  <1> TypeOK /\ Below /\ Held /\ Rowed /\ InTransit /\ Landed /\ StreamIsSound
    BY Zenon DEF IInv
  <1>0. /\ next' = next + 1 /\ next' \in 1 .. (MaxOrderings + 1)
        /\ next \in Nat /\ next' \in Nat /\ next < next' /\ next <= next'
        /\ eventMark' \in Positions /\ eventMark' < next'
    BY Allocation, Zenon DEF StoreFails, Below, TypeOK
  <1>1. /\ \A i \in Ingests : pc'[i] = pc[i]
        /\ pc' \in [Writers -> {"idle", "reserved", "prepared", "committed", "applied", "done", "failed"}]
    BY Finishing, Zenon DEF StoreFails, TypeOK
  <1>2. TypeOK'
    BY <1>0, <1>1, Zenon DEF StoreFails, TypeOK, storeVars, clientVars, history
  <1>a. /\ UNCHANGED <<dbOrd, memOrd, dbState, memState, member, stripe, ord, row, since, sinceSync, syncId>>
        /\ UNCHANGED <<crossed, split, behind>>
    BY Zenon DEF StoreFails, storeVars, clientVars, history
  <1>b. /\ dbOrd \in [Events -> Positions] /\ ord \in [Ingests -> Positions]
        /\ \A i \in Ingests : ord[i] < next
    BY Zenon DEF TypeOK, Below
  <1>3. Below'
    <2>1. \A i \in Ingests : ord'[i] < next'
      BY <1>0, <1>a, <1>b
    <2> QED
      BY <1>0, <1>a, <1>b, <2>1, BelowKept, Zenon
  <1>4. Landed' /\ StateMirrored'
    BY <1>1, <1>a, StateKept, Zenon DEF StreamIsSound
  <1>5. Held' /\ Rowed' /\ InTransit' /\ OrderingsUnique' /\ EventsMirrored'
    BY <1>1, <1>a, IngestsUntouched, Zenon DEF StreamIsSound
  <1>6. MembershipFollowsState'
    BY <1>a, Zenon DEF StreamIsSound, MembershipFollowsState
  <1>7. TokenNotAhead'
    BY <1>0, <1>a, TokensKept, Staying, Zenon DEF StreamIsSound, TypeOK
  <1> QED
    BY <1>2, <1>3, <1>4, <1>5, <1>6, <1>7, Zenon DEF IInv, StreamIsSound

\* send_event() writes no membership row, so the memberships still follow.
LEMMA SendEventStep ==
  ASSUME IInv, NEW l \in Locals, SendEvent(l)
  PROVE  IInv'
  <1> TypeOK /\ Below /\ Held /\ Rowed /\ InTransit /\ Landed /\ StreamIsSound
    BY Zenon DEF IInv
  <1>0. /\ next' = next + 1 /\ next' \in 1 .. (MaxOrderings + 1)
        /\ next \in Nat /\ next' \in Nat /\ next < next' /\ next <= next' /\ next + 1 - 1 \in Positions
        /\ eventMark' \in Positions /\ eventMark' < next'
    BY Allocation, Zenon DEF SendEvent, Below, TypeOK
  <1>a. /\ StoreEvent(EventOf[l]) /\ Finish(l, "done") /\ UNCHANGED <<stripe, ord, row>>
        /\ KeyOf[EventOf[l]] \notin MemberKeys
        /\ UNCHANGED <<member, syncId, since, sinceSync, split, behind>>
    BY Zenon DEF SendEvent, clientVars
  <1>1. /\ dbOrd' \in [Events -> Positions] /\ memOrd' \in [Events -> Positions]
        /\ dbState' \in [Keys -> Events \cup {None}] /\ memState' \in [Keys -> Events \cup {None}]
        /\ crossed' \subseteq Keys
        /\ Below' /\ Held' /\ Rowed' /\ InTransit' /\ Landed' /\ OrderingsUnique' /\ EventsMirrored' /\ StateMirrored'
    BY <1>0, <1>a, StoreStep, Zenon
  <1>2. pc' \in [Writers -> {"idle", "reserved", "prepared", "committed", "applied", "done", "failed"}]
    BY Finishing, Zenon DEF SendEvent, TypeOK
  <1>3. notified' \in [ord : Positions, sync : Nat]
    <2>1. next + 1 - 1 = next
      BY <1>0
    <2> QED
      BY <1>0, <2>1, Published, Zenon DEF SendEvent, TypeOK
  <1>4. TypeOK'
    BY <1>0, <1>1, <1>2, <1>3, Zenon DEF SendEvent, TypeOK, clientVars
  <1>6. MembershipFollowsState'
    <2>1. /\ memState \in [Keys -> Events \cup {None}]
          /\ memState' = memState \/ memState' = [memState EXCEPT ![KeyOf[EventOf[l]]] = EventOf[l]]
      BY <1>a, Zenon DEF TypeOK, StoreEvent, ApplyRows
    <2>2. \A k \in MemberKeys : memState'[k] = memState[k]
      BY <1>a, <2>1, Zenon
    <2> QED
      BY <1>a, <2>2, Zenon DEF StreamIsSound, MembershipFollowsState
  <1>7. TokenNotAhead'
    BY <1>0, <1>a, TokensKept, Staying, Zenon DEF StreamIsSound, TypeOK
  <1> QED
    BY <1>1, <1>4, <1>6, <1>7, Zenon DEF IInv, StreamIsSound

\* persist_membership_transition() and membership_acceptor, which differ in how
\* many positions they take.
LEMMA MembershipStep ==
  ASSUME IInv, NEW l \in Locals, NEW n \in {1, 2}, KeyOf[EventOf[l]] \in MemberKeys,
         AllocateOrderings(n), StoreEvent(EventOf[l]),
         \/ /\ UpsertMembership(EventOf[l]) /\ AllocateSyncId
            /\ Publish(next + n - 1, syncId + 1)
            /\ Finish(l, "done")
         \/ /\ MembershipFails(EventOf[l])
            /\ UNCHANGED <<syncId, syncMark, notified>>
            /\ Finish(l, "failed"),
         UNCHANGED <<stripe, ord, sid, row, clientVars, behind, surfaces, restarts>>
  PROVE  IInv'
  <1> TypeOK /\ Below /\ Held /\ Rowed /\ InTransit /\ Landed /\ StreamIsSound
    BY Zenon DEF IInv
  <1>0. /\ next' = next + n /\ next' \in 1 .. (MaxOrderings + 1)
        /\ next \in Nat /\ next' \in Nat /\ next < next' /\ next <= next' /\ next + n - 1 \in Positions
        /\ eventMark' \in Positions /\ eventMark' < next'
    BY Allocation, Zenon DEF Below, TypeOK
  <1>a. UNCHANGED <<since, sinceSync>>
    BY Zenon DEF clientVars
  <1>1. PICK how \in {"done", "failed"} : Finish(l, how)
    BY Zenon
  <1>2. /\ dbOrd' \in [Events -> Positions] /\ memOrd' \in [Events -> Positions]
        /\ dbState' \in [Keys -> Events \cup {None}] /\ memState' \in [Keys -> Events \cup {None}]
        /\ crossed' \subseteq Keys
        /\ Below' /\ Held' /\ Rowed' /\ InTransit' /\ Landed' /\ OrderingsUnique' /\ EventsMirrored' /\ StateMirrored'
    BY <1>0, <1>1, StoreStep, Zenon
  <1>3. pc' \in [Writers -> {"idle", "reserved", "prepared", "committed", "applied", "done", "failed"}]
    BY <1>1, Finishing, Zenon DEF TypeOK
  <1>4. MembershipFollowsState' /\ member' \in [MemberKeys -> Events \cup {None}] /\ split' \subseteq MemberKeys
    <2>1. /\ EventOf[l] \in Events /\ split \subseteq MemberKeys /\ MembershipFollowsState
          /\ member \in [MemberKeys -> Events \cup {None}] /\ memState \in [Keys -> Events \cup {None}]
          /\ memState' = IF KeyOf[EventOf[l]] = NoKey
                         THEN memState ELSE [memState EXCEPT ![KeyOf[EventOf[l]]] = EventOf[l]]
      BY Zenon DEF TypeOK, StreamIsSound, StoreEvent, ApplyRows
    <2> QED
      BY <2>1, MembershipKept, Zenon
  <1>5. syncId \in Nat /\ syncId' \in Nat /\ syncId <= syncId' /\ syncMark' \in Nat
        /\ notified' \in [ord : Positions, sync : Nat]
    <2>1. syncId \in Nat /\ syncMark \in Nat /\ notified \in [ord : Positions, sync : Nat]
      BY Zenon DEF TypeOK
    <2>2. CASE AllocateSyncId /\ Publish(next + n - 1, syncId + 1)
      BY <1>0, <2>1, <2>2, SyncAllocation, Published, Zenon
    <2>3. CASE UNCHANGED <<syncId, syncMark, notified>>
      BY <2>1, <2>3, Staying, Zenon
    <2> QED
      BY <2>2, <2>3, Zenon
  <1>6. TypeOK'
    BY <1>0, <1>2, <1>3, <1>4, <1>5, Zenon DEF TypeOK, clientVars
  <1>7. TokenNotAhead'
    BY <1>0, <1>a, <1>5, TokensKept, Zenon DEF StreamIsSound, TypeOK
  <1> QED
    BY <1>2, <1>4, <1>6, <1>7, Zenon DEF IInv, StreamIsSound

\* The requests that store an event in one critical section.
LEMMA LocalSteps ==
  ASSUME IInv, NEW l \in Locals, LocalStep(l)
  PROVE  IInv'
  <1>1. CASE StoreFails(l)
    BY <1>1, StoreFailsStep, Zenon
  <1>2. CASE SendEvent(l)
    BY <1>2, SendEventStep, Zenon
  <1>3. CASE PersistMembership(l)
    <2>1. next + 2 - 1 = next + 1
      BY DEF IInv, TypeOK
    <2> QED
      BY <1>3, <2>1, MembershipStep, Zenon DEF PersistMembership
  <1>4. CASE AcceptMembership(l)
    <2>1. next + 1 - 1 = next
      BY DEF IInv, TypeOK
    <2> QED
      BY <1>4, <2>1, MembershipStep, Zenon DEF AcceptMembership
  <1> QED
    BY <1>1, <1>2, <1>3, <1>4, Zenon DEF LocalStep

\* A sync surface moves the second counter alone.
LEMMA SurfaceStep ==
  ASSUME IInv, Surface
  PROVE  IInv'
  <1> TypeOK /\ Below /\ Held /\ Rowed /\ InTransit /\ Landed /\ StreamIsSound
    BY Zenon DEF IInv
  <1>0. /\ syncId' \in Nat /\ syncId <= syncId' /\ syncMark' \in Nat /\ syncId \in Nat /\ syncId + 1 \in Nat
    BY SyncAllocation, Zenon DEF Surface, AllocateSyncId, TypeOK
  <1>a. /\ UNCHANGED <<dbOrd, memOrd, dbState, memState, member, stripe, ord, row, pc, next, eventMark>>
        /\ UNCHANGED <<since, sinceSync, crossed, split, behind>>
    BY Zenon DEF Surface, storeVars, ingestVars, clientVars, history
  <1>b. next - 1 \in Positions /\ next \in Nat /\ surfaces' \in 0 .. MaxSurfaces
    <2>1. /\ next \in 1 .. (MaxOrderings + 1) /\ surfaces \in 0 .. MaxSurfaces
          /\ surfaces < MaxSurfaces /\ surfaces' = surfaces + 1
      BY Zenon DEF Surface, TypeOK
    <2> QED
      BY <2>1
  <1>1. notified' \in [ord : Positions, sync : Nat]
    BY <1>0, <1>b, Published, Zenon DEF Surface, TypeOK
  <1>2. TypeOK'
    BY <1>0, <1>1, <1>b, Zenon DEF Surface, TypeOK, storeVars, ingestVars, clientVars, history
  <1>3. Below' /\ MembershipFollowsState'
    BY <1>a, Zenon DEF Below, StreamIsSound, MembershipFollowsState
  <1>4. Held' /\ Rowed' /\ InTransit' /\ OrderingsUnique' /\ EventsMirrored' /\ Landed' /\ StateMirrored'
    BY <1>a, IngestsUntouched, StateKept, Zenon DEF StreamIsSound
  <1>5. TokenNotAhead'
    BY <1>0, <1>a, <1>b, TokensKept, Staying, Zenon DEF StreamIsSound, TypeOK
  <1> QED
    BY <1>2, <1>3, <1>4, <1>5, Zenon DEF IInv, StreamIsSound

\* A /sync request touches the client's token and the counter of the surfaces.
LEMMA SyncFrameStep ==
  ASSUME IInv, SyncFrame,
         syncId' \in Nat, syncMark' \in Nat,
         since' \in [Clients -> Positions], sinceSync' \in [Clients -> Nat],
         got' \in [Clients -> SUBSET Events], waiting' \in [Clients -> BOOLEAN],
         TokenNotAhead'
  PROVE  IInv'
  <1> TypeOK /\ Below /\ Held /\ Rowed /\ InTransit /\ Landed /\ StreamIsSound
    BY Zenon DEF IInv
  <1>1. TypeOK'
    BY Zenon DEF SyncFrame, TypeOK, storeVars, ingestVars, history
  <1>a. UNCHANGED <<dbOrd, memOrd, dbState, memState, member, stripe, ord, row, pc, next, eventMark, crossed, split>>
    BY Zenon DEF SyncFrame, storeVars, ingestVars, history
  <1>2. Below' /\ MembershipFollowsState'
    BY <1>a, Zenon DEF Below, StreamIsSound, MembershipFollowsState
  <1>3. Held' /\ Rowed' /\ InTransit' /\ OrderingsUnique' /\ EventsMirrored' /\ Landed' /\ StateMirrored'
    BY <1>a, IngestsUntouched, StateKept, Zenon DEF StreamIsSound
  <1> QED
    BY <1>1, <1>2, <1>3, Zenon DEF IInv, StreamIsSound

\* A response hands out the counters as they are.
LEMMA RespondStep ==
  ASSUME IInv, NEW c \in Clients, Respond(c), SyncFrame
  PROVE  IInv'
  <1> TypeOK /\ Below /\ Held /\ Rowed /\ InTransit /\ Landed /\ StreamIsSound
    BY Zenon DEF IInv
  <1>0. /\ syncId' \in Nat /\ syncMark' \in Nat
        /\ syncId <= syncId' /\ sinceSync[c] <= syncId'
    BY DEF Respond, EnsureAhead, TypeOK
  <1>1. since' \in [Clients -> Positions] /\ sinceSync' \in [Clients -> Nat]
    BY DEF Respond, TokenOrdering, TypeOK
  <1>2. got' \in [Clients -> SUBSET Events] /\ waiting' \in [Clients -> BOOLEAN]
    BY Zenon DEF Respond, EventsAfter, TypeOK
  <1>t. /\ next \in Nat /\ syncId \in Nat /\ since \in [Clients -> Positions] /\ sinceSync \in [Clients -> Nat]
        /\ UNCHANGED <<next, behind>>
    <2>1. next \in Nat
      BY DEF TypeOK
    <2> QED
      BY <2>1, Zenon DEF TypeOK, SyncFrame, history
  <1>3. TokenNotAhead'
    <2>1. /\ since' = [since EXCEPT ![c] = next - 1]
          /\ sinceSync' = [sinceSync EXCEPT ![c] = Larger(@, syncId)]
      BY Zenon DEF Respond, TokenOrdering
    <2> QED
      BY <1>0, <1>t, <2>1 DEF StreamIsSound, TokenNotAhead
  <1> QED
    BY <1>0, <1>1, <1>2, <1>3, SyncFrameStep, Zenon

\* A client that parks keeps its token.
LEMMA ParkStep ==
  ASSUME IInv, NEW c \in Clients, Park(c), SyncFrame
  PROVE  IInv'
  <1> TypeOK /\ Below /\ Held /\ Rowed /\ InTransit /\ Landed /\ StreamIsSound
    BY Zenon DEF IInv
  <1>0. /\ syncId' \in Nat /\ syncMark' \in Nat
        /\ syncId <= syncId'
    BY DEF Park, EnsureAhead, TypeOK
  <1>1. /\ since' \in [Clients -> Positions] /\ sinceSync' \in [Clients -> Nat]
        /\ got' \in [Clients -> SUBSET Events] /\ waiting' \in [Clients -> BOOLEAN]
    BY Zenon DEF Park, TypeOK
  <1>t. /\ next \in Nat /\ syncId \in Nat /\ since \in [Clients -> Positions] /\ sinceSync \in [Clients -> Nat]
        /\ UNCHANGED <<next, behind>>
    <2>1. next \in Nat
      BY DEF TypeOK
    <2> QED
      BY <2>1, Zenon DEF TypeOK, SyncFrame, history
  <1>2. TokenNotAhead'
    BY <1>0, <1>t, TokensKept, Staying, Zenon DEF Park, StreamIsSound
  <1> QED
    BY <1>0, <1>1, <1>2, SyncFrameStep, Zenon

\* The steps of GET /sync.
LEMMA ClientSteps ==
  ASSUME IInv, NEW c \in Clients, Poll(c) \/ Wake(c) \/ Expire(c) \/ SyncRefused(c)
  PROVE  IInv'
  <1>1. CASE Poll(c) \/ Wake(c) \/ Expire(c)
    BY <1>1, RespondStep, ParkStep, Zenon DEF Poll, Wake, Expire
  <1>2. CASE SyncRefused(c)
    <2> TypeOK /\ Below /\ Held /\ Rowed /\ InTransit /\ Landed /\ StreamIsSound
      BY Zenon DEF IInv
    <2>1. /\ syncId' \in Nat /\ syncMark' \in Nat /\ syncId <= syncId'
          /\ since' \in [Clients -> Positions] /\ sinceSync' \in [Clients -> Nat]
          /\ got' \in [Clients -> SUBSET Events] /\ waiting' \in [Clients -> BOOLEAN]
          /\ "watermark" \in Faults /\ SyncFrame
      <3>1. /\ syncId' = sinceSync[c] /\ syncId < sinceSync[c] /\ syncId \in Nat
            /\ sinceSync \in [Clients -> Nat]
        BY <1>2 DEF SyncRefused, TypeOK
      <3>2. syncId <= syncId' /\ syncId' \in Nat
        BY <3>1
      <3> QED
        BY <1>2, <3>2, Zenon DEF SyncRefused, clientVars, TypeOK
    <2>2. TokenNotAhead'
      <3>1. /\ UNCHANGED <<next, since, sinceSync, behind>>
            /\ since \in [Clients -> Positions] /\ sinceSync \in [Clients -> Nat] /\ syncId \in Nat
        BY <1>2, Zenon DEF SyncRefused, SyncFrame, clientVars, history, TypeOK
      <3>2. next \in Nat
        BY DEF TypeOK
      <3> QED
        BY <2>1, <3>1, <3>2, TokensKept, Staying, Zenon DEF StreamIsSound
    <2> QED
      BY <2>1, <2>2, SyncFrameStep, Zenon
  <1> QED
    BY <1>1, <1>2, Zenon

\* IInv is inductive.
LEMMA NextIInv == IInv /\ [Next]_vars => IInv'
  <1> SUFFICES ASSUME IInv, [Next]_vars PROVE IInv'
    BY Zenon
  <1>1. ASSUME NEW i \in Ingests, Reserve(i) \/ IngestStep(i) PROVE IInv'
    BY <1>1, ReserveStep, PrepareStep, CommitStep, ApplyStep, AnnounceStep, Zenon DEF IngestStep
  <1>2. CASE UNCHANGED vars
    <2>0. UNCHANGED <<dbOrd, memOrd, dbState, memState, ord, pc, row, stripe, crossed>>
      BY <1>2, Zenon DEF vars, storeVars, ingestVars, history
    <2> TypeOK /\ Below /\ Held /\ Rowed /\ InTransit /\ Landed /\ StreamIsSound
      BY Zenon DEF IInv
    <2>1. TypeOK'
      BY <1>2, Zenon DEF TypeOK, vars, counterVars, storeVars, ingestVars, clientVars, history
    <2>2. Below'
      BY <1>2, Zenon DEF Below, vars, counterVars, storeVars, ingestVars
    <2>3. Held' /\ Rowed' /\ InTransit' /\ OrderingsUnique' /\ EventsMirrored' /\ Landed' /\ StateMirrored'
      BY <2>0, IngestsUntouched, StateKept, Zenon DEF StreamIsSound
    <2>4. MembershipFollowsState' /\ TokenNotAhead'
      BY <1>2, Zenon DEF StreamIsSound, MembershipFollowsState, TokenNotAhead, vars, counterVars, storeVars,
                         clientVars, history
    <2> QED
      BY <2>1, <2>2, <2>3, <2>4, Zenon DEF IInv, StreamIsSound
  <1> QED
    BY <1>1, <1>2, LocalSteps, SurfaceStep, ClientSteps, RestartStep, Zenon DEF Next

\* What StreamIsSound promises holds for any number of events, rooms, stripes,
\* ingests, local requests, clients and restarts, whatever interleaves with the
\* unlocked commit of ingest_pdu_event() and whichever writes fail.
THEOREM StreamCorrect == Spec => []StreamIsSound
  <1>1. IInv => StreamIsSound
    BY Zenon DEF IInv
  <1> QED
    BY <1>1, InitIInv, NextIInv, PTL DEF Spec

\* Every variable keeps its type, for all constants.
THEOREM TypeCorrect == Spec => []TypeOK
  <1>1. IInv => TypeOK
    BY Zenon DEF IInv
  <1> QED
    BY <1>1, InitIInv, NextIInv, PTL DEF Spec
=============================================================================
