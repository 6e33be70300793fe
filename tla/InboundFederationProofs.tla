---------------------- MODULE InboundFederationProofs ----------------------
(***************************************************************************)
(* That peers are held to their keys, and that the replay-dedup ring       *)
(* implements TransactionLedger, for any number of threads, origins, keys  *)
(* and requests, and with no bound on the transactions a peer sends.       *)
(*                                                                         *)
(* What the threads share and what each of them copied is constrained      *)
(* apart: CacheOK and RemotesOK say that a key recorded for a server is    *)
(* one that it publishes, ThreadOK that the same is so of a thread's copy, *)
(* and how far a thread can be with that copy.  No condition relates a     *)
(* copy to the record it was taken from, which other threads have since    *)
(* overwritten: that is why the properties survive the races.              *)
(***************************************************************************)
EXTENDS InboundFederation, TLAPS

\* A leaf that names no prover is SMT's, and has half a minute.
USE SMTT(30)

Records == [key : KeyIds, gen : Nat, failures : Nat]

\* The threads that serve a request.
Busy ==
    [pc : {"snapshot", "resolving", "resolved", "known", "refreshing", "refreshed", "gate", "serve", "walk"},
     req : Requests, now : [Origins -> Nat], remote : Records \cup {NoRemote}, fresh : BOOLEAN,
     found : Nat, todo : Seq(Pdus), bad : Nat]

\* How far a request is tells what its thread holds: no copy of the peer until
\* one is known, and a trusted one from the gate on.
ThreadOK(s) ==
    \/ s = Idle
    \/ /\ s \in Busy
       /\ s.found # 0 => s.req.key \in Published[s.req.origin]
       /\ s.remote # NoRemote => s.remote.key \in Published[s.req.origin]
       /\ s.pc \in {"snapshot", "resolving", "resolved"} <=> s.remote = NoRemote
       /\ s.pc \in {"serve", "walk"} => s.remote.failures < 3
       /\ s.pc = "walk" => s.req.kind = "txn"

ThreadsOK == th \in [Threads -> {Idle} \cup Busy] /\ \A t \in Threads : ThreadOK(th[t])

CacheOK(rows) ==
    /\ rows \in [Origins -> [KeyIds -> Nat]]
    /\ \A o \in Origins, k \in KeyIds : rows[o][k] # 0 => k \in Published[o]

RemotesOK ==
    /\ remotes \in [Origins -> Records \cup {NoRemote}]
    /\ \A o \in Origins : remotes[o] # NoRemote => remotes[o].key \in Published[o]

ClocksOK == gen \in [Origins -> Nat] /\ lapsed \in [Origins -> Nat]

AdmittedUnderSendersKey == \A s \in sunk : UnderSendersKey(s)

IInv ==
    /\ ThreadsOK /\ CacheOK(cache) /\ RemotesOK /\ ClocksOK
    /\ accepted \in Seq(walked)
    /\ AdmittedUnderSendersKey

-----------------------------------------------------------------------------
USE InboundAssumption, RequestsAssumption

\* Nobody is known and no request has arrived.
LEMMA InitIInv == Init => IInv
  BY DEF Init, IInv, ThreadsOK, ThreadOK, CacheOK, RemotesOK, ClocksOK, AdmittedUnderSendersKey

\* What the resolver leaves in the cache and returns is published by the origin.
LEMMA Resolver ==
  ASSUME CacheOK(cache), ClocksOK, NEW o \in Origins, NEW k \in KeyIds, NEW found \in Nat,
         found # 0 => k \in Published[o],
         NEW out \in ResolverOutcomes(o, k, found)
  PROVE  CacheOK(out[1]) /\ out[2] \in Nat /\ (out[2] # 0 => k \in Published[o])
  <1>1. CacheOK(FetchedRows(o))
    BY Zenon DEF FetchedRows, FetchedKeys, CacheOK, ClocksOK
  <1>2. /\ FetchedRows(o)[o][k] \in Nat
        /\ FetchedRows(o)[o][k] # 0 => k \in Published[o]
    BY <1>1 DEF CacheOK
  <1> QED
    BY <1>1, <1>2 DEF ResolverOutcomes

\* A key the resolver finds in the cache is one its peer has published.
LEMMA CachedIsPublished ==
  ASSUME CacheOK(cache), NEW o \in Origins, NEW k \in KeyIds
  PROVE  CachedKey(o, k) \in Nat /\ (CachedKey(o, k) # 0 => k \in Published[o])
  BY DEF CachedKey, CacheOK

\* A step that gives one thread a good state leaves the others theirs.
LEMMA ThreadMoves ==
  ASSUME ThreadsOK, NEW t \in Threads, NEW x, ThreadOK(x), th' = [th EXCEPT ![t] = x]
  PROVE  ThreadsOK'
  BY DEF ThreadsOK, ThreadOK

\* A thread that replies is idle.
LEMMA Replying ==
  ASSUME ThreadsOK, NEW t \in Threads, Reply(t)
  PROVE  ThreadsOK'
  BY ThreadMoves, Zenon DEF Reply, ThreadOK

\* What a thread that is not idle holds.
LEMMA BusyFacts ==
  ASSUME ThreadsOK, NEW t \in Threads, th[t].pc # "idle"
  PROVE  /\ th[t] \in Busy
         /\ th[t].req \in Requests /\ th[t].req.origin \in Origins /\ th[t].req.key \in KeyIds
         /\ th[t].found \in Nat /\ th[t].now \in [Origins -> Nat]
         /\ th[t].found # 0 => th[t].req.key \in Published[th[t].req.origin]
         /\ th[t].remote # NoRemote =>
               th[t].remote \in Records /\ th[t].remote.key \in Published[th[t].req.origin]
         /\ th[t].pc \in {"snapshot", "resolving", "resolved"} <=> th[t].remote = NoRemote
         /\ th[t].pc \in {"serve", "walk"} => th[t].remote.failures < 3
         /\ th[t].pc = "walk" => th[t].req.kind = "txn"
  <1>1. th[t] # Idle
    BY DEF Idle
  <1> QED
    BY <1>1 DEF ThreadsOK, ThreadOK, Busy

\* The trust counter of a record can be set without touching its key.
LEMMA Trusting ==
  ASSUME RemotesOK, NEW o \in Origins, NEW n \in Nat, PersistTrust(o, n)
  PROVE  RemotesOK'
  BY DEF RemotesOK, PersistTrust, Records

\* A key that authorises a PDU is one that its sender's server publishes.
LEMMA KeyOfThePdu ==
  ASSUME IInv, NEW t \in Threads, th[t].pc \in {"serve", "walk"}, NEW p \in Pdus, NEW out \in KeysFor(t, p)
  PROVE  /\ CacheOK(out[1])
         /\ Authorised(t, p, out[2]) =>
               /\ out[2].dom = p.sender /\ out[2].key \in Published[p.sender]
               /\ out[2].gen > th[t].now[out[2].dom] /\ p.genuine
  <1>0. /\ th[t].remote \in Records
        /\ th[t].remote.key \in Published[th[t].req.origin]
        /\ p.sender \in Origins /\ p.key \in KeyIds
    BY BusyFacts, Zenon DEF IInv, Pdus
  <1>1. CASE p.sender = th[t].req.origin
    <2>1. out = <<cache, [dom |-> p.sender, key |-> th[t].remote.key, gen |-> th[t].remote.gen]>>
      BY <1>1, Zenon DEF KeysFor
    <2> QED
      BY <1>0, <1>1, <2>1, Zenon DEF Authorised, IInv
  <1>2. CASE p.sender # th[t].req.origin
    <2>1. PICK res \in ResolverOutcomes(p.sender, p.key, CachedKey(p.sender, p.key)) :
            out = <<res[1], [dom |-> p.sender, key |-> p.key, gen |-> res[2]]>>
      BY <1>2, Zenon DEF KeysFor
    <2>2. /\ CachedKey(p.sender, p.key) \in Nat
          /\ CachedKey(p.sender, p.key) # 0 => p.key \in Published[p.sender]
      BY <1>0 DEF CachedKey, IInv, CacheOK
    <2>3. CacheOK(res[1]) /\ res[2] \in Nat /\ (res[2] # 0 => p.key \in Published[p.sender])
      BY <1>0, <2>2, Resolver, Zenon DEF IInv
    <2> QED
      BY <2>1, <2>3, Zenon DEF Authorised
  <1> QED
    BY <1>1, <1>2, Zenon

-----------------------------------------------------------------------------
(* Each action keeps IInv.                                                 *)

\* A request that arrives has copied nothing yet.
LEMMA ReceiveStep ==
  ASSUME IInv, NEW t \in Threads, NEW r \in Requests, Receive(t, r)
  PROVE  IInv'
  <1> DEFINE x == [pc |-> "snapshot", req |-> r, now |-> lapsed, remote |-> NoRemote,
                   fresh |-> FALSE, found |-> 0, todo |-> <<>>, bad |-> 0]
  <1>1. ThreadOK(x)
    BY DEF IInv, ClocksOK, ThreadOK, Busy
  <1>2. ThreadsOK'
    BY <1>1, ThreadMoves, Zenon DEF Receive, IInv, ThreadsOK
  <1> QED
    BY <1>2, Zenon DEF Receive, IInv, CacheOK, RemotesOK, ClocksOK, AdmittedUnderSendersKey, keyVars, logVars

\* The resolver starts from a copy that is as good as the shared record, and
\* with the key that is cached.
LEMMA Beginning ==
  ASSUME IInv, NEW t \in Threads, th[t].pc # "idle", NEW pc \in {"resolving", "refreshing"},
         NEW copy \in Records \cup {NoRemote}, BeginResolution(t, pc, copy),
         copy # NoRemote => copy.key \in Published[th[t].req.origin],
         pc = "resolving" <=> copy = NoRemote
  PROVE  ThreadsOK'
  <1> DEFINE r == th[t].req
             Enter(chg) == [th[t] EXCEPT !.pc = pc, !.remote = copy, !.fresh = ~chg,
                                         !.found = CachedKey(r.origin, r.key)]
  <1>1. ASSUME NEW chg \in BOOLEAN PROVE ThreadOK(Enter(chg))
    <2>1. /\ CachedKey(r.origin, r.key) \in Nat
          /\ CachedKey(r.origin, r.key) # 0 => r.key \in Published[r.origin]
      <3>1. CacheOK(cache) /\ r.origin \in Origins /\ r.key \in KeyIds
        BY BusyFacts, Zenon DEF IInv
      <3> QED
        BY <3>1, CachedIsPublished, Zenon
    <2>2. th[t] \in Busy
      BY BusyFacts, Zenon DEF IInv
    <2> QED
      BY <2>1, <2>2, ZenonT(30) DEF ThreadOK, Busy
  <1>2. CASE Reply(t)
    BY <1>2, Replying, Zenon DEF IInv
  <1>3. CASE ~Reply(t)
    <2>1. PICK chg \in BOOLEAN : th' = [th EXCEPT ![t] = Enter(chg)]
      BY <1>3, Zenon DEF BeginResolution
    <2> QED
      BY <1>1, <2>1, ThreadMoves, Zenon DEF IInv
  <1> QED
    BY <1>2, <1>3, Zenon

\* The copy of the peer is as good as its record.
LEMMA SnapshotStep ==
  ASSUME IInv, NEW t \in Threads, Snapshot(t)
  PROVE  IInv'
  <1> DEFINE copy == remotes[th[t].req.origin]
  <1>0. th[t].pc = "snapshot" /\ th[t] \in Busy /\ th[t].req.origin \in Origins
    BY BusyFacts, Zenon DEF Snapshot, At, IInv
  <1>1. copy \in Records \cup {NoRemote} /\ (copy # NoRemote => copy.key \in Published[th[t].req.origin])
    BY <1>0, Zenon DEF IInv, RemotesOK
  <1>2. ThreadsOK'
    <2>1. CASE copy = NoRemote
      BY <1>0, <1>1, <2>1, Beginning, Zenon DEF Snapshot
    <2>2. CASE copy # NoRemote
      <3>1. ThreadOK([th[t] EXCEPT !.pc = "known", !.remote = copy])
        BY <1>0, <1>1, <2>2, BusyFacts, Zenon DEF ThreadOK, Busy, IInv
      <3> QED
        BY <2>2, <3>1, ThreadMoves, Zenon DEF Snapshot, IInv
    <2> QED
      BY <2>1, <2>2, Zenon
  <1> QED
    BY <1>2, Zenon DEF Snapshot, IInv, CacheOK, RemotesOK, ClocksOK, AdmittedUnderSendersKey, envVars, logVars

\* A known peer's key is resolved again, or serves.
LEMMA RefreshStep ==
  ASSUME IInv, NEW t \in Threads, Refresh(t)
  PROVE  IInv'
  <1>0. /\ th[t].pc = "known" /\ th[t] \in Busy /\ th[t].remote \in Records
        /\ th[t].remote # NoRemote /\ th[t].remote.key \in Published[th[t].req.origin]
    BY BusyFacts, Zenon DEF Refresh, At, IInv
  <1>1. ThreadsOK'
    <2>1. CASE NeedsRefresh(t, th[t].remote)
      BY <1>0, <2>1, Beginning, Zenon DEF Refresh
    <2>2. CASE ~NeedsRefresh(t, th[t].remote)
      <3>1. ThreadOK([th[t] EXCEPT !.pc = "gate"])
        BY <1>0, BusyFacts, Zenon DEF ThreadOK, Busy, IInv
      <3> QED
        BY <2>2, <3>1, ThreadMoves, Zenon DEF Refresh, Goto, IInv
    <2> QED
      BY <2>1, <2>2, Zenon
  <1> QED
    BY <1>1, Zenon DEF Refresh, IInv, CacheOK, RemotesOK, ClocksOK, AdmittedUnderSendersKey, envVars, logVars

\* The resolver answers with a key of the peer, or none.
LEMMA ResolveStep ==
  ASSUME IInv, NEW t \in Threads, Resolve(t)
  PROVE  IInv'
  <1>0. th[t].pc \in {"resolving", "refreshing"} /\ th[t] \in Busy
    BY BusyFacts, Zenon DEF Resolve, IInv
  <1> DEFINE After(out) == [th[t] EXCEPT !.found = out[2],
                                 !.pc = IF th[t].pc = "resolving" THEN "resolved" ELSE "refreshed"]
  <1>1. PICK out \in ResolverOutcomes(th[t].req.origin, th[t].req.key, th[t].found) :
          cache' = out[1] /\ th' = [th EXCEPT ![t] = After(out)]
    BY Zenon DEF Resolve
  <1>2. CacheOK(out[1]) /\ out[2] \in Nat /\ (out[2] # 0 => th[t].req.key \in Published[th[t].req.origin])
    BY <1>0, BusyFacts, Resolver, Zenon DEF IInv
  <1>3. ThreadOK(After(out))
    BY <1>0, <1>2, BusyFacts, ZenonT(30) DEF ThreadOK, Busy, IInv
  <1> HIDE DEF After
  <1>4. ThreadsOK'
    BY <1>1, <1>3, ThreadMoves, Zenon DEF IInv
  <1> QED
    BY <1>1, <1>2, <1>4, Zenon DEF Resolve, IInv, CacheOK, RemotesOK, ClocksOK, AdmittedUnderSendersKey,
       envVars, logVars

\* The record of a new peer holds a key that was resolved for it.
LEMMA InstallStep ==
  ASSUME IInv, NEW t \in Threads, Install(t)
  PROVE  IInv'
  <1> DEFINE r == th[t].req
             record == [key |-> r.key, gen |-> th[t].found, failures |-> 0]
  <1>0. th[t].pc = "resolved" /\ th[t] \in Busy /\ r.origin \in Origins /\ th[t].found \in Nat
    BY BusyFacts, Zenon DEF Install, At, IInv
  <1>1. CASE th[t].found # 0
    <2>1. record \in Records /\ record.key \in Published[r.origin] /\ record # NoRemote
      BY <1>0, <1>1, BusyFacts DEF IInv, Records
    <2>2. ThreadOK([th[t] EXCEPT !.pc = "known", !.remote = record])
      BY <1>0, <2>1, BusyFacts, Zenon DEF ThreadOK, Busy, IInv
    <2> HIDE DEF record
    <2>3. /\ remotes' = [remotes EXCEPT ![r.origin] = record]
          /\ th' = [th EXCEPT ![t] = [th[t] EXCEPT !.pc = "known", !.remote = record]]
      BY <1>1, Zenon DEF Install, record
    <2>4. ThreadsOK'
      BY <2>2, <2>3, ThreadMoves, Zenon DEF IInv
    <2>5. RemotesOK'
      BY <1>0, <2>1, <2>3, Zenon DEF IInv, RemotesOK
    <2> QED
      BY <2>4, <2>5, Zenon DEF Install, IInv, CacheOK, ClocksOK, AdmittedUnderSendersKey, envVars, logVars
  <1>2. CASE th[t].found = 0
    <2>1. ThreadsOK' /\ UNCHANGED remotes
      BY <1>2, Replying, Zenon DEF Install, IInv
    <2> QED
      BY <2>1, Zenon DEF Install, IInv, CacheOK, RemotesOK, ClocksOK, AdmittedUnderSendersKey, envVars, logVars
  <1> QED
    BY <1>1, <1>2, Zenon

\* A refreshed key is one the peer publishes, in the copy and in the record.
LEMMA InstallKeyStep ==
  ASSUME IInv, NEW t \in Threads, InstallKey(t)
  PROVE  IInv'
  <1> DEFINE r == th[t].req
             g == th[t].found
  <1>0. /\ th[t].pc = "refreshed" /\ th[t] \in Busy /\ r.origin \in Origins /\ r.key \in KeyIds
        /\ th[t].remote \in Records /\ th[t].remote # NoRemote /\ g \in Nat
        /\ th[t].remote.key \in Published[r.origin]
        /\ g # 0 => r.key \in Published[r.origin]
    BY BusyFacts, Zenon DEF InstallKey, At, IInv
  <1>1. CASE g # 0
    <2> DEFINE x == [th[t] EXCEPT !.pc = "gate", !.remote.key = r.key, !.remote.gen = g]
    <2>1. ThreadOK(x)
      <3> DEFINE y == [th[t].remote EXCEPT !.key = r.key, !.gen = g]
      <3>1. x.remote = y
        BY <1>0, Zenon DEF Busy, Records
      <3>0. y \in Records /\ y.key = r.key
        BY <1>0, Zenon DEF Records
      <3>2. x.remote \in Records /\ x.remote.key = r.key
        BY <3>0, <3>1, Zenon
      <3>3. x.remote # NoRemote
        BY <3>2, Zenon DEF Records
      <3>4. x \in Busy /\ x.pc = "gate" /\ x.req = r /\ x.found = g
        BY <1>0, <3>2, Zenon DEF Busy, Records
      <3> QED
        BY <1>0, <1>1, <3>2, <3>3, <3>4, Zenon DEF ThreadOK
    <2> HIDE DEF x
    <2>2. th' = [th EXCEPT ![t] = x] /\ PersistKey(r.origin, r.key, g)
      BY <1>1, Zenon DEF InstallKey, x
    <2>3. ThreadsOK'
      BY <2>1, <2>2, ThreadMoves, Zenon DEF IInv
    <2>4. RemotesOK'
      BY <1>0, <1>1, <2>2, Zenon DEF IInv, RemotesOK, PersistKey, Records
    <2> QED
      BY <2>3, <2>4, Zenon DEF InstallKey, IInv, CacheOK, ClocksOK, AdmittedUnderSendersKey, envVars, logVars
  <1>2. CASE g = 0
    <2>1. ThreadOK([th[t] EXCEPT !.pc = "gate"])
      BY <1>0, <1>2, Zenon DEF ThreadOK, Busy
    <2>2. ThreadsOK' /\ UNCHANGED remotes
      BY <1>2, <2>1, ThreadMoves, Zenon DEF InstallKey, Goto, IInv
    <2> QED
      BY <2>2, Zenon DEF InstallKey, IInv, CacheOK, RemotesOK, ClocksOK, AdmittedUnderSendersKey, envVars, logVars
  <1> QED
    BY <1>1, <1>2, Zenon

\* Only a request whose copy is trusted goes on to be served.
LEMMA AuthenticateStep ==
  ASSUME IInv, NEW t \in Threads, Authenticate(t)
  PROVE  IInv'
  <1>0. /\ th[t].pc = "gate" /\ th[t] \in Busy /\ th[t].req.origin \in Origins
        /\ th[t].remote \in Records /\ th[t].remote # NoRemote
        /\ th[t].remote.key \in Published[th[t].req.origin]
    BY BusyFacts, Zenon DEF Authenticate, At, IInv
  <1>1. CASE Goto(t, "serve") /\ UNCHANGED remotes /\ Trusted(th[t].remote)
    <2>1. ThreadOK([th[t] EXCEPT !.pc = "serve"])
      BY <1>0, <1>1, BusyFacts, Zenon DEF ThreadOK, Busy, Trusted, IInv
    <2>2. ThreadsOK'
      BY <1>1, <2>1, ThreadMoves, Zenon DEF Goto, IInv
    <2> QED
      BY <1>1, <2>2, Zenon DEF Authenticate, IInv, CacheOK, RemotesOK, ClocksOK, AdmittedUnderSendersKey, keyVars,
                        envVars, logVars
  <1>2. CASE Reply(t) /\ (UNCHANGED remotes \/ Penalise(t))
    <2>1. ThreadsOK'
      BY <1>2, Replying, Zenon DEF IInv
    <2>2. th[t].remote.failures + 1 \in Nat
      BY <1>0 DEF Records
    <2>3. RemotesOK'
      BY <1>0, <1>2, <2>2, Trusting, Zenon DEF IInv, RemotesOK, Penalise
    <2> QED
      BY <2>1, <2>3, Zenon DEF Authenticate, IInv, CacheOK, ClocksOK, AdmittedUnderSendersKey, keyVars, envVars, logVars
  <1> QED
    BY <1>1, <1>2, Zenon DEF Authenticate, Penalise

\* An event that reaches the room is admissible.
LEMMA Sinking ==
  ASSUME IInv, NEW t \in Threads, th[t].pc \in {"serve", "walk"}, NEW p \in Pdus, NEW out \in KeysFor(t, p),
         \/ Authorised(t, p, out[2]) /\ p.hash /\ Sink(t, p, out[2])
         \/ UNCHANGED sunk
  PROVE  AdmittedUnderSendersKey'
  <1>1. CASE Authorised(t, p, out[2]) /\ p.hash /\ Sink(t, p, out[2])
    <2> DEFINE new == [pdu |-> p, key |-> out[2], now |-> th[t].now[out[2].dom]]
    <2>1. UnderSendersKey(new)
      BY <1>1, KeyOfThePdu DEF UnderSendersKey
    <2>2. sunk' = sunk \cup {new}
      BY <1>1, Zenon DEF Sink
    <2> HIDE DEF new
    <2> QED
      BY <2>1, <2>2, Zenon DEF IInv, AdmittedUnderSendersKey
  <1>2. CASE UNCHANGED sunk
    BY <1>2, Zenon DEF IInv, AdmittedUnderSendersKey
  <1> QED
    BY <1>1, <1>2, Zenon

\* An endpoint other than /send: the thread replies, the failures of the peer
\* may be cleared, and an event may be admitted.
LEMMA EndpointStep ==
  ASSUME IInv, NEW t \in Threads, Endpoint(t)
  PROVE  IInv'
  <1> DEFINE r == th[t].req
             o == r.origin
  <1>0. th[t].pc = "serve" /\ r \in Requests /\ o \in Origins
    BY BusyFacts, Zenon DEF Endpoint, At, IInv
  <1>1. ThreadsOK'
    BY Replying, Zenon DEF Endpoint, IInv
  <1>2. RemotesOK'
    <2>1. UNCHANGED remotes \/ PersistTrust(o, 0)
      BY Zenon DEF Endpoint
    <2> QED
      BY <1>0, <2>1, Trusting, Zenon DEF IInv, RemotesOK
  <1>3. CacheOK(cache)' /\ AdmittedUnderSendersKey'
    <2>1. CASE UNCHANGED <<cache, sunk>>
      BY <2>1, Zenon DEF IInv, CacheOK, AdmittedUnderSendersKey
    <2>2. CASE ~UNCHANGED <<cache, sunk>>
      <3>1. /\ r.kind \in SendEndpoints \cup {"invite"}
            /\ \E out \in KeysFor(t, r.pdus[1]) :
                  /\ cache' = out[1]
                  /\ IF EventChecked(t, r, out[2]) THEN Sink(t, r.pdus[1], out[2]) ELSE UNCHANGED sunk
        BY <2>2, Zenon DEF Endpoint
      <3>2. PICK out \in KeysFor(t, r.pdus[1]) :
                  /\ cache' = out[1]
                  /\ IF EventChecked(t, r, out[2]) THEN Sink(t, r.pdus[1], out[2]) ELSE UNCHANGED sunk
        BY <3>1, Zenon
      <3>3. r.pdus[1] \in Pdus
        BY <1>0, <3>1
      <3>4. EventChecked(t, r, out[2]) => Authorised(t, r.pdus[1], out[2]) /\ r.pdus[1].hash
        BY Zenon DEF EventChecked, InviteChecked, MembershipChecked
      <3>5. CacheOK(out[1])
        BY <1>0, <3>3, KeyOfThePdu, Zenon
      <3>6. AdmittedUnderSendersKey'
        BY <1>0, <3>2, <3>3, <3>4, Sinking, Zenon
      <3> QED
        BY <3>2, <3>5, <3>6, Zenon DEF CacheOK
    <2> QED
      BY <2>1, <2>2, Zenon
  <1> QED
    BY <1>1, <1>2, <1>3, Zenon DEF Endpoint, IInv, ClocksOK, envVars

\* A transaction is refused, acknowledged, or begun.
LEMMA OpenTransactionStep ==
  ASSUME IInv, NEW t \in Threads, OpenTransaction(t)
  PROVE  IInv'
  <1> DEFINE r == th[t].req
  <1>0. /\ th[t].pc = "serve" /\ th[t] \in Busy /\ r \in Requests /\ r.origin \in Origins /\ r.kind = "txn"
        /\ th[t].remote \in Records
    BY BusyFacts, Zenon DEF OpenTransaction, At, IInv
  <1>1. CASE Reply(t)
    <2>1. ThreadsOK'
      BY <1>1, Replying, Zenon DEF IInv
    <2>2. th[t].remote.failures + 1 \in Nat
      BY <1>0 DEF Records
    <2>3. UNCHANGED remotes \/ PersistTrust(r.origin, 0) \/ PersistTrust(r.origin, th[t].remote.failures + 1)
      BY Zenon DEF OpenTransaction, Penalise
    <2>4. RemotesOK'
      BY <1>0, <2>2, <2>3, Trusting, Zenon DEF IInv, RemotesOK
    <2> QED
      BY <2>1, <2>4, Zenon DEF OpenTransaction, IInv, CacheOK, ClocksOK, AdmittedUnderSendersKey, keyVars, envVars
  <1>2. CASE ~Reply(t)
    <2> DEFINE x == [th[t] EXCEPT !.pc = "walk", !.todo = r.pdus]
    <2>1. UNCHANGED remotes /\ th' = [th EXCEPT ![t] = x]
      BY <1>2, Zenon DEF OpenTransaction, Penalise
    <2>2. ThreadOK(x)
      <3>1. r.pdus \in Seq(Pdus)
        BY <1>0, Zenon
      <3> QED
        BY <1>0, <3>1, BusyFacts, Zenon DEF ThreadOK, Busy, IInv
    <2> HIDE DEF x
    <2>3. ThreadsOK'
      BY <2>1, <2>2, ThreadMoves, Zenon DEF IInv
    <2> QED
      BY <2>1, <2>3, Zenon DEF OpenTransaction, IInv, CacheOK, RemotesOK, ClocksOK, AdmittedUnderSendersKey, keyVars,
                        envVars
  <1> QED
    BY <1>1, <1>2, Zenon

\* One PDU of a transaction: skipped, admitted or counted as bad.
LEMMA WalkPduStep ==
  ASSUME IInv, NEW t \in Threads, WalkPdu(t)
  PROVE  IInv'
  <1> DEFINE p == Head(th[t].todo)
             After(n) == [th[t] EXCEPT !.todo = Tail(th[t].todo), !.bad = th[t].bad + n]
  <1>0. th[t].pc = "walk" /\ th[t] \in Busy /\ th[t].todo \in Seq(Pdus) /\ th[t].todo # <<>> /\ th[t].bad \in Nat
    BY BusyFacts, Zenon DEF WalkPdu, At, IInv, Busy
  <1>1. p \in Pdus /\ Tail(th[t].todo) \in Seq(Pdus)
    BY <1>0
  <1>2. ThreadsOK'
    <2>1. PICK n \in {0, 1} : th' = [th EXCEPT ![t] = After(n)]
      BY Zenon DEF WalkPdu
    <2>2. th[t].bad + n \in Nat
      BY <1>0
    <2>3. ThreadOK(After(n))
      BY <1>0, <1>1, <2>2, BusyFacts, Zenon DEF ThreadOK, Busy, IInv
    <2> HIDE DEF After
    <2> QED
      BY <2>1, <2>3, ThreadMoves, Zenon DEF IInv
  <1>3. CacheOK(cache)' /\ AdmittedUnderSendersKey'
    <2>1. CASE UNCHANGED <<cache, sunk>>
      BY <2>1, Zenon DEF IInv, CacheOK, AdmittedUnderSendersKey
    <2>2. CASE ~UNCHANGED <<cache, sunk>>
      <3>1. PICK out \in KeysFor(t, p) :
              /\ cache' = out[1]
              /\ \/ Authorised(t, p, out[2]) /\ p.hash /\ Sink(t, p, out[2])
                 \/ UNCHANGED sunk
        BY <2>2, Zenon DEF WalkPdu
      <3>2. CacheOK(out[1])
        BY <1>0, <1>1, KeyOfThePdu, Zenon
      <3>3. AdmittedUnderSendersKey'
        BY <1>0, <1>1, <3>1, Sinking, Zenon
      <3> QED
        BY <3>1, <3>2, <3>3, Zenon DEF CacheOK
    <2> QED
      BY <2>1, <2>2, Zenon
  <1> QED
    BY <1>2, <1>3, Zenon DEF WalkPdu, IInv, RemotesOK, ClocksOK, envVars

\* The ring holds transactions that have been walked.
LEMMA FinishTransactionStep ==
  ASSUME IInv, NEW t \in Threads, FinishTransaction(t)
  PROVE  IInv'
  <1> DEFINE r == th[t].req
  <1>0. th[t].pc = "walk" /\ th[t] \in Busy /\ r.origin \in Origins /\ th[t].remote \in Records /\ th[t].bad \in Nat
    BY BusyFacts, Zenon DEF FinishTransaction, At, IInv, Busy
  <1>1. ThreadsOK'
    BY Replying, Zenon DEF FinishTransaction, IInv
  <1>2. RemotesOK'
    <2>1. (IF th[t].bad = 0 THEN 0 ELSE th[t].remote.failures + th[t].bad) \in Nat
      BY <1>0 DEF Records
    <2> QED
      BY <1>0, <2>1, Trusting, Zenon DEF FinishTransaction, IInv
  <1>3. accepted' \in Seq(walked')
    <2>1. walked' = walked \cup {TxnId(r)}
      BY Zenon DEF FinishTransaction
    <2>2. accepted \in Seq(walked')
      BY <2>1 DEF IInv
    <2>3. Len(accepted) >= MaxAccepted => Tail(accepted) \in Seq(walked')
      BY <2>2
    <2> QED
      BY <2>1, <2>2, <2>3 DEF FinishTransaction, Recorded
  <1> QED
    BY <1>1, <1>2, <1>3, Zenon DEF FinishTransaction, IInv, CacheOK, ClocksOK, AdmittedUnderSendersKey, keyVars, envVars

\* IInv is inductive.
LEMMA NextIInv == IInv /\ [Next]_vars => IInv'
  <1> SUFFICES ASSUME IInv, [Next]_vars PROVE IInv'
    BY Zenon
  <1>1. ASSUME NEW t \in Threads, Step(t) PROVE IInv'
    BY <1>1, SnapshotStep, RefreshStep, ResolveStep, InstallStep, InstallKeyStep, AuthenticateStep, EndpointStep,
       OpenTransactionStep, WalkPduStep, FinishTransactionStep, Zenon DEF Step
  <1>2. ASSUME NEW t \in Threads, NEW r \in Requests, Receive(t, r) PROVE IInv'
    BY <1>2, ReceiveStep, Zenon
  <1>3. ASSUME NEW o \in Origins, Lapse(o) PROVE IInv'
    BY <1>3 DEF Lapse, IInv, ThreadsOK, CacheOK, RemotesOK, ClocksOK, AdmittedUnderSendersKey, keyVars, logVars
  <1>4. ASSUME NEW o \in Origins, NEW c \in Counters, WindowEnds(o, c) PROVE IInv'
    BY <1>4, Zenon DEF WindowEnds, IInv, ThreadsOK, CacheOK, RemotesOK, ClocksOK, AdmittedUnderSendersKey,
       keyVars, logVars
  <1>5. CASE BudgetEnds
    BY <1>5, Zenon DEF BudgetEnds, IInv, ThreadsOK, CacheOK, RemotesOK, ClocksOK, AdmittedUnderSendersKey, logVars
  <1>6. CASE UNCHANGED vars
    BY <1>6, Zenon DEF vars, IInv, ThreadsOK, CacheOK, RemotesOK, ClocksOK, AdmittedUnderSendersKey, keyVars, envVars,
                logVars
  <1> QED
    BY <1>1, <1>2, <1>3, <1>4, <1>5, <1>6, Zenon DEF Next

-----------------------------------------------------------------------------
\* A write of the trust counter by a request whose copy passed the gate is by
\* one that had not seen the peer barred.
LEMMA ServedWhileTrusted ==
  ASSUME IInv, NEW t \in Threads, th[t].pc \in {"serve", "walk"}, NEW o \in Origins, Barred(o)
  PROVE  th[t].req.origin # o
  <1>1. /\ th[t].remote.failures < 3 /\ th[t].remote \in Records
    BY BusyFacts, Zenon DEF IInv
  <1> QED
    BY <1>1 DEF Barred, At, Records

\* A step of a thread keeps a barred peer out.
LEMMA BarredSteps ==
  ASSUME IInv, NEW t \in Threads, Step(t), NEW o \in Origins, Barred(o)
  PROVE  remotes'[o].failures >= 3
  <1>0. remotes \in [Origins -> Records \cup {NoRemote}] /\ remotes[o] \in Records /\ remotes[o].failures >= 3
    BY Zenon DEF IInv, RemotesOK, Barred
  <1>1. CASE UNCHANGED remotes
    BY <1>0, <1>1, Zenon
  <1>2. CASE Install(t)
    <2>1. th[t].pc = "resolved" /\ th[t].remote = NoRemote /\ th[t].req.origin \in Origins
      BY <1>2, BusyFacts, Zenon DEF Install, At, IInv
    <2>2. th[t].req.origin # o
      BY <2>1, Zenon DEF Barred, At
    <2> QED
      BY <1>0, <1>2, <2>2, ZenonT(30) DEF Install
  <1>3. CASE InstallKey(t)
    <2> DEFINE q == th[t].req.origin
               k == th[t].req.key
               g == th[t].found
    <2>1. remotes' = remotes \/ remotes' = [remotes EXCEPT ![q].key = k, ![q].gen = g]
      BY <1>3, Zenon DEF InstallKey, PersistKey
    <2> HIDE DEF q, k, g
    <2> QED
      BY <1>0, <2>1 DEF Records
  <1>4. CASE Authenticate(t) /\ Penalise(t) /\ Trusted(th[t].remote)
    <2>1. th[t].pc = "gate" /\ th[t].remote \in Records
      BY <1>4, BusyFacts, Zenon DEF Authenticate, At, IInv
    <2>2. th[t].req.origin # o
      BY <1>4, <2>1 DEF Barred, At, Trusted, Records
    <2> QED
      BY <1>0, <1>4, <2>2, Zenon DEF Penalise, PersistTrust
  <1>5. CASE th[t].pc \in {"serve", "walk"} /\ \E n \in Nat : PersistTrust(th[t].req.origin, n)
    <2>1. th[t].req.origin # o
      BY <1>5, ServedWhileTrusted, Zenon
    <2> QED
      BY <1>0, <1>5, <2>1, Zenon DEF PersistTrust
  <1>6. ASSUME Endpoint(t) PROVE UNCHANGED remotes \/ PersistTrust(th[t].req.origin, 0)
    BY <1>6, Zenon DEF Endpoint
  <1>7. ASSUME OpenTransaction(t)
        PROVE  \/ UNCHANGED remotes \/ PersistTrust(th[t].req.origin, 0)
               \/ PersistTrust(th[t].req.origin, th[t].remote.failures + 1)
    BY <1>7, Zenon DEF OpenTransaction, Penalise
  <1>8. ASSUME FinishTransaction(t)
        PROVE  \E n \in Nat : PersistTrust(th[t].req.origin, n)
    <2>1. th[t].bad \in Nat /\ th[t].remote \in Records
      BY <1>8, BusyFacts, Zenon DEF FinishTransaction, At, IInv, Busy
    <2>2. (IF th[t].bad = 0 THEN 0 ELSE th[t].remote.failures + th[t].bad) \in Nat
      BY <2>1 DEF Records
    <2> QED
      BY <1>8, <2>2, Zenon DEF FinishTransaction
  <1>9. ASSUME OpenTransaction(t) PROVE th[t].remote.failures + 1 \in Nat
    <2>1. th[t].remote \in Records
      BY <1>9, BusyFacts, Zenon DEF OpenTransaction, At, IInv
    <2> QED
      BY <2>1 DEF Records
  <1>10. CASE Endpoint(t) \/ OpenTransaction(t) \/ FinishTransaction(t)
    <2>1. th[t].pc \in {"serve", "walk"}
      BY <1>10, Zenon DEF Endpoint, OpenTransaction, FinishTransaction, At
    <2> QED
      BY <1>1, <1>5, <1>6, <1>7, <1>8, <1>9, <1>10, <2>1, Zenon
  <1>11. CASE Snapshot(t) \/ Refresh(t) \/ Resolve(t) \/ WalkPdu(t)
    BY <1>1, <1>11, Zenon DEF Snapshot, Refresh, Resolve, WalkPdu
  <1>12. CASE Authenticate(t)
    BY <1>1, <1>4, <1>12, Zenon DEF Authenticate
  <1> QED
    BY <1>2, <1>3, <1>10, <1>11, <1>12, Zenon DEF Step

\* No event reaches a room but under an unexpired key that the server of its
\* sender publishes, and a peer that is barred stays barred: whatever the threads,
\* the caches they share and the order in which they write trust and keys back.
THEOREM HeldToTheirKeys == Spec => PeersAreHeldToTheirKeys
  <1>1. IInv => \A s \in sunk : UnderSendersKey(s)
    BY Zenon DEF IInv, AdmittedUnderSendersKey
  <1>2. IInv /\ [Next]_vars => [\A o \in Origins : Barred(o) => remotes'[o].failures >= 3]_vars
    <2> SUFFICES ASSUME IInv, Next, NEW o \in Origins, Barred(o)
                 PROVE  remotes'[o].failures >= 3
      BY Zenon DEF BackoffHolds
    <2>1. ASSUME UNCHANGED remotes PROVE remotes'[o].failures >= 3
      BY <2>1, Zenon DEF Barred
    <2> QED
      BY <2>1, BarredSteps, Zenon DEF Next, Receive, Lapse, WindowEnds, BudgetEnds
  <1> QED
    BY <1>1, <1>2, InitIInv, NextIInv, PTL DEF Spec, PeersAreHeldToTheirKeys, BackoffHolds

\* The replay-dedup ring, the threads that fill it and the requests they refuse
\* implement TransactionLedger: a repetition is acknowledged only when a delivery
\* of the transaction has been walked to its end.
THEOREM LedgerImplemented == Spec => ImplementsLedger
  <1>1. Init => Ledger!Init
    BY Zenon DEF Init, Ledger!Init
  <1>2. IInv /\ [Next]_vars => [Ledger!Next]_(Ledger!vars)
    <2> SUFFICES ASSUME IInv, Next, ~UNCHANGED <<walked, acked>> PROVE Ledger!Next
      BY Zenon DEF vars, logVars, Ledger!vars
    <2>1. PICK t \in Threads : FinishTransaction(t) \/ OpenTransaction(t)
      BY ZenonT(30)
         DEF Next, Step, Receive, Lapse, WindowEnds, BudgetEnds, Snapshot, Refresh, Resolve, Install, InstallKey,
             Authenticate, Endpoint, WalkPdu, logVars
    <2> DEFINE r == th[t].req
    <2>2. r \in {q \in Requests : q.kind = "txn"}
      BY <2>1, BusyFacts, Zenon DEF FinishTransaction, OpenTransaction, At, IInv
    <2>3. CASE FinishTransaction(t)
      <3>1. Ledger!Walk(TxnId(r))
        BY <2>3, Zenon DEF FinishTransaction, Ledger!Walk
      <3> QED
        BY <2>2, <3>1, Zenon DEF Ledger!Next
    <2>4. CASE OpenTransaction(t)
      <3>1. AlreadyAccepted(r) /\ acked' = acked \cup {TxnId(r)} /\ UNCHANGED walked
        BY <2>4, Zenon DEF OpenTransaction
      <3>2. TxnId(r) \in walked
        BY <3>1 DEF AlreadyAccepted, IInv
      <3>3. Ledger!Acknowledge(TxnId(r))
        BY <3>1, <3>2, Zenon DEF Ledger!Acknowledge
      <3> QED
        BY <2>2, <3>3, Zenon DEF Ledger!Next
    <2> QED
      BY <2>1, <2>3, <2>4, Zenon
  <1> QED
    BY <1>1, <1>2, InitIInv, NextIInv, PTL DEF Spec, ImplementsLedger, Ledger!Spec
=============================================================================
