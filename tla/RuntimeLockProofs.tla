-------------------------- MODULE RuntimeLockProofs --------------------------
(***************************************************************************)
(* Proofs about RuntimeLock, for any set of threads and any MaxPushes.     *)
(***************************************************************************)
EXTENDS RuntimeLock, SequenceTheorems, TLAPS

\* A leaf that names no prover is SMT's, and has half a minute.
USE SMTT(30)

(* Entering a frame leaves the frames below it as they are. *)
LEMMA PushFacts ==
    ASSUME NEW s \in Seq(Frames), NEW f \in Frames
    PROVE  /\ Append(s, f) \in Seq(Frames)
           /\ Append(s, f) # <<>>
           /\ Len(Append(s, f)) = Len(s) + 1
           /\ \A i \in 1 .. Len(s) : Append(s, f)[i] = s[i]
           /\ Append(s, f)[Len(s) + 1] = f
  OBVIOUS

(* A thread is inside some frame exactly when its stack has a positive length. *)
LEMMA NonEmpty ==
    ASSUME NEW s \in Seq(Frames)
    PROVE  Len(s) \in Nat /\ (s # <<>> <=> Len(s) > 0)
  <1>1. s # <<>> => Len(s) \in Nat \ {0}
    BY EmptySeq, Zenon
  <1>2. s = <<>> => Len(s) = 0
    OBVIOUS
  <1> QED
    BY <1>1, <1>2

(* Leaving a frame leaves the frames below it as they are. *)
LEMMA PopFacts ==
    ASSUME NEW s \in Seq(Frames), Len(s) > 0
    PROVE  /\ SubSeq(s, 1, Len(s) - 1) \in Seq(Frames)
           /\ Len(SubSeq(s, 1, Len(s) - 1)) = Len(s) - 1
           /\ \A i \in 1 .. (Len(s) - 1) : SubSeq(s, 1, Len(s) - 1)[i] = s[i]
  <1> DEFINE n == Len(s) - 1
             p == SubSeq(s, 1, n)
  <1>1. n \in Nat
    BY NonEmpty
  <1>2. \A i \in 1 .. n : s[i] \in Frames
    BY <1>1
  <1> HIDE DEF n
  <1>3. /\ p \in Seq(Frames)
        /\ Len(p) = IF 1 <= n THEN n - 1 + 1 ELSE 0
        /\ \A i \in 1 .. (n - 1 + 1) : p[i] = s[1 + i - 1]
    BY <1>1, <1>2, SubSeqProperties
  <1> HIDE DEF p
  <1>4. Len(p) = n
    BY <1>1, <1>3
  <1>5. ASSUME NEW i \in 1 .. n PROVE p[i] = s[i]
    <2>1. i \in 1 .. (n - 1 + 1) /\ 1 + i - 1 = i
      BY <1>1
    <2> QED
      BY <1>3, <2>1, Zenon
  <1> QED
    BY <1>3, <1>4, <1>5, Zenon DEF p, n

(* A frame that records the levels held on entry extends the chain. *)
LEMMA ChainPush ==
    ASSUME NEW s \in Seq(Frames), NEW f \in Frames, Chain(s),
           Len(s) = 0 => f.before = 0,
           Len(s) > 0 => Complete(s[Len(s)]) /\ f.before = LevelsInside(s[Len(s)])
    PROVE  Chain(Append(s, f))
  <1> DEFINE r == Append(s, f)
             n == Len(s)
  <1>1. /\ Len(r) = n + 1 /\ n \in Nat /\ r[n + 1] = f
        /\ \A i \in 1 .. n : r[i] = s[i]
    BY PushFacts
  <1> HIDE DEF r
  <1>2. r[1].before = 0
    BY <1>1 DEF Chain
  <1>3. ASSUME NEW i \in 1 .. (Len(r) - 1)
        PROVE  Complete(r[i]) /\ r[i + 1].before = LevelsInside(r[i])
    <2>1. CASE i < n
      BY <2>1, <1>1 DEF Chain
    <2>2. CASE i = n
      BY <2>2, <1>1
    <2> QED
      BY <2>1, <2>2, <1>1
  <1>4. Chain(r)
    BY <1>2, <1>3, Zenon DEF Chain
  <1> QED
    BY <1>4, Zenon DEF r

LEMMA ReachedPush ==
    ASSUME NEW s \in Seq(Frames), NEW f \in Frames, Reached(s),
           PublicationBelow(s, Len(s) + 1) =>
               f.previous # 0 /\ (f.kind = "release" => f.found)
    PROVE  /\ Reached(Append(s, f))
           /\ PublicationBelow(Append(s, f), Len(Append(s, f)) + 1) =>
                 f.kind = "publication" \/ PublicationBelow(s, Len(s) + 1)
  <1> DEFINE r == Append(s, f)
             n == Len(s)
  <1>1. /\ Len(r) = n + 1 /\ n \in Nat /\ r[n + 1] = f
        /\ \A i \in 1 .. n : r[i] = s[i]
    BY PushFacts
  <1> HIDE DEF r
  <1>2. ASSUME NEW m \in 1 .. (n + 1), PublicationBelow(r, m) PROVE PublicationBelow(s, m)
    BY <1>1, <1>2 DEF PublicationBelow
  <1>3. Reached(r)
    <2> SUFFICES ASSUME NEW m \in 1 .. (n + 1), PublicationBelow(r, m)
                 PROVE  r[m].previous # 0 /\ (r[m].kind = "release" => r[m].found)
      BY <1>1, Zenon DEF Reached
    <2>1. CASE m = n + 1
      BY <2>1, <1>1, <1>2, Zenon
    <2>2. CASE m \in 1 .. n
      BY <2>2, <1>1, <1>2, Zenon DEF Reached
    <2> QED
      BY <2>1, <2>2, <1>1
  <1>4. PublicationBelow(r, Len(r) + 1) => f.kind = "publication" \/ PublicationBelow(s, n + 1)
    BY <1>1 DEF PublicationBelow
  <1> QED
    BY <1>3, <1>4, Zenon DEF r

(* Leaving a frame shows the one below it, fully constructed, standing for *)
(* the levels held when the frame was entered.                             *)
LEMMA ChainPop ==
    ASSUME NEW s \in Seq(Frames), Len(s) > 0, Chain(s), Reached(s)
    PROVE  LET r == SubSeq(s, 1, Len(s) - 1) IN
           /\ Chain(r)
           /\ Reached(r)
           /\ Len(r) = 0 => s[Len(s)].before = 0
           /\ Len(r) > 0 => /\ Complete(r[Len(r)])
                            /\ s[Len(s)].before = LevelsInside(r[Len(r)])
           /\ PublicationBelow(r, Len(r) + 1) =>
                 s[Len(s)].previous # 0 /\ PublicationBelow(s, Len(s) + 1)
  <1> DEFINE r == SubSeq(s, 1, Len(s) - 1)
             n == Len(s)
  <1>1. /\ Len(r) = n - 1 /\ n \in Nat /\ n > 0
        /\ \A i \in 1 .. (n - 1) : r[i] = s[i]
    BY PopFacts, NonEmpty, Zenon
  <1> HIDE DEF r
  <1>2. Chain(r)
    BY <1>1 DEF Chain
  <1>3. ASSUME NEW m \in 1 .. n, PublicationBelow(r, m) PROVE PublicationBelow(s, m)
    BY <1>1, <1>3 DEF PublicationBelow
  <1>4. Reached(r)
    BY <1>1, <1>3 DEF Reached
  <1>5. ASSUME Len(r) = 0 PROVE s[n].before = 0
    <2>1. n = 1
      BY <1>1, <1>5
    <2> QED
      BY <2>1, Zenon DEF Chain
  <1>6. Len(r) > 0 => Complete(r[Len(r)]) /\ s[n].before = LevelsInside(r[Len(r)])
    BY <1>1 DEF Chain
  <1>7. PublicationBelow(r, n) => s[n].previous # 0
    BY <1>1, <1>3 DEF Reached
  <1>8. PublicationBelow(r, n) => PublicationBelow(s, n + 1)
    BY <1>1 DEF PublicationBelow
  <1>9. Len(r) + 1 = n
    BY <1>1
  <1> QED
    BY <1>2, <1>4, <1>5, <1>6, <1>7, <1>8, <1>9, Zenon DEF r

(* A step of one thread that leaves another's frames, and the levels it    *)
(* holds, alone preserves what the invariant says of the other.            *)
LEMMA OtherThread ==
    ASSUME NEW u \in Threads,
           stack'[u] = stack[u], pc'[u] = pc[u], published'[u] = published[u],
           toRelock'[u] = toRelock[u], Held(u)' = Held(u),
           ThreadInv(u)
    PROVE  ThreadInv(u)'
  <1>1. TopState(u)'
    BY Zenon DEF TopState, Top, ThreadInv
  <1> QED
    BY <1>1, Zenon DEF Published, ThreadInv

(* Only the thread that takes or gives a level sees its own count change.  *)
LEMMA HeldByOthers ==
    ASSUME NEW t \in Threads, NEW u \in Threads, u # t,
           \/ MutexLock(t)
           \/ MutexUnlock /\ holder = t
           \/ UNCHANGED <<holder, count>>
    PROVE  Held(u)' = Held(u)
  BY ThreadsAssumption, Zenon DEF MutexLock, MutexUnlock, Held

LEMMA InitIInv == Init => IInv
  <1> SUFFICES ASSUME Init PROVE IInv
    BY Zenon
  <1>1. TypeOK
    BY MaxPushesAssumption DEF Init, TypeOK, PcValues
  <1>2. Bookkeeping
    BY ThreadsAssumption, Zenon DEF Init, Bookkeeping, MidUpdate
  <1>3. ASSUME NEW t \in Threads PROVE ThreadInv(t)
    <2>1. stack[t] = <<>> /\ Len(stack[t]) = 0 /\ pc[t] = "run" /\ Held(t) = 0
      BY ThreadsAssumption, Zenon DEF Init, Held
    <2>2. Chain(stack[t]) /\ Reached(stack[t])
      BY <2>1 DEF Chain, Reached
    <2>3. TopState(t)
      BY <2>1, Zenon DEF TopState
    <2>4. Published(t)
      BY <2>1 DEF Published, PublicationBelow
    <2> QED
      BY <2>2, <2>3, <2>4, Zenon DEF ThreadInv
  <1> QED
    BY <1>1, <1>2, <1>3, Zenon DEF IInv
(***************************************************************************)
(* It is enough to look at the thread that takes the step.                 *)
(***************************************************************************)
OthersUntouched(t) ==
    /\ \A u \in Threads \ {t} :
          /\ stack'[u] = stack[u] /\ pc'[u] = pc[u]
          /\ published'[u] = published[u] /\ toRelock'[u] = toRelock[u]
    /\ MutexLock(t) \/ (MutexUnlock /\ holder = t) \/ UNCHANGED <<holder, count>>

LEMMA OneThread ==
    ASSUME NEW t \in Threads, IInv, OthersUntouched(t),
           TypeOK', Bookkeeping', ThreadInv(t)'
    PROVE  IInv'
  <1>1. ASSUME NEW u \in Threads, u # t PROVE ThreadInv(u)'
    <2>1. Held(u)' = Held(u)
      BY <1>1, HeldByOthers, Zenon DEF OthersUntouched
    <2> QED
      BY <1>1, <2>1, OtherThread, Zenon DEF OthersUntouched, IInv
  <1> QED
    BY <1>1, Zenon DEF IInv

(* Entering a frame pushes one that records the levels held. *)
LEMMA PushStep ==
    ASSUME NEW t \in Threads, IInv, NEW kind \in {"guard", "publication", "release"},
           NEW found \in BOOLEAN, Push(t, kind, found),
           kind = "release" /\ published[t] # 0 => found
    PROVE  /\ stack' \in [Threads -> Seq(Frames)]
           /\ pushes' \in [Threads -> 0 .. MaxPushes]
           /\ \A u \in Threads \ {t} : stack'[u] = stack[u]
           /\ Len(stack'[t]) > 0
           /\ Top(t)' = [kind |-> kind, found |-> found, previous |-> published[t],
                         levels |-> 0, before |-> Held(t)]
           /\ Chain(stack'[t]) /\ Reached(stack'[t])
           /\ (kind # "publication" => published'[t] = published[t])
              /\ (kind = "publication" => published'[t] # 0) => Published(t)'
  <1> DEFINE f == [kind |-> kind, found |-> found, previous |-> published[t],
                   levels |-> 0, before |-> Held(t)]
             s == stack[t]
  <1>1. f \in Frames /\ s \in Seq(Frames) /\ stack'[t] = Append(s, f)
        /\ f.before = Held(t) /\ f.previous = published[t]
        /\ f.kind = kind /\ f.found = found
    BY Zenon DEF IInv, TypeOK, Push, Frames, Held
  <1>2. /\ stack' \in [Threads -> Seq(Frames)]
        /\ pushes' \in [Threads -> 0 .. MaxPushes]
        /\ \A u \in Threads \ {t} : stack'[u] = stack[u]
    <2>1. Append(s, f) \in Seq(Frames)
      BY <1>1, PushFacts, Zenon
    <2>2. stack' = [stack EXCEPT ![t] = Append(s, f)] /\ stack \in [Threads -> Seq(Frames)]
      BY Zenon DEF IInv, TypeOK, Push
    <2> HIDE DEF f, s
    <2>3. stack' \in [Threads -> Seq(Frames)] /\ \A u \in Threads \ {t} : stack'[u] = stack[u]
      BY <2>1, <2>2, Zenon
    <2>4. /\ pushes \in [Threads -> 0 .. MaxPushes] /\ pushes[t] < MaxPushes
          /\ pushes' = [pushes EXCEPT ![t] = @ + 1]
      BY Zenon DEF IInv, TypeOK, Push
    <2>5. pushes[t] + 1 \in 0 .. MaxPushes
      BY <2>4, MaxPushesAssumption
    <2>6. pushes' \in [Threads -> 0 .. MaxPushes]
      BY <2>4, <2>5, Zenon
    <2> QED
      BY <2>3, <2>6, Zenon
  <1> HIDE DEF f
  <1>3. Len(stack'[t]) = Len(s) + 1 /\ stack'[t][Len(s) + 1] = f /\ Len(s) \in Nat
    BY <1>1, PushFacts
  <1>4. Len(stack'[t]) > 0 /\ Top(t)' = f
    BY <1>3 DEF Top
  <1>5. Chain(stack'[t])
    <2>1. Len(s) = 0 => f.before = 0
      BY <1>1, Zenon DEF IInv, ThreadInv, TopState, Push
    <2>2. Len(s) > 0 => Complete(s[Len(s)]) /\ f.before = LevelsInside(s[Len(s)])
      BY <1>1, <1>3 DEF IInv, ThreadInv, TopState, Push, Top
    <2>3. Chain(s)
      BY Zenon DEF IInv, ThreadInv
    <2> HIDE DEF s
    <2> QED
      BY <1>1, <2>1, <2>2, <2>3, ChainPush, Zenon
  <1>6. /\ Reached(stack'[t])
        /\ PublicationBelow(stack'[t], Len(stack'[t]) + 1) =>
              kind = "publication" \/ PublicationBelow(s, Len(s) + 1)
    <2>1. PublicationBelow(s, Len(s) + 1) => published[t] # 0
      BY Zenon DEF IInv, ThreadInv, Published
    <2>2. Reached(s)
      BY Zenon DEF IInv, ThreadInv
    <2> HIDE DEF s
    <2> QED
      BY <1>1, <2>1, <2>2, ReachedPush, Zenon
  <1>7. (kind # "publication" => published'[t] = published[t])
        /\ (kind = "publication" => published'[t] # 0) => Published(t)'
    BY <1>6, Zenon DEF IInv, ThreadInv, Published
  <1> QED
    BY <1>2, <1>4, <1>5, <1>6, <1>7, Zenon DEF f

(* What FramesBalance asks of a step of thread t. *)
Balanced(t) == Len(stack'[t]) < Len(stack[t]) => Held(t)' = Top(t).before

(* Leaving a frame with the levels held on entry uncovers a complete frame. *)
LEMMA PopStep ==
    ASSUME NEW t \in Threads, IInv, Len(stack[t]) > 0, PopFrame(t),
           Held(t)' = Top(t).before, pc'[t] = "run",
           published'[t] = IF Top(t).kind = "publication" THEN Top(t).previous
                                                          ELSE published[t]
    PROVE  /\ stack' \in [Threads -> Seq(Frames)]
           /\ pushes' \in [Threads -> 0 .. MaxPushes]
           /\ \A u \in Threads \ {t} : stack'[u] = stack[u]
           /\ ThreadInv(t)'
  <1> DEFINE s == stack[t]
             r == stack'[t]
  <1>1. s \in Seq(Frames) /\ r = SubSeq(s, 1, Len(s) - 1)
        /\ Chain(s) /\ Reached(s) /\ Len(s) > 0
    BY Zenon DEF IInv, TypeOK, PopFrame, Pop, ThreadInv
  <1>2. r \in Seq(Frames)
    BY <1>1, PopFacts, Zenon
  <1>3. /\ stack' \in [Threads -> Seq(Frames)]
        /\ pushes' \in [Threads -> 0 .. MaxPushes]
        /\ \A u \in Threads \ {t} : stack'[u] = stack[u]
    BY <1>2, MaxPushesAssumption DEF IInv, TypeOK, PopFrame
  <1> HIDE DEF s, r
  <1>4. /\ Chain(r) /\ Reached(r)
        /\ Len(r) = 0 => s[Len(s)].before = 0
        /\ Len(r) > 0 => Complete(r[Len(r)]) /\ s[Len(s)].before = LevelsInside(r[Len(r)])
        /\ PublicationBelow(r, Len(r) + 1) =>
              s[Len(s)].previous # 0 /\ PublicationBelow(s, Len(s) + 1)
    BY <1>1, ChainPop, Zenon
  <1>5. Len(r) \in Nat
    BY <1>2, NonEmpty, Zenon
  <1> USE DEF s, r
  <1>6. TopState(t)'
    BY <1>4, <1>5 DEF TopState, Top
  <1>7. Published(t)'
    BY <1>4, Zenon DEF Published, Top, IInv, ThreadInv
  <1> QED
    BY <1>3, <1>4, <1>6, <1>7, Zenon DEF ThreadInv
-----------------------------------------------------------------------------
(***************************************************************************)
(* Every action preserves the invariant.                                   *)
(***************************************************************************)
LEMMA EnterGuardStep ==
    ASSUME NEW t \in Threads, IInv, EnterGuard(t)
    PROVE  IInv'
  <1>0. PICK found \in BOOLEAN : Push(t, "guard", found) /\ published' = published
    BY Zenon DEF EnterGuard
  <1>1. /\ stack' \in [Threads -> Seq(Frames)]
        /\ pushes' \in [Threads -> 0 .. MaxPushes]
        /\ \A u \in Threads \ {t} : stack'[u] = stack[u]
        /\ Len(stack'[t]) > 0
        /\ Top(t)'.kind = "guard" /\ Top(t)'.before = Held(t)
        /\ Chain(stack'[t]) /\ Reached(stack'[t]) /\ Published(t)'
    BY <1>0, PushStep
  <1>2. pc[t] = "run" /\ pc' = [pc EXCEPT ![t] = "lock"] /\ Held(t)' = Held(t)
        /\ UNCHANGED <<holder, count, owner, depth, published, toRelock>>
    BY Zenon DEF EnterGuard, Push, Goto, Held
  <1>3. TypeOK'
    BY <1>1, <1>2, Zenon DEF IInv, TypeOK, PcValues
  <1>4. Bookkeeping'
    BY <1>2, Zenon DEF IInv, TypeOK, Bookkeeping, MidUpdate
  <1>5. TopState(t)'
    BY <1>1, <1>2, Zenon DEF IInv, TypeOK, TopState
  <1>6. OthersUntouched(t)
    BY <1>1, <1>2, Zenon DEF IInv, TypeOK, OthersUntouched
  <1> QED
    BY <1>1, <1>3, <1>4, <1>5, <1>6, OneThread, Zenon DEF ThreadInv

LEMMA TryEnterGuardStep ==
    ASSUME NEW t \in Threads, IInv, TryEnterGuard(t)
    PROVE  IInv'
  <1>0. PICK found \in BOOLEAN : Push(t, "guard", found) /\ published' = published
    BY Zenon DEF TryEnterGuard
  <1>1. /\ stack' \in [Threads -> Seq(Frames)]
        /\ pushes' \in [Threads -> 0 .. MaxPushes]
        /\ \A u \in Threads \ {t} : stack'[u] = stack[u]
        /\ Len(stack'[t]) > 0
        /\ Top(t)'.kind = "guard" /\ Top(t)'.before = Held(t)
        /\ Chain(stack'[t]) /\ Reached(stack'[t]) /\ Published(t)'
    BY <1>0, PushStep
  <1>2. /\ pc[t] = "run" /\ pc' = [pc EXCEPT ![t] = "owning"]
        /\ holder \in {NoThread, t} /\ holder' = t /\ count' = count + 1
        /\ UNCHANGED <<owner, depth, published, toRelock>>
    BY Zenon DEF TryEnterGuard, Push, Goto, MutexLock
  <1>3. TypeOK'
    BY <1>1, <1>2 DEF IInv, TypeOK, PcValues
  <1>4. Bookkeeping' /\ Held(t)' = Held(t) + 1
    BY <1>2, ThreadsAssumption DEF IInv, TypeOK, Bookkeeping, MidUpdate, Held
  <1>5. TopState(t)'
    BY <1>1, <1>2, <1>4, Zenon DEF IInv, TypeOK, TopState
  <1>6. OthersUntouched(t)
    BY <1>1, <1>2, Zenon DEF IInv, TypeOK, OthersUntouched, MutexLock
  <1> QED
    BY <1>1, <1>3, <1>4, <1>5, <1>6, OneThread, Zenon DEF ThreadInv

LEMMA EnterPublicationStep ==
    ASSUME NEW t \in Threads, IInv, EnterPublication(t)
    PROVE  IInv'
  <1>1. PICK i \in GuardFrames(t) : published' = [published EXCEPT ![t] = i]
    BY Zenon DEF EnterPublication
  <1>2. i \in Nat /\ i # 0
    BY DEF GuardFrames, IInv, TypeOK
  <1>3. /\ stack' \in [Threads -> Seq(Frames)]
        /\ pushes' \in [Threads -> 0 .. MaxPushes]
        /\ \A u \in Threads \ {t} : stack'[u] = stack[u]
        /\ Len(stack'[t]) > 0
        /\ Top(t)'.kind = "publication" /\ Top(t)'.before = Held(t)
        /\ Chain(stack'[t]) /\ Reached(stack'[t]) /\ Published(t)'
    <2>1. published'[t] # 0
      BY <1>1, <1>2, Zenon DEF IInv, TypeOK
    <2>2. PICK found \in BOOLEAN : Push(t, "publication", found)
      BY Zenon DEF EnterPublication
    <2> QED
      BY <2>1, <2>2, PushStep
  <1>4. pc[t] = "run" /\ Held(t)' = Held(t)
        /\ UNCHANGED <<holder, count, owner, depth, pc, toRelock>>
    BY Zenon DEF EnterPublication, Push, Held
  <1>5. TypeOK'
    BY <1>1, <1>2, <1>3, <1>4, Zenon DEF IInv, TypeOK
  <1>6. Bookkeeping'
    BY <1>4, Zenon DEF IInv, Bookkeeping
  <1>7. TopState(t)'
    BY <1>3, <1>4 DEF TopState, Complete, LevelsInside
  <1>8. OthersUntouched(t)
    BY <1>1, <1>3, <1>4, Zenon DEF IInv, TypeOK, OthersUntouched
  <1> QED
    BY <1>3, <1>5, <1>6, <1>7, <1>8, OneThread, Zenon DEF ThreadInv

LEMMA EnterReleaseStep ==
    ASSUME NEW t \in Threads, IInv, EnterRelease(t)
    PROVE  IInv'
  <1>1. PICK found \in BOOLEAN :
           /\ published[t] # 0 => found
           /\ Push(t, "release", found)
           /\ Goto(t, IF found THEN "drain" ELSE "run")
           /\ UNCHANGED <<holder, count, owner, depth, published, toRelock>>
    BY Zenon DEF EnterRelease
  <1>2. /\ stack' \in [Threads -> Seq(Frames)]
        /\ pushes' \in [Threads -> 0 .. MaxPushes]
        /\ \A u \in Threads \ {t} : stack'[u] = stack[u]
        /\ Len(stack'[t]) > 0
        /\ Top(t)'.kind = "release" /\ Top(t)'.before = Held(t)
        /\ Top(t)'.found = found /\ Top(t)'.levels = 0
        /\ Chain(stack'[t]) /\ Reached(stack'[t]) /\ Published(t)'
    BY <1>1, PushStep
  <1>3. pc[t] = "run" /\ pc' = [pc EXCEPT ![t] = IF found THEN "drain" ELSE "run"]
        /\ Held(t)' = Held(t) /\ Held(t) \in Nat
    BY <1>1, Zenon DEF Push, Goto, Held, IInv, TypeOK
  <1>4. TypeOK'
    BY <1>1, <1>2, <1>3, Zenon DEF IInv, TypeOK, PcValues
  <1>5. Bookkeeping'
    BY <1>1, <1>3, Zenon DEF IInv, TypeOK, Bookkeeping, MidUpdate
  <1>6. TopState(t)'
    BY <1>1, <1>2, <1>3 DEF IInv, TypeOK, TopState, Complete, LevelsInside
  <1>7. OthersUntouched(t)
    BY <1>1, <1>2, <1>3, Zenon DEF IInv, TypeOK, OthersUntouched
  <1> QED
    BY <1>2, <1>4, <1>5, <1>6, <1>7, OneThread, Zenon DEF ThreadInv

(* The innermost frame, for a step that leaves the stack as it is. *)
LEMMA InsideFrame ==
    ASSUME NEW t \in Threads, IInv, pc[t] # "run" \/ Len(stack[t]) > 0
    PROVE  /\ Len(stack[t]) > 0 /\ Top(t) \in Frames /\ TopState(t)
           /\ Held(t) \in Nat
           /\ UNCHANGED stack => Top(t)' = Top(t)
  <1>1. TopState(t) /\ Len(stack[t]) > 0
    BY Zenon DEF IInv, ThreadInv, TopState
  <1>2. stack[t] \in Seq(Frames) /\ Len(stack[t]) \in Nat
    BY DEF IInv, TypeOK
  <1>3. Top(t) \in Frames
    BY <1>1, <1>2, ElementOfSeq DEF Top
  <1>4. Held(t) \in Nat
    BY Zenon DEF IInv, TypeOK, Held
  <1> QED
    BY <1>1, <1>3, <1>4, Zenon DEF Top

LEMMA GuardLockStep ==
    ASSUME NEW t \in Threads, IInv, GuardLock(t)
    PROVE  IInv'
  <1>1. /\ pc[t] = "lock" /\ pc' = [pc EXCEPT ![t] = "owning"]
        /\ holder \in {NoThread, t} /\ holder' = t /\ count' = count + 1
        /\ UNCHANGED <<owner, depth, stack, published, toRelock, pushes>>
    BY Zenon DEF GuardLock, Goto, MutexLock
  <1>2. Len(stack[t]) > 0 /\ Top(t) \in Frames /\ Top(t)' = Top(t) /\ TopState(t)
    BY <1>1, InsideFrame, Zenon
  <1>3. TypeOK'
    BY <1>1, <1>2 DEF IInv, TypeOK, PcValues
  <1>4. Bookkeeping' /\ Held(t)' = Held(t) + 1
    BY <1>1, <1>2, ThreadsAssumption DEF IInv, TypeOK, Bookkeeping, MidUpdate, Held
  <1>5. TopState(t)'
    BY <1>1, <1>2, <1>4, Zenon DEF IInv, TypeOK, TopState
  <1>6. OthersUntouched(t)
    BY <1>1, Zenon DEF IInv, TypeOK, OthersUntouched, MutexLock
  <1> QED
    BY <1>1, <1>3, <1>4, <1>5, <1>6, OneThread, Zenon DEF IInv, ThreadInv, Published

LEMMA GuardOwnsStep ==
    ASSUME NEW t \in Threads, IInv, GuardOwns(t)
    PROVE  IInv'
  <1>1. /\ pc[t] = "owning" /\ pc' = [pc EXCEPT ![t] = "run"]
        /\ depth' = depth + 1 /\ owner' = t
        /\ UNCHANGED <<holder, count, stack, published, toRelock, pushes>>
    BY Zenon DEF GuardOwns, Goto, PublishOwner
  <1>2. Len(stack[t]) > 0 /\ Top(t) \in Frames /\ Top(t)' = Top(t) /\ TopState(t)
    BY <1>1, InsideFrame, Zenon
  <1>3. TypeOK'
    BY <1>1, <1>2, SMTT(30) DEF IInv, TypeOK, PcValues
  <1>4. Bookkeeping' /\ Held(t)' = Held(t)
    BY <1>1, <1>2, ThreadsAssumption DEF IInv, TypeOK, Bookkeeping, MidUpdate, Held
  <1>5. TopState(t)'
    BY <1>1, <1>2, <1>4 DEF IInv, TypeOK, TopState, LevelsInside, Complete
  <1>6. OthersUntouched(t)
    BY <1>1, Zenon DEF IInv, TypeOK, OthersUntouched, MutexLock
  <1> QED
    BY <1>1, <1>3, <1>4, <1>5, <1>6, OneThread, Zenon DEF IInv, ThreadInv, Published

LEMMA DrainStep ==
    ASSUME NEW t \in Threads, IInv, Drain(t)
    PROVE  IInv'
  <1>1. /\ pc[t] = "drain" /\ pc' = [pc EXCEPT ![t] = "drained"]
        /\ owner = t /\ depth' = depth - 1 /\ owner' = IF depth' = 0 THEN NoThread ELSE owner
        /\ UNCHANGED <<holder, count, stack, published, toRelock, pushes>>
    BY Zenon DEF Drain, Goto, ClearOwner, HeldByCurrentThread
  <1>2. Len(stack[t]) > 0 /\ Top(t) \in Frames /\ Top(t)' = Top(t) /\ TopState(t)
    BY <1>1, InsideFrame, Zenon
  <1>0. holder = t /\ depth = count /\ depth > 0 /\ depth \in Nat
    BY <1>1, <1>2, InsideFrame, ThreadsAssumption, SMTT(30) DEF IInv, TypeOK, Bookkeeping, MidUpdate, TopState, Held
  <1>3. TypeOK'
    BY <1>0, <1>1, <1>2 DEF IInv, TypeOK, PcValues
  <1>4. Bookkeeping' /\ Held(t)' = Held(t)
    BY <1>0, <1>1, <1>2, ThreadsAssumption, Zenon DEF IInv, TypeOK, Bookkeeping, MidUpdate, Held
  <1>5. TopState(t)'
    BY <1>1, <1>2, <1>4, Zenon DEF IInv, TypeOK, TopState
  <1>6. OthersUntouched(t)
    BY <1>1, Zenon DEF IInv, TypeOK, OthersUntouched, MutexLock
  <1> QED
    BY <1>1, <1>3, <1>4, <1>5, <1>6, OneThread, Zenon DEF IInv, ThreadInv, Published

LEMMA DrainDoneStep ==
    ASSUME NEW t \in Threads, IInv, DrainDone(t)
    PROVE  IInv'
  <1>1. /\ pc[t] = "drain" /\ pc' = [pc EXCEPT ![t] = "run"]
        /\ owner # t
        /\ UNCHANGED <<holder, count, owner, depth, stack, published, toRelock, pushes>>
    BY Zenon DEF DrainDone, Goto, HeldByCurrentThread
  <1>2. Len(stack[t]) > 0 /\ Top(t) \in Frames /\ Top(t)' = Top(t) /\ TopState(t)
    BY <1>1, InsideFrame, Zenon
  <1>3. TypeOK'
    BY <1>1, <1>2, Zenon DEF IInv, TypeOK, PcValues
  <1>4. Bookkeeping' /\ Held(t)' = Held(t) /\ Held(t) = 0
    BY <1>1, <1>2, ThreadsAssumption, Zenon DEF IInv, TypeOK, Bookkeeping, MidUpdate, Held
  <1>5. TopState(t)'
    BY <1>1, <1>2, <1>4 DEF IInv, TypeOK, TopState, LevelsInside, Complete, Frames
  <1>6. OthersUntouched(t)
    BY <1>1, Zenon DEF IInv, TypeOK, OthersUntouched, MutexLock
  <1> QED
    BY <1>1, <1>3, <1>4, <1>5, <1>6, OneThread, Zenon DEF IInv, ThreadInv, Published

LEMMA LeaveGuardStep ==
    ASSUME NEW t \in Threads, IInv, LeaveGuard(t)
    PROVE  IInv'
  <1>1. /\ pc[t] = "run" /\ pc' = [pc EXCEPT ![t] = "disowned"]
        /\ Len(stack[t]) > 0 /\ Top(t).kind = "guard" /\ depth' = depth - 1
        /\ owner' = IF depth' = 0 THEN NoThread ELSE owner
        /\ UNCHANGED <<holder, count, stack, published, toRelock, pushes>>
    BY DEF LeaveGuard, Goto, ClearOwner, TopIs
  <1>2. Len(stack[t]) > 0 /\ Top(t) \in Frames /\ Top(t)' = Top(t) /\ TopState(t)
    BY <1>1, InsideFrame, Zenon
  <1>0. holder = t /\ depth = count /\ depth > 0 /\ depth \in Nat
    <2>1. Held(t) = Top(t).before + 1 /\ Top(t).before \in Nat
      BY <1>1, <1>2 DEF TopState, LevelsInside, Frames
    <2>2. holder = t /\ count > 0
      BY <2>1 DEF Held
    <2> QED
      BY <2>2, <1>1, Zenon DEF IInv, TypeOK, Bookkeeping, MidUpdate
  <1>3. TypeOK'
    BY <1>0, <1>1, <1>2 DEF IInv, TypeOK, PcValues
  <1>4. Bookkeeping' /\ Held(t)' = Held(t)
    BY <1>0, <1>1, <1>2, ThreadsAssumption, Zenon DEF IInv, TypeOK, Bookkeeping, MidUpdate, Held
  <1>5. TopState(t)'
    BY <1>1, <1>2, <1>4 DEF IInv, TypeOK, TopState, LevelsInside
  <1>6. OthersUntouched(t)
    BY <1>1, Zenon DEF IInv, TypeOK, OthersUntouched, MutexLock
  <1> QED
    BY <1>1, <1>3, <1>4, <1>5, <1>6, OneThread, Zenon DEF IInv, ThreadInv, Published

LEMMA RelockStep ==
    ASSUME NEW t \in Threads, IInv, Relock(t)
    PROVE  IInv'
  <1>1. /\ pc[t] = "relock" /\ pc' = [pc EXCEPT ![t] = "reowning"]
        /\ holder \in {NoThread, t} /\ holder' = t /\ count' = count + 1
        /\ UNCHANGED <<owner, depth, stack, published, toRelock, pushes>>
    BY Zenon DEF Relock, Goto, MutexLock
  <1>2. Len(stack[t]) > 0 /\ Top(t) \in Frames /\ Top(t)' = Top(t) /\ TopState(t)
        /\ Held(t) \in Nat
    BY <1>1, InsideFrame, Zenon
  <1>3. TypeOK'
    BY <1>1, <1>2 DEF IInv, TypeOK, PcValues
  <1>4. Bookkeeping' /\ Held(t)' = Held(t) + 1
    BY <1>1, <1>2, ThreadsAssumption DEF IInv, TypeOK, Bookkeeping, MidUpdate, Held
  <1>5. TopState(t)'
    BY <1>1, <1>2, <1>4, SMTT(30) DEF IInv, TypeOK, TopState, Frames
  <1>6. OthersUntouched(t)
    BY <1>1, Zenon DEF IInv, TypeOK, OthersUntouched, MutexLock
  <1> QED
    BY <1>1, <1>3, <1>4, <1>5, <1>6, OneThread, Zenon DEF IInv, ThreadInv, Published

LEMMA DrainUnlockStep ==
    ASSUME NEW t \in Threads, IInv, DrainUnlock(t)
    PROVE  IInv'
  <1> DEFINE n == Len(stack[t])
             f == [Top(t) EXCEPT !.levels = @ + 1]
  <1>1. /\ pc[t] = "drained" /\ pc' = [pc EXCEPT ![t] = "drain"]
        /\ count' = count - 1 /\ holder' = IF count' = 0 THEN NoThread ELSE holder
        /\ stack' = [stack EXCEPT ![t] = [stack[t] EXCEPT ![n] = f]]
        /\ UNCHANGED <<owner, depth, published, toRelock, pushes>>
    BY Zenon DEF DrainUnlock, Goto, MutexUnlock, Top
  <1>2. /\ n > 0 /\ Top(t) \in Frames /\ Held(t) \in Nat /\ n \in Nat
        /\ Top(t).kind = "release" /\ Top(t).found
        /\ Top(t).levels + Held(t) = Top(t).before
        /\ stack \in [Threads -> Seq(Frames)] /\ stack[t] \in Seq(Frames)
    <2>1. stack \in [Threads -> Seq(Frames)] /\ stack[t] \in Seq(Frames) /\ n \in Nat
      BY DEF IInv, TypeOK
    <2>2. n > 0 /\ Top(t) \in Frames /\ Held(t) \in Nat /\ TopState(t)
      BY <1>1, InsideFrame, Zenon
    <2> HIDE DEF n
    <2> QED
      BY <1>1, <2>1, <2>2, Zenon DEF TopState
  <1>3. holder = t /\ depth = count - 1 /\ depth \in Nat /\ count \in Nat
    BY <1>1, Zenon DEF IInv, TypeOK, Bookkeeping, MidUpdate
  <1>4. /\ f \in Frames /\ f.kind = "release" /\ f.found /\ f.before = Top(t).before
        /\ f.previous = Top(t).previous /\ f.levels = Top(t).levels + 1
    <2> DEFINE g == Top(t)
    <2>1. g \in Frames /\ g.kind = "release" /\ g.found
      BY <1>2, Zenon
    <2> HIDE DEF g
    <2>2. LET h == [g EXCEPT !.levels = @ + 1]
          IN  /\ h \in Frames /\ h.kind = "release" /\ h.found /\ h.before = g.before
              /\ h.previous = g.previous /\ h.levels = g.levels + 1
      BY <2>1 DEF Frames
    <2> QED
      BY <2>2, Zenon DEF g
  <1> HIDE DEF f
  <1> DEFINE s == stack[t]
             r == [s EXCEPT ![n] = f]
  <1>5. /\ r \in Seq(Frames) /\ Len(r) = n /\ r[n] = f
        /\ \A i \in 1 .. n : i # n => r[i] = s[i]
    BY <1>2, <1>4, ExceptSeq
  <1>6. stack'[t] = r /\ stack' \in [Threads -> Seq(Frames)]
        /\ \A u \in Threads \ {t} : stack'[u] = stack[u]
    BY <1>1, <1>2, <1>5, Zenon
  <1>7. s[n] = Top(t) /\ Chain(s) /\ Reached(s) /\ Published(t)
    BY Zenon DEF Top, IInv, ThreadInv
  <1> HIDE DEF r
  <1>8. Chain(r)
    BY <1>2, <1>4, <1>5, <1>7, SMTT(30) DEF Chain
  <1>9. \A m : PublicationBelow(r, m) => PublicationBelow(s, m)
    BY <1>2, <1>4, <1>5, <1>7, Zenon DEF PublicationBelow
  <1>10. Reached(r)
    BY <1>2, <1>4, <1>5, <1>7, <1>9 DEF Reached
  <1>11. TypeOK'
    BY <1>1, <1>3, <1>6, Zenon DEF IInv, TypeOK, PcValues
  <1>12. Bookkeeping' /\ Held(t)' = Held(t) - 1
    BY <1>1, <1>3, ThreadsAssumption, SMTT(30) DEF IInv, TypeOK, Bookkeeping, MidUpdate, Held
  <1>13. TopState(t)'
    <2>1. Top(t)' = f /\ Len(stack'[t]) > 0
      BY <1>2, <1>5, <1>6, Zenon DEF Top
    <2>2. f.levels + Held(t)' = f.before
      BY <1>2, <1>4, <1>12 DEF Frames
    <2> QED
      BY <2>1, <2>2, <1>1, <1>4, Zenon DEF TopState, IInv, TypeOK
  <1>14. Published(t)'
    BY <1>1, <1>5, <1>6, <1>7, <1>9, ZenonT(40) DEF Published
  <1>15. OthersUntouched(t)
    BY <1>1, <1>3, <1>6, Zenon DEF IInv, TypeOK, OthersUntouched, MutexUnlock
  <1> QED
    BY <1>6, <1>8, <1>10, <1>11, <1>12, <1>13, <1>14, <1>15, OneThread, Zenon DEF ThreadInv

LEMMA GuardUnlockStep ==
    ASSUME NEW t \in Threads, IInv, GuardUnlock(t)
    PROVE  IInv' /\ Balanced(t)
  <1>1. /\ pc[t] = "disowned" /\ pc' = [pc EXCEPT ![t] = "run"] /\ PopFrame(t)
        /\ count' = count - 1 /\ holder' = IF count' = 0 THEN NoThread ELSE holder
        /\ UNCHANGED <<owner, depth, published, toRelock>>
    BY Zenon DEF GuardUnlock, Goto, MutexUnlock
  <1>2. /\ Len(stack[t]) > 0 /\ Top(t) \in Frames /\ Held(t) \in Nat
        /\ Top(t).kind = "guard" /\ Held(t) = Top(t).before + 1
    BY <1>1, InsideFrame, Zenon DEF TopState
  <1>3. holder = t /\ depth = count - 1 /\ depth \in Nat /\ count \in Nat
    BY <1>1, Zenon DEF IInv, TypeOK, Bookkeeping, MidUpdate
  <1>4. Bookkeeping' /\ Held(t)' = Held(t) - 1
    BY <1>1, <1>3, ThreadsAssumption, Zenon DEF IInv, TypeOK, Bookkeeping, MidUpdate, Held
  <1>5. Held(t)' = Top(t).before /\ pc'[t] = "run" /\ published'[t] = published[t]
    BY <1>1, <1>2, <1>4 DEF Frames, IInv, TypeOK
  <1>6. /\ stack' \in [Threads -> Seq(Frames)]
        /\ pushes' \in [Threads -> 0 .. MaxPushes]
        /\ \A u \in Threads \ {t} : stack'[u] = stack[u]
        /\ ThreadInv(t)'
    BY <1>1, <1>2, <1>5, PopStep, Zenon
  <1>7. TypeOK'
    BY <1>1, <1>3, <1>6, Zenon DEF IInv, TypeOK, PcValues
  <1>8. OthersUntouched(t)
    BY <1>1, <1>3, <1>6, Zenon DEF IInv, TypeOK, OthersUntouched, MutexUnlock
  <1> QED
    BY <1>4, <1>5, <1>6, <1>7, <1>8, OneThread, Zenon DEF Balanced

LEMMA LeavePublicationStep ==
    ASSUME NEW t \in Threads, IInv, LeavePublication(t)
    PROVE  IInv' /\ Balanced(t)
  <1>1. /\ pc[t] = "run" /\ PopFrame(t)
        /\ Len(stack[t]) > 0 /\ Top(t).kind = "publication"
        /\ published' = [published EXCEPT ![t] = Top(t).previous]
        /\ UNCHANGED <<holder, count, owner, depth, pc, toRelock>>
    BY DEF LeavePublication, TopIs
  <1>2. Top(t) \in Frames /\ TopState(t)
    BY <1>1, InsideFrame, Zenon
  <1>3. Held(t)' = Top(t).before /\ Top(t).previous \in Nat
    BY <1>1, <1>2 DEF TopState, LevelsInside, Held, Frames
  <1>4. published'[t] = Top(t).previous
    BY <1>1, Zenon DEF IInv, TypeOK
  <1>5. /\ stack' \in [Threads -> Seq(Frames)]
        /\ pushes' \in [Threads -> 0 .. MaxPushes]
        /\ \A u \in Threads \ {t} : stack'[u] = stack[u]
        /\ ThreadInv(t)'
    BY <1>1, <1>3, <1>4, PopStep, Zenon
  <1>6. TypeOK'
    BY <1>1, <1>3, <1>5, Zenon DEF IInv, TypeOK
  <1>7. Bookkeeping'
    BY <1>1, Zenon DEF IInv, Bookkeeping
  <1>8. OthersUntouched(t)
    BY <1>1, <1>5, Zenon DEF IInv, TypeOK, OthersUntouched
  <1> QED
    BY <1>3, <1>5, <1>6, <1>7, <1>8, OneThread, Zenon DEF Balanced

LEMMA LeaveReleaseStep ==
    ASSUME NEW t \in Threads, IInv, LeaveRelease(t)
    PROVE  IInv' /\ Balanced(t)
  <1>1. /\ pc[t] = "run" /\ Len(stack[t]) > 0 /\ Top(t).kind = "release"
        /\ toRelock' = [toRelock EXCEPT ![t] = Top(t).levels]
        /\ UNCHANGED <<holder, count, owner, depth, published>>
    BY DEF LeaveRelease, TopIs
  <1>2. Top(t) \in Frames /\ TopState(t) /\ Held(t) \in Nat /\ Held(t)' = Held(t)
    BY <1>1, InsideFrame, Zenon DEF Held
  <1>3. /\ Top(t).levels \in Nat /\ Top(t).before \in Nat /\ Top(t).found \in BOOLEAN
        /\ Complete(Top(t)) /\ Held(t) = LevelsInside(Top(t))
    BY <1>1, <1>2 DEF TopState, Frames
  <1>4. toRelock' \in [Threads -> Nat] /\ toRelock'[t] = Top(t).levels
        /\ \A u \in Threads \ {t} : toRelock'[u] = toRelock[u]
    BY <1>1, <1>3, Zenon DEF IInv, TypeOK
  <1>5. CASE Top(t).levels = 0
    <2>1. PopFrame(t) /\ UNCHANGED pc
      BY <1>5, Zenon DEF LeaveRelease
    <2>2. Held(t)' = Top(t).before
      BY <1>1, <1>2, <1>3, <1>5, Zenon DEF Complete, LevelsInside
    <2>3. /\ stack' \in [Threads -> Seq(Frames)]
          /\ pushes' \in [Threads -> 0 .. MaxPushes]
          /\ \A u \in Threads \ {t} : stack'[u] = stack[u]
          /\ ThreadInv(t)'
      BY <2>1, <2>2, <1>1, PopStep, Zenon
    <2>4. TypeOK'
      BY <2>1, <2>3, <1>1, <1>4, Zenon DEF IInv, TypeOK
    <2>5. Bookkeeping'
      BY <2>1, <1>1, Zenon DEF IInv, Bookkeeping
    <2>6. OthersUntouched(t)
      BY <2>1, <2>3, <1>1, <1>4, Zenon DEF OthersUntouched
    <2> QED
      BY <2>2, <2>3, <2>4, <2>5, <2>6, OneThread, Zenon DEF Balanced
  <1>6. CASE Top(t).levels # 0
    <2>1. pc' = [pc EXCEPT ![t] = "relock"] /\ UNCHANGED <<stack, pushes>>
      BY <1>6, Zenon DEF LeaveRelease, Goto
    <2>2. TypeOK'
      BY <2>1, <1>1, <1>4, Zenon DEF IInv, TypeOK, PcValues
    <2>3. Bookkeeping'
      BY <2>1, <1>1, Zenon DEF IInv, TypeOK, Bookkeeping, MidUpdate
    <2>4. pc'[t] = "relock" /\ Top(t)' = Top(t) /\ Len(stack'[t]) > 0
      BY <2>1, <1>1, Zenon DEF IInv, TypeOK, Top
    <2>5. Top(t).found /\ Top(t).levels = Top(t).before /\ Held(t) = 0
      BY <1>1, <1>3, <1>6, Zenon DEF Complete, LevelsInside
    <2>6. TopState(t)'
      <3>1. /\ Top(t)'.kind = "release" /\ Complete(Top(t))'
            /\ Top(t)'.levels = Top(t)'.before
        BY <2>4, <2>5, <1>1, <1>3, Zenon DEF Complete
      <3>2. /\ toRelock'[t] > 0
            /\ Held(t)' + toRelock'[t] = Top(t)'.levels + 0
        BY <2>4, <2>5, <1>1, <1>2, <1>3, <1>4, <1>6
      <3> QED
        BY <3>1, <3>2, <2>4, SMTT(30) DEF TopState
    <2>7. OthersUntouched(t)
      BY <2>1, <1>1, <1>4, Zenon DEF IInv, TypeOK, OthersUntouched
    <2>8. Balanced(t)
      BY <2>1 DEF Balanced, IInv, TypeOK
    <2> QED
      BY <2>1, <2>2, <2>3, <2>6, <2>7, <2>8, <1>1, OneThread, Zenon DEF IInv, ThreadInv, Published
  <1> QED
    BY <1>5, <1>6, Zenon

LEMMA RelockOwnsStep ==
    ASSUME NEW t \in Threads, IInv, RelockOwns(t)
    PROVE  IInv' /\ Balanced(t)
  <1>1. /\ pc[t] = "reowning" /\ depth' = depth + 1 /\ owner' = t
        /\ toRelock' = [toRelock EXCEPT ![t] = @ - 1]
        /\ UNCHANGED <<holder, count, published>>
    BY Zenon DEF RelockOwns, PublishOwner
  <1>2. /\ Len(stack[t]) > 0 /\ Top(t) \in Frames /\ Held(t) \in Nat
        /\ Held(t)' = Held(t) /\ TopState(t)
    BY <1>1, InsideFrame, Zenon DEF Held
  <1>3. /\ Top(t).kind = "release" /\ Complete(Top(t))
        /\ Top(t).levels = Top(t).before /\ Top(t).levels \in Nat
        /\ toRelock[t] > 0 /\ toRelock[t] \in Nat
        /\ Held(t) + toRelock[t] = Top(t).levels + 1
    BY <1>1, <1>2, Zenon DEF TopState, Frames, IInv, TypeOK
  <1>4. toRelock' \in [Threads -> Nat] /\ toRelock'[t] = toRelock[t] - 1
        /\ \A u \in Threads \ {t} : toRelock'[u] = toRelock[u]
    BY <1>1, <1>3 DEF IInv, TypeOK
  <1>5. holder = t /\ depth = count - 1 /\ depth \in Nat /\ count \in Nat
    BY <1>1, Zenon DEF IInv, TypeOK, Bookkeeping, MidUpdate
  <1>6. CASE toRelock[t] = 1
    <2>1. PopFrame(t) /\ pc' = [pc EXCEPT ![t] = "run"]
      BY <1>6, Zenon DEF RelockOwns, Goto
    <2>2. Held(t)' = Top(t).before /\ pc'[t] = "run" /\ published'[t] = published[t]
      <3>1. Held(t)' = Top(t).before
        BY <1>2, <1>3, <1>6
      <3> QED
        BY <3>1, <2>1, <1>1, Zenon DEF IInv, TypeOK
    <2>3. /\ stack' \in [Threads -> Seq(Frames)]
          /\ pushes' \in [Threads -> 0 .. MaxPushes]
          /\ \A u \in Threads \ {t} : stack'[u] = stack[u]
          /\ ThreadInv(t)'
      BY <2>1, <2>2, <1>2, <1>3, PopStep, Zenon
    <2>4. TypeOK'
      BY <2>1, <2>3, <1>1, <1>4, <1>5 DEF IInv, TypeOK, PcValues
    <2>5. Bookkeeping'
      BY <2>1, <1>1, <1>5, ThreadsAssumption DEF IInv, TypeOK, Bookkeeping, MidUpdate
    <2>6. OthersUntouched(t)
      BY <2>1, <2>3, <1>1, <1>4, Zenon DEF IInv, TypeOK, OthersUntouched
    <2> QED
      BY <2>2, <2>3, <2>4, <2>5, <2>6, OneThread, Zenon DEF Balanced
  <1>7. CASE toRelock[t] # 1
    <2>1. pc' = [pc EXCEPT ![t] = "relock"] /\ UNCHANGED <<stack, pushes>>
      BY <1>7, Zenon DEF RelockOwns, Goto
    <2>2. TypeOK'
      BY <2>1, <1>1, <1>4, <1>5 DEF IInv, TypeOK, PcValues
    <2>3. Bookkeeping'
      BY <2>1, <1>1, <1>5, ThreadsAssumption DEF IInv, TypeOK, Bookkeeping, MidUpdate
    <2>4. pc'[t] = "relock" /\ Top(t)' = Top(t) /\ Len(stack'[t]) > 0
      BY <2>1, <1>2, Zenon DEF IInv, TypeOK, Top
    <2>5. toRelock'[t] > 0 /\ Held(t)' + toRelock'[t] = Top(t).levels
      BY <1>2, <1>3, <1>4, <1>7
    <2>6. TopState(t)'
      <3>1. /\ Top(t)'.kind = "release" /\ Complete(Top(t))'
            /\ Top(t)'.levels = Top(t)'.before
        BY <2>4, <1>3, Zenon DEF Complete
      <3>2. /\ toRelock'[t] > 0
            /\ Held(t)' + toRelock'[t] = Top(t)'.levels + 0
        BY <2>4, <2>5, <1>2, <1>3, <1>4
      <3> QED
        BY <3>1, <3>2, <2>4, SMTT(30) DEF TopState
    <2>7. OthersUntouched(t)
      BY <2>1, <1>1, <1>4, Zenon DEF IInv, TypeOK, OthersUntouched
    <2>8. Balanced(t)
      BY <2>1 DEF Balanced, IInv, TypeOK
    <2> QED
      BY <2>1, <2>2, <2>3, <2>6, <2>7, <2>8, <1>1, OneThread, Zenon DEF IInv, ThreadInv, Published
  <1> QED
    BY <1>6, <1>7, Zenon
-----------------------------------------------------------------------------
(* Every step of every thread preserves the invariant. *)
LEMMA NextIInv == IInv /\ [Next]_vars => IInv'
  <1> SUFFICES ASSUME IInv, [Next]_vars PROVE IInv'
    BY Zenon
  <1>1. CASE UNCHANGED vars
    <2>1. TypeOK' /\ Bookkeeping'
      BY <1>1, Zenon DEF IInv, TypeOK, Bookkeeping, vars
    <2>2. ASSUME NEW u \in Threads PROVE ThreadInv(u)'
      BY <1>1, OtherThread, Zenon DEF IInv, vars, Held
    <2> QED
      BY <2>1, <2>2, Zenon DEF IInv
  <1>2. ASSUME NEW t \in Threads, Enter(t) PROVE IInv'
    BY <1>2, EnterGuardStep, TryEnterGuardStep, EnterPublicationStep, EnterReleaseStep, Zenon
       DEF Enter
  <1>3. ASSUME NEW t \in Threads, Leave(t) PROVE IInv'
    BY <1>3, LeaveGuardStep, LeavePublicationStep, LeaveReleaseStep, Zenon DEF Leave
  <1>4. ASSUME NEW t \in Threads, Continue(t) PROVE IInv'
    BY <1>4, GuardLockStep, GuardOwnsStep, GuardUnlockStep, DrainStep, DrainUnlockStep,
       DrainDoneStep, RelockStep, RelockOwnsStep, Zenon
       DEF Continue
  <1> QED
    BY <1>1, <1>2, <1>3, <1>4, Zenon DEF Next, Step

(* The invariant holds throughout, whatever the threads and MaxPushes. *)
THEOREM Invariance == Spec => []IInv
  BY InitIInv, NextIInv, PTL DEF Spec

(* Every variable keeps its type; depth_ never goes below zero. *)
THEOREM TypeCorrect == Spec => []TypeOK
  <1>1. IInv => TypeOK
    BY Zenon DEF IInv
  <1> QED
    BY <1>1, Invariance, PTL

(* held_by_current_thread() never says yes to a thread that does not hold  *)
(* the std::recursive_mutex, although owner_ is written apart from it.     *)
THEOREM OwnerCorrect == Spec => []OwnerIsHolder
  <1>1. IInv => OwnerIsHolder
    BY Zenon DEF IInv, Bookkeeping, OwnerIsHolder
  <1> QED
    BY <1>1, Invariance, PTL

(* No thread blocks inside a RuntimeLockRelease scope with a level of the  *)
(* runtime mutex in hand, however deeply the scopes and guards nest.       *)
THEOREM BlockingWorkUnlocked == Spec => []BlockingWorkHoldsNothing
  <1>1. IInv => BlockingWorkHoldsNothing
    <2> SUFFICES ASSUME IInv, NEW t \in Threads, pc[t] = "run", TopIs(t, "release"),
                        Top(t).found \/ \E i \in DOMAIN stack[t] :
                                            stack[t][i].kind = "publication"
                 PROVE  holder # t
      BY Zenon DEF BlockingWorkHoldsNothing
    <2> DEFINE n == Len(stack[t])
    <2>1. /\ stack[t] \in Seq(Frames) /\ n \in Nat /\ n > 0
          /\ DOMAIN stack[t] = 1 .. n
      BY NonEmpty DEF IInv, TypeOK, TopIs
    <2>2. Top(t).kind = "release" /\ Top(t) = stack[t][n]
      BY Zenon DEF TopIs, Top
    <2>3. Top(t).found
      <3> SUFFICES ASSUME NEW i \in DOMAIN stack[t], stack[t][i].kind = "publication"
                   PROVE  Top(t).found
        BY Zenon
      <3>1. i \in 1 .. n /\ i < n
        BY <2>1, <2>2, SMTT(30)
      <3>2. PublicationBelow(stack[t], n)
        BY <3>1, Zenon DEF PublicationBelow
      <3> QED
        BY <3>2, <2>1, <2>2, SMTT(30) DEF IInv, ThreadInv, Reached
    <2>4. Held(t) = 0
      BY <2>1, <2>2, <2>3 DEF IInv, ThreadInv, TopState, LevelsInside
    <2> QED
      BY <2>4, ThreadsAssumption, Zenon DEF Held, IInv, Bookkeeping
  <1> QED
    BY <1>1, Invariance, PTL

(* A frame is left with exactly the levels it was entered with: what       *)
(* ~RuntimeLockRelease re-acquires is what its constructor dropped.        *)
THEOREM Balance == Spec => FramesBalance
  <1> DEFINE Balances == \A t \in Threads : Balanced(t)
  <1>1. ASSUME IInv, [Next]_vars PROVE [Balances]_vars
    <2> SUFFICES ASSUME NEW t \in Threads, Step(t), NEW u \in Threads
                 PROVE  Balanced(u)
      BY <1>1, Zenon DEF Next
    <2>0. stack \in [Threads -> Seq(Frames)] /\ Len(stack[u]) \in Nat
      <3>1. stack \in [Threads -> Seq(Frames)]
        BY <1>1, Zenon DEF IInv, TypeOK
      <3> QED
        BY <3>1
    <2>1. ASSUME NEW kind, NEW found, Push(t, kind, found) PROVE Balanced(u)
      BY <2>0, <2>1 DEF Push, Balanced
    <2>2. CASE Enter(t)
      BY <2>1, <2>2, Zenon DEF Enter, EnterGuard, TryEnterGuard, EnterPublication, EnterRelease
    <2>3. ASSUME UNCHANGED stack PROVE Balanced(u)
      BY <2>0, <2>3 DEF Balanced
    <2>4. ASSUME u # t, PopFrame(t) PROVE Balanced(u)
      BY <2>0, <2>4 DEF Balanced, PopFrame
    <2>5. CASE GuardUnlock(t)
      BY <1>1, <2>4, <2>5, GuardUnlockStep, Zenon DEF GuardUnlock
    <2>6. CASE LeavePublication(t)
      BY <1>1, <2>4, <2>6, LeavePublicationStep, Zenon DEF LeavePublication
    <2>7. CASE LeaveRelease(t)
      BY <1>1, <2>3, <2>4, <2>7, LeaveReleaseStep, Zenon DEF LeaveRelease
    <2>8. CASE RelockOwns(t)
      BY <1>1, <2>3, <2>4, <2>8, RelockOwnsStep, Zenon DEF RelockOwns
    <2>9. CASE DrainUnlock(t)
      <3>1. Len(stack'[u]) = Len(stack[u])
        BY <2>0, <2>9, ExceptSeq DEF DrainUnlock
      <3> QED
        BY <3>1, <2>0 DEF Balanced
    <2>10. CASE LeaveGuard(t) \/ GuardLock(t) \/ GuardOwns(t) \/ Drain(t)
                \/ DrainDone(t) \/ Relock(t)
      BY <2>3, <2>10, Zenon DEF LeaveGuard, GuardLock, GuardOwns, Drain, DrainDone, Relock
    <2> QED
      BY <2>2, <2>5, <2>6, <2>7, <2>8, <2>9, <2>10, Zenon DEF Step, Leave, Continue
  <1>2. Spec => [][Balances]_vars
    BY <1>1, Invariance, PTL DEF Spec
  <1> QED
    BY <1>2, Zenon DEF FramesBalance, Balanced
=============================================================================
