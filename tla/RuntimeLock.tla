----------------------------- MODULE RuntimeLock -----------------------------
(***************************************************************************)
(* HomeserverRuntime::mutex: the owner-tracking recursive mutex            *)
(* (RuntimeMutex), the scope that publishes a request's guard              *)
(* (RequestLockScope) and the scope that drops every recursion level       *)
(* around blocking work and takes them back (RuntimeLockRelease).          *)
(*                                                                         *)
(* Each thread is a call stack of RAII frames.  A frame is a guard         *)
(* (std::unique_lock<RuntimeMutex>), a publication (RequestLockScope) or a *)
(* release scope; frames are entered and left in LIFO order, which is also *)
(* what an exception does.  lock() and unlock() take two steps each: the   *)
(* std::recursive_mutex call and the owner_/depth_ update are separate,    *)
(* because other threads read owner_ in between.                           *)
(***************************************************************************)
EXTENDS Integers, Sequences

CONSTANTS
    Threads,     \* the threads that contend on the runtime mutex
    NoThread,    \* std::thread::id{}
    MaxPushes    \* bound: RAII frames one request enters

ASSUME ThreadsAssumption == NoThread \notin Threads
ASSUME MaxPushesAssumption == MaxPushes \in Nat

VARIABLES
    holder,      \* the thread std::recursive_mutex mutex_ is locked by
    count,       \* the recursion count std::recursive_mutex keeps
    owner,       \* owner_
    depth,       \* depth_
    pc,          \* where each thread is inside a frame's constructor or destructor
    stack,       \* the RAII frames each thread is inside, innermost last
    published,   \* current_request_guard: index of the guard's frame, 0 for nullptr
    toRelock,    \* levels ~RuntimeLockRelease still has to re-acquire
    pushes       \* frames entered since the thread's stack was last empty

vars == <<holder, count, owner, depth, pc, stack, published, toRelock, pushes>>

(***************************************************************************)
(* A frame.  found: a release scope had a guard to read the mutex from.    *)
(* previous: RequestLockScope::previous_.  levels: levels_.                *)
(* before is a history field: the levels the thread held on entry.         *)
(***************************************************************************)
Frames == [kind : {"guard", "publication", "release"}, found : BOOLEAN,
           previous : Nat, levels : Nat, before : Nat]

PcValues == {"run", "lock", "owning", "disowned",
             "drain", "drained", "relock", "reowning"}

Held(t) == IF holder = t THEN count ELSE 0
Top(t) == stack[t][Len(stack[t])]
Pop(t) == SubSeq(stack[t], 1, Len(stack[t]) - 1)
GuardFrames(t) == {i \in DOMAIN stack[t] : stack[t][i].kind = "guard"}
TopIs(t, kind) == stack[t] # <<>> /\ Top(t).kind = kind

Init ==
    /\ holder = NoThread /\ count = 0
    /\ owner = NoThread /\ depth = 0
    /\ pc = [t \in Threads |-> "run"]
    /\ stack = [t \in Threads |-> <<>>]
    /\ published = [t \in Threads |-> 0]
    /\ toRelock = [t \in Threads |-> 0]
    /\ pushes = [t \in Threads |-> 0]

-----------------------------------------------------------------------------
(***************************************************************************)
(* The two halves of lock() and unlock().                                  *)
(***************************************************************************)

(* mutex_.lock(): blocks while another thread holds it. *)
MutexLock(t) ==
    /\ holder \in {NoThread, t}
    /\ holder' = t
    /\ count' = count + 1
    /\ UNCHANGED <<owner, depth>>

(* ++depth_; owner_.store(this thread) *)
PublishOwner(t) ==
    /\ depth' = depth + 1
    /\ owner' = t
    /\ UNCHANGED <<holder, count>>

(* --depth_; the owner is cleared with the last level. *)
ClearOwner ==
    /\ depth' = depth - 1
    /\ owner' = IF depth' = 0 THEN NoThread ELSE owner
    /\ UNCHANGED <<holder, count>>

(* mutex_.unlock() *)
MutexUnlock ==
    /\ count' = count - 1
    /\ holder' = IF count' = 0 THEN NoThread ELSE holder
    /\ UNCHANGED <<owner, depth>>

HeldByCurrentThread(t) == owner = t

Goto(t, label) == pc' = [pc EXCEPT ![t] = label]

-----------------------------------------------------------------------------
(***************************************************************************)
(* Entering a frame: a constructor begins.                                 *)
(***************************************************************************)
Push(t, kind, found) ==
    /\ pc[t] = "run"
    /\ pushes[t] < MaxPushes
    /\ pushes' = [pushes EXCEPT ![t] = @ + 1]
    /\ stack' = [stack EXCEPT ![t] =
                   Append(@, [kind |-> kind, found |-> found,
                              previous |-> published[t], levels |-> 0,
                              before |-> Held(t)])]

(* std::unique_lock guard{runtime.mutex} *)
EnterGuard(t) ==
    /\ Push(t, "guard", FALSE)
    /\ Goto(t, "lock")
    /\ UNCHANGED <<holder, count, owner, depth, published, toRelock>>

(* std::unique_lock guard{runtime.mutex, std::try_to_lock}: the successful *)
(* try_lock(); a failed one returns false and leaves everything alone.     *)
TryEnterGuard(t) ==
    /\ Push(t, "guard", FALSE)
    /\ MutexLock(t)
    /\ Goto(t, "owning")
    /\ UNCHANGED <<published, toRelock>>

(* RequestLockScope{guard}, for a guard of an enclosing frame. *)
EnterPublication(t) ==
    /\ Push(t, "publication", FALSE)
    /\ \E i \in GuardFrames(t) : published' = [published EXCEPT ![t] = i]
    /\ UNCHANGED <<holder, count, owner, depth, pc, toRelock>>

(* RuntimeLockRelease{} or RuntimeLockRelease{guard}: with no guard there  *)
(* is no mutex to act on and the scope does nothing.                       *)
EnterRelease(t) ==
    \E guardInHand \in {FALSE} \cup {g \in {TRUE} : GuardFrames(t) # {}} :
        LET found == guardInHand \/ published[t] # 0 IN
        /\ Push(t, "release", found)
        /\ Goto(t, IF found THEN "drain" ELSE "run")
        /\ UNCHANGED <<holder, count, owner, depth, published, toRelock>>

-----------------------------------------------------------------------------
(***************************************************************************)
(* Inside constructors and destructors.                                    *)
(***************************************************************************)

(* The guard's lock(): first the mutex, then the owner. *)
GuardLock(t) ==
    /\ pc[t] = "lock"
    /\ MutexLock(t)
    /\ Goto(t, "owning")
    /\ UNCHANGED <<stack, published, toRelock, pushes>>

GuardOwns(t) ==
    /\ pc[t] = "owning"
    /\ PublishOwner(t)
    /\ Goto(t, "run")
    /\ UNCHANGED <<stack, published, toRelock, pushes>>

(* while (mutex_->held_by_current_thread()) { unlock(); ++levels_; } *)
Drain(t) ==
    /\ pc[t] = "drain"
    /\ HeldByCurrentThread(t)
    /\ ClearOwner
    /\ Goto(t, "drained")
    /\ UNCHANGED <<stack, published, toRelock, pushes>>

(* Mutant: one level is dropped, not all of them. *)
DrainUnlockOnce(t) ==
    /\ pc[t] = "drained"
    /\ MutexUnlock
    /\ stack' = [stack EXCEPT ![t][Len(stack[t])].levels = @ + 1]
    /\ Goto(t, "run")
    /\ UNCHANGED <<published, toRelock, pushes>>

DrainUnlock(t) ==
    /\ pc[t] = "drained"
    /\ MutexUnlock
    /\ stack' = [stack EXCEPT ![t][Len(stack[t])].levels = @ + 1]
    /\ Goto(t, "drain")
    /\ UNCHANGED <<published, toRelock, pushes>>

DrainDone(t) ==
    /\ pc[t] = "drain"
    /\ ~HeldByCurrentThread(t)
    /\ Goto(t, "run")
    /\ UNCHANGED <<holder, count, owner, depth, stack, published, toRelock, pushes>>

-----------------------------------------------------------------------------
(***************************************************************************)
(* Leaving the innermost frame: a destructor runs.  The request is over    *)
(* when its stack is empty.                                                *)
(***************************************************************************)
PopFrame(t) ==
    /\ stack' = [stack EXCEPT ![t] = Pop(t)]
    /\ pushes' = [pushes EXCEPT ![t] = IF Len(stack[t]) = 1 THEN 0 ELSE @]

(* ~unique_lock: unlock() clears the owner, then releases the mutex. *)
LeaveGuard(t) ==
    /\ pc[t] = "run"
    /\ TopIs(t, "guard")
    /\ ClearOwner
    /\ Goto(t, "disowned")
    /\ UNCHANGED <<stack, published, toRelock, pushes>>

GuardUnlock(t) ==
    /\ pc[t] = "disowned"
    /\ MutexUnlock
    /\ PopFrame(t)
    /\ Goto(t, "run")
    /\ UNCHANGED <<published, toRelock>>

(* ~RequestLockScope *)
LeavePublication(t) ==
    /\ pc[t] = "run"
    /\ TopIs(t, "publication")
    /\ published' = [published EXCEPT ![t] = Top(t).previous]
    /\ PopFrame(t)
    /\ UNCHANGED <<holder, count, owner, depth, pc, toRelock>>

(* Mutant: the destructor takes one level more than it dropped. *)
LeaveReleaseExtraLevel(t) ==
    /\ pc[t] = "run"
    /\ TopIs(t, "release")
    /\ toRelock' = [toRelock EXCEPT ![t] = Top(t).levels + 1]
    /\ IF Top(t).levels = 0
         THEN PopFrame(t) /\ UNCHANGED pc
         ELSE Goto(t, "relock") /\ UNCHANGED <<stack, pushes>>
    /\ UNCHANGED <<holder, count, owner, depth, published>>

(* ~RuntimeLockRelease: lock() once per level, or nothing at all. *)
LeaveRelease(t) ==
    /\ pc[t] = "run"
    /\ TopIs(t, "release")
    /\ toRelock' = [toRelock EXCEPT ![t] = Top(t).levels]
    /\ IF Top(t).levels = 0
         THEN PopFrame(t) /\ UNCHANGED pc
         ELSE Goto(t, "relock") /\ UNCHANGED <<stack, pushes>>
    /\ UNCHANGED <<holder, count, owner, depth, published>>

Relock(t) ==
    /\ pc[t] = "relock"
    /\ MutexLock(t)
    /\ Goto(t, "reowning")
    /\ UNCHANGED <<stack, published, toRelock, pushes>>

RelockOwns(t) ==
    /\ pc[t] = "reowning"
    /\ PublishOwner(t)
    /\ toRelock' = [toRelock EXCEPT ![t] = @ - 1]
    /\ IF toRelock[t] = 1
         THEN PopFrame(t) /\ Goto(t, "run")
         ELSE Goto(t, "relock") /\ UNCHANGED <<stack, pushes>>
    /\ UNCHANGED published

-----------------------------------------------------------------------------
Enter(t) == EnterGuard(t) \/ TryEnterGuard(t) \/ EnterPublication(t) \/ EnterRelease(t)

Leave(t) == LeaveGuard(t) \/ LeavePublication(t) \/ LeaveRelease(t)

Continue(t) ==
    \/ GuardLock(t) \/ GuardOwns(t) \/ GuardUnlock(t)
    \/ Drain(t) \/ DrainUnlock(t) \/ DrainDone(t)
    \/ Relock(t) \/ RelockOwns(t)

Step(t) == Enter(t) \/ Leave(t) \/ Continue(t)

Next == \E t \in Threads : Step(t)

(* A thread inside a frame keeps running: it leaves its frames, after at   *)
(* most MaxPushes entries.  Only the wait for the mutex can hold it up.    *)
Spec == Init /\ [][Next]_vars /\ \A t \in Threads : WF_vars(Leave(t) \/ Continue(t) )
-----------------------------------------------------------------------------
(***************************************************************************)
(* Properties                                                              *)
(***************************************************************************)

(* Every variable stays in its type; in particular the recursion count and *)
(* depth_ (a std::size_t) never go below zero.                             *)
TypeOK ==
    /\ holder \in Threads \cup {NoThread}
    /\ owner \in Threads \cup {NoThread}
    /\ count \in Nat
    /\ depth \in Nat
    /\ pc \in [Threads -> PcValues]
    /\ stack \in [Threads -> Seq(Frames)]
    /\ published \in [Threads -> Nat]
    /\ toRelock \in [Threads -> Nat]
    /\ pushes \in [Threads -> 0 .. MaxPushes]

(* owner_ names a thread only while that thread holds mutex_: lock()       *)
(* publishes the owner after the acquisition and unlock() clears it before *)
(* the release, so held_by_current_thread() never says yes to a thread     *)
(* that does not hold the mutex, and a free mutex never reports an owner.  *)
OwnerIsHolder == owner # NoThread => holder = owner

(* Blocking work runs without the runtime mutex.  Inside a release scope   *)
(* that had a guard in hand, or anywhere below a RequestLockScope, the     *)
(* thread holds no level at all, however many guards enclose the scope.    *)
BlockingWorkHoldsNothing ==
    \A t \in Threads :
        /\ pc[t] = "run"
        /\ TopIs(t, "release")
        /\ \/ Top(t).found
           \/ \E i \in DOMAIN stack[t] : stack[t][i].kind = "publication"
        => holder # t

(* Leaving a frame gives the thread back exactly the levels it held when   *)
(* it entered it: ~RuntimeLockRelease restores what the constructor (and   *)
(* nothing else) dropped, and guards inside a release scope balance.       *)
FramesBalance ==
    [][\A t \in Threads :
          Len(stack'[t]) < Len(stack[t]) => Held(t)' = Top(t).before]_vars

(* Whoever holds the runtime mutex eventually lets go of it: no sequence   *)
(* of guards, publications and nested release scopes strands it locked.    *)
NeverStranded == \A t \in Threads : holder = t ~> holder # t
-----------------------------------------------------------------------------
(***************************************************************************)
(* The inductive invariant behind the safety properties: what depth_ and   *)
(* owner_ say of the mutex, and what each thread's frames say of the       *)
(* levels it holds, at every point inside a constructor or a destructor.   *)
(***************************************************************************)

(* Between the mutex call and the bookkeeping next to it. *)
MidUpdate == {"owning", "reowning", "disowned", "drained"}

Bookkeeping ==
    /\ holder = NoThread <=> count = 0
    /\ \A t \in Threads : pc[t] \in MidUpdate => holder = t /\ depth = count - 1
    /\ \A t \in Threads : holder = t /\ pc[t] \notin MidUpdate => depth = count
    /\ holder = NoThread => depth = 0
    /\ owner = IF depth = 0 THEN NoThread ELSE holder

(* The levels a thread holds once it is inside frame f. *)
LevelsInside(f) ==
    CASE f.kind = "guard" -> f.before + 1
      [] f.kind = "publication" -> f.before
      [] f.kind = "release" -> IF f.found THEN 0 ELSE f.before

(* A fully constructed release scope dropped everything, or did nothing. *)
Complete(f) == f.kind = "release" => f.levels = IF f.found THEN f.before ELSE 0

(* Each frame was entered with the levels the frame below it stands for. *)
Chain(s) ==
    /\ Len(s) > 0 => s[1].before = 0
    /\ \A i \in 1 .. (Len(s) - 1) :
          Complete(s[i]) /\ s[i + 1].before = LevelsInside(s[i])

TopState(t) ==
    /\ pc[t] = "run" =>
          IF Len(stack[t]) = 0 THEN Held(t) = 0
          ELSE Complete(Top(t)) /\ Held(t) = LevelsInside(Top(t))
    /\ pc[t] # "run" => Len(stack[t]) > 0
    /\ pc[t] = "lock" => Top(t).kind = "guard" /\ Held(t) = Top(t).before
    /\ pc[t] \in {"owning", "disowned"} =>
          Top(t).kind = "guard" /\ Held(t) = Top(t).before + 1
    /\ pc[t] \in {"drain", "drained"} =>
          /\ Top(t).kind = "release" /\ Top(t).found
          /\ Top(t).levels + Held(t) = Top(t).before
    /\ pc[t] \in {"relock", "reowning"} =>
          /\ Top(t).kind = "release" /\ Complete(Top(t)) /\ Top(t).levels = Top(t).before
          /\ toRelock[t] > 0
          /\ Held(t) + toRelock[t] = Top(t).levels + IF pc[t] = "reowning" THEN 1 ELSE 0

(* A publication below a frame reaches every frame above it. *)
PublicationBelow(s, n) == \E i \in 1 .. Len(s) : i < n /\ s[i].kind = "publication"

Reached(s) ==
    \A n \in 1 .. Len(s) :
        PublicationBelow(s, n) =>
            s[n].previous # 0 /\ (s[n].kind = "release" => s[n].found)

Published(t) == PublicationBelow(stack[t], Len(stack[t]) + 1) => published[t] # 0

(* What the invariant says of one thread. *)
ThreadInv(t) == Chain(stack[t]) /\ Reached(stack[t]) /\ TopState(t) /\ Published(t)

IInv == TypeOK /\ Bookkeeping /\ \A t \in Threads : ThreadInv(t)
=============================================================================
