------------------------------ MODULE MCWorkers ------------------------------
(***************************************************************************)
(* The main process and its workers, for TLC: the channel between the two, *)
(* with one caller, which may call twice and holds the lock the request    *)
(* handler takes (IpcChannelProofs is about any number); the same channel  *)
(* with a peer that also sends what is no frame; and the supervision of    *)
(* two workers.  A behaviour is one of these parts', and what it is not    *)
(* about stays as it began.                                                *)
(***************************************************************************)
EXTENDS IpcChannel

CONSTANTS c1

VARIABLES
    part,
    alive, well, channel, pid, fresh, loop, stop, taken, ending, backoff, owner, exits, process, link,
    poolOpen, spawnFailures, keyFailures

MCCallers == {c1}

W == INSTANCE WorkerSupervisor WITH
        running <- alive, healthy <- well,
        Shards <- 2, MaxExits <- 2, MaxSpawnFailures <- 1, MaxKeyFailures <- 1

Garbled == INSTANCE IpcChannel WITH MaxIds <- 1, MaxAsked <- 1, PeerMisbehaves <- TRUE

supervision == <<alive, well, channel, pid, fresh, loop, stop, taken, ending, backoff, owner, exits,
                 process, link, poolOpen, spawnFailures, keyFailures>>

WorkersInit ==
    /\ W!Init
    /\ \/ part \in {"channel", "supervision"} /\ Init
       \/ part = "garbled" /\ Garbled!Init

WorkersNext ==
    /\ UNCHANGED part
    /\ \/ part = "channel" /\ Next /\ UNCHANGED supervision
       \/ part = "garbled" /\ Garbled!Next /\ UNCHANGED supervision
       \/ part = "supervision" /\ W!Next /\ UNCHANGED vars

Either(A, B) == (part = "channel" /\ A) \/ (part = "garbled" /\ B)

(* Fairness is that of IpcChannel and of WorkerSupervisor. *)
WorkersSpec ==
    /\ WorkersInit /\ [][WorkersNext]_<<vars, part, supervision>>
    /\ SF_vars(Either(ReaderStep, Garbled!ReaderStep))
    /\ WF_vars(Either(DispatcherStep, Garbled!DispatcherStep)) /\ WF_vars(Either(StopStep, Garbled!StopStep))
    /\ WF_vars(Either(Write(c1) \/ WriteFails(c1), Garbled!Write(c1) \/ Garbled!WriteFails(c1)))
    /\ WF_vars(Either(Wake(c1), Garbled!Wake(c1)))
    /\ \A s \in 1 .. 2 : /\ WF_supervision(part = "supervision" /\ (W!SpawnStep(s) \/ W!LoopStep(s)))
                         /\ WF_supervision(part = "supervision" /\ W!StopStep(s))
    /\ WF_supervision(part = "supervision" /\ W!OrphanExits)

(* A shard has one worker process at a time, restarts back off, a request  *)
(* is never answered on the channel of another worker and has one unless   *)
(* its own is being stopped, a loop gives up only after a failed spawn,    *)
(* and stop() leaves no process behind.                                    *)
SupervisionIsSound ==
    /\ W!TypeOK /\ W!OneWorkerPerShard /\ W!RestartsBackOff
    /\ W!AnswersOnItsChannel /\ W!GivesUpOnlyAfterAFailedSpawn /\ W!StopLeavesNoWorker

=============================================================================
