------------------------------ MODULE Downloads ------------------------------
(***************************************************************************)
(* A load of a URLLoader (flashnet.cpp): a job of the thread pool makes a  *)
(* downloader (netutils.cpp), which is a job of the other thread pool,     *)
(* waits until its stream has terminated, copies it and posts the outcome  *)
(* to the script.  Meanwhile the script may call close() or load() again,  *)
(* and the player may be closed (swf.cpp): both abort the load, and the    *)
(* second stops the downloads and the pools first.                         *)
(*                                                                         *)
(* The stream is that of StreamCache.  The job waits on it like a reader;  *)
(* the transfer of the data, by curl or from a file, is external.          *)
(***************************************************************************)
EXTENDS StreamCache

CONSTANTS
    Loader,     \* the URLLoaderThread
    Announced   \* the lengths a response may announce, 0 for none

ASSUME DownloadAssumption ==
    Readers = {Loader} /\ VmReaders = {} /\ Announced \subseteq Nat

VARIABLES
    pc,             \* where the load, the download, close() and destroy() are
    length,         \* of the Downloader
    downloader,     \* DownloaderThreadBase::downloader is set
    downloaderLock, \* who holds it
    threadAborting, \* of the URLLoaderThread
    downloaders,    \* the downloader is in DownloadManager::downloaders
    fenceState,     \* of ThreadedDownloader
    deleted,        \* the downloader has been deleted
    stopFlag,       \* of the pool of the downloads
    buffer,         \* how much was allocated, read, and given to the script
    posted          \* the outcome the script is told

loadVars == <<length, downloader, downloaderLock, threadAborting, downloaders,
              fenceState, deleted, stopFlag, buffer, posted>>
vars     == <<streamVars, pc, loadVars>>

Free == "free"

Init ==
    /\ StreamInit
    /\ pc = [load |-> "event", download |-> "none", close |-> "idle", destroy |-> "idle"]
    /\ length = 0 /\ downloader = FALSE /\ downloaderLock = Free
    /\ threadAborting = FALSE /\ downloaders = FALSE
    /\ fenceState = FALSE /\ deleted = FALSE /\ stopFlag = FALSE
    /\ buffer = [allocated |-> 0, read |-> 0, given |-> 0]
    /\ posted = "none"

At(t, l)   == pc[t] = l
Go(t, l)   == pc' = [pc EXCEPT ![t] = l]
Closing    == ~At("destroy", "idle")

\* A step of a thread that touches no variable of the load but these.
Still == UNCHANGED <<threadAborting, stopFlag, buffer, posted>>
Stays == UNCHANGED streamVars

(***************************************************************************)
(* The downloader's own job.                                               *)
(***************************************************************************)
TakeDownload ==
    /\ At("download", "queued") /\ ~stopFlag
    /\ Go("download", "taken") /\ Stays /\ UNCHANGED loadVars

\* The thread tests stopFlag again and may drop the job without its fence.
TestStopFlag ==
    /\ At("download", "taken")
    /\ Go("download", IF stopFlag THEN "dropped" ELSE "headers")
    /\ Stays /\ UNCHANGED loadVars

\* parseHeader: setLength with the announced length.
ReadHeaders(a) ==
    /\ At("download", "headers")
    /\ IF a = 0 THEN Stays /\ UNCHANGED length
                ELSE length' = a /\ Reserve(a) /\ UNCHANGED writing
    /\ Go("download", "data")
    /\ Still /\ UNCHANGED <<downloader, downloaderLock, downloaders, fenceState, deleted>>

\* Data is appended unless the download has failed or was stopped.
AppendData(n) ==
    /\ At("download", "data") /\ ~failed
    /\ Stored + n <= MaxLength
    /\ BeginAppend(n)
    /\ Go("download", "append") /\ UNCHANGED loadVars

AppendMore == At("download", "append") /\ AppendGoesOn /\ UNCHANGED <<pc, loadVars>>

\* append() goes on with the length when more arrived than was announced.
Grown == IF receivedLength > length THEN receivedLength ELSE length
Grow ==
    /\ At("download", "append") /\ writing.pc = "idle"
    /\ length' = Grown
    /\ Go("download", "data")
    /\ Stays /\ Still /\ UNCHANGED <<downloader, downloaderLock, downloaders, fenceState, deleted>>

\* setFinished and setFailed: the stream terminates first, and the length it
\* returns is assigned after that.
EndDownload(f) ==
    /\ pc["download"] \in {"headers", "data"}
    /\ failed \/ At("download", "headers") => f
    /\ MarkFinished(f) /\ UNCHANGED writing
    /\ Go("download", "length") /\ UNCHANGED loadVars

SetLength(t, next) ==
    /\ length' = receivedLength
    /\ Go(t, next)
    /\ Stays /\ Still /\ UNCHANGED <<downloader, downloaderLock, downloaders, fenceState, deleted>>

SettleLength == At("download", "length") /\ SetLength("download", "fence")

FenceForgotten ==
    At("download", "fence") /\ Go("download", "fenced") /\ Stays /\ UNCHANGED loadVars

\* The thread gives up the job under the mutex of the pool, which a sweep
\* holds while it aborts, and fences it.
jobFence ==
    /\ At("download", "fence") /\ pc["destroy"] \notin {"mark3", "length3"}
    /\ fenceState' = FALSE
    /\ Go("download", "fenced")
    /\ Stays /\ Still /\ UNCHANGED <<length, downloader, downloaderLock, downloaders, deleted>>

DownloadStep ==
    \/ TakeDownload \/ TestStopFlag \/ AppendMore \/ Grow \/ SettleLength \/ jobFence
    \/ \E a \in Announced : ReadHeaders(a)
    \/ \E n \in Blocks : AppendData(n)
    \/ \E f \in BOOLEAN : EndDownload(f)

(***************************************************************************)
(* The job of the load.                                                    *)
(***************************************************************************)
\* The VM handles the StartJobEvent of load(), and a thread takes the job.
StartJob ==
    /\ At("load", "event") /\ ~Closing /\ pc["close"] \in {"idle", "done"}
    /\ Go("load", "pooled") /\ Stays /\ UNCHANGED loadVars

\* The sweep of the pool of the load has its mutex.
Sweeping == pc["destroy"] \in {"lock", "mark2", "length2", "flag2"}

Run ==
    /\ At("load", "pooled")
    /\ ~At("destroy", "abort") /\ ~Sweeping /\ ~At("destroy", "join")
    /\ Go("load", "check") /\ Stays /\ UNCHANGED loadVars

\* createDownloader: the last test of threadAborting.
CheckAborting ==
    /\ At("load", "check")
    /\ Go("load", IF threadAborting THEN "take" ELSE "list")
    /\ Stays /\ UNCHANGED loadVars

\* stopAll() holds the mutex of the list while it stops the downloaders.
ListFree == pc["destroy"] \notin {"mark1", "length1"}

AddDownloader ==
    /\ At("load", "list") /\ ListFree
    /\ fenceState' = TRUE /\ downloaders' = TRUE
    /\ Go("load", "submit")
    /\ Stays /\ Still /\ UNCHANGED <<length, downloader, downloaderLock, deleted>>

AddDownloadJob ==
    /\ At("load", "submit")
    /\ IF stopFlag
         THEN fenceState' = FALSE /\ pc' = [pc EXCEPT !["load"] = "assign", !["download"] = "fenced"]
         ELSE UNCHANGED fenceState /\ pc' = [pc EXCEPT !["load"] = "assign", !["download"] = "queued"]
    /\ Stays /\ Still /\ UNCHANGED <<length, downloader, downloaderLock, downloaders, deleted>>

\* The assignment is made without downloaderLock.
Assign ==
    /\ At("load", "assign")
    /\ downloader' = TRUE
    /\ Go("load", "open")
    /\ Stays /\ Still /\ UNCHANGED <<length, downloaderLock, downloaders, fenceState, deleted>>

WaitForTermination ==
    /\ At("load", "open")
    /\ IF failed
         THEN Go("load", "send") /\ Stays
         ELSE /\ Go("load", "wait") /\ op' = [op EXCEPT ![Loader] = "end"]
              /\ UNCHANGED <<cacheVars, writing, goal, get, cursor, eof, at, frameVars>>
    /\ UNCHANGED loadVars

Wait == At("load", "wait") /\ (TestArrived(Loader) \/ FallAsleep(Loader)) /\ UNCHANGED <<pc, loadVars>>

FailureIgnored ==
    /\ At("load", "wait") /\ op[Loader] = "seek"
    /\ op' = [op EXCEPT ![Loader] = "idle"]
    /\ Go("load", "allocate")
    /\ UNCHANGED <<cacheVars, writing, goal, get, cursor, eof, at, frameVars, loadVars>>

Terminated ==
    /\ At("load", "wait") /\ op[Loader] = "seek"
    /\ op' = [op EXCEPT ![Loader] = "idle"]
    /\ Go("load", IF failed \/ threadAborting THEN "send" ELSE "allocate")
    /\ UNCHANGED <<cacheVars, writing, goal, get, cursor, eof, at, frameVars, loadVars>>

\* Each use of the length reads it again.  The allocation may fail.
Fill(from, to, field, value) ==
    /\ At("load", from)
    /\ buffer' = [buffer EXCEPT ![field] = value]
    /\ Go("load", to)
    /\ Stays
    /\ UNCHANGED <<length, downloader, downloaderLock, threadAborting, downloaders,
                   fenceState, deleted, stopFlag, posted>>

Allocate == Fill("allocate", "read", "allocated", length)
Read     == Fill("read", "convert", "read", IF length < Stored THEN length ELSE Stored)
Convert  == Fill("convert", "success", "given", length)

AllocateFails ==
    /\ At("load", "allocate")
    /\ Go("load", "take") /\ Stays /\ UNCHANGED loadVars

\* Nothing is sent by a job that is aborting.
SendOutcome ==
    /\ pc["load"] \in {"success", "send"}
    /\ posted' = IF threadAborting THEN posted
                 ELSE IF At("load", "success") THEN "complete" ELSE "ioError"
    /\ Go("load", "destroy")
    /\ Stays
    /\ UNCHANGED <<length, downloader, downloaderLock, threadAborting, downloaders,
                   fenceState, deleted, stopFlag, buffer>>

\* destroy(), which execute() calls with downloaderLock held until the end.
LockDownloader ==
    /\ At("load", "destroy") /\ downloaderLock = Free
    /\ downloaderLock' = "load"
    /\ Go("load", "remove")
    /\ Stays /\ Still /\ UNCHANGED <<length, downloader, downloaders, fenceState, deleted>>

RemoveDownloader ==
    /\ At("load", "remove") /\ ListFree
    /\ downloaders' = FALSE
    /\ Go("load", "fencing")
    /\ Stays /\ Still /\ UNCHANGED <<length, downloader, downloaderLock, fenceState, deleted>>

\* waitForTermination, waitFencing and the deletion.
FenceNotAwaited == terminated
Fenced == terminated /\ ~fenceState
DeleteDownloader ==
    /\ At("load", "fencing") /\ Fenced
    /\ deleted' = TRUE
    /\ IF downloaderLock = "load"
         THEN downloader' = FALSE /\ downloaderLock' = Free /\ Go("load", "take")
         ELSE Go("load", "finish") /\ UNCHANGED <<downloader, downloaderLock>>
    /\ Stays /\ Still /\ UNCHANGED <<length, downloaders, fenceState>>

\* The thread gives up the job, and fences it: a downloader that is still
\* there is taken under the lock, and destroyed without it.
TakeDownloader ==
    /\ At("load", "take") /\ downloaderLock = Free /\ ~Sweeping
    /\ downloader' = FALSE
    /\ Go("load", IF downloader THEN "remove" ELSE "finish")
    /\ Stays /\ Still /\ UNCHANGED <<length, downloaderLock, downloaders, fenceState, deleted>>

\* threadFinished() needs the URLLoader's spinlock, which close() holds.
ThreadFinished ==
    /\ At("load", "finish")
    /\ pc["close"] \in {"idle", "done"}
    /\ Go("load", "done") /\ Stays /\ UNCHANGED loadVars

LoadStep ==
    \/ Run \/ CheckAborting \/ AddDownloader \/ AddDownloadJob \/ Assign
    \/ WaitForTermination \/ Wait \/ Terminated \/ Allocate \/ Read \/ Convert
    \/ AllocateFails \/ SendOutcome \/ LockDownloader \/ RemoveDownloader
    \/ DeleteDownloader \/ TakeDownloader \/ ThreadFinished

(***************************************************************************)
(* threadAbort(), by thread t; what follows it is "next".                  *)
(***************************************************************************)
LockToAbort(t, mark, flag) ==
    /\ At(t, "lock") /\ downloaderLock = Free
    /\ downloaderLock' = t
    /\ Go(t, IF downloader THEN mark ELSE flag)
    /\ Stays /\ Still /\ UNCHANGED <<length, downloader, downloaders, fenceState, deleted>>

\* Downloader::stop(): markFinished(true), and then the length.
StopMark(t, mark, next) ==
    /\ At(t, mark)
    /\ MarkFinished(TRUE) /\ UNCHANGED writing
    /\ Go(t, next) /\ UNCHANGED loadVars

SetAborting(t, flag, next) ==
    /\ At(t, flag)
    /\ threadAborting' = TRUE
    /\ downloaderLock' = Free
    /\ Go(t, next)
    /\ Stays
    /\ UNCHANGED <<length, downloader, downloaders, fenceState, deleted, stopFlag, buffer, posted>>

\* close() and load() of the script, once, under the URLLoader's spinlock.
Close ==
    /\ At("close", "idle") /\ ~Closing
    /\ Go("close", IF At("load", "done") THEN "done" ELSE "lock")
    /\ Stays /\ UNCHANGED loadVars

CloseGoesOn ==
    \/ LockToAbort("close", "mark", "flag")
    \/ StopMark("close", "mark", "length")
    \/ At("close", "length") /\ SetLength("close", "flag")
    \/ SetAborting("close", "flag", "done")

(***************************************************************************)
(* destroy() of the player, after the VM has handled its last event.       *)
(***************************************************************************)
StopAll ==
    /\ At("destroy", "idle") /\ pc["close"] \in {"idle", "done"}
    /\ Go("destroy", IF downloaders THEN "mark1" ELSE "stop") /\ Stays /\ UNCHANGED loadVars

\* forceStop() of the pool of the downloads: the flag, the sweep and the join.
StopDownloads ==
    /\ At("destroy", "stop")
    /\ stopFlag' = TRUE
    /\ Go("destroy", "sweep")
    /\ Stays
    /\ UNCHANGED <<length, downloader, downloaderLock, threadAborting, downloaders,
                   fenceState, deleted, buffer, posted>>

Executing == pc["download"] \in {"taken", "headers", "data", "append", "length", "fence", "dropped"}

SweepDownloads ==
    /\ At("destroy", "sweep")
    /\ IF At("download", "queued")
         THEN fenceState' = FALSE /\ pc' = [pc EXCEPT !["destroy"] = "wait", !["download"] = "fenced"]
         ELSE UNCHANGED fenceState /\ Go("destroy", IF Executing THEN "mark3" ELSE "wait")
    /\ Stays /\ Still /\ UNCHANGED <<length, downloader, downloaderLock, downloaders, deleted>>

\* The threads of the downloads have ended; the other pool is stopped.
JoinDownloads ==
    /\ At("destroy", "wait")
    /\ pc["download"] \in {"none", "fenced", "dropped"}
    /\ Go("destroy", "abort") /\ Stays /\ UNCHANGED loadVars

InExecute == \/ pc["load"] \in {"check", "list", "submit", "assign", "open", "wait", "allocate",
                                "read", "convert", "success", "send", "destroy", "take"}
             \/ pc["load"] \in {"remove", "fencing"} /\ downloaderLock = "load"
AbortLoad ==
    /\ At("destroy", "abort")
    /\ IF At("load", "pooled")
         THEN pc' = [pc EXCEPT !["destroy"] = "join", !["load"] = "take"] /\ UNCHANGED threadAborting
         ELSE IF InExecute THEN Go("destroy", "lock") /\ threadAborting' = TRUE
                           ELSE Go("destroy", "join") /\ UNCHANGED threadAborting
    /\ Stays
    /\ UNCHANGED <<length, downloader, downloaderLock, downloaders, fenceState, deleted,
                   stopFlag, buffer, posted>>

JoinLoad ==
    /\ At("destroy", "join")
    /\ pc["load"] \in {"event", "done"}
    /\ Go("destroy", "done") /\ Stays /\ UNCHANGED loadVars

DestroyGoesOn ==
    \/ StopMark("destroy", "mark1", "length1")
    \/ At("destroy", "length1") /\ SetLength("destroy", "stop")
    \/ StopDownloads \/ SweepDownloads
    \/ StopMark("destroy", "mark3", "length3")
    \/ At("destroy", "length3") /\ SetLength("destroy", "wait")
    \/ JoinDownloads \/ AbortLoad
    \/ LockToAbort("destroy", "mark2", "flag2")
    \/ StopMark("destroy", "mark2", "length2")
    \/ At("destroy", "length2") /\ SetLength("destroy", "flag2")
    \/ SetAborting("destroy", "flag2", "join")
    \/ JoinLoad

\* The frames go on until the VM has taken its last event.
FrameGoesOn ==
    /\ \/ ~Closing /\ FramePosts
       \/ FrameSignals \/ FrameTests \/ FallAsleep(Frame)
    /\ UNCHANGED <<pc, loadVars>>

\* The VM thread may be in close().
Idles == pc["close"] \in {"idle", "done"} /\ VmIdles /\ UNCHANGED <<pc, loadVars>>

Next ==
    \/ StartJob \/ LoadStep \/ DownloadStep \/ Close \/ CloseGoesOn
    \/ StopAll \/ DestroyGoesOn \/ FrameGoesOn \/ Idles

Spec == Init /\ [][Next]_vars

\* Threads run, a transfer comes to its end, and mutexes are given in turn.
FairSpec ==
    /\ Spec
    /\ WF_vars(StartJob) /\ WF_vars(LoadStep) /\ WF_vars(DownloadStep)
    /\ WF_vars(CloseGoesOn) /\ WF_vars(DestroyGoesOn)
    /\ WF_vars(FrameGoesOn) /\ WF_vars(Idles)

(***************************************************************************)
(* Properties.                                                             *)
(***************************************************************************)
TypeOK ==
    /\ StreamTypeOK
    /\ length \in Nat /\ buffer \in [allocated : Nat, read : Nat, given : Nat]
    /\ downloaderLock \in {Free, "load", "close", "destroy"}
    /\ {downloader, threadAborting, downloaders, fenceState, deleted, stopFlag} \subseteq BOOLEAN
    /\ posted \in {"none", "complete", "ioError"}

\* No thread uses the downloader after it was deleted: not its own job, not
\* the load, close() or destroy() in stop(), and not the list of stopAll().
DownloaderSafe ==
    deleted => /\ ~downloaders /\ ~downloader
               /\ pc["download"] \in {"fenced"}
               /\ pc["close"] \notin {"mark", "length"}
               /\ pc["destroy"] \notin {"mark1", "length1", "mark2", "length2", "mark3", "length3"}

\* A script that is told of a complete load has been given every byte the
\* download received, although the length is settled only after the stream
\* has terminated.
CompleteIsWhole ==
    posted = "complete" => ~failed /\ buffer.read = Stored /\ receivedLength = Stored
                           /\ buffer.given >= Stored

\* What is read and given to the script fits in what was allocated, whatever
\* becomes of the length between.
BufferHolds == /\ buffer.read <= buffer.allocated \/ At("load", "allocate")
               /\ buffer.given <= buffer.allocated

\* The three ways in which a load can stay for ever.
\*  - it missed its abort, and waits for a download that was refused;
\*  - the signal came between its test and its wait, and no frame repeats it;
\*  - the pool dropped the download's job without its fence.
AbortMissed == op[Loader] = "end" /\ At("download", "fenced") /\ ~terminated
SignalLost  == at[Loader] = "asleep" /\ terminated /\ (Closing \/ (at[Frame] = "asleep" /\ handled))
JobDropped  == At("download", "dropped")

\* A load that has begun ends, also when close() or destroy() run against
\* it: apart from those three there is no way for it to wait for ever.
LoadEnds == pc["load"] \notin {"event", "done"} ~>
                At("load", "done") \/ AbortMissed \/ SignalLost \/ JobDropped

\* destroy() returns unless the load it joins is one of those.
DestroyReturns == Closing ~>
                At("destroy", "done") \/ AbortMissed \/ SignalLost \/ JobDropped

\* The data that is given with complete is data that was received.
GivenIsReceived == posted = "complete" => buffer.given = Stored

\* destroy() stops the downloads "so that the thread pool does not keep
\* waiting for data" (swf.cpp).
NoWaitForData == Closing ~> At("destroy", "done") \/ SignalLost \/ JobDropped
=============================================================================
