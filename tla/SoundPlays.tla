------------------------------ MODULE SoundPlays ------------------------------
(***************************************************************************)
(* A SoundChannel (flashmedia.cpp) that plays a stream: its job decodes    *)
(* frames into a SampleQueue, the callback of the audio device takes them  *)
(* under the mutex of the AudioManager's streams (audio.cpp), and the      *)
(* script stops the channel and plays it again.  play() on a channel that  *)
(* is playing leaves the restart to the fence of the job.  The data may be *)
(* bad, and the player may end: then the pool aborts the job.              *)
(***************************************************************************)
EXTENDS SampleQueue

CONSTANTS
    MaxFrames,   \* bound: the frames of the sound
    MaxCalls,    \* bound: calls of play() and stop(), with the end of the player
    Loops        \* how often the sound is to be played

ASSUME SoundAssumption ==
    /\ Consumers = {"device", "script", "job"}
    /\ MaxFrames \in Nat /\ MaxCalls \in Nat /\ Loops \in Nat

VARIABLES
    stopped, terminated, stopping, finished, restartafterabort,
    mutex,          \* the SoundChannel's, held by those who skip frames in it
    job,            \* where the job is
    jobs,           \* how often it is in the pool
    loopstogo,
    threadAborting, \* the pool has told the job to end
    shuttingdown,   \* SystemState::isShuttingDown()
    pool,           \* "running", or "stopped" by forceStop
    decoder,        \* the AudioDecoder exists
    audioDecoder,   \* the channel's pointer to it is set
    audioStream,    \* the stream is in AudioManager::streams
    script, calls,  \* where the script is, and how often it has called; after
                    \* the script has ended: where forceStop is
    posted          \* soundComplete was posted for this play

channelVars == <<stopped, terminated, stopping, finished, restartafterabort>>
jobVars     == <<job, jobs, decoder, loopstogo>>
ownVars     == <<audioDecoder, audioStream, mutex>>
scriptVars  == <<script, calls>>
endVars     == <<threadAborting, shuttingdown, pool>>
vars == <<queueVars, channelVars, jobVars, ownVars, scriptVars, endVars, posted>>

Init ==
    /\ QueueInit
    /\ stopped = TRUE /\ terminated = TRUE /\ stopping = FALSE
    /\ finished = FALSE /\ restartafterabort = FALSE
    /\ mutex = "free" /\ job = "none" /\ jobs = 0
    /\ decoder = FALSE /\ audioDecoder = FALSE /\ audioStream = FALSE
    /\ script = "idle" /\ calls = 0 /\ posted = FALSE
    /\ loopstogo = Loops
    /\ threadAborting = FALSE /\ shuttingdown = FALSE /\ pool = "running"

(***************************************************************************)
(* The audio device: its callback holds the mutex of the streams.          *)
(***************************************************************************)
DeviceIdle == consumer["device"].pc = "idle"

Callback ==
    /\ \/ audioStream /\ (CopyNothing("device") \/ CopyFrame("device"))
       \/ PopGoesOn("device")
    /\ UNCHANGED <<channelVars, jobVars, ownVars, scriptVars, endVars, posted>>

\* What play() and threadAbort() do to a channel that plays, called by who:
\* with a decoder the mutex is kept until all frames have been skipped.
StopPlaying(who) ==
    /\ stopped' = TRUE
    /\ IF audioDecoder THEN SetFlushing /\ mutex' = who
                       ELSE UNCHANGED <<flushVars, mutex>>

AbortChannel(who) ==
    IF stopped THEN UNCHANGED <<stopped, flushVars, mutex>> ELSE StopPlaying(who)

(***************************************************************************)
(* The job of the channel: execute(), playStream() and jobFence().         *)
(***************************************************************************)
JobAt(l) == job = l
JobGoes(l) == job' = l /\ UNCHANGED <<jobs, decoder, loopstogo>>

\* The head of the loop of execute(): what is left of the last round goes.
Begin ==
    /\ JobAt("pooled") \/ JobAt("next")
    /\ mutex = "free" /\ (audioStream => DeviceIdle)
    /\ loopstogo' = IF loopstogo < 1 THEN 1 ELSE loopstogo
    /\ audioStream' = FALSE
    /\ finished' = FALSE /\ posted' = FALSE
    /\ job' = "open" /\ UNCHANGED <<jobs, decoder>>
    /\ UNCHANGED <<queueVars, stopped, terminated, stopping, restartafterabort,
                   audioDecoder, mutex, scriptVars, endVars>>

\* JobTerminationException before there is a decoder.
OpenAborted ==
    /\ JobAt("open") /\ threadAborting
    /\ JobGoes("remove")
    /\ UNCHANGED <<queueVars, channelVars, ownVars, scriptVars, endVars, posted>>

Open ==
    /\ JobAt("open") /\ ~threadAborting
    /\ NewQueue /\ decoder' = TRUE
    /\ job' \in {"loop", "invalid"} /\ UNCHANGED <<jobs, loopstogo>>
    /\ UNCHANGED <<channelVars, ownVars, scriptVars, endVars, posted>>

\* The decoder finds no sound in the data: the job stops itself, and nobody
\* need restart it.
Invalid ==
    /\ JobAt("invalid") /\ mutex = "free"
    /\ AbortChannel("job")
    /\ restartafterabort' = FALSE
    /\ JobGoes("flush")
    /\ UNCHANGED <<ringVars, producer, consumer, decoded, played, terminated, stopping, finished,
                   audioDecoder, audioStream, scriptVars, endVars, posted>>

\* decodeNextFrame(), which waits for a free slot.
Decode ==
    /\ JobAt("loop") /\ ~stopped /\ decoded < MaxFrames
    /\ JobGoes("acquire")
    /\ UNCHANGED <<queueVars, channelVars, ownVars, scriptVars, endVars, posted>>

Acquire ==
    /\ JobAt("acquire") /\ acquireLast
    /\ JobGoes("decode")
    /\ UNCHANGED <<channelVars, ownVars, scriptVars, endVars, posted>>

DecodeMore ==
    /\ JobAt("decode") /\ Produce
    /\ JobGoes(IF producer'.pc = "idle" THEN "publish" ELSE "decode")
    /\ UNCHANGED <<channelVars, ownVars, scriptVars, endVars, posted>>

\* The channel was stopped, or the stream ends or breaks: what has been
\* decoded is played.
Leave ==
    /\ JobAt("loop")
    /\ JobGoes("flush")
    /\ UNCHANGED <<queueVars, channelVars, ownVars, scriptVars, endVars, posted>>

\* A LightsparkException: the job aborts itself.
Fail ==
    /\ JobAt("loop") /\ ~stopped
    /\ JobGoes("error")
    /\ UNCHANGED <<queueVars, channelVars, ownVars, scriptVars, endVars, posted>>

AbortItself ==
    /\ JobAt("error") /\ mutex = "free"
    /\ AbortChannel("job")
    /\ JobGoes(IF mutex' = "job" THEN "discard" ELSE "remove")
    /\ UNCHANGED <<ringVars, producer, consumer, decoded, played, terminated, stopping, finished,
                   restartafterabort, audioDecoder, audioStream, scriptVars, endVars, posted>>

DiscardAll ==
    /\ JobAt("discard") /\ SkipStep("job")
    /\ UNCHANGED <<channelVars, jobVars, ownVars, scriptVars, endVars, posted>>

DiscardedAll ==
    /\ JobAt("discard") /\ Skipped("job")
    /\ audioDecoder' = FALSE /\ mutex' = "free"
    /\ JobGoes("remove")
    /\ UNCHANGED <<queueVars, channelVars, audioStream, scriptVars, endVars, posted>>

\* The pointer to the decoder is set without the mutex.
Publish ==
    /\ JobAt("publish")
    /\ audioDecoder' = TRUE
    /\ JobGoes("attach")
    /\ UNCHANGED <<queueVars, channelVars, audioStream, mutex, scriptVars, endVars, posted>>

\* createStream() adds to the streams, whose mutex the callback may hold.
Attach ==
    /\ JobAt("attach") /\ mutex = "free" /\ ~threadAborting
    /\ audioStream \/ DeviceIdle
    /\ audioStream' = (audioStream \/ audioDecoder)
    /\ JobGoes("again")
    /\ UNCHANGED <<queueVars, channelVars, audioDecoder, mutex, scriptVars, endVars, posted>>

\* The two tests of threadAborting in the loop: the first under the mutex.
Again ==
    /\ \/ JobAt("attach") /\ mutex = "free" /\ threadAborting /\ JobGoes("remove")
       \/ JobAt("again") /\ JobGoes(IF threadAborting THEN "remove" ELSE "loop")
    /\ UNCHANGED <<queueVars, channelVars, ownVars, scriptVars, endVars, posted>>

Flush ==
    /\ JobAt("flush")
    /\ IF audioStream THEN SetFlushing /\ JobGoes("test")
                      ELSE UNCHANGED flushVars /\ JobGoes("finish")
    /\ UNCHANGED <<ringVars, producer, consumer, decoded, played,
                   channelVars, ownVars, scriptVars, endVars, posted>>

\* waitFlushed: the test and the wait.
TestFlushed ==
    /\ JobAt("test")
    /\ JobGoes(IF status = "VALID" THEN "wait" ELSE "finish")
    /\ UNCHANGED <<queueVars, channelVars, ownVars, scriptVars, endVars, posted>>

WaitFlushed ==
    /\ JobAt("wait") /\ flushed > 0
    /\ flushed' = flushed - 1
    /\ JobGoes("finish")
    /\ UNCHANGED <<ringVars, status, flushing, producer, consumer, decoded, played,
                   channelVars, ownVars, scriptVars, endVars, posted>>

Finish ==
    /\ JobAt("finish")
    /\ IF stopping THEN stopping' = FALSE /\ UNCHANGED finished
                   ELSE finished' = TRUE /\ UNCHANGED stopping
    /\ JobGoes("remove")
    /\ UNCHANGED <<queueVars, stopped, terminated, restartafterabort, ownVars, scriptVars, endVars, posted>>

AfterRemove == IF decoder THEN "skip" ELSE "ended"
\* Mutant: the stream is removed while the callback uses it.
RemoveAnyway ==
    /\ JobAt("remove") /\ mutex = "free"
    /\ audioDecoder' = FALSE /\ audioStream' = FALSE
    /\ JobGoes(AfterRemove)
    /\ UNCHANGED <<queueVars, channelVars, mutex, scriptVars, endVars, posted>>

\* removeStream() waits for the callback.
RemoveStream ==
    /\ JobAt("remove") /\ mutex = "free"
    /\ audioStream => DeviceIdle
    /\ audioDecoder' = FALSE /\ audioStream' = FALSE
    /\ JobGoes(AfterRemove)
    /\ UNCHANGED <<queueVars, channelVars, mutex, scriptVars, endVars, posted>>

SkipRest ==
    /\ JobAt("skip") /\ SkipStep("job")
    /\ UNCHANGED <<channelVars, jobVars, ownVars, scriptVars, endVars, posted>>

\* The decoder is deleted.
EndPlay ==
    /\ JobAt("skip") /\ Skipped("job")
    /\ decoder' = FALSE /\ job' = "ended" /\ UNCHANGED <<jobs, loopstogo>>
    /\ UNCHANGED <<queueVars, channelVars, ownVars, scriptVars, endVars, posted>>

\* The foot of the loop: after the last round the end is told to the script.
EndRound ==
    /\ JobAt("ended")
    /\ IF threadAborting \/ stopped
         THEN job' = "fence" /\ UNCHANGED <<loopstogo, posted>>
         ELSE /\ loopstogo' = loopstogo - 1
              /\ job' = IF loopstogo' = 0 THEN "fence" ELSE "next"
              /\ posted' = (loopstogo' = 0 /\ finished)
    /\ UNCHANGED <<queueVars, channelVars, jobs, decoder, ownVars, scriptVars, endVars>>

\* Mutant: the restart is forgotten.
RestartForgotten == FALSE

\* jobFence: a play that was asked for meanwhile starts, unless the player
\* ends.  The pool keeps its mutex while it aborts the job.
Restarts == restartafterabort /\ ~shuttingdown
PoolMutexFree == ~(pool = "stopped" /\ script \in {"abort", "skip"})

\* Mutant: the fence does not say that the job has terminated.
FenceUntold ==
    /\ JobAt("fence") /\ mutex = "free" /\ PoolMutexFree
    /\ IF Restarts
         THEN /\ restartafterabort' = FALSE /\ stopped' = FALSE /\ terminated' = FALSE
              /\ job' = "pooled" /\ UNCHANGED jobs
         ELSE /\ stopped' = TRUE /\ UNCHANGED <<restartafterabort, terminated>>
              /\ job' = "none" /\ jobs' = jobs - 1
    /\ UNCHANGED <<queueVars, stopping, finished, decoder, loopstogo, ownVars, scriptVars, endVars, posted>>

jobFence ==
    /\ JobAt("fence") /\ mutex = "free" /\ PoolMutexFree
    /\ IF Restarts
         THEN /\ restartafterabort' = FALSE /\ stopped' = FALSE /\ terminated' = FALSE
              /\ job' = "pooled" /\ UNCHANGED jobs
         ELSE /\ stopped' = TRUE /\ terminated' = TRUE /\ UNCHANGED restartafterabort
              /\ job' = "none" /\ jobs' = jobs - 1
    /\ UNCHANGED <<queueVars, stopping, finished, decoder, loopstogo, ownVars, scriptVars, endVars, posted>>

JobStep == \/ Begin \/ OpenAborted \/ Open \/ Invalid
           \/ Decode \/ Acquire \/ DecodeMore \/ Publish \/ Attach \/ Again
           \/ Leave \/ Fail \/ AbortItself \/ DiscardAll \/ DiscardedAll
           \/ Flush \/ TestFlushed \/ WaitFlushed \/ Finish
           \/ RemoveStream \/ SkipRest \/ EndPlay \/ EndRound \/ jobFence

(***************************************************************************)
(* The script, and the end of the player.                                  *)
(***************************************************************************)
ScriptGoes(l) == script' = l /\ UNCHANGED calls
MayCall == script = "idle" /\ pool = "running" /\ calls < MaxCalls

play ==
    /\ MayCall /\ mutex = "free"
    /\ calls' = calls + 1
    /\ \/ /\ ~stopped /\ StopPlaying("script") /\ restartafterabort' = TRUE
          /\ script' = IF audioDecoder THEN "replay" ELSE "idle"
       \/ /\ stopped /\ script' = (IF restartafterabort THEN "idle" ELSE "await")
          /\ UNCHANGED <<stopped, mutex, flushVars, restartafterabort>>
    /\ UNCHANGED <<ringVars, producer, consumer, decoded, played, terminated, stopping,
                   finished, jobVars, audioDecoder, audioStream, endVars, posted>>

\* play() on a channel that has been stopped waits until its job has ended.
AwaitTerminated == terminated
StartAgain ==
    /\ script = "await" /\ AwaitTerminated /\ mutex = "free"
    /\ restartafterabort' = FALSE
    /\ IF stopped THEN stopped' = FALSE /\ terminated' = FALSE /\ job' = "pooled" /\ jobs' = jobs + 1
                  ELSE UNCHANGED <<stopped, terminated, job, jobs>>
    /\ ScriptGoes("idle")
    /\ UNCHANGED <<queueVars, stopping, finished, decoder, loopstogo, ownVars, endVars, posted>>

stop ==
    /\ MayCall
    /\ calls' = calls + 1 /\ script' = "abort"
    /\ stopping' = TRUE
    /\ UNCHANGED <<queueVars, stopped, terminated, finished, restartafterabort, jobVars, ownVars,
                   endVars, posted>>

\* stop() waits for the end of what was playing, forceStop for the job.
AfterAbort == IF pool = "stopped" THEN "join" ELSE "ends"
threadAbort ==
    /\ script = "abort" /\ mutex = "free"
    /\ AbortChannel("script")
    /\ script' = IF mutex' = "script" THEN "skip" ELSE AfterAbort
    /\ UNCHANGED <<ringVars, producer, consumer, decoded, played, terminated, stopping,
                   finished, restartafterabort, jobVars, audioDecoder, audioStream, calls, endVars, posted>>

Skipping == script \in {"replay", "skip"}
SkipAll ==
    /\ Skipping /\ SkipStep("script")
    /\ UNCHANGED <<channelVars, jobVars, ownVars, scriptVars, endVars, posted>>

SkippedAll ==
    /\ Skipping /\ Skipped("script")
    /\ audioDecoder' = FALSE /\ mutex' = "free"
    /\ ScriptGoes(IF script = "replay" THEN "idle" ELSE AfterAbort)
    /\ UNCHANGED <<queueVars, channelVars, jobVars, audioStream, endVars, posted>>

\* The loop of stop().
StopReturns ==
    /\ script = "ends" /\ (stopped \/ terminated)
    /\ ScriptGoes("idle")
    /\ UNCHANGED <<queueVars, channelVars, jobVars, ownVars, endVars, posted>>

\* The player is told to end; the VM thread may still run a script.
ShutDown ==
    /\ ~shuttingdown /\ calls < MaxCalls
    /\ shuttingdown' = TRUE /\ calls' = calls + 1
    /\ UNCHANGED <<queueVars, channelVars, jobVars, ownVars, script, threadAborting, pool, posted>>

\* SystemState::destroy() stops the pool when the VM thread has ended: the
\* job is aborted if it runs, and fenced if it has not yet.
forceStop ==
    /\ shuttingdown /\ script = "idle" /\ pool = "running"
    /\ pool' = "stopped"
    /\ IF JobAt("none") \/ JobAt("pooled") \/ JobAt("fence")
         THEN /\ job' = IF JobAt("pooled") THEN "fence" ELSE job
              /\ script' = "join" /\ UNCHANGED threadAborting
         ELSE threadAborting' = TRUE /\ script' = "abort" /\ UNCHANGED job
    /\ UNCHANGED <<queueVars, channelVars, jobs, decoder, loopstogo, ownVars, calls, shuttingdown, posted>>

Join ==
    /\ script = "join" /\ JobAt("none")
    /\ ScriptGoes("idle")
    /\ UNCHANGED <<queueVars, channelVars, jobVars, ownVars, endVars, posted>>

ScriptGoesOn == StartAgain \/ threadAbort \/ SkipAll \/ SkippedAll \/ StopReturns \/ Join

Next == Callback \/ JobStep \/ play \/ stop \/ ScriptGoesOn \/ ShutDown \/ forceStop

Spec == Init /\ [][Next]_vars

\* The device calls back, the job runs, the script goes on with its call.
FairSpec == Spec /\ WF_vars(Callback) /\ WF_vars(JobStep) /\ WF_vars(ScriptGoesOn)

(***************************************************************************)
(* Properties.                                                             *)
(***************************************************************************)
TypeOK ==
    /\ QueueTypeOK
    /\ {stopped, terminated, stopping, finished, restartafterabort,
        decoder, audioDecoder, audioStream, posted, threadAborting, shuttingdown} \subseteq BOOLEAN
    /\ jobs \in Nat /\ calls \in 0..MaxCalls /\ loopstogo \in Nat
    /\ job \in {"none", "pooled", "open", "invalid", "loop", "acquire", "decode", "publish",
                "attach", "again", "error", "discard", "flush", "test", "wait", "finish",
                "remove", "skip", "ended", "next", "fence"}
    /\ mutex \in {"free", "script", "job"} /\ pool \in {"running", "stopped"}
    /\ script \in {"idle", "await", "replay", "abort", "skip", "ends", "join"}

\* The decoder is deleted only when nobody can reach it and nobody is in it:
\* not the callback through the stream, nor the script through the channel.
DecoderAlive ==
    ~decoder => /\ ~audioDecoder /\ ~audioStream
                /\ \A c \in Consumers : ConsumerAt(c, "idle")
                /\ ~Skipping

\* However play(), stop() and the end of the sound meet, the channel is in
\* the pool once, and a channel that says it has terminated is not.
OneJob == jobs = (IF job = "none" THEN 0 ELSE 1) /\ (terminated => job = "none")

\* The frame at the head is not there yet: the decoding thread has taken its
\* slot, and "empty", which is tested against the tail, does not show it.
FrontUnfilled == producer.pc = "fill" /\ producer.slot = bufferHead

\* As long as nobody stops the channel its frames are played in the order in
\* which they were decoded, none twice, unless the device reads the slot that
\* is being filled.
PlayedInOrder ==
    [][~stopped /\ played' # played => played' > played \/ played' = 0 \/ FrontUnfilled]_vars

\* "A frame is available" (threading.h), and it is the next one.
FramesInOrder == [][~stopped /\ played' # played => played' > played \/ played' = 0]_vars

\* A restart that was asked for happens: while it is asked for the channel is
\* stopped, and it plays again unless the data turns out to be bad or the
\* player ends (or the head of the queue is lost).
RestartHappens == restartafterabort ~> ~stopped \/ JobAt("invalid") \/ shuttingdown \/ HeadLost

\* play(), stop() with its wait, and the end of the pool return, unless two
\* consumers have moved the head of the queue only once: then skipAll() spins.
CallsReturn == script # "idle" ~> script = "idle" \/ HeadLost

\* "We don't want to block if no frame is available" (decoder.cpp).
SkipAllReturns == Skipping ~> ~Skipping

\* "only add soundcomplete event if sound was played until the end"
\* (flashmedia.cpp).
PlayedToTheEnd == posted => played = decoded
=============================================================================
