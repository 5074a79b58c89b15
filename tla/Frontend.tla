------------------------------ MODULE Frontend ------------------------------
(***************************************************************************)
(* The two threads of the emulator with everything they share but the      *)
(* storage: the emulator thread produces the sound chunks of a frame and   *)
(* hands the frame over (compy_run); the main thread queues the sound when *)
(* a frame is posted, and then draws it (main of frontend.c).              *)
(***************************************************************************)
EXTENDS ScreenBuffers, Sequences

CONSTANTS
  BufferChunks, MaxChunk, (* as in SoundBuffers                              *)
  ChunksPerFrame          (* 735 samples a frame, in chunks of 147: five     *)

\* SOUND_BUFFER_SIZE is 20 chunks; two frames of sound is all it needs.
ASSUME FrontendAssumption ==
  /\ ChunksPerFrame \in Nat
  /\ BufferChunks \in Nat \ {0} /\ BufferChunks >= 2 * ChunksPerFrame
  /\ MaxChunk = ChunksPerFrame * MaxFrame

VARIABLES
  active_sound_buffer, buffer_write_index, sound_buffers, produced, spc, mixing, at,
  fpc, current, size, heard, raced, undone, spoilt,
  filled   (* the main thread has queued the sound of the posted frame *)

Sound  == INSTANCE SoundBuffers

soundVars ==
  <<active_sound_buffer, buffer_write_index, sound_buffers, produced, spc, mixing, at,
    fpc, current, size, heard, raced, undone, spoilt>>
frontendVars == <<vars, soundVars, filled>>

FrontendInit == Init /\ Sound!Init /\ filled = FALSE

\* compy_run_frame calls sound_process on each scanline; the calls that have
\* the samples of a chunk are the steps of sound_process.
RunsFrame ==
  /\ epc = "run" /\ ~closed /\ frame < MaxFrame
  /\ Sound!sound_process
  /\ produced' <= ChunksPerFrame * (frame + 1)
  /\ UNCHANGED <<vars, filled>>

EndsFrame ==
  /\ produced = ChunksPerFrame * (frame + 1) /\ spc = "idle"
  /\ compy_run_frame
  /\ UNCHANGED <<soundVars, filled>>

\* The thread looks at `closed` between two frames only.
ThreadEnds ==
  /\ produced = ChunksPerFrame * frame /\ spc = "idle"
  /\ thread_ends
  /\ UNCHANGED <<soundVars, filled>>

HandsOver ==
  /\ memcpy_begins \/ memcpy_ends \/ post \/ advance
  /\ UNCHANGED <<soundVars, filled>>

EmulatorThread == RunsFrame \/ EndsFrame \/ ThreadEnds \/ HandsOver

\* frontend_update_audio_stream comes before update_screen.
QueuesSound ==
  /\ mpc = "loop" /\ ~closed /\ buffer_post >= 0 /\ ~filled
  /\ Sound!sound_fill_buffer
  /\ filled' = (fpc = "queue")
  /\ UNCHANGED vars

TakesFrame ==
  /\ filled
  /\ take
  /\ filled' = FALSE
  /\ UNCHANGED soundVars

Draws ==
  /\ \/ nothing_posted \/ release \/ draw
     \/ drawing_fails \/ frontend_process_events
  /\ UNCHANGED <<soundVars, filled>>

MainThread == QueuesSound \/ TakesFrame \/ Draws

FrontendNext == mpc # "done" /\ (EmulatorThread \/ MainThread)

\* Both threads are scheduled.
FrontendSpec ==
  /\ FrontendInit /\ [][FrontendNext]_frontendVars
  /\ WF_frontendVars(mpc # "done" /\ EmulatorThread)
  /\ WF_frontendVars(MainThread)
-----------------------------------------------------------------------------
(* Properties: those of ScreenBuffers, although the main thread now queues   *)
(* the sound before it takes a frame, and those of the sound.                *)

\* The chunks reach SDL whole, once and in order, unless the main thread has
\* read the size of a buffer while the emulator was mixing into it: nothing
\* else the two threads do repeats, drops or tears samples.
SoundIsWhole == ~raced => \A i \in 1 .. Len(heard) : heard[i] = i

\* The emulator runs at most two frames ahead of the screen, so a sound buffer
\* is never full, however long the main thread is held up and however often it
\* has raced before: only a buffer that was itself last handed over in the
\* middle of a mix, and so may have kept the samples it had, can fill up.
NeverFull == spc = "full" => mixing \in undone

\* Each chunk the emulator produces is queued in the end, unless the window is
\* closed first: a race costs at most the chunk in the making and the first of
\* the buffer, and what then finds the buffer full.
SoundIsHeard ==
  <>(closed \/ \A c \in 1 .. MaxChunk :
                c \in spoilt \/ \E i \in 1 .. Len(heard) : heard[i] = c)
=============================================================================
