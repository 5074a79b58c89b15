--------------------------- MODULE Frontend_proofs --------------------------
(***************************************************************************)
(* The frame buffers, for every number of buffers from three on: what is   *)
(* drawn is never written meanwhile, and each frame is drawn once and in   *)
(* order.                                                                  *)
(*                                                                         *)
(* The two threads with both kinds of buffers, for every number of frames, *)
(* of chunks in a frame and of chunks in a sound buffer that holds two     *)
(* frames: the sound is whole and in order unless the main thread has read *)
(* a size in the middle of a mix, and no buffer is full but one that was   *)
(* last handed over like that.                                             *)
(***************************************************************************)
EXTENDS Frontend, SequenceTheorems, TLAPS
-----------------------------------------------------------------------------
(* The frame buffers *)

\* The buffer that was posted last, and the one after buffer b.
LastPosted ==
  IF epc = "advance" THEN buffer_next
  ELSE IF buffer_next = 0 THEN MaxBuffers - 1 ELSE buffer_next - 1
After(b) == IF b + 1 = MaxBuffers THEN 0 ELSE b + 1

\* A surface points into the buffer posted last, or into the one before it
\* when another frame was posted since.
Positions ==
  /\ buffer_post \in {None, LastPosted}
  /\ mpc = "surface" => buffer_post = surface
  /\ mpc = "texture" => IF buffer_post = None THEN surface = LastPosted
                        ELSE After(surface) = LastPosted

\* The posted buffer holds the frame posted last, and the surface the one that
\* is drawn next.
Frames ==
  /\ epc \in Waiting => frame >= 1
  /\ epc = "wait_post" => screen_buffers[buffer_next] = frame
  /\ buffer_post # None => handed >= 1 /\ screen_buffers[buffer_post] = handed
  /\ mpc = "texture" => taken >= 0 /\ screen_buffers[surface] = taken + 1

IInv == TypeOK /\ Positions /\ Frames

\* The globals the program starts with satisfy the invariant.
LEMMA InitIInv == Init => IInv
<1> SUFFICES ASSUME Init PROVE IInv
  OBVIOUS
<1> USE BuffersAssumption, FrameAssumption DEF Init, Buffers, None
<1>1. TypeOK
  <2>1. screen_buffers \in [Buffers -> 0 .. MaxFrame \cup {Torn}]
    BY 0 \in 0 .. MaxFrame
  <2> QED
    BY <2>1, 0 \in Buffers, 0 \in 0 .. MaxFrame DEF TypeOK
<1>2. Positions
  BY DEF Positions
<1>3. Frames
  BY DEF Frames, Waiting
<1> QED
  BY <1>1, <1>2, <1>3 DEF IInv

\* Every step of the two threads keeps the invariant.
LEMMA NextIInv == IInv /\ [Next]_vars => IInv'
<1> SUFFICES ASSUME IInv, [Next]_vars PROVE IInv'
  OBVIOUS
<1> USE BuffersAssumption, FrameAssumption
    DEF IInv, Buffers, None, Torn, Waiting, Drawing, LastPosted, After, handed,
        taken, emulatorVars, mainVars
<1>1. CASE Emulator
  <2>1. CASE compy_run_frame
    BY <2>1 DEF compy_run_frame, TypeOK, Positions, Frames
  <2>2. CASE thread_ends
    BY <2>2 DEF thread_ends, TypeOK, Positions, Frames
  <2>3. CASE memcpy_begins
    BY <2>3 DEF memcpy_begins, TypeOK, Positions, Frames
  <2>4. CASE memcpy_ends
    BY <2>4 DEF memcpy_ends, TypeOK, Positions, Frames
  <2>5. CASE post
    BY <2>5 DEF post, TypeOK, Positions, Frames
  <2>6. CASE advance
    BY <2>6 DEF advance, TypeOK, Positions, Frames
  <2> QED
    BY <1>1, <2>1, <2>2, <2>3, <2>4, <2>5, <2>6 DEF Emulator
<1>2. CASE Main
  <2>1. CASE take
    BY <2>1 DEF take, TypeOK, Positions, Frames
  <2>2. CASE nothing_posted
    BY <2>2 DEF nothing_posted, TypeOK, Positions, Frames
  <2>3. CASE release
    BY <2>3 DEF release, TypeOK, Positions, Frames
  <2>4. CASE draw
    BY <2>4 DEF draw, TypeOK, Positions, Frames
  <2>5. CASE drawing_fails
    BY <2>5 DEF drawing_fails, TypeOK, Positions, Frames
  <2>6. CASE frontend_process_events
    BY <2>6 DEF frontend_process_events, TypeOK, Positions, Frames
  <2> QED
    BY <1>2, <2>1, <2>2, <2>3, <2>4, <2>5, <2>6 DEF Main
<1>3. CASE UNCHANGED vars
  BY <1>3 DEF vars, TypeOK, Positions, Frames
<1> QED
  BY <1>1, <1>2, <1>3 DEF Next

\* The strengthened invariant holds in every reachable state.
THEOREM Invariance == Spec => []IInv
BY InitIInv, NextIInv, PTL DEF Spec

\* What the main thread draws is not written by the emulator thread, for any
\* number of buffers from three on.
THEOREM DrawnBufferStable == Spec => []NeverTorn
<1>1. IInv => NeverTorn
  BY BuffersAssumption
  DEF IInv, TypeOK, Positions, NeverTorn, LastPosted, After, Buffers, None,
      Waiting, Drawing
<1> QED
  BY Invariance, <1>1, PTL

\* A posted buffer is whole and is not the one that is drawn into: the first
\* wait of frontend_update_screen never has to wait.
THEOREM PostedBufferWhole == Spec => []PostedIsWhole
<1>1. IInv => PostedIsWhole
  BY BuffersAssumption, FrameAssumption
  DEF IInv, TypeOK, Positions, Frames, PostedIsWhole, LastPosted, Buffers, None,
      Waiting, handed
<1> QED
  BY Invariance, <1>1, PTL

\* A step of the two threads hands over a frame, draws or drops the next one,
\* or changes nothing of the video output.
LEMMA VideoStep == IInv /\ [Next]_vars => [Video!HandOver \/ Video!Draw \/ Video!Drop]_(Video!vars)
<1> SUFFICES ASSUME IInv, [Next]_vars
             PROVE  [Video!HandOver \/ Video!Draw \/ Video!Drop]_(Video!vars)
  OBVIOUS
<1> USE BuffersAssumption, FrameAssumption
    DEF Buffers, None, Waiting, Drawing, handed, taken, emulatorVars, mainVars,
        Video!vars
<1>1. CASE post
  <2>1. Video!HandOver
    BY <1>1 DEF IInv, TypeOK, Positions, Frames, post, Video!HandOver
  <2> QED
    BY <2>1
<1>2. CASE draw
  <2>1. Video!Draw
    BY <1>2 DEF IInv, TypeOK, Frames, Positions, draw, Video!Draw
  <2> QED
    BY <2>1
<1>3. CASE drawing_fails
  <2>1. Video!Drop
    BY <1>3 DEF IInv, TypeOK, Frames, Positions, drawing_fails, Video!Drop
  <2> QED
    BY <2>1
<1>4. CASE \/ compy_run_frame \/ thread_ends \/ memcpy_begins \/ memcpy_ends
           \/ advance
  <2>1. /\ buffer_post' = buffer_post /\ mpc' = mpc /\ shown' = shown
        /\ handed' = handed
    BY <1>4 DEF IInv, TypeOK, compy_run_frame, thread_ends, memcpy_begins,
                memcpy_ends, advance
  <2> QED
    BY <2>1 DEF IInv, TypeOK
<1>5. CASE take \/ nothing_posted \/ release \/ frontend_process_events
  BY <1>5 DEF IInv, TypeOK, Positions, take, nothing_posted, release,
              frontend_process_events
<1>6. CASE UNCHANGED vars
  BY <1>6 DEF vars
<1> QED
  BY <1>1, <1>2, <1>3, <1>4, <1>5, <1>6 DEF Next, Emulator, Main

\* Three buffers, or more, show every frame once, whole and in order.
THEOREM Refinement == Spec => ShowsEveryFrame
<1>1. ASSUME Init PROVE Video!Init
  <2>1. frame \in Nat /\ frame = 0 /\ epc \notin Waiting
    BY <1>1 DEF Init, Waiting
  <2>2. mpc \notin Drawing /\ buffer_post = None
    BY <1>1 DEF Init, Drawing
  <2>3. handed = 0
    <3>1. handed = frame - 0
      BY <2>1 DEF handed
    <3> QED
      BY <2>1, <3>1
  <2>4. taken = 0
    <3>1. taken = handed - 0 - 0
      BY <2>2 DEF taken
    <3> QED
      BY <2>3, <3>1
  <2> QED
    BY <1>1, <2>3, <2>4 DEF Init, Video!Init
<1> QED
  BY <1>1, VideoStep, Invariance, PTL
  DEF Spec, ShowsEveryFrame, Video!Spec
-----------------------------------------------------------------------------
(* The composition *)

\* How many chunks are whole in a buffer or have been queued, and how many of
\* them the main thread holds at the moment.
Done == IF spc = "idle" THEN produced ELSE produced - 1
Held == IF fpc = "queue" THEN size
        ELSE IF fpc \in {"size", "reset"} THEN buffer_write_index[current] ELSE 0

Types ==
  /\ Sound!TypeOK
  /\ heard \in Seq(0 .. MaxChunk \cup {Sound!Noise})
  /\ filled \in BOOLEAN

\* The frame whose sound is mixed is the one that is emulated, and the sound is
\* queued only when a frame waits for the screen.
Pace ==
  /\ epc # "run" => spc = "idle" /\ produced = ChunksPerFrame * frame
  /\ epc = "run" => /\ ChunksPerFrame * frame <= Done
                    /\ produced <= ChunksPerFrame * (frame + 1)
  /\ fpc # "idle" => mpc = "loop" /\ buffer_post # None /\ ~filled
  /\ filled => mpc = "loop" /\ buffer_post # None

\* Which buffer each thread works on.
Sided ==
  /\ spc # "idle" /\ fpc # "size" => mixing = active_sound_buffer
  /\ fpc = "swap" => current = active_sound_buffer
  /\ fpc \in {"size", "reset", "queue"} => current = 1 - active_sound_buffer
  /\ fpc \in {"idle", "swap"} => buffer_write_index[1 - active_sound_buffer] = 0
  /\ fpc = "size" /\ spc # "idle" /\ mixing = current
       => buffer_write_index[active_sound_buffer] = 0
  /\ fpc = "reset" => size = buffer_write_index[current]
  /\ fpc = "queue" => buffer_write_index[current] = 0

\* What the main thread holds comes after what it has queued, and what is in
\* the active buffer after that.
Contents ==
  /\ \A i \in 1 .. Len(heard) : heard[i] = i
  /\ Len(heard) + Held + buffer_write_index[active_sound_buffer] = Done
  /\ \A p \in 0 .. Held - 1 : sound_buffers[1 - active_sound_buffer][p] = Len(heard) + p + 1
  /\ \A p \in 0 .. buffer_write_index[active_sound_buffer] - 1 :
       sound_buffers[active_sound_buffer][p] = Len(heard) + Held + p + 1
  /\ spc \in {"mix", "mixing", "store"} => at = buffer_write_index[mixing]
  /\ spc = "store" => sound_buffers[mixing][at] = produced

Whole == Pace /\ (~raced => undone = {} /\ Sided /\ Contents)

\* The chunks produced but for one still on its way into buffer b, and the
\* frames handed over whose sound the active buffer has nothing of.
Put(b) == IF spc # "idle" /\ mixing = b THEN produced - 1 ELSE produced
Left ==
  IF buffer_post # None /\ ~filled /\ mpc # "surface" /\ fpc \in {"idle", "swap"}
  THEN handed - 1 ELSE handed

\* A buffer that was not handed over in the middle of a mix is empty, and
\* nothing is mixed into it, until it is active again.
Emptied ==
  /\ fpc = "swap" => current = active_sound_buffer
  /\ fpc \in {"size", "reset", "queue"} => current = 1 - active_sound_buffer
  /\ fpc # "size" /\ 1 - active_sound_buffer \notin undone =>
       /\ spc # "idle" => mixing = active_sound_buffer
       /\ fpc # "reset" => buffer_write_index[1 - active_sound_buffer] = 0
  /\ spc \in {"mix", "mixing", "store"} /\ mixing \notin undone =>
       at = buffer_write_index[mixing]

\* So, once active, it holds only what was produced since, which is at most the
\* sound of two frames.
Room ==
  /\ active_sound_buffer \notin undone =>
       buffer_write_index[active_sound_buffer] + ChunksPerFrame * Left
         <= Put(active_sound_buffer)
  /\ spc = "index" /\ mixing \notin undone => buffer_write_index[mixing] < BufferChunks
  /\ spc = "full" => mixing \in undone

FInv == IInv /\ Types /\ Emptied /\ Room /\ Whole
-----------------------------------------------------------------------------
(* The parts: what the two kinds of buffers do on their own. *)

\* A step of the threads is a step of the frame buffers, or changes nothing of
\* them.
LEMMA FrameStep == ASSUME FrontendNext PROVE [Next]_vars
<1>1. CASE EmulatorThread
  BY <1>1 DEF FrontendNext, EmulatorThread, RunsFrame, EndsFrame, ThreadEnds,
              HandsOver, Next, Emulator
<1>2. CASE MainThread
  BY <1>2 DEF FrontendNext, MainThread, QueuesSound, TakesFrame, Draws, Next, Main
<1> QED
  BY <1>1, <1>2 DEF FrontendNext

\* The composition is an instance of the frame buffers: what is proved of them
\* holds of it.
THEOREM FrontendHasScreenBuffers == FrontendSpec => Spec
<1>1. FrontendInit => Init
  BY DEF FrontendInit
<1>2. [FrontendNext]_frontendVars => [Next]_vars
  BY FrameStep DEF frontendVars
<1> QED
  BY <1>1, <1>2, PTL DEF FrontendSpec, Spec

\* No surface is drawn while the emulator writes its pixels, although the main
\* thread now queues the sound before it takes a frame.
THEOREM FrontendNeverTears == FrontendSpec => []NeverTorn
BY FrontendHasScreenBuffers, DrawnBufferStable, PTL

\* And every posted frame is whole.
THEOREM FrontendPostsWhole == FrontendSpec => []PostedIsWhole
BY FrontendHasScreenBuffers, PostedBufferWhole, PTL

\* Every frame handed over is drawn or dropped, once and in order.
THEOREM FrontendShowsEveryFrame == FrontendSpec => ShowsEveryFrame
BY FrontendHasScreenBuffers, Refinement, PTL

\* Whatever a step of the threads does to the sound is a step of the sound.
LEMMA SoundStep ==
  ASSUME FrontendNext
  PROVE  \/ RunsFrame \/ QueuesSound
         \/ UNCHANGED soundVars
BY DEF FrontendNext, EmulatorThread, MainThread, EndsFrame, ThreadEnds, HandsOver,
       TakesFrame, Draws

\* The samples keep their types, raced or not: an index past the end is never
\* stored.
LEMMA TypesKept ==
  ASSUME Types, FrontendNext
  PROVE  Types'
<1> USE FrontendAssumption
    DEF Types, Sound!TypeOK, Sound!Sides, Sound!Noise, Sound!raceVars
<1>1. CASE RunsFrame
  <2>0. filled' = filled /\ heard' = heard
    BY <1>1 DEF RunsFrame, Sound!sound_process, Sound!pokey_process,
      Sound!read_write_index, Sound!mix_begins, Sound!mix_ends,
      Sound!store_write_index, Sound!fillVars
  <2>1. CASE Sound!pokey_process
    BY <2>0, <2>1 DEF Sound!pokey_process, Sound!fillVars
  <2>2. CASE Sound!read_write_index
    BY <2>0, <2>2 DEF Sound!read_write_index, Sound!fillVars
  <2>3. CASE Sound!mix_begins
    BY <2>0, <2>3 DEF Sound!mix_begins, Sound!fillVars
  <2>4. CASE Sound!mix_ends
    BY <2>0, <2>4 DEF Sound!mix_ends, Sound!fillVars
  <2>5. CASE Sound!store_write_index
    BY <2>0, <2>5 DEF Sound!store_write_index, Sound!fillVars
  <2> QED
    BY <1>1, <2>1, <2>2, <2>3, <2>4, <2>5 DEF RunsFrame, Sound!sound_process
<1>2. CASE QueuesSound
  <2>0. filled' \in BOOLEAN
    BY <1>2 DEF QueuesSound
  <2>1. CASE Sound!read_active
    BY <2>0, <2>1 DEF Sound!read_active, Sound!processVars
  <2>2. CASE Sound!swap
    BY <2>0, <2>2 DEF Sound!swap, Sound!processVars
  <2>3. CASE Sound!read_size
    <3>1. sound_buffers[current][0] \in 0 .. MaxChunk \cup {-1}
      OBVIOUS
    <3>2. /\ raced' \in BOOLEAN /\ undone' \subseteq {0, 1}
          /\ spoilt' \subseteq (0 .. MaxChunk \cup {-1})
      BY <2>3, <3>1 DEF Sound!read_size, Sound!Hands
    <3> QED
      BY <2>0, <2>3, <3>2 DEF Sound!read_size, Sound!processVars
  <2>4. CASE Sound!reset
    BY <2>0, <2>4 DEF Sound!reset, Sound!processVars
  <2>5. CASE Sound!SDL_QueueAudio
    <3> DEFINE queued == [i \in 1 .. size |-> sound_buffers[current][i - 1]]
    <3>1. queued \in Seq(0 .. MaxChunk \cup {-1})
      <4>1. \A i \in 1 .. size : sound_buffers[current][i - 1] \in 0 .. MaxChunk \cup {-1}
        OBVIOUS
      <4> QED
        BY <4>1, IsASeq, size \in Nat
    <3>2. heard' \in Seq(0 .. MaxChunk \cup {-1})
      BY <2>5, <3>1, ConcatProperties DEF Sound!SDL_QueueAudio
    <3> QED
      BY <2>0, <2>5, <3>2 DEF Sound!SDL_QueueAudio, Sound!processVars
  <2> QED
    BY <1>2, <2>1, <2>2, <2>3, <2>4, <2>5 DEF QueuesSound, Sound!sound_fill_buffer
<1>3. CASE UNCHANGED soundVars
  <2>1. filled' \in BOOLEAN
    BY <1>3 DEF FrontendNext, EmulatorThread, MainThread, RunsFrame, EndsFrame,
      ThreadEnds, HandsOver, QueuesSound, TakesFrame, Draws
  <2> QED
    BY <1>3, <2>1 DEF soundVars
<1> QED
  BY <1>1, <1>2, <1>3, SoundStep

-----------------------------------------------------------------------------
(* The sound: what is in the buffers as long as no size was read in the       *)
(* middle of a mix, and how much is in them whether or not.                   *)

\* The chunks of one frame more, and of one less.
LEMMA ChunksOfFrames ==
  \A f \in Int : /\ ChunksPerFrame * f \in Int
                 /\ ChunksPerFrame * (f + 1) = ChunksPerFrame * f + ChunksPerFrame
                 /\ ChunksPerFrame * (f - 1) = ChunksPerFrame * f - ChunksPerFrame
BY FrontendAssumption

\* The emulator thread mixes a chunk.
LEMMA WholeRuns ==
  ASSUME FInv, RunsFrame
  PROVE  Whole'
<1> USE FrontendAssumption
<1>0. /\ frame \in Nat /\ produced \in Nat /\ active_sound_buffer \in {0, 1}
      /\ mixing \in {0, 1} /\ current \in {0, 1} /\ size \in Nat
      /\ buffer_write_index \in [{0, 1} -> Nat]
      /\ buffer_write_index \in [{0, 1} -> 0 .. BufferChunks]
      /\ sound_buffers \in [{0, 1} -> [0 .. BufferChunks - 1 -> 0 .. MaxChunk \cup {-1}]]
      /\ at \in Nat /\ Len(heard) \in Nat /\ ChunksPerFrame * frame \in Int
      /\ spc \in {"mix", "mixing", "store"} => at < BufferChunks
  BY LenProperties, ChunksOfFrames
  DEF FInv, IInv, TypeOK, Types, Sound!TypeOK, Sound!Sides, Sound!Noise
<1>1. UNCHANGED <<vars, filled, fpc, current, size, heard, active_sound_buffer,
                  raced, undone>>
  BY DEF RunsFrame, Sound!sound_process, Sound!pokey_process, Sound!read_write_index,
         Sound!mix_begins, Sound!mix_ends, Sound!store_write_index, Sound!fillVars,
         Sound!raceVars
<1>2. epc = "run" /\ produced' <= ChunksPerFrame * (frame + 1)
  BY DEF RunsFrame
<1>3. ~raced' => undone' = {} /\ Sided /\ Contents
  BY <1>1 DEF FInv, Whole
<1>4. CASE Sound!pokey_process
  <2>1. /\ spc = "idle" /\ spc' = "index" /\ produced' = produced + 1
        /\ mixing' = active_sound_buffer
        /\ UNCHANGED <<buffer_write_index, sound_buffers, at>>
    BY <1>4 DEF Sound!pokey_process
  <2>2. Held' = Held /\ Done' = Done
    BY <1>0, <1>1, <2>1 DEF Held, Done
  <2>3. Pace'
    BY <1>0, <1>1, <1>2, <2>1, <2>2 DEF FInv, Whole, Pace, vars, emulatorVars, mainVars
  <2>4. ASSUME ~raced' PROVE undone' = {} /\ Sided' /\ Contents'
    <3>1. Sided'
      BY <1>0, <1>1, <1>3, <2>1, <2>4 DEF Sided
    <3>2. Contents'
      BY <1>0, <1>1, <1>3, <2>1, <2>2, <2>4 DEF Contents
    <3> QED
      BY <1>3, <2>4, <3>1, <3>2
  <2> QED
    BY <2>3, <2>4 DEF Whole
<1>5. CASE Sound!read_write_index
  <2>1. /\ spc = "index" /\ at' = buffer_write_index[mixing]
        /\ spc' = IF at' < BufferChunks THEN "mix" ELSE "full"
        /\ UNCHANGED <<buffer_write_index, sound_buffers, produced, mixing>>
    BY <1>5 DEF Sound!read_write_index
  <2>2. Held' = Held /\ Done' = Done
    BY <1>0, <1>1, <2>1 DEF Held, Done
  <2>3. Pace'
    BY <1>0, <1>1, <1>2, <2>1, <2>2 DEF FInv, Whole, Pace, vars, emulatorVars, mainVars
  <2>4. ASSUME ~raced' PROVE undone' = {} /\ Sided' /\ Contents'
    <3>1. spc' = "mix"
      BY <1>1, <1>3, <2>1, <2>4 DEF FInv, Room
    <3>2. Sided'
      BY <1>0, <1>1, <1>3, <2>1, <2>4, <3>1 DEF Sided
    <3>3. Contents'
      BY <1>0, <1>1, <1>3, <2>1, <2>2, <2>4, <3>1 DEF Contents
    <3> QED
      BY <1>3, <2>4, <3>2, <3>3
  <2> QED
    BY <2>3, <2>4 DEF Whole
<1>6. CASE Sound!mix_begins \/ Sound!mix_ends
  <2>1. /\ \/ spc = "mix" /\ spc' = "mixing"
               /\ sound_buffers' = [sound_buffers EXCEPT ![mixing][at] = Sound!Noise]
           \/ spc = "mixing" /\ spc' = "store"
               /\ sound_buffers' = [sound_buffers EXCEPT ![mixing][at] = produced]
        /\ UNCHANGED <<buffer_write_index, produced, mixing, at>>
    BY <1>6 DEF Sound!mix_begins, Sound!mix_ends
  <2>2. Held' = Held /\ Done' = Done
    BY <1>0, <1>1, <2>1 DEF Held, Done
  <2>3. Pace'
    BY <1>0, <1>1, <1>2, <2>1, <2>2 DEF FInv, Whole, Pace, vars, emulatorVars, mainVars
  <2>4. ASSUME ~raced' PROVE undone' = {} /\ Sided' /\ Contents'
    <3>1. Sided'
      BY <1>0, <1>1, <1>3, <2>1, <2>4 DEF Sided
    <3>2. at = buffer_write_index[mixing] /\ at \in 0 .. BufferChunks - 1
      BY <1>0, <1>3, <2>1, <2>4 DEF Contents
    <3>3. /\ \A b \in {0, 1} : \A p \in 0 .. BufferChunks - 1 :
               b # mixing \/ p # at => sound_buffers'[b][p] = sound_buffers[b][p]
          /\ spc' = "store" => sound_buffers'[mixing][at] = produced
      BY <1>0, <2>1, <3>2
    <3>4. Held \in 0 .. BufferChunks
      BY <1>0 DEF Held, FInv, Types, Sound!TypeOK
    <3>5. ASSUME NEW p \in 0 .. Held - 1
          PROVE  sound_buffers'[1 - active_sound_buffer][p] = Len(heard) + p + 1
      <4>1. 1 - active_sound_buffer # mixing \/ p # at
        BY <1>0, <1>3, <2>1, <2>4, <3>2, <3>5 DEF Sided, Held
      <4>2. p \in 0 .. BufferChunks - 1 /\ 1 - active_sound_buffer \in {0, 1}
        BY <1>0, <3>4
      <4>3. sound_buffers'[1 - active_sound_buffer][p]
              = sound_buffers[1 - active_sound_buffer][p]
        BY <3>3, <4>1, <4>2
      <4> QED
        BY <1>3, <2>1, <2>4, <4>3 DEF Contents
    <3>6. ASSUME NEW p \in 0 .. buffer_write_index[active_sound_buffer] - 1
          PROVE  sound_buffers'[active_sound_buffer][p] = Len(heard) + Held + p + 1
      <4>1. active_sound_buffer # mixing \/ p # at
        BY <1>0, <3>2, <3>6
      <4> QED
        BY <1>0, <1>3, <2>1, <2>4, <3>3, <4>1 DEF Contents
    <3>7. Contents'
      BY <1>0, <1>1, <1>3, <2>1, <2>2, <2>4, <3>2, <3>3, <3>5, <3>6 DEF Contents
    <3> QED
      BY <1>3, <2>4, <3>1, <3>7
  <2> QED
    BY <2>3, <2>4 DEF Whole
<1>7. CASE Sound!store_write_index
  <2>1. /\ spc \in {"store", "full"} /\ spc' = "idle"
        /\ buffer_write_index' = [buffer_write_index EXCEPT ![mixing] =
                                    IF spc = "store" THEN at + 1 ELSE at]
        /\ UNCHANGED <<sound_buffers, produced, mixing, at>>
    BY <1>7 DEF Sound!store_write_index
  <2>2. Done' = Done + 1
    BY <1>0, <2>1 DEF Done
  <2>3. Pace'
    BY <1>0, <1>1, <1>2, <2>1, <2>2 DEF FInv, Whole, Pace, vars, emulatorVars, mainVars, Done
  <2>4. ASSUME ~raced' PROVE undone' = {} /\ Sided' /\ Contents'
    <3>1. /\ spc = "store" /\ at = buffer_write_index[mixing]
          /\ sound_buffers[mixing][at] = produced
          /\ buffer_write_index' = [buffer_write_index EXCEPT ![mixing] = at + 1]
      BY <1>1, <1>3, <2>1, <2>4 DEF FInv, Room, Contents
    <3>2. Sided'
      BY <1>0, <1>1, <1>3, <2>1, <2>4, <3>1 DEF Sided
    <3>3. Len(heard) + Held + buffer_write_index[active_sound_buffer] = produced - 1
      BY <1>3, <2>1, <2>4, <3>1 DEF Contents, Done
    <3>4. CASE mixing = active_sound_buffer
      <4>1. Held' = Held
        BY <1>0, <1>1, <1>3, <2>1, <2>4, <3>1, <3>4 DEF Sided, Held
      <4>2. Contents'
        <5>1. /\ Held \in Nat /\ buffer_write_index[active_sound_buffer] = at
              /\ buffer_write_index'[active_sound_buffer] = at + 1
          BY <1>0, <3>1, <3>4 DEF Held
        <5>2. ASSUME NEW p \in 0 .. at
              PROVE  sound_buffers[active_sound_buffer][p] = Len(heard) + Held + p + 1
          <6>1. CASE p = at
            <7>1. produced = Len(heard) + Held + at + 1
              BY <1>0, <3>3, <5>1
            <7> QED
              BY <3>1, <3>4, <6>1, <7>1
          <6>2. CASE p # at
            BY <1>0, <1>3, <2>1, <2>4, <5>1, <5>2, <6>2 DEF Contents
          <6> QED
            BY <6>1, <6>2
        <5>3. Done' = produced
          BY <2>1 DEF Done
        <5>4. Len(heard) + Held + at = produced - 1
          BY <3>3, <5>1
        <5>5. Len(heard) + Held + (at + 1) = Done' /\ (at + 1) - 1 = at
          BY <1>0, <5>1, <5>3, <5>4
        <5> QED
          BY <1>1, <1>3, <2>1, <2>4, <4>1, <5>1, <5>2, <5>5 DEF Contents
      <4> QED
        BY <1>3, <2>4, <3>2, <4>2
    <3>5. CASE mixing # active_sound_buffer
      <4>1. /\ fpc = "size" /\ mixing = current
            /\ buffer_write_index[active_sound_buffer] = 0
            /\ mixing = 1 - active_sound_buffer
        BY <1>0, <1>3, <2>1, <2>4, <3>5 DEF Sided
      <4>2. Held = at /\ Held' = at + 1
        BY <1>0, <1>1, <3>1, <4>1 DEF Held
      <4>3. buffer_write_index'[active_sound_buffer] = 0
        BY <1>0, <3>1, <3>5, <4>1
      <4>4. Contents'
        <5>1. ASSUME NEW p \in 0 .. at
              PROVE  sound_buffers[1 - active_sound_buffer][p] = Len(heard) + p + 1
          <6>1. CASE p = at
            <7>1. produced = Len(heard) + at + 1
              BY <1>0, <3>3, <4>1, <4>2
            <7> QED
              BY <3>1, <4>1, <6>1, <7>1
          <6>2. CASE p # at
            BY <1>0, <1>3, <2>1, <2>4, <4>2, <5>1, <6>2 DEF Contents
          <6> QED
            BY <6>1, <6>2
        <5>2. Len(heard) + at + 0 = produced - 1
          BY <3>3, <4>1, <4>2
        <5>3. Len(heard) + (at + 1) + 0 = Done'
          BY <1>0, <2>1, <5>2 DEF Done
        <5>4. (at + 1) - 1 = at
          BY <1>0
        <5>5. \A p \in 0 .. 0 - 1 : FALSE
          OBVIOUS
        <5> QED
          BY <1>1, <1>3, <2>1, <2>4, <4>2, <4>3, <5>1, <5>3, <5>4, <5>5
          DEF Contents
      <4> QED
        BY <1>3, <2>4, <3>2, <4>4
    <3> QED
      BY <3>4, <3>5
  <2> QED
    BY <2>3, <2>4 DEF Whole
<1> QED
  BY <1>4, <1>5, <1>6, <1>7 DEF RunsFrame, Sound!sound_process

\* What the emulator has done is at least the frames it has handed over.
LEMMA DoneIsAhead ==
  ASSUME FInv
  PROVE  Done \in Int /\ handed \in Int /\ Done >= ChunksPerFrame * handed
<1> USE FrontendAssumption
<1>1. /\ frame \in Nat /\ produced \in Nat /\ ChunksPerFrame * frame \in Int
      /\ ChunksPerFrame * (frame - 1) = ChunksPerFrame * frame - ChunksPerFrame
      /\ epc \in {"run", "wait_next", "copying", "wait_post", "advance", "ended"}
  BY ChunksOfFrames DEF FInv, IInv, TypeOK, Types, Sound!TypeOK
<1>2. Done >= ChunksPerFrame * frame
  BY <1>1 DEF FInv, Whole, Pace, Done
<1>3. handed = frame \/ handed = frame - 1
  BY <1>1 DEF handed
<1> QED
  BY <1>1, <1>2, <1>3 DEF Done

\* The main thread queues the sound of a posted frame.
LEMMA WholeQueues ==
  ASSUME FInv, QueuesSound
  PROVE  Whole'
<1> USE FrontendAssumption
<1>0. /\ frame \in Nat /\ produced \in Nat /\ active_sound_buffer \in {0, 1}
      /\ mixing \in {0, 1} /\ current \in {0, 1} /\ size \in Nat
      /\ buffer_write_index \in [{0, 1} -> Nat]
      /\ at \in Nat /\ Len(heard) \in Nat /\ ChunksPerFrame * handed \in Int
      /\ Done \in Int
  BY LenProperties, ChunksOfFrames, DoneIsAhead
  DEF FInv, IInv, TypeOK, Types, Sound!TypeOK, Sound!Sides, Sound!Noise
<1>1. /\ mpc = "loop" /\ buffer_post # None /\ ~filled
      /\ filled' = (fpc = "queue")
      /\ UNCHANGED <<buffer_next, screen_buffers, frame, epc, buffer_post, surface,
                     shown, closed, mpc>>
  BY DEF QueuesSound, vars, emulatorVars, mainVars, None
<1>2. /\ UNCHANGED <<sound_buffers, produced, spc, mixing, at>>
  BY DEF QueuesSound, Sound!sound_fill_buffer, Sound!read_active, Sound!swap,
         Sound!read_size, Sound!reset, Sound!SDL_QueueAudio, Sound!processVars
<1>3. handed' = handed /\ Done' = Done
  BY <1>1, <1>2 DEF handed, Done
<1>4. Pace'
  <2>1. fpc' # "idle" => ~filled'
    BY <1>1 DEF QueuesSound, Sound!sound_fill_buffer, Sound!read_active, Sound!swap,
         Sound!read_size, Sound!reset, Sound!SDL_QueueAudio
  <2> QED
    BY <1>1, <1>2, <1>3, <2>1 DEF FInv, Whole, Pace
<1>5. ASSUME ~raced' PROVE undone' = {} /\ Sided' /\ Contents'
  <2>0. undone' = {} /\ Sided /\ Contents
    <3>1. raced \in BOOLEAN
      BY DEF FInv, Types, Sound!TypeOK
    <3>2. \/ raced' = raced /\ undone' = undone
          \/ /\ raced' = (raced \/ Sound!InTheMiddle)
             /\ undone' = IF Sound!InTheMiddle THEN undone \cup {current}
                          ELSE undone \ {current}
      BY DEF QueuesSound, Sound!sound_fill_buffer, Sound!read_active, Sound!swap,
             Sound!read_size, Sound!Hands, Sound!reset, Sound!SDL_QueueAudio,
             Sound!raceVars
    <3>3. ~raced /\ (undone = {} => undone' = {})
      BY <1>5, <3>1, <3>2
    <3> QED
      BY <3>3 DEF FInv, Whole
  <2>1. CASE Sound!read_active
    <3>1. /\ fpc = "idle" /\ fpc' = "swap" /\ current' = active_sound_buffer
          /\ UNCHANGED <<active_sound_buffer, buffer_write_index, size, heard>>
      BY <2>1 DEF Sound!read_active
    <3>2. Held' = Held
      BY <3>1 DEF Held
    <3>3. Sided'
      BY <1>2, <2>0, <3>1 DEF Sided
    <3>4. Contents'
      BY <1>2, <1>3, <2>0, <3>1, <3>2 DEF Contents
    <3> QED
      BY <2>0, <3>3, <3>4
  <2>2. CASE Sound!swap
    <3>1. /\ fpc = "swap" /\ fpc' = "size"
          /\ active_sound_buffer' = 1 - active_sound_buffer
          /\ current = active_sound_buffer
          /\ UNCHANGED <<buffer_write_index, current, size, heard>>
      BY <2>0, <2>2 DEF Sound!swap, Sided
    <3>2. /\ Held = 0 /\ Held' = buffer_write_index[active_sound_buffer]
          /\ buffer_write_index[active_sound_buffer'] = 0
      BY <2>0, <3>1 DEF Held, Sided
    <3>3. 1 - active_sound_buffer' = active_sound_buffer
      BY <1>0, <3>1
    <3>4. Sided'
      BY <1>0, <1>2, <2>0, <3>1, <3>2, <3>3 DEF Sided
    <3>5. Len(heard) + Held' = Done
      BY <1>0, <2>0, <3>2 DEF Contents
    <3>6. Contents'
      <4>1. Len(heard) + Held' + 0 = Done
        BY <1>0, <3>2, <3>5
      <4>2. \A p \in 0 .. Held' - 1 :
              sound_buffers[active_sound_buffer][p] = Len(heard) + p + 1
        BY <1>0, <2>0, <3>2 DEF Contents
      <4> QED
        BY <1>2, <1>3, <2>0, <3>1, <3>2, <3>3, <4>1, <4>2 DEF Contents
    <3> QED
      BY <2>0, <3>4, <3>6
  <2>3. CASE Sound!read_size
    <3>1. /\ fpc = "size" /\ fpc' = "reset" /\ size' = buffer_write_index[current]
          /\ spc = "idle" \/ mixing # current
          /\ UNCHANGED <<active_sound_buffer, buffer_write_index, current, heard>>
      BY <1>5, <2>3 DEF Sound!read_size, Sound!Hands, Sound!InTheMiddle
    <3>2. Held' = Held
      BY <3>1 DEF Held
    <3>3. Sided'
      BY <1>0, <1>2, <2>0, <3>1 DEF Sided
    <3>4. Contents'
      BY <1>2, <1>3, <2>0, <3>1, <3>2 DEF Contents
    <3> QED
      BY <2>0, <3>3, <3>4
  <2>4. CASE Sound!reset
    <3>1. /\ fpc = "reset" /\ fpc' = "queue"
          /\ buffer_write_index' = [buffer_write_index EXCEPT ![current] = 0]
          /\ current = 1 - active_sound_buffer /\ size = buffer_write_index[current]
          /\ UNCHANGED <<active_sound_buffer, current, size, heard>>
      BY <2>0, <2>4 DEF Sound!reset, Sided
    <3>2. Held' = Held
      BY <3>1 DEF Held
    <3>3. /\ buffer_write_index'[active_sound_buffer]
               = buffer_write_index[active_sound_buffer]
          /\ buffer_write_index'[current] = 0
          /\ spc # "idle" => mixing = active_sound_buffer
      BY <1>0, <2>0, <3>1 DEF Sided
    <3>4. Sided'
      BY <1>0, <1>2, <2>0, <3>1, <3>3 DEF Sided
    <3>5. Contents'
      BY <1>2, <1>3, <2>0, <3>1, <3>2, <3>3 DEF Contents
    <3> QED
      BY <2>0, <3>4, <3>5
  <2>5. CASE Sound!SDL_QueueAudio
    <3> DEFINE queued == [i \in 1 .. size |-> sound_buffers[current][i - 1]]
    <3>1. /\ fpc = "queue" /\ fpc' = "idle" /\ heard' = heard \o queued
          /\ current = 1 - active_sound_buffer /\ buffer_write_index[current] = 0
          /\ UNCHANGED <<active_sound_buffer, buffer_write_index, current, size>>
      BY <2>0, <2>5 DEF Sound!SDL_QueueAudio, Sided
    <3>2. Held = size /\ Held' = 0
      BY <3>1 DEF Held
    <3>3. /\ Len(heard') = Len(heard) + size
          /\ \A i \in 1 .. Len(heard) + size :
               heard'[i] = IF i <= Len(heard) THEN heard[i]
                           ELSE sound_buffers[current][i - Len(heard) - 1]
      <4>1. queued \in Seq(0 .. MaxChunk \cup {-1})
        <5>1. \A i \in 1 .. size :
                sound_buffers[current][i - 1] \in 0 .. MaxChunk \cup {-1}
          BY DEF FInv, Types, Sound!TypeOK, Sound!Sides, Sound!Noise
        <5> QED
          BY <1>0, <5>1, IsASeq
      <4>2. Len(queued) = size /\ \A i \in 1 .. size : queued[i] = sound_buffers[current][i - 1]
        BY <1>0, <4>1, LenProperties
      <4>3. heard \in Seq(0 .. MaxChunk \cup {-1})
        BY DEF FInv, Types, Sound!Noise
      <4>4. /\ Len(heard \o queued) = Len(heard) + Len(queued)
            /\ \A i \in 1 .. Len(heard) + Len(queued) :
                 (heard \o queued)[i] = IF i <= Len(heard) THEN heard[i]
                                        ELSE queued[i - Len(heard)]
        BY <4>1, <4>3, ConcatProperties
      <4>5. \A i \in 1 .. Len(heard) + size :
              i > Len(heard) => i - Len(heard) \in 1 .. size
        BY <1>0
      <4> HIDE DEF queued
      <4> QED
        BY <1>0, <3>1, <4>2, <4>4, <4>5
    <3>4. \A i \in 1 .. Len(heard') : heard'[i] = i
      <4> SUFFICES ASSUME NEW i \in 1 .. Len(heard) + size PROVE heard'[i] = i
        BY <3>3
      <4>1. CASE i <= Len(heard)
        BY <1>0, <2>0, <3>3, <4>1 DEF Contents
      <4>2. CASE i > Len(heard)
        <5>1. i - Len(heard) - 1 \in 0 .. size - 1
          BY <1>0, <4>2
        <5>2. heard'[i] = sound_buffers[current][i - Len(heard) - 1]
          BY <1>0, <3>3, <4>2
        <5>3. sound_buffers[current][i - Len(heard) - 1]
                = Len(heard) + (i - Len(heard) - 1) + 1
          BY <2>0, <3>1, <3>2, <5>1 DEF Contents
        <5> QED
          BY <1>0, <5>2, <5>3
      <4> QED
        BY <1>0, <4>1, <4>2
    <3>5. Sided'
      BY <1>2, <2>0, <3>1 DEF Sided
    <3>6. Contents'
      <4>1. Len(heard') + Held' = Len(heard) + Held
        BY <1>0, <3>2, <3>3
      <4>2. \A p \in 0 .. Held' - 1 : FALSE
        BY <3>2
      <4> QED
        BY <1>2, <1>3, <2>0, <3>1, <3>4, <4>1, <4>2 DEF Contents
    <3> QED
      BY <2>0, <3>5, <3>6
  <2> QED
    BY <2>1, <2>2, <2>3, <2>4, <2>5 DEF QueuesSound, Sound!sound_fill_buffer
<1> QED
  BY <1>4, <1>5 DEF Whole

\* A call that mixes finds room in the active buffer, and stores its chunk
\* where it was mixed.
LEMMA RoomRuns ==
  ASSUME FInv, RunsFrame
  PROVE  Emptied' /\ Room'
<1> USE FrontendAssumption
<1>0. /\ frame \in Nat /\ produced \in Nat /\ active_sound_buffer \in {0, 1}
      /\ mixing \in {0, 1} /\ current \in {0, 1} /\ at \in Nat
      /\ buffer_write_index \in [{0, 1} -> Nat]
      /\ handed = frame /\ Left \in {frame, frame - 1}
  <2>1. epc = "run" /\ frame \in Nat
    BY DEF RunsFrame, FInv, IInv, TypeOK
  <2>2. handed = frame
    BY <2>1 DEF handed, Waiting
  <2> QED
    BY <2>1, <2>2 DEF Left, FInv, Types, Sound!TypeOK, Sound!Sides
<1>1. /\ UNCHANGED <<vars, filled, fpc, current, active_sound_buffer, undone>>
      /\ produced' <= ChunksPerFrame * (frame + 1)
  BY DEF RunsFrame, Sound!sound_process, Sound!pokey_process, Sound!read_write_index,
         Sound!mix_begins, Sound!mix_ends, Sound!store_write_index, Sound!fillVars,
         Sound!raceVars
<1>2. Left' = Left
  BY <1>1 DEF vars, emulatorVars, mainVars, Left, handed
<1>3. /\ ChunksPerFrame * frame \in Int /\ ChunksPerFrame * Left \in Int
      /\ ChunksPerFrame * (frame + 1) = ChunksPerFrame * frame + ChunksPerFrame
      /\ ChunksPerFrame * Left >= ChunksPerFrame * frame - ChunksPerFrame
  BY <1>0, ChunksOfFrames
<1>4. CASE Sound!pokey_process
  <2>1. /\ spc = "idle" /\ spc' = "index" /\ produced' = produced + 1
        /\ mixing' = active_sound_buffer /\ UNCHANGED buffer_write_index
    BY <1>4 DEF Sound!pokey_process
  <2>2. Put(active_sound_buffer) = produced /\ Put(active_sound_buffer)' = produced
    BY <1>0, <1>1, <2>1 DEF Put
  <2>3. active_sound_buffer \notin undone =>
          buffer_write_index[active_sound_buffer] < BufferChunks
    <3> SUFFICES ASSUME active_sound_buffer \notin undone
                 PROVE  buffer_write_index[active_sound_buffer] < BufferChunks
      OBVIOUS
    <3>1. buffer_write_index[active_sound_buffer] + ChunksPerFrame * Left <= produced
      BY <2>2 DEF FInv, Room
    <3> QED
      BY <1>0, <1>1, <1>3, <2>1, <3>1
  <2>4. Emptied'
    BY <1>1, <2>1 DEF FInv, Emptied
  <2> QED
    BY <1>1, <1>2, <2>1, <2>2, <2>3, <2>4 DEF FInv, Room
<1>5. CASE Sound!read_write_index
  <2>1. /\ spc = "index" /\ at' = buffer_write_index[mixing]
        /\ spc' = IF at' < BufferChunks THEN "mix" ELSE "full"
        /\ UNCHANGED <<buffer_write_index, produced, mixing>>
    BY <1>5 DEF Sound!read_write_index
  <2>2. Put(active_sound_buffer)' = Put(active_sound_buffer)
    BY <1>1, <2>1 DEF Put
  <2>3. Emptied'
    BY <1>1, <2>1 DEF FInv, Emptied
  <2> QED
    BY <1>1, <1>2, <2>1, <2>2, <2>3 DEF FInv, Room
<1>6. CASE Sound!mix_begins \/ Sound!mix_ends
  <2>1. /\ spc \in {"mix", "mixing"} /\ spc' \in {"mixing", "store"}
        /\ UNCHANGED <<buffer_write_index, produced, mixing, at>>
    BY <1>6 DEF Sound!mix_begins, Sound!mix_ends
  <2>2. Put(active_sound_buffer)' = Put(active_sound_buffer)
    BY <1>1, <2>1 DEF Put
  <2>3. Emptied'
    BY <1>1, <2>1 DEF FInv, Emptied
  <2> QED
    BY <1>1, <1>2, <2>1, <2>2, <2>3 DEF FInv, Room
<1>7. CASE Sound!store_write_index
  <2>1. /\ spc \in {"store", "full"} /\ spc' = "idle"
        /\ buffer_write_index' = [buffer_write_index EXCEPT ![mixing] =
                                    IF spc = "store" THEN at + 1 ELSE at]
        /\ UNCHANGED <<produced, mixing, at>>
    BY <1>7 DEF Sound!store_write_index
  <2>2. ASSUME active_sound_buffer \notin undone
        PROVE  buffer_write_index'[active_sound_buffer] + ChunksPerFrame * Left
                 <= Put(active_sound_buffer)'
    <3>1. buffer_write_index[active_sound_buffer] + ChunksPerFrame * Left
            <= Put(active_sound_buffer)
      BY <2>2 DEF FInv, Room
    <3>2. Put(active_sound_buffer)' = produced
      BY <2>1 DEF Put
    <3>3. CASE mixing = active_sound_buffer
      <4>1. spc = "store" /\ at = buffer_write_index[active_sound_buffer]
        BY <2>1, <2>2, <3>3 DEF FInv, Room, Emptied
      <4>2. Put(active_sound_buffer) = produced - 1
        BY <3>3, <4>1 DEF Put
      <4>3. buffer_write_index'[active_sound_buffer]
              = buffer_write_index[active_sound_buffer] + 1
        BY <1>0, <2>1, <3>3, <4>1
      <4> QED
        BY <1>0, <1>3, <3>1, <3>2, <4>2, <4>3
    <3>4. CASE mixing # active_sound_buffer
      <4>1. Put(active_sound_buffer) = produced
        BY <3>4 DEF Put
      <4>2. buffer_write_index'[active_sound_buffer]
              = buffer_write_index[active_sound_buffer]
        BY <1>0, <2>1, <3>4
      <4> QED
        BY <3>1, <3>2, <4>1, <4>2
    <3> QED
      BY <3>3, <3>4
  <2>3. ASSUME fpc # "size", 1 - active_sound_buffer \notin undone, fpc # "reset"
        PROVE  buffer_write_index'[1 - active_sound_buffer] = 0
    <3>1. /\ mixing = active_sound_buffer
          /\ buffer_write_index[1 - active_sound_buffer] = 0
      BY <2>1, <2>3 DEF FInv, Emptied
    <3> QED
      BY <1>0, <2>1, <3>1
  <2>4. Emptied'
    BY <1>1, <2>1, <2>3 DEF FInv, Emptied
  <2> QED
    BY <1>1, <1>2, <2>1, <2>2, <2>4 DEF Room
<1> QED
  BY <1>4, <1>5, <1>6, <1>7 DEF RunsFrame, Sound!sound_process

\* The buffer that becomes active is empty, and the frames whose sound went
\* with the other one have been handed over.
LEMMA RoomQueues ==
  ASSUME FInv, QueuesSound
  PROVE  Emptied' /\ Room'
<1> USE FrontendAssumption
<1>0. /\ produced \in Nat /\ active_sound_buffer \in {0, 1}
      /\ mixing \in {0, 1} /\ current \in {0, 1} /\ at \in Nat
      /\ buffer_write_index \in [{0, 1} -> 0 .. BufferChunks]
      /\ handed \in Int /\ ChunksPerFrame * handed \in Int
  BY ChunksOfFrames, DoneIsAhead DEF FInv, Types, Sound!TypeOK, Sound!Sides
<1>1. /\ mpc = "loop" /\ buffer_post # None /\ ~filled
      /\ filled' = (fpc = "queue")
      /\ handed' = handed
      /\ UNCHANGED <<buffer_post, mpc, produced, spc, mixing, at>>
  BY DEF QueuesSound, vars, emulatorVars, mainVars, None, handed,
         Sound!sound_fill_buffer, Sound!read_active, Sound!swap, Sound!read_size,
         Sound!reset, Sound!SDL_QueueAudio, Sound!processVars
<1>2. CASE Sound!read_active
  <2>1. /\ fpc = "idle" /\ fpc' = "swap" /\ current' = active_sound_buffer
        /\ UNCHANGED <<active_sound_buffer, buffer_write_index, undone>>
    BY <1>2 DEF Sound!read_active, Sound!raceVars
  <2>2. Left' = Left
    BY <1>1, <2>1 DEF Left
  <2>3. Emptied'
    BY <1>1, <2>1 DEF FInv, Emptied
  <2> QED
    BY <1>1, <2>1, <2>2, <2>3 DEF FInv, Room, Put
<1>3. CASE Sound!swap
  <2>1. /\ fpc = "swap" /\ fpc' = "size"
        /\ active_sound_buffer' = 1 - active_sound_buffer
        /\ current = active_sound_buffer
        /\ UNCHANGED <<buffer_write_index, current, undone>>
    BY <1>3 DEF Sound!swap, Sound!raceVars, FInv, Emptied
  <2>2. Left' = handed
    BY <1>1, <2>1 DEF Left
  <2>3. Emptied'
    BY <1>0, <1>1, <2>1 DEF FInv, Emptied
  <2>4. ASSUME 1 - active_sound_buffer \notin undone
        PROVE  /\ buffer_write_index[1 - active_sound_buffer] = 0
               /\ Put(1 - active_sound_buffer) = produced
    BY <1>0, <2>1, <2>4 DEF FInv, Emptied, Put
  <2>5. Put(active_sound_buffer)' = Put(1 - active_sound_buffer)
    BY <1>1, <2>1 DEF Put
  <2>6. 0 + ChunksPerFrame * handed <= produced
    BY <1>0, DoneIsAhead DEF Done
  <2> QED
    BY <1>1, <2>1, <2>2, <2>3, <2>4, <2>5, <2>6 DEF FInv, Room
<1>4. CASE Sound!read_size
  <2>1. /\ fpc = "size" /\ fpc' = "reset" /\ current = 1 - active_sound_buffer
        /\ undone' = IF spc # "idle" /\ mixing = current THEN undone \cup {current}
                     ELSE undone \ {current}
        /\ UNCHANGED <<active_sound_buffer, buffer_write_index, current>>
    BY <1>4 DEF Sound!read_size, Sound!Hands, Sound!InTheMiddle, FInv, Emptied
  <2>2. /\ Left' = Left /\ Put(active_sound_buffer)' = Put(active_sound_buffer)
        /\ active_sound_buffer \in undone' <=> active_sound_buffer \in undone
        /\ spc # "idle" => (mixing \in undone' <=> mixing \in undone \cup {current})
    BY <1>0, <1>1, <2>1 DEF Left, Put
  <2>3. Emptied'
    BY <1>0, <1>1, <2>1, <2>2 DEF FInv, Emptied
  <2> QED
    BY <1>1, <2>1, <2>2, <2>3 DEF FInv, Room
<1>5. CASE Sound!reset
  <2>1. /\ fpc = "reset" /\ fpc' = "queue" /\ current = 1 - active_sound_buffer
        /\ buffer_write_index' = [buffer_write_index EXCEPT ![current] = 0]
        /\ UNCHANGED <<active_sound_buffer, current, undone>>
    BY <1>5 DEF Sound!reset, Sound!raceVars, FInv, Emptied
  <2>2. Left' = Left /\ Put(active_sound_buffer)' = Put(active_sound_buffer)
    BY <1>1, <2>1 DEF Left, Put
  <2>3. /\ buffer_write_index'[1 - active_sound_buffer] = 0
        /\ buffer_write_index'[active_sound_buffer]
             = buffer_write_index[active_sound_buffer]
        /\ spc # "idle" /\ mixing \notin undone => mixing = active_sound_buffer
    BY <1>0, <2>1 DEF FInv, Emptied
  <2>4. Emptied'
    BY <1>1, <2>1, <2>3 DEF FInv, Emptied
  <2> QED
    BY <1>1, <2>1, <2>2, <2>3, <2>4 DEF FInv, Room
<1>6. CASE Sound!SDL_QueueAudio
  <2>1. /\ fpc = "queue" /\ fpc' = "idle"
        /\ UNCHANGED <<active_sound_buffer, buffer_write_index, current, undone>>
    BY <1>6 DEF Sound!SDL_QueueAudio, Sound!raceVars
  <2>2. Left' = Left /\ Put(active_sound_buffer)' = Put(active_sound_buffer)
    BY <1>1, <2>1 DEF Left, Put
  <2>3. Emptied'
    BY <1>1, <2>1 DEF FInv, Emptied
  <2> QED
    BY <1>1, <2>1, <2>2, <2>3 DEF FInv, Room
<1> QED
  BY <1>2, <1>3, <1>4, <1>5, <1>6 DEF QueuesSound, Sound!sound_fill_buffer

\* The frames go on while the sound rests.
LEMMA WholeFrames ==
  ASSUME FInv, FrontendNext, UNCHANGED soundVars
  PROVE  Whole' /\ Emptied' /\ Room'
<1> USE FrontendAssumption
<1>0. /\ frame \in Nat /\ produced \in Nat /\ Len(heard) \in Nat
      /\ ChunksPerFrame * frame \in Int /\ handed \in Int
      /\ ChunksPerFrame * handed \in Int
      /\ ChunksPerFrame * (frame + 1) = ChunksPerFrame * frame + ChunksPerFrame
      /\ ChunksPerFrame * (handed + 1) = ChunksPerFrame * handed + ChunksPerFrame
      /\ ChunksPerFrame * (handed - 1) = ChunksPerFrame * handed - ChunksPerFrame
  <2>1. frame \in Nat /\ produced \in Nat /\ Len(heard) \in Nat
    BY LenProperties DEF FInv, IInv, TypeOK, Types, Sound!TypeOK
  <2>2. handed \in Int
    BY DoneIsAhead
  <2> QED
    BY <2>1, <2>2, ChunksOfFrames
<1>1. /\ UNCHANGED <<active_sound_buffer, buffer_write_index, sound_buffers, produced,
                     spc, mixing, at, fpc, current, size, heard, raced, undone>>
      /\ Held' = Held /\ Done' = Done
  BY DEF soundVars, Held, Done
<1>2. Emptied' /\ (~raced' => undone' = {} /\ Sided' /\ Contents')
  BY <1>1 DEF FInv, Whole, Sided, Contents, Emptied
<1>3. ASSUME EndsFrame PROVE Pace' /\ Left' = Left
  <2>1. /\ epc = "run" /\ epc' = "wait_next" /\ frame' = frame + 1
        /\ produced = ChunksPerFrame * (frame + 1) /\ spc = "idle"
        /\ UNCHANGED <<buffer_post, mpc, filled>>
    BY <1>3 DEF EndsFrame, compy_run_frame, mainVars
  <2>2. handed' = handed
    BY <1>0, <2>1 DEF handed, Waiting
  <2> QED
    BY <1>0, <1>1, <2>1, <2>2 DEF FInv, Whole, Pace, Left
<1>4. ASSUME ThreadEnds PROVE Pace' /\ Left' = Left
  <2>1. /\ epc = "run" /\ epc' = "ended" /\ frame' = frame
        /\ produced = ChunksPerFrame * frame /\ spc = "idle"
        /\ UNCHANGED <<buffer_post, mpc, filled>>
    BY <1>4 DEF ThreadEnds, thread_ends, mainVars
  <2>2. handed' = handed
    BY <1>0, <2>1 DEF handed, Waiting
  <2> QED
    BY <1>0, <1>1, <2>1, <2>2 DEF FInv, Whole, Pace, Left
<1>5. ASSUME memcpy_begins \/ memcpy_ends, filled' = filled PROVE Pace' /\ Left' = Left
  <2>1. /\ epc \in Waiting /\ epc' \in Waiting /\ frame' = frame
        /\ UNCHANGED <<buffer_post, mpc>>
    BY <1>5 DEF memcpy_begins, memcpy_ends, mainVars, Waiting
  <2>2. handed' = handed
    BY <2>1 DEF handed
  <2> QED
    BY <1>1, <1>5, <2>1, <2>2 DEF FInv, Whole, Pace, Left, Waiting
<1>6. ASSUME post, filled' = filled PROVE Pace' /\ Left' = Left
  <2>1. /\ epc = "wait_post" /\ epc' = "advance" /\ frame' = frame
        /\ buffer_post = None /\ UNCHANGED mpc
    BY <1>6 DEF post, mainVars, FInv, IInv, TypeOK, Buffers, None
  <2>2. handed = frame - 1 /\ handed' = frame
    BY <1>0, <2>1 DEF handed, Waiting
  <2>3. ~filled /\ fpc = "idle"
    BY <2>1 DEF FInv, Whole, Pace
  <2>4. mpc # "surface"
    BY <2>1 DEF FInv, IInv, TypeOK, Positions, Buffers, None
  <2>5. buffer_post' # None
    BY <1>6 DEF post, FInv, IInv, TypeOK, Buffers, None
  <2>6. handed' - 1 = handed
    BY <1>0, <2>2
  <2>7. Left' = Left
    BY <1>1, <1>6, <2>1, <2>3, <2>4, <2>5, <2>6 DEF Left
  <2> QED
    BY <1>1, <1>6, <2>1, <2>3, <2>7 DEF FInv, Whole, Pace
<1>7. ASSUME advance, filled' = filled PROVE Pace' /\ Left' = Left
  <2>1. /\ epc = "advance" /\ epc' = "run" /\ frame' = frame
        /\ UNCHANGED <<buffer_post, mpc>>
    BY <1>7 DEF advance, mainVars
  <2>2. handed' = handed
    BY <2>1 DEF handed, Waiting
  <2>3. produced = ChunksPerFrame * frame /\ Done = produced
    BY <2>1 DEF FInv, Whole, Pace, Done
  <2> QED
    BY <1>0, <1>1, <1>7, <2>1, <2>2, <2>3 DEF FInv, Whole, Pace, Left
<1>8. ASSUME TakesFrame PROVE Pace' /\ Left' = Left
  <2>1. /\ filled /\ ~filled' /\ mpc = "loop" /\ mpc' = "surface"
        /\ UNCHANGED <<buffer_post, epc, frame>>
    BY <1>8 DEF TakesFrame, take, emulatorVars
  <2>2. handed' = handed /\ fpc = "idle"
    BY <2>1 DEF handed, FInv, Whole, Pace
  <2> QED
    BY <1>0, <1>1, <2>1, <2>2 DEF FInv, Whole, Pace, Left
<1>9. ASSUME Draws PROVE Pace' /\ Left' = Left
  <2>1. /\ filled' = filled /\ UNCHANGED <<epc, frame>>
        /\ handed' = handed
    BY <1>9 DEF Draws, nothing_posted, release, draw, drawing_fails,
                frontend_process_events, emulatorVars, handed
  <2>2. ~filled /\ fpc = "idle"
    BY <1>9 DEF Draws, nothing_posted, release, draw, drawing_fails,
                frontend_process_events, FInv, Whole, Pace, IInv, TypeOK, None,
                Buffers
  <2>3. /\ buffer_post' = buffer_post \/ (mpc = "surface" /\ buffer_post' = None)
        /\ mpc = "surface" => buffer_post' = None
        /\ mpc' # "surface"
    BY <1>9 DEF Draws, nothing_posted, release, draw, drawing_fails,
                frontend_process_events
  <2> QED
    BY <1>0, <1>1, <2>1, <2>2, <2>3 DEF FInv, Whole, Pace, Left
<1>10. ~RunsFrame /\ ~QueuesSound
  <2>1. spc' = spc /\ fpc' = fpc
    BY <1>1
  <2>2. ~RunsFrame
    BY <2>1 DEF RunsFrame, Sound!sound_process, Sound!pokey_process,
      Sound!read_write_index, Sound!mix_begins, Sound!mix_ends, Sound!store_write_index
  <2>3. ~QueuesSound
    BY <2>1 DEF QueuesSound, Sound!sound_fill_buffer, Sound!read_active, Sound!swap,
      Sound!read_size, Sound!reset, Sound!SDL_QueueAudio
  <2> QED
    BY <2>2, <2>3
<1>11. Pace' /\ Left' = Left
  BY <1>3, <1>4, <1>5, <1>6, <1>7, <1>8, <1>9, <1>10
  DEF FrontendNext, EmulatorThread, MainThread, HandsOver
<1>12. Room'
  BY <1>1, <1>11 DEF FInv, Room, Put
<1> QED
  BY <1>2, <1>11, <1>12 DEF Whole
-----------------------------------------------------------------------------
(* The theorems. *)

\* The program starts with nothing mixed, nothing queued and nothing posted.
LEMMA InitFInv == FrontendInit => FInv
<1> SUFFICES ASSUME FrontendInit PROVE FInv
  OBVIOUS
<1> USE FrontendAssumption, FrameAssumption
<1>1. IInv
  BY InitIInv DEF FrontendInit
<1>2. Types
  <2>1. 0 \in 0 .. MaxChunk /\ 0 \in 0 .. BufferChunks
    OBVIOUS
  <2> QED
    BY <2>1, EmptySeq DEF FrontendInit, Sound!Init, Types, Sound!TypeOK, Sound!Sides
<1>3. Whole
  <2>1. /\ frame = 0 /\ epc = "run" /\ buffer_post = None /\ mpc = "loop" /\ ~filled
        /\ produced = 0 /\ spc = "idle" /\ fpc = "idle" /\ heard = <<>>
        /\ active_sound_buffer = 0 /\ buffer_write_index = [b \in {0, 1} |-> 0]
    BY DEF FrontendInit, Init, Sound!Init, Sound!Sides
  <2>2. Held = 0 /\ Done = 0 /\ handed = 0 /\ Len(heard) = 0
    BY <2>1 DEF Held, Done, handed, Waiting
  <2>3. Pace
    BY <2>1, <2>2 DEF Pace
  <2>4. Sided /\ Contents
    BY <2>1, <2>2 DEF Sided, Contents
  <2>5. undone = {}
    BY DEF FrontendInit, Sound!Init
  <2> QED
    BY <2>3, <2>4, <2>5 DEF Whole
<1>4. Emptied /\ Room
  <2>1. /\ frame = 0 /\ epc = "run" /\ buffer_post = None /\ produced = 0
        /\ spc = "idle" /\ fpc = "idle" /\ active_sound_buffer = 0
        /\ buffer_write_index = [b \in {0, 1} |-> 0]
    BY DEF FrontendInit, Init, Sound!Init, Sound!Sides
  <2>2. Left = 0 /\ Put(0) = 0
    <3>1. handed = 0
      <4>1. epc \notin Waiting
        BY <2>1 DEF Waiting
      <4>2. handed = 0 - 0
        BY <2>1, <4>1 DEF handed
      <4> QED
        BY <4>2
    <3>2. Left = handed
      BY <2>1 DEF Left
    <3> QED
      BY <2>1, <3>1, <3>2 DEF Put
  <2>3. ChunksPerFrame * 0 = 0
    OBVIOUS
  <2>4. buffer_write_index[0] = 0 /\ buffer_write_index[1] = 0 /\ 1 - 0 = 1
    BY <2>1
  <2>5. Emptied
    BY <2>1, <2>4 DEF Emptied
  <2>6. Room
    BY <2>1, <2>2, <2>3, <2>4 DEF Room
  <2> QED
    BY <2>5, <2>6
<1> QED
  BY <1>1, <1>2, <1>3, <1>4 DEF FInv

\* Every step of the two threads keeps the invariant.
LEMMA NextFInv == FInv /\ [FrontendNext]_frontendVars => FInv'
<1> SUFFICES ASSUME FInv, [FrontendNext]_frontendVars PROVE FInv'
  OBVIOUS
<1>1. CASE FrontendNext
  <2>1. IInv'
    BY <1>1, FrameStep, NextIInv DEF FInv
  <2>2. Types'
    BY <1>1, TypesKept DEF FInv
  <2>3. Whole' /\ Emptied' /\ Room'
    BY <1>1, SoundStep, WholeRuns, WholeQueues, RoomRuns, RoomQueues, WholeFrames
  <2> QED
    BY <2>1, <2>2, <2>3 DEF FInv
<1>2. CASE UNCHANGED frontendVars
  <2>1. IInv'
    BY <1>2, NextIInv DEF FInv, frontendVars
  <2>2. Types'
    BY <1>2 DEF frontendVars, soundVars, FInv, Types, Sound!TypeOK
  <2>3. Whole'
    BY <1>2 DEF frontendVars, soundVars, vars, emulatorVars, mainVars, FInv, Whole,
                Pace, Sided, Contents, Held, Done, handed
  <2>4. Emptied' /\ Room'
    BY <1>2 DEF frontendVars, soundVars, vars, emulatorVars, mainVars, FInv, Emptied,
                Room, Put, Left, handed
  <2> QED
    BY <2>1, <2>2, <2>3, <2>4 DEF FInv
<1> QED
  BY <1>1, <1>2

\* The strengthened invariant holds in every reachable state.
THEOREM FrontendInvariance == FrontendSpec => []FInv
BY InitFInv, NextFInv, PTL DEF FrontendSpec

\* The chunks reach SDL whole, once and in order, unless a size was read in the
\* middle of a mix.
THEOREM SoundIsInOrder == FrontendSpec => []SoundIsWhole
<1>1. FInv => SoundIsWhole
  BY DEF FInv, Whole, Contents, SoundIsWhole
<1> QED
  BY FrontendInvariance, <1>1, PTL

\* A buffer that holds two frames of sound is never full, however the two
\* threads take turns and however often they have raced before, unless it was
\* itself last handed over in the middle of a mix: a frame of sound more than
\* the frames on their way to the screen is all that is ever outstanding.
THEOREM TwoFramesOfSoundAreEnough == FrontendSpec => []NeverFull
<1>1. FInv => NeverFull
  BY DEF FInv, Room, NeverFull
<1> QED
  BY FrontendInvariance, <1>1, PTL
=============================================================================
