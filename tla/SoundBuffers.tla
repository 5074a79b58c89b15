---------------------------- MODULE SoundBuffers ----------------------------
(***************************************************************************)
(* The double buffer of src/sound.c between the emulator thread, which     *)
(* mixes a chunk of samples into the active buffer (sound_process), and    *)
(* the main thread, which swaps the buffers and queues the full one        *)
(* (sound_fill_buffer, frontend_update_audio_stream).                      *)
(*                                                                         *)
(* The flag updating_buffer is left out: it guards nothing.  The emulator  *)
(* only looks at it before it mixes, the main thread never waits for it,   *)
(* and the build (gcc -O2 in src/Makefile) does not even store TRUE.  That *)
(* build also loads active_sound_buffer once in each function.  Each       *)
(* access to a shared variable is a step.  A chunk is the POKEY_BUFFER_SIZE*)
(* samples of one call; chunks are numbered as they are produced.          *)
(***************************************************************************)
EXTENDS Integers, Sequences

CONSTANTS
  BufferChunks,  (* SOUND_BUFFER_SIZE \div POKEY_BUFFER_SIZE *)
  MaxChunk       (* bound of the chunks that are produced    *)

Sides == {0, 1}
Noise == -1      (* samples in the middle of being written *)

VARIABLES
  active_sound_buffer,
  buffer_write_index,  (* buffer_write_index[b], in chunks                 *)
  sound_buffers,       (* sound_buffers[b][p]: the chunk at position p     *)
  produced,            (* how many chunks the emulator has produced        *)
  spc, mixing, at,     (* sound_process: where it is, the buffer and the   *)
                       (* position it has read                             *)
  fpc, current, size,  (* sound_fill_buffer: the same, and what it returns *)
  heard,               (* the chunks queued to SDL                         *)
  (* history, which no step reads: *)
  raced,               (* a size was read in the middle of a mix           *)
  undone,              (* the buffers last handed over in the middle of a  *)
                       (* mix into them                                    *)
  spoilt               (* the chunks that such a race may have cost        *)

processVars == <<produced, spc, mixing, at>>
fillVars    == <<fpc, current, size, heard>>
raceVars    == <<raced, undone, spoilt>>
vars == <<active_sound_buffer, buffer_write_index, sound_buffers,
          processVars, fillVars, raceVars>>

Init ==
  /\ active_sound_buffer = 0
  /\ buffer_write_index = [b \in Sides |-> 0]
  /\ sound_buffers = [b \in Sides |-> [p \in 0 .. BufferChunks - 1 |-> 0]]
  /\ produced = 0
  /\ spc = "idle" /\ mixing = 0 /\ at = 0
  /\ fpc = "idle" /\ current = 0 /\ size = 0
  /\ heard = <<>>
  /\ raced = FALSE /\ undone = {} /\ spoilt = {}
-----------------------------------------------------------------------------
(* sound_process, once it has the samples of a chunk. *)

pokey_process ==
  /\ spc = "idle" /\ produced < MaxChunk
  /\ produced' = produced + 1
  /\ mixing' = active_sound_buffer
  /\ spc' = "index"
  /\ UNCHANGED <<active_sound_buffer, buffer_write_index, sound_buffers, at,
                 fillVars, raceVars>>

\* With the buffer full the loop ends at once.
read_write_index ==
  /\ spc = "index"
  /\ at' = buffer_write_index[mixing]
  /\ spc' = IF at' < BufferChunks THEN "mix" ELSE "full"
  /\ UNCHANGED <<active_sound_buffer, buffer_write_index, sound_buffers, produced,
                 mixing, fillVars, raceVars>>

mix_begins ==
  /\ spc = "mix"
  /\ sound_buffers' = [sound_buffers EXCEPT ![mixing][at] = Noise]
  /\ spc' = "mixing"
  /\ UNCHANGED <<active_sound_buffer, buffer_write_index, produced, mixing, at,
                 fillVars, raceVars>>

mix_ends ==
  /\ spc = "mixing"
  /\ sound_buffers' = [sound_buffers EXCEPT ![mixing][at] = produced]
  /\ spc' = "store"
  /\ UNCHANGED <<active_sound_buffer, buffer_write_index, produced, mixing, at,
                 fillVars, raceVars>>

store_ToActive ==
  /\ spc \in {"store", "full"}
  /\ buffer_write_index' =
       [buffer_write_index EXCEPT ![active_sound_buffer] =
          IF spc = "store" THEN at + 1 ELSE at]
  /\ spc' = "idle"
  /\ spoilt' = IF spc = "full" THEN spoilt \cup {produced} ELSE spoilt
  /\ UNCHANGED <<active_sound_buffer, sound_buffers, produced, mixing, at, fillVars,
                 raced, undone>>

store_write_index ==
  /\ spc \in {"store", "full"}
  /\ buffer_write_index' =
       [buffer_write_index EXCEPT ![mixing] = IF spc = "store" THEN at + 1 ELSE at]
  /\ spc' = "idle"
  /\ spoilt' = IF spc = "full" THEN spoilt \cup {produced} ELSE spoilt
  /\ UNCHANGED <<active_sound_buffer, sound_buffers, produced, mixing, at, fillVars,
                 raced, undone>>

sound_process ==
  \/ pokey_process \/ read_write_index \/ mix_begins \/ mix_ends
  \/ store_write_index
-----------------------------------------------------------------------------
(* sound_fill_buffer, and SDL_QueueAudio of what it returns. *)

read_active ==
  /\ fpc = "idle"
  /\ current' = active_sound_buffer
  /\ fpc' = "swap"
  /\ UNCHANGED <<active_sound_buffer, buffer_write_index, sound_buffers, processVars,
                 size, heard, raceVars>>

swap ==
  /\ fpc = "swap"
  /\ active_sound_buffer' = 1 - active_sound_buffer
  /\ fpc' = "size"
  /\ UNCHANGED <<buffer_write_index, sound_buffers, processVars, current, size,
                 heard, raceVars>>

\* The buffer is handed over in the middle of a mix into it.  The chunk in the
\* making is lost when its index is stored before the reset; an index that is
\* read after the reset lets it overwrite the first chunk to be queued.
InTheMiddle == spc # "idle" /\ mixing = current

Hands ==
  /\ raced' = (raced \/ InTheMiddle)
  /\ undone' = IF InTheMiddle THEN undone \cup {current} ELSE undone \ {current}
  /\ spoilt' = IF InTheMiddle
               THEN spoilt \cup {produced, sound_buffers[current][0]} ELSE spoilt

read_size_OfActive ==
  /\ fpc = "size"
  /\ size' = buffer_write_index[active_sound_buffer]
  /\ fpc' = "reset"
  /\ Hands
  /\ UNCHANGED <<active_sound_buffer, buffer_write_index, sound_buffers, processVars,
                 current, heard>>

read_size ==
  /\ fpc = "size"
  /\ size' = buffer_write_index[current]
  /\ fpc' = "reset"
  /\ Hands
  /\ UNCHANGED <<active_sound_buffer, buffer_write_index, sound_buffers, processVars,
                 current, heard>>

reset_Forgotten ==
  /\ fpc = "reset"
  /\ fpc' = "queue"
  /\ UNCHANGED <<active_sound_buffer, buffer_write_index, sound_buffers, processVars,
                 current, size, heard, raceVars>>

reset ==
  /\ fpc = "reset"
  /\ buffer_write_index' = [buffer_write_index EXCEPT ![current] = 0]
  /\ fpc' = "queue"
  /\ UNCHANGED <<active_sound_buffer, sound_buffers, processVars, current, size,
                 heard, raceVars>>

SDL_QueueAudio ==
  /\ fpc = "queue"
  /\ heard' = heard \o [i \in 1 .. size |-> sound_buffers[current][i - 1]]
  /\ fpc' = "idle"
  /\ UNCHANGED <<active_sound_buffer, buffer_write_index, sound_buffers, processVars,
                 current, size, raceVars>>

sound_fill_buffer ==
  read_active \/ swap \/ read_size \/ reset \/ SDL_QueueAudio

Next == sound_process \/ sound_fill_buffer

Spec == Init /\ [][Next]_vars
-----------------------------------------------------------------------------
(* Properties *)

TypeOK ==
  /\ active_sound_buffer \in Sides
  /\ buffer_write_index \in [Sides -> 0 .. BufferChunks]
  /\ sound_buffers \in [Sides -> [0 .. BufferChunks - 1 -> 0 .. MaxChunk \cup {Noise}]]
  /\ produced \in 0 .. MaxChunk
  /\ spc \in {"idle", "index", "mix", "full", "mixing", "store"}
  /\ mixing \in Sides /\ at \in 0 .. BufferChunks
  /\ spc \in {"mix", "mixing", "store"} => at < BufferChunks
  /\ fpc \in {"idle", "swap", "size", "reset", "queue"}
  /\ current \in Sides /\ size \in 0 .. BufferChunks
  /\ raced \in BOOLEAN /\ undone \subseteq Sides
  /\ spoilt \subseteq (0 .. MaxChunk \cup {Noise})
=============================================================================
