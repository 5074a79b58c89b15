---------------------------- MODULE ScreenBuffers ---------------------------
(***************************************************************************)
(* The frame buffers of src/frontend/linux/frontend.c.  The emulator       *)
(* thread copies each frame into screen_buffers[buffer_next] and posts it; *)
(* the main thread takes the posted buffer and draws it.  buffer_next and  *)
(* buffer_post are plain ints with no lock, each access is a step.  The    *)
(* main thread gives the post back as soon as it has a surface that points *)
(* into the buffer, before the texture has been made from those pixels.    *)
(***************************************************************************)
EXTENDS Integers

CONSTANTS
  MaxBuffers,  (* MAX_BUFFERS                            *)
  MaxFrame     (* bound of the frames that are emulated  *)

\* With two buffers the emulator would draw into the one on its way to the
\* screen.
ASSUME BuffersAssumption == MaxBuffers \in Nat /\ MaxBuffers >= 3
ASSUME FrameAssumption == MaxFrame \in Nat

Buffers == 0 .. MaxBuffers - 1


Torn    == -1    (* a buffer in the middle of memcpy *)
None    == -1    (* no buffer is posted *)

VARIABLES
  buffer_next,    (* the buffer the emulator draws into                    *)
  buffer_post,    (* the buffer that waits for the screen, or None         *)
  screen_buffers, (* the frame in each buffer, 0 at the start, or Torn     *)
  frame,          (* the frame the emulator has last computed              *)
  surface,        (* the buffer the surface of the main thread points into *)
  shown,          (* the frame of the last texture                         *)
  closed,         (* the window has been closed                            *)
  epc, mpc        (* where the two threads are                             *)

emulatorVars == <<buffer_next, screen_buffers, frame, epc>>
mainVars     == <<surface, shown, closed, mpc>>
vars         == <<emulatorVars, buffer_post, mainVars>>

Init ==
  /\ buffer_next = 0
  /\ buffer_post = None
  /\ screen_buffers = [b \in Buffers |-> 0]
  /\ frame = 0
  /\ surface = 0
  /\ shown = 0
  /\ closed = FALSE
  /\ epc = "run" /\ mpc = "loop"
\* The emulator has a frame it has not posted yet; the main thread has a
\* surface.
Waiting == {"wait_next", "copying", "wait_post"}
Drawing == {"surface", "texture"}
-----------------------------------------------------------------------------
(* The emulator thread: compy_run, with frontend_update_screen. *)

compy_run_frame ==
  /\ epc = "run" /\ ~closed /\ frame < MaxFrame
  /\ frame' = frame + 1
  /\ epc' = "wait_next"
  /\ UNCHANGED <<buffer_next, screen_buffers, buffer_post, mainVars>>

\* The thread function returns once the window is closed.
thread_ends ==
  /\ epc = "run" /\ closed
  /\ epc' = "ended"
  /\ UNCHANGED <<buffer_next, screen_buffers, frame, buffer_post, mainVars>>

memcpy_begins ==
  /\ epc = "wait_next" /\ buffer_next # buffer_post
  /\ screen_buffers' = [screen_buffers EXCEPT ![buffer_next] = Torn]
  /\ epc' = "copying"
  /\ UNCHANGED <<buffer_next, frame, buffer_post, mainVars>>

memcpy_ends ==
  /\ epc = "copying"
  /\ screen_buffers' = [screen_buffers EXCEPT ![buffer_next] = frame]
  /\ epc' = "wait_post"
  /\ UNCHANGED <<buffer_next, frame, buffer_post, mainVars>>

post_WithoutWait ==
  /\ epc = "wait_post"
  /\ buffer_post' = buffer_next
  /\ epc' = "advance"
  /\ UNCHANGED <<buffer_next, screen_buffers, frame, mainVars>>

\* buffer_post = buffer_next, once no buffer is posted.
post ==
  /\ epc = "wait_post" /\ buffer_post < 0
  /\ buffer_post' = buffer_next
  /\ epc' = "advance"
  /\ UNCHANGED <<buffer_next, screen_buffers, frame, mainVars>>

(* A mutant of advance. *)
advance_OneShort ==
  /\ epc = "advance"
  /\ buffer_next' = IF buffer_next + 1 = MaxBuffers - 1 THEN 0 ELSE buffer_next + 1
  /\ epc' = "run"
  /\ UNCHANGED <<screen_buffers, frame, buffer_post, mainVars>>

\* buffer_next++, back to 0 at MAX_BUFFERS.
advance ==
  /\ epc = "advance"
  /\ buffer_next' = IF buffer_next + 1 = MaxBuffers THEN 0 ELSE buffer_next + 1
  /\ epc' = "run"
  /\ UNCHANGED <<screen_buffers, frame, buffer_post, mainVars>>

Emulator ==
  \/ compy_run_frame \/ thread_ends \/ memcpy_begins \/ memcpy_ends
  \/ post \/ advance
-----------------------------------------------------------------------------
(* The main thread: the loop of main, with update_screen. *)

\* The buffer is posted: a surface is made that points into it.
take ==
  /\ mpc = "loop" /\ ~closed /\ buffer_post >= 0
  /\ surface' = buffer_post
  /\ mpc' = "surface"
  /\ UNCHANGED <<shown, closed, emulatorVars, buffer_post>>

\* Nothing is posted: the loop goes on to the events.
nothing_posted ==
  /\ mpc = "loop" /\ ~closed /\ buffer_post < 0
  /\ mpc' = "events"
  /\ UNCHANGED <<surface, shown, closed, emulatorVars, buffer_post>>

release_Forgotten ==
  /\ mpc = "surface"
  /\ mpc' = "texture"
  /\ UNCHANGED <<buffer_post, surface, shown, closed, emulatorVars>>

\* The post is given back; without a surface nothing is drawn.
release ==
  /\ mpc = "surface"
  /\ buffer_post' = None
  /\ mpc' = "texture"
  /\ UNCHANGED <<surface, shown, closed, emulatorVars>>

\* The texture is made from the pixels, and rendered.
draw ==
  /\ mpc = "texture"
  /\ shown' = screen_buffers[surface]
  /\ mpc' = "events"
  /\ UNCHANGED <<surface, closed, emulatorVars, buffer_post>>

\* SDL makes no surface, or no texture: update_screen returns.
drawing_fails ==
  /\ mpc = "texture"
  /\ mpc' = "events"
  /\ UNCHANGED <<surface, shown, closed, emulatorVars, buffer_post>>

frontend_process_events ==
  /\ mpc = "events"
  /\ closed' \in BOOLEAN
  /\ mpc' = IF closed' THEN "done" ELSE "loop"
  /\ UNCHANGED <<surface, shown, emulatorVars, buffer_post>>

Main ==
  \/ take \/ nothing_posted \/ release \/ draw \/ drawing_fails
  \/ frontend_process_events

\* When main has freed the buffers and returned, the process ends.
Next == mpc # "done" /\ (Emulator \/ Main)

Spec == Init /\ [][Next]_vars

\* Both threads are scheduled.
FairSpec == Spec /\ WF_vars(mpc # "done" /\ Emulator) /\ WF_vars(Main)
-----------------------------------------------------------------------------
(* Properties *)

TypeOK ==
  /\ buffer_next \in Buffers
  /\ buffer_post \in Buffers \cup {None}
  /\ screen_buffers \in [Buffers -> 0 .. MaxFrame \cup {Torn}]
  /\ frame \in 0 .. MaxFrame
  /\ surface \in Buffers
  /\ shown \in 0 .. MaxFrame
  /\ closed \in BOOLEAN
  /\ epc \in {"run", "wait_next", "copying", "wait_post", "advance", "ended"}
  /\ mpc \in {"loop", "surface", "texture", "events", "done"}

\* The pixels the main thread still has to draw are not written by the
\* emulator thread, although the buffer was given back before it was drawn.
NeverTorn ==
  mpc \in Drawing =>
    ~(surface = buffer_next /\ epc \in Waiting)

\* The emulator never waits for a frame that waits for the emulator: a posted
\* buffer is whole, and is not the one that is drawn into.
PostedIsWhole ==
  buffer_post # None =>
    /\ screen_buffers[buffer_post] \in 1 .. MaxFrame
    /\ epc # "advance" => buffer_post # buffer_next

\* Each frame that is posted is drawn whole, once and in order: `handed` and
\* `taken` count the frames posted, and those the main thread is done with.
handed == frame - (IF epc \in Waiting THEN 1 ELSE 0)
taken  == handed - (IF mpc \in Drawing THEN 1 ELSE 0)
                 - (IF buffer_post # None /\ mpc # "surface" THEN 1 ELSE 0)
Video == INSTANCE VideoOut
ShowsEveryFrame == Video!Spec

\* The emulator gets rid of a frame it has computed, unless the window is
\* closed first: the waits of the two threads never hold each other up.
EmulatorIsNeverHeldUp == (epc = "wait_next") ~> (epc = "advance" \/ closed)
=============================================================================
