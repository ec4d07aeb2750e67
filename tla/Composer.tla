------------------------------ MODULE Composer ------------------------------
(***************************************************************************)
(* The hardware composer, SecHWC.cpp: hwc_prepare gives the one overlay    *)
(* window (NUM_OF_WIN is 1) to a layer of the list and hwc_set scales that *)
(* layer's buffer into the next of the window's buffers and shows it.      *)
(* The window lies below the framebuffer, which GLES draws; pixels that    *)
(* are not erased there hide it.  SurfaceFlinger calls prepare and set in  *)
(* turn, changes the list, latches new buffers of its layers and turns the *)
(* screen off; any device call may fail.                                   *)
(***************************************************************************)
EXTENDS Integers, Sequences, FiniteSetsExt

CONSTANTS NUM_OF_WIN_BUF,  \* 3
          Layers,          \* identities of the layers
          Places,          \* rectangles that a layer's frame may have on the screen
          Nowhere,         \* the empty rectangle, and "not fit for the window"
          Lists            \* the lists of layers that SurfaceFlinger may pass

ASSUME ComposerAssumption ==
  /\ NUM_OF_WIN_BUF \in Nat /\ NUM_OF_WIN_BUF > 1
  /\ Nowhere \notin Places
  /\ Lists \subseteq Seq([layer : Layers, frame : Places \cup {Nowhere}])

VARIABLES
  handle,   \* which of its two buffers each layer shows
  phase,    \* "idle", "prepared", "blank"
  done,     \* the last thing that happened is a set that returned 0
  win,      \* hwc_win_info_t: rect_info, buf_index, power_state, set_win_flag,
            \* layer (of layer_index), layer_prev_buf
  num_of_hwc_layer, num_of_fb_layer, num_of_fb_layer_prev,
  lcd,      \* the hardware: where the window is (pos), the buffer it scans out
            \* (pan) and what that holds (front; the others are written again
            \* before they are shown), whether the framebuffer has pixels (drawn)
  ghost     \* what explains a wrong screen, see the properties

counts == <<num_of_hwc_layer, num_of_fb_layer, num_of_fb_layer_prev>>
composerVars == <<handle, phase, done, win, counts, lcd, ghost>>

NoBuf == <<>>
Old == <<>>  \* the content of a buffer that is no layer's present frame

-----------------------------------------------------------------------------
(* The device is open and its window, still off, covers the screen. *)
ComposerInit ==
  /\ phase = "idle" /\ done = FALSE
  /\ handle = [l \in Layers |-> 0]
  /\ \E full \in Places :
       /\ win = [rect_info |-> full, buf_index |-> 0, power_state |-> 0,
                 set_win_flag |-> 0, layer |-> Nowhere, layer_prev_buf |-> NoBuf]
       /\ lcd = [pos |-> full, pan |-> 0, front |-> Old, drawn |-> FALSE]
  /\ num_of_hwc_layer = 0 /\ num_of_fb_layer = 0 /\ num_of_fb_layer_prev = 0
  /\ ghost = [latched |-> 0, panFailed |-> FALSE,
              misplaced |-> FALSE, forgotten |-> FALSE, swapped |-> FALSE,
              stuck |-> FALSE, repeated |-> FALSE]

-----------------------------------------------------------------------------
(* A layer goes on to its next buffer, in which there is a new frame. *)
Latch(l) ==
  /\ phase \in {"idle", "blank"}
  /\ handle' = [handle EXCEPT ![l] = 1 - @]
  /\ lcd' = [lcd EXCEPT !.front = IF @ # Old /\ @[1] = l THEN Old ELSE @]
  /\ ghost' = [ghost EXCEPT !.latched =
                  IF win.layer_prev_buf # NoBuf /\ win.layer_prev_buf[1] = l THEN Min({@ + 1, 2}) ELSE @]
  /\ done' = FALSE
  /\ UNCHANGED <<phase, win, counts>>

-----------------------------------------------------------------------------
(* Deviation for the mutation runs: a new position does not ask for a new buffer. *)
AssignedNoSwap(w, l) ==
  [w EXCEPT !.layer = l.layer, !.rect_info = l.frame,
            !.set_win_flag = IF w.rect_info # l.frame THEN 1 ELSE 0]

(* assign_overlay_window. *)
Assigned(w, l) ==
  IF w.rect_info # l.frame
  THEN [w EXCEPT !.layer = l.layer, !.rect_info = l.frame,
                 !.set_win_flag = 1, !.layer_prev_buf = NoBuf]
  ELSE [w EXCEPT !.layer = l.layer, !.set_win_flag = 0]

hwc_prepare_same ==
  /\ phase = "idle"
  /\ phase' = "prepared" /\ done' = FALSE
  /\ UNCHANGED <<handle, win, counts, lcd, ghost>>

(* The list has HWC_GEOMETRY_CHANGED: the first layer that fits gets the
   window; if there is none the window is turned off. *)
hwc_prepare_geometry(list) ==
  /\ phase = "idle"
  /\ phase' = "prepared" /\ done' = FALSE
  /\ LET fit == {i \in DOMAIN list : list[i].frame # Nowhere}
         free == [win EXCEPT !.buf_index = 0]
     IN  \/ /\ fit # {}
            /\ win' = Assigned(free, list[Min(fit)])
            /\ num_of_hwc_layer' = 1
            /\ num_of_fb_layer' = Len(list) - 1
            /\ ghost' = [ghost EXCEPT
                           !.swapped = FALSE,
                           !.misplaced = @ \/ win.set_win_flag > win'.set_win_flag]
         \/ /\ fit = {}
            /\ \E power \in {0, win.power_state} :  \* window_hide may fail
                 /\ win' = [free EXCEPT !.rect_info = Nowhere, !.power_state = power]
                 /\ ghost' = [ghost EXCEPT !.swapped = FALSE, !.stuck = power = 1]
            /\ num_of_hwc_layer' = 0
            /\ num_of_fb_layer' = Len(list)
  /\ UNCHANGED <<handle, num_of_fb_layer_prev, lcd>>

-----------------------------------------------------------------------------
(* hwc_set. *)

(* Deviation for the mutation runs: a single layer is not erased. *)
ErasesTwo == num_of_hwc_layer > 0 /\ num_of_fb_layer = 0 /\ num_of_fb_layer_prev > 1

Erases == num_of_hwc_layer > 0 /\ num_of_fb_layer = 0 /\ num_of_fb_layer_prev > 0

Swaps == num_of_fb_layer > 0 \/ Erases

SwapFails ==
  /\ phase = "prepared" /\ Swaps
  /\ phase' = "idle" /\ done' = FALSE
  /\ num_of_fb_layer_prev' = num_of_fb_layer
  /\ ghost' = [ghost EXCEPT !.forgotten = @ \/ Erases]
  /\ UNCHANGED <<handle, win, num_of_hwc_layer, num_of_fb_layer, lcd>>

(* The framebuffer after the swap: the layers drawn by GLES, or erased. *)
Drawn == IF Swaps THEN num_of_fb_layer > 0 ELSE lcd.drawn

(* Whether the next set can still know that there are pixels to erase. *)
Forgotten ==
  IF Swaps THEN FALSE
  ELSE ghost.forgotten \/ (num_of_hwc_layer = 0 /\ num_of_fb_layer_prev > 0)

Frame == <<win.layer, win.rect_info>>
Handle == <<win.layer, handle[win.layer]>>

(* No window to fill. *)
SetWithoutWindow ==
  /\ phase = "prepared" /\ num_of_hwc_layer = 0
  /\ phase' = "idle" /\ done' = TRUE
  /\ num_of_fb_layer_prev' = num_of_fb_layer
  /\ lcd' = [lcd EXCEPT !.drawn = Drawn]
  /\ ghost' = [ghost EXCEPT !.forgotten = Forgotten]
  /\ UNCHANGED <<handle, win, num_of_hwc_layer, num_of_fb_layer>>

(* The scaler fails, or window_set_pos in one of its calls, which turn the window
   off, set its size and its position: the window is skipped and turned off. *)
SetSkips(failing) ==
  /\ phase = "prepared" /\ num_of_hwc_layer = 1
  /\ phase' = "idle" /\ done' = TRUE
  /\ num_of_fb_layer_prev' = num_of_fb_layer
  /\ failing # "blit" => win.set_win_flag = 1
  /\ failing = "off" => win.power_state = 1
  /\ \E power \in IF failing \in {"blit", "off"} THEN {0, win.power_state} ELSE {0} :
       /\ win' = [win EXCEPT !.power_state = power]
       /\ ghost' = [ghost EXCEPT !.forgotten = Forgotten, !.stuck = power = 1]
  /\ lcd' = [lcd EXCEPT
               !.drawn = Drawn,
               !.front = IF failing # "blit" /\ win.buf_index = lcd.pan THEN Frame ELSE @,
               !.pos = IF failing = "position" THEN Nowhere ELSE @]
  /\ UNCHANGED <<handle, num_of_hwc_layer, num_of_fb_layer>>

(* window_set_pos, when prepare has changed the rectangle. *)
Placed(w) == IF w.set_win_flag = 1 THEN [w EXCEPT !.power_state = 0, !.set_win_flag = 0] ELSE w

(* Deviation for the mutation runs: always the same buffer. *)
PannedInPlace(w) ==
  IF w.layer_prev_buf = Handle THEN w ELSE [w EXCEPT !.layer_prev_buf = Handle]

(* Another buffer than last time is swapped to the front. *)
Panned(w) ==
  IF w.layer_prev_buf = Handle THEN w
  ELSE [w EXCEPT !.layer_prev_buf = Handle, !.buf_index = (@ + 1) % NUM_OF_WIN_BUF]

(* The window is filled; FBIOPAN_DISPLAY and the final window_show may fail. *)
SetComposes(pans, shows) ==
  /\ phase = "prepared" /\ num_of_hwc_layer = 1
  /\ phase' = "idle" /\ done' = TRUE
  /\ num_of_fb_layer_prev' = num_of_fb_layer
  /\ LET swap == win.layer_prev_buf # Handle
         panned == Panned(Placed(win))
         pan == IF swap /\ pans THEN win.buf_index ELSE lcd.pan
     IN  /\ win' = [panned EXCEPT !.power_state = IF shows THEN 1 ELSE @]
         /\ lcd' = [lcd EXCEPT
                      !.drawn = Drawn,
                      !.front = IF win.buf_index = pan THEN Frame ELSE @,
                      !.pos = IF win.set_win_flag = 1 THEN win.rect_info ELSE @,
                      !.pan = pan]
         /\ ghost' = [ghost EXCEPT
                        !.forgotten = Forgotten,
                        !.latched = 0,
                        !.misplaced = @ /\ win.set_win_flag = 0,
                        !.panFailed = IF swap THEN ~pans ELSE @,
                        !.swapped = @ \/ swap,
                        !.repeated = ~swap /\ (@ \/ ghost.latched > 1),
                        !.stuck = FALSE]
  /\ UNCHANGED <<handle, num_of_hwc_layer, num_of_fb_layer>>

-----------------------------------------------------------------------------
(* hwc_blank, and hwc_set without a list: the screen goes off. *)
hwc_blank ==
  /\ phase = "idle" /\ phase' = "blank" /\ done' = FALSE
  /\ num_of_fb_layer_prev' = 0
  /\ ghost' = [ghost EXCEPT !.forgotten = @ \/ num_of_fb_layer_prev > 0]
  /\ UNCHANGED <<handle, win, num_of_hwc_layer, num_of_fb_layer, lcd>>

Unblank ==
  /\ phase = "blank" /\ phase' = "idle" /\ done' = FALSE
  /\ UNCHANGED <<handle, win, counts, lcd, ghost>>

ComposerNext ==
  \/ \E l \in Layers : Latch(l)
  \/ hwc_prepare_same
  \/ \E list \in Lists : hwc_prepare_geometry(list)
  \/ SwapFails
  \/ SetWithoutWindow
  \/ \E failing \in {"blit", "off", "size", "position"} : SetSkips(failing)
  \/ \E pans, shows \in BOOLEAN : SetComposes(pans, shows)
  \/ hwc_blank
  \/ Unblank

ComposerSpec == ComposerInit /\ [][ComposerNext]_composerVars

-----------------------------------------------------------------------------
(* The window is on because its layer was composed, not because it could not be
   turned off. *)
Showing == done /\ win.power_state = 1 /\ ~ghost.stuck

(* After a set that returned 0, a window that is on has a layer, shows that
   layer's present frame at its size, and is where the layer is, whatever failed
   since.  Excepted are a pan that failed, which hwc_set does not look at; a layer
   that had latched more than once between two sets, so that its buffer is the
   old one again although the frame is new; and a prepare that finds the same
   rectangle again, which drops the request for the position of one whose set did
   not place the window.
   SecHWC.cpp:328 "we need to erase the frame-buffer when switching to
   all-overlay mode": no pixels of the framebuffer hide the window then, unless
   the screen was blanked, a list was empty or a swap failed in between, each of
   which makes num_of_fb_layer_prev forget them. *)
FrameShown ==
  /\ Showing => /\ num_of_hwc_layer = 1
                /\ \/ lcd.front = Frame
                   \/ ghost.panFailed
                   \/ ghost.repeated
                /\ lcd.pos = win.rect_info \/ ghost.misplaced
  /\ done /\ num_of_hwc_layer = 1 /\ num_of_fb_layer = 0 => ~lcd.drawn \/ ghost.forgotten

(* hwc_set draws a frame into the buffer that the window scans out in two cases only:
   the last pan has failed, which window_pan_display's caller does not notice; or a
   geometry change has set buf_index back to 0 (SecHWC.cpp 237) while buffer 0 is on
   the screen, and no new buffer has been swapped in since.  The first swap after
   either ends it.  A change of crop or transform alone, for which the code neither
   swaps nor resets anything (409), is not in the model. *)
NoTearing ==
  phase = "prepared" /\ num_of_hwc_layer = 1 /\ win.buf_index = lcd.pan
    => ghost.panFailed \/ (~ghost.swapped /\ win.buf_index = 0)
=============================================================================
