---------------------------- MODULE AtomicWorld ----------------------------
(***************************************************************************)
(* What the world server promises about a tick: one frame of inputs is     *)
(* taken per tick, and the world changes by whole frames only.  All the    *)
(* inputs of a frame take effect in the order they were queued, or none.   *)
(***************************************************************************)
EXTENDS WorldInputs

VARIABLES
  world,
  tick,
  open,     \* a frame has been taken and not been settled
  inputs    \* the inputs of that frame

Init ==
  /\ world = InitialWorld
  /\ tick = 0
  /\ open = FALSE
  /\ inputs = <<>>

\* The worlds after the first n inputs of a frame, and after all of them.
afterInputs(w, f, now) ==
  LET after[n \in 0..Len(f)] == IF n = 0 THEN w ELSE applyInput(after[n - 1], f[n], now)
  IN after
afterFrame(w, f, now) == decay(afterInputs(w, f, now)[Len(f)])

\* A tick passes: its frame is dropped or opened.
Tick ==
  /\ ~open
  /\ tick' = tick + 1
  /\ UNCHANGED world
  /\ \/ open' = FALSE /\ inputs' = <<>>
     \/ open' = TRUE /\ inputs' \in Seq(Input)

Settle ==
  /\ open
  /\ open' = FALSE /\ inputs' = <<>>
  /\ UNCHANGED tick
  /\ world' \in {world, afterFrame(world, inputs, tick)}

Spec == Init /\ [][Tick \/ Settle]_<<world, tick, open, inputs>>
=============================================================================
