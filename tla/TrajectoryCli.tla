---------------------------- MODULE TrajectoryCli ----------------------------
(***************************************************************************)
(* trajectory_cli: a menu read by an input thread, and a 50 Hz loop on the *)
(* main thread that publishes the command of whatever is running.  The two *)
(* share global variables: four atomic flags and plain variables.  The     *)
(* mutex is taken by the input thread only, so it orders nothing.          *)
(*                                                                         *)
(* One step per access to a shared variable, in program order.  A menu     *)
(* command is a program: the sequence of its stores.  The main thread is a *)
(* program counter, named for what it does next.                           *)
(*                                                                         *)
(* A position has two coordinates, x and the rest, that are written and    *)
(* read one after the other; the coordinates of the place p are both       *)
(* called p.  run_goto, which nothing reads, start_t and the gains, which  *)
(* the main thread does not read, are left out.                            *)
(***************************************************************************)
EXTENDS Integers, Sequences

CONSTANTS Places,          \* where the vehicle can be
          First, Second,   \* the two points of a goto sequence
          DwellTime,       \* target_dwell_seconds, in ticks
          MenuCommands     \* the commands that are entered

(* Where px, py, pz start, and the command that nobody filled in; and, to *)
(* tell them from a position, where the center and the hold point start.  *)
Zero == "origin"
Unset  == "unset"

(* What the parameters must satisfy (an assumption of the instances).     *)
CliAssumption ==
  /\ First \in Places /\ Second \in Places \cup {Zero}
  /\ Unset \notin Places /\ Second # Unset
  /\ DwellTime \in Nat \ {0}
  /\ MenuCommands \subseteq {"circle", "goto", "stop", "quit"}

VARIABLES
  mem,         \* the shared variables
  input,       \* the stores the input thread still has to do
  listening,   \* the input thread has not ended
  main,        \* what the main thread does next
  cmd,         \* the command it is filling in
  published    \* the last command it published

cliVars == <<mem, input, listening, main, cmd, published>>

Coordinate == Places \cup {Zero, Unset}

Empty == [kind |-> "empty", x |-> Zero, y |-> Zero]

Points(kind, p) == [kind |-> kind, x |-> p, y |-> p]

(* dwell is the age of dwell_start_t; 0.0 is long ago.                    *)
CliInit ==
  /\ mem = [run_circle |-> FALSE, run_goto_seq |-> FALSE, stop_req |-> FALSE,
            goto_stage |-> 0, dwell |-> DwellTime,
            cx |-> Unset, cy |-> Unset, px |-> Zero, py |-> Zero,
            stop_hold_x |-> Unset, stop_hold_y |-> Unset, stop_hold_set |-> FALSE]
  /\ input = <<>> /\ listening = TRUE
  /\ main = "circle?"
  /\ cmd = Empty
  /\ published = [kind |-> "none", x |-> Zero, y |-> Zero]

-----------------------------------------------------------------------------
(* The input thread.                                                      *)

Set(v, b)  == [to |-> v, op |-> "set", val |-> b]
Copy(v, w) == [to |-> v, op |-> "copy", val |-> w]

(* Mutant: the flag is raised before the center is known.                 *)
CircleUnordered ==
  <<Set("run_circle", TRUE), Copy("cx", "px"), Copy("cy", "py"),
    Set("stop_req", FALSE), Set("stop_hold_set", FALSE)>>

Circle ==
  <<Copy("cx", "px"), Copy("cy", "py"), Set("run_circle", TRUE),
    Set("stop_req", FALSE), Set("stop_hold_set", FALSE)>>

Stop ==
  <<Set("run_circle", FALSE), Copy("stop_hold_x", "px"), Copy("stop_hold_y", "py"),
    Set("stop_hold_set", TRUE), Set("stop_req", TRUE)>>

Goto ==
  <<Set("run_goto_seq", TRUE), Set("goto_stage", 0), Set("dwell", DwellTime),
    Set("run_circle", FALSE), Set("stop_req", FALSE), Set("stop_hold_set", FALSE)>>

Quit == <<Set("run_circle", FALSE), Set("stop_req", FALSE)>>

Program(c) == CASE c = "circle" -> Circle
                [] c = "stop"   -> Stop
                [] c = "goto"   -> Goto
                [] c = "quit"   -> Quit

Idle == input = <<>>

(* getline returns a command.                                             *)
Enter(c) == /\ Idle /\ listening
            /\ input' = Program(c)
            /\ listening' = (c # "quit")
            /\ UNCHANGED <<mem, main, cmd, published>>

(* getline fails: the thread ends and clears nothing.                     *)
EndOfInput == /\ Idle /\ listening /\ listening' = FALSE
              /\ UNCHANGED <<mem, input, main, cmd, published>>

InputStep ==
  /\ ~Idle
  /\ LET s == Head(input)
     IN  mem' = [mem EXCEPT ![s.to] = IF s.op = "copy" THEN mem[s.val] ELSE s.val]
  /\ input' = Tail(input)
  /\ UNCHANGED <<listening, main, cmd, published>>

-----------------------------------------------------------------------------
(* The main thread.  Each test of a shared variable is a load of its own. *)

Jump(from, to) == /\ main = from /\ main' = to
                  /\ UNCHANGED <<input, listening>>

Test(from, holds, then, else) ==
  /\ Jump(from, IF holds THEN then ELSE else)
  /\ UNCHANGED <<mem, cmd, published>>

Fill(from, to, c) == /\ Jump(from, to)
                     /\ cmd' = c
                     /\ UNCHANGED <<mem, published>>

Write(from, to, v, val) == /\ Jump(from, to)
                           /\ mem' = [mem EXCEPT ![v] = val]
                           /\ UNCHANGED <<cmd, published>>

(* What to command: a circle before a sequence before a stop.             *)
Choose ==
  \/ Fill("circle?", IF mem.run_circle THEN "center x" ELSE "sequence?", Empty)
  \/ Test("sequence?", mem.run_goto_seq, "stage 0?", "stop?")
  \/ Test("stop?", mem.stop_req, "held?", "publish? circle")

CommandCircle ==
  \/ Fill("center x", "center y", [Points("circle", Unset) EXCEPT !.x = mem.cx])
  \/ Fill("center y", "publish? circle", [cmd EXCEPT !.y = mem.cy])

(* The first point until it is reached, then for the dwell time, then the *)
(* second.  The position is the main thread's own.                        *)
Near(p) == mem.px = p /\ mem.py = p

CommandFirst ==
  /\ mem.goto_stage = 0
  /\ Fill("stage 0?", IF Near(First) THEN "arrive" ELSE "publish? circle",
          Points("goto", First))

Arrive ==
  \/ Write("arrive", "stamp", "goto_stage", 1)
  \/ Write("stamp", "publish? circle", "dwell", 0)

CommandDwell ==
  \/ mem.goto_stage # 0 /\ Test("stage 0?", TRUE, "stage 1?", "stage 1?")
  \/ mem.goto_stage = 1 /\ Fill("stage 1?", "dwell?", Points("goto", First))
  \/ Test("dwell?", mem.dwell >= DwellTime, "advance", "publish? circle")

(* Mutant: the stage is written again, not advanced.                      *)
AdvanceNot == Write("advance", "publish? circle", "goto_stage", 1)

Advance == Write("advance", "publish? circle", "goto_stage", 2)

CommandSecond ==
  /\ mem.goto_stage # 1
  /\ Fill("stage 1?", "publish? circle", Points("goto", Second))

(* A stop without a hold point takes one.                                 *)
Capture ==
  \/ Test("held?", mem.stop_hold_set, "hold x", "capture x")
  \/ Write("capture x", "capture y", "stop_hold_x", mem.px)
  \/ Write("capture y", "capture", "stop_hold_y", mem.py)
  \/ Write("capture", "hold x", "stop_hold_set", TRUE)

CommandHold ==
  \/ Fill("hold x", "hold y", [Points("hold", Unset) EXCEPT !.x = mem.stop_hold_x])
  \/ Fill("hold y", "publish? circle", [cmd EXCEPT !.y = mem.stop_hold_y])

(* The flags are loaded again before the command is published.            *)
(* RecheckMoving is a mutant that forgets stop_req.                       *)
RecheckMoving ==
  \/ Test("publish? circle", mem.run_circle, "publish", "publish? sequence")
  \/ Test("publish? sequence", mem.run_goto_seq, "publish", "spin")

Recheck ==
  \/ Test("publish? circle", mem.run_circle, "publish", "publish? sequence")
  \/ Test("publish? sequence", mem.run_goto_seq, "publish", "publish? stop")
  \/ Test("publish? stop", mem.stop_req, "publish", "spin")

Publish == /\ Jump("publish", "spin")
           /\ published' = cmd
           /\ UNCHANGED <<mem, cmd>>

(* spinOnce: odom_cb, which stores one coordinate after the other, any    *)
(* number of times.                                                       *)
odom_cb(p) == Write("spin", "odom y", "px", p)

OdomRest == Write("odom y", "spin", "py", mem.px)

Sleep == Test("spin", TRUE, "circle?", "circle?")

MainStep == \/ Choose \/ CommandCircle \/ CommandFirst \/ Arrive \/ CommandDwell
            \/ Advance \/ CommandSecond \/ Capture \/ CommandHold \/ Recheck
            \/ Publish \/ OdomRest \/ Sleep

CliTick == /\ mem.dwell < DwellTime
           /\ mem' = [mem EXCEPT !.dwell = @ + 1]
           /\ UNCHANGED <<input, listening, main, cmd, published>>

CliNext == \/ \E c \in MenuCommands : Enter(c)
           \/ InputStep
           \/ EndOfInput
           \/ MainStep
           \/ \E p \in Places : odom_cb(p)
           \/ CliTick

(* Both threads run on: the main loop waits for nothing, spinOnce returns *)
(* (it calls what is queued when it starts), a menu command that was      *)
(* entered is carried out, and time passes.                               *)
CliFairness == /\ WF_cliVars(MainStep) /\ SF_cliVars(Sleep)
               /\ WF_cliVars(InputStep)
               /\ WF_cliVars(CliTick)

CliSpec == CliInit /\ [][CliNext]_cliVars

FairCliSpec == CliSpec /\ CliFairness

-----------------------------------------------------------------------------
(* Properties.                                                            *)

(* A flag is raised after the data it announces: no command is computed   *)
(* from a center or a hold point that was never stored, at whatever point *)
(* of a menu command the main thread looks.                               *)
CommandsInitialised ==
  main \notin {"center y", "hold y"} => Unset \notin {cmd.x, cmd.y}

-----------------------------------------------------------------------------
(* Liveness, once the pilot has stopped typing.                           *)

(* A stop that no sequence overrides ends with the hold point, the same   *)
(* one from then on, whatever was published when the stop came.           *)
StopHolds ==
  <>[](Idle /\ mem.stop_req /\ ~mem.run_circle /\ ~mem.run_goto_seq)
    => <>[](published = [kind |-> "hold", x |-> mem.stop_hold_x, y |-> mem.stop_hold_y])

(* A sequence whose first point has been reached goes on to the second.   *)
SequenceCompletes ==
  <>[](Idle /\ mem.run_goto_seq /\ ~mem.run_circle /\ Near(First))
    => <>[](published = Points("goto", Second))
=============================================================================
