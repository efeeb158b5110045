--------------------------- MODULE EgoStack_proofs ---------------------------
(***************************************************************************)
(* Theorems about the offboard nodes: the controller alone (EgoControl),   *)
(* for every set of places and every order of its callbacks; the CLI alone *)
(* (TrajectoryCli), whatever the order of the accesses of its two threads; *)
(* and the stack of the two (EgoStack), which is shown to be a controller  *)
(* and a CLI, so that what holds of them holds in it.                      *)
(***************************************************************************)
EXTENDS EgoStack, TLAPS

-----------------------------------------------------------------------------
(* The invariant.                                                         *)

LEMMA EgoInitially == EgoInit => EgoInv
<1> SUFFICES ASSUME EgoInit PROVE EgoInv
  OBVIOUS
<1>1. HoldAt(Origin) \in Goal /\ HoldAt(Origin).kind = "hold"
  BY PlacesAssumption DEF HoldAt, Goal
<1>2. [at |-> Origin, moving |-> FALSE] \in Command
  BY PlacesAssumption DEF Command
<1>3. EgoTypeOK
  BY <1>1, <1>2, PlacesAssumption DEF EgoInit, EgoTypeOK
<1> QED
  BY <1>3 DEF EgoInit, EgoInv, HoldFlown

(* A callback changes only what the loop reads.                           *)
LEMMA CallbackKeeps == EgoInv /\ EgoCallback => EgoInv'
<1> SUFFICES ASSUME EgoInv, EgoCallback PROVE EgoInv'
  OBVIOUS
<1>1. ASSUME NEW m \in Mode, state_cb(m) PROVE EgoInv'
  BY <1>1 DEF state_cb, control, EgoInv, EgoTypeOK, HoldFlown, HoldAt
<1>2. ASSUME NEW p \in Places, position_cb(p) PROVE EgoInv'
  BY <1>2 DEF position_cb, control, EgoInv, EgoTypeOK, HoldFlown, HoldAt
<1>3. ASSUME NEW c \in Command, twist_cb(c) PROVE EgoInv'
  BY <1>3 DEF twist_cb, control, EgoInv, EgoTypeOK, HoldFlown, HoldAt
<1> QED
  BY <1>1, <1>2, <1>3 DEF EgoCallback

(* What one cycle does to the types, whatever the branch.                 *)
LEMMA CycleType ==
  ASSUME EgoTypeOK, NEW hold \in Places, NEW known \in BOOLEAN,
         NEW active \in BOOLEAN, NEW goal \in Goal,
         EndCycle(hold, known, active, goal)
  PROVE  EgoTypeOK'
<1>1. ErrorOf(hold, known, StopKept(active)) \in Places \cup {None}
  BY DEF ErrorOf, EgoTypeOK, Command
<1>2. StopKept(active) \in BOOLEAN
  BY DEF StopKept
<1> QED
  BY <1>1, <1>2 DEF EndCycle, EgoTypeOK, inputs

LEMMA GoalTypes ==
  ASSUME EgoInv
  PROVE  /\ HoldPoint \in Places /\ StopPoint \in Places
         /\ HoldKnown \in BOOLEAN
         /\ \A p \in Places : HoldAt(p) \in Goal
         /\ \A p, q \in Places : Accelerate(p, q) \in Goal
         /\ ego.at \in Places /\ ego.moving \in BOOLEAN
BY DEF EgoInv, EgoTypeOK, HoldPoint, StopPoint, HoldKnown, HoldAt, Accelerate,
       Goal, Command

LEMMA ReleasedKeeps == EgoInv /\ Released => EgoInv'
<1> SUFFICES ASSUME EgoInv, Released PROVE EgoInv'
  OBVIOUS
<1>1. EgoTypeOK'
  BY CycleType, GoalTypes DEF Released, EgoInv, EgoTypeOK
<1>2. /\ last_mode_state' # "OFFBOARD" /\ phase' = "loop"
      /\ current_goal'.kind = "hold"
      /\ stop_hold_active' => stop_hold_active
      /\ receive' = receive /\ offboard_hold_set' = HoldKnown
  BY DEF Released, EndCycle, Offboard, HoldAt, StopKept, inputs
<1> QED
  BY <1>1, <1>2 DEF EgoInv, HoldFlown, HoldKnown

LEMMA WaitKeeps == EgoInv /\ Wait => EgoInv'
<1> SUFFICES ASSUME EgoInv, Wait PROVE EgoInv'
  OBVIOUS
<1>1. EgoTypeOK'
  <2> DEFINE p == IF HoldKnown THEN HoldPoint ELSE position
  <2>1. p \in Places /\ HoldAt(p) \in Goal
    BY GoalTypes DEF EgoInv, EgoTypeOK
  <2> QED
    BY <2>1, CycleType, GoalTypes DEF Wait, EgoInv, EgoTypeOK
<1>2. /\ ~stop_hold_active' /\ phase' = "loop"
      /\ offboard_hold_set' = HoldKnown /\ offboard_hold' = HoldPoint
      /\ HoldKnown => current_goal' = HoldAt(HoldPoint)
  BY DEF Wait, EndCycle, StopKept, EgoInv
<1> QED
  BY <1>1, <1>2 DEF EgoInv, HoldFlown, HoldAt

LEMMA StopKeeps == EgoInv /\ Stop => EgoInv'
<1> SUFFICES ASSUME EgoInv, Stop PROVE EgoInv'
  OBVIOUS
<1>1. EgoTypeOK'
  <2>1. HoldAt(StopPoint) \in Goal /\ (HoldKnown \/ ~stop_hold_active) \in BOOLEAN
    BY GoalTypes DEF EgoInv, EgoTypeOK
  <2> QED
    BY <2>1, CycleType, GoalTypes DEF Stop, EgoInv
<1>2. /\ receive' /\ phase' = "loop"
      /\ offboard_hold' = StopPoint /\ current_goal' = HoldAt(StopPoint)
      /\ offboard_hold_set' = (HoldKnown \/ ~stop_hold_active)
  BY DEF Stop, EndCycle, inputs
<1>3. offboard_hold_set'
  BY <1>2 DEF HoldKnown, EgoInv
<1> QED
  BY <1>1, <1>2, <1>3 DEF EgoInv, HoldFlown, HoldAt

(* A moving command ends the cycle without a stop.                        *)
LEMMA MovingKeeps == EgoInv /\ (Track \/ LiftStop) => EgoInv'
<1> SUFFICES ASSUME EgoInv, Track \/ LiftStop PROVE EgoInv'
  OBVIOUS
<1>1. EgoTypeOK'
  <2>1. CASE Track
    BY <2>1, CycleType, GoalTypes DEF Track, EgoInv, EgoTypeOK
  <2>2. CASE LiftStop
    BY <2>2, CycleType, GoalTypes DEF LiftStop, EgoInv, EgoTypeOK
  <2> QED
    BY <2>1, <2>2
<1>2. ~stop_hold_active' /\ receive' /\ phase' = "loop"
  <2>1. ego.moving /\ receive /\ phase' = phase /\ phase = "loop" /\ receive' = receive
    BY DEF Track, LiftStop, EndCycle, inputs
  <2>2. stop_hold_active' = StopKept(FALSE) \/ stop_hold_active' = StopKept(TRUE)
    BY DEF Track, LiftStop, EndCycle
  <2> QED
    BY <2>1, <2>2 DEF StopKept
<1> QED
  BY <1>1, <1>2 DEF EgoInv, HoldFlown

LEMMA StartKeeps == EgoInv /\ (Connect \/ InitialGoal \/ StartLoop) => EgoInv'
<1> SUFFICES ASSUME EgoInv, Connect \/ InitialGoal \/ StartLoop PROVE EgoInv'
  OBVIOUS
<1>1. CASE Connect
  BY <1>1 DEF Connect, inputs, EgoInv, EgoTypeOK, HoldFlown
<1>2. CASE InitialGoal
  BY <1>2, GoalTypes DEF InitialGoal, inputs, EgoInv, EgoTypeOK, HoldFlown
<1>3. CASE StartLoop
  BY <1>3 DEF StartLoop, inputs, EgoInv, EgoTypeOK, HoldFlown
<1> QED
  BY <1>1, <1>2, <1>3

LEMMA EgoKept == EgoInv /\ [EgoNext]_egoVars => EgoInv'
<1>1. EgoInv /\ UNCHANGED egoVars => EgoInv'
  BY DEF egoVars, inputs, control, EgoInv, EgoTypeOK, HoldFlown, HoldAt
<1> QED
  BY <1>1, CallbackKeeps, ReleasedKeeps, WaitKeeps, StopKeeps, MovingKeeps,
     StartKeeps DEF EgoNext, Cycle

(* The invariant holds in every behaviour of the controller.              *)
THEOREM EgoIsSafe == EgoSpec => []EgoInv
BY EgoInitially, EgoKept, PTL DEF EgoSpec

(* While a stop is in force, or before the first command, the point that  *)
(* is published is the hold point.                                        *)
THEOREM HoldIsFlown == EgoSpec => []HoldFlown
<1>1. EgoInv => HoldFlown
  BY DEF EgoInv
<1> QED
  BY <1>1, EgoIsSafe, PTL

-----------------------------------------------------------------------------
(* The action properties.                                                 *)

(* An acceleration setpoint belongs to the cycle that publishes it.       *)
THEOREM AccelerationsAreFresh == EgoSpec => NoStaleAcceleration
<1>1. ASSUME EgoInv, Cycle, current_goal'.kind = "accel"
      PROVE  /\ Offboard /\ receive /\ ego.moving
             /\ current_goal' = Accelerate(position, ego.at)
  <2>1. Released \/ Wait \/ Stop => current_goal'.kind = "hold"
    <3>1. \A p : HoldAt(p).kind = "hold"
      BY DEF HoldAt
    <3>2. Released => current_goal' = HoldAt(position)
      BY DEF Released, EndCycle
    <3>3. Wait => current_goal' = HoldAt(IF HoldKnown THEN HoldPoint ELSE position)
      BY DEF Wait, EndCycle
    <3>4. Stop => current_goal' = HoldAt(StopPoint)
      BY DEF Stop, EndCycle
    <3> QED
      BY <3>1, <3>2, <3>3, <3>4
  <2>2. LiftStop => current_goal'.kind = "hold"
    BY <1>1 DEF LiftStop, EndCycle, EgoInv
  <2>3. Track
    BY <1>1, <2>1, <2>2 DEF Cycle
  <2> QED
    BY <2>3 DEF Track, EndCycle
<1> QED
  BY <1>1, EgoIsSafe, PTL DEF EgoSpec, NoStaleAcceleration

(* A hold does not drift.                                                 *)
THEOREM HoldsAreSteady == EgoSpec => SteadyHold
<1> DEFINE A == /\ Cycle /\ Offboard /\ last_mode_state = "OFFBOARD"
                /\ offboard_hold_set
                /\ current_goal.kind = "hold" /\ current_goal'.kind = "hold"
                /\ stop_hold_active \/ ~receive \/ ego.moving
<1>1. ASSUME EgoInv, A PROVE current_goal' = current_goal
  <2>1. HoldPoint = offboard_hold /\ HoldKnown /\ phase = "loop"
    BY <1>1 DEF HoldPoint, Entering, HoldKnown, Cycle, Released, Wait, Stop, Track,
                LiftStop, EndCycle
  <2>2. CASE Wait
    BY <1>1, <2>1, <2>2 DEF Wait, EndCycle, EgoInv, HoldFlown
  <2>3. CASE Stop
    BY <1>1, <2>1, <2>3 DEF Stop, StopPoint, EndCycle, EgoInv, HoldFlown
  <2>4. CASE Track
    BY <1>1, <2>4 DEF Track, EndCycle, Accelerate
  <2>5. CASE LiftStop
    BY <2>5 DEF LiftStop, EndCycle
  <2> QED
    BY <1>1, <2>2, <2>3, <2>4, <2>5 DEF Cycle, Released
<1> QED
  BY <1>1, EgoIsSafe, PTL DEF EgoSpec, SteadyHold

(* The error published is the error of the setpoint published.            *)
THEOREM ErrorsAreOfTheGoal == EgoSpec => ErrorOfGoal
<1>1. ASSUME EgoInv, Cycle
      PROVE  \/ error_of' \in {None, current_goal'.at}
             \/ stop_hold_active /\ ego.moving
  <2>1. CASE Released
    BY <2>1 DEF Released, EndCycle, ErrorOf
  <2>2. CASE Wait
    BY <2>2 DEF Wait, EndCycle, ErrorOf, HoldAt
  <2>3. CASE Stop
    BY <1>1, <2>3 DEF Stop, EndCycle, ErrorOf, StopKept, HoldKnown, HoldAt, EgoInv
  <2>4. CASE Track
    BY <2>4 DEF Track, EndCycle, ErrorOf, StopKept, Accelerate
  <2>5. CASE LiftStop
    BY <2>5 DEF LiftStop
  <2> QED
    BY <1>1, <2>1, <2>2, <2>3, <2>4, <2>5 DEF Cycle
<1> QED
  BY <1>1, EgoIsSafe, PTL DEF EgoSpec, ErrorOfGoal
-----------------------------------------------------------------------------
(* The CLI.  What its variables hold; px and py are always a position.     *)
Positions == Points \cup {Cli!Zero}

MemType ==
  [run_circle : BOOLEAN, run_goto_seq : BOOLEAN, stop_req : BOOLEAN,
   goto_stage : 0 .. 2, dwell : 0 .. DwellTime,
   cx : Cli!Coordinate, cy : Cli!Coordinate, px : Positions, py : Positions,
   stop_hold_x : Cli!Coordinate, stop_hold_y : Cli!Coordinate, stop_hold_set : BOOLEAN]

(* The stores that menu commands are made of.                              *)
Data == {"cx", "cy", "stop_hold_x", "stop_hold_y"}

Copies == [to : Data, op : {"copy"}, val : {"px", "py"}]
Sets == [to : {"run_circle", "stop_req", "stop_hold_set"}, op : {"set"}, val : BOOLEAN]
        \cup [to : {"run_goto_seq"}, op : {"set"}, val : {TRUE}]
        \cup [to : {"goto_stage"}, op : {"set"}, val : {0}]
        \cup [to : {"dwell"}, op : {"set"}, val : {DwellTime}]

CliCommand == [kind : {"empty", "circle", "goto", "hold"},
               x : Cli!Coordinate, y : Cli!Coordinate]

CliTypeOK ==
  /\ mem \in MemType
  /\ input \in Seq(Copies \cup Sets)
  /\ cmd \in CliCommand
  /\ published.x \in Positions /\ published.y \in Positions

(* A variable has been written, or is before the i-th store of the input.  *)
Stored(v) == mem[v] # Cli!Unset
StoredBy(i, v) == Stored(v) \/ \E j \in 1 .. i - 1 : input[j].to = v

(* The flags announce data: also those that are still to be raised.        *)
Announces(flag, v) ==
  /\ mem[flag] => Stored(v)
  /\ \A i \in DOMAIN input : input[i] = Cli!Set(flag, TRUE) => StoredBy(i, v)

(* The main thread uses what a flag has announced, or what it has stored.  *)
MainInv ==
  /\ main \in {"center x", "center y"} => Stored("cx") /\ Stored("cy")
  /\ main \in {"capture y", "capture", "hold x", "hold y"} => Stored("stop_hold_x")
  /\ main \in {"capture", "hold x", "hold y"} => Stored("stop_hold_y")
  /\ main \in {"center y", "hold y"} => cmd.x # Cli!Unset

CliInv ==
  /\ CliTypeOK
  /\ Announces("run_circle", "cx") /\ Announces("run_circle", "cy")
  /\ Announces("stop_hold_set", "stop_hold_x") /\ Announces("stop_hold_set", "stop_hold_y")
  /\ MainInv
  /\ Cli!CommandsInitialised

LEMMA PlacesAre ==
  /\ Cli!Coordinate = Positions \cup {Cli!Unset} /\ Cli!Unset \notin Positions
  /\ First \in Positions /\ Second \in Positions
  /\ Positions \subseteq Places
  BY StackAssumption, PlacesAssumption DEF Cli!Coordinate, Positions, Points

(* A step that does not write to memory but through the input keeps what   *)
(* the flags announce, unless it raises one.                               *)
LEMMA AnnouncesKept ==
  ASSUME NEW flag, NEW v, Announces(flag, v), input' = input,
         mem'[flag] => mem[flag] \/ Stored(v), Stored(v) => Stored(v)'
  PROVE  Announces(flag, v)'
  BY DEF Announces, StoredBy

(* Only a stored position can be copied, and what is stored stays so.      *)
LEMMA StoreKeeps ==
  ASSUME mem \in MemType, NEW s \in Copies \cup Sets,
         mem' = [mem EXCEPT ![s.to] = IF s.op = "copy" THEN mem[s.val] ELSE s.val]
  PROVE  /\ mem' \in MemType
         /\ \A v \in Data : Stored(v) \/ s.to = v => Stored(v)'
         /\ \A flag \in {"run_circle", "stop_hold_set"} :
              mem'[flag] => mem[flag] \/ s = Cli!Set(flag, TRUE)
<1>1. mem.px \in Positions /\ mem.py \in Positions /\ Positions \subseteq Cli!Coordinate
  BY PlacesAre DEF MemType
<1>2. CASE s \in Copies
  <2>0. s.op = "copy" /\ s.to \in Data /\ s.val \in {"px", "py"}
    BY <1>2 DEF Copies
  <2>1. /\ s.to \in Data
        /\ mem' = [mem EXCEPT ![s.to] = mem[s.val]] /\ mem[s.val] \in Positions
    BY <1>1, <2>0
  <2>2. mem' \in MemType
    BY <1>1, <2>1 DEF MemType, Data
  <2>3. \A v \in Data : mem'[v] = IF s.to = v THEN mem[s.val] ELSE mem[v]
    BY <2>1 DEF MemType, Data
  <2>4. \A flag \in {"run_circle", "stop_hold_set"} : mem'[flag] = mem[flag]
    BY <2>1 DEF MemType, Data
  <2> QED
    BY <2>1, <2>2, <2>3, <2>4, PlacesAre DEF Stored
<1>3. CASE s \in Sets
  <2>1. s.op = "set" /\ mem' = [mem EXCEPT ![s.to] = s.val]
    BY <1>3 DEF Sets
  <2>2. \/ s.to \in {"run_circle", "stop_req", "stop_hold_set"} /\ s.val \in BOOLEAN
        \/ s.to = "run_goto_seq" /\ s.val = TRUE
        \/ s.to = "goto_stage" /\ s.val = 0
        \/ s.to = "dwell" /\ s.val = DwellTime
    BY <1>3 DEF Sets
  <2>3. mem' \in MemType
    <3>1. DwellTime \in Nat
      BY StackAssumption
    <3>2. CASE s.to \in {"run_circle", "stop_req", "stop_hold_set"} /\ s.val \in BOOLEAN
      BY <2>1, <3>2 DEF MemType
    <3>3. CASE s.to = "run_goto_seq" /\ s.val = TRUE
      BY <2>1, <3>3 DEF MemType
    <3>4. CASE s.to = "goto_stage" /\ s.val = 0
      BY <2>1, <3>4 DEF MemType
    <3>5. CASE s.to = "dwell" /\ s.val = DwellTime
      BY <2>1, <3>1, <3>5 DEF MemType
    <3> QED
      BY <2>2, <3>2, <3>3, <3>4, <3>5
  <2>4. \A v \in Data : s.to # v /\ mem'[v] = mem[v]
    BY <2>1, <2>2 DEF MemType, Data
  <2>5. ASSUME NEW flag \in {"run_circle", "stop_hold_set"}, mem'[flag], ~mem[flag]
        PROVE  s = Cli!Set(flag, TRUE)
    <3>1. s.to = flag
      BY <2>1, <2>2, <2>5 DEF MemType
    <3>2. s.val = TRUE
      BY <2>1, <2>2, <2>5, <3>1 DEF MemType
    <3> QED
      BY <1>3, <2>1, <3>1, <3>2 DEF Sets, Cli!Set
  <2> QED
    BY <2>3, <2>4, <2>5 DEF Stored
<1> QED
  BY <1>2, <1>3

(* The input thread does its next store: what the flags still to be raised *)
(* wait for comes one place nearer, or is done.                            *)
LEMMA InputStepKeeps == CliInv /\ Cli!InputStep => CliInv'
<1> SUFFICES ASSUME CliInv, Cli!InputStep PROVE CliInv'
  OBVIOUS
<1> DEFINE s == Head(input)
<1>1. /\ input # <<>> /\ input' = Tail(input)
      /\ mem' = [mem EXCEPT ![s.to] = IF s.op = "copy" THEN mem[s.val] ELSE s.val]
      /\ UNCHANGED <<main, cmd, published>>
  BY DEF Cli!InputStep, Cli!Idle
<1>2. /\ input \in Seq(Copies \cup Sets) /\ Len(input) \in Nat /\ Len(input) >= 1
      /\ s = input[1] /\ s \in Copies \cup Sets
      /\ Tail(input) \in Seq(Copies \cup Sets)
      /\ DOMAIN input = 1 .. Len(input) /\ DOMAIN input' = 1 .. Len(input) - 1
      /\ \A i \in 1 .. Len(input) - 1 : input'[i] = input[i + 1]
  BY <1>1 DEF CliInv, CliTypeOK
<1>3. /\ mem' \in MemType
      /\ \A v \in Data : Stored(v) \/ s.to = v => Stored(v)'
      /\ \A flag \in {"run_circle", "stop_hold_set"} :
           mem'[flag] => mem[flag] \/ s = Cli!Set(flag, TRUE)
  <2>1. mem \in MemType
    BY DEF CliInv, CliTypeOK
  <2> HIDE DEF s
  <2> QED
    BY <1>1, <1>2, <2>1, StoreKeeps
<1> HIDE DEF s
<1>4. ASSUME NEW flag \in {"run_circle", "stop_hold_set"}, NEW v \in Data, Announces(flag, v)
      PROVE  Announces(flag, v)'
  <2>1. ASSUME mem'[flag] PROVE Stored(v)'
    <3>1. CASE mem[flag]
      BY <1>3, <1>4, <3>1 DEF Announces
    <3>2. CASE s = Cli!Set(flag, TRUE)
      <4>1. 1 \in DOMAIN input /\ input[1] = Cli!Set(flag, TRUE)
        BY <1>2, <3>2
      <4>2. StoredBy(1, v)
        BY <1>4, <4>1 DEF Announces
      <4> QED
        BY <1>3, <4>2 DEF StoredBy
    <3> QED
      BY <1>3, <2>1, <3>1, <3>2
  <2>2. ASSUME NEW i \in DOMAIN input', input'[i] = Cli!Set(flag, TRUE) PROVE StoredBy(i, v)'
    <3>1. i \in 1 .. Len(input) - 1 /\ i + 1 \in DOMAIN input /\ input[i + 1] = Cli!Set(flag, TRUE)
      <4>1. i \in 1 .. Len(input) - 1
        BY <1>2, <2>2
      <4>2. i + 1 \in 1 .. Len(input)
        BY <1>2, <4>1
      <4>3. input'[i] = input[i + 1]
        BY <1>2, <4>1
      <4> QED
        BY <1>2, <2>2, <4>1, <4>2, <4>3
    <3>2. Stored(v) \/ \E j \in 1 .. i : input[j].to = v
      <4>1. StoredBy(i + 1, v)
        BY <1>4, <3>1 DEF Announces
      <4>2. (i + 1) - 1 = i
        BY <1>2, <3>1
      <4> QED
        BY <4>1, <4>2 DEF StoredBy
    <3>3. CASE Stored(v)
      BY <1>3, <3>3 DEF StoredBy
    <3>4. ASSUME NEW j \in 1 .. i, input[j].to = v PROVE StoredBy(i, v)'
      <4>1. CASE j = 1
        BY <1>2, <1>3, <3>4, <4>1 DEF StoredBy
      <4>2. CASE j # 1
        <5>1. j - 1 \in 1 .. i - 1 /\ j - 1 \in 1 .. Len(input) - 1 /\ input'[j - 1] = input[j]
          BY <1>2, <3>1, <4>2
        <5> QED
          BY <3>4, <5>1 DEF StoredBy
      <4> QED
        BY <4>1, <4>2
    <3> QED
      BY <3>2, <3>3, <3>4
  <2> QED
    BY <2>1, <2>2 DEF Announces
<1>5. CliTypeOK'
  BY <1>1, <1>2, <1>3 DEF CliInv, CliTypeOK
<1>6. MainInv' /\ Cli!CommandsInitialised'
  BY <1>1, <1>3 DEF CliInv, MainInv, Cli!CommandsInitialised, Data, Stored
<1> QED
  BY <1>4, <1>5, <1>6 DEF CliInv, Data

(* The programs of the menu: each stores what it announces before the flag.*)
LEMMA ProgramKeeps ==
  ASSUME CliInv, NEW c \in {"circle", "goto", "stop", "quit"}, Cli!Enter(c)
  PROVE  CliInv'
<1>1. input' = Cli!Program(c) /\ UNCHANGED <<mem, main, cmd, published>>
  BY DEF Cli!Enter
<1>2. input' \in Seq(Copies \cup Sets)
  <2>1. CASE c = "circle"
    BY <1>1, <2>1 DEF Cli!Program, Cli!Circle, Cli!Copy, Cli!Set, Copies, Sets, Data
  <2>2. CASE c = "stop"
    BY <1>1, <2>2 DEF Cli!Program, Cli!Stop, Cli!Copy, Cli!Set, Copies, Sets, Data
  <2>3. CASE c = "goto"
    BY <1>1, <2>3 DEF Cli!Program, Cli!Goto, Cli!Copy, Cli!Set, Copies, Sets, Data
  <2>4. CASE c = "quit"
    BY <1>1, <2>4 DEF Cli!Program, Cli!Quit, Cli!Copy, Cli!Set, Copies, Sets, Data
  <2> QED
    BY <2>1, <2>2, <2>3, <2>4
<1>3. /\ \A i \in DOMAIN input' : input'[i] = Cli!Set("run_circle", TRUE)
           => StoredBy(i, "cx")' /\ StoredBy(i, "cy")'
      /\ \A i \in DOMAIN input' : input'[i] = Cli!Set("stop_hold_set", TRUE)
           => StoredBy(i, "stop_hold_x")' /\ StoredBy(i, "stop_hold_y")'
  <2>1. CASE c = "circle"
    BY <1>1, <2>1 DEF Cli!Program, Cli!Circle, Cli!Set, Cli!Copy, StoredBy
  <2>2. CASE c = "stop"
    BY <1>1, <2>2 DEF Cli!Program, Cli!Stop, Cli!Set, Cli!Copy, StoredBy
  <2>3. CASE c = "goto"
    BY <1>1, <2>3 DEF Cli!Program, Cli!Goto, Cli!Set, Cli!Copy, StoredBy
  <2>4. CASE c = "quit"
    BY <1>1, <2>4 DEF Cli!Program, Cli!Quit, Cli!Set, Cli!Copy, StoredBy
  <2> QED
    BY <2>1, <2>2, <2>3, <2>4
<1>4. CliTypeOK' /\ MainInv' /\ Cli!CommandsInitialised'
  BY <1>1, <1>2 DEF CliInv, CliTypeOK, MainInv, Stored, Cli!CommandsInitialised
<1> QED
  BY <1>1, <1>3, <1>4 DEF CliInv, Announces, Stored

(* A step of the main thread: what the flags announce is no concern of its *)
(* own, but for the hold point that it takes itself.                       *)
LEMMA AnnouncesAll ==
  ASSUME CliInv, input' = input,
         \A v \in Data : Stored(v) => Stored(v)',
         mem'.run_circle => mem.run_circle,
         mem'.stop_hold_set => mem.stop_hold_set \/ (Stored("stop_hold_x") /\ Stored("stop_hold_y"))
  PROVE  /\ Announces("run_circle", "cx")' /\ Announces("run_circle", "cy")'
         /\ Announces("stop_hold_set", "stop_hold_x")'
         /\ Announces("stop_hold_set", "stop_hold_y")'
<1>1. \A v \in Data : Stored(v) => Stored(v)'
  OBVIOUS
<1> QED
  BY <1>1, AnnouncesKept DEF CliInv, Data

(* The main thread computes, and does not write to memory.                 *)
LEMMA ComputeKeeps ==
  ASSUME CliInv, UNCHANGED <<mem, input>>,
         cmd' \in CliCommand,
         published'.x \in Positions /\ published'.y \in Positions,
         MainInv', Cli!CommandsInitialised'
  PROVE  CliInv'
<1>1. CliTypeOK'
  BY DEF CliInv, CliTypeOK
<1>2. \A v \in Data : Stored(v) => Stored(v)'
  BY DEF Stored
<1> QED
  BY <1>1, <1>2, AnnouncesAll DEF CliInv

LEMMA FillKeeps ==
  ASSUME CliInv, UNCHANGED <<mem, input, published>>, cmd' \in CliCommand,
         main' \notin {"center y", "hold y"} => Cli!Unset \notin {cmd'.x, cmd'.y},
         main' \in {"center y", "hold y"} => cmd'.x # Cli!Unset,
         main' \notin {"capture y", "capture", "hold x"},
         main' \in {"center x", "center y"} => Stored("cx") /\ Stored("cy"),
         main' = "hold y" => Stored("stop_hold_x") /\ Stored("stop_hold_y")
  PROVE  CliInv'
<1>1. MainInv' /\ Cli!CommandsInitialised'
  BY DEF MainInv, Stored, Cli!CommandsInitialised
<1> QED
  BY <1>1, ComputeKeeps DEF CliInv, CliTypeOK

LEMMA TestKeeps ==
  ASSUME CliInv, UNCHANGED <<mem, input, cmd, published>>,
         main \notin {"center y", "hold y"},
         main' \notin {"center x", "center y", "capture y", "capture", "hold y"},
         main' = "hold x" => mem.stop_hold_set
  PROVE  CliInv'
<1>1. main' = "hold x" => Stored("stop_hold_x") /\ Stored("stop_hold_y")
  BY DEF CliInv, Announces
<1>2. MainInv' /\ Cli!CommandsInitialised'
  BY <1>1 DEF CliInv, MainInv, Stored, Cli!CommandsInitialised
<1> QED
  BY <1>2, ComputeKeeps DEF CliInv, CliTypeOK

LEMMA WriteKeeps ==
  ASSUME CliInv, UNCHANGED <<input, cmd, published>>, mem' \in MemType,
         main \notin {"center y", "hold y"},
         main' \notin {"center x", "center y", "hold y"},
         \A v \in Data : Stored(v) => Stored(v)',
         mem'.run_circle = mem.run_circle,
         mem'.stop_hold_set => mem.stop_hold_set \/ (Stored("stop_hold_x") /\ Stored("stop_hold_y")),
         main' \in {"capture y", "capture", "hold x"} => Stored("stop_hold_x")',
         main' \in {"capture", "hold x"} => Stored("stop_hold_y")'
  PROVE  CliInv'
<1>1. CliTypeOK'
  BY DEF CliInv, CliTypeOK
<1>2. MainInv' /\ Cli!CommandsInitialised'
  BY DEF CliInv, MainInv, Cli!CommandsInitialised
<1> QED
  BY <1>1, <1>2, AnnouncesAll DEF CliInv

(* What the flags announce has been stored once they are raised.           *)
LEMMA Announced ==
  ASSUME CliInv
  PROVE  /\ mem \in MemType
         /\ mem.run_circle => Stored("cx") /\ Stored("cy")
         /\ mem.stop_hold_set => Stored("stop_hold_x") /\ Stored("stop_hold_y")
         /\ \A v \in Data : mem[v] \in Cli!Coordinate
         /\ mem.px \in Positions /\ mem.py \in Positions
         /\ cmd \in CliCommand
  BY DEF CliInv, CliTypeOK, Announces, MemType, Data

LEMMA ChooseKeeps == CliInv /\ (Cli!Choose \/ Cli!CommandCircle) => CliInv'
<1> SUFFICES ASSUME CliInv, Cli!Choose \/ Cli!CommandCircle PROVE CliInv'
  OBVIOUS
<1>1. CASE Cli!Fill("circle?", IF mem.run_circle THEN "center x" ELSE "sequence?", Cli!Empty)
  <2>1. Cli!Empty \in CliCommand /\ Cli!Unset \notin {Cli!Empty.x, Cli!Empty.y}
    BY PlacesAre DEF Cli!Empty, Positions, CliCommand
  <2> QED
    BY <1>1, <2>1, FillKeeps, Announced DEF Cli!Fill, Cli!Jump
<1>2. CASE Cli!Test("sequence?", mem.run_goto_seq, "stage 0?", "stop?")
  BY <1>2, TestKeeps DEF Cli!Test, Cli!Jump
<1>3. CASE Cli!Test("stop?", mem.stop_req, "held?", "publish? circle")
  BY <1>3, TestKeeps DEF Cli!Test, Cli!Jump
<1>4. CASE Cli!Fill("center x", "center y", [Cli!Points("circle", Cli!Unset) EXCEPT !.x = mem.cx])
  <2>1. main = "center x" /\ Stored("cx") /\ Stored("cy")
    BY <1>4 DEF Cli!Fill, Cli!Jump, CliInv, MainInv
  <2>2. cmd' = [kind |-> "circle", x |-> mem.cx, y |-> Cli!Unset]
    BY <1>4 DEF Cli!Fill, Cli!Points
  <2>3. mem.cx \in Cli!Coordinate /\ mem.cx # Cli!Unset /\ Cli!Unset \in Cli!Coordinate
    BY <2>1, Announced, PlacesAre DEF Data, Stored
  <2>4. cmd' \in CliCommand /\ cmd'.x # Cli!Unset
    BY <2>2, <2>3 DEF CliCommand
  <2> QED
    BY <1>4, <2>1, <2>4, FillKeeps DEF Cli!Fill, Cli!Jump
<1>5. CASE Cli!Fill("center y", "publish? circle", [cmd EXCEPT !.y = mem.cy])
  <2>1. main = "center y" /\ Stored("cy") /\ cmd.x # Cli!Unset
    BY <1>5 DEF Cli!Fill, Cli!Jump, CliInv, MainInv
  <2>2. mem.cy \in Cli!Coordinate /\ mem.cy # Cli!Unset /\ cmd \in CliCommand
    BY <2>1, Announced DEF Data, Stored
  <2>3. cmd' \in CliCommand /\ cmd'.x = cmd.x /\ cmd'.y = mem.cy
    BY <1>5, <2>2 DEF Cli!Fill, CliCommand
  <2> QED
    BY <1>5, <2>1, <2>2, <2>3, FillKeeps DEF Cli!Fill, Cli!Jump
<1> QED
  BY <1>1, <1>2, <1>3, <1>4, <1>5 DEF Cli!Choose, Cli!CommandCircle

LEMMA SequenceKeeps ==
  CliInv /\ (Cli!CommandFirst \/ Cli!Arrive \/ Cli!CommandDwell \/ Cli!Advance \/ Cli!CommandSecond)
    => CliInv'
<1> SUFFICES ASSUME CliInv,
                    Cli!CommandFirst \/ Cli!Arrive \/ Cli!CommandDwell \/ Cli!Advance \/ Cli!CommandSecond
             PROVE  CliInv'
  OBVIOUS
<1>1. ASSUME NEW p \in {First, Second}, NEW from, NEW to, Cli!Fill(from, to, Cli!Points("goto", p)),
             to \in {"arrive", "publish? circle", "dwell?"}
      PROVE  CliInv'
  <2>1. cmd' = [kind |-> "goto", x |-> p, y |-> p] /\ p \in Positions
    BY <1>1, PlacesAre DEF Cli!Fill, Cli!Points
  <2>2. cmd' \in CliCommand /\ Cli!Unset \notin {cmd'.x, cmd'.y}
    BY <2>1, PlacesAre DEF CliCommand
  <2> QED
    BY <1>1, <2>2, FillKeeps DEF Cli!Fill, Cli!Jump
<1>2. ASSUME mem' \in MemType, UNCHANGED <<input, cmd, published>>,
             \A v \in Data \cup {"run_circle", "stop_hold_set"} : mem'[v] = mem[v],
             main \in {"arrive", "stamp", "advance"}, main' \in {"stamp", "publish? circle"}
      PROVE  CliInv'
  BY <1>2, WriteKeeps DEF Stored, Data
<1>3. CASE Cli!CommandFirst
  BY <1>1, <1>3 DEF Cli!CommandFirst
<1>4. CASE Cli!Write("arrive", "stamp", "goto_stage", 1)
  BY <1>2, <1>4, Announced DEF Cli!Write, Cli!Jump, MemType, Data
<1>5. CASE Cli!Write("stamp", "publish? circle", "dwell", 0)
  <2>1. 0 \in 0 .. DwellTime
    BY StackAssumption
  <2> QED
    BY <1>2, <1>5, <2>1, Announced DEF Cli!Write, Cli!Jump, MemType, Data
<1>6. CASE Cli!Test("stage 0?", TRUE, "stage 1?", "stage 1?")
  BY <1>6, TestKeeps DEF Cli!Test, Cli!Jump
<1>7. CASE Cli!Fill("stage 1?", "dwell?", Cli!Points("goto", First))
  BY <1>1, <1>7
<1>8. CASE Cli!Test("dwell?", mem.dwell >= DwellTime, "advance", "publish? circle")
  BY <1>8, TestKeeps DEF Cli!Test, Cli!Jump
<1>9. CASE Cli!Write("advance", "publish? circle", "goto_stage", 2)
  <2>1. 2 \in 0 .. 2
    OBVIOUS
  <2>2. mem' \in MemType /\ \A v \in Data \cup {"run_circle", "stop_hold_set"} : mem'[v] = mem[v]
    BY <1>9, <2>1, Announced DEF Cli!Write, MemType, Data
  <2> QED
    BY <1>2, <1>9, <2>2 DEF Cli!Write, Cli!Jump
<1>10. CASE Cli!Fill("stage 1?", "publish? circle", Cli!Points("goto", Second))
  BY <1>1, <1>10
<1> QED
  BY <1>3, <1>4, <1>5, <1>6, <1>7, <1>8, <1>9, <1>10
     DEF Cli!Arrive, Cli!CommandDwell, Cli!Advance, Cli!CommandSecond

LEMMA HoldKeeps == CliInv /\ (Cli!Capture \/ Cli!CommandHold) => CliInv'
<1> SUFFICES ASSUME CliInv, Cli!Capture \/ Cli!CommandHold PROVE CliInv'
  OBVIOUS
<1>1. CASE Cli!Test("held?", mem.stop_hold_set, "hold x", "capture x")
  BY <1>1, TestKeeps DEF Cli!Test, Cli!Jump
<1>2. CASE Cli!Write("capture x", "capture y", "stop_hold_x", mem.px)
  <2>1. mem' \in MemType /\ mem.px # Cli!Unset
    BY <1>2, Announced, PlacesAre DEF Cli!Write, MemType
  <2>2. /\ \A v \in Data : Stored(v) => Stored(v)'
        /\ Stored("stop_hold_x")'
        /\ mem'.run_circle = mem.run_circle /\ mem'.stop_hold_set = mem.stop_hold_set
    BY <1>2, <2>1, Announced DEF Cli!Write, MemType, Data, Stored
  <2> QED
    BY <1>2, <2>1, <2>2, WriteKeeps DEF Cli!Write, Cli!Jump
<1>3. CASE Cli!Write("capture y", "capture", "stop_hold_y", mem.py)
  <2>1. mem' \in MemType /\ mem.py # Cli!Unset /\ Stored("stop_hold_x")
    BY <1>3, Announced, PlacesAre DEF Cli!Write, Cli!Jump, MemType, CliInv, MainInv
  <2>2. /\ \A v \in Data : Stored(v) => Stored(v)'
        /\ Stored("stop_hold_x")' /\ Stored("stop_hold_y")'
        /\ mem'.run_circle = mem.run_circle /\ mem'.stop_hold_set = mem.stop_hold_set
    BY <1>3, <2>1, Announced DEF Cli!Write, MemType, Data, Stored
  <2> QED
    BY <1>3, <2>1, <2>2, WriteKeeps DEF Cli!Write, Cli!Jump
<1>4. CASE Cli!Write("capture", "hold x", "stop_hold_set", TRUE)
  <2>1. mem' \in MemType /\ Stored("stop_hold_x") /\ Stored("stop_hold_y")
    BY <1>4, Announced DEF Cli!Write, Cli!Jump, MemType, CliInv, MainInv
  <2>2. /\ \A v \in Data : Stored(v) => Stored(v)'
        /\ mem'.run_circle = mem.run_circle
    BY <1>4, <2>1, Announced DEF Cli!Write, MemType, Data, Stored
  <2>3. Stored("stop_hold_x")' /\ Stored("stop_hold_y")'
    BY <2>1, <2>2 DEF Data
  <2> QED
    BY <1>4, <2>1, <2>2, <2>3, WriteKeeps DEF Cli!Write, Cli!Jump
<1>5. CASE Cli!Fill("hold x", "hold y", [Cli!Points("hold", Cli!Unset) EXCEPT !.x = mem.stop_hold_x])
  <2>1. Stored("stop_hold_x") /\ Stored("stop_hold_y")
    BY <1>5 DEF Cli!Fill, Cli!Jump, CliInv, MainInv
  <2>2. cmd' = [kind |-> "hold", x |-> mem.stop_hold_x, y |-> Cli!Unset]
    BY <1>5 DEF Cli!Fill, Cli!Points
  <2>3. /\ mem.stop_hold_x \in Cli!Coordinate /\ mem.stop_hold_x # Cli!Unset
        /\ Cli!Unset \in Cli!Coordinate
    BY <2>1, Announced, PlacesAre DEF Data, Stored
  <2>4. cmd' \in CliCommand /\ cmd'.x # Cli!Unset
    BY <2>2, <2>3 DEF CliCommand
  <2> QED
    BY <1>5, <2>1, <2>4, FillKeeps DEF Cli!Fill, Cli!Jump
<1>6. CASE Cli!Fill("hold y", "publish? circle", [cmd EXCEPT !.y = mem.stop_hold_y])
  <2>1. Stored("stop_hold_y") /\ cmd.x # Cli!Unset
    BY <1>6 DEF Cli!Fill, Cli!Jump, CliInv, MainInv
  <2>2. /\ mem.stop_hold_y \in Cli!Coordinate /\ mem.stop_hold_y # Cli!Unset
        /\ cmd \in CliCommand
    BY <2>1, Announced DEF Data, Stored
  <2>3. cmd' \in CliCommand /\ cmd'.x = cmd.x /\ cmd'.y = mem.stop_hold_y
    BY <1>6, <2>2 DEF Cli!Fill, CliCommand
  <2> QED
    BY <1>6, <2>1, <2>2, <2>3, FillKeeps DEF Cli!Fill, Cli!Jump
<1> QED
  BY <1>1, <1>2, <1>3, <1>4, <1>5, <1>6 DEF Cli!Capture, Cli!CommandHold

LEMMA PublishKeeps == CliInv /\ (Cli!Recheck \/ Cli!Publish) => CliInv'
<1> SUFFICES ASSUME CliInv, Cli!Recheck \/ Cli!Publish PROVE CliInv'
  OBVIOUS
<1>1. CASE Cli!Recheck
  BY <1>1, TestKeeps DEF Cli!Recheck, Cli!Test, Cli!Jump
<1>2. CASE Cli!Publish
  <2>1. /\ UNCHANGED <<mem, input, cmd>> /\ main = "publish" /\ main' = "spin" /\ published' = cmd
    BY <1>2 DEF Cli!Publish, Cli!Jump
  <2>2. cmd \in CliCommand /\ Cli!Unset \notin {cmd.x, cmd.y}
    BY <2>1 DEF CliInv, CliTypeOK, Cli!CommandsInitialised
  <2>3. cmd.x \in Positions /\ cmd.y \in Positions
    BY <2>2, PlacesAre DEF CliCommand
  <2>4. MainInv' /\ Cli!CommandsInitialised'
    BY <2>1, <2>2 DEF MainInv, Cli!CommandsInitialised
  <2> QED
    BY <2>1, <2>2, <2>3, <2>4, ComputeKeeps
<1> QED
  BY <1>1, <1>2

LEMMA SpinKeeps ==
  CliInv /\ (Cli!OdomRest \/ Cli!Sleep \/ Cli!CliTick \/ Cli!EndOfInput
             \/ \E p \in Points : Cli!odom_cb(p))
    => CliInv'
<1> SUFFICES ASSUME CliInv, \/ Cli!OdomRest \/ Cli!Sleep \/ Cli!CliTick \/ Cli!EndOfInput
                            \/ \E p \in Points : Cli!odom_cb(p)
             PROVE  CliInv'
  OBVIOUS
<1>1. ASSUME mem' \in MemType, UNCHANGED <<input, cmd, published>>,
             \A v \in Data \cup {"run_circle", "stop_hold_set"} : mem'[v] = mem[v],
             UNCHANGED main \/ (main \in {"spin", "odom y"} /\ main' \in {"spin", "odom y"})
      PROVE  CliInv'
  <2>1. \A v \in Data : Stored(v)' = Stored(v)
    BY <1>1 DEF Stored
  <2>2. CliTypeOK'
    BY <1>1 DEF CliInv, CliTypeOK
  <2>3. MainInv' /\ Cli!CommandsInitialised'
    BY <1>1, <2>1 DEF CliInv, MainInv, Cli!CommandsInitialised, Data
  <2> QED
    BY <1>1, <2>1, <2>2, <2>3, AnnouncesAll DEF CliInv
<1>2. CASE Cli!OdomRest
  BY <1>1, <1>2, Announced DEF Cli!OdomRest, Cli!Write, Cli!Jump, MemType, Data
<1>3. CASE Cli!Sleep
  BY <1>3, TestKeeps DEF Cli!Sleep, Cli!Test, Cli!Jump
<1>4. CASE Cli!CliTick
  <2>1. /\ mem \in MemType /\ mem.dwell \in 0 .. DwellTime /\ mem.dwell < DwellTime
        /\ mem' = [mem EXCEPT !.dwell = mem.dwell + 1]
        /\ UNCHANGED <<input, main, cmd, published>>
    BY <1>4, Announced DEF Cli!CliTick, MemType
  <2>2. mem.dwell + 1 \in 0 .. DwellTime
    BY <2>1, StackAssumption
  <2>3. mem' \in MemType /\ \A v \in Data \cup {"run_circle", "stop_hold_set"} : mem'[v] = mem[v]
    BY <2>1, <2>2 DEF MemType, Data
  <2> QED
    BY <1>1, <2>1, <2>3
<1>5. CASE Cli!EndOfInput
  BY <1>5 DEF Cli!EndOfInput, CliInv, CliTypeOK, MainInv, Cli!CommandsInitialised,
              Announces, StoredBy, Stored
<1>6. ASSUME NEW p \in Points, Cli!odom_cb(p) PROVE CliInv'
  <2>1. p \in Positions
    BY DEF Positions
  <2> QED
    BY <1>1, <1>6, <2>1, Announced DEF Cli!odom_cb, Cli!Write, Cli!Jump, MemType, Data
<1> QED
  BY <1>2, <1>3, <1>4, <1>5, <1>6

LEMMA CliInitially == Cli!CliInit => CliInv
<1> SUFFICES ASSUME Cli!CliInit PROVE CliInv
  OBVIOUS
<1>1. Cli!Zero \in Positions /\ Cli!Zero \in Cli!Coordinate /\ Cli!Unset \in Cli!Coordinate
  BY PlacesAre DEF Positions
<1>2. /\ mem \in MemType /\ mem.run_circle = FALSE /\ mem.stop_hold_set = FALSE
      /\ input = <<>> /\ main = "circle?"
  BY <1>1, StackAssumption DEF Cli!CliInit, MemType
<1>3. CliTypeOK
  BY <1>1, <1>2 DEF Cli!CliInit, CliTypeOK, Cli!Empty, CliCommand
<1>4. MainInv /\ Cli!CommandsInitialised
  BY <1>1, <1>2, PlacesAre DEF MainInv, Cli!CommandsInitialised, Cli!CliInit, Cli!Empty
<1> QED
  BY <1>2, <1>3, <1>4 DEF CliInv, Announces

LEMMA CliKept == CliInv /\ [Cli!CliNext]_(Cli!cliVars) => CliInv'
<1> SUFFICES ASSUME CliInv, [Cli!CliNext]_(Cli!cliVars) PROVE CliInv'
  OBVIOUS
<1>1. CASE UNCHANGED Cli!cliVars
  BY <1>1 DEF Cli!cliVars, CliInv, CliTypeOK, MainInv, Cli!CommandsInitialised, Announces,
              StoredBy, Stored
<1>2. ASSUME NEW c \in MenuCommands, Cli!Enter(c) PROVE CliInv'
  BY <1>2, ProgramKeeps, StackAssumption
<1>3. CASE Cli!MainStep
  BY <1>3, ChooseKeeps, SequenceKeeps, HoldKeeps, PublishKeeps, SpinKeeps DEF Cli!MainStep
<1> QED
  BY <1>1, <1>2, <1>3, InputStepKeeps, SpinKeeps DEF Cli!CliNext

(* Whatever the order of the stores of the input thread and the loads of   *)
(* the main thread, no command is computed from a center or a hold point   *)
(* that nobody has stored.                                                 *)
THEOREM CommandsAreInitialised == Cli!CliSpec => []Cli!CommandsInitialised
<1>1. CliInv => Cli!CommandsInitialised
  BY DEF CliInv
<1> QED
  BY <1>1, CliInitially, CliKept, PTL DEF Cli!CliSpec
-----------------------------------------------------------------------------
(* The stack: a controller and a CLI, joined by the topic.                 *)

(* A message of the topic is a command, since the CLI fills in what it     *)
(* publishes.                                                              *)
StackInv == CliInv /\ position_cmd \in Seq(Command)

LEMMA QueueKeeps ==
  ASSUME position_cmd \in Seq(Command), NEW c \in Command
  PROVE  Queue(c) \in Seq(Command)
<1> DEFINE q == Append(position_cmd, c)
<1>1. q \in Seq(Command) /\ q # <<>>
  <2>1. q \in Seq(Command) /\ Len(q) = Len(position_cmd) + 1 /\ Len(position_cmd) \in Nat
    OBVIOUS
  <2> QED
    BY <2>1
<1>2. Tail(q) \in Seq(Command)
  BY <1>1
<1> HIDE DEF q
<1> QED
  BY <1>1, <1>2 DEF Queue, q

(* A step of the controller, or a message that it receives.                *)
LEMMA ControllerStep ==
  ASSUME position_cmd \in Seq(Command), Deliver \/ EgoStep
  PROVE  EgoNext /\ UNCHANGED <<cliState, nodeState>> /\ position_cmd' \in Seq(Command)
<1>1. CASE Deliver
  <2>1. /\ position_cmd # <<>> /\ twist_cb(Head(position_cmd))
        /\ position_cmd' = Tail(position_cmd) /\ UNCHANGED <<cliState, nodeState>>
    BY <1>1 DEF Deliver
  <2>2. Head(position_cmd) \in Command /\ Tail(position_cmd) \in Seq(Command)
    BY <2>1
  <2> QED
    BY <2>1, <2>2 DEF EgoNext, EgoCallback
<1>2. CASE EgoStep
  <2>1. ASSUME NEW m \in Mode, Ego(state_cb(m))
        PROVE  EgoNext /\ UNCHANGED <<cliState, nodeState, position_cmd>>
    BY <2>1 DEF Ego, EgoNext, EgoCallback
  <2>2. ASSUME NEW p \in Places, Ego(position_cb(p))
        PROVE  EgoNext /\ UNCHANGED <<cliState, nodeState, position_cmd>>
    BY <2>2 DEF Ego, EgoNext, EgoCallback
  <2>3. CASE Ego(InitialGoal) \/ EgoLoop
    BY <2>3 DEF EgoLoop, Ego, EgoNext
  <2> QED
    BY <1>2, <2>1, <2>2, <2>3 DEF EgoStep
<1> QED
  BY <1>1, <1>2

(* A step of the stack is one of the CLI, which leaves the controller      *)
(* alone, or one of the controller, which leaves the CLI alone.            *)
LEMMA StackStep ==
  ASSUME StackInv, [StackNext]_stackVars
  PROVE  /\ StackInv'
         /\ [EgoNext]_egoVars /\ [Cli!CliNext]_(Cli!cliVars)
<1>1. CASE CliStep(Cli!CliNext)
  <2>1. Cli!CliNext /\ UNCHANGED egoVars
    BY <1>1 DEF CliStep
  <2>2. CliInv'
    BY <2>1, CliKept DEF StackInv
  <2>3. CommandOf(published') \in Command
    <3>1. published'.x \in Positions
      BY <2>2 DEF CliInv, CliTypeOK
    <3> QED
      BY <3>1, PlacesAre DEF CommandOf, Command
  <2>4. position_cmd' = Queue(CommandOf(published')) \/ position_cmd' = position_cmd
    BY <1>1 DEF CliStep
  <2> QED
    BY <2>1, <2>2, <2>3, <2>4, QueueKeeps DEF StackInv
<1>2. ASSUME UNCHANGED cliState, position_cmd' \in Seq(Command), [EgoNext]_egoVars
      PROVE  /\ StackInv'
             /\ [EgoNext]_egoVars /\ [Cli!CliNext]_(Cli!cliVars)
  <2>1. UNCHANGED Cli!cliVars
    BY <1>2 DEF cliState, Cli!cliVars
  <2>2. CliInv'
    BY <2>1, CliKept DEF StackInv
  <2> QED
    BY <1>2, <2>1, <2>2 DEF StackInv
<1>3. CASE Deliver \/ EgoStep
  BY <1>2, <1>3, ControllerStep DEF StackInv
<1>4. CASE UNCHANGED stackVars
  <2>1. UNCHANGED <<egoVars, cliState, position_cmd>>
    BY <1>4 DEF stackVars
  <2> QED
    BY <1>2, <2>1 DEF StackInv
<1> QED
  BY <1>1, <1>3, <1>4 DEF StackNext

LEMMA StackInitially == StackInit => StackInv /\ EgoInit /\ Cli!CliInit
  BY CliInitially DEF StackInit, StackInv

(* In the stack every message on the topic is a command.                   *)
LEMMA StackIsSound == StackSpec => []StackInv
<1>1. StackInv /\ [StackNext]_stackVars => StackInv'
  BY StackStep
<1> QED
  BY <1>1, StackInitially, PTL DEF StackSpec

(* The stack implements the CLI.                                           *)
THEOREM StackRunsCli == StackSpec => Cli!CliSpec
<1>1. StackInv /\ [StackNext]_stackVars => [Cli!CliNext]_(Cli!cliVars)
  BY StackStep
<1> QED
  BY <1>1, StackInitially, StackIsSound, PTL DEF StackSpec, Cli!CliSpec

(* The stack implements the controller, whose commands are anybody's.      *)
THEOREM StackRunsController == StackSpec => EgoSpec
<1>1. StackInv /\ [StackNext]_stackVars => [EgoNext]_egoVars
  BY StackStep
<1> QED
  BY <1>1, StackInitially, StackIsSound, PTL DEF StackSpec, EgoSpec

(* What is shown of uav_control_node and of trajectory_cli holds of the two*)
(* together.                                                               *)
THEOREM StackIsSafe ==
  StackSpec => /\ []HoldFlown /\ NoStaleAcceleration /\ SteadyHold /\ ErrorOfGoal
               /\ []Cli!CommandsInitialised
  BY StackRunsCli, StackRunsController, HoldIsFlown, AccelerationsAreFresh,
     HoldsAreSteady, ErrorsAreOfTheGoal, CommandsAreInitialised, PTL

-----------------------------------------------------------------------------
(* The same with the trajectory node in the place of the CLI.              *)
LEMMA TrajectoryStepIs ==
  ASSUME position_cmd \in Seq(Command), [TrajectoryNext]_stackVars
  PROVE  position_cmd' \in Seq(Command) /\ [EgoNext]_egoVars
<1>1. CASE NodePublishes
  BY <1>1, QueueKeeps DEF NodePublishes
<1>2. CASE TrajectoryStep /\ ~NodePublishes
  <2>1. UNCHANGED <<egoVars, position_cmd>>
    BY <1>2 DEF TrajectoryStep, NodeStep
  <2> QED
    BY <2>1
<1>3. CASE Deliver \/ EgoStep
  BY <1>3, ControllerStep
<1>4. CASE UNCHANGED stackVars
  BY <1>4 DEF stackVars
<1> QED
  BY <1>1, <1>2, <1>3, <1>4 DEF TrajectoryNext

(* The controller behind the trajectory node is that controller too.       *)
THEOREM TrajectoryRunsController == TrajectorySpec => EgoSpec
<1>1. StackInit => EgoInit /\ position_cmd \in Seq(Command)
  BY DEF StackInit
<1>2. position_cmd \in Seq(Command) /\ [TrajectoryNext]_stackVars
        => (position_cmd \in Seq(Command))' /\ [EgoNext]_egoVars
  BY TrajectoryStepIs
<1> QED
  BY <1>1, <1>2, PTL DEF TrajectorySpec, EgoSpec

(* What is shown of uav_control_node holds when trajectory_node flies it.  *)
THEOREM TrajectoryIsSafe ==
  TrajectorySpec => []HoldFlown /\ NoStaleAcceleration /\ SteadyHold /\ ErrorOfGoal
  BY TrajectoryRunsController, HoldIsFlown, AccelerationsAreFresh, HoldsAreSteady,
     ErrorsAreOfTheGoal, PTL
=============================================================================
