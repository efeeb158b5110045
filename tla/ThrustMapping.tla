---------------------------- MODULE ThrustMapping ----------------------------
(***************************************************************************)
(* The state the MPC controller keeps from one control cycle to the next:  *)
(* the thrust model with the queue of commanded thrusts it is learnt from, *)
(* and the last control, which limits the next one.                        *)
(*                                                                         *)
(* A cycle of px4ctrl in flight first learns from the thrust commanded 35  *)
(* to 45 ms ago (estimateThrustModel, in hover and command mode), then     *)
(* solves (calculateControl).  Real numbers are counted in steps: a thrust *)
(* signal between 0 and 1 is one of 0..Full, an angle one of Yaws.  The    *)
(* model thr2acc_ is given by the signal that balances gravity,            *)
(* hover = gravity / thr2acc_, so a signal n is the force n / hover in     *)
(* units of the weight.  What least squares makes of a sample, and which   *)
(* of the feasible controls is the best, is any value in range; after a    *)
(* reset P_ is so large that one sample decides.  Roll and pitch have      *)
(* limits of the same kind and start from zero; they are left out.         *)
(***************************************************************************)
EXTENDS Integers, Sequences

CONSTANTS
  NewAge, OldAge,     \* the window a sample is used in: 35 ms, 45 ms
  QueueLimit,         \* 100
  MinPeriod,          \* the least and the largest time between two cycles
  MaxPeriod,          \*   that the liveness property is about
  Full,               \* the signal 1
  LeastHover, MostHover,  \* 0.2 and 0.9, the clamp of gravity / thr2acc_
  HoverPercentage,    \* the parameter, at most 0.9
  Yaws,               \* the desired yaw angles, normalised
  Limits              \* the limits that can be configured

ASSUME QueueAssumption == /\ NewAge \in Nat /\ OldAge \in Nat /\ NewAge <= OldAge
                          /\ QueueLimit \in Nat \ {0}
                          /\ MinPeriod \in Nat \ {0} /\ MaxPeriod \in Nat
                          /\ MinPeriod <= MaxPeriod
ASSUME HoverAssumption ==
  /\ Full \in Nat \ {0} /\ LeastHover \in Nat \ {0} /\ MostHover \in Nat
  /\ HoverPercentage \in 1..MostHover /\ LeastHover <= MostHover
  /\ Yaws \subseteq Int /\ 0 \in Yaws
ASSUME LimitsAssumption ==
  Limits \subseteq [min : 0..Full, max : 0..Full, rate : Nat, yaw_rate : Nat]

VARIABLES
  timed_thrust,       \* the ages of the commanded thrusts, the oldest first
  estimated,          \* what estimateThrustModel returned in the last cycle
  hover,              \* gravity / thr2acc_
  u_last,             \* the last control: signal, hover then, yaw
  has_last_control,
  limits,             \* thrust_min, thrust_max, rates, as reconfigured
  phase,              \* what px4ctrl did in the last cycle
  since,              \* the time since that cycle
  solved              \* history of the last solve: its limits, the desired
                      \*   yaw, and whether it had a solution

queueVars == <<timed_thrust, estimated>>
solveVars == <<hover, u_last, has_last_control, solved>>
mapVars   == <<queueVars, solveVars, limits, phase, since>>

Age == 0..OldAge + 1

Hover == 1..MostHover

Phase == {"manual", "idle", "fly", "learn"}

Control == [signal : 0..Full, hover : Hover, yaw : Yaws]

MapTypeOK ==
  /\ timed_thrust \in Seq(Age) /\ estimated \in BOOLEAN
  /\ hover \in Hover
  /\ u_last \in Control /\ has_last_control \in BOOLEAN
  /\ limits \in Limits
  /\ phase \in Phase /\ since \in 0..MaxPeriod + 1
  /\ solved \in [limits : Limits, yaw : Yaws, ok : BOOLEAN]

(* u_last = {mass * gravity, 0, 0, yaw}: the weight, whatever the model.  *)
Weight(yaw) == [signal |-> 1, hover |-> 1, yaw |-> yaw]

MapInit ==
  /\ timed_thrust = <<>> /\ estimated = FALSE
  /\ hover = HoverPercentage
  /\ u_last = Weight(0) /\ has_last_control = FALSE
  /\ limits \in Limits
  /\ phase = "manual" /\ since = 0
  /\ solved = [limits |-> limits, yaw |-> 0, ok |-> FALSE]

-----------------------------------------------------------------------------
(* estimateThrustModel: expired samples are popped, and the first that has*)
(* not expired is used, if it is old enough.                              *)

(* The queue after k pops, when the next sample has not expired.          *)
Popped(q, k) == /\ \A i \in 1..k : q[i] > OldAge
                /\ k < Len(q) => q[k + 1] <= OldAge

(* Mutant: a sample as old as the near end of the window is not used.     *)
UsableLate(q) == q # <<>> /\ Head(q) > NewAge

Usable(q) == q # <<>> /\ Head(q) >= NewAge

Unused(q) == IF Usable(q) THEN Tail(q) ELSE q

(* calculateControl pushes the thrust and cuts the queue from the front.  *)
(* Mutant: the queue is left one longer than the limit.                   *)
CutLate(q) == IF Len(q) > QueueLimit + 1 THEN Tail(q) ELSE q

Cut(q) == IF Len(q) > QueueLimit
            THEN SubSeq(q, Len(q) - QueueLimit + 1, Len(q)) ELSE q

(* The queue and the return value after a cycle that learns and solves.   *)
(* Mutant: only one expired sample is popped per cycle.                   *)
LearnOnePop(q, new, learnt) ==
  \E k \in 0..Len(q) : /\ k = IF q # <<>> /\ Head(q) > OldAge THEN 1 ELSE 0
                       /\ LET rest == SubSeq(q, k + 1, Len(q))
                          IN  /\ learnt = Usable(rest)
                              /\ new = Cut(Append(Unused(rest), 0))

Learn(q, new, learnt) ==
  \E k \in 0..Len(q) : /\ Popped(q, k)
                       /\ LET rest == SubSeq(q, k + 1, Len(q))
                          IN  /\ learnt = Usable(rest)
                              /\ new = Cut(Append(Unused(rest), 0))

-----------------------------------------------------------------------------
(* calculateControl: the limits of the first step of the horizon.  The    *)
(* later ones add nothing: they can repeat the first control.             *)

(* safe_thr2acc.                                                          *)
Safe(h) == IF h < LeastHover THEN LeastHover ELSE h

(* The force of signal n differs from the last one by no more than        *)
(* thrust_rate allows.                                                    *)
ThrustInReach(n, h, last, lim) ==
  /\ n * last.hover - last.signal * h <= lim.rate * last.hover
  /\ last.signal * h - n * last.hover <= lim.rate * last.hover

YawInReach(yaw, last, lim) ==
  yaw - last.yaw <= lim.yaw_rate /\ last.yaw - yaw <= lim.yaw_rate

Solution(n, h, yaw, last, lim) ==
  /\ lim.min <= n /\ n <= lim.max
  /\ ThrustInReach(n, h, last, lim)
  /\ YawInReach(yaw, last, lim)

Feasible(h, yaw, last, lim) ==
  \E n \in 0..Full : Solution(n, h, yaw, last, lim)

(* The control the first solve after a reset starts from.                 *)
(* Mutant: the yaw of the reset, zero, is kept.                           *)
LastControlOfReset(last, has, yaw) == last

LastControl(last, has, yaw) == IF has THEN last ELSE Weight(yaw)

(* The status of the solver is not looked at: without a solution, what it *)
(* returns is flown.                                                      *)
Solve(h, last, has) ==
  \E yaw \in Yaws :
    LET from == LastControl(last, has, yaw)
        ok   == Feasible(h, yaw, from, limits)
    IN  /\ \E n \in 0..Full, y \in Yaws :
             /\ ok => Solution(n, h, yaw, from, limits) /\ y = yaw
             /\ u_last' = [signal |-> n, hover |-> h, yaw |-> y]
        /\ has_last_control' = TRUE
        /\ solved' = [limits |-> limits, yaw |-> yaw, ok |-> ok]

-----------------------------------------------------------------------------
(* A cycle of px4ctrl out of MANUAL_CTRL, from a model h and a last       *)
(* control: nothing is solved (the motors idle, or without new odometry   *)
(* the last setpoint is sent again), or it solves, after learning or not. *)

Idle(h, last, has) ==
  /\ phase' = "idle"
  /\ hover' = h /\ u_last' = last /\ has_last_control' = has
  /\ estimated' = FALSE
  /\ UNCHANGED <<timed_thrust, solved>>

Fly(h, last, has) ==
  /\ phase' = "fly"
  /\ hover' = h
  /\ Solve(Safe(h), last, has)
  /\ estimated' = FALSE
  /\ timed_thrust' = Cut(Append(timed_thrust, 0))

(* Mutant: the solve comes before the estimate.                           *)
SolveThenLearn(h, last, has) ==
  /\ phase' = "learn"
  /\ Learn(timed_thrust, timed_thrust', estimated')
  /\ Solve(Safe(h), last, has)
  /\ hover' \in IF estimated' THEN LeastHover..MostHover ELSE {h}

LearnAndFly(h, last, has) ==
  /\ phase' = "learn"
  /\ Learn(timed_thrust, timed_thrust', estimated')
  /\ hover' \in IF estimated' THEN LeastHover..MostHover ELSE {h}
  /\ Solve(Safe(hover'), last, has)

Cycle(h, last, has) == /\ \/ Idle(h, last, has)
                          \/ Fly(h, last, has)
                          \/ LearnAndFly(h, last, has)
                       /\ since' = 0
                       /\ UNCHANGED limits

(* Out of MANUAL_CTRL: resetThrustMapping, which leaves the queue, and the*)
(* rest of that cycle.                                                    *)
Engage == phase = "manual" /\ Cycle(HoverPercentage, Weight(0), FALSE)

Continue == /\ phase # "manual" /\ since >= MinPeriod
            /\ Cycle(hover, u_last, has_last_control)

Release == /\ phase # "manual"
           /\ phase' = "manual"
           /\ UNCHANGED <<queueVars, solveVars, limits, since>>

(* dynamic_reconfigure, between two cycles.                               *)
reconfigureCallback(l) == /\ limits' = l
                          /\ UNCHANGED <<queueVars, solveVars, phase, since>>

Older(a, most) == IF a < most THEN a + 1 ELSE most

MapTick ==
  /\ timed_thrust' = [i \in DOMAIN timed_thrust |-> Older(timed_thrust[i], OldAge + 1)]
  /\ since' = Older(since, MaxPeriod + 1)
  /\ UNCHANGED <<estimated, solveVars, limits, phase>>

MapNext == \/ Engage \/ Continue \/ Release \/ MapTick
           \/ \E l \in Limits : reconfigureCallback(l)

MapSpec == MapInit /\ [][MapNext]_mapVars

(* The loop goes on and time passes; how often it runs is said by since.  *)
FairMapSpec == MapSpec /\ WF_mapVars(Continue) /\ WF_mapVars(MapTick)

-----------------------------------------------------------------------------
(* Properties.                                                            *)

(* The samples are in the order they were commanded, which is what makes  *)
(* popping from the front right, and their number has a bound, although   *)
(* px4ctrl pushes in take-off and landing too and pops in neither.        *)
QueueInv ==
  /\ MapTypeOK
  /\ Len(timed_thrust) <= QueueLimit
  /\ \A i, j \in DOMAIN timed_thrust : i < j => timed_thrust[i] >= timed_thrust[j]

(* A step that is a cycle, Engage or Continue.                            *)
Cycled == /\ phase' # "manual" /\ since' = 0
          /\ phase = "manual" \/ since >= MinPeriod

(* However long px4ctrl flew without learning, the first cycle that learns*)
(* leaves no expired sample behind, so what was commanded in one phase of *)
(* the flight is not matched with accelerations of a later one.           *)
NoBacklog ==
  [][Cycled /\ phase' = "learn"
       => \A i \in DOMAIN timed_thrust' : timed_thrust'[i] <= OldAge]_mapVars

(* What the last control says about the next: it was solved with the model*)
(* still in force, and lies within the limits it was solved with.         *)
SolveInv ==
  has_last_control =>
    /\ u_last.hover = Safe(hover)
    /\ solved.ok => /\ solved.limits.min <= u_last.signal
                    /\ u_last.signal <= solved.limits.max
                    /\ u_last.yaw = solved.yaw

(* A solve has no solution only for a reason: the first one after a reset,*)
(* because hovering itself is outside the limits; a later one, because the*)
(* one before had none, the limits were reconfigured, the model moved, or *)
(* the desired yaw is further away than the yaw rate allows.              *)
InfeasibleHasCause ==
  [][Cycled /\ phase' \in {"fly", "learn"} /\ ~solved'.ok
       => IF phase = "manual" \/ ~has_last_control
          THEN ~(limits.min <= Safe(hover') /\ Safe(hover') <= limits.max)
          ELSE \/ ~solved.ok \/ limits # solved.limits \/ hover' # hover
               \/ ~YawInReach(solved'.yaw, u_last, limits)]_mapVars

(* The model is learnt again and again while px4ctrl hovers in the air and*)
(* its cycles are no further apart than the window is wide.               *)
KeepsLearning == <>[](phase = "learn" /\ since <= MaxPeriod) => []<>estimated
=============================================================================
