---------------------------- MODULE LidarUpgrade ----------------------------
(***************************************************************************)
(* The firmware upgrade of one lidar by the Livox SDK: a state machine     *)
(* that is driven by the callbacks of its own requests, whichever thread   *)
(* they come from, and an object that is destroyed by the thread that      *)
(* created it as soon as it sees the machine in a final state              *)
(* (livox_lidar_upgrader.cpp, upgrade_manager.cpp).  No lock keeps the two *)
(* apart: the thread that has set the final state may still be using the   *)
(* object when it is destroyed.                                            *)
(***************************************************************************)
EXTENDS LidarCommands

CONSTANTS Blocks,          \* length of the firmware in blocks of read_length_
          UpgradeTryLimit,        \* kGeneralTryCountLimit, 10
          ProgressLimit    \* kGetProcessTryCountLimit, 30

ASSUME UpgradeAssumption ==
    /\ Blocks \in Nat \ {0}
    /\ UpgradeTryLimit \in Nat \ {0} /\ ProgressLimit \in Nat
    /\ UpgradeTryLimit <= ProgressLimit

VARIABLES
    fsm_state,      \* fsm_state_
    read_offset,    \* read_offset_, in blocks
    try_count,      \* try_count_
    object,         \* the LivoxLidarUpgrader: "new", "started", "destroyed"
    observing,      \* the threads that have changed the state and are still in
                    \* FsmEventHandler, where they read fsm_state_, handle_ and
                    \* observer_; "start" is upgrade_thread_
    memory,         \* the lidar: blocks it has stored since the last accepted start
    flashed         \* the lidar: its checksum was right and its progress is 100

machine == <<fsm_state, read_offset, try_count>>
lidar == <<memory, flashed>>
upgrade_vars == <<layer, machine, object, observing, lidar>>

Firmware == 0 .. Blocks - 1
Plain == {"Start", "CompleteXfer", "Progress", "Reboot"}
UpgradeRequests == [kind : Plain, block : {0}] \cup [kind : {"Xfer"}, block : Firmware]
UpgradeRequest(k) == [kind |-> k, block |-> 0]

(* Mutant of the table: a lost reboot request is not repeated.             *)
EventTableShort == {
    <<"Idle", "Request", "Request">>,
    <<"Request", "Request", "Request">>,
    <<"Request", "Xfer", "Xfer">>,
    <<"Xfer", "Xfer", "Xfer">>,
    <<"Xfer", "CompleteXfer", "CompleteXfer">>,
    <<"CompleteXfer", "CompleteXfer", "CompleteXfer">>,
    <<"CompleteXfer", "GetProgress", "GetProgress">>,
    <<"GetProgress", "GetProgress", "GetProgress">>,
    <<"GetProgress", "Complete", "Complete">>,
    <<"Complete", "Reinit", "Idle">> }

(* upgrade_event_table: state, event, next state.                          *)
EventTable == {
    <<"Idle", "Request", "Request">>,
    <<"Request", "Request", "Request">>,
    <<"Request", "Xfer", "Xfer">>,
    <<"Xfer", "Xfer", "Xfer">>,
    <<"Xfer", "CompleteXfer", "CompleteXfer">>,
    <<"CompleteXfer", "CompleteXfer", "CompleteXfer">>,
    <<"CompleteXfer", "GetProgress", "GetProgress">>,
    <<"GetProgress", "GetProgress", "GetProgress">>,
    <<"GetProgress", "Complete", "Complete">>,
    <<"Complete", "Complete", "Complete">>,
    <<"Complete", "Reinit", "Idle">> }
States == {row[1] : row \in EventTable} \cup {"Err"}
Rows(event) == {row \in EventTable : row[1] = fsm_state /\ row[2] = event}

UpgradeInit ==
    /\ InitLayer
    /\ fsm_state = "Idle"
    /\ read_offset = 0
    /\ try_count = 0
    /\ object = "new"
    /\ observing = {}
    /\ memory = {}
    /\ flashed = FALSE
-----------------------------------------------------------------------------
(* The request that the handler of an event sends, a sequence of one or    *)
(* none: XferFirmware has nothing to send beyond the end of the firmware.  *)
Sent(event, offset) ==
    CASE event = "Request"      -> <<UpgradeRequest("Start")>>
      [] event = "Xfer"         -> IF offset < Blocks THEN <<[kind |-> "Xfer", block |-> offset]>>
                                                      ELSE <<>>
      [] event = "CompleteXfer" -> <<UpgradeRequest("CompleteXfer")>>
      [] event = "GetProgress"  -> <<UpgradeRequest("Progress")>>
      [] event = "Complete"     -> <<UpgradeRequest("Reboot")>>
      [] OTHER                  -> <<>>

(* FsmEventHandler with the offset the callback has left.                  *)
EventSends(event, offset) == IF Rows(event) = {} THEN <<>> ELSE Sent(event, offset)

FsmEventHandler(event, offset) ==
    /\ fsm_state' = CASE event = "Err"       -> "Err"
                      [] Rows(event) # {}    -> (CHOOSE row \in Rows(event) : TRUE)[3]
                      [] OTHER               -> fsm_state
    /\ read_offset' = IF event = "Request" /\ Rows(event) # {} THEN 0 ELSE offset

(* The thread of StartUpgradeLivoxLidar.                                   *)
StartUpgradeLivoxLidar ==
    /\ object = "new"
    /\ object' = "started"
    /\ FsmEventHandler("Request", read_offset)
    /\ todo' = EventSends("Request", read_offset)
    /\ observing' = observing \cup {"start"}
    /\ UNCHANGED <<commands, adding, air, sending, try_count, lidar>>

(* The last part of FsmEventHandler, after the event's own handler: the    *)
(* observer is called.                                                     *)
Observe(t) ==
    /\ t \in observing
    /\ IF t = "cmd" THEN Clear("cmd") ELSE OtherIsFree /\ Clear("other")
    /\ observing' = observing \ {t}
    /\ UNCHANGED <<layer, machine, object, lidar>>
-----------------------------------------------------------------------------
(* The handlers of the answers, on the command thread.                     *)
Responded(d, k, event, offset) ==
    /\ "cmd" \notin observing
    /\ observing' = observing \cup {"cmd"}
    /\ d.cmd.of.kind = k
    /\ TakeAnswer(d, ToSet(EventSends(event, offset)))
    /\ FsmEventHandler(event, offset)
    /\ try_count' = 0
    /\ UNCHANGED <<object, lidar>>

(* A lidar that is busy or erases its memory (2 and 0x34) is asked again.  *)
StartUpgradeResponse(d) ==
    \/ d.ret = "ok" /\ Responded(d, "Start", "Xfer", read_offset)
    \/ d.ret = "again" /\ Responded(d, "Start", "Request", read_offset)
    \/ d.ret = "error" /\ Responded(d, "Start", "Err", read_offset)

(* Mutant: the last block is not waited for.                               *)
XferFirmwareResponseEarly(d) ==
    \/ /\ d.ret = "ok"
       /\ Responded(d, "Xfer", IF read_offset + 2 < Blocks THEN "Xfer" ELSE "CompleteXfer", read_offset + 1)
    \/ d.ret = "error" /\ Responded(d, "Xfer", "Err", read_offset)

XferFirmwareResponse(d) ==
    \/ /\ d.ret = "ok"
       /\ Responded(d, "Xfer", IF read_offset + 1 < Blocks THEN "Xfer" ELSE "CompleteXfer", read_offset + 1)
    \/ d.ret = "error" /\ Responded(d, "Xfer", "Err", read_offset)

CompleteXferFirmwareResponse(d) ==
    \/ d.ret = "ok" /\ Responded(d, "CompleteXfer", "GetProgress", read_offset)
    \/ d.ret = "error" /\ Responded(d, "CompleteXfer", "Err", read_offset)

(* Mutant: any answer is taken for a finished upgrade.                     *)
GetProgressResponseAny(d) ==
    \/ d.ret \in {"ok", "again"} /\ Responded(d, "Progress", "Complete", read_offset)
    \/ d.ret = "error" /\ Responded(d, "Progress", "Err", read_offset)

(* "again" is a progress below 100.                                        *)
GetProgressResponse(d) ==
    \/ d.ret = "ok" /\ Responded(d, "Progress", "Complete", read_offset)
    \/ d.ret = "again" /\ Responded(d, "Progress", "GetProgress", read_offset)
    \/ d.ret = "error" /\ Responded(d, "Progress", "Err", read_offset)

UpgradeCompleteResponse(d) ==
    \/ d.ret = "ok" /\ Responded(d, "Reboot", "Reinit", read_offset)
    \/ d.ret = "error" /\ Responded(d, "Reboot", "Err", read_offset)
-----------------------------------------------------------------------------
(* The same handlers when the time is up: the event is repeated until the  *)
(* limit.  A reboot that is never answered counts as done.                 *)
Repeated(k) ==
    CASE k = "Start"        -> "Request"
      [] k = "Xfer"         -> "Xfer"
      [] k = "CompleteXfer" -> "CompleteXfer"
      [] k = "Progress"     -> "GetProgress"
      [] k = "Reboot"       -> "Complete"
Limit(k) == IF k = "Progress" THEN ProgressLimit ELSE UpgradeTryLimit
Final(k) == IF k = "Reboot" THEN "Reinit" ELSE "Err"

LastTry(c) == try_count + 1 >= Limit(c.of.kind)
EventAfter(c) == IF LastTry(c) THEN Final(c.of.kind) ELSE Repeated(c.of.kind)

Counted(c) ==
    /\ FsmEventHandler(EventAfter(c), read_offset)
    /\ try_count' = IF LastTry(c) THEN 0 ELSE try_count + 1
    /\ UNCHANGED <<object, lidar>>

(* Mutant: after the limit the request is repeated as well.                *)
RequestExpiresTwice(t, c) ==
    /\ t \notin observing
    /\ Expire(t, c, Sent(Repeated(c.of.kind), read_offset))
    /\ Counted(c)
    /\ observing' = observing \cup {t}

RequestExpires(t, c) ==
    /\ t \notin observing
    /\ Expire(t, c, EventSends(EventAfter(c), read_offset))
    /\ Counted(c)
    /\ observing' = observing \cup {t}

(* The request could not be sent: its handler is called inside the         *)
(* FsmEventHandler that was sending it, and the command stays.             *)
RequestRefused(u) ==
    /\ Recall(u, EventSends(EventAfter(u.cmd), read_offset))
    /\ Counted(u.cmd)
    /\ UNCHANGED observing
-----------------------------------------------------------------------------
(* ~LivoxLidarUpgrader looks every 100 ms, the first time after 100 ms: by *)
(* then the thread has run.  It waits for that thread to end, but for no   *)
(* other that may be in FsmEventHandler.                                   *)
Destroy ==
    /\ object = "started"
    /\ fsm_state \in {"Idle", "Err"}
    /\ "start" \notin observing
    /\ object' = "destroyed"
    /\ UNCHANGED <<layer, machine, observing, lidar>>

(* The lidar.  An accepted start clears its memory; it accepts the end of  *)
(* the transfer only with every block, and its progress comes to 100 only  *)
(* after that.                                                             *)
LidarStarts(d) ==
    /\ d.cmd.of.kind = "Start"
    /\ \/ LidarAnswers(d, "ok") /\ memory' = {} /\ flashed' = FALSE
       \/ \E ret \in {"again", "error"} : LidarAnswers(d, ret) /\ UNCHANGED lidar
    /\ UNCHANGED <<machine, object, observing>>

LidarStores(d) ==
    /\ d.cmd.of.kind = "Xfer"
    /\ \/ LidarAnswers(d, "ok") /\ memory' = memory \cup {d.cmd.of.block}
       \/ LidarAnswers(d, "error") /\ UNCHANGED memory
    /\ UNCHANGED <<machine, object, observing, flashed>>

LidarProgresses(d) ==
    /\ d.cmd.of.kind = "Progress"
    /\ \/ LidarAnswers(d, "ok") /\ flashed' = TRUE
       \/ \E ret \in {"again", "error"} : LidarAnswers(d, ret) /\ UNCHANGED flashed
    /\ UNCHANGED <<machine, object, observing, memory>>

LidarAnswersRest(d) ==
    /\ d.cmd.of.kind \in {"CompleteXfer", "Reboot"}
    /\ \E ret \in {"ok", "error"} : LidarAnswers(d, ret)
    /\ UNCHANGED <<machine, object, observing, lidar>>

UpgradeLayerStep ==
    /\ SendNext \/ SendNextFails \/ AddCommand \/ \E d \in air : IgnoreAnswer(d)
    /\ UNCHANGED <<machine, object, observing, lidar>>

UpgradeNext ==
    \/ StartUpgradeLivoxLidar
    \/ \E d \in air :
          \/ StartUpgradeResponse(d)
          \/ XferFirmwareResponse(d)
          \/ CompleteXferFirmwareResponse(d)
          \/ GetProgressResponse(d)
          \/ UpgradeCompleteResponse(d)
          \/ LidarStarts(d) \/ LidarStores(d) \/ LidarProgresses(d) \/ LidarAnswersRest(d)
    \/ \E t \in Threads, c \in commands : RequestExpires(t, c)
    \/ \E u \in unsent : RequestRefused(u)
    \/ \E t \in {"start"} \cup Threads : Observe(t)
    \/ Destroy
    \/ UpgradeLayerStep

UpgradeSpec == UpgradeInit /\ [][UpgradeNext]_upgrade_vars

(* The threads run, and a lidar does not say for ever that it is busy or   *)
(* not done yet.  Nothing is assumed of the network: the limits end the    *)
(* retries.                                                                *)
UpgradeFairness ==
    /\ WF_upgrade_vars(StartUpgradeLivoxLidar)
    /\ WF_upgrade_vars(\E t \in Threads, c \in {c \in commands : c.of \in UpgradeRequests} :
                  RequestExpires(t, c))
    /\ WF_upgrade_vars(\E u \in {u \in unsent : u.cmd.of \in UpgradeRequests} : RequestRefused(u))
    /\ WF_upgrade_vars(\E t \in {"start"} \cup Threads : Observe(t))
    /\ WF_upgrade_vars(UpgradeLayerStep)
    /\ WF_upgrade_vars(Destroy)
    /\ <>[](\A d \in air : d.ret # "again")

FairUpgradeSpec == UpgradeSpec /\ UpgradeFairness
-----------------------------------------------------------------------------
UpgradeTypeOK ==
    /\ LayerTypeOK(UpgradeRequests)
    /\ fsm_state \in States
    /\ read_offset \in Nat /\ try_count \in Nat
    /\ object \in {"new", "started", "destroyed"}
    /\ observing \subseteq {"start"} \cup Threads
    /\ memory \subseteq Firmware
    /\ failures = 0 =>
          /\ read_offset \in 0 .. Blocks
          /\ try_count \in 0 .. ProgressLimit - 1
          /\ try_count > 0 => fsm_state \notin {"Idle", "Err"}

(* A block that was lost, or whose answer was, is sent again: once the     *)
(* transfer is declared complete the lidar has every block, if every       *)
(* sendto succeeded (XferFirmwareResponseHandler).                         *)
NoBlockMissing ==
    failures = 0 /\ fsm_state \in {"CompleteXfer", "GetProgress", "Complete"} =>
        memory = Firmware

RequestsOut == Cardinality(Waiting) + Len(todo)

(* As long as no sendto fails, the machine is driven by nothing but its    *)
(* own callbacks: until it is in a final state exactly one request is      *)
(* outstanding, the one its state is about, whichever thread repeated it;  *)
(* with none it would stand still for ever, with two it would run twice.   *)
(* In a final state none is left that would be called back for when the    *)
(* object is gone.                                                         *)
OneRequestDrives ==
    failures = 0 /\ object \in {"started", "destroyed"} =>
        IF fsm_state \in {"Idle", "Err"}
        THEN RequestsOut = 0
        ELSE /\ object = "started"
             /\ RequestsOut = 1
             /\ \A r \in {c.of : c \in Waiting} \cup ToSet(todo) :
                   /\ fsm_state = CASE r.kind = "Start"    -> "Request"
                                    [] r.kind = "Progress" -> "GetProgress"
                                    [] r.kind = "Reboot"   -> "Complete"
                                    [] OTHER               -> r.kind
                   /\ r.kind = "Xfer" => r.block = read_offset

(* "upgrade successfully" is printed only of a lidar that has told that    *)
(* its upgrade is at 100, if every sendto succeeded (IsUpgradeComplete).   *)
SuccessMeansFlashed ==
    failures = 0 /\ object = "destroyed" /\ fsm_state = "Idle" => flashed

(* The thread that destroys the object waits for a final state: it gets    *)
(* one, whatever is lost and cannot be sent (~LivoxLidarUpgrader).         *)
UpgradeEnds == object = "started" ~> object = "destroyed"
=============================================================================
