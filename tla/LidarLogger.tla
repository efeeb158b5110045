---------------------------- MODULE LidarLogger ----------------------------
(***************************************************************************)
(* The firmware log of one lidar, as the SDK keeps it: the command thread  *)
(* queues what the lidar pushes, a writing thread of the lidar's handler   *)
(* puts it into files, a deleting thread keeps the directory small, and    *)
(* the user's thread starts and destroys all of it (logger_manager.cpp,    *)
(* logger_handler.cpp, file_manager.cpp).  The real-time log is followed;  *)
(* the exception log has a directory of its own, treated alike.            *)
(*                                                                         *)
(* The lidar writes one log file after the other: a message that creates   *)
(* it, data, and one that ends it, numbered by trans_index.  Datagrams get *)
(* lost, and at most Faults of them arrive twice or late.                  *)
(***************************************************************************)
EXTENDS Integers, Sequences, FiniteSets, SequencesExt

CONSTANTS Files,       \* how many files the lidar pushes
          LastIndex,   \* trans_index of the message that ends a file
          CacheSize,   \* max_realtimelog_cache_size_, in messages stored
          MaxSeconds,  \* bound of the seconds that pass between files
          Faults       \* bound of the datagrams that are lost, doubled or delayed

ASSUME LoggerAssumption ==
    /\ Files \in Nat \ {0} /\ LastIndex \in Nat \ {0}
    /\ MaxSeconds \in Nat /\ Faults \in Nat

VARIABLES
    pushed,         \* the message that the lidar sends next
    late,           \* datagrams that may still arrive, again or late
    faults,         \* how many datagrams have been lost, doubled or delayed
    detected,       \* the lidar is in devices_info_
    log_enable_,
    cmd,            \* the command thread: what it does, and with which message
    handler,        \* handlers_ has an entry of the lidar: "none", "null", "open"
    queue_,         \* of the handler
    writer,         \* its thread: [pc, batch]
    second,         \* the second in which the last file was created
    current_file,   \* current_files_: [fp, name, file_index, trans_index], and
                    \* the name the open file has in the directory, if any: link
    disk,           \* names in the directory, each with what the file holds
    deleter,        \* the deleting thread: [pc, names]
    user            \* the thread that calls Init and Destory

source == <<pushed, late, faults>>
table == <<detected, handler>>
files == <<second, current_file, disk>>
logger == <<log_enable_, deleter, user>>
logVars == <<source, table, cmd, queue_, writer, files, logger>>

Messages == [file_index : 1 .. Files + 1, trans_index : 0 .. LastIndex]
Creates(m) == m.trans_index = 0
Ends(m) == m.trans_index = LastIndex

(* A name says when the file was created, and which it is; it begins with  *)
(* a dot while the file is open.                                           *)
Names == [time : 0 .. MaxSeconds, file_index : 1 .. Files, hidden : BOOLEAN]
Shown(n) == [n EXCEPT !.hidden = FALSE]
Hidden(n) == [n EXCEPT !.hidden = TRUE]

NoFile == [fp |-> FALSE, name |-> [time |-> 0, file_index |-> 1, hidden |-> TRUE],
           file_index |-> 0, trans_index |-> 0, link |-> {}]

(* A directory may have a file of an earlier program, hidden if that one    *)
(* did not come to close it.                                               *)
Earlier == [time |-> 0, file_index |-> 1, hidden |-> TRUE]

LoggerInit ==
    /\ pushed = [file_index |-> 1, trans_index |-> 0]
    /\ late = {} /\ faults = 0 /\ second = 0
    /\ detected = FALSE
    /\ log_enable_ = FALSE
    /\ cmd = [pc |-> "idle", msg |-> pushed]
    /\ handler = "none"
    /\ queue_ = <<>>
    /\ writer = [pc |-> "none", batch |-> <<>>]
    /\ current_file = NoFile
    /\ \E old \in {{}, {Earlier}, {Shown(Earlier)}} : disk = [n \in old |-> <<pushed>>]
    /\ deleter = [pc |-> "none", names |-> {}]
    /\ user = "new"
-----------------------------------------------------------------------------
(* The lidar and the network.  The lidar pushes once it has been told to,  *)
(* by this program or by an earlier one, and until it hears StopAllLogger. *)
Arrives(m) ==
    /\ cmd.pc = "idle"
    /\ cmd' = [pc |-> "received", msg |-> m]

(* In time, lost, twice, or later than what follows it.                    *)
Push ==
    /\ pushed.file_index <= Files
    /\ pushed' = IF Ends(pushed) THEN [file_index |-> pushed.file_index + 1, trans_index |-> 0]
                                 ELSE [pushed EXCEPT !.trans_index = @ + 1]
    /\ \/ Arrives(pushed) /\ UNCHANGED <<late, faults>>
       \/ /\ faults < Faults /\ faults' = faults + 1
          /\ \/ UNCHANGED <<cmd, late>>
             \/ late' = late \cup {pushed} /\ (Arrives(pushed) \/ UNCHANGED cmd)
    /\ UNCHANGED <<table, queue_, writer, files, logger>>

ArrivesLate(m) ==
    /\ m \in late
    /\ Arrives(m)
    /\ late' = late \ {m}
    /\ UNCHANGED <<pushed, faults, table, queue_, writer, files, logger>>
-----------------------------------------------------------------------------
(* The command thread.  AddDevice, when the lidar answers a detection.     *)
AddDevice ==
    /\ ~detected /\ cmd.pc = "idle"
    /\ detected' = TRUE
    /\ UNCHANGED <<source, handler, cmd, queue_, writer, files, logger>>

(* Handler up to the look-up in handlers_; the message has been answered.  *)
(* Init of a new handler starts its thread.                                *)
Handler ==
    /\ cmd.pc = "received"
    /\ LET opens == log_enable_ /\ Creates(cmd.msg) /\ handler = "none"
           stores == log_enable_ /\ (opens \/ handler # "none") IN
       /\ cmd' = [cmd EXCEPT !.pc = IF stores THEN "store" ELSE "idle"]
       /\ handler' = IF ~opens THEN handler ELSE IF detected THEN "open" ELSE "null"
       /\ IF opens /\ detected
          THEN /\ writer' = [pc |-> "top", batch |-> <<>>]
               /\ current_file' = NoFile
               /\ queue_' = <<>>
          ELSE UNCHANGED <<writer, current_file, queue_>>
    /\ UNCHANGED <<source, detected, second, disk, logger>>

(* StoreLogBag.  A handler that is null, or that Destory has meanwhile     *)
(* erased, is no longer there to store anything: the program may crash.    *)
StoreLogBag ==
    /\ cmd.pc = "store"
    /\ \/ /\ handler = "open"
          /\ queue_' = Append(queue_, cmd.msg)
          /\ cmd' = [cmd EXCEPT !.pc = IF Ends(cmd.msg) THEN "notify" ELSE "idle"]
       \/ /\ handler # "open"
          /\ cmd' = [cmd EXCEPT !.pc = "crashed"]
          /\ UNCHANGED queue_
    /\ UNCHANGED <<source, table, writer, files, logger>>

Locked == deleter.pc = "remove"    \* mutex_

(* The rest of OnLoggerStopped: the deleting thread may look earlier.      *)
NotifyDeleter ==
    /\ cmd.pc = "notify" /\ ~Locked
    /\ cmd' = [cmd EXCEPT !.pc = "idle"]
    /\ UNCHANGED <<source, table, queue_, writer, files, logger>>
-----------------------------------------------------------------------------
(* The writing thread.  A name without a file is not in the domain of disk.*)
Without(d, n) == [m \in DOMAIN d \ {n} |-> d[m]]
With(d, n, content) == [m \in DOMAIN d \cup {n} |-> IF m = n THEN content ELSE d[m]]

(* ChangeCurrentFileName: nothing without the file, else over what has the *)
(* shown name.                                                             *)
ChangeCurrentFileName(d, n) ==
    IF n \in DOMAIN d THEN With(Without(d, n), Shown(n), d[n]) ELSE d

Closed == IF current_file.fp THEN ChangeCurrentFileName(disk, current_file.name) ELSE disk
ClosedFile == [current_file EXCEPT !.fp = FALSE, !.link = {}]

(* The file of the last message is closed and shown; fopen appends to a    *)
(* file that has the name already.                                         *)
CreateFile(m) ==
    /\ second' \in {second, second + 1} \cap 1 .. MaxSeconds
    /\ LET name == [time |-> second', file_index |-> m.file_index, hidden |-> TRUE]
           old == IF name \in DOMAIN Closed THEN Closed[name] ELSE <<>> IN
       /\ disk' = With(Closed, name, Append(old, m))
       /\ current_file' = [fp |-> TRUE, name |-> name, file_index |-> m.file_index,
                           trans_index |-> 0, link |-> {name}]

(* A file with another index is not written to, one that is closed neither.*)
WriteFile(m) ==
    /\ UNCHANGED second
    /\ IF current_file.file_index # m.file_index THEN UNCHANGED <<disk, current_file>>
       ELSE /\ disk' = [n \in DOMAIN disk |->
                           IF n \in current_file.link THEN Append(disk[n], m) ELSE disk[n]]
            /\ current_file' = [current_file EXCEPT !.trans_index = m.trans_index]

StopFile(m) ==
    /\ UNCHANGED second
    /\ disk' = Closed
    /\ current_file' = [ClosedFile EXCEPT !.trans_index = m.trans_index]

(* A message older than the last is skipped without being popped.  Mutant: *)
(* only one of another file is.                                            *)
OlderOnlyOther(m) == m.file_index # current_file.file_index /\ ~Creates(m)

Older(m) == m.trans_index < current_file.trans_index /\ ~Creates(m)

(* SaveToFile: the queue is taken as a whole, and written message by       *)
(* message.                                                                *)
TakeQueue ==
    /\ writer.pc = "top"
    /\ writer' = [pc |-> "write", batch |-> queue_]
    /\ queue_' = <<>>
    /\ UNCHANGED <<source, table, cmd, files, logger>>

StopWriting == user \in {"join_writer", "clear"}    \* is_stop_write_

EndWrite ==
    /\ writer.pc = "write" /\ writer.batch = <<>>
    /\ writer' = [writer EXCEPT !.pc = IF StopWriting THEN "ended" ELSE "top"]
    /\ UNCHANGED <<source, table, cmd, queue_, files, logger>>

Write ==
    /\ writer.pc = "write" /\ writer.batch # <<>>
    /\ writer' = [writer EXCEPT !.batch = Tail(@)]
    /\ LET m == Head(writer.batch) IN
       /\ ~Older(m)
       /\ \/ Creates(m) /\ CreateFile(m)
          \/ Ends(m) /\ StopFile(m)
          \/ ~Creates(m) /\ ~Ends(m) /\ WriteFile(m)
    /\ UNCHANGED <<source, table, cmd, queue_, logger>>
-----------------------------------------------------------------------------
(* The deleting thread, CycleDelete.                                       *)
TooMuch == FoldFunction(LAMBDA content, sum : sum + Len(content), 0, disk) > CacheSize

(* GetFileNames passes over names that are hidden.  Mutant: it does not.   *)
ListedHidden == DOMAIN disk

Listed == {n \in DOMAIN disk : ~n.hidden}

(* StoreFileName: names in the order of the time they begin with.          *)
Oldest(names) == {n \in names : \A m \in names : n.time <= m.time}

(* Mutant: Destory does not clear the flag before it joins the thread.     *)
CycleStays == user \in {"running", "notify", "join_deleter"}

CycleEnabled == user = "running"    \* log_cycle_delete_enable_

StartCycle ==
    /\ deleter.pc = "top"
    /\ deleter' = [deleter EXCEPT !.pc = IF CycleEnabled THEN "wait" ELSE "ended"]
    /\ UNCHANGED <<source, table, cmd, queue_, writer, files, log_enable_, user>>

(* Woken, or after 600 s; the names are taken once.                        *)
Measure ==
    /\ deleter.pc = "wait"
    /\ deleter' = [pc |-> "remove", names |-> IF TooMuch THEN Listed ELSE {}]
    /\ UNCHANGED <<source, table, cmd, queue_, writer, files, log_enable_, user>>

RemoveOldest ==
    /\ deleter.pc = "remove" /\ TooMuch
    /\ \E n \in Oldest(deleter.names) :
          /\ disk' = Without(disk, n)
          /\ current_file' = [current_file EXCEPT !.link = @ \ {n}]
          /\ deleter' = [deleter EXCEPT !.names = @ \ {n}]
    /\ UNCHANGED <<source, table, cmd, queue_, writer, second, log_enable_, user>>

EndCycle ==
    /\ deleter.pc = "remove" /\ (~TooMuch \/ deleter.names = {})
    /\ deleter' = [pc |-> "top", names |-> {}]
    /\ UNCHANGED <<source, table, cmd, queue_, writer, files, log_enable_, user>>
-----------------------------------------------------------------------------
(* The user's thread.  ChangeHiddenFiles shows every hidden file, over the *)
(* one that has its name.                                                  *)
ChangeHiddenFiles ==
    LET kept == {n \in DOMAIN disk : n.hidden \/ Hidden(n) \notin DOMAIN disk}
        shown(names) == {Shown(n) : n \in kept \cap names} IN
    /\ disk' = [n \in shown(Names) |-> disk[IF Hidden(n) \in kept THEN Hidden(n) ELSE n]]
    /\ current_file' = [current_file EXCEPT !.link = shown(@)]
    /\ UNCHANGED second

(* LoggerManager::Init.                                                    *)
Initialise ==
    /\ user = "new"
    /\ user' = "running"
    /\ log_enable_' = TRUE
    /\ ChangeHiddenFiles
    /\ deleter' = [deleter EXCEPT !.pc = "top"]
    /\ UNCHANGED <<source, table, cmd, queue_, writer>>

(* Destory, up to the lock; a second one does nothing.                     *)
Destory ==
    /\ user = "running"
    /\ user' = "notify"
    /\ UNCHANGED <<source, table, cmd, queue_, writer, files, log_enable_, deleter>>

StopCycle ==
    /\ user = "notify" /\ ~Locked
    /\ user' = "join_deleter"
    /\ UNCHANGED <<source, table, cmd, queue_, writer, files, log_enable_, deleter>>

JoinDeleter ==
    /\ user = "join_deleter" /\ deleter.pc = "ended"
    /\ user' = IF handler = "open" THEN "join_writer" ELSE "clear"
    /\ UNCHANGED <<source, table, cmd, queue_, writer, files, log_enable_, deleter>>

(* LoggerHandler::Destory closes the file under the name it has.           *)
JoinWriter ==
    /\ user = "join_writer" /\ writer.pc = "ended"
    /\ current_file' = ClosedFile
    /\ user' = "clear"
    /\ UNCHANGED <<source, table, cmd, queue_, writer, second, disk, log_enable_, deleter>>

(* handlers_ is cleared; one that has come in between ends with it.        *)
ClearHandlers ==
    /\ user = "clear" /\ writer.pc \in {"none", "ended"}
    /\ handler' = "none"
    /\ queue_' = <<>>
    /\ writer' = [pc |-> "none", batch |-> <<>>]
    /\ current_file' = ClosedFile
    /\ user' = "stop_all"
    /\ UNCHANGED <<source, detected, cmd, second, disk, log_enable_, deleter>>

(* StopAllLogger tells the lidar, which may not hear it; then the rest.    *)
EndDestory ==
    /\ user = "stop_all"
    /\ ChangeHiddenFiles
    /\ log_enable_' = FALSE
    /\ user' = "done"
    /\ UNCHANGED <<source, table, cmd, queue_, writer, deleter>>
-----------------------------------------------------------------------------
CmdStep == Handler \/ StoreLogBag \/ NotifyDeleter
WriterStep == TakeQueue \/ Write \/ EndWrite
DeleterStep == StartCycle \/ Measure \/ RemoveOldest \/ EndCycle
DestoryStep == StopCycle \/ JoinDeleter \/ JoinWriter \/ ClearHandlers \/ EndDestory

Running(A) == cmd.pc # "crashed" /\ A

LoggerNext == Running(\/ Push \/ AddDevice
                      \/ \E m \in Messages : ArrivesLate(m)
                      \/ CmdStep \/ WriterStep \/ DeleterStep
                      \/ Initialise \/ Destory \/ DestoryStep)

(* Each thread goes on; a waiting one is woken, or wakes after 600 s.      *)
LoggerFairness ==
    /\ WF_logVars(Running(CmdStep)) /\ WF_logVars(Running(WriterStep))
    /\ WF_logVars(Running(DeleterStep)) /\ WF_logVars(Running(DestoryStep))

LoggerSpec == LoggerInit /\ [][LoggerNext]_logVars /\ LoggerFairness
-----------------------------------------------------------------------------
(* A file holds messages of one file of the lidar; after each message that *)
(* creates it they are in their order, whatever the network does; and one  *)
(* that is shown is whole as long as nothing was lost, doubled or delayed  *)
(* (logger_handler.cpp, Write).                                            *)
FilesSound ==
    \A n \in DOMAIN disk :
        /\ \A i \in DOMAIN disk[n] :
              /\ disk[n][i].file_index = n.file_index
              /\ i = 1 \/ Creates(disk[n][i]) \/ disk[n][i - 1].trans_index <= disk[n][i].trans_index
        /\ n.time > 0 /\ ~n.hidden /\ faults = 0 /\ user = "running" => Len(disk[n]) = LastIndex

(* What the deleting thread removes is not the file being written, and no  *)
(* file that was closed before it is kept (logger_manager.cpp, CycleDelete).*)
DeletesOldest ==
    [][\A n \in DOMAIN disk \ DOMAIN disk' :
          deleter.pc = "remove" /\ deleter' # deleter =>
              /\ n \notin current_file.link
              /\ \A m \in DOMAIN disk' : m.hidden \/ m.time >= n.time]_logVars

(* Destory comes back: the only thing that can hold it is a message older  *)
(* than the one before, on which Write loops (logger_handler.cpp:187).     *)
Loops == writer.pc = "write" /\ writer.batch # <<>> /\ Older(Head(writer.batch))
DestoryReturns == user = "notify" ~> user = "done" \/ Loops \/ cmd.pc = "crashed"
=============================================================================
