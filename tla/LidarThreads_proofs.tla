-------------------------- MODULE LidarThreads_proofs --------------------------
(***************************************************************************)
(* Theorems about threads that hand over to each other: those of the lidar *)
(* driver (LidarHandoff), for every number of lidars and every capacity,   *)
(* and those of the firmware log (LidarLogger), for any number of files    *)
(* and messages, whatever is lost, doubled or delayed on the network.      *)
(***************************************************************************)
EXTENDS LidarHandoff, LidarLogger, TLAPS

(* Where the polling thread goes after a lidar: to the next one, or out of *)
(* the loop.                                                               *)
LEMMA NextLidarType ==
    ASSUME TypeOK, NextLidar, poller.pc \in {"visit", "poll"}
    PROVE  /\ poller' \in [pc : {"visit", "future"}, lidar : Lidars]
           /\ \/ poller'.pc = "future" /\ poller.lidar = N - 1
              \/ poller'.pc = "visit" /\ poller'.lidar = poller.lidar + 1
BY NAssumption DEF TypeOK, NextLidar, Goes, Lidars

(* What answers for the items of lidar l.                                  *)
Covered(l) == count > 0 \/ WillSignal(l) \/ WillVisit(l) \/ l \in skipped \/ request_exit

(* Type correctness.                                                       *)
LEMMA TypeInit == Init => TypeOK
<1> SUFFICES ASSUME Init PROVE TypeOK
  OBVIOUS
<1>1. 0 \in Lidars
  BY NAssumption DEF Lidars
<1>2. queued \in [Lidars -> 0 .. Capacity] /\ count \in Nat
  BY CapacityAssumption DEF Init
<1>3. QED
  BY <1>1, <1>2 DEF Init, TypeOK

LEMMA TypeStep == TypeOK /\ [Next]_vars => TypeOK'
<1> SUFFICES ASSUME TypeOK, [Next]_vars PROVE TypeOK'
  OBVIOUS
<1> USE DEF TypeOK, queues, exit, At, Goes
<1>1. CASE UNCHANGED vars
  BY <1>1 DEF vars
<1>2. ASSUME NEW l \in Lidars, StartSampling(l) PROVE TypeOK'
  BY <1>2 DEF StartSampling
<1>3. ASSUME NEW l \in Lidars, Store(l) PROVE TypeOK'
  BY <1>3, CapacityAssumption DEF Store
<1>4. ASSUME NEW l \in Lidars, DropFull(l) PROVE TypeOK'
  BY <1>4 DEF DropFull
<1>5. CASE TestQueue
  BY <1>5 DEF TestQueue
<1>6. CASE TestCount
  BY <1>6 DEF TestCount
<1>7. CASE Signal
  BY <1>7 DEF Signal
<1>8. CASE Distribute
  BY <1>8, NAssumption DEF Distribute, Lidars
<1>9. CASE Wait
  BY <1>9, NAssumption DEF Wait, Lidars
<1>10. CASE VisitSampling
  BY <1>10 DEF VisitSampling
<1>11. CASE VisitOff
  BY <1>11, NextLidarType DEF VisitOff
<1>12. CASE Publish
  BY <1>12, CapacityAssumption DEF Publish
<1>13. CASE Drained
  BY <1>13 DEF Drained
<1>14. CASE LeaveLidar
  BY <1>14, NextLidarType DEF LeaveLidar
<1>15. CASE TestFuture
  BY <1>15, NAssumption DEF TestFuture, Lidars
<1>16. CASE RequestExit
  BY <1>16 DEF RequestExit
<1>17. CASE SetValue
  BY <1>17 DEF SetValue
<1>18. CASE Join
  BY <1>18 DEF Join
<1>19. QED
  BY <1>1, <1>2, <1>3, <1>4, <1>5, <1>6, <1>7, <1>8, <1>9, <1>10, <1>11, <1>12, <1>13, <1>14,
     <1>15, <1>16, <1>17, <1>18
  DEF Next, Arrival, ProducerStep, PollerStep, Shutdown

(* Every state of the handoff has its type.                                *)
THEOREM TypeCorrect == Spec => []TypeOK
  BY TypeInit, TypeStep, PTL DEF Spec

(* The semaphore holds at most one token: only the storing thread adds one,*)
(* and it does so after it has seen none, which the polling thread can only*)
(* make more true.                                                         *)
THEOREM OneTokenHolds == Spec => []OneToken
<1>1. Init => OneToken
  BY DEF Init, OneToken, At
<1>2. TypeOK /\ OneToken /\ [Next]_vars => OneToken'
  <2> SUFFICES ASSUME TypeOK, OneToken, [Next]_vars PROVE OneToken'
    OBVIOUS
  <2> USE DEF OneToken, TypeOK, queues, exit, At, Goes
  <2>1. CASE UNCHANGED <<count, producer>>
    BY <2>1
  <2>2. ASSUME NEW l \in Lidars, Store(l) PROVE OneToken'
    BY <2>2 DEF Store
  <2>3. ASSUME NEW l \in Lidars, DropFull(l) PROVE OneToken'
    BY <2>3 DEF DropFull
  <2>4. CASE TestQueue
    BY <2>4 DEF TestQueue
  <2>5. CASE TestCount
    BY <2>5 DEF TestCount
  <2>6. CASE Signal
    BY <2>6 DEF Signal
  <2>7. CASE Wait
    BY <2>7 DEF Wait
  <2>8. QED
    BY <2>1, <2>2, <2>3, <2>4, <2>5, <2>6, <2>7
    DEF Next, Arrival, ProducerStep, PollerStep, Shutdown, vars, StartSampling, Distribute,
        VisitSampling, VisitOff, Publish, Drained, LeaveLidar, TestFuture, RequestExit, SetValue, Join
<1>3. QED
  BY <1>1, <1>2, TypeCorrect, PTL DEF Spec

(* No wake-up is lost.  NoLostWakeup is inductive with the type invariant: *)
(* the item of a lidar is answered for by the storing thread until it has  *)
(* seen or made a token, by the token until the polling thread takes it,   *)
(* and then by the round that begins at lidar 0.                           *)
THEOREM NoLostWakeupHolds == Spec => []NoLostWakeup
<1>1. Init => NoLostWakeup
  BY DEF Init, NoLostWakeup
<1>2. TypeOK /\ NoLostWakeup /\ [Next]_vars => NoLostWakeup'
  <2> SUFFICES ASSUME TypeOK, NoLostWakeup, [Next]_vars,
                      NEW k \in Lidars, queued'[k] > 0
               PROVE  Covered(k)'
    BY DEF NoLostWakeup, Covered
  <2> USE DEF TypeOK, queues, exit, At, Goes, Covered, WillSignal, WillVisit
  <2>0. queued[k] > 0 => Covered(k)
    BY DEF NoLostWakeup, Covered
  <2>1. CASE UNCHANGED vars
    BY <2>0, <2>1 DEF vars
  <2>2. ASSUME NEW l \in Lidars, StartSampling(l) PROVE Covered(k)'
    BY <2>0, <2>2 DEF StartSampling
  <2>3. ASSUME NEW l \in Lidars, Store(l) PROVE Covered(k)'
    BY <2>0, <2>3 DEF Store
  <2>4. ASSUME NEW l \in Lidars, DropFull(l) PROVE Covered(k)'
    BY <2>0, <2>4 DEF DropFull
  <2>5. CASE TestQueue
    BY <2>0, <2>5 DEF TestQueue
  <2>6. CASE TestCount
    BY <2>0, <2>6 DEF TestCount
  <2>7. CASE Signal
    BY <2>0, <2>7 DEF Signal
  <2>8. CASE Distribute
    BY <2>0, <2>8 DEF Distribute
  <2>9. CASE Wait
    BY <2>0, <2>9 DEF Wait, Lidars
  <2>10. CASE VisitSampling
    BY <2>0, <2>10 DEF VisitSampling, Lidars
  <2>11. CASE VisitOff
    BY <2>0, <2>11, NextLidarType DEF VisitOff, Lidars
  <2>12. CASE Publish
    BY <2>0, <2>12 DEF Publish
  <2>13. CASE Drained
    BY <2>0, <2>13 DEF Drained
  <2>14. CASE LeaveLidar
    BY <2>0, <2>14, NextLidarType DEF LeaveLidar, Lidars
  <2>15. CASE TestFuture
    BY <2>0, <2>15 DEF TestFuture
  <2>16. CASE RequestExit
    BY <2>0, <2>16 DEF RequestExit
  <2>17. CASE SetValue
    BY <2>0, <2>17 DEF SetValue
  <2>18. CASE Join
    BY <2>0, <2>18 DEF Join
  <2>19. QED
    BY <2>1, <2>2, <2>3, <2>4, <2>5, <2>6, <2>7, <2>8, <2>9, <2>10,
       <2>11, <2>12, <2>13, <2>14, <2>15, <2>16, <2>17, <2>18
    DEF Next, Arrival, ProducerStep, PollerStep, Shutdown
<1>3. QED
  BY <1>1, <1>2, TypeCorrect, PTL DEF Spec
-----------------------------------------------------------------------------
(* The firmware log.  The messages that can be sent, and their order.      *)
Sendable == [file_index : 1 .. Files, trans_index : 0 .. LastIndex]

After(m) ==
    IF Ends(m) THEN [file_index |-> m.file_index + 1, trans_index |-> 0]
               ELSE [m EXCEPT !.trans_index = @ + 1]

FileRecords == [fp : BOOLEAN, name : Names, file_index : 0 .. Files,
                trans_index : 0 .. LastIndex, link : SUBSET Names]

LoggerTypeOK ==
    /\ pushed \in Messages
    /\ late \subseteq Sendable /\ faults \in Nat
    /\ detected \in BOOLEAN /\ log_enable_ \in BOOLEAN
    /\ cmd \in [pc : {"idle", "received", "store", "notify", "crashed"}, msg : Sendable]
    /\ handler \in {"none", "null", "open"}
    /\ queue_ \in Seq(Sendable)
    /\ writer \in [pc : {"none", "top", "write", "ended"}, batch : Seq(Sendable)]
    /\ second \in 0 .. MaxSeconds
    /\ current_file \in FileRecords
    /\ DOMAIN disk \subseteq Names /\ disk \in [DOMAIN disk -> Seq(Sendable)]
    /\ deleter \in [pc : {"none", "top", "wait", "remove", "ended"}, names : SUBSET Names]
    /\ user \in {"new", "running", "notify", "join_deleter", "join_writer", "clear",
                  "stop_all", "done"}

(* What a file holds: messages of its own number, in their order.          *)
OfFile(k, content) == \A i \in DOMAIN content : content[i].file_index = k
Sorted(content) ==
    \A i \in DOMAIN content :
        i = 1 \/ Creates(content[i]) \/ content[i - 1].trans_index <= content[i].trans_index
EndsBy(t, content) == content # <<>> /\ content[Len(content)].trans_index <= t

ContentInv ==
    /\ \A n \in DOMAIN disk : OfFile(n.file_index, disk[n]) /\ Sorted(disk[n])
    /\ current_file.link \subseteq DOMAIN disk
    /\ \A n \in current_file.link :
          /\ n.file_index = current_file.file_index
          /\ EndsBy(current_file.trans_index, disk[n])

(* As long as names are deleted there is one handler, and the only hidden  *)
(* file is the one it has open, which is the newest.                       *)
Early == {"running", "notify", "join_deleter"}
Deleting == {"top", "wait", "remove"}

(* The user's thread and the deleting one.                                 *)
StageInv ==
    /\ deleter.pc = "none" <=> user = "new"
    /\ deleter.pc \in Deleting => user \in Early
    /\ deleter.pc # "remove" => deleter.names = {}
    /\ user = "new" => ~log_enable_ /\ handler = "none"
    /\ user = "running" => log_enable_
    /\ user \in Early \cup {"new"} /\ handler # "open" =>
          writer.pc = "none" /\ current_file = NoFile

Newest ==
    /\ \A n \in DOMAIN disk : n.hidden => current_file.fp /\ n = current_file.name
    /\ current_file.fp => current_file.name.hidden /\ current_file.name.time = second
    /\ current_file.link \subseteq {current_file.name}
    /\ current_file.link # {} => current_file.fp

(* What the deleting thread has listed is shown, and older than the rest.  *)
ListedIsOlder ==
    /\ \A n \in deleter.names : ~n.hidden /\ n.time <= second
    /\ \A n \in deleter.names, m \in DOMAIN disk \ deleter.names :
          m.hidden \/ m.time >= n.time

CycleInv ==
    /\ user \in Early \cup {"new"} => \A n \in DOMAIN disk : n.time <= second
    /\ user \in Early => Newest /\ ListedIsOlder

(* A sequence of messages that follow each other up to m, and its first.   *)
Leads(s, m) ==
    \A i \in DOMAIN s : After(s[i]) = IF i = Len(s) THEN m ELSE s[i + 1]
FirstOf(s, m) == IF s = <<>> THEN m ELSE Head(s)

Received == IF cmd.pc \in {"received", "store"} THEN cmd.msg ELSE pushed
Queued == FirstOf(queue_, Received)
Written == FirstOf(writer.batch, Queued)

(* While nothing goes wrong on the network every message that was sent     *)
(* since the handler opened is on its way, and what the file in hand needs *)
(* next comes next.                                                        *)
Calm == faults = 0 /\ user \in {"new", "running"}

Expected(m) ==
    IF current_file.fp
    THEN /\ current_file.trans_index < LastIndex
         /\ m = [file_index |-> current_file.file_index,
                 trans_index |-> current_file.trans_index + 1]
    ELSE Creates(m) /\ m.file_index > current_file.file_index

ChainInv ==
    Calm =>
        /\ late = {}
        /\ cmd.pc \in {"received", "store"} => After(cmd.msg) = pushed
        /\ handler = "open" =>
              /\ Leads(queue_, Received) /\ Leads(writer.batch, Queued)
              /\ Expected(Written)
              /\ writer.pc = "top" => writer.batch = <<>>

WholeInv ==
    Calm =>
        /\ handler # "open" => \A n \in DOMAIN disk : n.time = 0
        /\ handler = "open" =>
              /\ current_file.fp =>
                    /\ current_file.link = {current_file.name}
                    /\ Len(disk[current_file.name]) = current_file.trans_index + 1
              /\ \A n \in DOMAIN disk : n.time > 0 =>
                    /\ n.file_index <= current_file.file_index
                    /\ n.hidden \/ Len(disk[n]) = LastIndex

LoggerInv == LoggerTypeOK /\ ContentInv /\ StageInv /\ CycleInv /\ ChainInv /\ WholeInv
-----------------------------------------------------------------------------
(* Names, and what closing, writing and renaming leave in the directory.   *)
LEMMA NameFacts ==
    ASSUME NEW n \in Names
    PROVE  /\ n.time \in 0 .. MaxSeconds /\ n.file_index \in 1 .. Files /\ n.hidden \in BOOLEAN
           /\ Shown(n) \in Names /\ ~Shown(n).hidden
           /\ Shown(n).time = n.time /\ Shown(n).file_index = n.file_index
           /\ Hidden(n) \in Names /\ Hidden(n).hidden
           /\ Hidden(n).time = n.time /\ Hidden(n).file_index = n.file_index
           /\ n.hidden => Hidden(n) = n
           /\ ~n.hidden => Shown(n) = n
           /\ Hidden(Shown(n)) = Hidden(n)
  BY DEF Names, Shown, Hidden

(* Every file keeps what it holds, and the open one gets its shown name.   *)
Moved == current_file.fp /\ current_file.name \in DOMAIN disk

LEMMA ClosedIs ==
    ASSUME LoggerTypeOK
    PROVE  /\ DOMAIN Closed = IF Moved THEN (DOMAIN disk \ {current_file.name})
                                            \cup {Shown(current_file.name)}
                                       ELSE DOMAIN disk
           /\ \A n \in DOMAIN Closed :
                 Closed[n] = IF Moved /\ n = Shown(current_file.name)
                             THEN disk[current_file.name] ELSE disk[n]
           /\ DOMAIN Closed \subseteq Names
           /\ Closed \in [DOMAIN Closed -> Seq(Sendable)]
<1> DEFINE name == current_file.name
           rest == Without(disk, name)
           content == disk[name]
<1>1. CASE ~Moved
  <2>1. Closed = disk
    BY <1>1 DEF Closed, Moved, ChangeCurrentFileName
  <2>2. QED
    BY <1>1, <2>1 DEF LoggerTypeOK
<1>2. CASE Moved
  <2>1. Closed = With(rest, Shown(name), content)
    BY <1>2 DEF Closed, Moved, ChangeCurrentFileName
  <2>2. DOMAIN rest = DOMAIN disk \ {name} /\ \A m \in DOMAIN rest : rest[m] = disk[m]
    BY DEF Without
  <2>3. name \in Names /\ Shown(name) \in Names /\ content \in Seq(Sendable)
    BY <1>2, NameFacts DEF LoggerTypeOK, FileRecords, Moved
  <2> HIDE DEF rest, content, name
  <2>4. /\ Closed = [m \in DOMAIN rest \cup {Shown(name)} |->
                         IF m = Shown(name) THEN content ELSE rest[m]]
        /\ DOMAIN Closed = DOMAIN rest \cup {Shown(name)}
        /\ Closed[Shown(name)] = content
        /\ \A m \in DOMAIN rest : m # Shown(name) => Closed[m] = rest[m]
    BY <2>1 DEF With
  <2>5. \A n \in DOMAIN Closed : Closed[n] = IF n = Shown(name) THEN content ELSE disk[n]
    BY <2>2, <2>4
  <2>6. \A n \in DOMAIN rest : disk[n] \in Seq(Sendable) /\ n \in Names
    BY <2>2 DEF LoggerTypeOK
  <2>7. Closed \in [DOMAIN Closed -> Seq(Sendable)]
    BY <2>2, <2>3, <2>4, <2>6
  <2>8. DOMAIN Closed \subseteq Names
    BY <2>3, <2>4, <2>6
  <2>9. QED
    BY <1>2, <2>2, <2>4, <2>5, <2>7, <2>8 DEF name, content
<1>3. QED
  BY <1>1, <1>2

(* Every file comes out shown, with what a hidden or a shown one held.     *)
LEMMA ChangeHiddenFilesIs ==
    ASSUME LoggerTypeOK, ChangeHiddenFiles
    PROVE  /\ second' = second
           /\ DOMAIN disk' \subseteq Names /\ disk' \in [DOMAIN disk' -> Seq(Sendable)]
           /\ \A n \in DOMAIN disk' :
                 /\ ~n.hidden
                 /\ \E k \in DOMAIN disk : disk'[n] = disk[k] /\ Shown(k) = n
           /\ \E link : /\ link \subseteq Names /\ current_file' = [current_file EXCEPT !.link = link]
                        /\ \A n \in link : \E k \in current_file.link : Shown(k) = n
                        /\ \A n \in link : n \in DOMAIN disk' /\ \E k \in current_file.link :
                              Shown(k) = n /\ disk'[n] = disk[k]
<1> DEFINE kept == {n \in DOMAIN disk : n.hidden \/ Hidden(n) \notin DOMAIN disk}
           shown(names) == {Shown(n) : n \in kept \cap names}
           from(n) == IF Hidden(n) \in kept THEN Hidden(n) ELSE n
<1>1. /\ disk' = [n \in shown(Names) |-> disk[from(n)]]
      /\ current_file' = [current_file EXCEPT !.link = shown(current_file.link)]
      /\ second' = second
  BY DEF ChangeHiddenFiles, LoggerTypeOK, FileRecords
<1>2. kept \subseteq DOMAIN disk /\ DOMAIN disk \subseteq Names
      /\ \A k \in DOMAIN disk : disk[k] \in Seq(Sendable)
  BY DEF LoggerTypeOK
<1>3. ASSUME NEW k \in kept
      PROVE  /\ Shown(k) \in Names /\ ~Shown(k).hidden
             /\ from(Shown(k)) = k
  <2>1. k \in Names
    BY <1>2
  <2>2. /\ Shown(k) \in Names /\ ~Shown(k).hidden /\ Hidden(Shown(k)) = Hidden(k)
        /\ k.hidden => Hidden(k) = k
        /\ ~k.hidden => Shown(k) = k
    BY <2>1, NameFacts
  <2>3. CASE k.hidden
    BY <2>2, <2>3
  <2>4. CASE ~k.hidden
    <3>1. Hidden(k) \notin kept
      BY <2>4
    <3>2. QED
      BY <2>2, <2>4, <3>1
  <2>5. QED
    BY <2>2, <2>3, <2>4
<1>4. ASSUME NEW n \in shown(Names)
      PROVE  /\ n \in Names /\ ~n.hidden
             /\ \E k \in DOMAIN disk : disk[from(n)] = disk[k] /\ Shown(k) = n
             /\ disk[from(n)] \in Seq(Sendable)
  <2>1. PICK k \in kept : n = Shown(k)
    OBVIOUS
  <2>2. QED
    BY <1>2, <1>3, <2>1
<1>5. ASSUME NEW n \in shown(current_file.link)
      PROVE  /\ n \in shown(Names)
             /\ \E k \in current_file.link : Shown(k) = n /\ disk[from(n)] = disk[k]
  <2>1. PICK k \in kept \cap current_file.link : n = Shown(k)
    OBVIOUS
  <2>2. QED
    BY <1>2, <1>3, <2>1
<1> HIDE DEF shown, from, kept
<1>6. DOMAIN disk' = shown(Names) /\ \A n \in shown(Names) : disk'[n] = disk[from(n)]
  BY <1>1
<1>7. disk' \in [DOMAIN disk' -> Seq(Sendable)] /\ DOMAIN disk' \subseteq Names
  BY <1>1, <1>4, <1>6
<1>8. \A n \in DOMAIN disk' : ~n.hidden /\ \E k \in DOMAIN disk : disk'[n] = disk[k] /\ Shown(k) = n
  BY <1>4, <1>6
<1>9. \A n \in shown(current_file.link) : /\ n \in Names /\ n \in DOMAIN disk'
                                        /\ \E k \in current_file.link : Shown(k) = n /\ disk'[n] = disk[k]
  BY <1>4, <1>5, <1>6
<1>10. QED
  BY <1>1, <1>7, <1>8, <1>9
(* A file is created: the open one is closed, and the message is put at the*)
(* end of what has the name already.                                       *)
NewName(m) == [time |-> second', file_index |-> m.file_index, hidden |-> TRUE]
Before(m) == IF NewName(m) \in DOMAIN Closed THEN Closed[NewName(m)] ELSE <<>>

LEMMA CreateFileIs ==
    ASSUME LoggerTypeOK, NEW m \in Sendable, CreateFile(m)
    PROVE  /\ second' \in 1 .. MaxSeconds /\ second <= second'
           /\ NewName(m) \in Names /\ Before(m) \in Seq(Sendable)
           /\ DOMAIN disk' = DOMAIN Closed \cup {NewName(m)}
           /\ disk'[NewName(m)] = Append(Before(m), m)
           /\ \A n \in DOMAIN Closed : n # NewName(m) => disk'[n] = Closed[n]
           /\ DOMAIN disk' \subseteq Names /\ disk' \in [DOMAIN disk' -> Seq(Sendable)]
           /\ current_file' = [fp |-> TRUE, name |-> NewName(m), file_index |-> m.file_index,
                               trans_index |-> 0, link |-> {NewName(m)}]
           /\ current_file' \in FileRecords
<1> DEFINE name == NewName(m)
           content == Append(Before(m), m)
<1>1. /\ second' \in {second, second + 1} \cap 1 .. MaxSeconds
      /\ disk' = With(Closed, name, content)
      /\ current_file' = [fp |-> TRUE, name |-> name, file_index |-> m.file_index,
                          trans_index |-> 0, link |-> {name}]
  BY DEF CreateFile, NewName, Before
<1>2. second \in Nat /\ second' \in 1 .. MaxSeconds /\ second <= second'
  BY <1>1, LoggerAssumption DEF LoggerTypeOK
<1>3. name \in Names
  BY <1>2 DEF NewName, Names, Sendable
<1>4. DOMAIN Closed \subseteq Names /\ Closed \in [DOMAIN Closed -> Seq(Sendable)]
  BY ClosedIs
<1>5. Before(m) \in Seq(Sendable) /\ content \in Seq(Sendable)
  <2>1. Before(m) \in Seq(Sendable)
    BY <1>4 DEF Before
  <2>2. QED
    BY <2>1
<1>6. current_file' \in FileRecords
  BY <1>1, <1>3, LoggerAssumption DEF FileRecords, Sendable
<1> HIDE DEF name, content
<1>7. /\ disk' = [n \in DOMAIN Closed \cup {name} |-> IF n = name THEN content ELSE Closed[n]]
      /\ DOMAIN disk' = DOMAIN Closed \cup {name}
      /\ disk'[name] = content
      /\ \A n \in DOMAIN Closed : n # name => disk'[n] = Closed[n]
  BY <1>1 DEF With
<1>8. disk' \in [DOMAIN disk' -> Seq(Sendable)] /\ DOMAIN disk' \subseteq Names
  BY <1>3, <1>4, <1>5, <1>7
<1>9. QED
  BY <1>1, <1>2, <1>3, <1>5, <1>6, <1>7, <1>8 DEF name, content

(* A message is put at the end of the open file, wherever its name is.     *)
LEMMA WriteFileIs ==
    ASSUME LoggerTypeOK, NEW m \in Sendable, WriteFile(m)
    PROVE  /\ second' = second
           /\ DOMAIN disk' = DOMAIN disk /\ disk' \in [DOMAIN disk' -> Seq(Sendable)]
           /\ current_file' \in FileRecords
           /\ \/ /\ current_file.file_index # m.file_index
                 /\ UNCHANGED <<disk, current_file>>
              \/ /\ current_file.file_index = m.file_index
                 /\ \A n \in DOMAIN disk :
                       disk'[n] = IF n \in current_file.link THEN Append(disk[n], m) ELSE disk[n]
                 /\ current_file' = [current_file EXCEPT !.trans_index = m.trans_index]
<1>1. CASE current_file.file_index # m.file_index
  BY <1>1 DEF WriteFile, LoggerTypeOK
<1>2. CASE current_file.file_index = m.file_index
  <2>1. /\ second' = second
        /\ disk' = [n \in DOMAIN disk |->
                       IF n \in current_file.link THEN Append(disk[n], m) ELSE disk[n]]
        /\ current_file' = [current_file EXCEPT !.trans_index = m.trans_index]
    BY <1>2 DEF WriteFile
  <2>2. \A n \in DOMAIN disk : disk[n] \in Seq(Sendable) /\ Append(disk[n], m) \in Seq(Sendable)
    BY DEF LoggerTypeOK
  <2>3. current_file' \in FileRecords
    BY <2>1 DEF LoggerTypeOK, FileRecords, Sendable
  <2>4. QED
    BY <1>2, <2>1, <2>2, <2>3
<1>3. QED
  BY <1>1, <1>2
-----------------------------------------------------------------------------
(* Types.                                                                  *)
LEMMA AfterType ==
    ASSUME NEW m \in Sendable
    PROVE  After(m) \in Messages /\ (~Ends(m) => After(m) \in Sendable)
  BY LoggerAssumption DEF After, Sendable, Messages, Ends

LEMMA PushedIs ==
    ASSUME LoggerTypeOK, Push
    PROVE  /\ pushed \in Sendable /\ pushed' = After(pushed)
           /\ UNCHANGED <<table, queue_, writer, files, logger>>
           /\ \/ UNCHANGED <<late, faults>> /\ Arrives(pushed)
              \/ /\ faults' = faults + 1 /\ late' \subseteq late \cup {pushed}
                 /\ UNCHANGED cmd \/ Arrives(pushed)
<1>1. pushed \in Sendable
  BY DEF Push, LoggerTypeOK, Messages, Sendable
<1>2. pushed' = After(pushed)
  BY DEF Push, After
<1>3. QED
  BY <1>1, <1>2 DEF Push

LEMMA LoggerTypeInit == LoggerInit => LoggerTypeOK
<1> SUFFICES ASSUME LoggerInit PROVE LoggerTypeOK
  OBVIOUS
<1> DEFINE m == [file_index |-> 1, trans_index |-> 0]
<1>1. m \in Sendable /\ m \in Messages /\ <<m>> \in Seq(Sendable)
  <2>1. m \in Sendable /\ m \in Messages
    BY LoggerAssumption DEF Sendable, Messages
  <2> HIDE DEF m
  <2>2. QED
    BY <2>1
<1>2. pushed = m
  BY DEF LoggerInit
<1>3. Earlier \in Names /\ Shown(Earlier) \in Names
  <2>1. Earlier \in Names
    BY LoggerAssumption DEF Earlier, Names
  <2>2. QED
    BY <2>1, NameFacts
<1>4. NoFile \in FileRecords
  BY LoggerAssumption DEF NoFile, FileRecords, Names
<1> HIDE DEF m
<1>5. DOMAIN disk \subseteq Names /\ disk \in [DOMAIN disk -> Seq(Sendable)]
  BY <1>1, <1>2, <1>3 DEF LoggerInit
<1>6. second \in 0 .. MaxSeconds
  BY LoggerAssumption DEF LoggerInit
<1>7. /\ cmd \in [pc : {"idle", "received", "store", "notify", "crashed"}, msg : Sendable]
      /\ writer \in [pc : {"none", "top", "write", "ended"}, batch : Seq(Sendable)]
      /\ deleter \in [pc : {"none", "top", "wait", "remove", "ended"}, names : SUBSET Names]
      /\ queue_ \in Seq(Sendable)
  BY <1>1, <1>2 DEF LoggerInit
<1>8. QED
  BY <1>1, <1>2, <1>4, <1>5, <1>6, <1>7 DEF LoggerInit, LoggerTypeOK
LEMMA LoggerTypeStep == LoggerTypeOK /\ [LoggerNext]_logVars => LoggerTypeOK'
<1> SUFFICES ASSUME LoggerTypeOK, [LoggerNext]_logVars PROVE LoggerTypeOK'
  OBVIOUS
<1> USE DEF source, table, files, logger
<1>1. CASE UNCHANGED logVars
  BY <1>1 DEF LoggerTypeOK, logVars
<1>2. CASE Push
  <2>1. pushed \in Sendable /\ pushed' \in Messages
    BY <1>2, PushedIs, AfterType
  <2>2. late' \subseteq Sendable /\ faults' \in Nat
    BY <1>2, <2>1, PushedIs DEF LoggerTypeOK
  <2>3. cmd' \in [pc : {"idle", "received", "store", "notify", "crashed"}, msg : Sendable]
    BY <1>2, <2>1, PushedIs DEF LoggerTypeOK, Arrives
  <2>4. QED
    BY <1>2, <2>1, <2>2, <2>3, PushedIs DEF LoggerTypeOK
<1>3. ASSUME NEW m \in Messages, ArrivesLate(m) PROVE LoggerTypeOK'
  <2>1. m \in Sendable /\ late' \subseteq Sendable
    BY <1>3 DEF ArrivesLate, LoggerTypeOK
  <2>2. cmd' \in [pc : {"idle", "received", "store", "notify", "crashed"}, msg : Sendable]
    BY <1>3, <2>1 DEF ArrivesLate, Arrives
  <2>3. QED
    BY <1>3, <2>1, <2>2 DEF LoggerTypeOK, ArrivesLate
<1>4. CASE AddDevice
  BY <1>4 DEF AddDevice, LoggerTypeOK
<1>5. CASE Handler
  <2>1. NoFile \in FileRecords
    BY LoggerAssumption DEF NoFile, FileRecords, Names
  <2>2. /\ cmd' \in [pc : {"idle", "received", "store", "notify", "crashed"}, msg : Sendable]
        /\ handler' \in {"none", "null", "open"}
    BY <1>5 DEF Handler, LoggerTypeOK
  <2>3. /\ writer' = writer \/ writer' = [pc |-> "top", batch |-> <<>>]
        /\ current_file' = current_file \/ current_file' = NoFile
        /\ queue_' = queue_ \/ queue_' = <<>>
    BY <1>5 DEF Handler
  <2>4. /\ writer' \in [pc : {"none", "top", "write", "ended"}, batch : Seq(Sendable)]
        /\ queue_' \in Seq(Sendable) /\ current_file' \in FileRecords
    <3>1. [pc |-> "top", batch |-> <<>>] \in [pc : {"none", "top", "write", "ended"}, batch : Seq(Sendable)]
      OBVIOUS
    <3>2. QED
      BY <2>1, <2>3, <3>1 DEF LoggerTypeOK
  <2>5. QED
    BY <1>5, <2>2, <2>4 DEF Handler, LoggerTypeOK
<1>6. CASE StoreLogBag
  <2> DEFINE PCs == {"idle", "received", "store", "notify", "crashed"}
  <2>1. queue_' \in Seq(Sendable)
    <3>1. cmd.msg \in Sendable /\ queue_ \in Seq(Sendable)
      BY DEF LoggerTypeOK
    <3>2. queue_' = queue_ \/ queue_' = Append(queue_, cmd.msg)
      BY <1>6 DEF StoreLogBag
    <3>3. QED
      BY <3>1, <3>2
  <2>2. cmd' \in [pc : PCs, msg : Sendable]
    <3>1. cmd \in [pc : PCs, msg : Sendable]
      BY DEF LoggerTypeOK
    <3>2. \E p \in {"notify", "idle", "crashed"} : cmd' = [cmd EXCEPT !.pc = p]
      BY <1>6 DEF StoreLogBag
    <3>3. QED
      BY <3>1, <3>2
  <2>3. QED
    BY <1>6, <2>1, <2>2 DEF StoreLogBag, LoggerTypeOK
<1>7. CASE NotifyDeleter
  BY <1>7 DEF NotifyDeleter, LoggerTypeOK
<1>8. CASE TakeQueue
  BY <1>8 DEF TakeQueue, LoggerTypeOK
<1>9. CASE EndWrite
  BY <1>9 DEF EndWrite, LoggerTypeOK
<1>10. CASE Write
  <2> DEFINE m == Head(writer.batch)
  <2>1. m \in Sendable /\ Tail(writer.batch) \in Seq(Sendable)
    BY <1>10 DEF Write, LoggerTypeOK
  <2>2. writer' \in [pc : {"none", "top", "write", "ended"}, batch : Seq(Sendable)]
    BY <1>10, <2>1 DEF Write, LoggerTypeOK
  <2>3. /\ UNCHANGED <<source, table, cmd, queue_, logger>>
        /\ CreateFile(m) \/ StopFile(m) \/ WriteFile(m)
    BY <1>10 DEF Write
  <2> HIDE DEF m
  <2>4. /\ second' \in 0 .. MaxSeconds /\ current_file' \in FileRecords
        /\ DOMAIN disk' \subseteq Names /\ disk' \in [DOMAIN disk' -> Seq(Sendable)]
    <3>1. CASE CreateFile(m)
      <4>1. /\ second' \in 1 .. MaxSeconds /\ current_file' \in FileRecords
            /\ DOMAIN disk' \subseteq Names /\ disk' \in [DOMAIN disk' -> Seq(Sendable)]
        BY <2>1, <3>1, CreateFileIs
      <4>2. QED
        BY <4>1, LoggerAssumption
    <3>2. CASE StopFile(m)
      BY <2>1, <3>2, ClosedIs DEF StopFile, ClosedFile, LoggerTypeOK, FileRecords, Sendable
    <3>3. CASE WriteFile(m)
      BY <2>1, <3>3, WriteFileIs DEF LoggerTypeOK
    <3>4. QED
      BY <2>3, <3>1, <3>2, <3>3
  <2>5. QED
    BY <2>2, <2>3, <2>4 DEF LoggerTypeOK
<1>11. CASE StartCycle
  BY <1>11 DEF StartCycle, LoggerTypeOK
<1>12. CASE Measure
  <2>1. Listed \subseteq Names
    BY DEF Listed, LoggerTypeOK
  <2>2. QED
    BY <1>12, <2>1 DEF Measure, LoggerTypeOK
<1>13. CASE RemoveOldest
  <2>1. PICK n \in Oldest(deleter.names) :
          /\ disk' = Without(disk, n)
          /\ current_file' = [current_file EXCEPT !.link = @ \ {n}]
          /\ deleter' = [deleter EXCEPT !.names = @ \ {n}]
    BY <1>13 DEF RemoveOldest
  <2>2. DOMAIN disk' \subseteq Names /\ disk' \in [DOMAIN disk' -> Seq(Sendable)]
    BY <2>1 DEF Without, LoggerTypeOK
  <2>3. current_file' \in FileRecords
    BY <2>1 DEF LoggerTypeOK, FileRecords
  <2>4. QED
    BY <1>13, <2>1, <2>2, <2>3 DEF RemoveOldest, LoggerTypeOK
<1>14. CASE EndCycle
  BY <1>14 DEF EndCycle, LoggerTypeOK
<1>15. CASE Initialise \/ EndDestory
  <2>1. /\ DOMAIN disk' \subseteq Names /\ disk' \in [DOMAIN disk' -> Seq(Sendable)]
        /\ second' = second /\ current_file' \in FileRecords
    BY <1>15, ChangeHiddenFilesIs DEF Initialise, EndDestory, LoggerTypeOK, FileRecords
  <2>2. QED
    BY <1>15, <2>1 DEF Initialise, EndDestory, LoggerTypeOK
<1>16. CASE Destory \/ StopCycle \/ JoinDeleter
  BY <1>16 DEF Destory, StopCycle, JoinDeleter, LoggerTypeOK
<1>17. CASE JoinWriter \/ ClearHandlers
  <2>1. current_file' \in FileRecords
    BY <1>17 DEF JoinWriter, ClearHandlers, ClosedFile, LoggerTypeOK, FileRecords
  <2>2. /\ writer' \in [pc : {"none", "top", "write", "ended"}, batch : Seq(Sendable)]
        /\ queue_' \in Seq(Sendable)
    <3>1. [pc |-> "none", batch |-> <<>>] \in [pc : {"none", "top", "write", "ended"}, batch : Seq(Sendable)]
      OBVIOUS
    <3>2. QED
      BY <1>17, <3>1 DEF JoinWriter, ClearHandlers, LoggerTypeOK
  <2>3. QED
    BY <1>17, <2>1, <2>2 DEF JoinWriter, ClearHandlers, LoggerTypeOK
<1>18. QED
  BY <1>1, <1>2, <1>3, <1>4, <1>5, <1>6, <1>7, <1>8, <1>9, <1>10, <1>11, <1>12, <1>13, <1>14,
     <1>15, <1>16, <1>17
     DEF LoggerNext, Running, CmdStep, WriterStep, DeleterStep, DestoryStep
-----------------------------------------------------------------------------
(* What a file holds.                                                      *)
LEMMA Appended ==
    ASSUME NEW s \in Seq(Sendable), NEW m \in Sendable
    PROVE  /\ Append(s, m) \in Seq(Sendable) /\ Append(s, m) # <<>>
           /\ Len(s) \in Nat /\ DOMAIN s = 1 .. Len(s)
           /\ Len(Append(s, m)) = Len(s) + 1 /\ DOMAIN Append(s, m) = 1 .. Len(s) + 1
           /\ \A i \in 1 .. Len(s) : Append(s, m)[i] = s[i]
           /\ Append(s, m)[Len(s) + 1] = m
           /\ s = <<>> <=> Len(s) = 0
  OBVIOUS

LEMMA ContentAppended ==
    ASSUME NEW s \in Seq(Sendable), NEW m \in Sendable, OfFile(m.file_index, s), Sorted(s),
           s = <<>> \/ Creates(m) \/ EndsBy(m.trans_index, s)
    PROVE  /\ OfFile(m.file_index, Append(s, m)) /\ Sorted(Append(s, m))
           /\ EndsBy(m.trans_index, Append(s, m))
<1> DEFINE t == Append(s, m)
           n == Len(s)
<1>1. /\ n \in Nat /\ DOMAIN s = 1 .. n /\ DOMAIN t = 1 .. n + 1 /\ Len(t) = n + 1 /\ t # <<>>
      /\ \A i \in 1 .. n : t[i] = s[i]
      /\ t[n + 1] = m
      /\ s = <<>> <=> n = 0
  BY Appended
<1> HIDE DEF t, n
<1>2. OfFile(m.file_index, t)
  BY <1>1 DEF OfFile
<1>3. m.trans_index \in Int
  BY DEF Sendable
<1>4. EndsBy(m.trans_index, t)
  BY <1>1, <1>3 DEF EndsBy
<1>5. ASSUME NEW i \in DOMAIN t, i # 1, ~Creates(t[i])
      PROVE  t[i - 1].trans_index <= t[i].trans_index
  <2>1. CASE i = n + 1
    <3>1. EndsBy(m.trans_index, s) /\ i - 1 = n /\ n \in 1 .. n
      BY <1>1, <1>5, <2>1
    <3>2. s[n].trans_index <= m.trans_index
      BY <3>1 DEF EndsBy, n
    <3>3. QED
      BY <1>1, <2>1, <3>1, <3>2
  <2>2. CASE i # n + 1
    <3>1. i \in 1 .. n /\ i - 1 \in 1 .. n
      BY <1>1, <1>5, <2>2
    <3>2. QED
      BY <1>1, <1>5, <3>1 DEF Sorted
  <2>3. QED
    BY <2>1, <2>2
<1>6. Sorted(t)
  BY <1>5 DEF Sorted
<1>7. QED
  BY <1>2, <1>4, <1>6 DEF t

LEMMA ClosedContent ==
    ASSUME LoggerTypeOK, ContentInv, NEW n \in DOMAIN Closed
    PROVE  OfFile(n.file_index, Closed[n]) /\ Sorted(Closed[n])
<1>1. CASE Moved /\ n = Shown(current_file.name)
  <2>1. Closed[n] = disk[current_file.name]
    BY <1>1, ClosedIs
  <2>2. n.file_index = current_file.name.file_index
    BY <1>1, NameFacts DEF LoggerTypeOK, FileRecords
  <2>3. QED
    BY <1>1, <2>1, <2>2 DEF ContentInv, Moved
<1>2. CASE ~(Moved /\ n = Shown(current_file.name))
  <2>1. Closed[n] = disk[n] /\ n \in DOMAIN disk
    BY <1>2, ClosedIs
  <2>2. QED
    BY <2>1 DEF ContentInv
<1>3. QED
  BY <1>1, <1>2

(* The handler appends to a file only what follows in it.                  *)
LEMMA WriteKeepsContent ==
    ASSUME LoggerTypeOK, ContentInv, Write
    PROVE  ContentInv'
<1> DEFINE m == Head(writer.batch)
<1>1. m \in Sendable /\ ~Older(m)
  BY DEF Write, LoggerTypeOK
<1>2. \/ Creates(m) /\ CreateFile(m)
      \/ StopFile(m)
      \/ ~Creates(m) /\ WriteFile(m)
  BY DEF Write
<1> HIDE DEF m
<1>3. CASE Creates(m) /\ CreateFile(m)
  <2>name. PICK name : name = NewName(m)
    OBVIOUS
  <2>file. current_file' = [fp |-> TRUE, name |-> name, file_index |-> m.file_index,
                            trans_index |-> 0, link |-> {name}]
    BY <1>1, <1>3, <2>name, CreateFileIs
  <2>1. /\ DOMAIN disk' = DOMAIN Closed \cup {name}
        /\ disk'[name] = Append(Before(m), m) /\ Before(m) \in Seq(Sendable)
        /\ \A n \in DOMAIN Closed : n # name => disk'[n] = Closed[n]
        /\ current_file'.link = {name} /\ current_file'.file_index = m.file_index
        /\ current_file'.trans_index = 0
    BY <1>1, <1>3, <2>name, <2>file, CreateFileIs
  <2>2. name.file_index = m.file_index
    BY <2>name DEF NewName
  <2>3. /\ OfFile(m.file_index, disk'[name]) /\ Sorted(disk'[name])
        /\ EndsBy(m.trans_index, disk'[name])
    <3>1. OfFile(m.file_index, Before(m)) /\ Sorted(Before(m))
      <4>1. CASE name \in DOMAIN Closed
        BY <2>name, <2>2, <4>1, ClosedContent DEF Before
      <4>2. CASE name \notin DOMAIN Closed
        BY <2>name, <4>2 DEF Before, OfFile, Sorted
      <4>3. QED
        BY <4>1, <4>2
    <3>2. QED
      BY <1>1, <1>3, <2>1, <3>1, ContentAppended
  <2>4. EndsBy(0, disk'[name])
    BY <1>3, <2>3 DEF Creates
  <2>5. QED
    BY <2>1, <2>2, <2>3, <2>4, ClosedContent DEF ContentInv
<1>4. CASE StopFile(m)
  <2>1. /\ disk' = Closed /\ current_file'.link = {}
    BY <1>4 DEF StopFile, ClosedFile, LoggerTypeOK, FileRecords
  <2>2. QED
    BY <2>1, ClosedContent DEF ContentInv
<1>5. CASE ~Creates(m) /\ WriteFile(m)
  <2>1. CASE UNCHANGED <<disk, current_file>>
    BY <2>1 DEF ContentInv
  <2>2. CASE ~UNCHANGED <<disk, current_file>>
    <3>1. /\ DOMAIN disk' = DOMAIN disk /\ current_file.file_index = m.file_index
          /\ \A n \in DOMAIN disk :
                disk'[n] = IF n \in current_file.link THEN Append(disk[n], m) ELSE disk[n]
          /\ current_file' = [current_file EXCEPT !.trans_index = m.trans_index]
      BY <1>1, <1>5, <2>2, WriteFileIs
    <3>2. /\ current_file'.link = current_file.link
          /\ current_file'.file_index = current_file.file_index
          /\ current_file'.trans_index = m.trans_index
      BY <3>1 DEF LoggerTypeOK, FileRecords
    <3>3. current_file.trans_index <= m.trans_index
      BY <1>1, <1>5 DEF Older, LoggerTypeOK, FileRecords, Sendable
    <3>4. ASSUME NEW n \in current_file.link
          PROVE  /\ n \in DOMAIN disk /\ n.file_index = m.file_index
                 /\ OfFile(m.file_index, disk'[n]) /\ Sorted(disk'[n])
                 /\ EndsBy(m.trans_index, disk'[n])
      <4>1. /\ n \in DOMAIN disk /\ n.file_index = m.file_index
            /\ OfFile(m.file_index, disk[n]) /\ Sorted(disk[n])
            /\ EndsBy(current_file.trans_index, disk[n])
        BY <3>1 DEF ContentInv
      <4>2. disk[n] \in Seq(Sendable) /\ disk'[n] = Append(disk[n], m)
        BY <3>1, <4>1 DEF LoggerTypeOK
      <4>3. EndsBy(m.trans_index, disk[n])
        <5>1. disk[n][Len(disk[n])] \in Sendable
          BY <4>1, <4>2 DEF EndsBy
        <5>2. QED
          BY <1>1, <3>3, <4>1, <5>1 DEF EndsBy, LoggerTypeOK, FileRecords, Sendable
      <4>4. QED
        BY <1>1, <4>1, <4>2, <4>3, ContentAppended
    <3>5. QED
      BY <3>1, <3>2, <3>4 DEF ContentInv
  <2>3. QED
    BY <2>1, <2>2
<1>6. QED
  BY <1>2, <1>3, <1>4, <1>5

(* The steps that touch no file.                                           *)
LEMMA FilesUntouched ==
    ASSUME [LoggerNext]_logVars
    PROVE  \/ UNCHANGED files
           \/ UNCHANGED <<second, disk>> /\ Handler /\ current_file' = NoFile
           \/ Write \/ RemoveOldest \/ Initialise \/ EndDestory
           \/ UNCHANGED <<second, disk>> /\ (JoinWriter \/ ClearHandlers) /\ current_file' = ClosedFile
<1> USE DEF files
<1>1. CASE UNCHANGED logVars
  BY <1>1 DEF logVars
<1>2. CASE Push \/ AddDevice \/ \E m \in Messages : ArrivesLate(m)
  BY <1>2 DEF Push, AddDevice, ArrivesLate
<1>3. CASE Handler
  BY <1>3 DEF Handler
<1>4. CASE StoreLogBag \/ NotifyDeleter \/ TakeQueue \/ EndWrite
  BY <1>4 DEF StoreLogBag, NotifyDeleter, TakeQueue, EndWrite
<1>5. CASE StartCycle \/ Measure \/ EndCycle
  BY <1>5 DEF StartCycle, Measure, EndCycle
<1>6. CASE Destory \/ StopCycle \/ JoinDeleter \/ JoinWriter \/ ClearHandlers
  BY <1>6 DEF Destory, StopCycle, JoinDeleter, JoinWriter, ClearHandlers
<1>7. QED
  BY <1>1, <1>2, <1>3, <1>4, <1>5, <1>6
     DEF LoggerNext, Running, CmdStep, WriterStep, DeleterStep, DestoryStep

LEMMA ContentStep ==
    ASSUME LoggerTypeOK, ContentInv, [LoggerNext]_logVars
    PROVE  ContentInv'
<1>1. CASE UNCHANGED files
  BY <1>1 DEF ContentInv, files
<1>2. CASE disk' = disk /\ (current_file' = NoFile \/ current_file' = ClosedFile)
  <2>1. current_file'.link = {}
    <3>1. NoFile.link = {}
      BY DEF NoFile
    <3>2. ClosedFile.link = {}
      BY DEF ClosedFile, LoggerTypeOK, FileRecords
    <3>3. QED
      BY <1>2, <3>1, <3>2
  <2>2. QED
    BY <1>2, <2>1 DEF ContentInv
<1>3. CASE Write
  BY <1>3, WriteKeepsContent
<1>4. CASE RemoveOldest
  <2>1. PICK n : /\ disk' = Without(disk, n)
                 /\ current_file' = [current_file EXCEPT !.link = @ \ {n}]
    BY <1>4 DEF RemoveOldest
  <2>2. DOMAIN disk' = DOMAIN disk \ {n} /\ \A k \in DOMAIN disk \ {n} : disk'[k] = disk[k]
    BY <2>1 DEF Without
  <2>3. /\ current_file'.link = current_file.link \ {n}
        /\ current_file'.file_index = current_file.file_index
        /\ current_file'.trans_index = current_file.trans_index
    BY <2>1 DEF LoggerTypeOK, FileRecords
  <2>4. QED
    BY <2>2, <2>3 DEF ContentInv
<1>5. CASE Initialise \/ EndDestory
  <2>1. ChangeHiddenFiles
    BY <1>5 DEF Initialise, EndDestory
  <2>2. ASSUME NEW n \in DOMAIN disk'
        PROVE  OfFile(n.file_index, disk'[n]) /\ Sorted(disk'[n])
    <3>1. PICK k \in DOMAIN disk : disk'[n] = disk[k] /\ Shown(k) = n
      BY <2>1, ChangeHiddenFilesIs
    <3>2. k.file_index = n.file_index
      BY <3>1, NameFacts DEF LoggerTypeOK
    <3>3. QED
      BY <3>1, <3>2 DEF ContentInv
  <2>3. PICK link : /\ link \subseteq Names /\ current_file' = [current_file EXCEPT !.link = link]
                    /\ \A n \in link : n \in DOMAIN disk' /\ \E k \in current_file.link :
                          Shown(k) = n /\ disk'[n] = disk[k]
    BY <2>1, ChangeHiddenFilesIs
  <2>4. /\ current_file'.link = link
        /\ current_file'.file_index = current_file.file_index
        /\ current_file'.trans_index = current_file.trans_index
    BY <2>3 DEF LoggerTypeOK, FileRecords
  <2>5. ASSUME NEW n \in link
        PROVE  /\ n \in DOMAIN disk' /\ n.file_index = current_file.file_index
               /\ EndsBy(current_file.trans_index, disk'[n])
    <3>1. PICK k \in current_file.link : Shown(k) = n /\ disk'[n] = disk[k]
      BY <2>3
    <3>2. k.file_index = n.file_index
      BY <3>1, NameFacts DEF LoggerTypeOK, FileRecords
    <3>3. QED
      BY <2>3, <3>1, <3>2 DEF ContentInv
  <2>6. QED
    BY <2>2, <2>4, <2>5 DEF ContentInv
<1>6. QED
  BY <1>1, <1>2, <1>3, <1>4, <1>5, FilesUntouched
-----------------------------------------------------------------------------
(* The order of the user's thread, the deleting one and the handler.       *)
LEMMA StageStep ==
    ASSUME LoggerTypeOK, StageInv, [LoggerNext]_logVars
    PROVE  StageInv'
<1> USE DEF source, table, files, logger, Early, Deleting
<1>1. CASE UNCHANGED logVars
  BY <1>1 DEF StageInv, logVars
<1>2. CASE Push \/ AddDevice \/ \E m \in Messages : ArrivesLate(m)
  BY <1>2 DEF Push, AddDevice, ArrivesLate, StageInv
<1>3. CASE Handler
  BY <1>3 DEF Handler, StageInv
<1>4. CASE StoreLogBag \/ NotifyDeleter
  BY <1>4 DEF StoreLogBag, NotifyDeleter, StageInv
<1>5. CASE TakeQueue \/ EndWrite \/ Write
  <2>1. /\ UNCHANGED <<deleter, user, log_enable_, handler>>
        /\ writer.pc # "none"
    BY <1>5 DEF TakeQueue, EndWrite, Write
  <2>2. QED
    BY <2>1 DEF StageInv
<1>6. CASE StartCycle \/ Measure \/ EndCycle
  BY <1>6 DEF StartCycle, Measure, EndCycle, CycleEnabled, LoggerTypeOK, StageInv
<1>7. CASE RemoveOldest
  <2>1. /\ UNCHANGED <<user, log_enable_, handler, writer>>
        /\ deleter.pc = "remove" /\ deleter'.pc = "remove"
        /\ \E n : current_file' = [current_file EXCEPT !.link = @ \ {n}]
    BY <1>7 DEF RemoveOldest, LoggerTypeOK
  <2>2. current_file = NoFile => current_file' = NoFile
    BY <2>1 DEF NoFile
  <2>3. QED
    BY <2>1, <2>2 DEF StageInv
<1>8. CASE Initialise
  <2>1. /\ user = "new" /\ user' = "running" /\ log_enable_' /\ deleter'.pc = "top"
        /\ deleter'.names = deleter.names
        /\ UNCHANGED <<handler, writer>> /\ ChangeHiddenFiles
    BY <1>8 DEF Initialise, LoggerTypeOK
  <2>2. current_file = NoFile => current_file' = NoFile
    <3>1. PICK link : /\ current_file' = [current_file EXCEPT !.link = link]
                      /\ \A n \in link : \E k \in current_file.link : Shown(k) = n
      BY <2>1, ChangeHiddenFilesIs
    <3>2. current_file = NoFile => link = {}
      BY <3>1 DEF NoFile
    <3>3. QED
      BY <3>1, <3>2 DEF NoFile
  <2>3. QED
    BY <2>1, <2>2 DEF StageInv
<1>9. CASE Destory \/ StopCycle \/ JoinDeleter \/ JoinWriter \/ ClearHandlers \/ EndDestory
  BY <1>9 DEF Destory, StopCycle, JoinDeleter, JoinWriter, ClearHandlers, EndDestory, StageInv
<1>10. QED
  BY <1>1, <1>2, <1>3, <1>4, <1>5, <1>6, <1>7, <1>8, <1>9
     DEF LoggerNext, Running, CmdStep, WriterStep, DeleterStep, DestoryStep
-----------------------------------------------------------------------------
(* The newest file and the listed ones.                                    *)
LEMMA WriteKeepsNewest ==
    ASSUME LoggerTypeOK, Newest, \A n \in DOMAIN disk : n.time <= second, Write
    PROVE  /\ Newest' /\ second <= second'
           /\ \A n \in DOMAIN disk' : n.time <= second'
           /\ \A n \in DOMAIN disk' : n \in DOMAIN disk \/ n.time >= second
<1> DEFINE m == Head(writer.batch)
<1>1. m \in Sendable
  BY DEF Write, LoggerTypeOK
<1>2. CreateFile(m) \/ StopFile(m) \/ WriteFile(m)
  BY DEF Write
<1> HIDE DEF m
<1>3. current_file.name \in Names /\ second \in Nat
  BY LoggerAssumption DEF LoggerTypeOK, FileRecords
<1>4. /\ \A n \in DOMAIN Closed : ~n.hidden /\ n.time <= second
      /\ \A n \in DOMAIN Closed : n \in DOMAIN disk \/ n.time = second
  <2>1. CASE Moved
    <3>1. /\ DOMAIN Closed = (DOMAIN disk \ {current_file.name}) \cup {Shown(current_file.name)}
          /\ current_file.fp
      BY <2>1, ClosedIs DEF Moved
    <3>2. Shown(current_file.name).time = second /\ ~Shown(current_file.name).hidden
      BY <1>3, <3>1, NameFacts DEF Newest
    <3>3. QED
      BY <1>3, <3>1, <3>2 DEF Newest
  <2>2. CASE ~Moved
    <3>1. DOMAIN Closed = DOMAIN disk
      BY <2>2, ClosedIs
    <3>2. QED
      BY <2>2, <3>1 DEF Newest, Moved
  <2>3. QED
    BY <2>1, <2>2
<1>5. CASE CreateFile(m)
  <2>name. PICK name : name = NewName(m)
    OBVIOUS
  <2>1. /\ second' \in 1 .. MaxSeconds /\ second <= second'
        /\ DOMAIN disk' = DOMAIN Closed \cup {name}
        /\ current_file' = [fp |-> TRUE, name |-> name, file_index |-> m.file_index,
                            trans_index |-> 0, link |-> {name}]
    BY <1>1, <1>5, <2>name, CreateFileIs
  <2>2. name.hidden /\ name.time = second'
    BY <2>name DEF NewName
  <2>3. second' \in Nat
    BY <2>1
  <2>4. \A n \in DOMAIN disk' : n.time <= second' /\ (n \in DOMAIN disk \/ n.time >= second)
    <3>1. \A n \in DOMAIN Closed : n \in Names
      BY ClosedIs
    <3>2. \A n \in DOMAIN Closed : n.time \in Nat
      BY <3>1 DEF Names
    <3>3. QED
      BY <1>3, <1>4, <2>1, <2>2, <2>3, <3>2
  <2>5. Newest'
    BY <1>4, <2>1, <2>2 DEF Newest
  <2>6. QED
    BY <2>1, <2>4, <2>5
<1>6. CASE StopFile(m)
  <2>1. /\ disk' = Closed /\ second' = second
        /\ ~current_file'.fp /\ current_file'.link = {}
    BY <1>6 DEF StopFile, ClosedFile, LoggerTypeOK, FileRecords
  <2>2. QED
    BY <1>3, <1>4, <2>1 DEF Newest
<1>7. CASE WriteFile(m)
  <2>1. /\ second' = second /\ DOMAIN disk' = DOMAIN disk
        /\ current_file'.fp = current_file.fp /\ current_file'.name = current_file.name
        /\ current_file'.link = current_file.link
    BY <1>1, <1>7, WriteFileIs DEF LoggerTypeOK, FileRecords
  <2>2. QED
    BY <1>3, <2>1 DEF Newest
<1>8. QED
  BY <1>2, <1>5, <1>6, <1>7

LEMMA CycleStep ==
    ASSUME LoggerTypeOK, StageInv, CycleInv, [LoggerNext]_logVars
    PROVE  CycleInv'
<1> USE DEF source, table, files, logger
<1>1. CASE UNCHANGED <<second, disk, current_file, user>> /\ (deleter' = deleter \/ deleter'.names = {})
  <2>1. deleter'.names = {} => (Newest => ListedIsOlder')
    BY <1>1 DEF ListedIsOlder
  <2>2. QED
    BY <1>1, <2>1 DEF CycleInv, Newest, ListedIsOlder
<1>2. CASE user' \notin Early \cup {"new"}
  BY <1>2 DEF CycleInv
<1>3. CASE UNCHANGED <<second, disk, current_file, deleter>> /\ user \in Early
  BY <1>3 DEF CycleInv, Newest, ListedIsOlder, Early
<1>4. CASE Push \/ AddDevice \/ \E m \in Messages : ArrivesLate(m)
  <2>1. UNCHANGED <<second, disk, current_file, user, deleter>>
    BY <1>4 DEF Push, AddDevice, ArrivesLate
  <2>2. QED
    BY <1>1, <2>1
<1>5. CASE Handler
  <2>1. /\ UNCHANGED <<second, disk, deleter, user>>
        /\ current_file' = current_file \/ (handler = "none" /\ current_file' = NoFile)
    BY <1>5 DEF Handler
  <2>2. user \in Early \cup {"new"} => current_file' = current_file
    BY <2>1 DEF StageInv
  <2>3. QED
    BY <1>1, <1>2, <2>1, <2>2
<1>6. CASE StoreLogBag \/ NotifyDeleter \/ TakeQueue \/ EndWrite
  <2>1. UNCHANGED <<second, disk, current_file, user, deleter>>
    BY <1>6 DEF StoreLogBag, NotifyDeleter, TakeQueue, EndWrite
  <2>2. QED
    BY <1>1, <2>1
<1>7. CASE Write
  <2>1. UNCHANGED <<user, deleter>> /\ writer.pc # "none"
    BY <1>7 DEF Write
  <2>2. SUFFICES ASSUME user \in Early \cup {"new"} PROVE CycleInv'
    BY <2>1 DEF CycleInv
  <2>3. user # "new"
    BY <2>1, <2>2 DEF StageInv
  <2>4. user \in Early /\ Newest /\ ListedIsOlder /\ \A n \in DOMAIN disk : n.time <= second
    BY <2>2, <2>3 DEF CycleInv
  <2>5. /\ Newest' /\ second <= second'
        /\ \A n \in DOMAIN disk' : n.time <= second'
        /\ \A n \in DOMAIN disk' : n \in DOMAIN disk \/ n.time >= second
    BY <1>7, <2>4, WriteKeepsNewest
  <2>6. second \in Nat /\ second' \in Nat
    BY <1>7, LoggerTypeStep, LoggerAssumption DEF LoggerTypeOK, LoggerNext, WriterStep, Running
  <2>7. \A n \in deleter.names : n.time \in Nat /\ n.time <= second /\ ~n.hidden
    BY <2>4 DEF ListedIsOlder, LoggerTypeOK, Names
  <2>8. \A n \in DOMAIN disk' : n.time \in Nat
    BY <1>7, LoggerTypeStep DEF LoggerTypeOK, Names
  <2>9. ListedIsOlder'
    BY <2>1, <2>4, <2>5, <2>6, <2>7, <2>8 DEF ListedIsOlder
  <2>10. QED
    BY <2>1, <2>4, <2>5, <2>9 DEF CycleInv
<1>8. CASE StartCycle \/ EndCycle
  <2>1. UNCHANGED <<second, disk, current_file, user>> /\ (deleter' = deleter \/ deleter'.names = {})
    BY <1>8 DEF StartCycle, EndCycle, StageInv, LoggerTypeOK
  <2>2. QED
    BY <1>1, <2>1
<1>9. CASE Measure
  <2>1. /\ UNCHANGED <<second, disk, current_file, user>> /\ deleter.pc = "wait"
        /\ deleter'.names = Listed \/ deleter'.names = {}
    BY <1>9 DEF Measure
  <2>2. user \in Early /\ Newest /\ \A n \in DOMAIN disk : n.time <= second
    BY <2>1 DEF StageInv, CycleInv, Deleting
  <2>3. ListedIsOlder'
    BY <2>1, <2>2 DEF ListedIsOlder, Listed
  <2>4. QED
    BY <2>1, <2>2, <2>3 DEF CycleInv, Newest
<1>10. CASE RemoveOldest
  <2>1. PICK n \in Oldest(deleter.names) :
          /\ disk' = Without(disk, n)
          /\ current_file' = [current_file EXCEPT !.link = @ \ {n}]
          /\ deleter' = [deleter EXCEPT !.names = @ \ {n}]
    BY <1>10 DEF RemoveOldest
  <2>2. /\ UNCHANGED <<second, user>> /\ user \in Early
        /\ Newest /\ ListedIsOlder /\ \A k \in DOMAIN disk : k.time <= second
    BY <1>10 DEF RemoveOldest, StageInv, CycleInv, Deleting
  <2>3. /\ DOMAIN disk' = DOMAIN disk \ {n} /\ deleter'.names = deleter.names \ {n}
        /\ current_file'.link = current_file.link \ {n}
        /\ current_file'.fp = current_file.fp /\ current_file'.name = current_file.name
    BY <2>1 DEF Without, LoggerTypeOK, FileRecords
  <2>4. Newest'
    BY <2>2, <2>3 DEF Newest
  <2>5. ListedIsOlder'
    BY <2>2, <2>3 DEF ListedIsOlder
  <2>6. QED
    BY <2>2, <2>3, <2>4, <2>5 DEF CycleInv
<1>11. CASE Initialise
  <2>1. ChangeHiddenFiles /\ user = "new" /\ deleter' = [deleter EXCEPT !.pc = "top"]
    BY <1>11 DEF Initialise
  <2>2. deleter'.names = {} /\ current_file = NoFile
    BY <2>1 DEF StageInv, LoggerTypeOK
  <2>3. PICK link : /\ current_file' = [current_file EXCEPT !.link = link]
                    /\ \A n \in link : \E k \in current_file.link : Shown(k) = n
    BY <2>1, ChangeHiddenFilesIs
  <2>4. ~current_file'.fp /\ current_file'.link = {}
    BY <2>2, <2>3 DEF NoFile
  <2>5. ASSUME NEW n \in DOMAIN disk' PROVE ~n.hidden /\ n.time <= second /\ second' = second
    <3>1. second' = second /\ ~n.hidden
      BY <2>1, ChangeHiddenFilesIs
    <3>2. PICK k \in DOMAIN disk : disk'[n] = disk[k] /\ Shown(k) = n
      BY <2>1, ChangeHiddenFilesIs
    <3>3. k.time = n.time
      BY <3>2, NameFacts DEF LoggerTypeOK
    <3>4. QED
      BY <2>1, <3>1, <3>2, <3>3 DEF CycleInv
  <2>6. QED
    BY <2>2, <2>4, <2>5 DEF CycleInv, Newest, ListedIsOlder
<1>12. CASE Destory \/ StopCycle
  <2>1. UNCHANGED <<second, disk, current_file, deleter>> /\ user \in Early
    BY <1>12 DEF Destory, StopCycle, Early
  <2>2. QED
    BY <1>3, <2>1
<1>13. CASE JoinDeleter \/ JoinWriter \/ ClearHandlers \/ EndDestory
  <2>1. user' \notin Early \cup {"new"}
    BY <1>13 DEF JoinDeleter, JoinWriter, ClearHandlers, EndDestory, Early
  <2>2. QED
    BY <1>2, <2>1
<1>14. CASE UNCHANGED logVars
  BY <1>1, <1>14 DEF logVars
<1>15. QED
  BY <1>4, <1>5, <1>6, <1>7, <1>8, <1>9, <1>10, <1>11, <1>12, <1>13, <1>14
     DEF LoggerNext, Running, CmdStep, WriterStep, DeleterStep, DestoryStep
-----------------------------------------------------------------------------
(* Messages that follow each other.                                        *)
LEMMA LeadsAppend ==
    ASSUME NEW s \in Seq(Sendable), NEW m \in Sendable, Leads(s, m)
    PROVE  /\ Leads(Append(s, m), After(m))
           /\ FirstOf(Append(s, m), After(m)) = FirstOf(s, m)
<1> DEFINE t == Append(s, m)
           n == Len(s)
<1>1. /\ n \in Nat /\ DOMAIN s = 1 .. n /\ DOMAIN t = 1 .. n + 1 /\ Len(t) = n + 1 /\ t # <<>>
      /\ \A i \in 1 .. n : t[i] = s[i]
      /\ t[n + 1] = m
      /\ s = <<>> <=> n = 0
  BY Appended
<1>2. Head(t) = IF s = <<>> THEN m ELSE Head(s)
  OBVIOUS
<1>first. FirstOf(t, After(m)) = FirstOf(s, m)
  BY <1>1, <1>2 DEF FirstOf
<1> HIDE DEF t
<1>3. ASSUME NEW i \in DOMAIN t
      PROVE  After(t[i]) = IF i = n + 1 THEN After(m) ELSE t[i + 1]
  <2>1. CASE i = n + 1
    BY <1>1, <2>1
  <2>2. CASE i # n + 1
    <3>1. i \in 1 .. n /\ After(s[i]) = IF i = n THEN m ELSE s[i + 1]
      BY <1>1, <2>2 DEF Leads
    <3>2. CASE i = n
      BY <1>1, <3>1, <3>2
    <3>3. CASE i # n
      <4>1. i + 1 \in 1 .. n
        BY <1>1, <3>1, <3>3
      <4>2. QED
        BY <1>1, <3>1, <3>3, <4>1
    <3>4. QED
      BY <3>2, <3>3
  <2>3. QED
    BY <2>1, <2>2
<1>4. Leads(t, After(m))
  BY <1>1, <1>3 DEF Leads
<1>5. QED
  BY <1>first, <1>4 DEF t

LEMMA LeadsTail ==
    ASSUME NEW s \in Seq(Sendable), s # <<>>, NEW m, Leads(s, m)
    PROVE  /\ Leads(Tail(s), m)
           /\ FirstOf(Tail(s), m) = After(Head(s))
<1> DEFINE t == Tail(s)
           n == Len(s)
<1>len. /\ n \in Nat /\ n >= 1 /\ DOMAIN s = 1 .. n /\ Head(s) = s[1]
        /\ t \in Seq(Sendable) /\ Len(t) = n - 1
  OBVIOUS
<1>tail. \A i \in 1 .. n - 1 : t[i] = s[i + 1]
  OBVIOUS
<1> HIDE DEF t
<1>1. /\ n \in Nat /\ n >= 1 /\ DOMAIN s = 1 .. n /\ t \in Seq(Sendable)
      /\ Len(t) = n - 1 /\ DOMAIN t = 1 .. n - 1 /\ Head(s) = s[1]
      /\ \A i \in 1 .. n - 1 : t[i] = s[i + 1]
      /\ t = <<>> <=> n = 1
      /\ t # <<>> => Head(t) = t[1]
  <2>1. DOMAIN t = 1 .. n - 1 /\ (t = <<>> <=> n = 1) /\ (t # <<>> => Head(t) = t[1])
    BY <1>len
  <2>2. QED
    BY <1>len, <1>tail, <2>1
<1>2. ASSUME NEW i \in 1 .. n
      PROVE  After(s[i]) = IF i = n THEN m ELSE s[i + 1]
  BY <1>1 DEF Leads
<1> HIDE DEF n
<1>3. ASSUME NEW i \in DOMAIN t
      PROVE  After(t[i]) = IF i = n - 1 THEN m ELSE t[i + 1]
  <2>1. /\ i \in 1 .. n - 1 /\ i + 1 \in 1 .. n /\ t[i] = s[i + 1]
        /\ i + 1 = n <=> i = n - 1
    BY <1>1
  <2>2. After(t[i]) = IF i = n - 1 THEN m ELSE s[i + 2]
    <3>1. After(s[i + 1]) = IF i + 1 = n THEN m ELSE s[(i + 1) + 1]
      BY <1>2, <2>1
    <3>2. (i + 1) + 1 = i + 2
      BY <2>1
    <3>3. QED
      BY <2>1, <3>1, <3>2
  <2>3. i # n - 1 => t[i + 1] = s[i + 2]
    <3>1. i # n - 1 => i + 1 \in 1 .. n - 1 /\ (i + 1) + 1 = i + 2
      BY <1>1, <2>1
    <3>2. QED
      BY <1>1, <3>1
  <2>4. QED
    BY <2>2, <2>3
<1>4. Leads(t, m)
  BY <1>1, <1>3 DEF Leads
<1>5. FirstOf(t, m) = After(s[1])
  <2>1. 1 \in 1 .. n
    BY <1>1
  <2>2. After(s[1]) = IF n = 1 THEN m ELSE s[2]
    BY <1>2, <2>1
  <2>3. CASE n = 1
    BY <1>1, <2>2, <2>3 DEF FirstOf
  <2>4. CASE n # 1
    <3>1. 1 \in 1 .. n - 1 /\ t # <<>>
      BY <1>1, <2>4
    <3>2. Head(t) = s[1 + 1]
      BY <1>1, <3>1
    <3>3. QED
      BY <2>2, <2>4, <3>1, <3>2 DEF FirstOf
  <2>5. QED
    BY <2>3, <2>4
<1>6. QED
  BY <1>1, <1>4, <1>5 DEF t

LEMMA LeadsNothing == \A m : Leads(<<>>, m) /\ FirstOf(<<>>, m) = m
  BY DEF Leads, FirstOf
-----------------------------------------------------------------------------
(* The chain of the messages on their way, and the files made of them.     *)
LEMMA CalmBefore ==
    ASSUME LoggerTypeOK, [LoggerNext]_logVars, Calm'
    PROVE  Calm /\ (user' = user \/ Initialise)
<1> USE DEF source, table, files, logger, Calm
<1>1. CASE Push
  BY <1>1, PushedIs DEF LoggerTypeOK
<1>2. CASE ~Push
  BY <1>2 DEF logVars, LoggerNext, Running, CmdStep, WriterStep, DeleterStep, DestoryStep,
              AddDevice, ArrivesLate, Handler, StoreLogBag, NotifyDeleter, TakeQueue, EndWrite, Write,
              StartCycle, Measure, RemoveOldest, EndCycle, Initialise, Destory, StopCycle,
              JoinDeleter, JoinWriter, ClearHandlers, EndDestory
<1>3. QED
  BY <1>1, <1>2

(* Nothing of the chain moves.                                             *)
LEMMA ChainSame ==
    ASSUME ChainInv, Calm,
           UNCHANGED <<pushed, late, cmd, handler, queue_, writer>>,
           /\ current_file'.fp = current_file.fp
           /\ current_file'.file_index = current_file.file_index
           /\ current_file'.trans_index = current_file.trans_index
    PROVE  ChainInv'
  BY DEF ChainInv, Received, Queued, Written, Expected

(* The message that is written is the one that its file needs, and then    *)
(* the next one is.                                                        *)
LEMMA WriteInOrder ==
    ASSUME LoggerTypeOK, ContentInv, StageInv, CycleInv, ChainInv, WholeInv, Write, Calm, Calm'
    PROVE  ChainInv' /\ WholeInv'
<1>m. PICK m : m = Head(writer.batch)
  OBVIOUS
<1>1. /\ m \in Sendable /\ writer.batch # <<>> /\ writer.batch \in Seq(Sendable)
      /\ writer'.batch = Tail(writer.batch) /\ writer'.pc = "write"
      /\ UNCHANGED <<pushed, late, cmd, handler, queue_, user>>
  BY <1>m DEF Write, LoggerTypeOK, source, table, logger
<1>2. \/ Creates(m) /\ CreateFile(m)
      \/ Ends(m) /\ StopFile(m)
      \/ ~Creates(m) /\ ~Ends(m) /\ WriteFile(m)
  BY <1>m DEF Write
<1>3. handler = "open" /\ user = "running" /\ Newest
  BY DEF Write, StageInv, CycleInv, Calm, Early
<1>4. m = Written /\ Expected(m) /\ Leads(writer.batch, Queued)
  BY <1>m, <1>1, <1>3 DEF ChainInv, Written, FirstOf
<1>5. /\ Leads(writer'.batch, Queued) /\ FirstOf(writer'.batch, Queued) = After(m)
      /\ Queued' = Queued /\ Received' = Received
  BY <1>m, <1>1, <1>4, LeadsTail DEF Queued, Received
<1>6. Written' = After(m)
  BY <1>5 DEF Written
<1>7. Expected(After(m))' => ChainInv'
  BY <1>1, <1>3, <1>5, <1>6 DEF ChainInv
<1>8. /\ current_file.trans_index \in 0 .. LastIndex /\ current_file.file_index \in 0 .. Files
      /\ current_file.name \in Names
      /\ m.trans_index \in 0 .. LastIndex /\ m.file_index \in 1 .. Files
      /\ m = [file_index |-> m.file_index, trans_index |-> m.trans_index]
  BY <1>1 DEF LoggerTypeOK, FileRecords, Sendable
<1>9. CASE current_file.fp /\ ~Ends(m)
  <2>1. /\ m.file_index = current_file.file_index
        /\ m.trans_index = current_file.trans_index + 1
        /\ m.trans_index < LastIndex
    BY <1>4, <1>8, <1>9, LoggerAssumption DEF Expected, Ends
  <2>2. WriteFile(m)
    BY <1>2, <1>8, <1>9, <2>1 DEF Creates
  <2>3. /\ DOMAIN disk' = DOMAIN disk
        /\ \A n \in DOMAIN disk :
              disk'[n] = IF n \in current_file.link THEN Append(disk[n], m) ELSE disk[n]
        /\ current_file' = [current_file EXCEPT !.trans_index = m.trans_index]
    BY <1>1, <2>1, <2>2, WriteFileIs
  <2>4. /\ current_file'.fp = current_file.fp /\ current_file'.name = current_file.name
        /\ current_file'.file_index = current_file.file_index
        /\ current_file'.trans_index = m.trans_index /\ current_file'.link = current_file.link
    BY <2>3 DEF LoggerTypeOK, FileRecords
  <2>5. After(m) = [file_index |-> m.file_index, trans_index |-> m.trans_index + 1]
    BY <1>8, <1>9 DEF After
  <2>6. Expected(After(m))'
    BY <1>8, <1>9, <2>1, <2>4, <2>5 DEF Expected
  <2>7. /\ current_file.link = {current_file.name}
        /\ Len(disk[current_file.name]) = current_file.trans_index + 1
        /\ \A n \in DOMAIN disk : n.time > 0 =>
              /\ n.file_index <= current_file.file_index
              /\ n.hidden \/ Len(disk[n]) = LastIndex
    BY <1>3, <1>9 DEF WholeInv
  <2>8. current_file.name \in DOMAIN disk /\ current_file.name.hidden
    BY <1>3, <1>9, <2>7 DEF Newest, ContentInv
  <2>9. Len(disk'[current_file.name]) = m.trans_index + 1
    <3>1. disk[current_file.name] \in Seq(Sendable)
      BY <2>8 DEF LoggerTypeOK
    <3>2. Len(Append(disk[current_file.name], m)) = Len(disk[current_file.name]) + 1
      BY <1>1, <3>1
    <3>3. QED
      BY <2>1, <2>3, <2>7, <2>8, <3>2
  <2>10. \A n \in DOMAIN disk : ~n.hidden => disk'[n] = disk[n]
    BY <2>3, <2>7, <2>8
  <2>11. WholeInv'
    BY <1>1, <1>3, <2>3, <2>4, <2>7, <2>9, <2>10 DEF WholeInv
  <2>12. QED
    BY <1>7, <2>6, <2>11
<1>10. CASE current_file.fp /\ Ends(m)
  <2>1. /\ m.file_index = current_file.file_index
        /\ m.trans_index = current_file.trans_index + 1
        /\ m.trans_index = LastIndex /\ ~Creates(m)
    BY <1>4, <1>8, <1>10, LoggerAssumption DEF Expected, Ends, Creates
  <2>2. disk' = Closed /\ current_file' = [ClosedFile EXCEPT !.trans_index = m.trans_index]
    BY <1>2, <1>10, <2>1 DEF StopFile
  <2>3. /\ ~current_file'.fp /\ current_file'.file_index = current_file.file_index
        /\ current_file'.trans_index = m.trans_index
    BY <2>2 DEF ClosedFile, LoggerTypeOK, FileRecords
  <2>4. After(m) = [file_index |-> m.file_index + 1, trans_index |-> 0]
    BY <1>10 DEF After
  <2>5. Expected(After(m))'
    BY <1>8, <2>1, <2>3, <2>4 DEF Expected, Creates
  <2>6. /\ Len(disk[current_file.name]) = LastIndex
        /\ current_file.link = {current_file.name}
        /\ \A n \in DOMAIN disk : n.time > 0 =>
              /\ n.file_index <= current_file.file_index
              /\ n.hidden \/ Len(disk[n]) = LastIndex
    BY <1>3, <1>10, <2>1 DEF WholeInv
  <2>7. current_file.name \in DOMAIN disk /\ Moved /\ current_file.name.file_index = current_file.file_index
    BY <1>10, <2>6 DEF ContentInv, Moved
  <2>8. ASSUME NEW n \in DOMAIN disk', n.time > 0
        PROVE  n.file_index <= current_file.file_index /\ (n.hidden \/ Len(disk'[n]) = LastIndex)
    <3>1. CASE n = Shown(current_file.name)
      <4>1. disk'[n] = disk[current_file.name]
        BY <2>2, <2>7, <2>8, <3>1, ClosedIs
      <4>2. n.file_index = current_file.file_index
        BY <1>8, <2>7, <3>1, NameFacts
      <4>3. QED
        BY <1>8, <2>6, <4>1, <4>2
    <3>2. CASE n # Shown(current_file.name)
      <4>1. n \in DOMAIN disk /\ disk'[n] = disk[n]
        BY <2>2, <2>7, <2>8, <3>2, ClosedIs
      <4>2. QED
        BY <2>6, <2>8, <4>1
    <3>3. QED
      BY <3>1, <3>2
  <2>9. WholeInv'
    BY <1>1, <1>3, <2>3, <2>8 DEF WholeInv
  <2>10. QED
    BY <1>7, <2>5, <2>9
<1>11. CASE ~current_file.fp
  <2>1. /\ Creates(m) /\ ~Ends(m) /\ m.file_index > current_file.file_index
    BY <1>4, <1>11, LoggerAssumption DEF Expected, Creates, Ends
  <2>2. CreateFile(m)
    BY <1>2, <2>1
  <2>name. PICK name : name = NewName(m)
    OBVIOUS
  <2>3. /\ second' \in 1 .. MaxSeconds /\ DOMAIN disk' = DOMAIN Closed \cup {name}
        /\ disk'[name] = Append(Before(m), m)
        /\ \A n \in DOMAIN Closed : n # name => disk'[n] = Closed[n]
        /\ current_file' = [fp |-> TRUE, name |-> name, file_index |-> m.file_index,
                            trans_index |-> 0, link |-> {name}]
    BY <1>1, <2>2, <2>name, CreateFileIs
  <2>4. name.time = second' /\ name.file_index = m.file_index /\ name.hidden
    BY <2>name DEF NewName
  <2>5. Closed = disk
    BY <1>11 DEF Closed
  <2>6. \A n \in DOMAIN disk : n.time > 0 =>
              /\ n.file_index <= current_file.file_index
              /\ n.hidden \/ Len(disk[n]) = LastIndex
    BY <1>3 DEF WholeInv
  <2>7. name \notin DOMAIN disk
    <3>1. name.time > 0 /\ ~(name.file_index <= current_file.file_index)
      BY <1>8, <2>1, <2>3, <2>4
    <3>2. QED
      BY <2>6, <3>1
  <2>8. disk'[name] = <<m>> /\ Len(disk'[name]) = 1
    <3>1. Before(m) = <<>>
      BY <2>name, <2>5, <2>7 DEF Before
    <3>2. QED
      BY <2>3, <3>1
  <2>9. After(m) = [file_index |-> m.file_index, trans_index |-> 1]
    BY <1>8, <2>1 DEF After, Creates
  <2>10. Expected(After(m))'
    BY <2>3, <2>9, LoggerAssumption DEF Expected
  <2>11. ASSUME NEW n \in DOMAIN disk', n.time > 0
         PROVE  n.file_index <= m.file_index /\ (n.hidden \/ Len(disk'[n]) = LastIndex)
    <3>1. CASE n = name
      BY <1>8, <2>4, <3>1
    <3>2. CASE n # name
      <4>1. /\ n \in DOMAIN disk /\ disk'[n] = disk[n]
            /\ n.file_index <= current_file.file_index /\ n.file_index \in Nat
        BY <2>3, <2>5, <2>6, <2>11, <3>2 DEF LoggerTypeOK, Names
      <4>2. QED
        BY <1>8, <2>1, <2>6, <2>11, <4>1
    <3>3. QED
      BY <3>1, <3>2
  <2>12. WholeInv'
    <3>1. /\ current_file'.name = name /\ current_file'.link = {name}
          /\ current_file'.file_index = m.file_index /\ current_file'.trans_index = 0
      BY <2>3
    <3>2. Len(disk'[current_file'.name]) = current_file'.trans_index + 1
      BY <2>8, <3>1
    <3>3. QED
      BY <1>1, <1>3, <2>11, <3>1, <3>2 DEF WholeInv
  <2>13. QED
    BY <1>7, <2>10, <2>12
<1>12. QED
  BY <1>9, <1>10, <1>11

LEMMA ChainStep ==
    ASSUME LoggerTypeOK, ContentInv, StageInv, CycleInv, ChainInv, WholeInv, [LoggerNext]_logVars
    PROVE  ChainInv'
<1> USE DEF source, table, files, logger
<1> SUFFICES ASSUME Calm' PROVE ChainInv'
  BY DEF ChainInv
<1>1. Calm /\ (user' = user \/ Initialise) /\ late = {}
  BY CalmBefore DEF ChainInv
<1>2. CASE UNCHANGED logVars
  BY <1>1, <1>2, ChainSame DEF logVars
<1>3. CASE Push
  <2>1. /\ pushed' = After(pushed) /\ UNCHANGED <<late, handler, queue_, writer, current_file>>
        /\ cmd.pc = "idle" /\ cmd' = [pc |-> "received", msg |-> pushed]
    <3>1. faults' # faults + 1
      BY <1>1 DEF Calm
    <3>2. QED
      BY <1>3, <3>1, PushedIs DEF Arrives
  <2>2. Received' = pushed /\ Received = pushed
    BY <2>1 DEF Received
  <2>3. Queued' = Queued /\ Written' = Written
    BY <2>1, <2>2 DEF Queued, Written
  <2>4. QED
    BY <1>1, <2>1, <2>2, <2>3 DEF ChainInv, Expected
<1>4. CASE \E m \in Messages : ArrivesLate(m)
  BY <1>1, <1>4 DEF ArrivesLate
<1>5. CASE AddDevice
  BY <1>1, <1>5, ChainSame DEF AddDevice
<1>6. CASE Handler
  <2>1. /\ UNCHANGED <<pushed, late>> /\ cmd.pc = "received" /\ cmd'.msg = cmd.msg
        /\ cmd.msg \in Sendable /\ After(cmd.msg) = pushed
    BY <1>1, <1>6 DEF Handler, LoggerTypeOK, ChainInv
  <2>2. CASE handler = "open"
    <3>1. log_enable_
      BY <1>1, <2>2 DEF StageInv, Calm
    <3>2. /\ cmd'.pc = "store" /\ UNCHANGED <<handler, queue_, writer, current_file>>
      BY <1>6, <2>2, <3>1 DEF Handler, LoggerTypeOK
    <3>3. Received' = Received
      BY <2>1, <3>2 DEF Received
    <3>4. Queued' = Queued /\ Written' = Written
      BY <3>2, <3>3 DEF Queued, Written
    <3>5. QED
      BY <1>1, <2>1, <2>2, <3>2, <3>3, <3>4 DEF ChainInv, Expected
  <2>3. CASE handler # "open" /\ handler' = "open"
    <3>1. /\ Creates(cmd.msg) /\ cmd'.pc = "store"
          /\ writer' = [pc |-> "top", batch |-> <<>>] /\ current_file' = NoFile /\ queue_' = <<>>
      BY <1>6, <2>3 DEF Handler, LoggerTypeOK
    <3>2. Received' = cmd.msg
      BY <2>1, <3>1 DEF Received
    <3>3. Queued' = cmd.msg
      BY <3>1, <3>2 DEF Queued, FirstOf
    <3>4. Written' = cmd.msg
      BY <3>1, <3>3 DEF Written, FirstOf
    <3>5. Leads(queue_, Received)' /\ Leads(writer.batch, Queued)'
      BY <3>1 DEF Leads
    <3>6. Expected(Written)'
      <4>1. ~current_file'.fp /\ current_file'.file_index = 0 /\ cmd.msg.file_index \in 1 .. Files
        BY <2>1, <3>1 DEF NoFile, Sendable
      <4>2. QED
        BY <3>1, <3>4, <4>1 DEF Expected, Creates
    <3>7. QED
      BY <1>1, <2>1, <3>1, <3>5, <3>6 DEF ChainInv
  <2>4. CASE handler' # "open"
    BY <1>1, <2>1, <2>4 DEF ChainInv
  <2>5. QED
    BY <2>2, <2>3, <2>4
<1>7. CASE StoreLogBag
  <2>1. /\ UNCHANGED <<pushed, late, handler, writer, current_file>>
        /\ cmd.pc = "store" /\ cmd.msg \in Sendable /\ After(cmd.msg) = pushed
        /\ cmd'.pc \in {"idle", "notify", "crashed"}
    BY <1>1, <1>7 DEF StoreLogBag, LoggerTypeOK, ChainInv
  <2>2. CASE handler # "open"
    BY <1>1, <2>1, <2>2 DEF ChainInv
  <2>3. CASE handler = "open"
    <3>1. queue_' = Append(queue_, cmd.msg) /\ queue_ \in Seq(Sendable)
      BY <1>7, <2>3 DEF StoreLogBag, LoggerTypeOK
    <3>2. Received = cmd.msg /\ Received' = After(cmd.msg)
      BY <2>1 DEF Received
    <3>3. Leads(queue_, cmd.msg)
      BY <1>1, <2>3, <3>2 DEF ChainInv
    <3>4. Leads(queue_', After(cmd.msg)) /\ FirstOf(queue_', After(cmd.msg)) = FirstOf(queue_, cmd.msg)
      BY <2>1, <3>1, <3>3, LeadsAppend
    <3>5. Queued' = Queued
      BY <3>2, <3>4 DEF Queued
    <3>6. Written' = Written
      BY <2>1, <3>5 DEF Written
    <3>7. QED
      BY <1>1, <2>1, <2>3, <3>2, <3>4, <3>5, <3>6 DEF ChainInv, Expected
  <2>4. QED
    BY <2>2, <2>3
<1>8. CASE NotifyDeleter
  <2>1. /\ UNCHANGED <<pushed, late, handler, queue_, writer, current_file>>
        /\ cmd.pc = "notify" /\ cmd'.pc = "idle"
    BY <1>8 DEF NotifyDeleter, LoggerTypeOK
  <2>2. Received' = Received
    BY <2>1 DEF Received
  <2>3. Queued' = Queued /\ Written' = Written
    BY <2>1, <2>2 DEF Queued, Written
  <2>4. QED
    BY <1>1, <2>1, <2>2, <2>3 DEF ChainInv, Expected
<1>9. CASE TakeQueue
  <2>1. /\ UNCHANGED <<pushed, late, handler, cmd, current_file>> /\ writer.pc = "top"
        /\ writer' = [pc |-> "write", batch |-> queue_] /\ queue_' = <<>>
    BY <1>9 DEF TakeQueue
  <2>2. Received' = Received
    BY <2>1 DEF Received
  <2>3. CASE handler = "open"
    <3>1. writer.batch = <<>> /\ Leads(queue_, Received) /\ Expected(Written)
      BY <1>1, <2>1, <2>3 DEF ChainInv
    <3>2. Queued' = Received
      BY <2>1, <2>2 DEF Queued, FirstOf
    <3>3. Written' = Written
      BY <2>1, <3>1, <3>2 DEF Written, Queued, FirstOf
    <3>4. Leads(queue_', Received') /\ Leads(writer'.batch, Queued')
      BY <2>1, <3>1, <3>2, LeadsNothing
    <3>5. QED
      BY <1>1, <2>1, <3>1, <3>3, <3>4 DEF ChainInv, Expected
  <2>4. CASE handler # "open"
    BY <1>1, <2>1, <2>4 DEF ChainInv
  <2>5. QED
    BY <2>3, <2>4
<1>10. CASE EndWrite
  <2>1. /\ UNCHANGED <<pushed, late, handler, cmd, queue_, current_file>>
        /\ writer'.batch = writer.batch /\ writer.batch = <<>>
    BY <1>10 DEF EndWrite, LoggerTypeOK
  <2>2. Received' = Received /\ Queued' = Queued /\ Written' = Written
    BY <2>1 DEF Received, Queued, Written
  <2>3. QED
    BY <1>1, <2>1, <2>2 DEF ChainInv, Expected
<1>11. CASE Write
  BY <1>1, <1>11, WriteInOrder
<1>12. CASE StartCycle \/ Measure \/ EndCycle
  <2>1. UNCHANGED <<pushed, late, cmd, handler, queue_, writer, current_file>>
    BY <1>12 DEF StartCycle, Measure, EndCycle
  <2>2. QED
    BY <1>1, <2>1, ChainSame
<1>13. CASE RemoveOldest
  <2>1. /\ UNCHANGED <<pushed, late, cmd, handler, queue_, writer>>
        /\ current_file'.fp = current_file.fp
        /\ current_file'.file_index = current_file.file_index
        /\ current_file'.trans_index = current_file.trans_index
    BY <1>13 DEF RemoveOldest, LoggerTypeOK, FileRecords
  <2>2. QED
    BY <1>1, <2>1, ChainSame
<1>14. CASE Initialise
  <2>1. UNCHANGED <<pushed, late, cmd, handler>> /\ handler # "open"
    BY <1>14 DEF Initialise, StageInv
  <2>2. QED
    BY <1>1, <2>1 DEF ChainInv
<1>15. CASE Destory \/ DestoryStep
  BY <1>15 DEF Calm, Destory, DestoryStep, StopCycle, JoinDeleter, JoinWriter, ClearHandlers, EndDestory
<1>16. QED
  BY <1>2, <1>3, <1>4, <1>5, <1>6, <1>7, <1>8, <1>9, <1>10, <1>11, <1>12, <1>13, <1>14, <1>15
     DEF LoggerNext, Running, CmdStep, WriterStep, DeleterStep

LEMMA WholeStep ==
    ASSUME LoggerTypeOK, ContentInv, StageInv, CycleInv, ChainInv, WholeInv, [LoggerNext]_logVars
    PROVE  WholeInv'
<1> SUFFICES ASSUME Calm' PROVE WholeInv'
  BY DEF WholeInv
<1>1. Calm /\ (user' = user \/ Initialise)
  BY CalmBefore
<1>2. CASE UNCHANGED <<disk, current_file, handler>>
  BY <1>1, <1>2 DEF WholeInv
<1>3. CASE Handler
  <2>1. disk' = disk
    BY <1>3 DEF Handler, files
  <2>2. CASE handler = "open"
    <3>1. UNCHANGED <<disk, current_file, handler>>
      BY <1>3, <2>2 DEF Handler, files
    <3>2. QED
      BY <1>2, <3>1
  <2>3. CASE handler # "open"
    <3>1. \A n \in DOMAIN disk' : n.time = 0
      BY <1>1, <2>1, <2>3 DEF WholeInv
    <3>2. handler' = "open" => ~current_file'.fp
      BY <1>3, <2>3 DEF Handler, NoFile
    <3>3. QED
      BY <3>1, <3>2 DEF WholeInv
  <2>4. QED
    BY <2>2, <2>3
<1>4. CASE Write
  BY <1>1, <1>4, WriteInOrder
<1>5. CASE RemoveOldest
  <2>1. PICK n \in Oldest(deleter.names) :
          /\ disk' = Without(disk, n)
          /\ current_file' = [current_file EXCEPT !.link = @ \ {n}]
          /\ deleter' = [deleter EXCEPT !.names = @ \ {n}]
    BY <1>5 DEF RemoveOldest
  <2>2. UNCHANGED handler /\ Newest /\ ListedIsOlder
    BY <1>5 DEF RemoveOldest, StageInv, CycleInv, Deleting, table
  <2>3. ~n.hidden
    BY <2>1, <2>2 DEF Oldest, ListedIsOlder
  <2>4. /\ DOMAIN disk' = DOMAIN disk \ {n} /\ \A k \in DOMAIN disk' : disk'[k] = disk[k]
        /\ current_file'.link = current_file.link \ {n}
        /\ current_file'.fp = current_file.fp /\ current_file'.name = current_file.name
        /\ current_file'.file_index = current_file.file_index
        /\ current_file'.trans_index = current_file.trans_index
    BY <2>1 DEF Without, LoggerTypeOK, FileRecords
  <2>5. current_file.fp /\ current_file.link = {current_file.name} =>
          /\ current_file'.link = current_file.link
          /\ current_file.name \in DOMAIN disk'
    BY <2>2, <2>3, <2>4 DEF Newest, ContentInv
  <2>6. QED
    BY <1>1, <2>2, <2>4, <2>5 DEF WholeInv
<1>6. CASE Initialise
  <2>1. ChangeHiddenFiles /\ handler' = handler /\ handler # "open"
    BY <1>6 DEF Initialise, StageInv, table
  <2>2. ASSUME NEW n \in DOMAIN disk' PROVE n.time = 0
    <3>1. PICK k \in DOMAIN disk : disk'[n] = disk[k] /\ Shown(k) = n
      BY <2>1, ChangeHiddenFilesIs
    <3>2. k.time = n.time
      BY <3>1, NameFacts DEF LoggerTypeOK
    <3>3. QED
      BY <1>1, <2>1, <3>1, <3>2 DEF WholeInv
  <2>3. QED
    BY <2>1, <2>2 DEF WholeInv
<1>7. CASE Destory \/ DestoryStep
  BY <1>7 DEF Calm, Destory, DestoryStep, StopCycle, JoinDeleter, JoinWriter, ClearHandlers, EndDestory
<1>8. UNCHANGED <<disk, current_file, handler>> \/ Handler \/ Write \/ RemoveOldest \/ Initialise
      \/ Destory \/ DestoryStep
  BY DEF logVars, files, table, LoggerNext, Running, CmdStep, WriterStep, DeleterStep,
         Push, AddDevice, ArrivesLate, StoreLogBag, NotifyDeleter, TakeQueue, EndWrite,
         StartCycle, Measure, EndCycle
<1>9. QED
  BY <1>2, <1>3, <1>4, <1>5, <1>6, <1>7, <1>8
-----------------------------------------------------------------------------
LEMMA LoggerInitially == LoggerInit => LoggerInv
<1> SUFFICES ASSUME LoggerInit PROVE LoggerInv
  OBVIOUS
<1>1. LoggerTypeOK
  BY LoggerTypeInit
<1>2. PICK old \in {{}, {Earlier}, {Shown(Earlier)}} : disk = [n \in old |-> <<pushed>>]
  BY DEF LoggerInit
<1>3. ASSUME NEW n \in DOMAIN disk
      PROVE  /\ n.time = 0 /\ n.file_index = 1
             /\ disk[n] = <<pushed>> /\ pushed.file_index = 1
  <2>1. n \in {Earlier, Shown(Earlier)} /\ disk[n] = <<pushed>>
    BY <1>2
  <2>2. /\ Earlier.time = 0 /\ Earlier.file_index = 1
        /\ Shown(Earlier).time = 0 /\ Shown(Earlier).file_index = 1
    BY DEF Earlier, Shown
  <2>3. QED
    BY <2>1, <2>2 DEF LoggerInit
<1>4. /\ current_file = NoFile /\ current_file.link = {} /\ user = "new" /\ second = 0
      /\ deleter.pc = "none" /\ deleter.names = {} /\ writer.pc = "none"
      /\ handler = "none" /\ ~log_enable_ /\ cmd.pc = "idle" /\ late = {}
  BY DEF LoggerInit, NoFile
<1>5. ContentInv
  <2>1. \A n \in DOMAIN disk : OfFile(n.file_index, disk[n]) /\ Sorted(disk[n])
    BY <1>3 DEF OfFile, Sorted
  <2>2. QED
    BY <1>4, <2>1 DEF ContentInv
<1>6. StageInv
  BY <1>4 DEF StageInv, Early, Deleting
<1>7. CycleInv
  BY <1>3, <1>4 DEF CycleInv, Early
<1>8. ChainInv /\ WholeInv
  BY <1>3, <1>4 DEF ChainInv, WholeInv
<1>9. QED
  BY <1>1, <1>5, <1>6, <1>7, <1>8 DEF LoggerInv

(* The inductive invariant of the log: what the open file and the queues   *)
(* hold, and which file is the newest, whatever the network does           *)
(* (logger_handler.cpp, logger_manager.cpp).                               *)
THEOREM LogIsSound == LoggerSpec => []LoggerInv
<1>1. LoggerInv /\ [LoggerNext]_logVars => LoggerInv'
  BY LoggerTypeStep, ContentStep, StageStep, CycleStep, ChainStep, WholeStep DEF LoggerInv
<1>2. QED
  BY LoggerInitially, <1>1, PTL DEF LoggerSpec

(* Every variable of the log keeps its type.                               *)
THEOREM LogTypeCorrect == LoggerSpec => []LoggerTypeOK
<1>1. LoggerInv => LoggerTypeOK
  BY DEF LoggerInv
<1>2. QED
  BY <1>1, LogIsSound, PTL

(* A file holds messages of one file of the lidar, in their order, and one *)
(* that is shown is whole if nothing went wrong on the network             *)
(* (LoggerHandler::Write).                                                 *)
THEOREM FilesAreSound == LoggerSpec => []FilesSound
<1>1. LoggerInv => FilesSound
  <2> SUFFICES ASSUME LoggerInv, NEW n \in DOMAIN disk
               PROVE  /\ \A i \in DOMAIN disk[n] :
                            /\ disk[n][i].file_index = n.file_index
                            /\ \/ i = 1 \/ Creates(disk[n][i])
                               \/ disk[n][i - 1].trans_index <= disk[n][i].trans_index
                      /\ n.time > 0 /\ ~n.hidden /\ faults = 0 /\ user = "running" =>
                            Len(disk[n]) = LastIndex
    BY DEF FilesSound
  <2>1. OfFile(n.file_index, disk[n]) /\ Sorted(disk[n])
    BY DEF LoggerInv, ContentInv
  <2>2. n.time > 0 /\ ~n.hidden /\ faults = 0 /\ user = "running" => Len(disk[n]) = LastIndex
    BY DEF LoggerInv, WholeInv, Calm
  <2>3. QED
    BY <2>1, <2>2 DEF OfFile, Sorted
<1>2. QED
  BY <1>1, LogIsSound, PTL

(* The deleting thread removes neither the file being written nor a newer  *)
(* one than it leaves (LoggerManager::CycleDelete).                        *)
THEOREM OldestIsDeleted == LoggerSpec => DeletesOldest
<1>1. LoggerInv /\ [LoggerNext]_logVars =>
          [\A n \in DOMAIN disk \ DOMAIN disk' :
              deleter.pc = "remove" /\ deleter' # deleter =>
                  /\ n \notin current_file.link
                  /\ \A m \in DOMAIN disk' : m.hidden \/ m.time >= n.time]_logVars
  <2> SUFFICES ASSUME LoggerInv, LoggerNext, NEW n \in DOMAIN disk \ DOMAIN disk',
                      deleter.pc = "remove", deleter' # deleter
               PROVE  /\ n \notin current_file.link
                      /\ \A m \in DOMAIN disk' : m.hidden \/ m.time >= n.time
    OBVIOUS
  <2>1. CASE RemoveOldest
    <3>1. PICK k \in Oldest(deleter.names) : disk' = Without(disk, k)
      BY <2>1 DEF RemoveOldest
    <3>2. n = k /\ n \in deleter.names /\ DOMAIN disk' \subseteq DOMAIN disk
      BY <3>1 DEF Without, Oldest
    <3>3. Newest /\ ListedIsOlder
      BY DEF LoggerInv, StageInv, CycleInv, Deleting
    <3>4. ~n.hidden
      BY <3>2, <3>3 DEF ListedIsOlder
    <3>5. n \notin current_file.link
      BY <3>3, <3>4 DEF Newest
    <3>6. ASSUME NEW m \in DOMAIN disk' PROVE m.hidden \/ m.time >= n.time
      <4>1. CASE m \in deleter.names
        <5>1. n.time <= m.time /\ n.time \in Nat /\ m.time \in Nat
          BY <3>1, <3>2, <4>1 DEF Oldest, LoggerInv, LoggerTypeOK, Names
        <5>2. QED
          BY <5>1
      <4>2. CASE m \notin deleter.names
        BY <3>2, <3>3, <4>2 DEF ListedIsOlder
      <4>3. QED
        BY <4>1, <4>2
    <3>7. QED
      BY <3>5, <3>6
  <2>2. CASE Initialise
    BY <2>2 DEF Initialise, LoggerInv, StageInv
  <2>3. disk' = disk \/ deleter' = deleter \/ RemoveOldest \/ Initialise
    BY DEF logVars, files, logger, LoggerNext, Running, CmdStep, WriterStep, DeleterStep, DestoryStep,
           Push, AddDevice, ArrivesLate, Handler, StoreLogBag, NotifyDeleter, TakeQueue, EndWrite,
           Write, StartCycle, Measure, EndCycle, Destory, StopCycle, JoinDeleter, JoinWriter,
           ClearHandlers, EndDestory
  <2>4. QED
    BY <2>1, <2>2, <2>3
<1>2. QED
  BY <1>1, LogIsSound, PTL DEF LoggerSpec, DeletesOldest
=============================================================================
