-------------------------- MODULE LidarSdk_proofs ---------------------------
(***************************************************************************)
(* Theorems about the requests of the SDK: first what the operations of    *)
(* the command layer (LidarCommands) do, for every component that sends    *)
(* requests; then LidarUpgrade, for a firmware of any length and any       *)
(* limits of the retries; then LidarConfig, for any number of lidars and   *)
(* settings; and last LidarSettings, what the requests of the setters      *)
(* carry, for calls in any number with any arguments their types admit.    *)
(***************************************************************************)
EXTENDS LidarConfig, LidarUpgrade, LidarSettings, SequenceLemmas

(* A new command takes a number that is free.                              *)
LEMMA NumberedFresh ==
    ASSUME NEW r, NEW W, Numbers(r, W) # {}
    PROVE  \E n \in Seqs : Numbered(r, W) = [of |-> r, seq |-> n] /\ [of |-> r, seq |-> n] \notin W
<1> DEFINE n == CHOOSE k \in Numbers(r, W) : \A m \in Numbers(r, W) : k <= m
<1>1. Numbers(r, W) \in SUBSET Nat
  BY MaxSeqAssumption DEF Numbers, Seqs
<1>2. n \in Numbers(r, W)
  BY <1>1, LeastNumber
<1>3. QED
  BY <1>2 DEF Numbers, Numbered
-----------------------------------------------------------------------------
(* What holds of the layer between any two steps, whatever requests R a    *)
(* component sends: a command is in one table only, what the other thread  *)
(* adds is at most one, and every datagram is one of a command that waits  *)
(* and could be sent.                                                      *)
Commands(R) == [of : R, seq : Seqs]

LayerInv(R) ==
    /\ commands \subseteq Commands(R) /\ IsFiniteSet(commands)
    /\ \/ adding = {}
       \/ \E c \in Commands(R) : adding = {c}
    /\ commands \cap adding = {}
    /\ todo \in Seq(R)
    /\ \A d \in air : d.way \in {"request", "answer"} /\ d.cmd \in Waiting
    /\ unsent \subseteq [thread : Threads, cmd : commands]
    /\ \A d \in air : \A u \in unsent : d.cmd # u.cmd
    /\ failures \in 0 .. MaxFailures

(* A step that no sendto fails in adds nothing to unsent.                  *)
Counts ==
    /\ failures' \in Nat /\ failures' >= failures
    /\ failures' = failures => unsent' \subseteq unsent

LEMMA LayerInvType == ASSUME NEW R, LayerInv(R) PROVE LayerTypeOK(R)
<1>1. Cardinality(adding) <= 1
  <2>1. CASE adding = {}
    BY <2>1, FS_EmptySet
  <2>2. CASE \E c : adding = {c}
    BY <2>2, FS_Singleton
  <2>3. QED
    BY <2>1, <2>2 DEF LayerInv
<1>2. adding \subseteq Commands(R)
  BY DEF LayerInv
<1>3. QED
  BY <1>1, <1>2 DEF LayerInv, LayerTypeOK, Commands

LEMMA LayerInvInit == ASSUME NEW R, InitLayer PROVE LayerInv(R)
  BY FS_EmptySet, MaxFailuresAssumption DEF InitLayer, LayerInv

(* The commands that a callback on the command thread sends are waited     *)
(* for, and nothing but the commands gone is lost.                         *)
Sends(gone, rs) ==
    /\ adding' = adding /\ todo' = todo
    /\ commands \ gone \subseteq commands'
    /\ \A c \in commands' : c \in commands \ gone \/ c.of \in rs
    /\ \A c, e \in commands' \ (commands \ gone) : c.of = e.of => c = e
    /\ \A r \in rs : \E c \in commands' : c.of = r
    /\ \A d \in air' : \/ d \in air /\ d.cmd \notin gone
                       \/ d.way = "request" /\ d.cmd.of \in rs
    /\ Counts

LEMMA SendAfterEffect ==
    ASSUME NEW R, LayerInv(R), NEW ran, NEW gone \in SUBSET commands,
           \A u \in unsent : u.cmd \notin gone,
           NEW rs \in SUBSET R, IsFiniteSet(rs), SendAfter(ran, gone, rs)
    PROVE  LayerInv(R)' /\ Sends(gone, rs)
<1> DEFINE waiting == Waiting \ gone
           sent == {Numbered(r, waiting) : r \in rs}
<1>1. \A r \in rs : \E n \in Seqs : /\ Numbered(r, waiting) = [of |-> r, seq |-> n]
                                    /\ Numbered(r, waiting) \notin waiting
  <2>1. ASSUME NEW r \in rs PROVE Numbers(r, waiting) # {}
    BY <2>1 DEF SendAfter, CanNumber
  <2> HIDE DEF waiting
  <2>2. ASSUME NEW r \in rs
        PROVE  \E n \in Seqs : /\ Numbered(r, waiting) = [of |-> r, seq |-> n]
                              /\ Numbered(r, waiting) \notin waiting
    <3>1. PICK n \in Seqs : /\ Numbered(r, waiting) = [of |-> r, seq |-> n]
                            /\ [of |-> r, seq |-> n] \notin waiting
      BY <2>1, NumberedFresh
    <3>2. QED
      BY <3>1
  <2>3. QED
    BY <2>2
<1>2. IsFiniteSet(sent)
  <2> DEFINE f == [r \in rs |-> Numbered(r, waiting)]
  <2>1. f \in Surjection(rs, sent)
    BY DEF Surjection
  <2>2. QED
    <3> HIDE DEF f, sent
    <3>1. QED
      BY <2>1, FS_Surjection
<1> HIDE DEF waiting
<1>3. sent \subseteq Commands(R) /\ sent \cap waiting = {} /\ \A c \in sent : c.of \in rs
  BY <1>1 DEF Commands
<1>4. /\ \A r \in rs : \E c \in sent : c.of = r
      /\ \A c \in sent : c = Numbered(c.of, waiting)
  BY <1>1
<1>5. /\ commands' = (commands \ gone) \cup sent
      /\ adding' = adding /\ todo' = todo
  BY DEF SendAfter, waiting
<1>6. \/ /\ air' = {d \in air : d.cmd \notin gone} \cup {Request(c) : c \in sent}
         /\ unsent' = unsent \ ran /\ failures' = failures
      \/ \E c \in sent :
            /\ failures < MaxFailures /\ failures' = failures + 1
            /\ air' = {d \in air : d.cmd \notin gone} \cup {Request(e) : e \in sent \ {c}}
            /\ unsent' = (unsent \ ran) \cup {[thread |-> "cmd", cmd |-> c]}
  BY DEF SendAfter, InAir, waiting
<1> HIDE DEF sent
<1>7. IsFiniteSet(commands')
  BY <1>2, <1>5, FS_Difference, FS_Union DEF LayerInv
<1>8. /\ \A d \in air' : \/ d \in air /\ d.cmd \notin gone
                         \/ d.way = "request" /\ d.cmd \in sent
  BY <1>6 DEF Request
<1>9. /\ unsent' \subseteq [thread : Threads, cmd : commands']
      /\ \A d \in air' : \A u \in unsent' : d.cmd # u.cmd
      /\ failures' \in 0 .. MaxFailures /\ Counts
  <2>1. /\ unsent \subseteq [thread : Threads, cmd : commands']
        /\ \A u \in unsent : u.cmd \in commands \ gone
    BY <1>5 DEF LayerInv
  <2>2. /\ \A d \in air : \A u \in unsent : d.cmd # u.cmd
        /\ \A d \in air : d.cmd \notin gone => d.cmd \in waiting
        /\ \A u \in unsent : u.cmd \in waiting
    BY <2>1 DEF LayerInv, waiting, Waiting
  <2>3. failures \in Nat /\ failures <= MaxFailures /\ MaxFailures \in Nat
    BY MaxFailuresAssumption DEF LayerInv
  <2>4. CASE /\ air' = {d \in air : d.cmd \notin gone} \cup {Request(c) : c \in sent}
             /\ unsent' = unsent \ ran /\ failures' = failures
    <3>1. \A d \in air' : \A u \in unsent' : d.cmd # u.cmd
      BY <1>3, <1>8, <2>2, <2>4
    <3>2. QED
      BY <2>1, <2>3, <2>4, <3>1 DEF Counts
  <2>5. ASSUME NEW c \in sent,
               failures < MaxFailures, failures' = failures + 1,
               air' = {d \in air : d.cmd \notin gone} \cup {Request(e) : e \in sent \ {c}},
               unsent' = (unsent \ ran) \cup {[thread |-> "cmd", cmd |-> c]}
        PROVE  /\ unsent' \subseteq [thread : Threads, cmd : commands']
               /\ \A d \in air' : \A u \in unsent' : d.cmd # u.cmd
               /\ failures' \in 0 .. MaxFailures /\ Counts
    <3>1. c \in commands' /\ c \notin waiting
      BY <1>3, <1>5, <2>5
    <3>2. \A d \in air' : d.cmd # c /\ ((d \in air /\ d.cmd \in waiting) \/ d.cmd \in sent)
      BY <2>2, <2>5, <3>1 DEF Request
    <3>3. \A u \in unsent' : u \in unsent \/ u.cmd = c
      BY <2>5
    <3>4. \A d \in air' : \A u \in unsent' : d.cmd # u.cmd
      BY <1>3, <2>2, <3>2, <3>3
    <3>5. unsent' \subseteq [thread : Threads, cmd : commands']
      BY <2>1, <2>5, <3>1 DEF Threads
    <3>6. QED
      BY <2>3, <2>5, <3>4, <3>5 DEF Counts
  <2>6. QED
    BY <1>6, <2>4, <2>5
<1>10. LayerInv(R)'
  <2>1. commands' \subseteq Commands(R)
    BY <1>3, <1>5 DEF LayerInv
  <2>2. commands' \cap adding' = {}
    BY <1>3, <1>5 DEF LayerInv, waiting, Waiting
  <2>3. \A d \in air' : d.way \in {"request", "answer"} /\ d.cmd \in commands' \cup adding'
    BY <1>5, <1>8 DEF LayerInv, Waiting
  <2>4. QED
    BY <1>5, <1>7, <1>9, <2>1, <2>2, <2>3 DEF LayerInv, Waiting, Commands, Threads
<1>11. Sends(gone, rs)
  <2>1. \A c, e \in commands' \ (commands \ gone) : c.of = e.of => c = e
    BY <1>4, <1>5
  <2>2. QED
    BY <1>3, <1>4, <1>5, <1>8, <1>9, <2>1 DEF Sends
<1>12. QED
  BY <1>10, <1>11

LEMMA SendFromCmdEffect ==
    ASSUME NEW R, LayerInv(R), NEW gone \in SUBSET commands,
           \A u \in unsent : u.cmd \notin gone,
           NEW rs \in SUBSET R, IsFiniteSet(rs), SendFromCmd(gone, rs)
    PROVE  LayerInv(R)' /\ Sends(gone, rs)
  BY SendAfterEffect DEF SendFromCmd

LEMMA TakeAnswerEffect ==
    ASSUME NEW R, LayerInv(R), NEW rs \in SUBSET R, IsFiniteSet(rs), NEW d, TakeAnswer(d, rs)
    PROVE  /\ LayerInv(R)' /\ Sends({d.cmd}, rs)
           /\ d \in air /\ d.way = "answer" /\ d.cmd \in commands /\ d.cmd \in Commands(R)
  BY SendFromCmdEffect DEF TakeAnswer, LayerInv

(* An expiry on the other thread leaves its requests to be sent.           *)
ExpiresOther(c, rs) ==
    /\ OtherIsFree
    /\ adding' = adding /\ todo' = rs
    /\ commands' = commands \ {c}
    /\ \A d \in air' : d \in air /\ d.cmd # c
    /\ UNCHANGED sending

LEMMA ExpireEffect ==
    ASSUME NEW R, LayerInv(R), NEW t, NEW c, NEW rs \in Seq(R), Expire(t, c, rs)
    PROVE  /\ LayerInv(R)'
           /\ c \in commands /\ c \in Commands(R)
           /\ \/ t = "cmd" /\ Sends({c}, ToSet(rs))
              \/ t # "cmd" /\ ExpiresOther(c, rs)
<1>1. c \in commands /\ c \in Commands(R)
  BY DEF Expire, LayerInv
<1>2. CASE t = "cmd"
  BY <1>1, <1>2, ToSetType, SendFromCmdEffect DEF Expire
<1>3. CASE t # "cmd"
  <2>1. ExpiresOther(c, rs)
    BY <1>3 DEF Expire, ExpiresOther, InAir
  <2>2. IsFiniteSet(commands')
    BY <2>1, FS_RemoveElement DEF ExpiresOther, LayerInv
  <2>3. LayerInv(R)'
    BY <1>1, <2>1, <2>2 DEF Expire, ExpiresOther, OtherIsFree, LayerInv, Waiting, Commands, sending
  <2>4. QED
    BY <1>1, <1>3, <2>1, <2>3
<1>4. QED
  BY <1>2, <1>3

(* The other thread takes the next of its requests on its way.             *)
LEMMA SendNextEffect ==
    ASSUME NEW R, LayerInv(R), SendNext
    PROVE  /\ LayerInv(R)'
           /\ adding = {} /\ todo # <<>>
           /\ commands' = commands /\ todo' = Tail(todo)
           /\ \E c \in Commands(R) : c.of = Head(todo) /\ adding' = {c}
           /\ \A d \in air' : d \in air \/ (d.way = "request" /\ d.cmd.of = Head(todo))
           /\ UNCHANGED sending
<1>1. PICK n \in Seqs : /\ Numbered(Head(todo), Waiting) = [of |-> Head(todo), seq |-> n]
                        /\ [of |-> Head(todo), seq |-> n] \notin Waiting
  BY NumberedFresh DEF SendNext, CanNumber
<1> DEFINE c == [of |-> Head(todo), seq |-> n]
<1>2. /\ adding = {} /\ todo # <<>> /\ adding' = {c}
      /\ air' = air \cup {Request(c)} /\ todo' = Tail(todo) /\ commands' = commands
      /\ UNCHANGED sending
  BY <1>1 DEF SendNext, InAir
<1>3. Head(todo) \in R /\ todo' \in Seq(R)
  BY <1>2, ToSetHead DEF LayerInv
<1>4. c \in Commands(R) /\ c \notin commands
  BY <1>1, <1>3 DEF Commands, Waiting
<1>5. c.of = Head(todo) /\ Request(c).cmd = c /\ Request(c).way = "request"
  BY DEF Request
<1> HIDE DEF c
<1>6. LayerInv(R)'
  <2>1. \A d \in air' : d \in air \/ d = Request(c)
    BY <1>2
  <2>2. \A d \in air' : \A u \in unsent : d.cmd # u.cmd
    BY <1>4, <1>5, <2>1 DEF LayerInv
  <2>3. \A d \in air' : d.way \in {"request", "answer"} /\ d.cmd \in commands' \cup adding'
    BY <1>2, <1>5, <2>1 DEF LayerInv, Waiting
  <2>4. QED
    BY <1>2, <1>3, <1>4, <2>2, <2>3 DEF LayerInv, Waiting, Commands, sending
<1>7. \A d \in air' : d \in air \/ (d.way = "request" /\ d.cmd.of = Head(todo))
  <2>1. ASSUME NEW d \in air', d \notin air PROVE d = Request(c)
    BY <1>2, <2>1
  <2>2. QED
    BY <1>5, <2>1
<1>8. QED
  BY <1>2, <1>4, <1>5, <1>6, <1>7

(* The same when sendto fails.                                             *)
LEMMA SendNextFailsEffect ==
    ASSUME NEW R, LayerInv(R), SendNextFails
    PROVE  /\ LayerInv(R)' /\ failures' = failures + 1
           /\ adding = {} /\ todo # <<>> /\ Minds([of |-> Head(todo)])
           /\ adding' = {} /\ todo' = Tail(todo) /\ air' = air
           /\ \E c \in Commands(R) : /\ c.of = Head(todo) /\ commands' = commands \cup {c}
                                    /\ unsent' = unsent \cup {[thread |-> "other", cmd |-> c]}
<1>1. PICK n \in Seqs : /\ Numbered(Head(todo), Waiting) = [of |-> Head(todo), seq |-> n]
                        /\ [of |-> Head(todo), seq |-> n] \notin Waiting
  BY NumberedFresh DEF SendNextFails, CanNumber
<1> DEFINE c == [of |-> Head(todo), seq |-> n]
<1>2. /\ adding = {} /\ todo # <<>> /\ adding' = {} /\ air' = air /\ todo' = Tail(todo)
      /\ commands' = commands \cup {c} /\ failures < MaxFailures /\ failures' = failures + 1
      /\ unsent' = unsent \cup {[thread |-> "other", cmd |-> c]}
      /\ Minds([of |-> Head(todo)])
  BY <1>1 DEF SendNextFails, Minds
<1>3. Head(todo) \in R /\ todo' \in Seq(R)
  BY <1>2, ToSetHead DEF LayerInv
<1>4. c \in Commands(R) /\ c \notin Waiting /\ c.of = Head(todo)
  BY <1>1, <1>3 DEF Commands
<1> HIDE DEF c
<1>5. IsFiniteSet(commands')
  BY <1>2, FS_AddElement DEF LayerInv
<1>6. unsent' \subseteq [thread : Threads, cmd : commands']
  BY <1>2 DEF LayerInv, Threads
<1>7. \A d \in air' : \A u \in unsent' : d.cmd # u.cmd
  <2>1. \A u \in unsent' : u \in unsent \/ u.cmd = c
    BY <1>2
  <2>2. \A d \in air' : d.cmd # c
    BY <1>2, <1>4 DEF LayerInv
  <2>3. QED
    BY <1>2, <2>1, <2>2 DEF LayerInv
<1>8. failures' \in 0 .. MaxFailures
  BY <1>2, MaxFailuresAssumption DEF LayerInv
<1>9. LayerInv(R)'
  BY <1>2, <1>3, <1>4, <1>5, <1>6, <1>7, <1>8 DEF LayerInv, Waiting, Commands, Threads
<1>10. QED
  BY <1>2, <1>4, <1>9

LEMMA AddCommandEffect ==
    ASSUME NEW R, LayerInv(R), AddCommand
    PROVE  /\ LayerInv(R)'
           /\ Waiting' = Waiting /\ adding' = {} /\ UNCHANGED <<todo, air, sending>>
<1>1. IsFiniteSet(adding)
  <2>1. CASE adding = {}
    BY <2>1, FS_EmptySet
  <2>2. CASE \E c : adding = {c}
    BY <2>2, FS_Singleton
  <2>3. QED
    BY <2>1, <2>2 DEF LayerInv
<1>2. IsFiniteSet(commands')
  BY <1>1, FS_Union DEF AddCommand, LayerInv
<1>3. QED
  BY <1>2 DEF AddCommand, LayerInv, Waiting, Commands, sending

LEMMA IgnoreAnswerEffect ==
    ASSUME NEW R, LayerInv(R), NEW d, IgnoreAnswer(d)
    PROVE  LayerInv(R)' /\ air' = air \ {d} /\ UNCHANGED <<commands, adding, todo, sending>>
  BY DEF IgnoreAnswer, LayerInv, Waiting, Commands, sending

LEMMA LidarAnswersEffect ==
    ASSUME NEW R, LayerInv(R), NEW d, NEW ret, LidarAnswers(d, ret)
    PROVE  /\ LayerInv(R)'
           /\ d \in air /\ d.way = "request" /\ d.cmd \in Waiting
           /\ air' = (air \ {d}) \cup {Answer(d.cmd, ret)}
           /\ UNCHANGED <<commands, adding, todo, sending>>
  BY DEF LidarAnswers, LayerInv, Waiting, Commands, Answer, sending

(* The callback of a request that could not be sent.                       *)
RecallsOther(rs) ==
    /\ OtherIsFree
    /\ todo' = rs
    /\ UNCHANGED <<commands, adding, air>>

LEMMA RecallEffect ==
    ASSUME NEW R, LayerInv(R), NEW u, NEW rs \in Seq(R), Recall(u, rs)
    PROVE  /\ LayerInv(R)' /\ Counts
           /\ u.cmd \in commands /\ u.cmd \in Commands(R) /\ u.thread \in Threads
           /\ \/ u.thread = "cmd" /\ Sends({}, ToSet(rs))
              \/ u.thread # "cmd" /\ RecallsOther(rs)
<1>1. u \in unsent /\ u.cmd \in commands /\ u.cmd \in Commands(R) /\ u.thread \in Threads
  BY DEF Recall, LayerInv
<1>2. CASE u.thread = "cmd"
  <2>1. SendAfter({u}, {}, ToSet(rs))
    BY <1>2 DEF Recall
  <2>2. LayerInv(R)' /\ Sends({}, ToSet(rs))
    BY <2>1, ToSetType, SendAfterEffect
  <2>3. QED
    BY <1>1, <1>2, <2>2 DEF Sends
<1>3. CASE u.thread # "cmd"
  <2>1. RecallsOther(rs) /\ unsent' = unsent \ {u} /\ failures' = failures
    BY <1>3 DEF Recall, RecallsOther
  <2>2. LayerInv(R)'
    BY <2>1 DEF RecallsOther, LayerInv, Waiting, Commands
  <2>3. Counts
    BY <2>1 DEF Counts, LayerInv
  <2>4. QED
    BY <1>1, <1>3, <2>1, <2>2, <2>3
<1>4. QED
  BY <1>2, <1>3
-----------------------------------------------------------------------------
(* The upgrade of a firmware.                                              *)

(* Nothing is outstanding; the request r and nothing else is.              *)
NothingOut == Waiting = {} /\ todo = <<>>

Sole(r) ==
    \/ Waiting = {} /\ todo = <<r>>
    \/ todo = <<>> /\ \E n \in Seqs : Waiting = {[of |-> r, seq |-> n]}

(* The state the machine is in while the request is outstanding.           *)
StateOf(k) ==
    CASE k = "Start"    -> "Request"
      [] k = "Progress" -> "GetProgress"
      [] k = "Reboot"   -> "Complete"
      [] OTHER          -> k

Drives(r) ==
    /\ fsm_state = StateOf(r.kind)
    /\ r.kind = "Xfer" => r.block = read_offset

(* Who drives the machine in each of its states.                           *)
DriverInv ==
    /\ object = "new" => fsm_state = "Idle" /\ NothingOut
    /\ object # "new" =>
          IF fsm_state \in {"Idle", "Err"}
          THEN NothingOut
          ELSE object = "started" /\ \E r \in UpgradeRequests : Sole(r) /\ Drives(r)

NoneMissing ==
    fsm_state \in {"CompleteXfer", "GetProgress", "Complete"} => memory = Firmware

(* What the lidar holds in each of them: an answer on its way promises as  *)
(* much as the state it leads to.                                          *)
LidarInv ==
    /\ fsm_state = "Request" => read_offset = 0
    /\ fsm_state = "Xfer" => 0 .. read_offset - 1 \subseteq memory
    /\ NoneMissing
    /\ fsm_state = "Complete" \/ (fsm_state = "Idle" /\ object # "new") => flashed
    /\ \A d \in air : d.way = "answer" /\ d.ret = "ok" =>
          /\ d.cmd.of.kind = "Xfer" => d.cmd.of.block \in memory
          /\ d.cmd.of.kind = "Progress" => flashed

UpgradeValuesInv ==
    /\ fsm_state \in States
    /\ read_offset \in 0 .. Blocks
    /\ try_count \in 0 .. ProgressLimit - 1
    /\ try_count > 0 => fsm_state \notin {"Idle", "Err"}
    /\ object \in {"new", "started", "destroyed"}
    /\ memory \subseteq Firmware
    /\ flashed \in BOOLEAN

(* As long as no sendto has failed.                                        *)
UpgradeInv ==
    LayerInv(UpgradeRequests) /\ unsent = {} /\ UpgradeValuesInv /\ DriverInv /\ LidarInv

(* And in any case.                                                        *)
UpgradeTypesInv ==
    /\ LayerInv(UpgradeRequests)
    /\ fsm_state \in States
    /\ read_offset \in Nat /\ try_count \in Nat
    /\ object \in {"new", "started", "destroyed"}
    /\ observing \subseteq {"start"} \cup Threads
    /\ object = "destroyed" => "start" \notin observing
    /\ memory \subseteq Firmware
    /\ flashed \in BOOLEAN
-----------------------------------------------------------------------------
LEMMA StatesAre ==
    States = {"Idle", "Request", "Xfer", "CompleteXfer", "GetProgress", "Complete", "Err"}
<1>1. ASSUME NEW row \in EventTable
      PROVE  row[1] \in {"Idle", "Request", "Xfer", "CompleteXfer", "GetProgress", "Complete"}
  BY DEF EventTable
<1>2. \A s \in {"Idle", "Request", "Xfer", "CompleteXfer", "GetProgress", "Complete"} :
          \E row \in EventTable : row[1] = s
  <2>1. /\ <<"Idle", "Request", "Request">> \in EventTable
        /\ <<"Request", "Request", "Request">> \in EventTable
        /\ <<"Xfer", "Xfer", "Xfer">> \in EventTable
        /\ <<"CompleteXfer", "CompleteXfer", "CompleteXfer">> \in EventTable
        /\ <<"GetProgress", "GetProgress", "GetProgress">> \in EventTable
        /\ <<"Complete", "Complete", "Complete">> \in EventTable
    BY DEF EventTable
  <2>2. QED
    BY <2>1
<1>3. QED
  BY <1>1, <1>2 DEF States

(* The table has one row for a state and an event, so that what the        *)
(* handler does is determined (FsmEventHandler takes the first row).       *)
LEMMA EventEffect ==
    ASSUME NEW s, NEW e, NEW n, NEW o,
           <<s, e, n>> \in EventTable, fsm_state = s, FsmEventHandler(e, o)
    PROVE  /\ fsm_state' = n
           /\ read_offset' = IF e = "Request" THEN 0 ELSE o
           /\ EventSends(e, o) = Sent(e, o)
<1>1. ASSUME NEW row \in EventTable, row[1] = s, row[2] = e
      PROVE  row = <<s, e, n>>
  BY <1>1 DEF EventTable
<1>2. Rows(e) = {<<s, e, n>>}
  BY <1>1 DEF Rows
<1>3. e # "Err"
  BY DEF EventTable
<1>4. QED
  BY <1>2, <1>3 DEF FsmEventHandler, EventSends

LEMMA ErrEffect ==
    ASSUME NEW o, FsmEventHandler("Err", o)
    PROVE  fsm_state' = "Err" /\ read_offset' = o /\ EventSends("Err", o) = <<>>
<1>1. Rows("Err") = {}
  BY DEF Rows, EventTable
<1>2. QED
  BY <1>1 DEF FsmEventHandler, EventSends

(* One command waits for its callback, and the callback sends s: what is   *)
(* outstanding then is what is in s, and no answer is on its way.          *)
LEMMA Replaced ==
    ASSUME LayerInv(UpgradeRequests), NEW c, Waiting = {c}, todo = <<>>,
           unsent = {}, failures' = failures,
           NEW s, s = <<>> \/ \E r \in UpgradeRequests : s = <<r>>,
           \/ \E t : Expire(t, c, s)
           \/ \E d : d.cmd = c /\ TakeAnswer(d, ToSet(s))
    PROVE  /\ LayerInv(UpgradeRequests)'
           /\ s = <<>> => NothingOut'
           /\ \A r : s = <<r>> => Sole(r)'
           /\ \A d \in air' : d.way = "request"
           /\ unsent' = {}
<1>1. s \in Seq(UpgradeRequests) /\ ToSet(s) \subseteq UpgradeRequests /\ IsFiniteSet(ToSet(s))
  <2>1. s \in Seq(UpgradeRequests)
    <3> HIDE DEF UpgradeRequests
    <3>1. CASE s = <<>>
      BY <3>1
    <3>2. CASE \E r \in UpgradeRequests : s = <<r>>
      BY <3>2
    <3>3. QED
      BY <3>1, <3>2
  <2>2. QED
    BY <2>1, ToSetType
<1>2. CASE Sends({c}, ToSet(s)) /\ c \in commands /\ LayerInv(UpgradeRequests)'
  <2>1. adding = {} /\ commands = {c}
    BY <1>2 DEF LayerInv, Waiting
  <2>2. adding' = {} /\ todo' = <<>> /\ Waiting' = commands'
    BY <1>2, <2>1 DEF Sends, Waiting
  <2>3. /\ \A x \in commands' : x.of \in ToSet(s)
        /\ \A x, y \in commands' : x.of = y.of => x = y
        /\ \A r \in ToSet(s) : \E x \in commands' : x.of = r
    BY <1>2, <2>1 DEF Sends
  <2>4. \A d \in air' : d.way = "request"
    BY <1>2 DEF Sends, LayerInv
  <2>5. s = <<>> => NothingOut'
    BY <2>2, <2>3, ToSetOne DEF NothingOut
  <2>6. ASSUME NEW r, s = <<r>> PROVE Sole(r)'
    <3>1. PICK x \in commands' : commands' = {x} /\ x.of = r
      BY <2>3, <2>6, ToSetOne
    <3>2. x \in Commands(UpgradeRequests)
      BY <1>2, <3>1 DEF LayerInv, Commands
    <3>3. \E n \in Seqs : x = [of |-> r, seq |-> n]
      BY <3>1, <3>2 DEF Commands
    <3>4. QED
      BY <2>2, <3>1, <3>3 DEF Sole, Seqs
  <2>7. unsent' = {}
    BY <1>2 DEF Sends, Counts
  <2>8. QED
    BY <1>2, <2>4, <2>5, <2>6, <2>7
<1>3. CASE ExpiresOther(c, s) /\ LayerInv(UpgradeRequests)'
  <2>1. Waiting' = {} /\ todo' = s
    BY <1>3 DEF ExpiresOther, OtherIsFree, Waiting
  <2>2. air' = {}
    BY <1>3 DEF ExpiresOther, LayerInv
  <2>3. QED
    BY <1>3, <2>1, <2>2 DEF NothingOut, Sole, ExpiresOther, sending
<1>4. CASE \E t : Expire(t, c, s)
  BY <1>1, <1>2, <1>3, <1>4, ExpireEffect
<1>5. CASE \E d : d.cmd = c /\ TakeAnswer(d, ToSet(s))
  BY <1>1, <1>2, <1>5, TakeAnswerEffect
<1>6. QED
  BY <1>4, <1>5
-----------------------------------------------------------------------------
(* The events that a callback may bring, and with which offset.            *)
Justified(e, o) ==
    /\ o \in 0 .. Blocks
    /\ \/ e = "Err"
       \/ e = "Request" /\ fsm_state = "Request"
       \/ /\ e = "Xfer" /\ fsm_state \in {"Request", "Xfer"}
          /\ o < Blocks /\ 0 .. o - 1 \subseteq memory
       \/ e = "CompleteXfer" /\ fsm_state \in {"Xfer", "CompleteXfer"} /\ memory = Firmware
       \/ e = "GetProgress" /\ fsm_state \in {"CompleteXfer", "GetProgress"}
       \/ e = "Complete" /\ fsm_state \in {"GetProgress", "Complete"} /\ flashed
       \/ e = "Reinit" /\ fsm_state = "Complete"

(* Where such an event leads, and what it sends.                           *)
Leads(e, n, o) ==
    /\ fsm_state' = n
    /\ read_offset' = IF e = "Request" THEN 0 ELSE o
    /\ EventSends(e, o) = Sent(e, o)

LEMMA JustifiedEffect ==
    ASSUME NEW e, NEW o, Justified(e, o), FsmEventHandler(e, o)
    PROVE  \/ e = "Reinit" /\ Leads(e, "Idle", o)
           \/ e # "Reinit" /\ Leads(e, e, o)
<1>1. /\ \A s \in {"Request"} : <<s, "Request", "Request">> \in EventTable
      /\ \A s \in {"Request", "Xfer"} : <<s, "Xfer", "Xfer">> \in EventTable
      /\ \A s \in {"Xfer", "CompleteXfer"} : <<s, "CompleteXfer", "CompleteXfer">> \in EventTable
      /\ \A s \in {"CompleteXfer", "GetProgress"} : <<s, "GetProgress", "GetProgress">> \in EventTable
      /\ \A s \in {"GetProgress", "Complete"} : <<s, "Complete", "Complete">> \in EventTable
      /\ <<"Complete", "Reinit", "Idle">> \in EventTable
  BY DEF EventTable
<1>2. CASE e = "Err"
  BY <1>2, ErrEffect DEF Leads, Sent
<1>3. CASE e = "Reinit"
  BY <1>1, <1>3, EventEffect DEF Justified, Leads
<1>4. CASE e \notin {"Err", "Reinit"}
  <2>1. <<fsm_state, e, e>> \in EventTable
    BY <1>1, <1>4 DEF Justified
  <2>2. QED
    BY <1>4, <2>1, EventEffect DEF Leads
<1>5. QED
  BY <1>2, <1>3, <1>4

(* The only command there can be is the one that drives the machine.       *)
LEMMA CommandDrives ==
    ASSUME UpgradeInv, NEW c \in Waiting
    PROVE  /\ Waiting = {c} /\ todo = <<>>
           /\ c.of \in UpgradeRequests /\ Drives(c.of)
           /\ object = "started" /\ fsm_state \notin {"Idle", "Err"}
<1>1. /\ object = "started" /\ fsm_state \notin {"Idle", "Err"}
      /\ \E r \in UpgradeRequests : Sole(r) /\ Drives(r)
  BY DEF UpgradeInv, UpgradeValuesInv, DriverInv, NothingOut
<1>2. PICK r \in UpgradeRequests : Sole(r) /\ Drives(r)
  BY <1>1
<1>3. PICK n \in Seqs : Waiting = {[of |-> r, seq |-> n]} /\ todo = <<>>
  BY <1>2 DEF Sole
<1>4. c = [of |-> r, seq |-> n]
  BY <1>3
<1>5. QED
  BY <1>1, <1>2, <1>3, <1>4

LEMMA KindOf ==
    ASSUME NEW r \in UpgradeRequests
    PROVE  \/ r.kind \in Plain /\ r.block = 0
           \/ r.kind = "Xfer" /\ r.block \in Firmware
  BY DEF UpgradeRequests

(* A request that was sent for an event drives the machine in the state    *)
(* the event leads to.                                                     *)
LEMMA SentDrives ==
    ASSUME NEW e, NEW o \in 0 .. Blocks,
           e \in {"Request", "Xfer", "CompleteXfer", "GetProgress", "Complete"},
           e = "Xfer" => o < Blocks,
           Leads(e, e, o)
    PROVE  \E r \in UpgradeRequests : EventSends(e, o) = <<r>> /\ Drives(r)'
<1>1. \A k \in Plain : UpgradeRequest(k) \in UpgradeRequests /\ UpgradeRequest(k).kind = k
  BY DEF UpgradeRequest, UpgradeRequests
<1>2. /\ "Start" \in Plain /\ "CompleteXfer" \in Plain /\ "Progress" \in Plain
      /\ "Reboot" \in Plain /\ "Xfer" \notin Plain
  BY DEF Plain
<1>3. CASE e = "Request"
  BY <1>1, <1>2, <1>3 DEF Leads, Sent, Drives, StateOf
<1>4. CASE e = "Xfer"
  <2> DEFINE r == [kind |-> "Xfer", block |-> o]
  <2>1. r \in UpgradeRequests /\ r.kind = "Xfer" /\ r.block = o
    BY <1>4, UpgradeAssumption DEF UpgradeRequests, Firmware
  <2>2. EventSends(e, o) = <<r>>
    BY <1>4 DEF Leads, Sent
  <2> HIDE DEF r
  <2>3. Drives(r)'
    BY <1>4, <2>1 DEF Leads, Drives, StateOf
  <2>4. QED
    BY <2>1, <2>2, <2>3
<1>5. CASE e = "CompleteXfer"
  BY <1>1, <1>2, <1>5 DEF Leads, Sent, Drives, StateOf
<1>6. CASE e = "GetProgress"
  BY <1>1, <1>2, <1>6 DEF Leads, Sent, Drives, StateOf
<1>7. CASE e = "Complete"
  BY <1>1, <1>2, <1>7 DEF Leads, Sent, Drives, StateOf
<1>8. QED
  BY <1>3, <1>4, <1>5, <1>6, <1>7
-----------------------------------------------------------------------------
(* A callback of the one command, with any event that is justified.        *)
CallbackOf(c, e, o) ==
    /\ \/ \E t : Expire(t, c, EventSends(e, o))
       \/ \E d : d.cmd = c /\ TakeAnswer(d, ToSet(EventSends(e, o)))
    /\ FsmEventHandler(e, o)
    /\ UNCHANGED <<object, lidar>>

LEMMA CallbackKeeps ==
    ASSUME UpgradeInv, failures' = failures, NEW c \in Waiting,
           NEW e, NEW o, Justified(e, o), CallbackOf(c, e, o),
           try_count' \in 0 .. ProgressLimit - 1,
           e \in {"Err", "Reinit"} => try_count' = 0
    PROVE  UpgradeInv'
<1>1. /\ Waiting = {c} /\ todo = <<>> /\ object = "started"
      /\ c.of \in UpgradeRequests /\ Drives(c.of) /\ fsm_state \notin {"Idle", "Err"}
  BY CommandDrives
<1>2. /\ o \in 0 .. Blocks
      /\ e \in {"Err", "Request", "Xfer", "CompleteXfer", "GetProgress", "Complete", "Reinit"}
      /\ e = "Xfer" => o < Blocks
  BY DEF Justified
<1>3. \/ e = "Reinit" /\ Leads(e, "Idle", o)
      \/ e # "Reinit" /\ Leads(e, e, o)
  BY JustifiedEffect DEF CallbackOf
<1>4. CASE e \in {"Err", "Reinit"}
  <2>1. EventSends(e, o) = <<>> /\ read_offset' = o
    BY <1>3, <1>4 DEF Leads, Sent
  <2>2. /\ LayerInv(UpgradeRequests)' /\ NothingOut' /\ unsent' = {}
        /\ \A d \in air' : d.way = "request"
    BY <1>1, <2>1, Replaced DEF CallbackOf, UpgradeInv
  <2>3. /\ fsm_state' \in {"Idle", "Err"}
        /\ fsm_state' = "Idle" => fsm_state = "Complete"
    BY <1>3, <1>4 DEF Leads, Justified
  <2>4. UpgradeValuesInv'
    BY <1>2, <1>4, <2>1, <2>3, StatesAre DEF UpgradeInv, UpgradeValuesInv, CallbackOf, lidar
  <2>5. DriverInv'
    BY <1>1, <2>2, <2>3 DEF DriverInv, CallbackOf
  <2>6. LidarInv'
    BY <2>2, <2>3 DEF UpgradeInv, LidarInv, NoneMissing, CallbackOf, lidar
  <2>7. QED
    BY <2>2, <2>4, <2>5, <2>6 DEF UpgradeInv
<1>5. CASE e \notin {"Err", "Reinit"}
  <2>1. PICK r \in UpgradeRequests : EventSends(e, o) = <<r>> /\ Drives(r)'
    BY <1>2, <1>3, <1>5, SentDrives
  <2>2. /\ LayerInv(UpgradeRequests)' /\ Sole(r)' /\ unsent' = {}
        /\ \A d \in air' : d.way = "request"
    BY <1>1, <2>1, Replaced DEF CallbackOf, UpgradeInv
  <2>3. fsm_state' = e /\ read_offset' = IF e = "Request" THEN 0 ELSE o
    BY <1>3, <1>5 DEF Leads
  <2>4. UpgradeValuesInv'
    BY <1>2, <1>5, <2>3, StatesAre, UpgradeAssumption DEF UpgradeInv, UpgradeValuesInv, CallbackOf, lidar
  <2>5. DriverInv'
    BY <1>1, <1>2, <1>5, <2>1, <2>2, <2>3 DEF DriverInv, CallbackOf
  <2>6. LidarInv'
    <3>1. /\ fsm_state' = "Xfer" => 0 .. read_offset' - 1 \subseteq memory'
          /\ fsm_state' = "Complete" => flashed'
          /\ fsm_state' # "Idle"
      BY <1>5, <2>3 DEF Justified, CallbackOf, lidar
    <3>2. NoneMissing'
      BY <1>5, <2>3 DEF UpgradeInv, LidarInv, NoneMissing, Justified, CallbackOf, lidar
    <3>3. QED
      BY <2>2, <2>3, <3>1, <3>2 DEF LidarInv
  <2>7. QED
    BY <2>2, <2>4, <2>5, <2>6 DEF UpgradeInv
<1>6. QED
  BY <1>4, <1>5

LEMMA AnswerKeeps ==
    ASSUME UpgradeInv, failures' = failures, NEW d \in air,
           \/ StartUpgradeResponse(d)
           \/ XferFirmwareResponse(d)
           \/ CompleteXferFirmwareResponse(d)
           \/ GetProgressResponse(d)
           \/ UpgradeCompleteResponse(d)
    PROVE  UpgradeInv'
<1> DEFINE c == d.cmd
<1>1. PICK k, e, o : Responded(d, k, e, o)
  BY DEF StartUpgradeResponse, XferFirmwareResponse, CompleteXferFirmwareResponse,
         GetProgressResponse, UpgradeCompleteResponse
<1>2. d.way = "answer" /\ d.cmd \in Waiting
  BY <1>1 DEF Responded, TakeAnswer, Waiting
<1>3. c.of \in UpgradeRequests /\ Drives(c.of)
  BY <1>2, CommandDrives
<1>4. /\ read_offset \in 0 .. Blocks
      /\ d.ret = "ok" => /\ c.of.kind = "Xfer" => c.of.block \in memory
                         /\ c.of.kind = "Progress" => flashed
  BY <1>2 DEF UpgradeInv, UpgradeValuesInv, LidarInv
<1>5. ASSUME NEW kind, NEW event, NEW offset, Responded(d, kind, event, offset), Justified(event, offset)
      PROVE  UpgradeInv'
  <2>1. CallbackOf(c, event, offset) /\ try_count' = 0
    BY <1>5 DEF Responded, CallbackOf
  <2>2. try_count' \in 0 .. ProgressLimit - 1
    BY <2>1, UpgradeAssumption
  <2>3. QED
    BY <1>2, <1>5, <2>1, <2>2, CallbackKeeps
<1>6. ASSUME NEW kind, Responded(d, kind, "Err", read_offset)
      PROVE  UpgradeInv'
  BY <1>4, <1>5, <1>6 DEF Justified
<1>7. CASE StartUpgradeResponse(d)
  <2>1. CASE Responded(d, "Start", "Xfer", read_offset)
    <3>1. fsm_state = "Request" /\ read_offset = 0
      BY <1>3, <2>1 DEF Responded, Drives, StateOf, UpgradeInv, LidarInv
    <3>2. Justified("Xfer", read_offset)
      BY <1>4, <3>1, UpgradeAssumption DEF Justified
    <3>3. QED
      BY <1>5, <2>1, <3>2
  <2>2. CASE Responded(d, "Start", "Request", read_offset)
    <3>1. fsm_state = "Request"
      BY <1>3, <2>2 DEF Responded, Drives, StateOf
    <3>2. QED
      BY <1>4, <1>5, <2>2, <3>1 DEF Justified
  <2>3. QED
    BY <1>6, <1>7, <2>1, <2>2 DEF StartUpgradeResponse
<1>8. CASE XferFirmwareResponse(d)
  <2> DEFINE event == IF read_offset + 1 < Blocks THEN "Xfer" ELSE "CompleteXfer"
  <2>1. CASE d.ret = "ok" /\ Responded(d, "Xfer", event, read_offset + 1)
    <3>1. /\ fsm_state = "Xfer" /\ c.of.kind = "Xfer"
          /\ c.of.block = read_offset /\ c.of.block \in Firmware
      BY <1>3, <2>1, KindOf DEF Responded, Drives, StateOf, Plain
    <3>2. 0 .. read_offset \subseteq memory /\ memory \subseteq Firmware
      BY <1>4, <2>1, <3>1 DEF UpgradeInv, LidarInv, UpgradeValuesInv
    <3>3. Justified(event, read_offset + 1)
      <4>1. read_offset \in Nat /\ read_offset < Blocks /\ Blocks \in Nat
        BY <1>4, <3>1, UpgradeAssumption DEF Firmware
      <4>2. CASE read_offset + 1 < Blocks
        BY <3>1, <3>2, <4>1, <4>2 DEF Justified
      <4>3. CASE ~(read_offset + 1 < Blocks)
        <5>1. 0 .. read_offset = Firmware
          BY <4>1, <4>3 DEF Firmware
        <5>2. memory = Firmware
          BY <3>2, <5>1
        <5>3. QED
          BY <3>1, <4>1, <4>3, <5>2 DEF Justified
      <4>4. QED
        BY <4>2, <4>3
    <3>4. QED
      BY <1>5, <2>1, <3>3
  <2>2. QED
    BY <1>6, <1>8, <2>1 DEF XferFirmwareResponse
<1>9. CASE CompleteXferFirmwareResponse(d)
  <2>1. CASE Responded(d, "CompleteXfer", "GetProgress", read_offset)
    <3>1. fsm_state = "CompleteXfer"
      BY <1>3, <2>1 DEF Responded, Drives, StateOf
    <3>2. QED
      BY <1>4, <1>5, <2>1, <3>1 DEF Justified
  <2>2. QED
    BY <1>6, <1>9, <2>1 DEF CompleteXferFirmwareResponse
<1>10. CASE GetProgressResponse(d)
  <2>1. fsm_state = "GetProgress" /\ c.of.kind = "Progress"
    BY <1>3, <1>10 DEF GetProgressResponse, Responded, Drives, StateOf
  <2>2. d.ret = "ok" => Justified("Complete", read_offset)
    BY <1>4, <2>1 DEF Justified
  <2>3. Justified("GetProgress", read_offset)
    BY <1>4, <2>1 DEF Justified
  <2>4. QED
    BY <1>5, <1>6, <1>10, <2>2, <2>3 DEF GetProgressResponse
<1>11. CASE UpgradeCompleteResponse(d)
  <2>1. CASE Responded(d, "Reboot", "Reinit", read_offset)
    <3>1. fsm_state = "Complete"
      BY <1>3, <2>1 DEF Responded, Drives, StateOf
    <3>2. QED
      BY <1>4, <1>5, <2>1, <3>1 DEF Justified
  <2>2. QED
    BY <1>6, <1>11, <2>1 DEF UpgradeCompleteResponse
<1>12. QED
  BY <1>7, <1>8, <1>9, <1>10, <1>11

(* The command that expires repeats its event, or ends the upgrade.        *)
LEMMA ExpiryKeeps ==
    ASSUME UpgradeInv, failures' = failures, NEW t, NEW c \in commands, RequestExpires(t, c)
    PROVE  UpgradeInv'
<1>1. c \in Waiting /\ c.of \in UpgradeRequests /\ Drives(c.of)
  BY CommandDrives DEF Waiting
<1>2. /\ read_offset \in 0 .. Blocks /\ try_count \in 0 .. ProgressLimit - 1
      /\ Limit(c.of.kind) \in Nat /\ Limit(c.of.kind) <= ProgressLimit
  BY UpgradeAssumption DEF UpgradeInv, UpgradeValuesInv, Limit
<1>3. CallbackOf(c, EventAfter(c), read_offset)
  BY DEF RequestExpires, Counted, CallbackOf
<1>4. try_count' \in 0 .. ProgressLimit - 1
  BY <1>2, UpgradeAssumption DEF RequestExpires, Counted, LastTry
<1>5. /\ LastTry(c) => try_count' = 0
      /\ ~LastTry(c) => EventAfter(c) \notin {"Err", "Reinit"}
  <2>1. Repeated(c.of.kind) \notin {"Err", "Reinit"}
    BY <1>1, KindOf DEF Repeated, Plain
  <2>2. QED
    BY <2>1 DEF RequestExpires, Counted, EventAfter
<1>6. Justified(EventAfter(c), read_offset)
  <2>1. CASE LastTry(c) /\ c.of.kind # "Reboot"
    BY <1>2, <2>1 DEF Justified, EventAfter, Final
  <2>2. CASE c.of.kind = "Start"
    BY <1>1, <1>2, <2>1, <2>2 DEF Justified, EventAfter, Repeated, Drives, StateOf
  <2>3. CASE c.of.kind = "Xfer"
    <3>1. fsm_state = "Xfer" /\ read_offset < Blocks
      BY <1>1, <2>3, KindOf, UpgradeAssumption DEF Drives, StateOf, Plain, Firmware
    <3>2. 0 .. read_offset - 1 \subseteq memory
      BY <3>1 DEF UpgradeInv, LidarInv
    <3>3. QED
      BY <1>2, <2>1, <2>3, <3>1, <3>2 DEF Justified, EventAfter, Repeated
  <2>4. CASE c.of.kind = "CompleteXfer"
    BY <1>1, <1>2, <2>1, <2>4
    DEF Justified, EventAfter, Repeated, Drives, StateOf, UpgradeInv, LidarInv, NoneMissing
  <2>5. CASE c.of.kind = "Progress"
    BY <1>1, <1>2, <2>1, <2>5 DEF Justified, EventAfter, Repeated, Drives, StateOf
  <2>6. CASE c.of.kind = "Reboot"
    BY <1>1, <1>2, <2>6
    DEF Justified, EventAfter, Repeated, Final, Drives, StateOf, UpgradeInv, LidarInv
  <2>7. QED
    BY <1>1, <2>2, <2>3, <2>4, <2>5, <2>6, KindOf DEF Plain
<1>7. QED
  BY <1>1, <1>3, <1>4, <1>5, <1>6, CallbackKeeps

(* The lidar answers the request that drives the machine.                  *)
LEMMA LidarKeeps ==
    ASSUME UpgradeInv, NEW d \in air,
           LidarStarts(d) \/ LidarStores(d) \/ LidarProgresses(d) \/ LidarAnswersRest(d)
    PROVE  UpgradeInv'
<1>1. PICK ret : LidarAnswers(d, ret)
  BY DEF LidarStarts, LidarStores, LidarProgresses, LidarAnswersRest
<1>2. /\ LayerInv(UpgradeRequests)' /\ d.cmd \in Waiting /\ unsent' = {}
      /\ UNCHANGED <<commands, adding, todo>>
  BY <1>1, LidarAnswersEffect DEF UpgradeInv, sending
<1>3. /\ d.cmd.of \in UpgradeRequests /\ Drives(d.cmd.of) /\ object = "started"
      /\ \A x \in air : x.cmd = d.cmd
  BY <1>2, CommandDrives DEF UpgradeInv, LayerInv
<1>4. UNCHANGED <<machine, object>>
  BY DEF LidarStarts, LidarStores, LidarProgresses, LidarAnswersRest
<1>5. /\ NothingOut' <=> NothingOut
      /\ \A r : (Sole(r)' <=> Sole(r)) /\ (Drives(r)' <=> Drives(r))
  BY <1>2, <1>4 DEF NothingOut, Sole, Drives, Waiting, machine, Seqs
<1>6. DriverInv'
  BY <1>4, <1>5 DEF UpgradeInv, DriverInv, machine
<1>7. /\ \A x \in air' : x.cmd = d.cmd /\ (x \in air \/ x = Answer(d.cmd, ret))
      /\ Answer(d.cmd, ret).ret = ret
  BY <1>2, <1>3, <1>1, LidarAnswersEffect DEF UpgradeInv, Answer
<1>8. CASE LidarStarts(d)
  <2>1. d.cmd.of.kind = "Start" /\ fsm_state = "Request" /\ fsm_state' = "Request"
    BY <1>3, <1>4, <1>8 DEF LidarStarts, Drives, StateOf, machine
  <2>2. UpgradeValuesInv'
    BY <1>4, <1>8 DEF LidarStarts, UpgradeInv, UpgradeValuesInv, machine, lidar
  <2>3. LidarInv'
    BY <1>4, <1>7, <2>1 DEF UpgradeInv, LidarInv, NoneMissing, machine
  <2>4. QED
    BY <1>2, <1>6, <2>2, <2>3 DEF UpgradeInv
<1>9. CASE LidarStores(d)
  <2>1. /\ d.cmd.of.kind = "Xfer" /\ fsm_state = "Xfer" /\ fsm_state' = "Xfer"
        /\ d.cmd.of.block \in Firmware
    BY <1>3, <1>4, <1>9, KindOf DEF LidarStores, Drives, StateOf, machine, Plain
  <2>2. /\ UpgradeValuesInv' /\ memory \subseteq memory'
    BY <1>4, <1>9, <2>1 DEF LidarStores, UpgradeInv, UpgradeValuesInv, machine
  <2>3. \A x \in air' : x.way = "answer" /\ x.ret = "ok" => d.cmd.of.block \in memory'
    <3>1. CASE LidarAnswers(d, "ok") /\ memory' = memory \cup {d.cmd.of.block}
      BY <3>1
    <3>2. CASE LidarAnswers(d, "error") /\ UNCHANGED memory
      <4>1. \A x \in air' : x \in air \/ x.ret = "error"
        BY <3>2, LidarAnswersEffect DEF UpgradeInv, Answer
      <4>2. QED
        BY <1>3, <2>1, <3>2, <4>1 DEF UpgradeInv, LidarInv
    <3>3. QED
      BY <1>9, <3>1, <3>2 DEF LidarStores
  <2>4. LidarInv'
    BY <1>4, <1>7, <2>1, <2>2, <2>3 DEF UpgradeInv, LidarInv, NoneMissing, machine
  <2>5. QED
    BY <1>2, <1>6, <2>2, <2>4 DEF UpgradeInv
<1>10. CASE LidarProgresses(d)
  <2>1. d.cmd.of.kind = "Progress" /\ fsm_state = "GetProgress" /\ fsm_state' = "GetProgress"
    BY <1>3, <1>4, <1>10 DEF LidarProgresses, Drives, StateOf, machine
  <2>2. UpgradeValuesInv'
    BY <1>4, <1>10 DEF LidarProgresses, UpgradeInv, UpgradeValuesInv, machine
  <2>3. \A x \in air' : x.way = "answer" /\ x.ret = "ok" => flashed'
    <3>1. CASE LidarAnswers(d, "ok") /\ flashed' = TRUE
      BY <3>1
    <3>2. CASE \E r \in {"again", "error"} : LidarAnswers(d, r) /\ UNCHANGED flashed
      <4>1. \A x \in air' : x \in air \/ x.ret \in {"again", "error"}
        BY <3>2, LidarAnswersEffect DEF UpgradeInv, Answer
      <4>2. QED
        BY <1>3, <2>1, <3>2, <4>1 DEF UpgradeInv, LidarInv
    <3>3. QED
      BY <1>10, <3>1, <3>2 DEF LidarProgresses
  <2>4. LidarInv'
    BY <1>4, <1>7, <1>10, <2>1, <2>3
    DEF LidarProgresses, UpgradeInv, LidarInv, NoneMissing, machine
  <2>5. QED
    BY <1>2, <1>6, <2>2, <2>4 DEF UpgradeInv
<1>11. CASE LidarAnswersRest(d)
  <2>1. UpgradeValuesInv'
    BY <1>4, <1>11 DEF LidarAnswersRest, UpgradeInv, UpgradeValuesInv, machine, lidar
  <2>2. LidarInv'
    BY <1>4, <1>7, <1>11
    DEF LidarAnswersRest, UpgradeInv, LidarInv, NoneMissing, machine, lidar
  <2>3. QED
    BY <1>2, <1>6, <2>1, <2>2 DEF UpgradeInv
<1>12. QED
  BY <1>8, <1>9, <1>10, <1>11

LEMMA StartKeeps ==
    ASSUME UpgradeInv, StartUpgradeLivoxLidar
    PROVE  UpgradeInv'
<1>1. /\ fsm_state = "Idle" /\ NothingOut /\ object' = "started"
  BY DEF StartUpgradeLivoxLidar, UpgradeInv, DriverInv
<1>2. <<"Idle", "Request", "Request">> \in EventTable
  BY DEF EventTable
<1>3. Leads("Request", "Request", read_offset)
  BY <1>1, <1>2, EventEffect DEF StartUpgradeLivoxLidar, Leads
<1>4. read_offset \in 0 .. Blocks
  BY DEF UpgradeInv, UpgradeValuesInv
<1>5. PICK r \in UpgradeRequests : EventSends("Request", read_offset) = <<r>> /\ Drives(r)'
  BY <1>3, <1>4, SentDrives
<1>6. /\ fsm_state' = "Request" /\ read_offset' = 0 /\ todo' = <<r>>
      /\ UNCHANGED <<commands, adding, air, sending, try_count, lidar>>
  BY <1>3, <1>5 DEF Leads, StartUpgradeLivoxLidar
<1>7. air' = {}
  BY <1>1, <1>6 DEF UpgradeInv, LayerInv, NothingOut
<1>8. LayerInv(UpgradeRequests)'
  <2> HIDE DEF UpgradeRequests
  <2>1. UpgradeRequests' = UpgradeRequests
    BY DEF UpgradeRequests
  <2>2. todo' \in Seq(UpgradeRequests)
    BY <1>6
  <2>3. QED
    BY <1>6, <1>7, <2>1, <2>2 DEF UpgradeInv, LayerInv, Commands, Seqs, sending
<1>9. DriverInv'
  BY <1>1, <1>5, <1>6 DEF DriverInv, Sole, NothingOut, Waiting
<1>10. UpgradeValuesInv'
  BY <1>1, <1>6, StatesAre, UpgradeAssumption DEF UpgradeInv, UpgradeValuesInv, lidar
<1>11. LidarInv'
  BY <1>6, <1>7 DEF LidarInv, NoneMissing
<1>12. QED
  BY <1>6, <1>8, <1>9, <1>10, <1>11 DEF UpgradeInv, sending

LEMMA EndKeeps ==
    ASSUME UpgradeInv, Destroy \/ \E t : Observe(t)
    PROVE  UpgradeInv'
<1>1. UNCHANGED <<layer, machine, lidar>>
  BY DEF Destroy, Observe
<1>2. \/ object = "started" /\ object' = "destroyed" /\ fsm_state \in {"Idle", "Err"}
      \/ object' = object
  BY DEF Destroy, Observe
<1>3. LayerInv(UpgradeRequests)' /\ unsent' = {}
  BY <1>1 DEF UpgradeInv, LayerInv, layer, sending, Waiting, Commands, Seqs
<1>4. UpgradeValuesInv'
  BY <1>1, <1>2 DEF UpgradeInv, UpgradeValuesInv, machine, lidar
<1>5. (NothingOut' <=> NothingOut) /\ \A r : (Sole(r)' <=> Sole(r)) /\ (Drives(r)' <=> Drives(r))
  BY <1>1 DEF NothingOut, Sole, Drives, Waiting, layer, machine, Seqs
<1>6. DriverInv'
  BY <1>1, <1>2, <1>5 DEF UpgradeInv, DriverInv, machine
<1>7. LidarInv'
  BY <1>1, <1>2 DEF UpgradeInv, LidarInv, NoneMissing, layer, sending, machine, lidar
<1>8. QED
  BY <1>3, <1>4, <1>6, <1>7 DEF UpgradeInv

(* A step of the command layer moves the one request on.                   *)
LEMMA UpgradeLayerStepKeeps ==
    ASSUME UpgradeInv, failures' = failures, UpgradeLayerStep
    PROVE  UpgradeInv'
<1>1. UNCHANGED <<machine, object, lidar>>
  BY DEF UpgradeLayerStep
<1>2. ASSUME LayerInv(UpgradeRequests)', DriverInv', UNCHANGED sending,
             \A d \in air' : d \in air \/ d.way = "request"
      PROVE  UpgradeInv'
  <2>1. UpgradeValuesInv'
    BY <1>1 DEF UpgradeInv, UpgradeValuesInv, machine, lidar
  <2>2. LidarInv'
    BY <1>1, <1>2 DEF UpgradeInv, LidarInv, NoneMissing, machine, lidar, sending
  <2>3. QED
    BY <1>2, <2>1, <2>2 DEF UpgradeInv, sending
<1>3. \A r : Drives(r)' <=> Drives(r)
  BY <1>1 DEF Drives, machine
<1>4. ASSUME NothingOut => NothingOut', \A r \in UpgradeRequests : Sole(r) => Sole(r)'
      PROVE  DriverInv'
  <2> HIDE DEF UpgradeRequests
  <2>1. QED
    BY <1>1, <1>3, <1>4 DEF UpgradeInv, DriverInv, machine
<1>5. CASE SendNext
  <2>1. /\ LayerInv(UpgradeRequests)'
        /\ adding = {} /\ todo # <<>>
        /\ commands' = commands /\ todo' = Tail(todo)
        /\ \E c \in Commands(UpgradeRequests) : c.of = Head(todo) /\ adding' = {c}
        /\ \A d \in air' : d \in air \/ d.way = "request"
        /\ UNCHANGED sending
    BY <1>5, SendNextEffect DEF UpgradeInv
  <2>2. ~NothingOut
    BY <2>1 DEF NothingOut
  <2>3. ASSUME NEW r \in UpgradeRequests, Sole(r) PROVE Sole(r)'
    <3>1. Waiting = {} /\ todo = <<r>>
      BY <2>1, <2>3 DEF Sole
    <3>2. PICK c \in Commands(UpgradeRequests) : c.of = r /\ adding' = {c}
      BY <2>1, <3>1
    <3>3. \E n \in Seqs : c = [of |-> r, seq |-> n]
      BY <3>2 DEF Commands
    <3>4. todo' = <<>> /\ Waiting' = {c}
      BY <2>1, <3>1, <3>2 DEF Waiting
    <3>5. QED
      BY <3>3, <3>4 DEF Sole, Seqs
  <2>4. QED
    BY <1>2, <1>4, <2>1, <2>2, <2>3
<1>6. CASE AddCommand \/ \E d \in air : IgnoreAnswer(d)
  <2>1. /\ LayerInv(UpgradeRequests)' /\ Waiting' = Waiting /\ todo' = todo /\ air' \subseteq air
        /\ UNCHANGED sending
    BY <1>6, AddCommandEffect, IgnoreAnswerEffect DEF UpgradeInv, Waiting
  <2>2. (NothingOut => NothingOut') /\ \A r : Sole(r) => Sole(r)'
    BY <2>1 DEF NothingOut, Sole, Seqs
  <2>3. QED
    BY <1>2, <1>4, <2>1, <2>2
<1>7. ~SendNextFails
  <2>1. failures \in Nat
    BY MaxFailuresAssumption DEF UpgradeInv, LayerInv
  <2>2. QED
    BY <2>1 DEF SendNextFails
<1>8. QED
  BY <1>5, <1>6, <1>7 DEF UpgradeLayerStep
-----------------------------------------------------------------------------
(* What holds even when a sendto has failed.                               *)
LEMMA EventTypes ==
    ASSUME fsm_state \in States, NEW e, NEW o \in Nat, FsmEventHandler(e, o)
    PROVE  /\ fsm_state' \in States /\ read_offset' \in Nat
           /\ EventSends(e, o) \in Seq(UpgradeRequests)
<1>1. fsm_state' \in States
  <2>1. \A row \in EventTable :
            row[3] \in {"Idle", "Request", "Xfer", "CompleteXfer", "GetProgress", "Complete"}
    BY DEF EventTable
  <2>2. CASE e = "Err"
    BY <2>2, ErrEffect, StatesAre
  <2>3. CASE e # "Err" /\ Rows(e) # {}
    <3>1. PICK row \in EventTable : fsm_state' = row[3]
      BY <2>3 DEF FsmEventHandler, Rows
    <3>2. QED
      BY <2>1, <3>1, StatesAre
  <2>4. CASE e # "Err" /\ Rows(e) = {}
    BY <2>4 DEF FsmEventHandler
  <2>5. QED
    BY <2>2, <2>3, <2>4
<1>2. read_offset' \in Nat
  BY DEF FsmEventHandler
<1>3. Sent(e, o) = <<>> \/ \E r \in UpgradeRequests : Sent(e, o) = <<r>>
  <2>1. \A k \in Plain : UpgradeRequest(k) \in UpgradeRequests
    BY DEF UpgradeRequest, UpgradeRequests
  <2>2. o < Blocks => [kind |-> "Xfer", block |-> o] \in UpgradeRequests
    BY UpgradeAssumption DEF UpgradeRequests, Firmware
  <2>3. QED
    BY <2>1, <2>2 DEF Sent, Plain
<1>4. EventSends(e, o) \in Seq(UpgradeRequests)
  <2> HIDE DEF UpgradeRequests
  <2>1. Sent(e, o) \in Seq(UpgradeRequests)
    <3>1. CASE Sent(e, o) = <<>>
      BY <3>1
    <3>2. ASSUME NEW r \in UpgradeRequests, Sent(e, o) = <<r>> PROVE <<r>> \in Seq(UpgradeRequests)
      OBVIOUS
    <3>3. QED
      BY <1>3, <3>1, <3>2
  <2>2. QED
    BY <2>1 DEF EventSends
<1>5. QED
  BY <1>1, <1>2, <1>4

LEMMA CallbackTypes ==
    ASSUME UpgradeTypesInv, NEW e, NEW o \in Nat, FsmEventHandler(e, o),
           LayerInv(UpgradeRequests)', try_count' \in Nat, UNCHANGED <<object, lidar>>,
           observing' \subseteq observing \cup Threads
    PROVE  UpgradeTypesInv'
<1>1. fsm_state' \in States /\ read_offset' \in Nat
  BY EventTypes DEF UpgradeTypesInv
<1>2. "start" \notin Threads
  BY DEF Threads
<1>3. QED
  BY <1>1, <1>2 DEF UpgradeTypesInv, lidar

LEMMA AnswerTypes ==
    ASSUME UpgradeTypesInv, NEW d, NEW k, NEW e, NEW o \in Nat, Responded(d, k, e, o)
    PROVE  UpgradeTypesInv' /\ Counts
<1>1. FsmEventHandler(e, o) /\ TakeAnswer(d, ToSet(EventSends(e, o)))
  BY DEF Responded
<1>2. EventSends(e, o) \in Seq(UpgradeRequests)
  BY <1>1, EventTypes DEF UpgradeTypesInv
<1>3. ToSet(EventSends(e, o)) \in SUBSET UpgradeRequests /\ IsFiniteSet(ToSet(EventSends(e, o)))
  <2> HIDE DEF UpgradeRequests
  <2>1. QED
    BY <1>2, ToSetType
<1>4. LayerInv(UpgradeRequests)' /\ Counts
  BY <1>1, <1>3, TakeAnswerEffect DEF UpgradeTypesInv, Sends
<1>5. "cmd" \in Threads
  BY DEF Threads
<1>6. QED
  BY <1>1, <1>4, <1>5, CallbackTypes DEF Responded

LEMMA ResponseTypes ==
    ASSUME UpgradeTypesInv, NEW d,
           \/ StartUpgradeResponse(d)
           \/ XferFirmwareResponse(d)
           \/ CompleteXferFirmwareResponse(d)
           \/ GetProgressResponse(d)
           \/ UpgradeCompleteResponse(d)
    PROVE  UpgradeTypesInv' /\ Counts
<1>1. read_offset \in Nat /\ read_offset + 1 \in Nat
  BY DEF UpgradeTypesInv
<1>2. ASSUME NEW k, NEW e, \/ Responded(d, k, e, read_offset)
                           \/ Responded(d, k, e, read_offset + 1)
      PROVE  UpgradeTypesInv' /\ Counts
  BY <1>1, <1>2, AnswerTypes
<1>3. QED
  BY <1>2
  DEF StartUpgradeResponse, XferFirmwareResponse, CompleteXferFirmwareResponse,
      GetProgressResponse, UpgradeCompleteResponse

(* Time is up, or sending has failed.                                      *)
LEMMA FailureTypes ==
    ASSUME UpgradeTypesInv,
           \/ \E t \in Threads, c \in commands : RequestExpires(t, c)
           \/ \E u \in unsent : RequestRefused(u)
    PROVE  UpgradeTypesInv' /\ Counts
<1>1. ASSUME NEW c, Counted(c),
             EventSends(EventAfter(c), read_offset) \in Seq(UpgradeRequests)
                => LayerInv(UpgradeRequests)' /\ Counts,
             observing' \subseteq observing \cup Threads
      PROVE  UpgradeTypesInv' /\ Counts
  <2>1. read_offset \in Nat /\ try_count' \in Nat /\ FsmEventHandler(EventAfter(c), read_offset)
        /\ UNCHANGED <<object, lidar>>
    BY <1>1 DEF Counted, UpgradeTypesInv
  <2>2. LayerInv(UpgradeRequests)' /\ Counts
    BY <1>1, <2>1, EventTypes DEF UpgradeTypesInv
  <2>3. QED
    BY <1>1, <2>1, <2>2, CallbackTypes
<1>2. ASSUME NEW t \in Threads, NEW c \in commands, RequestExpires(t, c)
      PROVE  UpgradeTypesInv' /\ Counts
  <2>1. ASSUME EventSends(EventAfter(c), read_offset) \in Seq(UpgradeRequests)
        PROVE  LayerInv(UpgradeRequests)' /\ Counts
    <3>1. /\ LayerInv(UpgradeRequests)'
          /\ \/ Counts
             \/ UNCHANGED sending
      BY <1>2, <2>1, ExpireEffect DEF RequestExpires, UpgradeTypesInv, Sends, ExpiresOther
    <3>2. failures \in Nat
      BY MaxFailuresAssumption DEF UpgradeTypesInv, LayerInv
    <3>3. QED
      BY <3>1, <3>2 DEF Counts, sending
  <2>2. QED
    BY <1>1, <1>2, <2>1 DEF RequestExpires
<1>3. ASSUME NEW u \in unsent, RequestRefused(u)
      PROVE  UpgradeTypesInv' /\ Counts
  <2>1. ASSUME EventSends(EventAfter(u.cmd), read_offset) \in Seq(UpgradeRequests)
        PROVE  LayerInv(UpgradeRequests)' /\ Counts
    BY <1>3, <2>1, RecallEffect DEF RequestRefused, UpgradeTypesInv
  <2>2. QED
    BY <1>1, <1>3, <2>1 DEF RequestRefused
<1>4. QED
  BY <1>2, <1>3

LEMMA LidarTypes ==
    ASSUME UpgradeTypesInv, NEW d \in air,
           LidarStarts(d) \/ LidarStores(d) \/ LidarProgresses(d) \/ LidarAnswersRest(d)
    PROVE  UpgradeTypesInv' /\ UNCHANGED sending
<1>1. /\ \E ret : LidarAnswers(d, ret)
      /\ UNCHANGED <<machine, object, observing>>
  BY DEF LidarStarts, LidarStores, LidarProgresses, LidarAnswersRest
<1>2. LayerInv(UpgradeRequests)' /\ UNCHANGED sending /\ d.cmd \in Waiting
  BY <1>1, LidarAnswersEffect DEF UpgradeTypesInv
<1>3. d.cmd.of \in UpgradeRequests
  BY <1>2 DEF UpgradeTypesInv, LayerInv, Waiting, Commands
<1>4. memory' \subseteq Firmware
  <2>1. CASE LidarStores(d)
    <3>1. d.cmd.of.block \in Firmware
      BY <1>3, <2>1, KindOf DEF LidarStores, Plain
    <3>2. QED
      BY <2>1, <3>1 DEF LidarStores, UpgradeTypesInv
  <2>2. CASE ~LidarStores(d)
    BY <2>2 DEF LidarStarts, LidarProgresses, LidarAnswersRest, UpgradeTypesInv, lidar
  <2>3. QED
    BY <2>1, <2>2
<1>5. flashed' \in BOOLEAN
  BY ZenonT(20) DEF LidarStarts, LidarStores, LidarProgresses, LidarAnswersRest, UpgradeTypesInv, lidar
<1>6. QED
  BY <1>1, <1>2, <1>4, <1>5 DEF UpgradeTypesInv, machine

LEMMA StartTypes ==
    ASSUME UpgradeTypesInv, StartUpgradeLivoxLidar
    PROVE  UpgradeTypesInv' /\ UNCHANGED sending
<1>1. /\ FsmEventHandler("Request", read_offset) /\ todo' = EventSends("Request", read_offset)
      /\ UNCHANGED <<commands, adding, air, sending, try_count, lidar>>
      /\ object' = "started" /\ observing' = observing \cup {"start"}
  BY DEF StartUpgradeLivoxLidar
<1>2. /\ fsm_state' \in States /\ read_offset' \in Nat
      /\ EventSends("Request", read_offset) \in Seq(UpgradeRequests)
  BY <1>1, EventTypes DEF UpgradeTypesInv
<1>3. LayerInv(UpgradeRequests)'
  BY <1>1, <1>2 DEF UpgradeTypesInv, LayerInv, Waiting, Commands, Seqs, sending
<1>4. QED
  BY <1>1, <1>2, <1>3 DEF UpgradeTypesInv, lidar

LEMMA LayerTypes ==
    ASSUME UpgradeTypesInv, UpgradeLayerStep
    PROVE  UpgradeTypesInv' /\ Counts
<1>1. UNCHANGED <<machine, object, observing, lidar>>
  BY DEF UpgradeLayerStep
<1>2. failures \in Nat
  BY MaxFailuresAssumption DEF UpgradeTypesInv, LayerInv
<1>3. CASE SendNext \/ AddCommand \/ \E d \in air : IgnoreAnswer(d)
  <2>1. LayerInv(UpgradeRequests)' /\ UNCHANGED sending
    BY <1>3, SendNextEffect, AddCommandEffect, IgnoreAnswerEffect DEF UpgradeTypesInv
  <2>2. QED
    BY <1>1, <1>2, <2>1 DEF UpgradeTypesInv, machine, lidar, Counts, sending
<1>4. CASE SendNextFails
  <2>1. LayerInv(UpgradeRequests)' /\ failures' = failures + 1
    BY <1>4, SendNextFailsEffect DEF UpgradeTypesInv
  <2>2. QED
    BY <1>1, <1>2, <2>1 DEF UpgradeTypesInv, machine, lidar, Counts
<1>5. QED
  BY <1>3, <1>4 DEF UpgradeLayerStep

LEMMA UpgradeTypesKept ==
    ASSUME UpgradeTypesInv, [UpgradeNext]_upgrade_vars
    PROVE  UpgradeTypesInv' /\ Counts
<1>1. ASSUME UNCHANGED sending PROVE Counts
  BY <1>1, MaxFailuresAssumption DEF UpgradeTypesInv, LayerInv, Counts, sending
<1>2. CASE Destroy \/ (\E t : Observe(t)) \/ UNCHANGED upgrade_vars
  <2>1. UNCHANGED <<layer, machine, lidar>>
    BY <1>2 DEF Destroy, Observe, upgrade_vars
  <2>2. LayerInv(UpgradeRequests)' /\ UNCHANGED sending
    BY <2>1 DEF UpgradeTypesInv, LayerInv, layer, sending, Waiting, Commands, Seqs
  <2>3. /\ object' \in {"new", "started", "destroyed"} /\ observing' \subseteq observing
        /\ object' = "destroyed" => "start" \notin observing'
    BY <1>2 DEF Destroy, Observe, upgrade_vars, UpgradeTypesInv
  <2>4. UpgradeTypesInv'
    BY <2>1, <2>2, <2>3 DEF UpgradeTypesInv, machine, lidar
  <2>5. QED
    BY <1>1, <2>2, <2>4
<1>3. CASE StartUpgradeLivoxLidar
  BY <1>1, <1>3, StartTypes
<1>4. ASSUME NEW d \in air,
             LidarStarts(d) \/ LidarStores(d) \/ LidarProgresses(d) \/ LidarAnswersRest(d)
      PROVE  UpgradeTypesInv' /\ Counts
  BY <1>1, <1>4, LidarTypes
<1>5. QED
  BY <1>2, <1>3, <1>4, ResponseTypes, FailureTypes, LayerTypes DEF UpgradeNext
-----------------------------------------------------------------------------
UpgradeSoundness == UpgradeTypesInv /\ (failures = 0 => UpgradeInv)

(* As long as no sendto fails, one request drives the upgrade from its     *)
(* start to a final state, and what the machine believes of the lidar is   *)
(* so, whichever datagrams are lost and whichever thread repeats a request *)
(* (livox_lidar_upgrader.cpp).                                             *)
THEOREM UpgradeIsSound == UpgradeSpec => []UpgradeSoundness
<1>1. UpgradeInit => UpgradeSoundness
  <2> SUFFICES ASSUME UpgradeInit PROVE UpgradeSoundness
    OBVIOUS
  <2>1. LayerInv(UpgradeRequests) /\ NothingOut /\ air = {} /\ unsent = {}
    BY LayerInvInit DEF UpgradeInit, InitLayer, NothingOut, Waiting
  <2>2. UpgradeValuesInv
    <3>1. 0 \in 0 .. Blocks /\ 0 \in 0 .. ProgressLimit - 1
      BY UpgradeAssumption
    <3>2. fsm_state \in States /\ flashed \in BOOLEAN
      BY StatesAre DEF UpgradeInit
    <3>3. object \in {"new", "started", "destroyed"} /\ memory \subseteq Firmware
      BY DEF UpgradeInit
    <3>4. try_count \in 0 .. ProgressLimit - 1 /\ ~(try_count > 0) /\ read_offset \in 0 .. Blocks
      BY <3>1 DEF UpgradeInit
    <3>5. QED
      BY <3>2, <3>3, <3>4 DEF UpgradeValuesInv
  <2>3. UpgradeInv
    BY <2>1, <2>2 DEF UpgradeInit, UpgradeInv, DriverInv, LidarInv, NoneMissing
  <2>4. UpgradeTypesInv
    <3>1. read_offset = 0 /\ try_count = 0 /\ observing = {} /\ object = "new"
      BY DEF UpgradeInit
    <3>2. QED
      BY <2>1, <2>2, <3>1 DEF UpgradeTypesInv, UpgradeValuesInv
  <2>5. QED
    BY <2>3, <2>4 DEF UpgradeSoundness
<1>2. UpgradeSoundness /\ [UpgradeNext]_upgrade_vars => UpgradeSoundness'
  <2> SUFFICES ASSUME UpgradeSoundness, [UpgradeNext]_upgrade_vars PROVE UpgradeSoundness'
    OBVIOUS
  <2>1. UpgradeTypesInv' /\ Counts
    BY UpgradeTypesKept DEF UpgradeSoundness
  <2>2. ASSUME failures' = 0 PROVE UpgradeInv'
    <3>1. failures = 0 /\ failures' = failures
      BY <2>1, <2>2, MaxFailuresAssumption DEF Counts, UpgradeSoundness, UpgradeTypesInv, LayerInv
    <3>2. UpgradeInv /\ unsent = {}
      BY <3>1 DEF UpgradeSoundness, UpgradeInv
    <3>3. CASE UpgradeNext
      BY <3>1, <3>2, <3>3, StartKeeps, AnswerKeeps, ExpiryKeeps, LidarKeeps, EndKeeps,
         UpgradeLayerStepKeeps
      DEF UpgradeNext
    <3>4. CASE UNCHANGED upgrade_vars
      <4>1. UNCHANGED <<layer, machine, object, lidar>>
        BY <3>4 DEF upgrade_vars
      <4>2. LayerInv(UpgradeRequests)' /\ DriverInv' /\ unsent' = {}
        BY <3>2, <4>1
        DEF UpgradeInv, LayerInv, DriverInv, layer, sending, machine, Waiting, Commands, Seqs,
            NothingOut, Sole, Drives
      <4>3. UpgradeValuesInv' /\ LidarInv'
        BY <3>2, <4>1
        DEF UpgradeInv, UpgradeValuesInv, LidarInv, NoneMissing, layer, sending, machine, lidar
      <4>4. QED
        BY <4>2, <4>3 DEF UpgradeInv
    <3>5. QED
      BY <3>3, <3>4
  <2>3. QED
    BY <2>1, <2>2 DEF UpgradeSoundness
<1>3. QED
  BY <1>1, <1>2, PTL DEF UpgradeSpec

(* Every variable of the upgrade and of its command layer keeps its type.  *)
THEOREM UpgradeTypeCorrect == UpgradeSpec => []UpgradeTypeOK
<1>1. UpgradeSoundness => UpgradeTypeOK
  <2> SUFFICES ASSUME UpgradeSoundness PROVE UpgradeTypeOK
    OBVIOUS
  <2>1. LayerTypeOK(UpgradeRequests)
    BY LayerInvType DEF UpgradeSoundness, UpgradeTypesInv
  <2>2. QED
    BY <2>1 DEF UpgradeSoundness, UpgradeTypesInv, UpgradeInv, UpgradeValuesInv, UpgradeTypeOK
<1>2. QED
  BY <1>1, UpgradeIsSound, PTL

(* Once the transfer is declared complete the lidar has every block, as    *)
(* long as no sendto fails (XferFirmwareResponseHandler).                  *)
THEOREM NoBlockIsMissing == UpgradeSpec => []NoBlockMissing
<1>1. UpgradeSoundness => NoBlockMissing
  BY DEF UpgradeSoundness, UpgradeInv, LidarInv, NoneMissing, NoBlockMissing
<1>2. QED
  BY <1>1, UpgradeIsSound, PTL

(* Success is told only of a lidar whose upgrade has come to 100, as long  *)
(* as no sendto fails (IsUpgradeComplete).                                 *)
THEOREM SuccessIsFlashed == UpgradeSpec => []SuccessMeansFlashed
<1>1. UpgradeSoundness => SuccessMeansFlashed
  BY DEF UpgradeSoundness, UpgradeInv, LidarInv, SuccessMeansFlashed
<1>2. QED
  BY <1>1, UpgradeIsSound, PTL

(* As long as no sendto fails, exactly one request drives the machine      *)
(* until it is in a final state, and in a final state none is left         *)
(* (~LivoxLidarUpgrader).                                                  *)
THEOREM OneRequestDrivesIt == UpgradeSpec => []OneRequestDrives
<1>1. UpgradeSoundness => OneRequestDrives
  <2> SUFFICES ASSUME UpgradeInv, object # "new" PROVE OneRequestDrives
    BY DEF UpgradeSoundness, OneRequestDrives
  <2>1. CASE fsm_state \in {"Idle", "Err"}
    <3>1. Waiting = {} /\ todo = <<>>
      BY <2>1 DEF UpgradeInv, DriverInv, NothingOut
    <3>2. RequestsOut = 0
      BY <3>1, FS_EmptySet DEF RequestsOut
    <3>3. QED
      BY <2>1, <3>2 DEF OneRequestDrives
  <2>2. CASE fsm_state \notin {"Idle", "Err"}
    <3>1. PICK r \in UpgradeRequests : Sole(r) /\ Drives(r) /\ object = "started"
      BY <2>2 DEF UpgradeInv, DriverInv
    <3>2. CASE Waiting = {} /\ todo = <<r>>
      <4>1. Cardinality(Waiting) = 0 /\ Len(todo) = 1
        BY <3>2, FS_EmptySet
      <4>2. ToSet(todo) = {r} /\ {c.of : c \in Waiting} = {}
        BY <3>2, ToSetOne
      <4>3. QED
        BY <2>2, <3>1, <4>1, <4>2 DEF OneRequestDrives, RequestsOut, Drives, StateOf
    <3>3. CASE todo = <<>> /\ \E n \in Seqs : Waiting = {[of |-> r, seq |-> n]}
      <4>1. PICK n \in Seqs : Waiting = {[of |-> r, seq |-> n]}
        BY <3>3
      <4>2. Cardinality(Waiting) = 1 /\ Len(todo) = 0
        BY <3>3, <4>1, FS_Singleton
      <4>3. ToSet(todo) = {} /\ {c.of : c \in Waiting} = {r}
        BY <3>3, <4>1, ToSetOne
      <4>4. QED
        BY <2>2, <3>1, <4>2, <4>3 DEF OneRequestDrives, RequestsOut, Drives, StateOf
    <3>4. QED
      BY <3>1, <3>2, <3>3 DEF Sole
  <2>3. QED
    BY <2>1, <2>2
<1>2. QED
  BY <1>1, UpgradeIsSound, PTL

(* With an upgrader that is destroyed nothing goes on but what is under    *)
(* way: a thread of the SDK may still be in the last part of               *)
(* FsmEventHandler, but no callback is called, nothing is sent and no      *)
(* state is changed any more (~LivoxLidarUpgrader).                        *)
OnlyObserversRemain ==
    [][object = "destroyed" /\ failures = 0 => \E t \in Threads : Observe(t)]_upgrade_vars

(* The upgrade thread has ended before the object is destroyed, and no     *)
(* request that could call back into it is left, for any firmware and any  *)
(* limits of the retries, as long as no sendto fails                       *)
(* (~LivoxLidarUpgrader).                                                  *)
THEOREM NoCallbackAfterDestruction == UpgradeSpec => OnlyObserversRemain
<1>1. UpgradeSoundness /\ [UpgradeNext]_upgrade_vars
      => [object = "destroyed" /\ failures = 0 => \E t \in Threads : Observe(t)]_upgrade_vars
  <2> SUFFICES ASSUME UpgradeSoundness, UpgradeNext, object = "destroyed", failures = 0
               PROVE  \E t \in Threads : Observe(t)
    OBVIOUS
  <2>1. Waiting = {} /\ todo = <<>> /\ unsent = {}
    BY DEF UpgradeSoundness, UpgradeInv, DriverInv, NothingOut
  <2>2. commands = {} /\ adding = {} /\ air = {}
    BY <2>1 DEF Waiting, UpgradeSoundness, UpgradeTypesInv, LayerInv
  <2>3. ~StartUpgradeLivoxLidar /\ ~Destroy
    BY DEF StartUpgradeLivoxLidar, Destroy
  <2>4. ~UpgradeLayerStep
    BY <2>1, <2>2 DEF UpgradeLayerStep, SendNext, SendNextFails, AddCommand
  <2>5. ~Observe("start")
    BY DEF UpgradeSoundness, UpgradeTypesInv, Observe
  <2>6. QED
    BY <2>1, <2>2, <2>3, <2>4, <2>5 DEF UpgradeNext
<1>2. QED
  BY <1>1, UpgradeIsSound, PTL DEF UpgradeSpec, OnlyObserversRemain
-----------------------------------------------------------------------------
(* How far an upgrade is: where its object and its machine are, the blocks *)
(* that were sent, the tries of the present request, where that request is *)
(* between the list of what is to be sent and the answer, and the threads  *)
(* that are still in FsmEventHandler.                                      *)
StageOf(s) ==
    CASE s = "Request"      -> 1
      [] s = "Xfer"         -> 2
      [] s = "CompleteXfer" -> 3
      [] s = "GetProgress"  -> 4
      [] s = "Complete"     -> 5
      [] OTHER              -> 6

Stage == IF object = "new" THEN 0 ELSE IF object = "destroyed" THEN 7 ELSE StageOf(fsm_state)

InTheAir == IF air = {} THEN 0 ELSE IF \E d \in air : d.way = "request" THEN 2 ELSE 1

StepsOfRequest ==
    (IF todo = <<>> THEN 0 ELSE 4) + (IF adding = {} THEN 0 ELSE 1) + InTheAir

(* All five are bounded, so that their lexicographic order has no infinite *)
(* ascent.                                                                 *)
Nearer ==
    \/ Stage' > Stage
    \/ /\ Stage' = Stage
       /\ \/ read_offset' > read_offset
          \/ /\ read_offset' = read_offset
             /\ \/ try_count' > try_count
                \/ /\ try_count' = try_count
                   /\ \/ StepsOfRequest' < StepsOfRequest
                      \/ /\ StepsOfRequest' = StepsOfRequest
                         /\ observing' \subseteq observing /\ observing' # observing

(* The lidar has said that it is busy, or not done yet.                    *)
AskedAgain == \E d \in air : d.ret = "again" /\ (StartUpgradeResponse(d) \/ GetProgressResponse(d))

(* As long as no sendto fails, whatever a step of any of the threads, of   *)
(* the network or of the lidar does, it brings the upgrade nearer to its   *)
(* end, unless it is an answer that asks for patience: nothing is ever     *)
(* begun again, and retries are used up.  It is the safety half of         *)
(* UpgradeEnds (livox_lidar_upgrader.cpp).                                 *)
UpgradeAdvances == [][failures' = 0 => Nearer \/ AskedAgain]_upgrade_vars

(* Nobody waits for nothing: until the object is destroyed some thread of  *)
(* the SDK has a step to take, whatever the network does: the destructor,  *)
(* a thread in FsmEventHandler, one that sends or one that sees a time-out.*)
UpgradeGoesOn ==
    failures = 0 /\ object = "started" =>
        \/ fsm_state \in {"Idle", "Err"} /\ "start" \notin observing
        \/ \E t \in observing : IF t = "cmd" THEN Clear("cmd") ELSE OtherIsFree /\ Clear("other")
        \/ adding = {} /\ todo # <<>> /\ CanNumber({Head(todo)}, Waiting)
        \/ adding # {}
        \/ \E c \in commands :
              /\ "cmd" \notin observing /\ \A u \in unsent : u.cmd # c
              /\ CanNumber(ToSet(EventSends(EventAfter(c), read_offset)), Waiting \ {c})

(* The one request has one datagram.                                       *)
OneDatagram == \A d, e \in air : d = e

(* What a callback sends, with the datagrams there are then.               *)
LEMMA OneSent ==
    ASSUME UpgradeInv, failures' = failures, NEW c, NEW s, s = <<>> \/ \E r : s = <<r>>,
           \/ \E t : Expire(t, c, s)
           \/ \E d : d.cmd = c /\ TakeAnswer(d, ToSet(s))
    PROVE  OneDatagram'
<1>1. c \in commands
  BY DEF Expire, TakeAnswer
<1>2. Waiting = {c}
  BY <1>1, CommandDrives DEF Waiting
<1>3. {d \in air : d.cmd \notin {c}} = {}
  BY <1>2 DEF UpgradeInv, LayerInv
<1>4. CASE SendFromCmd({c}, ToSet(s))
  <2>1. air' = {Request(x) : x \in {Numbered(r, Waiting \ {c}) : r \in ToSet(s)}}
    <3>1. failures \in Nat
      BY MaxFailuresAssumption DEF UpgradeInv, LayerInv
    <3>2. failures' # failures + 1
      BY <3>1
    <3>3. air' = InAir({c}, {Numbered(r, Waiting \ {c}) : r \in ToSet(s)})
      BY <1>4, <3>2 DEF SendFromCmd, SendAfter
    <3>4. QED
      BY <1>3, <3>3 DEF InAir
  <2>2. \A q, r \in ToSet(s) : q = r
    BY ToSetOne
  <2>3. QED
    BY <2>1, <2>2 DEF OneDatagram
<1>5. CASE air' = InAir({c}, {})
  BY <1>3, <1>5 DEF InAir, OneDatagram
<1>6. QED
  BY <1>4, <1>5 DEF Expire, TakeAnswer

LEMMA SentIsOne == ASSUME NEW e, NEW o PROVE EventSends(e, o) = <<>> \/ \E r : EventSends(e, o) = <<r>>
<1>1. Sent(e, o) = <<>> \/ \E r : Sent(e, o) = <<r>>
  BY DEF Sent
<1>2. QED
  BY <1>1 DEF EventSends

(* A request goes on its way only when nothing waits for an answer.        *)
LEMMA SendsAlone ==
    ASSUME UpgradeInv, SendNext
    PROVE  /\ air = {} /\ adding = {} /\ todo # <<>> /\ todo' = <<>>
           /\ \E c : adding' = {c} /\ air' = {Request(c)}
<1>1. todo # <<>> /\ adding = {} /\ todo' = Tail(todo)
  BY DEF SendNext
<1>2. \E r \in UpgradeRequests : Sole(r)
  BY <1>1 DEF UpgradeInv, DriverInv, NothingOut
<1>3. PICK r \in UpgradeRequests : Waiting = {} /\ todo = <<r>>
  BY <1>1, <1>2 DEF Sole
<1>4. air = {} /\ todo' = <<>>
  BY <1>1, <1>3 DEF UpgradeInv, LayerInv
<1>5. air' = InAir({}, adding') /\ \E c : adding' = {c}
  BY DEF SendNext
<1>6. QED
  BY <1>1, <1>4, <1>5 DEF InAir

(* The lidar's answer takes the place of the request.                      *)
LEMMA AnswersAlone ==
    ASSUME UpgradeInv, OneDatagram, NEW d, NEW ret, LidarAnswers(d, ret)
    PROVE  air = {d} /\ d.way = "request" /\ air' = {Answer(d.cmd, ret)} /\ UNCHANGED <<commands, adding, todo>>
  BY DEF OneDatagram, LidarAnswers

LEMMA LidarSpeaks ==
    ASSUME NEW d, LidarStarts(d) \/ LidarStores(d) \/ LidarProgresses(d) \/ LidarAnswersRest(d)
    PROVE  (\E ret : LidarAnswers(d, ret)) /\ UNCHANGED <<machine, object>>
  BY DEF LidarStarts, LidarStores, LidarProgresses, LidarAnswersRest

LEMMA AnswerIsTaken ==
    ASSUME NEW d, \/ StartUpgradeResponse(d) \/ XferFirmwareResponse(d)
                  \/ CompleteXferFirmwareResponse(d) \/ GetProgressResponse(d)
                  \/ UpgradeCompleteResponse(d)
    PROVE  \E k, e, o : Responded(d, k, e, o)
  BY DEF StartUpgradeResponse, XferFirmwareResponse, CompleteXferFirmwareResponse,
         GetProgressResponse, UpgradeCompleteResponse

LEMMA OneDatagramKept ==
    ASSUME UpgradeInv, failures' = failures, OneDatagram, [UpgradeNext]_upgrade_vars
    PROVE  OneDatagram'
<1>1. ASSUME UNCHANGED air PROVE OneDatagram'
  BY <1>1 DEF OneDatagram
<1>2. CASE StartUpgradeLivoxLidar \/ Destroy \/ (\E t : Observe(t)) \/ UNCHANGED upgrade_vars
  BY <1>1, <1>2 DEF StartUpgradeLivoxLidar, Destroy, Observe, upgrade_vars, layer
<1>3. ASSUME NEW d \in air, NEW k, NEW e, NEW o, Responded(d, k, e, o) PROVE OneDatagram'
  BY <1>3, SentIsOne, OneSent DEF Responded
<1>4. ASSUME NEW t, NEW c, RequestExpires(t, c) PROVE OneDatagram'
  BY <1>4, SentIsOne, OneSent DEF RequestExpires
<1>5. ASSUME NEW d, LidarStarts(d) \/ LidarStores(d) \/ LidarProgresses(d) \/ LidarAnswersRest(d)
      PROVE  OneDatagram'
  BY <1>5, LidarSpeaks, AnswersAlone DEF OneDatagram
<1>6. CASE UpgradeLayerStep
  <2>1. CASE SendNext
    BY <2>1, SendsAlone DEF OneDatagram
  <2>2. CASE AddCommand \/ SendNextFails \/ \E d \in air : IgnoreAnswer(d)
    BY <2>2 DEF AddCommand, SendNextFails, IgnoreAnswer, OneDatagram
  <2>3. QED
    BY <1>6, <2>1, <2>2 DEF UpgradeLayerStep
<1>7. \A u \in unsent : ~RequestRefused(u)
  BY DEF UpgradeInv
<1>8. QED
  BY <1>2, <1>3, <1>4, <1>5, <1>6, <1>7, AnswerIsTaken DEF UpgradeNext
-----------------------------------------------------------------------------
(* Each kind of step, and how it advances the upgrade.                     *)

(* A callback that leads to a later state.                                 *)
LEMMA LaterState ==
    ASSUME UpgradeInv, object = "started", UNCHANGED object,
           NEW e, NEW o, FsmEventHandler(e, o),
           \/ e = "Err"
           \/ fsm_state = "Request" /\ e = "Xfer"
           \/ fsm_state = "Xfer" /\ e = "CompleteXfer"
           \/ fsm_state = "CompleteXfer" /\ e = "GetProgress"
           \/ fsm_state = "GetProgress" /\ e = "Complete"
           \/ fsm_state = "Complete" /\ e = "Reinit",
           fsm_state \notin {"Idle", "Err"}
    PROVE  Nearer
<1>1. /\ <<"Request", "Xfer", "Xfer">> \in EventTable
      /\ <<"Xfer", "CompleteXfer", "CompleteXfer">> \in EventTable
      /\ <<"CompleteXfer", "GetProgress", "GetProgress">> \in EventTable
      /\ <<"GetProgress", "Complete", "Complete">> \in EventTable
      /\ <<"Complete", "Reinit", "Idle">> \in EventTable
  BY DEF EventTable
<1>2. /\ e = "Err" => fsm_state' = "Err"
      /\ fsm_state = "Request" /\ e = "Xfer" => fsm_state' = "Xfer"
      /\ fsm_state = "Xfer" /\ e = "CompleteXfer" => fsm_state' = "CompleteXfer"
      /\ fsm_state = "CompleteXfer" /\ e = "GetProgress" => fsm_state' = "GetProgress"
      /\ fsm_state = "GetProgress" /\ e = "Complete" => fsm_state' = "Complete"
      /\ fsm_state = "Complete" /\ e = "Reinit" => fsm_state' = "Idle"
  BY <1>1, ErrEffect, EventEffect
<1>3. fsm_state \in {"Request", "Xfer", "CompleteXfer", "GetProgress", "Complete"}
  BY StatesAre DEF UpgradeInv, UpgradeValuesInv
<1>4. StageOf(fsm_state') > StageOf(fsm_state)
  BY <1>2, <1>3 DEF StageOf
<1>5. QED
  BY <1>4 DEF Nearer, Stage

(* The state is kept by an event of its own name.                          *)
LEMMA SameState ==
    ASSUME NEW e, NEW o, FsmEventHandler(e, o), fsm_state = e,
           e \in {"Request", "Xfer", "CompleteXfer", "GetProgress", "Complete"}
    PROVE  fsm_state' = fsm_state /\ read_offset' = IF e = "Request" THEN 0 ELSE o
<1>1. <<e, e, e>> \in EventTable
  BY DEF EventTable
<1>2. QED
  BY <1>1, EventEffect

LEMMA AnswerAdvances ==
    ASSUME UpgradeInv, NEW d \in air,
           \/ StartUpgradeResponse(d)
           \/ XferFirmwareResponse(d)
           \/ CompleteXferFirmwareResponse(d)
           \/ GetProgressResponse(d)
           \/ UpgradeCompleteResponse(d)
    PROVE  Nearer \/ AskedAgain
<1>1. ASSUME NEW k, NEW e, NEW o, Responded(d, k, e, o)
      PROVE  /\ object = "started" /\ UNCHANGED object
             /\ fsm_state = StateOf(k) /\ fsm_state \notin {"Idle", "Err"}
             /\ FsmEventHandler(e, o)
  <2>1. d.cmd \in Waiting /\ d.cmd.of.kind = k
    BY <1>1 DEF Responded, TakeAnswer, Waiting
  <2>2. QED
    BY <1>1, <2>1, CommandDrives DEF Responded, Drives
<1>2. ASSUME NEW k, NEW o, Responded(d, k, "Err", o) PROVE Nearer
  BY <1>1, <1>2, LaterState
<1>3. CASE StartUpgradeResponse(d)
  <2>1. CASE d.ret = "again"
    BY <1>3, <2>1 DEF AskedAgain
  <2>2. CASE Responded(d, "Start", "Xfer", read_offset)
    BY <1>1, <2>2, LaterState DEF StateOf
  <2>3. QED
    BY <1>2, <1>3, <2>1, <2>2 DEF StartUpgradeResponse
<1>4. CASE XferFirmwareResponse(d)
  <2>1. CASE Responded(d, "Xfer", "Xfer", read_offset + 1)
    <3>1. fsm_state = "Xfer" /\ object = "started" /\ object' = "started"
      BY <1>1, <2>1 DEF StateOf
    <3>2. fsm_state' = "Xfer" /\ read_offset' = read_offset + 1
      BY <1>1, <2>1, <3>1, SameState
    <3>3. read_offset \in Int
      BY DEF UpgradeInv, UpgradeValuesInv
    <3>4. QED
      BY <3>1, <3>2, <3>3 DEF Nearer, Stage, StageOf
  <2>2. CASE Responded(d, "Xfer", "CompleteXfer", read_offset + 1)
    BY <1>1, <2>2, LaterState DEF StateOf
  <2>3. QED
    BY <1>2, <1>4, <2>1, <2>2 DEF XferFirmwareResponse
<1>5. CASE CompleteXferFirmwareResponse(d)
  <2>1. CASE Responded(d, "CompleteXfer", "GetProgress", read_offset)
    BY <1>1, <2>1, LaterState DEF StateOf
  <2>2. QED
    BY <1>2, <1>5, <2>1 DEF CompleteXferFirmwareResponse
<1>6. CASE GetProgressResponse(d)
  <2>1. CASE d.ret = "again"
    BY <1>6, <2>1 DEF AskedAgain
  <2>2. CASE Responded(d, "Progress", "Complete", read_offset)
    BY <1>1, <2>2, LaterState DEF StateOf
  <2>3. QED
    BY <1>2, <1>6, <2>1, <2>2 DEF GetProgressResponse
<1>7. CASE UpgradeCompleteResponse(d)
  <2>1. CASE Responded(d, "Reboot", "Reinit", read_offset)
    BY <1>1, <2>1, LaterState DEF StateOf
  <2>2. QED
    BY <1>2, <1>7, <2>1 DEF UpgradeCompleteResponse
<1>8. QED
  BY <1>3, <1>4, <1>5, <1>6, <1>7

(* A time-out uses up a try, or is the last.                               *)
LEMMA ExpiryAdvances ==
    ASSUME UpgradeInv, NEW t, NEW c \in commands, RequestExpires(t, c)
    PROVE  Nearer
<1>1. /\ c.of \in UpgradeRequests /\ fsm_state = StateOf(c.of.kind)
      /\ object = "started" /\ UNCHANGED object /\ fsm_state \notin {"Idle", "Err"}
      /\ FsmEventHandler(EventAfter(c), read_offset)
  BY CommandDrives DEF Waiting, Drives, RequestExpires, Counted
<1>2. c.of.kind \in {"Start", "Xfer", "CompleteXfer", "Progress", "Reboot"}
  BY <1>1, KindOf DEF Plain
<1>3. CASE LastTry(c)
  <2>1. EventAfter(c) = "Err" \/ (fsm_state = "Complete" /\ EventAfter(c) = "Reinit")
    BY <1>1, <1>3 DEF EventAfter, Final, StateOf
  <2>2. QED
    BY <1>1, <2>1, LaterState
<1>4. CASE ~LastTry(c)
  <2>1. EventAfter(c) = fsm_state
    BY <1>1, <1>2, <1>4 DEF EventAfter, Repeated, StateOf
  <2>2. fsm_state \in {"Request", "Xfer", "CompleteXfer", "GetProgress", "Complete"}
    BY <1>1, StatesAre DEF UpgradeInv, UpgradeValuesInv
  <2>3. fsm_state' = fsm_state /\ read_offset' = read_offset
    BY <1>1, <2>1, <2>2, SameState DEF UpgradeInv, LidarInv
  <2>4. try_count \in Int /\ try_count' = try_count + 1
    BY <1>4 DEF RequestExpires, Counted, UpgradeInv, UpgradeValuesInv
  <2>5. QED
    BY <1>1, <2>3, <2>4 DEF Nearer, Stage
<1>5. QED
  BY <1>3, <1>4

(* Steps that leave the machine where it is move its request on.           *)
LEMMA RequestMovesOn ==
    ASSUME UNCHANGED <<machine, object>>, StepsOfRequest' < StepsOfRequest
    PROVE  Nearer
  BY DEF machine, Nearer, Stage

LEMMA LayerAdvances ==
    ASSUME UpgradeInv, failures' = failures, OneDatagram, UpgradeLayerStep
    PROVE  Nearer
<1>1. UNCHANGED <<machine, object>>
  BY DEF UpgradeLayerStep
<1>2. CASE SendNext
  <2>1. PICK c : adding' = {c} /\ air' = {Request(c)}
    BY <1>2, SendsAlone
  <2>2. InTheAir = 0 /\ InTheAir' = 2
    BY <1>2, <2>1, SendsAlone DEF InTheAir, Request
  <2>3. StepsOfRequest = 4 /\ StepsOfRequest' = 3
    BY <1>2, <2>1, <2>2, SendsAlone DEF StepsOfRequest
  <2>4. QED
    BY <1>1, <2>3, RequestMovesOn
<1>3. CASE AddCommand
  <2>1. adding # {} /\ adding' = {} /\ UNCHANGED <<todo, air>>
    BY <1>3 DEF AddCommand
  <2>2. StepsOfRequest' < StepsOfRequest
    BY <2>1 DEF StepsOfRequest, InTheAir
  <2>3. QED
    BY <1>1, <2>2, RequestMovesOn
<1>4. ASSUME NEW d \in air, IgnoreAnswer(d) PROVE Nearer
  <2>1. air = {d} /\ air' = {} /\ d.way = "answer" /\ UNCHANGED <<adding, todo>>
    BY <1>4 DEF IgnoreAnswer, OneDatagram
  <2>2. StepsOfRequest' < StepsOfRequest
    BY <2>1 DEF StepsOfRequest, InTheAir
  <2>3. QED
    BY <1>1, <2>2, RequestMovesOn
<1>5. ~SendNextFails
  <2>1. failures \in Nat
    BY MaxFailuresAssumption DEF UpgradeInv, LayerInv
  <2>2. QED
    BY <2>1 DEF SendNextFails
<1>6. QED
  BY <1>2, <1>3, <1>4, <1>5 DEF UpgradeLayerStep

LEMMA LidarAdvances ==
    ASSUME UpgradeInv, OneDatagram,
           NEW d, LidarStarts(d) \/ LidarStores(d) \/ LidarProgresses(d) \/ LidarAnswersRest(d)
    PROVE  Nearer
<1>1. PICK ret : LidarAnswers(d, ret)
  BY LidarSpeaks
<1>2. /\ air = {d} /\ d.way = "request" /\ air' = {Answer(d.cmd, ret)}
      /\ UNCHANGED <<commands, adding, todo>>
  BY <1>1, AnswersAlone
<1>3. StepsOfRequest' < StepsOfRequest
  BY <1>2 DEF StepsOfRequest, InTheAir, Answer
<1>4. QED
  BY <1>3, LidarSpeaks, RequestMovesOn

(* A thread leaves FsmEventHandler.                                        *)
LEMMA ObserverAdvances ==
    ASSUME NEW t, Observe(t)
    PROVE  Nearer
<1>1. UNCHANGED <<layer, machine, object>>
  BY DEF Observe
<1>2. Stage' = Stage /\ read_offset' = read_offset /\ try_count' = try_count
  BY <1>1 DEF machine, Stage, StageOf
<1>3. StepsOfRequest' = StepsOfRequest
  BY <1>1 DEF layer, StepsOfRequest, InTheAir
<1>4. observing' \subseteq observing /\ observing' # observing
  BY DEF Observe
<1>5. QED
  BY <1>2, <1>3, <1>4 DEF Nearer

(* As long as no sendto fails, every step brings the upgrade nearer to its *)
(* end, but for an answer that asks for patience: with UpgradeGoesOn it is *)
(* what UpgradeEnds says short of fairness (livox_lidar_upgrader.cpp).     *)
THEOREM EveryStepAdvances == UpgradeSpec => UpgradeAdvances
<1> DEFINE Single == failures = 0 => OneDatagram
<1>1. UpgradeInit => Single
  BY DEF UpgradeInit, InitLayer, OneDatagram
<1>2. UpgradeSoundness /\ [UpgradeNext]_upgrade_vars /\ failures' = 0
      => UpgradeInv /\ failures' = failures
  BY UpgradeTypesKept, MaxFailuresAssumption
  DEF Counts, UpgradeSoundness, UpgradeTypesInv, LayerInv
<1>3. UpgradeSoundness /\ Single /\ [UpgradeNext]_upgrade_vars => Single'
  BY <1>2, OneDatagramKept
<1>4. UpgradeSoundness /\ Single /\ [UpgradeNext]_upgrade_vars
      => [failures' = 0 => Nearer \/ AskedAgain]_upgrade_vars
  <2> SUFFICES ASSUME UpgradeInv, OneDatagram, failures' = failures, UpgradeNext
               PROVE  Nearer \/ AskedAgain
    BY <1>2
  <2>1. CASE StartUpgradeLivoxLidar
    <3>1. fsm_state = "Idle" /\ object = "new" /\ object' = "started"
      BY <2>1 DEF StartUpgradeLivoxLidar, UpgradeInv, DriverInv
    <3>2. QED
      BY <3>1 DEF Nearer, Stage, StageOf
  <2>2. CASE Destroy
    BY <2>2 DEF Destroy, Nearer, Stage, StageOf
  <2>3. \A u \in unsent : ~RequestRefused(u)
    BY DEF UpgradeInv
  <2>4. QED
    BY <2>1, <2>2, <2>3, AnswerAdvances, ExpiryAdvances, LayerAdvances, LidarAdvances,
       ObserverAdvances
    DEF UpgradeNext
<1> HIDE DEF Single
<1>5. QED
  BY <1>1, <1>3, <1>4, UpgradeIsSound, PTL DEF UpgradeSpec, UpgradeAdvances

(* Some thread of the SDK always has a step to take until the object is    *)
(* destroyed, as long as no sendto fails (~LivoxLidarUpgrader waits for it *)
(* without a limit).                                                       *)
THEOREM NobodyWaitsForNothing == UpgradeSpec => []UpgradeGoesOn
<1>1. UpgradeSoundness => UpgradeGoesOn
  <2> SUFFICES ASSUME UpgradeInv, object = "started", adding = {},
                      \A t \in observing : t # "cmd" /\ ~OtherIsFree,
                      ~(fsm_state \in {"Idle", "Err"} /\ "start" \notin observing)
               PROVE  \/ todo # <<>> /\ CanNumber({Head(todo)}, Waiting)
                      \/ \E c \in commands :
                            CanNumber(ToSet(EventSends(EventAfter(c), read_offset)), Waiting \ {c})
    BY DEF UpgradeSoundness, UpgradeInv, UpgradeGoesOn, Clear
  <2>0. fsm_state \notin {"Idle", "Err"}
    <3>1. ASSUME NothingOut PROVE observing = {}
      BY <3>1 DEF NothingOut, OtherIsFree, Waiting
    <3>2. QED
      BY <3>1 DEF UpgradeInv, DriverInv
  <2>1. \A r : Numbers(r, {}) # {}
    BY MaxSeqAssumption DEF Numbers, Seqs
  <2>2. PICK r \in UpgradeRequests : Sole(r)
    BY <2>0 DEF UpgradeInv, DriverInv
  <2>3. CASE Waiting = {} /\ todo = <<r>>
    BY <2>1, <2>3 DEF CanNumber
  <2>4. CASE todo = <<>> /\ \E n \in Seqs : Waiting = {[of |-> r, seq |-> n]}
    <3>1. PICK c : Waiting = {c}
      BY <2>4
    <3>2. c \in commands /\ Waiting \ {c} = {}
      BY <3>1 DEF Waiting
    <3>3. QED
      BY <2>1, <3>2 DEF CanNumber
  <2>5. QED
    BY <2>2, <2>3, <2>4 DEF Sole
<1>2. QED
  BY <1>1, UpgradeIsSound, PTL
-----------------------------------------------------------------------------
(* The configuration of a lidar.                                           *)

(* A request is on its way or waits to be sent.                            *)
Pending(r) == (\E c \in Waiting : c.of = r) \/ r \in ToSet(todo)

ValuesInv ==
    /\ firmware \in [Lidars -> {"app", "loader"}]
    /\ config \in [Lidars -> SUBSET Settings]
    /\ listed \subseteq Lidars
    /\ followed \in Others
    /\ devices \in [Lidars -> Devices]
    /\ count \in 0 .. TryLimit + 1
    /\ set_bits \in [Lidars -> SUBSET Settings]
    /\ connect_state \in [Lidars -> {"Off", "Sampling"}]
    /\ asleep \in [Threads -> SUBSET Lidars]
    /\ received \in [Lidars -> SUBSET Settings]
    /\ calls \in [Lidars -> 0 .. 1]

(* A lidar that was not detected was not asked for anything that would     *)
(* change what is known of it, and a thread that sleeps sends nothing.     *)
FoundInv ==
    /\ \A r \in Requests : Pending(r) /\ r.kind \in {"FwType", "Cfg"} => devices[r.lidar].found
    /\ \A l \in Lidars : devices[l].fw # "unknown" \/ devices[l].is_callback => devices[l].found
    /\ Awake("other") \/ OtherIsFree

(* The driver's settings: they are asked for only after its callback, and  *)
(* each of them either waits in set_bits, with a request, or has been read *)
(* by the lidar.                                                           *)
AskedInv(l, s) ==
    /\ Pending(Ask(l, s)) => s \in Wanted(l) /\ devices[l].is_callback
    /\ s \in set_bits[l] => Pending(Ask(l, s))
    /\ devices[l].is_callback /\ s \in Wanted(l) => s \in set_bits[l] \cup received[l]
    /\ \A d \in air : d.way = "answer" /\ d.cmd.of = Ask(l, s) => s \in received[l]

CallbackInv(l) ==
    /\ ~devices[l].is_callback => calls[l] = 0
    /\ connect_state[l] = "Sampling" =>
          l \in listed /\ set_bits[l] = {} /\ devices[l].is_callback

ConfigInv ==
    /\ LayerInv(Requests)
    /\ ValuesInv
    /\ FoundInv
    /\ \A l \in Lidars : CallbackInv(l) /\ \A s \in Settings : AskedInv(l, s)
-----------------------------------------------------------------------------
(* A step after which the commands gone are not waited for and the         *)
(* requests rs are on their way.                                           *)
Moves(gone, rs) ==
    /\ \A r : Pending(r)' => Pending(r) \/ r \in rs
    /\ \A r : Pending(r) => Pending(r)' \/ \E c \in gone : c.of = r
    /\ \A r \in rs : Pending(r)'
    /\ \A d \in air' : d.way = "answer" => d \in air

LEMMA SendsMoves ==
    ASSUME NEW gone, NEW rs, Sends(gone, rs)
    PROVE  Moves(gone, rs)
<1>1. /\ adding' = adding /\ todo' = todo
      /\ \A c \in commands : c \in gone \/ c \in commands'
      /\ \A c \in commands' : c \in commands \/ c.of \in rs
      /\ \A r \in rs : \E c \in commands' : c.of = r
      /\ \A d \in air' : d.way = "answer" => d \in air
  BY DEF Sends
<1>2. ASSUME NEW r, Pending(r)' PROVE Pending(r) \/ r \in rs
  BY <1>1, <1>2 DEF Pending, Waiting
<1>3. ASSUME NEW r, Pending(r) PROVE Pending(r)' \/ \E c \in gone : c.of = r
  BY <1>1, <1>3 DEF Pending, Waiting
<1>4. ASSUME NEW r \in rs PROVE Pending(r)'
  BY <1>1 DEF Pending, Waiting
<1>5. QED
  BY <1>1, <1>2, <1>3, <1>4 DEF Moves

(* A callback of the command c that sends s.                               *)
LEMMA ExpireMoves ==
    ASSUME LayerInv(Requests), NEW t, NEW c, NEW s \in Seq(Requests), Expire(t, c, s)
    PROVE  /\ LayerInv(Requests)' /\ c \in Commands(Requests) /\ c.of \in Requests /\ Pending(c.of)
           /\ Moves({c}, ToSet(s))
           /\ \/ t = "cmd" /\ UNCHANGED <<adding, todo>>
              \/ t # "cmd" /\ adding' = {} /\ todo' = s
<1>1. /\ LayerInv(Requests)' /\ c \in commands /\ c \in Commands(Requests)
      /\ \/ t = "cmd" /\ Sends({c}, ToSet(s))
         \/ t # "cmd" /\ ExpiresOther(c, s)
  BY ExpireEffect
<1>2. Pending(c.of) /\ c.of \in Requests
  BY <1>1 DEF Pending, Waiting, Commands
<1>3. CASE t = "cmd" /\ Sends({c}, ToSet(s))
  BY <1>1, <1>2, <1>3, SendsMoves DEF Sends
<1>4. CASE t # "cmd" /\ ExpiresOther(c, s)
  <2>1. /\ todo = <<>> /\ adding = {} /\ adding' = {} /\ todo' = s
        /\ commands' = commands \ {c} /\ air' \subseteq air
    BY <1>4 DEF ExpiresOther, OtherIsFree
  <2>2. ToSet(todo) = {}
    BY <2>1, ToSetOne
  <2>3. /\ \A r : Pending(r) <=> \E x \in commands : x.of = r
        /\ \A r : Pending(r)' <=> (\E x \in commands \ {c} : x.of = r) \/ r \in ToSet(s)
    BY <2>1, <2>2 DEF Pending, Waiting
  <2>4. Moves({c}, ToSet(s))
    BY <2>1, <2>3 DEF Moves
  <2>5. QED
    BY <1>1, <1>2, <1>4, <2>1, <2>4
<1>5. QED
  BY <1>1, <1>3, <1>4

LEMMA AnswerMoves ==
    ASSUME LayerInv(Requests), NEW d, NEW rs \in SUBSET Requests, IsFiniteSet(rs), TakeAnswer(d, rs)
    PROVE  /\ LayerInv(Requests)' /\ d.cmd.of \in Requests /\ Pending(d.cmd.of)
           /\ d \in air /\ d.way = "answer"
           /\ Moves({d.cmd}, rs) /\ UNCHANGED <<adding, todo>>
<1>1. /\ LayerInv(Requests)' /\ Sends({d.cmd}, rs)
      /\ d \in air /\ d.way = "answer" /\ d.cmd \in commands /\ d.cmd \in Commands(Requests)
  BY TakeAnswerEffect
<1>2. Pending(d.cmd.of) /\ d.cmd.of \in Requests
  BY <1>1 DEF Pending, Waiting, Commands
<1>3. QED
  BY <1>1, <1>2, SendsMoves DEF Sends

LEMMA SendMoves ==
    ASSUME LayerInv(Requests), NEW r \in Requests, SendFromCmd({}, {r})
    PROVE  LayerInv(Requests)' /\ Moves({}, {r}) /\ UNCHANGED <<adding, todo>>
<1>1. IsFiniteSet({r})
  BY FS_Singleton
<1>2. LayerInv(Requests)' /\ Sends({}, {r})
  BY <1>1, SendFromCmdEffect
<1>3. QED
  BY <1>2, SendsMoves DEF Sends

(* The other thread, idle until now, has the requests s to send.           *)
LEMMA StartsMoves ==
    ASSUME LayerInv(Requests), OtherIsFree, NEW s \in Seq(Requests), todo' = s,
           UNCHANGED <<commands, adding, air>>
    PROVE  Moves({}, ToSet(s)) /\ (UNCHANGED sending => LayerInv(Requests)')
<1>1. ToSet(todo) = {}
  BY ToSetOne DEF OtherIsFree
<1>2. ASSUME UNCHANGED sending PROVE LayerInv(Requests)'
  <2> HIDE DEF Requests
  <2>1. Requests' = Requests
    BY DEF Requests
  <2>2. QED
    BY <1>2, <2>1 DEF LayerInv, Waiting, Commands, Seqs, sending
<1>3. Moves({}, ToSet(s))
  BY <1>1 DEF Moves, Pending, Waiting
<1>4. QED
  BY <1>2, <1>3

(* A callback for a command that has expired or could not be sent.         *)
LastCall(t, c, s) ==
    Expire(t, c, s) \/ \E u \in unsent : u.thread = t /\ u.cmd = c /\ Recall(u, s)

LEMMA LastCallMoves ==
    ASSUME LayerInv(Requests), NEW t, NEW c, NEW s \in Seq(Requests), LastCall(t, c, s)
    PROVE  /\ LayerInv(Requests)' /\ c \in Commands(Requests) /\ c.of \in Requests /\ Pending(c.of)
           /\ Moves({c}, ToSet(s)) \/ Moves({}, ToSet(s))
           /\ \/ t = "cmd" /\ UNCHANGED <<adding, todo>>
              \/ t # "cmd" /\ adding' = {} /\ todo' = s
<1>1. CASE Expire(t, c, s)
  BY <1>1, ExpireMoves
<1>2. ASSUME NEW u \in unsent, u.thread = t, u.cmd = c, Recall(u, s)
      PROVE  /\ LayerInv(Requests)' /\ c \in Commands(Requests) /\ c.of \in Requests /\ Pending(c.of)
             /\ Moves({}, ToSet(s))
             /\ \/ t = "cmd" /\ UNCHANGED <<adding, todo>>
                \/ t # "cmd" /\ adding' = {} /\ todo' = s
  <2>1. /\ LayerInv(Requests)' /\ c \in commands /\ c \in Commands(Requests)
        /\ \/ t = "cmd" /\ Sends({}, ToSet(s))
           \/ t # "cmd" /\ RecallsOther(s)
    BY <1>2, RecallEffect
  <2>2. Pending(c.of) /\ c.of \in Requests
    BY <2>1 DEF Pending, Waiting, Commands
  <2>3. CASE t = "cmd" /\ Sends({}, ToSet(s))
    BY <2>1, <2>2, <2>3, SendsMoves DEF Sends
  <2>4. CASE t # "cmd" /\ RecallsOther(s)
    BY <2>1, <2>2, <2>4, StartsMoves DEF RecallsOther, OtherIsFree
  <2>5. QED
    BY <2>1, <2>3, <2>4
<1>3. QED
  BY <1>1, <1>2 DEF LastCall

LEMMA LayerStepMoves ==
    ASSUME LayerInv(Requests),
           SendNext \/ SendNextFails \/ AddCommand \/ \E d \in air : IgnoreAnswer(d)
    PROVE  /\ LayerInv(Requests)' /\ Moves({}, {})
           /\ OtherIsFree => OtherIsFree'
<1>1. CASE SendNext
  <2>1. /\ LayerInv(Requests)' /\ adding = {} /\ todo # <<>>
        /\ commands' = commands /\ todo' = Tail(todo)
        /\ \E c : c.of = Head(todo) /\ adding' = {c}
        /\ \A d \in air' : d \in air \/ d.way = "request"
    BY <1>1, SendNextEffect
  <2>2. ToSet(todo) = {Head(todo)} \cup ToSet(todo')
    BY <2>1, ToSetHead DEF LayerInv
  <2>3. Moves({}, {})
    BY <2>1, <2>2 DEF Moves, Pending, Waiting
  <2>4. QED
    BY <2>1, <2>3 DEF OtherIsFree
<1>2. CASE AddCommand \/ \E d \in air : IgnoreAnswer(d)
  <2>1. /\ LayerInv(Requests)' /\ Waiting' = Waiting /\ todo' = todo /\ air' \subseteq air
        /\ adding = {} => adding' = {}
    BY <1>2, AddCommandEffect, IgnoreAnswerEffect DEF Waiting
  <2>2. Moves({}, {})
    BY <2>1 DEF Moves, Pending
  <2>3. QED
    BY <2>1, <2>2 DEF OtherIsFree
<1>3. CASE SendNextFails
  <2>1. /\ LayerInv(Requests)' /\ adding = {} /\ todo # <<>>
        /\ adding' = {} /\ todo' = Tail(todo) /\ air' = air
        /\ \E c : c.of = Head(todo) /\ commands' = commands \cup {c}
    BY <1>3, SendNextFailsEffect
  <2>2. ToSet(todo) = {Head(todo)} \cup ToSet(todo')
    BY <2>1, ToSetHead DEF LayerInv
  <2>3. Moves({}, {})
    BY <2>1, <2>2 DEF Moves, Pending, Waiting
  <2>4. QED
    BY <2>1, <2>3 DEF OtherIsFree
<1>4. QED
  BY <1>1, <1>2, <1>3
-----------------------------------------------------------------------------
LEMMA AskIsRequest ==
    /\ \A l \in Lidars, k \in Kinds : /\ Ask(l, k) \in Requests
                                      /\ Ask(l, k).lidar = l /\ Ask(l, k).kind = k
    /\ \A r \in Requests : r.lidar \in Lidars /\ r = Ask(r.lidar, r.kind)
    /\ \A l, m, j, k : Ask(l, j) = Ask(m, k) => l = m /\ j = k
    /\ {"FwType", "Cfg"} \cup Settings \cup Others \subseteq Kinds
  BY DEF Requests, Ask, Kinds

(* What a step keeps of what is known of the detected lidars.              *)
LEMMA FoundKept ==
    ASSUME ConfigInv, NEW gone, NEW rs, Moves(gone, rs),
           \A l \in Lidars : devices[l].found => devices'[l].found,
           \A r \in rs : r.kind \in {"FwType", "Cfg"} => devices'[r.lidar].found,
           \A l \in Lidars : devices'[l].fw # "unknown" \/ devices'[l].is_callback => devices'[l].found,
           (Awake("other") \/ OtherIsFree)'
    PROVE  FoundInv'
<1> HIDE DEF Requests
<1>1. Requests' = Requests
  BY DEF Requests
<1>2. ASSUME NEW r \in Requests, Pending(r)', r.kind \in {"FwType", "Cfg"}
      PROVE  devices'[r.lidar].found
  <2>1. r.lidar \in Lidars
    BY AskIsRequest
  <2>2. Pending(r) \/ r \in rs
    BY <1>2 DEF Moves
  <2>3. QED
    BY <1>2, <2>1, <2>2 DEF ConfigInv, FoundInv
<1>3. QED
  BY <1>1, <1>2 DEF FoundInv

(* A step of which the driver knows nothing but that a setting's request   *)
(* is sent again.                                                          *)
LEMMA AskedKept ==
    ASSUME ConfigInv, NEW gone, NEW rs, Moves(gone, rs),
           \A c \in gone : c.of.kind \in Settings => c.of \in rs,
           \A r \in rs : r.kind \in Settings => Pending(r),
           \A l \in Lidars : devices'[l].is_callback = devices[l].is_callback,
           UNCHANGED <<chosen, set_bits, connect_state, received, calls>>
    PROVE  \A l \in Lidars : CallbackInv(l)' /\ \A s \in Settings : AskedInv(l, s)'
<1> TAKE l \in Lidars
<1>1. CallbackInv(l)'
  BY DEF ConfigInv, CallbackInv, chosen
<1>2. ASSUME NEW s \in Settings PROVE AskedInv(l, s)'
  <2>1. Ask(l, s).kind = s
    BY AskIsRequest
  <2>2. AskedInv(l, s) /\ Wanted(l)' = Wanted(l)
    BY DEF ConfigInv, chosen, Wanted
  <2>3. Pending(Ask(l, s))' <=> Pending(Ask(l, s))
    <3>1. ASSUME Pending(Ask(l, s))' PROVE Pending(Ask(l, s))
      BY <2>1, <3>1 DEF Moves
    <3>2. ASSUME Pending(Ask(l, s)) PROVE Pending(Ask(l, s))'
      BY <2>1, <3>2 DEF Moves
    <3>3. QED
      BY <3>1, <3>2
  <2>4. \A d \in air' : d.way = "answer" => d \in air
    BY DEF Moves
  <2>5. Ask(l, s)' = Ask(l, s)
    OBVIOUS
  <2>6. QED
    BY <2>2, <2>3, <2>4 DEF AskedInv, chosen, Ask
<1>3. QED
  BY <1>1, <1>2

(* What a callback may do to the devices without the driver knowing.       *)
DevicesKept ==
    \A l \in Lidars :
        /\ devices[l].found => devices'[l].found
        /\ devices'[l].is_callback = devices[l].is_callback
        /\ devices'[l].fw # "unknown" => devices'[l].found

LEMMA CallbacksFound ==
    ASSUME ConfigInv, DevicesKept
    PROVE  /\ \A l \in Lidars : devices[l].found => devices'[l].found
           /\ \A l \in Lidars : devices'[l].fw # "unknown" \/ devices'[l].is_callback => devices'[l].found
           /\ \A l \in Lidars : devices'[l].is_callback = devices[l].is_callback
  BY DEF ConfigInv, FoundInv, DevicesKept

LEMMA DevicesSame == ASSUME ConfigInv, UNCHANGED devices PROVE DevicesKept
  BY DEF ConfigInv, FoundInv, DevicesKept

LEMMA QuietExpiry ==
    ASSUME ConfigInv, ValuesInv', DevicesKept,
           NEW t \in Threads, NEW c, NEW s \in Seq(Requests), Awake(t), LastCall(t, c, s),
           ToSet(s) \subseteq {c.of}, c.of.kind \in Settings => c.of \in ToSet(s),
           asleep'["other"] = asleep["other"] \/ (t = "other" /\ s = <<>>),
           UNCHANGED <<chosen, set_bits, connect_state, received, calls>>
    PROVE  ConfigInv'
<1>1. /\ LayerInv(Requests)' /\ c.of \in Requests /\ Pending(c.of)
      /\ \E gone \in SUBSET {c} : Moves(gone, ToSet(s))
      /\ \/ t = "cmd" /\ UNCHANGED <<adding, todo>>
         \/ t # "cmd" /\ adding' = {} /\ todo' = s
  BY LastCallMoves DEF ConfigInv
<1>2. (Awake("other") \/ OtherIsFree)'
  BY <1>1 DEF ConfigInv, FoundInv, Awake, OtherIsFree, Threads
<1>3. c.of.kind \in {"FwType", "Cfg"} => devices[c.of.lidar].found /\ c.of.lidar \in Lidars
  BY <1>1, AskIsRequest DEF ConfigInv, FoundInv
<1>4. \A r \in ToSet(s) : r.kind \in {"FwType", "Cfg"} => devices'[r.lidar].found
  BY <1>3, CallbacksFound
<1>5. FoundInv'
  BY <1>1, <1>2, <1>4, CallbacksFound, FoundKept
<1>6. \A l \in Lidars : CallbackInv(l)' /\ \A x \in Settings : AskedInv(l, x)'
  BY <1>1, CallbacksFound, AskedKept
<1>7. QED
  BY <1>1, <1>5, <1>6 DEF ConfigInv

LEMMA QuietAnswer ==
    ASSUME ConfigInv, ValuesInv', DevicesKept,
           NEW d, NEW rs \in SUBSET {d.cmd.of}, TakeAnswer(d, rs),
           d.cmd.of.kind \notin Settings,
           UNCHANGED <<chosen, driver>>
    PROVE  ConfigInv'
<1>1. d.cmd.of \in Requests
  BY DEF TakeAnswer, ConfigInv, LayerInv, Commands
<1>2. IsFiniteSet(rs) /\ rs \in SUBSET Requests
  <2>1. IsFiniteSet({d.cmd.of})
    BY FS_Singleton
  <2>2. QED
    BY <1>1, <2>1, FS_Subset
<1>3. /\ LayerInv(Requests)' /\ Pending(d.cmd.of)
      /\ Moves({d.cmd}, rs) /\ UNCHANGED <<adding, todo>>
  BY <1>2, AnswerMoves DEF ConfigInv
<1>4. (Awake("other") \/ OtherIsFree)'
  BY <1>3 DEF ConfigInv, FoundInv, Awake, OtherIsFree, driver
<1>5. d.cmd.of.kind \in {"FwType", "Cfg"} => devices[d.cmd.of.lidar].found /\ d.cmd.of.lidar \in Lidars
  BY <1>1, <1>3, AskIsRequest DEF ConfigInv, FoundInv
<1>6. \A r \in rs : r.kind \in {"FwType", "Cfg"} => devices'[r.lidar].found
  BY <1>5, CallbacksFound
<1>7. FoundInv'
  BY <1>3, <1>4, <1>6, CallbacksFound, FoundKept
<1>8. \A l \in Lidars : CallbackInv(l)' /\ \A x \in Settings : AskedInv(l, x)'
  BY <1>3, CallbacksFound, AskedKept DEF driver
<1>9. QED
  BY <1>3, <1>7, <1>8 DEF ConfigInv
-----------------------------------------------------------------------------
(* The callbacks of the requests for the firmware type, and those of the   *)
(* configuration, the settings and the other requests that repeat or drop  *)
(* their own request.                                                      *)
LEMMA TypedKeeps ==
    ASSUME ConfigInv, NEW l \in Lidars, Pending(QueryFwType(l)),
           NEW fw \in {"app", "loader"}, Typed(l, fw)
    PROVE  DevicesKept /\ devices' \in [Lidars -> Devices]
<1>1. QueryFwType(l) \in Requests /\ QueryFwType(l).lidar = l /\ QueryFwType(l).kind = "FwType"
  BY AskIsRequest DEF QueryFwType
<1>2. devices[l].found /\ devices \in [Lidars -> Devices]
  BY <1>1 DEF ConfigInv, FoundInv, ValuesInv
<1>3. devices' = [devices EXCEPT ![l].fw = fw]
  BY DEF Typed
<1>4. devices' \in [Lidars -> Devices]
  BY <1>2, <1>3 DEF Devices
<1>5. \A m \in Lidars : /\ devices'[m].found = devices[m].found
                        /\ devices'[m].is_callback = devices[m].is_callback
                        /\ m # l => devices'[m].fw = devices[m].fw
  BY <1>2, <1>3 DEF Devices
<1>6. QED
  BY <1>2, <1>4, <1>5 DEF DevicesKept, ConfigInv, FoundInv

LEMMA FwTypeAnsweredKeeps ==
    ASSUME ConfigInv, NEW l \in Lidars, NEW d, FwTypeAnswered(d, l)
    PROVE  ConfigInv'
<1>1. /\ d.cmd.of = QueryFwType(l) /\ QueryFwType(l).kind = "FwType"
      /\ "FwType" \notin Settings /\ UNCHANGED <<chosen, driver>>
  BY AskIsRequest, SettingsAssumption DEF FwTypeAnswered, QueryFwType
<1>2. Pending(QueryFwType(l))
  BY <1>1 DEF FwTypeAnswered, TakeAnswer, Pending, Waiting
<1>3. CASE \E fw \in {"app", "loader"} : Typed(l, fw) /\ count' = 0 /\ TakeAnswer(d, {})
  <2>1. DevicesKept /\ devices' \in [Lidars -> Devices]
    BY <1>2, <1>3, TypedKeeps
  <2>2. ValuesInv'
    BY <1>1, <1>3, <2>1, TryLimitAssumption DEF ConfigInv, ValuesInv, chosen, driver
  <2>3. QED
    BY <1>1, <1>3, <2>1, <2>2, QuietAnswer
<1>4. CASE ~GivesUp /\ count' = count + 1 /\ TakeAnswer(d, {QueryFwType(l)}) /\ UNCHANGED devices
  <2>1. ValuesInv'
    BY <1>1, <1>4, TryLimitAssumption DEF ConfigInv, ValuesInv, chosen, driver, GivesUp
  <2>2. QED
    BY <1>1, <1>4, <2>1, DevicesSame, QuietAnswer
<1>5. QED
  <2>1. (IF GivesUp THEN "app" ELSE firmware[l]) \in {"app", "loader"}
    BY DEF ConfigInv, ValuesInv
  <2>2. QED
    BY <1>3, <1>4, <2>1 DEF FwTypeAnswered

LEMMA FwTypeFails ==
    ASSUME ConfigInv, NEW l \in Lidars, NEW t \in Threads, NEW c,
           \/ FwTypeExpires(t, c, l)
           \/ \E u \in unsent : u.thread = t /\ u.cmd = c /\ FwTypeRefused(u, l)
    PROVE  /\ c.of = QueryFwType(l) /\ Awake(t) /\ UNCHANGED <<chosen, driver>>
           /\ \/ GivesUp /\ Typed(l, "app") /\ count' = 0 /\ LastCall(t, c, <<>>)
              \/ /\ ~GivesUp /\ count' = count + 1 /\ LastCall(t, c, <<QueryFwType(l)>>)
                 /\ UNCHANGED devices
<1>1. CASE FwTypeExpires(t, c, l)
  BY <1>1 DEF FwTypeExpires, LastCall, Ready
<1>2. CASE \E u \in unsent : u.thread = t /\ u.cmd = c /\ FwTypeRefused(u, l)
  BY <1>2 DEF FwTypeRefused, LastCall
<1>3. QED
  BY <1>1, <1>2

LEMMA FwTypeFailsKeeps ==
    ASSUME ConfigInv, NEW l \in Lidars, NEW t \in Threads, NEW c,
           \/ FwTypeExpires(t, c, l)
           \/ \E u \in unsent : u.thread = t /\ u.cmd = c /\ FwTypeRefused(u, l)
    PROVE  ConfigInv'
<1>1. /\ c.of = QueryFwType(l) /\ QueryFwType(l).kind = "FwType" /\ QueryFwType(l) \in Requests
      /\ "FwType" \notin Settings /\ Awake(t) /\ UNCHANGED <<chosen, driver>>
  <2>1. c.of = QueryFwType(l) /\ Awake(t) /\ UNCHANGED <<chosen, driver>>
    BY FwTypeFails
  <2>2. /\ QueryFwType(l).kind = "FwType" /\ QueryFwType(l) \in Requests
        /\ "FwType" \notin Settings
    BY AskIsRequest, SettingsAssumption DEF QueryFwType
  <2>3. QED
    BY <2>1, <2>2
<1>2. Pending(QueryFwType(l))
  <2>1. LastCall(t, c, <<>>) \/ LastCall(t, c, <<QueryFwType(l)>>)
    BY FwTypeFails
  <2>2. <<>> \in Seq(Requests) /\ <<QueryFwType(l)>> \in Seq(Requests)
    BY <1>1
  <2>3. QED
    BY <1>1, <2>1, <2>2, LastCallMoves DEF ConfigInv
<1>3. CASE Typed(l, "app") /\ count' = 0 /\ LastCall(t, c, <<>>)
  <2>1. DevicesKept /\ devices' \in [Lidars -> Devices]
    BY <1>2, <1>3, TypedKeeps
  <2>2. ValuesInv'
    BY <1>1, <1>3, <2>1, TryLimitAssumption DEF ConfigInv, ValuesInv, chosen, driver
  <2>3. <<>> \in Seq(Requests) /\ ToSet(<<>>) = {}
    BY ToSetOne
  <2>4. QED
    BY <1>1, <1>3, <2>1, <2>2, <2>3, QuietExpiry DEF driver
<1>4. CASE ~GivesUp /\ count' = count + 1 /\ LastCall(t, c, <<QueryFwType(l)>>) /\ UNCHANGED devices
  <2>1. ValuesInv'
    BY <1>1, <1>4, TryLimitAssumption DEF ConfigInv, ValuesInv, chosen, driver, GivesUp
  <2>2. <<QueryFwType(l)>> \in Seq(Requests)
    BY <1>1
  <2>3. QED
    BY <1>1, <1>4, <2>1, <2>2, ToSetOne, DevicesSame, QuietExpiry DEF driver
<1>5. QED
  BY <1>3, <1>4, FwTypeFails

(* A callback that changes nothing but what is sent.                       *)
LEMMA ValuesKept ==
    ASSUME ConfigInv, UNCHANGED <<chosen, devices, count, driver>>
    PROVE  ValuesInv'
  BY DEF ConfigInv, ValuesInv, chosen, driver

LEMMA PlainExpiry ==
    ASSUME ConfigInv, NEW l \in Lidars, NEW t \in Threads, NEW c,
           \/ CfgExpires(t, c, l)
           \/ \E s \in Settings : SettingExpires(t, c, l, s)
           \/ AttitudeExpires(t, c, l)
           \/ ImuExpires(t, c, l)
    PROVE  ConfigInv'
<1>1. Awake(t) /\ UNCHANGED <<chosen, devices, count, driver>>
  BY DEF CfgExpires, SettingExpires, AttitudeExpires, ImuExpires, Ready
<1>2. ValuesInv' /\ DevicesKept
  BY <1>1, ValuesKept, DevicesSame
<1>3. CASE CfgExpires(t, c, l) \/ ImuExpires(t, c, l)
  <2>1. c.of.kind \notin Settings /\ LastCall(t, c, <<>>)
    BY <1>3, AskIsRequest, SettingsAssumption DEF CfgExpires, ImuExpires, Others, Kinds, LastCall
  <2>2. <<>> \in Seq(Requests) /\ ToSet(<<>>) = {}
    BY ToSetOne
  <2>3. QED
    BY <1>1, <1>2, <2>1, <2>2, QuietExpiry DEF driver
<1>4. CASE (\E s \in Settings : SettingExpires(t, c, l, s)) \/ AttitudeExpires(t, c, l)
  <2>1. c.of \in Requests /\ LastCall(t, c, <<c.of>>)
    <3>1. CASE \E s \in Settings : SettingExpires(t, c, l, s)
      BY <3>1, AskIsRequest DEF SettingExpires, LastCall
    <3>2. CASE AttitudeExpires(t, c, l)
      BY <3>2, AskIsRequest DEF AttitudeExpires, Others, LastCall
    <3>3. QED
      BY <1>4, <3>1, <3>2
  <2>2. <<c.of>> \in Seq(Requests) /\ ToSet(<<c.of>>) = {c.of}
    BY <2>1, ToSetOne
  <2>3. QED
    BY <1>1, <1>2, <2>1, <2>2, QuietExpiry DEF driver
<1>5. QED
  BY <1>3, <1>4

LEMMA WorkModeFails ==
    ASSUME NEW l \in Lidars, NEW t \in Threads, NEW c,
           \/ WorkModeExpires(t, c, l)
           \/ \E u \in unsent : u.thread = t /\ u.cmd = c /\ WorkModeRefused(u, l)
    PROVE  /\ c.of = Ask(l, "WorkMode") /\ LastCall(t, c, <<>>) /\ Awake(t)
           /\ t = "other" => OtherIsFree
           /\ asleep' = [asleep EXCEPT ![t] = {l}]
           /\ UNCHANGED <<chosen, devices, count, set_bits, connect_state, received, calls>>
<1>1. CASE WorkModeExpires(t, c, l)
  BY <1>1 DEF WorkModeExpires, LastCall, Ready
<1>2. CASE \E u \in unsent : u.thread = t /\ u.cmd = c /\ WorkModeRefused(u, l)
  BY <1>2 DEF WorkModeRefused, LastCall, Recall
<1>3. QED
  BY <1>1, <1>2

LEMMA WorkModeFailsKeeps ==
    ASSUME ConfigInv, NEW l \in Lidars, NEW t \in Threads, NEW c,
           \/ WorkModeExpires(t, c, l)
           \/ \E u \in unsent : u.thread = t /\ u.cmd = c /\ WorkModeRefused(u, l)
    PROVE  ConfigInv'
<1>1. /\ c.of.kind \notin Settings /\ LastCall(t, c, <<>>) /\ Awake(t)
      /\ asleep' = [asleep EXCEPT ![t] = {l}]
      /\ UNCHANGED <<chosen, devices, count, set_bits, connect_state, received, calls>>
  BY WorkModeFails, AskIsRequest, SettingsAssumption DEF Others, Kinds
<1>2. ValuesInv'
  BY <1>1 DEF ConfigInv, ValuesInv, chosen
<1>3. asleep'["other"] = asleep["other"] \/ t = "other"
  BY <1>1 DEF ConfigInv, ValuesInv, Threads
<1>4. <<>> \in Seq(Requests) /\ ToSet(<<>>) = {}
  BY ToSetOne
<1>5. QED
  BY <1>1, <1>2, <1>3, <1>4, DevicesSame, QuietExpiry

LEMMA OtherAnsweredKeeps ==
    ASSUME ConfigInv, NEW l \in Lidars, NEW d, OtherAnswered(d, l)
    PROVE  ConfigInv'
<1>1. followed \notin Settings /\ followed \in Kinds
  BY SettingsAssumption DEF ConfigInv, ValuesInv, Others, Kinds
<1>2. /\ d.cmd.of.kind \notin Settings /\ TakeAnswer(d, {})
      /\ UNCHANGED <<chosen, devices, count, driver>>
  BY <1>1, AskIsRequest DEF OtherAnswered
<1>3. QED
  BY <1>2, ValuesKept, DevicesSame, QuietAnswer
-----------------------------------------------------------------------------
(* Steps outside the callbacks: the retry after a sleep, detections, the   *)
(* layer, the lidar.                                                       *)
LEMMA QuietSend ==
    ASSUME ConfigInv, ValuesInv', LayerInv(Requests)', NEW rs \in SUBSET Requests, Moves({}, rs),
           \A r \in rs : r.kind \notin Settings /\ (r.kind \in {"FwType", "Cfg"} => devices'[r.lidar].found),
           (Awake("other") \/ OtherIsFree)', DevicesKept,
           UNCHANGED <<chosen, set_bits, connect_state, received, calls>>
    PROVE  ConfigInv'
<1>1. FoundInv'
  BY CallbacksFound, FoundKept
<1>2. \A l \in Lidars : CallbackInv(l)' /\ \A x \in Settings : AskedInv(l, x)'
  BY CallbacksFound, AskedKept
<1>3. QED
  BY <1>1, <1>2 DEF ConfigInv

LEMMA WakeUpKeeps ==
    ASSUME ConfigInv, NEW l \in Lidars, NEW t \in Threads, WakeUp(t, l)
    PROVE  ConfigInv'
<1> DEFINE r == Ask(l, "WorkMode")
<1>1. r \in Requests /\ r.kind = "WorkMode" /\ "WorkMode" \notin Settings
  BY AskIsRequest, SettingsAssumption DEF Others
<1>2. /\ asleep[t] # {} /\ asleep' = [asleep EXCEPT ![t] = {}]
      /\ UNCHANGED <<chosen, devices, count, set_bits, connect_state, received, calls>>
  BY DEF WakeUp
<1>3. ValuesInv' /\ DevicesKept
  BY <1>2, DevicesSame DEF ConfigInv, ValuesInv, chosen
<1> HIDE DEF r
<1>4. LayerInv(Requests)' /\ Moves({}, {r}) /\ (Awake("other") \/ OtherIsFree)'
  <2>1. CASE t = "cmd"
    <3>1. SendFromCmd({}, {r})
      BY <2>1 DEF WakeUp, r
    <3>2. LayerInv(Requests)' /\ Moves({}, {r}) /\ UNCHANGED <<adding, todo>>
      BY <1>1, <3>1, SendMoves DEF ConfigInv
    <3>3. asleep'["other"] = asleep["other"]
      BY <1>2, <2>1 DEF ConfigInv, ValuesInv, Threads
    <3>4. QED
      BY <3>2, <3>3 DEF ConfigInv, FoundInv, Awake, OtherIsFree
  <2>2. CASE t = "other"
    <3>1. OtherIsFree /\ todo' = <<r>> /\ UNCHANGED <<commands, adding, air, sending>>
      BY <1>2, <2>2 DEF WakeUp, r, ConfigInv, FoundInv, Awake
    <3>2. <<r>> \in Seq(Requests) /\ ToSet(<<r>>) = {r}
      BY <1>1, ToSetOne
    <3>3. LayerInv(Requests)' /\ Moves({}, {r})
      BY <3>1, <3>2, StartsMoves DEF ConfigInv
    <3>4. Awake("other")'
      BY <1>2, <2>2 DEF ConfigInv, ValuesInv, Awake, Threads
    <3>5. QED
      BY <3>3, <3>4
  <2>3. QED
    BY <2>1, <2>2 DEF Threads
<1>5. QED
  BY <1>1, <1>2, <1>3, <1>4, QuietSend

LEMMA DetectNewKeeps ==
    ASSUME ConfigInv, NEW l \in Lidars, DetectNew(l)
    PROVE  ConfigInv'
<1> DEFINE r == QueryFwType(l)
<1>1. /\ r \in Requests /\ r.kind = "FwType" /\ r.lidar = l /\ "FwType" \notin Settings
      /\ <<r>> \in Seq(Requests) /\ ToSet(<<r>>) = {r}
  BY AskIsRequest, SettingsAssumption, ToSetOne DEF QueryFwType
<1>2. /\ OtherIsFree /\ Awake("other") /\ ~devices[l].found /\ todo' = <<r>>
      /\ devices' = [devices EXCEPT ![l] = [NoDevice EXCEPT !.found = TRUE]]
      /\ UNCHANGED <<commands, adding, air, sending, chosen, count, driver>>
  BY DEF DetectNew, DetectionIsFree, Ready
<1> HIDE DEF r
<1>3. LayerInv(Requests)' /\ Moves({}, {r})
  BY <1>1, <1>2, StartsMoves DEF ConfigInv
<1>4. /\ devices \in [Lidars -> Devices]
      /\ ~devices[l].is_callback
  BY <1>2 DEF ConfigInv, ValuesInv, FoundInv
<1>5. [NoDevice EXCEPT !.found = TRUE] \in Devices
  BY DEF NoDevice, Devices
<1>6. devices' \in [Lidars -> Devices]
  BY <1>2, <1>4, <1>5
<1>7. /\ devices'[l].found /\ ~devices'[l].is_callback
      /\ \A m \in Lidars : m # l => devices'[m] = devices[m]
  BY <1>2, <1>4 DEF NoDevice
<1>8. devices[l].is_callback \in BOOLEAN /\ devices'[l].is_callback \in BOOLEAN
  BY <1>4, <1>6 DEF Devices
<1>9. DevicesKept
  BY <1>4, <1>7, <1>8 DEF DevicesKept, ConfigInv, FoundInv
<1>10. ValuesInv'
  BY <1>2, <1>6 DEF ConfigInv, ValuesInv, chosen, driver
<1>11. QED
  BY <1>1, <1>2, <1>3, <1>7, <1>9, <1>10, QuietSend DEF driver, Awake

LEMMA DetectKnownKeeps ==
    ASSUME ConfigInv, NEW l \in Lidars, DetectKnown(l)
    PROVE  ConfigInv'
<1> DEFINE r == Ask(l, "Cfg")
<1>1. /\ r \in Requests /\ r.kind = "Cfg" /\ r.lidar = l /\ "Cfg" \notin Settings
  BY AskIsRequest, SettingsAssumption
<1>2. /\ OtherIsFree /\ Awake("other") /\ devices[l].fw # "unknown" /\ SendFromCmd({}, {r})
      /\ UNCHANGED <<chosen, devices, count, driver>>
  BY DEF DetectKnown, DetectionIsFree, Ready, SetCustomLidar, SendKnown
<1> HIDE DEF r
<1>3. LayerInv(Requests)' /\ Moves({}, {r}) /\ UNCHANGED <<adding, todo>>
  BY <1>1, <1>2, SendMoves DEF ConfigInv
<1>4. devices'[l].found
  BY <1>2 DEF ConfigInv, FoundInv
<1>5. QED
  BY <1>1, <1>2, <1>3, <1>4, ValuesKept, DevicesSame, QuietSend DEF driver, Awake

LEMMA LayerStepKeeps ==
    ASSUME ConfigInv, LayerStep
    PROVE  ConfigInv'
<1>1. /\ LayerInv(Requests)' /\ Moves({}, {}) /\ (OtherIsFree => OtherIsFree')
      /\ UNCHANGED <<chosen, devices, count, driver>>
  BY LayerStepMoves DEF ConfigInv, LayerStep
<1>2. (Awake("other") \/ OtherIsFree)'
  BY <1>1 DEF ConfigInv, FoundInv, Awake, driver
<1>3. QED
  BY <1>1, <1>2, ValuesKept, DevicesSame, QuietSend DEF driver
-----------------------------------------------------------------------------
(* No request is in a sequence twice.                                      *)
OnceIn(s, r) == \A i, j \in DOMAIN s : s[i] = r /\ s[j] = r => i = j

(* The driver is called: its script asks for exactly the settings wanted,  *)
(* and for each of them once.                                              *)
LEMMA ScriptSends ==
    ASSUME ConfigInv, NEW l \in Lidars
    PROVE  /\ Script(l) \in Seq(Requests)
           /\ \A r \in ToSet(Script(l)) : r.lidar = l /\ r.kind \in Settings \cup Others
           /\ \A r \in ToSet(Script(l)) : r.kind \in Settings \/ r = Ask(l, followed)
           /\ \A s \in Wanted(l) : Ask(l, s) \in ToSet(Script(l))
           /\ \A m \in Lidars : \A s \in Settings :
                 Ask(m, s) \in ToSet(Script(l)) => m = l /\ s \in Wanted(l)
           /\ \A r : OnceIn(Script(l), r)
<1> DEFINE other == IF followed = "Attitude" /\ l \notin listed THEN {} ELSE {Ask(l, followed)}
           asks == {Ask(l, s) : s \in Wanted(l)}
<1>1. Wanted(l) \subseteq Settings /\ followed \in Others
  BY DEF ConfigInv, ValuesInv, Wanted
<1>2. asks \subseteq Requests /\ other \subseteq Requests
  BY <1>1, AskIsRequest
<1>3. IsFiniteSet(asks)
  <2> DEFINE f == [s \in Wanted(l) |-> Ask(l, s)]
  <2>1. f \in Surjection(Wanted(l), asks)
    BY DEF Surjection
  <2>2. IsFiniteSet(Wanted(l))
    BY <1>1, SettingsAssumption, FS_Subset
  <2> HIDE DEF f, asks
  <2>3. QED
    BY <2>1, <2>2, FS_Surjection
<1>4. IsFiniteSet(other)
  <2>1. CASE other = {}
    BY <2>1, FS_EmptySet
  <2>2. CASE other = {Ask(l, followed)}
    BY <2>2, FS_Singleton
  <2>3. QED
    BY <2>1, <2>2
<1>5. Script(l) = SetToSeq(asks) \o SetToSeq(other)
  BY DEF Script
<1>6. /\ \A r \in asks : \E s \in Wanted(l) : r = Ask(l, s)
      /\ \A s \in Wanted(l) : Ask(l, s) \in asks
      /\ \A r \in other : r = Ask(l, followed)
  OBVIOUS
<1> HIDE DEF asks, other
<1>7. /\ SetToSeq(asks) \in Seq(asks) /\ ToSet(SetToSeq(asks)) = asks
      /\ SetToSeq(other) \in Seq(other) /\ ToSet(SetToSeq(other)) = other
      /\ \A i, j \in DOMAIN SetToSeq(asks) : SetToSeq(asks)[i] = SetToSeq(asks)[j] => i = j
      /\ \A i, j \in DOMAIN SetToSeq(other) : SetToSeq(other)[i] = SetToSeq(other)[j] => i = j
  BY <1>3, <1>4, SeqOfSet
<1>8. SetToSeq(asks) \in Seq(Requests) /\ SetToSeq(other) \in Seq(Requests)
  BY <1>2, <1>7
<1>9. Script(l) \in Seq(Requests) /\ ToSet(Script(l)) = asks \cup other
  BY <1>5, <1>7, <1>8, ToSetConcat
<1>10. \A r \in ToSet(Script(l)) : r.lidar = l /\ r.kind \in Settings \cup Others
  BY <1>1, <1>6, <1>9, AskIsRequest
<1>11. ASSUME NEW m \in Lidars, NEW s \in Settings, Ask(m, s) \in ToSet(Script(l))
       PROVE  m = l /\ s \in Wanted(l)
  <2>1. followed \notin Settings
    BY <1>1, SettingsAssumption DEF Others
  <2>2. QED
    BY <1>6, <1>9, <1>11, <2>1, AskIsRequest
<1>12. ASSUME NEW r PROVE OnceIn(Script(l), r)
  <2> DEFINE s == SetToSeq(asks)
             t == SetToSeq(other)
  <2>1. ~(r \in asks /\ r \in other)
    BY <1>1, <1>6, SettingsAssumption, AskIsRequest DEF Others
  <2> HIDE DEF s, t
  <2>2. /\ Len(s) \in Nat /\ DOMAIN s = 1 .. Len(s) /\ \A i \in DOMAIN s : s[i] \in asks
        /\ Len(t) \in Nat /\ DOMAIN t = 1 .. Len(t) /\ \A i \in DOMAIN t : t[i] \in other
        /\ \A i, j \in DOMAIN s : s[i] = s[j] => i = j
        /\ \A i, j \in DOMAIN t : t[i] = t[j] => i = j
    BY <1>7 DEF s, t
  <2>3. s \in Seq(Requests) /\ t \in Seq(Requests)
    BY <1>8 DEF s, t
  <2>4. /\ DOMAIN (s \o t) = 1 .. Len(s) + Len(t)
        /\ \A i \in DOMAIN (s \o t) : (s \o t)[i] = IF i <= Len(s) THEN s[i] ELSE t[i - Len(s)]
    BY <2>3
  <2>5. ASSUME NEW i \in DOMAIN (s \o t), NEW j \in DOMAIN (s \o t), (s \o t)[i] = r, (s \o t)[j] = r
        PROVE  i = j
    <3>1. CASE i <= Len(s) /\ j <= Len(s)
      BY <2>2, <2>4, <2>5, <3>1
    <3>2. CASE i > Len(s) /\ j > Len(s)
      <4>1. i - Len(s) \in DOMAIN t /\ j - Len(s) \in DOMAIN t
        BY <2>2, <2>4, <3>2
      <4>2. i - Len(s) = j - Len(s)
        BY <2>2, <2>4, <2>5, <3>2, <4>1
      <4>3. QED
        BY <2>2, <2>4, <4>2
    <3>3. CASE i <= Len(s) /\ j > Len(s)
      <4>1. i \in DOMAIN s /\ j - Len(s) \in DOMAIN t
        BY <2>2, <2>4, <3>3
      <4>2. QED
        BY <2>1, <2>2, <2>4, <2>5, <3>3, <4>1
    <3>4. CASE i > Len(s) /\ j <= Len(s)
      <4>1. j \in DOMAIN s /\ i - Len(s) \in DOMAIN t
        BY <2>2, <2>4, <3>4
      <4>2. QED
        BY <2>1, <2>2, <2>4, <2>5, <3>4, <4>1
    <3>5. QED
      BY <2>2, <2>4, <3>1, <3>2, <3>3, <3>4
  <2>6. Script(l) = s \o t
    BY <1>5 DEF s, t
  <2>7. QED
    BY <2>5, <2>6 DEF OnceIn
<1>13. \A r \in ToSet(Script(l)) : r.kind \in Settings \/ r = Ask(l, followed)
  <2>1. \A s \in Wanted(l) : Ask(l, s).kind = s
    BY <1>1, AskIsRequest
  <2>2. QED
    BY <1>1, <1>6, <1>9, <2>1
<1>14. QED
  BY <1>6, <1>9, <1>10, <1>11, <1>12, <1>13

LEMMA InfoChangeKeeps ==
    ASSUME ConfigInv, NEW l \in Lidars, devices[l].found, InfoChange(l),
           LayerInv(Requests)', NEW gone, Moves(gone, ToSet(Called(l))),
           \A c \in gone : c.of.kind \notin Settings,
           (Awake("other") \/ OtherIsFree)', UNCHANGED <<chosen, count>>
    PROVE  ConfigInv'
<1>1. /\ devices' = [devices EXCEPT ![l].is_update_cfg = TRUE, ![l].is_callback = TRUE]
      /\ devices \in [Lidars -> Devices]
      /\ UNCHANGED <<connect_state, asleep, received>>
  BY DEF InfoChange, ConfigInv, ValuesInv
<1>2. devices' \in [Lidars -> Devices]
  BY <1>1 DEF Devices
<1>3. \A m \in Lidars : /\ devices'[m].found = devices[m].found
                        /\ devices'[m].fw = devices[m].fw
                        /\ m # l => devices'[m].is_callback = devices[m].is_callback
  BY <1>1 DEF Devices
<1>4. devices'[l].is_callback /\ devices[l].is_callback \in BOOLEAN
  BY <1>1 DEF Devices
<1>5. \A r \in ToSet(Called(l)) : r.kind \notin {"FwType", "Cfg"}
  BY ScriptSends, ToSetOne, SettingsAssumption DEF Called, Others
<1>6. FoundInv'
  <2>1. \A m \in Lidars : devices'[m].fw # "unknown" \/ devices'[m].is_callback => devices'[m].found
    BY <1>3 DEF ConfigInv, FoundInv
  <2>2. QED
    BY <1>3, <1>5, <2>1, FoundKept
<1>7. CASE devices[l].is_callback
  <2>1. UNCHANGED <<set_bits, calls>> /\ ToSet(Called(l)) = {}
    BY <1>7, ToSetOne DEF InfoChange, Called
  <2>2. ValuesInv'
    BY <1>1, <1>2, <2>1 DEF ConfigInv, ValuesInv, chosen
  <2>3. \A m \in Lidars : devices'[m].is_callback = devices[m].is_callback
    BY <1>3, <1>4, <1>7, <1>1
  <2>4. \A m \in Lidars : CallbackInv(m)' /\ \A s \in Settings : AskedInv(m, s)'
    BY <1>1, <2>1, <2>3, AskedKept
  <2>5. QED
    BY <1>6, <2>2, <2>4 DEF ConfigInv
<1>8. CASE ~devices[l].is_callback
  <2>1. /\ set_bits' = [set_bits EXCEPT ![l] = @ \cup Wanted(l)]
        /\ calls' = [calls EXCEPT ![l] = IF @ < 2 THEN @ + 1 ELSE @]
        /\ calls[l] = 0 /\ Called(l) = Script(l)
    BY <1>8 DEF InfoChange, ConfigInv, CallbackInv, Called
  <2>2. Wanted(l) \subseteq Settings /\ \A m : Wanted(m)' = Wanted(m)
    BY DEF ConfigInv, ValuesInv, Wanted, chosen
  <2>3. calls' \in [Lidars -> 0 .. 1] /\ set_bits' \in [Lidars -> SUBSET Settings]
    BY <2>1, <2>2 DEF ConfigInv, ValuesInv
  <2>4. ValuesInv'
    BY <1>1, <1>2, <2>3 DEF ConfigInv, ValuesInv, chosen
  <2>5. \A m \in Lidars : set_bits'[m] = IF m = l THEN set_bits[l] \cup Wanted(l) ELSE set_bits[m]
    BY <2>1 DEF ConfigInv, ValuesInv
  <2>6. \A m \in Lidars : m # l => calls'[m] = calls[m]
    BY <2>1 DEF ConfigInv, ValuesInv
  <2>7. ASSUME NEW m \in Lidars PROVE CallbackInv(m)'
    <3>1. CallbackInv(m) /\ listed' = listed
      BY DEF ConfigInv, chosen
    <3>2. CASE m = l
      BY <1>1, <1>4, <1>8, <3>1, <3>2 DEF CallbackInv
    <3>3. CASE m # l
      BY <1>1, <1>3, <2>5, <2>6, <3>1, <3>3 DEF CallbackInv
    <3>4. QED
      BY <3>2, <3>3
  <2>8. ASSUME NEW m \in Lidars, NEW s \in Settings PROVE AskedInv(m, s)'
    <3>1. Ask(m, s).kind = s /\ AskedInv(m, s)
      BY AskIsRequest DEF ConfigInv
    <3>2. /\ Pending(Ask(m, s)) => Pending(Ask(m, s))'
          /\ Pending(Ask(m, s))' => Pending(Ask(m, s)) \/ (m = l /\ s \in Wanted(l))
          /\ m = l /\ s \in Wanted(l) => Pending(Ask(m, s))'
          /\ \A d \in air' : d.way = "answer" => d \in air
      <4>1. Pending(Ask(m, s)) => Pending(Ask(m, s))'
        BY <3>1 DEF Moves
      <4>2. Pending(Ask(m, s))' => Pending(Ask(m, s)) \/ (m = l /\ s \in Wanted(l))
        BY <2>1, ScriptSends DEF Moves
      <4>3. m = l /\ s \in Wanted(l) => Pending(Ask(m, s))'
        BY <2>1, ScriptSends DEF Moves
      <4>4. QED
        BY <4>1, <4>2, <4>3 DEF Moves
    <3>3. CASE m = l
      <4>1. ~Pending(Ask(m, s))
        BY <1>8, <3>1, <3>3 DEF AskedInv
      <4>2. QED
        BY <1>1, <1>4, <2>2, <2>5, <3>1, <3>2, <3>3, <4>1 DEF AskedInv, Ask
    <3>4. CASE m # l
      BY <1>1, <1>3, <2>2, <2>5, <3>1, <3>2, <3>4 DEF AskedInv, Ask
    <3>5. QED
      BY <3>3, <3>4
  <2>9. QED
    BY <1>6, <2>4, <2>7, <2>8 DEF ConfigInv
<1>9. QED
  BY <1>7, <1>8

LEMMA DetectLoaderKeeps ==
    ASSUME ConfigInv, NEW l \in Lidars, DetectLoader(l)
    PROVE  ConfigInv'
<1>1. /\ OtherIsFree /\ Awake("other") /\ devices[l].fw = "loader" /\ InfoChange(l)
      /\ todo' = Called(l)
      /\ UNCHANGED <<commands, adding, air, sending, chosen, count>>
  BY DEF DetectLoader, DetectionIsFree, Ready
<1>2. Called(l) \in Seq(Requests)
  BY ScriptSends DEF Called
<1>3. LayerInv(Requests)' /\ Moves({}, ToSet(Called(l)))
  BY <1>1, <1>2, StartsMoves DEF ConfigInv
<1>4. devices[l].found
  BY <1>1 DEF ConfigInv, FoundInv
<1>5. Awake("other")'
  BY <1>1 DEF InfoChange, Awake
<1>6. QED
  BY <1>1, <1>3, <1>4, <1>5, InfoChangeKeeps

LEMMA CfgAnsweredKeeps ==
    ASSUME ConfigInv, NEW l \in Lidars, NEW d, CfgAnswered(d, l)
    PROVE  ConfigInv'
<1>1. /\ d.cmd.of = Ask(l, "Cfg") /\ Ask(l, "Cfg").kind = "Cfg" /\ Ask(l, "Cfg").lidar = l
      /\ "Cfg" \notin Settings /\ UNCHANGED <<chosen, count>>
  BY AskIsRequest, SettingsAssumption DEF CfgAnswered
<1>2. CASE InfoChange(l) /\ TakeAnswer(d, ToSet(Called(l)))
  <2>1. Called(l) \in Seq(Requests)
    BY ScriptSends DEF Called
  <2>2. ToSet(Called(l)) \in SUBSET Requests /\ IsFiniteSet(ToSet(Called(l)))
    BY <2>1, ToSetType
  <2>3. /\ LayerInv(Requests)' /\ d.cmd.of \in Requests /\ Pending(d.cmd.of)
        /\ Moves({d.cmd}, ToSet(Called(l))) /\ UNCHANGED <<adding, todo>>
    BY <1>2, <2>2, AnswerMoves DEF ConfigInv
  <2>4. devices[l].found
    BY <1>1, <2>3 DEF ConfigInv, FoundInv
  <2>5. (Awake("other") \/ OtherIsFree)'
    BY <1>2, <2>3 DEF InfoChange, ConfigInv, FoundInv, Awake, OtherIsFree
  <2>6. QED
    BY <1>1, <1>2, <2>3, <2>4, <2>5, InfoChangeKeeps
<1>3. CASE TakeAnswer(d, {}) /\ UNCHANGED <<devices, driver>>
  BY <1>1, <1>3, ValuesKept, DevicesSame, QuietAnswer
<1>4. QED
  BY <1>2, <1>3 DEF CfgAnswered

(* The answer to a setting clears its bit; the last one lets the data      *)
(* through.                                                                *)
LEMMA SettingAnsweredKeeps ==
    ASSUME ConfigInv, NEW l \in Lidars, NEW s \in Settings, NEW d, SettingAnswered(d, l, s)
    PROVE  ConfigInv'
<1>1. /\ d.cmd.of = Ask(l, s) /\ TakeAnswer(d, {})
      /\ set_bits' = [set_bits EXCEPT ![l] = set_bits[l] \ {s}]
      /\ connect_state' = [connect_state EXCEPT ![l] = IF set_bits[l] \ {s} = {} THEN "Sampling" ELSE @]
      /\ UNCHANGED <<chosen, devices, count, asleep, received, calls>>
  BY DEF SettingAnswered, Cleared
<1>2. /\ LayerInv(Requests)' /\ Pending(Ask(l, s)) /\ d \in air /\ d.way = "answer"
      /\ Moves({d.cmd}, {}) /\ UNCHANGED <<adding, todo>>
  BY <1>1, FS_EmptySet, AnswerMoves DEF ConfigInv
<1>3. /\ s \in Wanted(l) /\ devices[l].is_callback /\ l \in listed /\ s \in received[l]
  <2>1. AskedInv(l, s)
    BY DEF ConfigInv
  <2>2. QED
    BY <1>1, <1>2, <2>1 DEF AskedInv, Wanted
<1>4. ValuesInv'
  BY <1>1 DEF ConfigInv, ValuesInv, chosen
<1>5. FoundInv'
  <2>1. (Awake("other") \/ OtherIsFree)'
    BY <1>1, <1>2 DEF ConfigInv, FoundInv, Awake, OtherIsFree
  <2>2. QED
    BY <1>1, <1>2, <2>1, DevicesSame, CallbacksFound, FoundKept
<1>6. \A m \in Lidars : set_bits'[m] = IF m = l THEN set_bits[l] \ {s} ELSE set_bits[m]
  BY <1>1 DEF ConfigInv, ValuesInv
<1>7. ASSUME NEW m \in Lidars PROVE CallbackInv(m)'
  <2>1. CallbackInv(m)
    BY DEF ConfigInv
  <2>2. m # l => connect_state'[m] = connect_state[m]
    BY <1>1 DEF ConfigInv, ValuesInv
  <2>3. connect_state'[l] = IF set_bits[l] \ {s} = {} THEN "Sampling" ELSE connect_state[l]
    BY <1>1 DEF ConfigInv, ValuesInv
  <2>4. CASE m = l
    BY <1>1, <1>3, <1>6, <2>1, <2>3, <2>4 DEF CallbackInv, chosen
  <2>5. CASE m # l
    BY <1>1, <1>6, <2>1, <2>2, <2>5 DEF CallbackInv, chosen
  <2>6. QED
    BY <2>4, <2>5
<1>8. ASSUME NEW m \in Lidars, NEW x \in Settings PROVE AskedInv(m, x)'
  <2>1. AskedInv(m, x) /\ Wanted(m)' = Wanted(m)
    BY <1>1 DEF ConfigInv, chosen, Wanted
  <2>2. /\ Pending(Ask(m, x))' => Pending(Ask(m, x))
        /\ m # l \/ x # s => (Pending(Ask(m, x)) => Pending(Ask(m, x))')
        /\ \A e \in air' : e.way = "answer" => e \in air
    <3>1. m # l \/ x # s => Ask(m, x) # d.cmd.of
      BY <1>1, AskIsRequest
    <3>2. QED
      BY <1>2, <3>1 DEF Moves
  <2>3. CASE m = l /\ x = s
    BY <1>1, <1>3, <1>6, <2>1, <2>2, <2>3 DEF AskedInv, Ask
  <2>4. CASE m # l \/ x # s
    BY <1>1, <1>6, <2>1, <2>2, <2>4 DEF AskedInv, Ask
  <2>5. QED
    BY <2>3, <2>4
<1>9. QED
  BY <1>2, <1>4, <1>5, <1>7, <1>8 DEF ConfigInv

LEMMA LidarReadsKeeps ==
    ASSUME ConfigInv, NEW d, NEW ret, LidarReads(d, ret)
    PROVE  ConfigInv'
<1>1. /\ LidarAnswers(d, ret)
      /\ received' = [received EXCEPT ![d.cmd.of.lidar] = @ \cup ({d.cmd.of.kind} \cap Settings)]
      /\ UNCHANGED <<chosen, devices, count, set_bits, connect_state, asleep, calls>>
  BY DEF LidarReads
<1>2. /\ LayerInv(Requests)' /\ d \in air /\ d.cmd \in Waiting
      /\ air' = (air \ {d}) \cup {Answer(d.cmd, ret)}
      /\ UNCHANGED <<commands, adding, todo>>
  BY <1>1, LidarAnswersEffect DEF ConfigInv
<1>3. d.cmd.of \in Requests /\ d.cmd.of.lidar \in Lidars
  BY <1>2, AskIsRequest DEF ConfigInv, LayerInv, Commands, Waiting
<1>4. ValuesInv'
  BY <1>1, <1>3 DEF ConfigInv, ValuesInv, chosen
<1>5. \A r : Pending(r)' <=> Pending(r)
  BY <1>2 DEF Pending, Waiting
<1>6. FoundInv'
  <2> HIDE DEF Requests
  <2>1. Requests' = Requests
    BY DEF Requests
  <2>2. QED
    BY <1>1, <1>2, <1>5, <2>1 DEF ConfigInv, FoundInv, Awake, OtherIsFree
<1>7. \A m \in Lidars : CallbackInv(m)'
  BY <1>1 DEF ConfigInv, CallbackInv, chosen
<1>8. ASSUME NEW m \in Lidars, NEW s \in Settings PROVE AskedInv(m, s)'
  <2>1. AskedInv(m, s) /\ Wanted(m)' = Wanted(m)
    BY <1>1 DEF ConfigInv, Wanted, chosen
  <2>2. /\ received[m] \subseteq received'[m]
        /\ d.cmd.of = Ask(m, s) => s \in received'[m]
    BY <1>1, <1>3, AskIsRequest DEF ConfigInv, ValuesInv
  <2>3. \A e \in air' : e \in air \/ e.cmd = d.cmd
    BY <1>2 DEF Answer
  <2>4. QED
    BY <1>1, <1>5, <2>1, <2>2, <2>3 DEF AskedInv, Ask
<1>9. QED
  BY <1>2, <1>4, <1>6, <1>7, <1>8 DEF ConfigInv
-----------------------------------------------------------------------------
(* What is asked of the lidars, what is remembered of it and what they     *)
(* have read fit together, whichever datagrams are lost, refused or too    *)
(* early (general_command_handler.cpp, livox_lidar_callback.cpp).          *)
THEOREM ConfigIsSound == Spec => []ConfigInv
<1>1. Init => ConfigInv
  <2> SUFFICES ASSUME Init PROVE ConfigInv
    OBVIOUS
  <2>1. LayerInv(Requests) /\ OtherIsFree /\ air = {} /\ \A r : ~Pending(r)
    BY LayerInvInit, ToSetOne DEF Init, InitLayer, OtherIsFree, Pending, Waiting
  <2>2. \A l \in Lidars : devices[l] = NoDevice /\ set_bits[l] = {} /\ calls[l] = 0
                          /\ connect_state[l] = "Off"
    BY DEF Init
  <2>3. ValuesInv
    <3>1. 0 \in 0 .. TryLimit + 1
      BY TryLimitAssumption
    <3>2. NoDevice \in Devices
      BY DEF NoDevice, Devices
    <3>3. listed \subseteq Lidars
      BY DEF Init
    <3>4. devices \in [Lidars -> Devices] /\ calls \in [Lidars -> 0 .. 1]
      BY <3>2 DEF Init
    <3>5. QED
      BY <3>1, <3>3, <3>4 DEF Init, ValuesInv
  <2>4. FoundInv
    BY <2>1, <2>2 DEF FoundInv, NoDevice
  <2>5. \A l \in Lidars : CallbackInv(l) /\ \A s \in Settings : AskedInv(l, s)
    BY <2>1, <2>2 DEF CallbackInv, AskedInv, NoDevice
  <2>6. QED
    BY <2>1, <2>3, <2>4, <2>5 DEF ConfigInv
<1>2. ConfigInv /\ [Next]_vars => ConfigInv'
  <2> SUFFICES ASSUME ConfigInv, [Next]_vars PROVE ConfigInv'
    OBVIOUS
  <2>1. CASE Next
    <3>1. ASSUME NEW l \in Lidars, Detect(l) PROVE ConfigInv'
      BY <3>1, DetectNewKeeps, DetectKnownKeeps, DetectLoaderKeeps DEF Detect
    <3>2. ASSUME NEW l \in Lidars, NEW d \in air, Answered(d, l) PROVE ConfigInv'
      BY <3>2, FwTypeAnsweredKeeps, CfgAnsweredKeeps, SettingAnsweredKeeps, OtherAnsweredKeeps
      DEF Answered
    <3>3. ASSUME NEW l \in Lidars, NEW t \in Threads, NEW c \in commands, Expires(t, c, l)
          PROVE  ConfigInv'
      BY <3>3, FwTypeFailsKeeps, PlainExpiry, WorkModeFailsKeeps DEF Expires
    <3>4. ASSUME NEW l \in Lidars, NEW u \in unsent, Refused(u, l) PROVE ConfigInv'
      <4>1. u.thread \in Threads
        BY DEF ConfigInv, LayerInv
      <4>2. QED
        BY <3>4, <4>1, FwTypeFailsKeeps, WorkModeFailsKeeps DEF Refused
    <3>5. QED
      BY <2>1, <3>1, <3>2, <3>3, <3>4, WakeUpKeeps, LidarReadsKeeps, LayerStepKeeps DEF Next
  <2>2. CASE UNCHANGED vars
    <3>1. UNCHANGED <<layer, chosen, devices, count, driver>>
      BY <2>2 DEF vars
    <3>2. LayerInv(Requests)' /\ ValuesInv'
      BY <3>1, ValuesKept DEF ConfigInv, LayerInv, layer, sending, Waiting, Commands, Seqs, Requests
    <3>3. \A r : Pending(r)' <=> Pending(r)
      BY <3>1 DEF Pending, Waiting, layer
    <3>4. FoundInv'
      <4> HIDE DEF Requests
      <4>1. Requests' = Requests
        BY DEF Requests
      <4>2. QED
        BY <3>1, <3>3, <4>1 DEF ConfigInv, FoundInv, Awake, OtherIsFree, layer, driver
    <3>5. \A l \in Lidars : CallbackInv(l)' /\ \A s \in Settings : AskedInv(l, s)'
      BY <3>1, <3>3 DEF ConfigInv, CallbackInv, AskedInv, Wanted, Ask, layer, chosen, driver
    <3>6. QED
      BY <3>2, <3>4, <3>5 DEF ConfigInv
  <2>3. QED
    BY <2>1, <2>2
<1>3. QED
  BY <1>1, <1>2, PTL DEF Spec

(* Every variable of the configuration and of its command layer keeps its  *)
(* type.                                                                   *)
THEOREM TypeCorrect == Spec => []TypeOK
<1>1. ConfigInv => TypeOK
  <2> SUFFICES ASSUME ConfigInv PROVE TypeOK
    OBVIOUS
  <2>1. LayerTypeOK(Requests)
    BY LayerInvType DEF ConfigInv
  <2>2. calls \in [Lidars -> 0 .. 2]
    BY DEF ConfigInv, ValuesInv
  <2>3. QED
    BY <2>1, <2>2 DEF ConfigInv, ValuesInv, TypeOK
<1>2. QED
  BY <1>1, ConfigIsSound, PTL

(* The driver hears of a lidar once (LivoxLidarInfoChange).                *)
THEOREM DriverIsCalledOnce == Spec => []CalledOnce
<1>1. ConfigInv => CalledOnce
  BY DEF ConfigInv, ValuesInv, CalledOnce
<1>2. QED
  BY <1>1, ConfigIsSound, PTL

(* The data of a lidar is published only when it has read every setting of *)
(* the user's file (connect_state, set_bits).                              *)
THEOREM SamplingIsAfterConfiguration == Spec => []SamplingIsConfigured
<1>1. ConfigInv => SamplingIsConfigured
  <2> SUFFICES ASSUME ConfigInv, NEW l \in Lidars, connect_state[l] = "Sampling"
               PROVE  l \in listed /\ set_bits[l] = {} /\ config[l] \subseteq received[l]
    BY DEF SamplingIsConfigured
  <2>1. l \in listed /\ set_bits[l] = {} /\ devices[l].is_callback
    BY DEF ConfigInv, CallbackInv
  <2>2. Wanted(l) = config[l] /\ config[l] \subseteq Settings
    BY <2>1 DEF Wanted, ConfigInv, ValuesInv
  <2>3. QED
    BY <2>1, <2>2 DEF ConfigInv, AskedInv
<1>2. QED
  BY <1>1, ConfigIsSound, PTL

LEMMA PendingCounts ==
    ASSUME ConfigInv, NEW r, Pending(r)
    PROVE  Outstanding(r) > 0
<1> DEFINE W == {c \in Waiting : c.of = r}
           Q == {i \in DOMAIN todo : todo[i] = r}
<1>1. IsFiniteSet(W)
  <2>1. IsFiniteSet(adding)
    <3>1. CASE adding = {}
      BY <3>1, FS_EmptySet
    <3>2. CASE \E c : adding = {c}
      BY <3>2, FS_Singleton
    <3>3. QED
      BY <3>1, <3>2 DEF ConfigInv, LayerInv
  <2>2. IsFiniteSet(Waiting)
    BY <2>1, FS_Union DEF ConfigInv, LayerInv, Waiting
  <2>3. QED
    BY <2>2, FS_Subset
<1>2. IsFiniteSet(Q)
  <2>1. IsFiniteSet(1 .. Len(todo)) /\ DOMAIN todo = 1 .. Len(todo)
    BY FS_Interval DEF ConfigInv, LayerInv
  <2>2. QED
    BY <2>1, FS_Subset
<1>3. W # {} \/ Q # {}
  BY DEF Pending, ToSet
<1> HIDE DEF W, Q
<1>4. /\ Cardinality(W) \in Nat /\ Cardinality(Q) \in Nat
      /\ Cardinality(W) > 0 \/ Cardinality(Q) > 0
  BY <1>1, <1>2, <1>3, FS_CardinalityType, FS_EmptySet
<1>5. Outstanding(r) = Cardinality(W) + Cardinality(Q)
  BY DEF Outstanding, Queued, W, Q
<1>6. QED
  BY <1>4, <1>5

(* Every bit of set_bits has a request that is being sent or waited for,   *)
(* whatever is lost, late or answered too early (Set...Callback).          *)
THEOREM BitsHaveRequests == Spec => []BitHasRequest
<1>1. ConfigInv => BitHasRequest
  <2> SUFFICES ASSUME ConfigInv, NEW l \in Lidars, NEW s \in set_bits[l]
               PROVE  Outstanding(Ask(l, s)) > 0
    BY DEF BitHasRequest
  <2>1. s \in Settings
    BY DEF ConfigInv, ValuesInv
  <2>2. QED
    BY <2>1, PendingCounts DEF ConfigInv, AskedInv
<1>2. QED
  BY <1>1, ConfigIsSound, PTL
-----------------------------------------------------------------------------
(* As long as no sendto fails, no request is outstanding twice.  The       *)
(* configuration may be: every detection sends it until the lidar has taken*)
(* it.                                                                     *)
Single(r) ==
    /\ \A c, e \in Waiting : c.of = r /\ e.of = r => c = e
    /\ \A c \in Waiting : c.of = r => r \notin ToSet(todo)
    /\ OnceIn(todo, r)

(* The driver's other requests are first sent by its callback, and one     *)
(* that a thread sleeps for is not outstanding meanwhile.                  *)
FollowedInv(l) ==
    /\ \A k \in Others : Pending(Ask(l, k)) => devices[l].is_callback
    /\ \A t \in Threads : l \in asleep[t] => /\ devices[l].is_callback
                                             /\ ~Pending(Ask(l, "WorkMode"))
    /\ ~(l \in asleep["cmd"] /\ l \in asleep["other"])

OnceInv ==
    /\ \A r \in Requests : r.kind # "Cfg" => Single(r)
    /\ \A l \in Lidars : FollowedInv(l)

(* Sending from the command thread a request that was not outstanding, or  *)
(* was so as the command that is gone.                                     *)
LEMMA SendsSingle ==
    ASSUME LayerInv(Requests), NEW gone \in SUBSET commands, NEW rs, Sends(gone, rs),
           NEW r, Single(r),
           r \in rs => r \notin ToSet(todo) /\ \A c \in Waiting : c.of = r => c \in gone
    PROVE  Single(r)'
<1>1. /\ adding' = adding /\ todo' = todo
      /\ \A c \in commands' : c \in commands \ gone \/ c.of \in rs
      /\ \A c, e \in commands' \ (commands \ gone) : c.of = e.of => c = e
  BY DEF Sends
<1>2. commands \cap adding = {}
  BY DEF LayerInv
<1>3. ASSUME r \in rs PROVE Single(r)'
  <2>1. \A c \in adding \cup (commands \ gone) : c.of # r
    BY <1>2, <1>3 DEF Waiting
  <2>2. \A c, e \in Waiting' : c.of = r /\ e.of = r => c = e
    BY <1>1, <2>1 DEF Waiting
  <2>3. QED
    BY <1>1, <1>3, <2>2 DEF Single, OnceIn
<1>4. ASSUME r \notin rs PROVE Single(r)'
  <2>1. \A c \in Waiting' : c.of = r => c \in Waiting
    BY <1>1, <1>4 DEF Waiting
  <2>2. QED
    BY <1>1, <2>1 DEF Single, OnceIn
<1>5. QED
  BY <1>3, <1>4

LEMMA SendOnce ==
    ASSUME LayerInv(Requests), NEW r \in Requests, SendFromCmd({}, {r}),
           NEW q, Single(q), q = r => ~Pending(q)
    PROVE  Single(q)'
<1>1. IsFiniteSet({r}) /\ {} \in SUBSET commands
  BY FS_Singleton
<1>2. Sends({}, {r})
  BY <1>1, SendFromCmdEffect
<1>3. q \in {r} => q \notin ToSet(todo) /\ \A c \in Waiting : c.of = q => c \in {}
  BY DEF Pending
<1>4. QED
  BY <1>1, <1>2, <1>3, SendsSingle

(* Leaving requests to the other thread, which had none.                   *)
LEMMA StartsSingle ==
    ASSUME NEW gone, OtherIsFree, NEW s, todo' = s, adding' = adding, commands' = commands \ gone,
           NEW r, Single(r), OnceIn(s, r),
           r \in ToSet(s) => \A c \in commands : c.of = r => c \in gone
    PROVE  Single(r)'
<1>1. Waiting' = commands \ gone /\ Waiting = commands
  BY DEF Waiting, OtherIsFree
<1>2. QED
  BY <1>1 DEF Single

LEMMA LayerStepSingle ==
    ASSUME LayerInv(Requests), SendNext \/ AddCommand \/ \E d \in air : IgnoreAnswer(d),
           NEW r, Single(r)
    PROVE  Single(r)'
<1>1. CASE SendNext
  <2>1. /\ adding = {} /\ todo # <<>>
        /\ commands' = commands /\ todo' = Tail(todo)
        /\ \E c : c.of = Head(todo) /\ adding' = {c}
    BY <1>1, SendNextEffect
  <2>2. todo \in Seq(Requests)
    BY DEF LayerInv
  <2>3. /\ ToSet(todo) = {Head(todo)} \cup ToSet(todo')
        /\ \A i \in DOMAIN todo' : i + 1 \in DOMAIN todo /\ todo'[i] = todo[i + 1]
        /\ 1 \in DOMAIN todo /\ Head(todo) = todo[1]
        /\ DOMAIN todo' \subseteq Nat \ {0}
    BY <2>1, <2>2, ToSetHead
  <2>4. OnceIn(todo, r)
    BY DEF Single
  <2>5. OnceIn(todo, r)'
    BY <2>3, <2>4 DEF OnceIn
  <2>6. r = Head(todo) => r \notin ToSet(todo')
    BY <2>3, <2>4 DEF OnceIn, ToSet
  <2>7. QED
    BY <2>1, <2>3, <2>5, <2>6 DEF Single, Waiting
<1>2. CASE AddCommand \/ \E d \in air : IgnoreAnswer(d)
  <2>1. Waiting' = Waiting /\ todo' = todo
    BY <1>2, AddCommandEffect, IgnoreAnswerEffect DEF Waiting
  <2>2. QED
    BY <2>1 DEF Single
<1>3. QED
  BY <1>1, <1>2

(* What a step leaves true of the lidars.                                  *)
LEMMA FollowedKept ==
    ASSUME ConfigInv, OnceInv, NEW gone, NEW rs, Moves(gone, rs),
           \A l \in Lidars : devices[l].is_callback => devices'[l].is_callback,
           \A l \in Lidars, k \in Others : Ask(l, k) \in rs => devices'[l].is_callback,
           \A l \in Lidars : Ask(l, "WorkMode") \in rs =>
               Pending(Ask(l, "WorkMode")) \/ \A t \in Threads : l \notin asleep'[t],
           \A t \in Threads : asleep'[t] \subseteq asleep[t]
    PROVE  \A l \in Lidars : FollowedInv(l)'
<1> SUFFICES ASSUME NEW l \in Lidars PROVE FollowedInv(l)'
  OBVIOUS
<1>1. FollowedInv(l)
  BY DEF OnceInv
<1>2. ASSUME NEW k \in Others, Pending(Ask(l, k))' PROVE devices'[l].is_callback
  <2>1. Pending(Ask(l, k)) \/ Ask(l, k) \in rs
    BY <1>2 DEF Moves, Pending, Ask
  <2>2. QED
    BY <1>1, <2>1 DEF FollowedInv
<1>3. ASSUME NEW t \in Threads, l \in asleep'[t]
      PROVE  devices'[l].is_callback /\ ~Pending(Ask(l, "WorkMode"))'
  <2>1. devices[l].is_callback /\ ~Pending(Ask(l, "WorkMode"))
    BY <1>1, <1>3 DEF FollowedInv
  <2>2. Ask(l, "WorkMode") \notin rs
    BY <1>3, <2>1
  <2>3. QED
    BY <2>1, <2>2 DEF Moves, Ask, Pending
<1>4. QED
  BY <1>1, <1>2, <1>3 DEF FollowedInv, Threads, Ask, Pending

(* A callback that repeats or drops its own request.                       *)
LEMMA RepeatsOnce ==
    ASSUME ConfigInv, OnceInv, NEW c, c \in commands, NEW rs, rs \subseteq {c.of},
           \/ Sends({c}, rs)
           \/ \E s : ExpiresOther(c, s) /\ s \in {<<>>, <<c.of>>} /\ ToSet(s) = rs,
           NEW r \in Requests, r.kind # "Cfg"
    PROVE  Single(r)'
<1>1. LayerInv(Requests) /\ Single(r)
  BY DEF ConfigInv, OnceInv
<1>2. r = c.of => r \notin ToSet(todo) /\ \A e \in Waiting : e.of = r => e \in {c}
  BY <1>1 DEF Single, Waiting
<1>3. CASE Sends({c}, rs)
  BY <1>1, <1>2, <1>3, SendsSingle
<1>4. ASSUME NEW s, ExpiresOther(c, s), s \in {<<>>, <<c.of>>}, ToSet(s) = rs
      PROVE  Single(r)'
  <2>1. OnceIn(s, r)
    BY <1>4 DEF OnceIn
  <2>2. /\ OtherIsFree /\ todo' = s /\ adding' = adding /\ commands' = commands \ {c}
    BY <1>4 DEF ExpiresOther
  <2>3. r \in ToSet(s) => \A e \in commands : e.of = r => e \in {c}
    BY <1>2, <1>4 DEF Waiting
  <2>4. QED
    BY <1>1, <2>1, <2>2, <2>3, StartsSingle
<1>5. QED
  BY <1>3, <1>4

LEMMA RepeatsKeep ==
    ASSUME ConfigInv, OnceInv, NEW c, c \in commands, NEW rs, rs \subseteq {c.of}, Moves({c}, rs),
           \/ Sends({c}, rs)
           \/ \E s : ExpiresOther(c, s) /\ s \in {<<>>, <<c.of>>} /\ ToSet(s) = rs,
           \A l \in Lidars : devices'[l].is_callback = devices[l].is_callback,
           asleep' = asleep
    PROVE  OnceInv'
<1>1. \A r \in Requests : r.kind # "Cfg" => Single(r)'
  BY RepeatsOnce
<1>2. Pending(c.of)
  BY DEF Pending, Waiting
<1>3. \A l \in Lidars : FollowedInv(l)'
  <2>1. ASSUME NEW l \in Lidars, NEW k \in Others, Ask(l, k) \in rs PROVE devices'[l].is_callback
    BY <1>2, <2>1 DEF OnceInv, FollowedInv
  <2>2. ASSUME NEW l \in Lidars, Ask(l, "WorkMode") \in rs PROVE Pending(Ask(l, "WorkMode"))
    BY <1>2, <2>2
  <2>3. QED
    BY <2>1, <2>2, FollowedKept
<1>4. QED
  BY <1>1, <1>3 DEF OnceInv, Requests

LEMMA AnswerRepeats ==
    ASSUME ConfigInv, OnceInv, NEW d, NEW rs \in SUBSET {d.cmd.of}, TakeAnswer(d, rs),
           \A l \in Lidars : devices'[l].is_callback = devices[l].is_callback,
           asleep' = asleep
    PROVE  OnceInv'
<1>1. d.cmd.of \in Requests
  BY DEF TakeAnswer, ConfigInv, LayerInv, Commands
<1>2. IsFiniteSet(rs) /\ rs \in SUBSET Requests
  <2>1. IsFiniteSet({d.cmd.of})
    BY FS_Singleton
  <2>2. QED
    BY <1>1, <2>1, FS_Subset
<1>3. Sends({d.cmd}, rs) /\ d.cmd \in commands
  BY <1>2, TakeAnswerEffect DEF ConfigInv
<1>4. QED
  BY <1>3, SendsMoves, RepeatsKeep

LEMMA ExpiryRepeats ==
    ASSUME ConfigInv, OnceInv, NEW t, NEW c, NEW s, s \in {<<>>, <<c.of>>}, Expire(t, c, s),
           \A l \in Lidars : devices'[l].is_callback = devices[l].is_callback,
           asleep' = asleep
    PROVE  OnceInv'
<1>1. c \in commands /\ c.of \in Requests
  BY DEF Expire, ConfigInv, LayerInv, Commands
<1>2. s \in Seq(Requests) /\ ToSet(s) \subseteq {c.of}
  <2>1. CASE s = <<>>
    BY <2>1, ToSetOne
  <2>2. CASE s = <<c.of>>
    BY <1>1, <2>2, ToSetOne
  <2>3. QED
    BY <2>1, <2>2
<1>3. Sends({c}, ToSet(s)) \/ ExpiresOther(c, s)
  BY <1>2, ExpireEffect DEF ConfigInv
<1>4. Moves({c}, ToSet(s))
  BY <1>2, ExpireMoves DEF ConfigInv
<1>5. QED
  BY <1>1, <1>2, <1>3, <1>4, RepeatsKeep

LEMMA TypedCallbacks ==
    ASSUME ConfigInv, NEW l, NEW fw, Typed(l, fw)
    PROVE  \A m \in Lidars : devices'[m].is_callback = devices[m].is_callback
  BY DEF Typed, ConfigInv, ValuesInv, Devices

LEMMA AnsweredOnce ==
    ASSUME ConfigInv, OnceInv, NEW l \in Lidars, NEW d,
           \/ FwTypeAnswered(d, l)
           \/ CfgAnswered(d, l) /\ ~InfoChange(l)
           \/ \E s \in Settings : SettingAnswered(d, l, s)
           \/ OtherAnswered(d, l)
    PROVE  OnceInv'
<1>1. \E rs \in SUBSET {d.cmd.of} : TakeAnswer(d, rs)
  BY DEF FwTypeAnswered, CfgAnswered, SettingAnswered, OtherAnswered
<1>2. /\ devices' = devices \/ \E fw : Typed(l, fw)
      /\ asleep' = asleep
  BY DEF FwTypeAnswered, CfgAnswered, SettingAnswered, OtherAnswered, driver
<1>3. \A m \in Lidars : devices'[m].is_callback = devices[m].is_callback
  BY <1>2, TypedCallbacks
<1>4. QED
  BY <1>1, <1>2, <1>3, AnswerRepeats

LEMMA ExpiresOnce ==
    ASSUME ConfigInv, OnceInv, NEW l \in Lidars, NEW t, NEW c,
           \/ FwTypeExpires(t, c, l) \/ CfgExpires(t, c, l)
           \/ \E s \in Settings : SettingExpires(t, c, l, s)
           \/ AttitudeExpires(t, c, l) \/ ImuExpires(t, c, l)
    PROVE  OnceInv'
<1>1. Expire(t, c, <<>>) \/ Expire(t, c, <<c.of>>)
  BY DEF FwTypeExpires, CfgExpires, SettingExpires, AttitudeExpires, ImuExpires
<1>2. /\ devices' = devices \/ \E fw : Typed(l, fw)
      /\ asleep' = asleep
  BY DEF FwTypeExpires, CfgExpires, SettingExpires, AttitudeExpires, ImuExpires, driver
<1>3. \A m \in Lidars : devices'[m].is_callback = devices[m].is_callback
  BY <1>2, TypedCallbacks
<1>4. QED
  BY <1>1, <1>2, <1>3, ExpiryRepeats

(* A work mode that was not answered waits in no table while the thread    *)
(* sleeps.                                                                 *)
LEMMA WorkModeExpiresOnce ==
    ASSUME ConfigInv, OnceInv, NEW l \in Lidars, NEW t \in Threads, NEW c, WorkModeExpires(t, c, l)
    PROVE  OnceInv'
<1> DEFINE r == Ask(l, "WorkMode")
<1>1. r \in Requests /\ r.kind # "Cfg" /\ "WorkMode" \in Others
  BY AskIsRequest DEF Others
<1>2. /\ c.of = r /\ Awake(t) /\ Expire(t, c, <<>>)
      /\ asleep' = [asleep EXCEPT ![t] = {l}] /\ asleep \in [Threads -> SUBSET Lidars]
      /\ UNCHANGED devices
  BY DEF WorkModeExpires, Ready, ConfigInv, ValuesInv
<1> HIDE DEF r
<1>3. <<>> \in Seq(Requests) /\ ToSet(<<>>) = {}
  BY ToSetOne
<1>4. /\ c \in commands /\ (Sends({c}, {}) \/ ExpiresOther(c, <<>>))
      /\ Moves({c}, {})
  BY <1>2, <1>3, ExpireEffect, ExpireMoves DEF ConfigInv
<1>5. \A q \in Requests : q.kind # "Cfg" => Single(q)'
  BY <1>3, <1>4, RepeatsOnce
<1>6. Pending(r)
  BY <1>2, <1>4 DEF Pending, Waiting
<1>7. ~Pending(r)'
  <2>1. Single(r) /\ c \in Waiting
    BY <1>1, <1>4 DEF OnceInv, Waiting
  <2>2. \A e \in Waiting \ {c} : e.of # r
    BY <1>2, <2>1 DEF Single
  <2>3. r \notin ToSet(todo)
    BY <1>2, <2>1 DEF Single
  <2>4. commands \cap adding = {}
    BY DEF ConfigInv, LayerInv
  <2>5. Waiting' \subseteq Waiting \ {c} /\ (todo' = todo \/ todo' = <<>>)
    BY <1>4, <2>4 DEF Sends, ExpiresOther, Waiting
  <2>6. r \notin ToSet(todo')
    BY <1>3, <2>3, <2>5
  <2>7. r' = r
    BY DEF r, Ask
  <2>8. QED
    BY <2>2, <2>5, <2>6, <2>7 DEF Pending
<1>8. ASSUME NEW m \in Lidars PROVE FollowedInv(m)'
  <2>1. FollowedInv(m) /\ FollowedInv(l)
    BY DEF OnceInv
  <2>2. \A k \in Others : Pending(Ask(m, k))' => devices'[m].is_callback
    BY <1>2, <1>4, <2>1 DEF FollowedInv, Moves, Pending, Ask
  <2>3. ASSUME NEW u \in Threads, m \in asleep'[u]
        PROVE  devices'[m].is_callback /\ ~Pending(Ask(m, "WorkMode"))'
    <3>1. CASE m \in asleep[u]
      BY <1>2, <1>4, <2>1, <3>1 DEF FollowedInv, Moves, Pending, Ask
    <3>2. CASE m \notin asleep[u]
      <4>1. m = l
        BY <1>2, <2>3, <3>2
      <4>2. QED
        BY <1>1, <1>2, <1>6, <1>7, <2>1, <4>1 DEF FollowedInv, r, Pending, Ask
    <3>3. QED
      BY <3>1, <3>2
  <2>4. ~(m \in asleep'["cmd"] /\ m \in asleep'["other"])
    <3>1. \A u \in Threads : l \notin asleep[u]
      BY <1>6, <2>1 DEF FollowedInv, r
    <3>2. QED
      BY <1>2, <2>1, <3>1 DEF FollowedInv, Threads
  <2>5. QED
    BY <2>2, <2>3, <2>4 DEF FollowedInv, Ask, Pending
<1>9. QED
  BY <1>5, <1>8 DEF OnceInv, Requests

LEMMA WakeUpOnce ==
    ASSUME ConfigInv, OnceInv, NEW l \in Lidars, NEW t \in Threads, WakeUp(t, l)
    PROVE  OnceInv'
<1> DEFINE r == Ask(l, "WorkMode")
<1>1. r \in Requests /\ <<r>> \in Seq(Requests) /\ ToSet(<<r>>) = {r}
  BY AskIsRequest, ToSetOne DEF Others
<1>2. /\ l \in asleep[t] /\ asleep' = [asleep EXCEPT ![t] = {}]
      /\ asleep \in [Threads -> SUBSET Lidars]
      /\ UNCHANGED devices
  BY DEF WakeUp, ConfigInv, ValuesInv
<1>3. FollowedInv(l)
  BY DEF OnceInv
<1>4. ~Pending(r) /\ devices[l].is_callback
  BY <1>2, <1>3 DEF FollowedInv
<1>5. /\ t = "cmd" => SendFromCmd({}, {r})
      /\ t = "other" => OtherIsFree /\ todo' = <<r>> /\ UNCHANGED <<commands, adding, air>>
  BY <1>2 DEF WakeUp, ConfigInv, FoundInv, Awake
<1>6. \A m, k : Ask(m, k) = r => m = l /\ k = "WorkMode"
  BY AskIsRequest
<1> HIDE DEF r
<1>7. r \notin ToSet(todo) /\ \A c \in Waiting : c.of # r
  BY <1>4 DEF Pending
<1>8. LayerInv(Requests) /\ Moves({}, {r}) /\ \A q \in Requests : q.kind # "Cfg" => Single(q)'
  <2> SUFFICES Moves({}, {r}) /\ \A q \in Requests : q.kind # "Cfg" => Single(q)'
    BY DEF ConfigInv
  <2>1. CASE t = "cmd"
    <3>1. LayerInv(Requests) /\ SendFromCmd({}, {r})
      BY <1>5, <2>1 DEF ConfigInv
    <3>2. ASSUME NEW q \in Requests, q.kind # "Cfg" PROVE Single(q)'
      <4>1. Single(q)
        BY <3>2 DEF OnceInv
      <4>2. QED
        BY <1>1, <1>4, <3>1, <4>1, SendOnce
    <3>3. Moves({}, {r})
      BY <1>1, <3>1, SendMoves
    <3>4. QED
      BY <3>2, <3>3
  <2>2. CASE t = "other"
    <3>1. OtherIsFree /\ todo' = <<r>> /\ UNCHANGED <<commands, adding, air>>
      BY <1>5, <2>2
    <3>2. Moves({}, {r})
      BY <1>1, <3>1, StartsMoves DEF ConfigInv
    <3>3. ASSUME NEW q \in Requests, q.kind # "Cfg" PROVE Single(q)'
      <4>1. OnceIn(<<r>>, q) /\ commands' = commands \ {} /\ adding' = adding /\ Single(q)
        BY <3>1, <3>3 DEF OnceIn, OnceInv
      <4>2. q \in ToSet(<<r>>) => \A c \in commands : c.of = q => c \in {}
        BY <1>1, <1>7 DEF Waiting
      <4>3. QED
        BY <3>1, <4>1, <4>2, StartsSingle
    <3>4. QED
      BY <3>2, <3>3
  <2>3. QED
    BY <2>1, <2>2 DEF Threads
<1>9. \A m \in Lidars : FollowedInv(m)'
  <2>1. \A u \in Threads : l \notin asleep'[u] /\ asleep'[u] \subseteq asleep[u]
    BY <1>2, <1>3 DEF FollowedInv, Threads
  <2>2. QED
    BY <1>2, <1>4, <1>6, <1>8, <2>1, FollowedKept
<1>10. QED
  BY <1>8, <1>9 DEF OnceInv, Requests

(* Steps of the detection thread.                                          *)
LEMMA DetectNewOnce ==
    ASSUME ConfigInv, OnceInv, NEW l \in Lidars, DetectNew(l)
    PROVE  OnceInv'
<1> DEFINE r == QueryFwType(l)
<1>1. /\ r \in Requests /\ r.kind = "FwType" /\ r.lidar = l
      /\ <<r>> \in Seq(Requests) /\ ToSet(<<r>>) = {r}
      /\ \A m : \A k \in Others : Ask(m, k) # r
  BY AskIsRequest, ToSetOne DEF QueryFwType, Others
<1>2. /\ OtherIsFree /\ ~devices[l].found /\ todo' = <<r>>
      /\ devices' = [devices EXCEPT ![l] = [NoDevice EXCEPT !.found = TRUE]]
      /\ UNCHANGED <<commands, adding, air, driver>>
  BY DEF DetectNew, DetectionIsFree
<1> HIDE DEF r
<1>3. ~Pending(r) /\ ~devices[l].is_callback /\ devices \in [Lidars -> Devices]
  BY <1>1, <1>2 DEF ConfigInv, FoundInv, ValuesInv
<1>4. Moves({}, {r})
  BY <1>1, <1>2, StartsMoves DEF ConfigInv
<1>5. ASSUME NEW q \in Requests, q.kind # "Cfg" PROVE Single(q)'
  <2>1. OnceIn(<<r>>, q) /\ commands' = commands \ {} /\ adding' = adding /\ Single(q)
    BY <1>2, <1>5 DEF OnceIn, OnceInv
  <2>2. q \in ToSet(<<r>>) => \A c \in commands : c.of = q => c \in {}
    BY <1>1, <1>3 DEF Pending, Waiting
  <2>3. QED
    BY <1>2, <2>1, <2>2, StartsSingle
<1>6. \A m \in Lidars : devices[m].is_callback => devices'[m].is_callback
  BY <1>2, <1>3
<1>7. \A m \in Lidars : FollowedInv(m)'
  <2>1. "WorkMode" \in Others /\ asleep' = asleep
    BY <1>2 DEF Others, driver
  <2>2. QED
    BY <1>1, <1>4, <1>6, <2>1, FollowedKept
<1>8. QED
  BY <1>5, <1>7 DEF OnceInv, Requests

LEMMA DetectKnownOnce ==
    ASSUME ConfigInv, OnceInv, NEW l \in Lidars, DetectKnown(l)
    PROVE  OnceInv'
<1> DEFINE r == Ask(l, "Cfg")
<1>1. /\ r \in Requests /\ r.kind = "Cfg"
      /\ \A m : \A k \in Others : Ask(m, k) # r
  BY AskIsRequest DEF Others
<1>2. SendFromCmd({}, {r}) /\ UNCHANGED <<devices, driver>>
  BY DEF DetectKnown, SetCustomLidar, SendKnown
<1> HIDE DEF r
<1>3. LayerInv(Requests) /\ Moves({}, {r})
  BY <1>1, <1>2, SendMoves DEF ConfigInv
<1>4. ASSUME NEW q \in Requests, q.kind # "Cfg" PROVE Single(q)'
  <2>1. Single(q)
    BY <1>4 DEF OnceInv
  <2>2. QED
    BY <1>1, <1>2, <1>3, <1>4, <2>1, SendOnce
<1>5. \A m \in Lidars : FollowedInv(m)'
  <2>1. "WorkMode" \in Others /\ asleep' = asleep
    BY <1>2 DEF Others, driver
  <2>2. QED
    BY <1>1, <1>2, <1>3, <2>1, FollowedKept
<1>6. QED
  BY <1>4, <1>5 DEF OnceInv, Requests

(* The driver's callback, on either thread: it runs once, and nothing it   *)
(* asks for has been asked for before.                                     *)
LEMMA CalledIsNew ==
    ASSUME ConfigInv, OnceInv, NEW l \in Lidars, NEW r \in ToSet(Called(l))
    PROVE  /\ ~Pending(r) /\ ~devices[l].is_callback /\ r.lidar = l
           /\ r.kind \in Settings \cup Others
<1>1. ~devices[l].is_callback /\ r \in ToSet(Script(l))
  BY ToSetOne DEF Called
<1>2. /\ r.lidar = l /\ r.kind \in Settings \cup Others /\ r \in Requests
      /\ r = Ask(l, r.kind)
  BY <1>1, ScriptSends, ToSetType, AskIsRequest
<1>3. ~Pending(r)
  BY <1>1, <1>2 DEF ConfigInv, AskedInv, OnceInv, FollowedInv
<1>4. QED
  BY <1>1, <1>2, <1>3

LEMMA InfoChangeOnce ==
    ASSUME ConfigInv, OnceInv, NEW l \in Lidars, InfoChange(l),
           NEW gone, Moves(gone, ToSet(Called(l))),
           \A r \in Requests : r.kind # "Cfg" => Single(r)'
    PROVE  OnceInv'
<1>1. /\ devices' = [devices EXCEPT ![l].is_update_cfg = TRUE, ![l].is_callback = TRUE]
      /\ devices \in [Lidars -> Devices] /\ asleep' = asleep
  BY DEF InfoChange, ConfigInv, ValuesInv
<1>2. devices'[l].is_callback /\ \A m \in Lidars : devices[m].is_callback => devices'[m].is_callback
  BY <1>1 DEF Devices
<1>3. ASSUME NEW m \in Lidars, NEW k, Ask(m, k) \in ToSet(Called(l))
      PROVE  devices'[m].is_callback /\ \A t \in Threads : m \notin asleep[t]
  <2>1. m = l /\ ~devices[l].is_callback
    BY <1>3, CalledIsNew DEF Ask
  <2>2. QED
    BY <1>2, <2>1 DEF OnceInv, FollowedInv
<1>4. \A m \in Lidars : FollowedInv(m)'
  BY <1>1, <1>2, <1>3, FollowedKept
<1>5. QED
  BY <1>4 DEF OnceInv, Requests

LEMMA DetectLoaderOnce ==
    ASSUME ConfigInv, OnceInv, NEW l \in Lidars, DetectLoader(l)
    PROVE  OnceInv'
<1>1. /\ OtherIsFree /\ InfoChange(l) /\ todo' = Called(l)
      /\ UNCHANGED <<commands, adding, air>>
  BY DEF DetectLoader, DetectionIsFree
<1>2. Called(l) \in Seq(Requests) /\ \A r : OnceIn(Called(l), r)
  BY ScriptSends DEF Called, OnceIn
<1>3. Moves({}, ToSet(Called(l)))
  BY <1>1, <1>2, StartsMoves DEF ConfigInv
<1>4. ASSUME NEW r \in Requests, r.kind # "Cfg" PROVE Single(r)'
  <2>1. commands' = commands \ {} /\ adding' = adding /\ Single(r)
    BY <1>1, <1>4 DEF OnceInv
  <2>2. r \in ToSet(Called(l)) => \A c \in commands : c.of = r => c \in {}
    BY CalledIsNew DEF Pending, Waiting
  <2>3. QED
    BY <1>1, <1>2, <2>1, <2>2, StartsSingle
<1>5. QED
  BY <1>1, <1>3, <1>4, InfoChangeOnce

LEMMA CfgAnsweredOnce ==
    ASSUME ConfigInv, OnceInv, NEW l \in Lidars, NEW d, CfgAnswered(d, l)
    PROVE  OnceInv'
<1>1. CASE InfoChange(l) /\ TakeAnswer(d, ToSet(Called(l)))
  <2>0. Called(l) \in Seq(Requests)
    BY ScriptSends DEF Called
  <2>1. ToSet(Called(l)) \in SUBSET Requests /\ IsFiniteSet(ToSet(Called(l)))
    BY <2>0, ToSetType
  <2>2. Sends({d.cmd}, ToSet(Called(l))) /\ d.cmd \in commands
    BY <1>1, <2>1, TakeAnswerEffect DEF ConfigInv
  <2>3. ASSUME NEW r \in Requests, r.kind # "Cfg" PROVE Single(r)'
    <3>1. r \in ToSet(Called(l)) => r \notin ToSet(todo) /\ \A c \in Waiting : c.of # r
      BY CalledIsNew DEF Pending
    <3>2. QED
      BY <2>2, <2>3, <3>1, SendsSingle DEF ConfigInv, OnceInv
  <2>4. QED
    BY <1>1, <2>2, <2>3, SendsMoves, InfoChangeOnce
<1>2. CASE TakeAnswer(d, {}) /\ UNCHANGED <<devices, driver>>
  BY <1>2, AnswerRepeats DEF driver
<1>3. QED
  BY <1>1, <1>2 DEF CfgAnswered

LEMMA LayerStepOnce ==
    ASSUME ConfigInv, OnceInv, failures' = failures, LayerStep
    PROVE  OnceInv'
<1>1. Moves({}, {}) /\ UNCHANGED <<devices, driver>>
  BY LayerStepMoves DEF ConfigInv, LayerStep
<1>2. ASSUME NEW r \in Requests, r.kind # "Cfg" PROVE Single(r)'
  <2>1. failures \in Nat
    BY MaxFailuresAssumption DEF ConfigInv, LayerInv
  <2>2. ~SendNextFails
    BY <2>1 DEF SendNextFails
  <2>3. QED
    BY <1>2, <2>2, LayerStepSingle DEF ConfigInv, OnceInv, LayerStep
<1>3. \A l \in Lidars : FollowedInv(l)'
  BY <1>1, FollowedKept DEF driver
<1>4. QED
  BY <1>2, <1>3 DEF OnceInv, Requests

LEMMA OnceSame ==
    ASSUME OnceInv, UNCHANGED <<commands, adding, todo, devices, asleep>>
    PROVE  OnceInv'
<1>1. \A r : (Pending(r)' <=> Pending(r)) /\ (Single(r)' <=> Single(r))
  BY DEF Pending, Single, OnceIn, Waiting
<1>2. QED
  BY <1>1 DEF OnceInv, FollowedInv, Ask, Requests

(* Every step counts the calls of sendto that fail in it.                  *)
LEMMA ConfigCounts ==
    ASSUME ConfigInv, [Next]_vars
    PROVE  Counts
<1>1. ASSUME UNCHANGED sending PROVE Counts
  BY <1>1, MaxFailuresAssumption DEF ConfigInv, LayerInv, Counts, sending
<1>2. ASSUME NEW l \in Lidars, NEW k \in Kinds, SendFromCmd({}, {Ask(l, k)}) PROVE Counts
  <2>1. IsFiniteSet({Ask(l, k)}) /\ {Ask(l, k)} \in SUBSET Requests
    <3>1. Ask(l, k) \in Requests
      BY AskIsRequest
    <3>2. IsFiniteSet({Ask(l, k)})
      BY FS_Singleton
    <3>3. QED
      BY <3>1, <3>2
  <2>2. Sends({}, {Ask(l, k)})
    BY <1>2, <2>1, SendFromCmdEffect DEF ConfigInv
  <2>3. QED
    BY <2>2 DEF Sends
<1>3. ASSUME NEW d, NEW rs \in SUBSET Requests, IsFiniteSet(rs), TakeAnswer(d, rs) PROVE Counts
  BY <1>3, TakeAnswerEffect DEF ConfigInv, Sends
<1>4. ASSUME NEW t, NEW c, NEW q \in Seq(Requests), Expire(t, c, q) PROVE Counts
  BY <1>1, <1>4, ExpireEffect DEF ConfigInv, Sends, ExpiresOther
<1>5. ASSUME NEW u, NEW q \in Seq(Requests), Recall(u, q) PROVE Counts
  BY <1>5, RecallEffect DEF ConfigInv
<1>6. /\ {"FwType", "Cfg", "WorkMode", "Attitude"} \subseteq Kinds /\ Settings \subseteq Kinds
      /\ <<>> \in Seq(Requests)
      /\ \A l \in Lidars, k \in Kinds : /\ <<Ask(l, k)>> \in Seq(Requests)
                                        /\ {Ask(l, k)} \in SUBSET Requests /\ IsFiniteSet({Ask(l, k)})
  <2>1. \A l \in Lidars, k \in Kinds : Ask(l, k) \in Requests
    BY AskIsRequest
  <2>2. \A r : IsFiniteSet({r})
    BY FS_Singleton
  <2>3. {"FwType", "Cfg", "WorkMode", "Attitude"} \subseteq Kinds /\ Settings \subseteq Kinds
    BY DEF Kinds, Others
  <2>4. QED
    BY <2>1, <2>2, <2>3
<1>7. ASSUME NEW l \in Lidars, Detect(l) PROVE Counts
  BY <1>1, <1>2, <1>6, <1>7 DEF Detect, DetectNew, DetectKnown, DetectLoader, SetCustomLidar, SendKnown
<1>8. ASSUME NEW l \in Lidars, NEW d \in air, Answered(d, l) PROVE Counts
  <2>1. CASE FwTypeAnswered(d, l)
    BY <1>3, <1>6, <2>1, FS_EmptySet DEF FwTypeAnswered, QueryFwType
  <2>2. CASE CfgAnswered(d, l)
    <3>1. Called(l) \in Seq(Requests)
      BY ScriptSends DEF Called
    <3>2. ToSet(Called(l)) \in SUBSET Requests /\ IsFiniteSet(ToSet(Called(l)))
      BY <3>1, ToSetType
    <3>3. QED
      BY <1>3, <2>2, <3>2, FS_EmptySet DEF CfgAnswered
  <2>3. CASE (\E s \in Settings : SettingAnswered(d, l, s)) \/ OtherAnswered(d, l)
    BY <1>3, <2>3, FS_EmptySet DEF SettingAnswered, OtherAnswered
  <2>4. QED
    BY <1>8, <2>1, <2>2, <2>3 DEF Answered
<1>9. ASSUME NEW l \in Lidars, NEW t \in Threads, NEW c \in commands, Expires(t, c, l) PROVE Counts
  <2>1. CASE FwTypeExpires(t, c, l)
    BY <1>4, <1>6, <2>1 DEF FwTypeExpires, QueryFwType
  <2>2. CASE \E s \in Settings : SettingExpires(t, c, l, s)
    BY <1>4, <1>6, <2>2 DEF SettingExpires
  <2>3. CASE AttitudeExpires(t, c, l)
    BY <1>4, <1>6, <2>3 DEF AttitudeExpires
  <2>4. CASE CfgExpires(t, c, l) \/ ImuExpires(t, c, l) \/ WorkModeExpires(t, c, l)
    BY <1>4, <1>6, <2>4 DEF CfgExpires, ImuExpires, WorkModeExpires
  <2>5. QED
    BY <1>9, <2>1, <2>2, <2>3, <2>4 DEF Expires
<1>10. ASSUME NEW l \in Lidars, NEW u \in unsent, Refused(u, l) PROVE Counts
  BY <1>5, <1>6, <1>10 DEF Refused, FwTypeRefused, WorkModeRefused, QueryFwType
<1>11. ASSUME NEW l \in Lidars, NEW t \in Threads, WakeUp(t, l) PROVE Counts
  BY <1>1, <1>2, <1>6, <1>11 DEF WakeUp
<1>12. ASSUME NEW d, NEW ret, LidarReads(d, ret) PROVE Counts
  BY <1>1, <1>12 DEF LidarReads, LidarAnswers
<1>13. CASE LayerStep
  <2>1. CASE SendNextFails
    BY <2>1, MaxFailuresAssumption DEF SendNextFails, ConfigInv, LayerInv, Counts
  <2>2. CASE ~SendNextFails
    BY <1>1, <1>13, <2>2 DEF LayerStep, SendNext, AddCommand, IgnoreAnswer
  <2>3. QED
    BY <2>1, <2>2
<1>14. CASE UNCHANGED vars
  BY <1>1, <1>14 DEF vars, layer
<1>15. QED
  BY <1>7, <1>8, <1>9, <1>10, <1>11, <1>12, <1>13, <1>14 DEF Next

SingleInv == failures = 0 => unsent = {} /\ OnceInv

(* As long as no sendto fails, no request but that of the configuration is *)
(* on its way twice, and the work mode a thread sleeps for is not on its   *)
(* way at all (livox_lidar_callback.cpp, QueryFwTypeCallback).             *)
THEOREM RequestsAreSingle == Spec => []SingleInv
<1>1. Init => SingleInv
  <2> SUFFICES ASSUME Init PROVE unsent = {} /\ OnceInv
    BY DEF SingleInv
  <2>0. unsent = {}
    BY DEF Init, InitLayer
  <2>1. Waiting = {} /\ todo = <<>> /\ ToSet(todo) = {} /\ \A l \in Lidars, t \in Threads : asleep[t] = {}
    BY ToSetOne DEF Init, InitLayer, Waiting
  <2>2. \A r : Single(r) /\ ~Pending(r)
    BY <2>1 DEF Single, OnceIn, Pending
  <2>3. QED
    BY <2>0, <2>1, <2>2 DEF OnceInv, FollowedInv, Threads
<1>2. ConfigInv /\ SingleInv /\ [Next]_vars => SingleInv'
  <2> SUFFICES ASSUME ConfigInv, SingleInv, [Next]_vars, failures' = 0 PROVE (unsent = {} /\ OnceInv)'
    BY DEF SingleInv
  <2>a. failures = 0 /\ failures' = failures /\ unsent' \subseteq unsent
    BY ConfigCounts, MaxFailuresAssumption DEF Counts, ConfigInv, LayerInv
  <2>b. OnceInv /\ unsent = {} /\ unsent' = {}
    BY <2>a DEF SingleInv
  <2> SUFFICES OnceInv'
    BY <2>b
  <2>1. ASSUME NEW l \in Lidars, Detect(l) PROVE OnceInv'
    BY <2>b, <2>1, DetectNewOnce, DetectKnownOnce, DetectLoaderOnce DEF Detect
  <2>2. ASSUME NEW l \in Lidars, NEW d \in air, Answered(d, l) PROVE OnceInv'
    BY <2>b, <2>2, AnsweredOnce, CfgAnsweredOnce DEF Answered
  <2>3. ASSUME NEW l \in Lidars, NEW t \in Threads, NEW c \in commands, Expires(t, c, l)
        PROVE  OnceInv'
    BY <2>b, <2>3, ExpiresOnce, WorkModeExpiresOnce DEF Expires
  <2>4. ASSUME NEW d \in air, NEW ret, LidarReads(d, ret) PROVE OnceInv'
    BY <2>b, <2>4, OnceSame DEF LidarReads, LidarAnswers
  <2>5. CASE UNCHANGED vars
    BY <2>b, <2>5, OnceSame DEF vars, layer, driver
  <2>6. QED
    BY <2>a, <2>b, <2>1, <2>2, <2>3, <2>4, <2>5, WakeUpOnce, LayerStepOnce DEF Next
<1>3. QED
  BY <1>1, <1>2, ConfigIsSound, PTL DEF Spec

(* As long as no sendto fails, the chains of retries never fork: but for   *)
(* the configuration, which every detection sends again, no request is     *)
(* outstanding twice, so that no answer is followed by a retry of what it  *)
(* has settled (livox_lidar_callback.cpp, QueryFwTypeCallback).            *)
THEOREM ChainsDoNotFork == Spec => []RetriesDoNotFork
<1>1. ConfigInv /\ SingleInv => RetriesDoNotFork
  <2> SUFFICES ASSUME ConfigInv, OnceInv, NEW r \in Requests, r.kind # "Cfg"
               PROVE  Outstanding(r) <= 1
    BY DEF SingleInv, RetriesDoNotFork
  <2> DEFINE W == {c \in Waiting : c.of = r}
             Q == {i \in DOMAIN todo : todo[i] = r}
  <2>1. Single(r)
    BY DEF OnceInv
  <2>2. /\ W = {} \/ \E c : W = {c}
        /\ Q = {} \/ \E i : Q = {i}
        /\ W = {} \/ Q = {}
    BY <2>1 DEF Single, OnceIn, ToSet
  <2> HIDE DEF W, Q
  <2>3. /\ Cardinality(W) = IF W = {} THEN 0 ELSE 1
        /\ Cardinality(Q) = IF Q = {} THEN 0 ELSE 1
    BY <2>2, FS_EmptySet, FS_Singleton
  <2>4. Outstanding(r) = Cardinality(W) + Cardinality(Q)
    BY DEF Outstanding, Queued, W, Q
  <2>5. QED
    BY <2>2, <2>3, <2>4
<1>2. QED
  BY <1>1, RequestsAreSingle, ConfigIsSound, PTL
-----------------------------------------------------------------------------
(* The way of a lidar to its data: detected, asked for its firmware type,  *)
(* told where to send or found to be a loader, configured by the driver.   *)

(* A lidar of which the firmware type is not known yet has been asked for  *)
(* it, one of which it is known is not asked again unless a sendto has     *)
(* failed, and none is configured before (DetectionData,                   *)
(* QueryFwTypeCallback, UpdateLidarCfg).                                   *)
FwInv(l) ==
    /\ devices[l].found /\ devices[l].fw = "unknown" => Pending(QueryFwType(l))
    /\ failures = 0 /\ devices[l].fw # "unknown" => ~Pending(QueryFwType(l))
    /\ Pending(Ask(l, "Cfg")) => devices[l].fw # "unknown"

(* Whoever has taken its configuration is known to the driver, and who is  *)
(* known to the driver still has a setting to take or sends its data       *)
(* (LivoxLidarInfoChange, set_bits).                                       *)
WaitsInv(l) ==
    /\ devices[l].is_update_cfg => devices[l].is_callback
    /\ devices[l].is_callback => devices[l].fw # "unknown"
    /\ devices[l].is_callback /\ Wanted(l) # {} =>
          set_bits[l] # {} \/ connect_state[l] = "Sampling"

LeftInv == \A l \in Lidars : FwInv(l) /\ WaitsInv(l)

(* A lidar with settings to take whose data is not published yet has not   *)
(* been detected, or is being asked for its firmware type, or is sent its  *)
(* configuration by the next detection, or is a loader and the next        *)
(* detection calls the driver, or is being asked to take one of its        *)
(* settings: whatever was lost, somebody will go on.                       *)
NobodyIsLeftOff ==
    \A l \in Lidars : l \in listed /\ config[l] # {} /\ connect_state[l] # "Sampling" =>
        \/ ~devices[l].found
        \/ devices[l].fw = "unknown" /\ Outstanding(QueryFwType(l)) > 0
        \/ devices[l].fw = "app" /\ Unconfigured(l)
        \/ devices[l].fw = "loader" /\ ~devices[l].is_callback
        \/ \E s \in set_bits[l] : Outstanding(Ask(l, s)) > 0

(* No step takes a lidar back: what is known of it stays known, a setting  *)
(* that it has taken is not waited for again, and its data stay published  *)
(* (devices_, set_bits, connect_state).  Only a second query for the       *)
(* firmware type, which a failed sendto leaves, may give another one.      *)
Forward(l) ==
    /\ devices[l].found => devices'[l].found
    /\ devices[l].fw # "unknown" => devices'[l].fw # "unknown"
    /\ failures' = 0 /\ devices[l].fw # "unknown" => devices'[l].fw = devices[l].fw
    /\ devices[l].is_callback => devices'[l].is_callback /\ set_bits'[l] \subseteq set_bits[l]
    /\ connect_state[l] = "Sampling" => connect_state'[l] = "Sampling"

NeverBack == [][\A l \in Lidars : Forward(l)]_vars
Advances == LeftInv' /\ \A l \in Lidars : Forward(l)

(* Once a sendto has failed it stays counted.                              *)
NoneBefore == failures' = 0 => failures = 0

LEMMA FwKept ==
    ASSUME LeftInv, NoneBefore, NEW gone, NEW rs, Moves(gone, rs),
           \A c \in gone : c.of.kind = "FwType" => c.of \in rs,
           \A r \in rs : r.kind = "FwType" => Pending(r),
           \A r \in rs : r.kind = "Cfg" => devices[r.lidar].fw # "unknown",
           NEW l \in Lidars, devices'[l].found = devices[l].found, devices'[l].fw = devices[l].fw
    PROVE  FwInv(l)'
<1>1. /\ QueryFwType(l).kind = "FwType" /\ Ask(l, "Cfg").kind = "Cfg" /\ Ask(l, "Cfg").lidar = l
      /\ QueryFwType(l)' = QueryFwType(l) /\ Ask(l, "Cfg")' = Ask(l, "Cfg")
  BY DEF QueryFwType, Ask
<1>2. Pending(QueryFwType(l))' <=> Pending(QueryFwType(l))
  <2>1. ASSUME Pending(QueryFwType(l))' PROVE Pending(QueryFwType(l))
    BY <1>1, <2>1 DEF Moves
  <2>2. ASSUME Pending(QueryFwType(l)) PROVE Pending(QueryFwType(l))'
    BY <1>1, <2>2 DEF Moves
  <2>3. QED
    BY <2>1, <2>2
<1>3. ASSUME Pending(Ask(l, "Cfg"))' PROVE devices[l].fw # "unknown"
  <2>1. Pending(Ask(l, "Cfg")) \/ Ask(l, "Cfg") \in rs
    BY <1>1, <1>3 DEF Moves
  <2>2. QED
    BY <1>1, <2>1 DEF LeftInv, FwInv
<1>4. QED
  BY <1>1, <1>2, <1>3 DEF LeftInv, FwInv, NoneBefore

LEMMA WaitsKept ==
    ASSUME LeftInv, NEW l \in Lidars, UNCHANGED <<chosen, set_bits, connect_state>>,
           devices'[l] = devices[l]
    PROVE  WaitsInv(l)'
  BY DEF LeftInv, WaitsInv, Wanted, chosen

(* A step that neither settles anything nor finds anything out.            *)
LEMMA QuietAdvances ==
    ASSUME LeftInv, NoneBefore, NEW gone, NEW rs, Moves(gone, rs),
           \A c \in gone : c.of.kind = "FwType" => c.of \in rs,
           \A r \in rs : r.kind = "FwType" => Pending(r),
           \A r \in rs : r.kind = "Cfg" => devices[r.lidar].fw # "unknown",
           UNCHANGED <<chosen, devices, set_bits, connect_state>>
    PROVE  Advances
<1>1. \A l \in Lidars : FwInv(l)'
  BY FwKept
<1>2. \A l \in Lidars : WaitsInv(l)'
  BY WaitsKept
<1>3. QED
  BY <1>1, <1>2 DEF Advances, LeftInv, Forward

(* The callback of the command c that repeats its request or drops one     *)
(* that is not for the firmware type.                                      *)
LEMMA LastCallGoesOn ==
    ASSUME ConfigInv, LeftInv, NoneBefore,
           NEW t, NEW c, NEW s, s \in {<<>>, <<c.of>>}, LastCall(t, c, s),
           s = <<>> => c.of.kind # "FwType",
           UNCHANGED <<chosen, devices, set_bits, connect_state>>
    PROVE  Advances
<1>1. c.of \in Requests /\ Pending(c.of)
  <2>1. c \in commands
    BY DEF LastCall, Expire, ConfigInv, LayerInv
  <2>2. QED
    BY <2>1 DEF ConfigInv, LayerInv, Commands, Pending, Waiting
<1>2. /\ s \in Seq(Requests) /\ ToSet(s) \subseteq {c.of}
      /\ s # <<>> => c.of \in ToSet(s)
  <2>1. CASE s = <<>>
    BY <2>1, ToSetOne
  <2>2. CASE s = <<c.of>>
    BY <1>1, <2>2, ToSetOne
  <2>3. QED
    BY <2>1, <2>2
<1>3. Moves({c}, ToSet(s)) \/ Moves({}, ToSet(s))
  BY <1>2, LastCallMoves DEF ConfigInv
<1>4. \A r \in ToSet(s) : r.kind = "Cfg" => devices[r.lidar].fw # "unknown"
  <2>1. c.of.kind = "Cfg" => c.of = Ask(c.of.lidar, "Cfg") /\ c.of.lidar \in Lidars
    BY <1>1, AskIsRequest
  <2>2. c.of.kind = "Cfg" => devices[c.of.lidar].fw # "unknown"
    BY <1>1, <2>1 DEF LeftInv, FwInv
  <2>3. QED
    BY <1>2, <2>2
<1>5. \A r \in ToSet(s) : r.kind = "FwType" => Pending(r)
  BY <1>1, <1>2
<1>6. \A gone \in {{}, {c}} : \A e \in gone : e.of.kind = "FwType" => e.of \in ToSet(s)
  BY <1>2
<1>7. QED
  BY <1>3, <1>4, <1>5, <1>6, QuietAdvances

LEMMA AnswerGoesOn ==
    ASSUME ConfigInv, LeftInv, NoneBefore, NEW d, NEW rs \in SUBSET {d.cmd.of}, TakeAnswer(d, rs),
           d.cmd.of.kind = "FwType" \/ rs = {},
           rs = {} => d.cmd.of.kind # "FwType",
           UNCHANGED <<chosen, devices, set_bits, connect_state>>
    PROVE  Advances
<1>1. d.cmd.of \in Requests
  BY DEF TakeAnswer, ConfigInv, LayerInv, Commands
<1>2. IsFiniteSet(rs) /\ rs \in SUBSET Requests
  <2>1. IsFiniteSet({d.cmd.of})
    BY FS_Singleton
  <2>2. QED
    BY <1>1, <2>1, FS_Subset
<1>3. Moves({d.cmd}, rs) /\ Pending(d.cmd.of)
  BY <1>2, AnswerMoves DEF ConfigInv
<1>4. \A r \in rs : r.kind = "Cfg" => devices[r.lidar].fw # "unknown"
  OBVIOUS
<1>5. QED
  BY <1>3, <1>4, QuietAdvances

(* The firmware type of a lidar becomes known: its request is gone, and it *)
(* was the only one unless a sendto has failed.                            *)
LEMMA TypedGoesOn ==
    ASSUME ConfigInv, SingleInv, LeftInv, NoneBefore,
           NEW l \in Lidars, NEW c, c \in commands, c.of = QueryFwType(l),
           NEW gone \in SUBSET {c}, Moves(gone, {}),
           failures' = 0 => Sends({c}, {}) \/ ExpiresOther(c, <<>>),
           NEW fw \in {"app", "loader"}, Typed(l, fw),
           UNCHANGED <<chosen, driver>>
    PROVE  Advances
<1> DEFINE r == QueryFwType(l)
<1>1. /\ r \in Requests /\ r.kind = "FwType" /\ r.kind # "Cfg" /\ r.lidar = l
      /\ Pending(r) /\ r' = r
      /\ Ask(l, "Cfg")' = Ask(l, "Cfg")
  BY AskIsRequest DEF QueryFwType, Pending, Waiting, Ask
<1>2. /\ devices' = [devices EXCEPT ![l].fw = fw] /\ devices \in [Lidars -> Devices]
      /\ failures' = 0 => devices[l].fw = "unknown"
  BY <1>1 DEF Typed, ConfigInv, ValuesInv, LeftInv, FwInv, NoneBefore
<1>3. /\ \A m \in Lidars : m # l => devices'[m] = devices[m]
      /\ devices'[l].fw = fw /\ devices'[l].found = devices[l].found
      /\ devices'[l].is_callback = devices[l].is_callback
      /\ devices'[l].is_update_cfg = devices[l].is_update_cfg
  BY <1>2 DEF Devices
<1>4. ASSUME failures' = 0 PROVE ~Pending(r)'
  <2>1. Single(r) /\ c \in Waiting
    BY <1>1, <1>4 DEF SingleInv, OnceInv, Waiting, NoneBefore
  <2> HIDE DEF r
  <2>2. c.of = r
    BY DEF r
  <2>3. \A e \in Waiting \ {c} : e.of # r
    BY <2>1, <2>2 DEF Single
  <2>4. r \notin ToSet(todo)
    BY <2>1, <2>2 DEF Single
  <2>5. commands \cap adding = {}
    BY DEF ConfigInv, LayerInv
  <2>6. Waiting' \subseteq Waiting \ {c} /\ (todo' = todo \/ todo' = <<>>)
    BY <1>4, <2>5 DEF Sends, ExpiresOther, Waiting
  <2>7. r \notin ToSet(todo')
    BY <2>4, <2>6, ToSetOne
  <2>8. QED
    BY <1>1, <2>3, <2>6, <2>7 DEF Pending
<1>5. ASSUME NEW m \in Lidars PROVE FwInv(m)' /\ WaitsInv(m)' /\ Forward(m)
  <2>1. CASE m = l
    <3>1. FwInv(m)'
      BY <1>1, <1>3, <1>4, <2>1 DEF FwInv
    <3>2. WaitsInv(m)' /\ Forward(m)
      BY <1>2, <1>3, <2>1 DEF LeftInv, WaitsInv, Wanted, Forward, chosen, driver
    <3>3. QED
      BY <3>1, <3>2
  <2>2. CASE m # l
    <3>1. QueryFwType(m) # r /\ QueryFwType(m)' = QueryFwType(m) /\ Ask(m, "Cfg") # r /\ Ask(m, "Cfg")' = Ask(m, "Cfg")
      BY <2>2, AskIsRequest DEF QueryFwType, Ask
    <3>2. /\ Pending(QueryFwType(m))' <=> Pending(QueryFwType(m))
          /\ Pending(Ask(m, "Cfg"))' => Pending(Ask(m, "Cfg"))
      <4>1. Pending(QueryFwType(m))' => Pending(QueryFwType(m))
        BY DEF Moves
      <4>2. Pending(QueryFwType(m)) => Pending(QueryFwType(m))'
        BY <3>1 DEF Moves
      <4>3. Pending(Ask(m, "Cfg"))' => Pending(Ask(m, "Cfg"))
        BY DEF Moves
      <4>4. QED
        BY <4>1, <4>2, <4>3
    <3>3. FwInv(m)'
      BY <1>3, <2>2, <3>1, <3>2 DEF LeftInv, FwInv, NoneBefore
    <3>4. WaitsInv(m)' /\ Forward(m)
      BY <1>3, <2>2, WaitsKept DEF Forward, driver
    <3>5. QED
      BY <3>3, <3>4
  <2>3. QED
    BY <2>1, <2>2
<1>6. QED
  BY <1>5 DEF Advances, LeftInv

LEMMA FwTypeGoesOn ==
    ASSUME ConfigInv, SingleInv, LeftInv, NoneBefore, NEW l \in Lidars, NEW d, FwTypeAnswered(d, l)
    PROVE  Advances
<1>1. QueryFwType(l).kind = "FwType"
  BY DEF QueryFwType, Ask
<1>2. d.cmd.of = QueryFwType(l) /\ UNCHANGED <<chosen, driver>>
  BY DEF FwTypeAnswered
<1>3. (IF GivesUp THEN "app" ELSE firmware[l]) \in {"app", "loader"}
  BY DEF ConfigInv, ValuesInv
<1>4. ASSUME NEW fw \in {"app", "loader"}, Typed(l, fw), TakeAnswer(d, {}) PROVE Advances
  <2>1. Sends({d.cmd}, {}) /\ d.cmd \in commands
    BY <1>4, FS_EmptySet, TakeAnswerEffect DEF ConfigInv
  <2>2. Moves({d.cmd}, {})
    BY <2>1, SendsMoves
  <2>3. QED
    BY <1>2, <1>4, <2>1, <2>2, TypedGoesOn
<1>5. CASE TakeAnswer(d, {QueryFwType(l)}) /\ UNCHANGED devices
  BY <1>1, <1>2, <1>5, AnswerGoesOn DEF driver
<1>6. QED
  BY <1>3, <1>4, <1>5 DEF FwTypeAnswered

LEMMA FwTypeFailsGoesOn ==
    ASSUME ConfigInv, SingleInv, LeftInv, NoneBefore, NEW l \in Lidars, NEW t \in Threads, NEW c,
           \/ FwTypeExpires(t, c, l)
           \/ \E u \in unsent : u.thread = t /\ u.cmd = c /\ FwTypeRefused(u, l)
    PROVE  Advances
<1>1. c.of = QueryFwType(l) /\ UNCHANGED <<chosen, driver>>
  BY FwTypeFails
<1>2. CASE Typed(l, "app") /\ LastCall(t, c, <<>>)
  <2>1. <<>> \in Seq(Requests) /\ ToSet(<<>>) = {}
    BY ToSetOne
  <2>2. c \in commands
    BY <1>2 DEF LastCall, Expire, ConfigInv, LayerInv
  <2>3. Moves({c}, {}) \/ Moves({}, {})
    BY <1>2, <2>1, LastCallMoves DEF ConfigInv
  <2>4. ASSUME failures' = 0 PROVE Sends({c}, {}) \/ ExpiresOther(c, <<>>)
    <3>1. Expire(t, c, <<>>)
      BY <1>2, <2>4 DEF LastCall, SingleInv, NoneBefore
    <3>2. QED
      BY <2>1, <3>1, ExpireEffect DEF ConfigInv
  <2>5. \A gone \in SUBSET {c} : Moves(gone, {}) => Advances
    BY <1>1, <1>2, <2>2, <2>4, TypedGoesOn
  <2>6. QED
    BY <2>3, <2>5
<1>3. CASE LastCall(t, c, <<QueryFwType(l)>>) /\ UNCHANGED devices
  <2>1. LastCall(t, c, <<c.of>>) /\ <<c.of>> # <<>>
    BY <1>1, <1>3
  <2>2. UNCHANGED <<chosen, devices, set_bits, connect_state>>
    BY <1>1, <1>3 DEF driver
  <2>3. QED
    BY <2>1, <2>2, LastCallGoesOn
<1>4. QED
  BY <1>2, <1>3, FwTypeFails

LEMMA PlainGoesOn ==
    ASSUME ConfigInv, LeftInv, NoneBefore, NEW l \in Lidars, NEW t \in Threads, NEW c,
           \/ CfgExpires(t, c, l) \/ \E s \in Settings : SettingExpires(t, c, l, s)
           \/ AttitudeExpires(t, c, l) \/ ImuExpires(t, c, l)
    PROVE  Advances
<1>1. c.of.kind # "FwType"
  <2>1. "FwType" \notin Settings
    BY SettingsAssumption
  <2>2. \E k \in Settings \cup {"Cfg", "Attitude", "Imu"} : c.of = Ask(l, k)
    BY DEF CfgExpires, SettingExpires, AttitudeExpires, ImuExpires
  <2>3. QED
    BY <2>1, <2>2 DEF Ask
<1>2. /\ LastCall(t, c, <<>>) \/ LastCall(t, c, <<c.of>>)
      /\ UNCHANGED <<chosen, devices, set_bits, connect_state>>
  BY DEF CfgExpires, SettingExpires, AttitudeExpires, ImuExpires, driver, LastCall
<1>3. QED
  BY <1>1, <1>2, LastCallGoesOn

LEMMA WorkModeGoesOn ==
    ASSUME ConfigInv, LeftInv, NoneBefore, NEW l \in Lidars, NEW t \in Threads, NEW c,
           \/ WorkModeExpires(t, c, l)
           \/ \E u \in unsent : u.thread = t /\ u.cmd = c /\ WorkModeRefused(u, l)
    PROVE  Advances
<1>1. /\ LastCall(t, c, <<>>) /\ c.of = Ask(l, "WorkMode")
      /\ UNCHANGED <<chosen, devices, set_bits, connect_state>>
  BY WorkModeFails
<1>2. c.of.kind # "FwType"
  BY <1>1 DEF Ask
<1>3. QED
  BY <1>1, <1>2, LastCallGoesOn

(* The answer to a setting: the last one of a lidar lets its data through. *)
LEMMA SettingGoesOn ==
    ASSUME ConfigInv, LeftInv, NoneBefore, NEW l \in Lidars, NEW s \in Settings, NEW d, SettingAnswered(d, l, s)
    PROVE  Advances
<1>1. /\ d.cmd.of = Ask(l, s) /\ TakeAnswer(d, {})
      /\ set_bits' = [set_bits EXCEPT ![l] = set_bits[l] \ {s}]
      /\ connect_state' = [connect_state EXCEPT ![l] = IF set_bits[l] \ {s} = {} THEN "Sampling" ELSE @]
      /\ UNCHANGED <<chosen, devices>>
  BY DEF SettingAnswered, Cleared
<1>2. Ask(l, s).kind = s /\ "FwType" \notin Settings
  BY SettingsAssumption, AskIsRequest
<1>3. Moves({d.cmd}, {})
  BY <1>1, FS_EmptySet, AnswerMoves DEF ConfigInv
<1>4. \A m \in Lidars : FwInv(m)'
  <2>1. \A c \in {d.cmd} : c.of.kind # "FwType"
    BY <1>1, <1>2
  <2>2. QED
    BY <1>1, <1>3, <2>1, FwKept
<1>5. ASSUME NEW m \in Lidars PROVE WaitsInv(m)' /\ Forward(m)
  <2>1. /\ set_bits \in [Lidars -> SUBSET Settings]
        /\ connect_state \in [Lidars -> {"Off", "Sampling"}]
    BY DEF ConfigInv, ValuesInv
  <2>2. CASE m = l
    <3>1. /\ set_bits'[m] = set_bits[m] \ {s}
          /\ connect_state'[m] = IF set_bits'[m] = {} THEN "Sampling" ELSE connect_state[m]
      BY <1>1, <2>1, <2>2
    <3>2. QED
      BY <1>1, <3>1 DEF LeftInv, WaitsInv, Forward, Wanted, chosen
  <2>3. CASE m # l
    <3>1. set_bits'[m] = set_bits[m] /\ connect_state'[m] = connect_state[m]
      BY <1>1, <2>1, <2>3
    <3>2. QED
      BY <1>1, <3>1 DEF LeftInv, WaitsInv, Forward, Wanted, chosen
  <2>4. QED
    BY <2>2, <2>3
<1>6. QED
  BY <1>4, <1>5 DEF Advances, LeftInv

(* The driver's callback, on either thread.                                *)
LEMMA InfoChangeGoesOn ==
    ASSUME ConfigInv, LeftInv, NoneBefore, NEW l \in Lidars, InfoChange(l), devices[l].fw # "unknown",
           NEW gone, Moves(gone, ToSet(Called(l))),
           \A c \in gone : c.of.kind # "FwType", UNCHANGED chosen
    PROVE  Advances
<1>1. /\ devices' = [devices EXCEPT ![l].is_update_cfg = TRUE, ![l].is_callback = TRUE]
      /\ devices \in [Lidars -> Devices] /\ set_bits \in [Lidars -> SUBSET Settings]
      /\ UNCHANGED connect_state
  BY DEF InfoChange, ConfigInv, ValuesInv
<1>2. /\ \A m \in Lidars : /\ devices'[m].found = devices[m].found
                           /\ devices'[m].fw = devices[m].fw
                           /\ m # l => devices'[m] = devices[m]
      /\ devices'[l].is_callback /\ devices'[l].is_update_cfg
  BY <1>1 DEF Devices
<1>3. \A r \in ToSet(Called(l)) : r.kind \notin {"FwType", "Cfg"}
  BY ScriptSends, ToSetOne, SettingsAssumption DEF Called, Others
<1>4. \A m \in Lidars : FwInv(m)'
  BY <1>2, <1>3, FwKept
<1>5. ASSUME NEW m \in Lidars PROVE WaitsInv(m)' /\ Forward(m)
  <2>1. Wanted(m)' = Wanted(m)
    BY DEF Wanted, chosen
  <2>2. CASE m = l /\ devices[l].is_callback
    <3>1. set_bits' = set_bits
      BY <2>2 DEF InfoChange
    <3>2. QED
      BY <1>1, <1>2, <2>1, <2>2, <3>1 DEF LeftInv, WaitsInv, Forward
  <2>3. CASE m = l /\ ~devices[l].is_callback
    <3>1. set_bits'[l] = set_bits[l] \cup Wanted(l)
      BY <1>1, <2>3 DEF InfoChange
    <3>2. QED
      BY <1>1, <1>2, <2>1, <2>3, <3>1 DEF LeftInv, WaitsInv, Forward
  <2>4. CASE m # l
    <3>1. set_bits'[m] = set_bits[m]
      BY <1>1, <2>4 DEF InfoChange
    <3>2. QED
      BY <1>1, <1>2, <2>1, <2>4, <3>1 DEF LeftInv, WaitsInv, Forward
  <2>5. QED
    BY <2>2, <2>3, <2>4
<1>6. QED
  BY <1>4, <1>5 DEF Advances, LeftInv

LEMMA CfgGoesOn ==
    ASSUME ConfigInv, LeftInv, NoneBefore, NEW l \in Lidars, NEW d, CfgAnswered(d, l)
    PROVE  Advances
<1>1. /\ d.cmd.of = Ask(l, "Cfg") /\ d.cmd.of.kind = "Cfg" /\ UNCHANGED chosen
  BY DEF CfgAnswered, Ask
<1>2. CASE InfoChange(l) /\ TakeAnswer(d, ToSet(Called(l)))
  <2>1. Called(l) \in Seq(Requests)
    BY ScriptSends DEF Called
  <2>2. ToSet(Called(l)) \in SUBSET Requests /\ IsFiniteSet(ToSet(Called(l)))
    BY <2>1, ToSetType
  <2>3. Pending(d.cmd.of) /\ Moves({d.cmd}, ToSet(Called(l)))
    BY <1>2, <2>2, AnswerMoves DEF ConfigInv
  <2>4. devices[l].fw # "unknown"
    BY <1>1, <2>3 DEF LeftInv, FwInv
  <2>5. QED
    BY <1>1, <1>2, <2>3, <2>4, InfoChangeGoesOn
<1>3. CASE TakeAnswer(d, {}) /\ UNCHANGED <<devices, driver>>
  BY <1>1, <1>3, AnswerGoesOn DEF driver
<1>4. QED
  BY <1>2, <1>3 DEF CfgAnswered

LEMMA OtherGoesOn ==
    ASSUME ConfigInv, LeftInv, NoneBefore, NEW l \in Lidars, NEW d, OtherAnswered(d, l)
    PROVE  Advances
<1>1. d.cmd.of.kind # "FwType"
  BY DEF OtherAnswered, Ask, ConfigInv, ValuesInv, Others
<1>2. QED
  BY <1>1, AnswerGoesOn DEF OtherAnswered, driver

LEMMA WakeUpGoesOn ==
    ASSUME ConfigInv, LeftInv, NoneBefore, NEW l \in Lidars, NEW t \in Threads, WakeUp(t, l)
    PROVE  Advances
<1> DEFINE r == Ask(l, "WorkMode")
<1>1. r \in Requests /\ r.kind = "WorkMode" /\ <<r>> \in Seq(Requests) /\ ToSet(<<r>>) = {r}
  BY AskIsRequest, ToSetOne DEF Others
<1>2. UNCHANGED <<chosen, devices, set_bits, connect_state>>
  BY DEF WakeUp
<1>3. Moves({}, {r})
  <2>1. CASE t = "cmd"
    BY <1>1, <2>1, SendMoves DEF WakeUp, ConfigInv
  <2>2. CASE t = "other"
    <3>1. OtherIsFree /\ todo' = <<r>> /\ UNCHANGED <<commands, adding, air>>
      BY <2>2 DEF WakeUp, ConfigInv, FoundInv, Awake
    <3>2. QED
      BY <1>1, <3>1, StartsMoves DEF ConfigInv
  <2>3. QED
    BY <2>1, <2>2 DEF Threads
<1> HIDE DEF r
<1>4. QED
  BY <1>1, <1>2, <1>3, QuietAdvances

LEMMA DetectGoesOn ==
    ASSUME ConfigInv, LeftInv, NoneBefore, NEW l \in Lidars, Detect(l)
    PROVE  Advances
<1>1. CASE DetectNew(l)
  <2> DEFINE r == QueryFwType(l)
  <2>1. /\ r \in Requests /\ r.kind = "FwType" /\ r.lidar = l
        /\ <<r>> \in Seq(Requests) /\ ToSet(<<r>>) = {r}
    BY AskIsRequest, ToSetOne DEF QueryFwType
  <2>2. /\ OtherIsFree /\ ~devices[l].found /\ todo' = <<r>>
        /\ devices' = [devices EXCEPT ![l] = [NoDevice EXCEPT !.found = TRUE]]
        /\ UNCHANGED <<commands, adding, air, chosen, driver>>
    BY <1>1 DEF DetectNew, DetectionIsFree
  <2>3. Moves({}, {r})
    BY <2>1, <2>2, StartsMoves DEF ConfigInv
  <2>4. /\ devices \in [Lidars -> Devices] /\ connect_state[l] # "Sampling"
        /\ devices[l].fw = "unknown" /\ ~devices[l].is_callback
    BY <2>2 DEF ConfigInv, ValuesInv, FoundInv, CallbackInv
  <2>5. /\ devices'[l].fw = "unknown" /\ devices'[l].found
        /\ ~devices'[l].is_callback /\ ~devices'[l].is_update_cfg
        /\ \A m \in Lidars : m # l => devices'[m] = devices[m]
    BY <2>2, <2>4 DEF NoDevice
  <2>6. ~Pending(Ask(l, "Cfg"))
    BY <2>2, AskIsRequest DEF ConfigInv, FoundInv
  <2>7. ASSUME NEW m \in Lidars PROVE FwInv(m)' /\ WaitsInv(m)' /\ Forward(m)
    <3>1. CASE m = l
      <4>1. r' = r /\ Ask(l, "Cfg")' = Ask(l, "Cfg") /\ Ask(l, "Cfg") # r
        BY DEF QueryFwType, Ask
      <4>2. Pending(r)' /\ ~Pending(Ask(l, "Cfg"))'
        BY <2>3, <2>6, <4>1 DEF Moves
      <4>3. QED
        BY <2>2, <2>4, <2>5, <3>1, <4>1, <4>2 DEF FwInv, WaitsInv, Forward, driver
    <3>2. CASE m # l
      <4>1. QueryFwType(m) # r /\ QueryFwType(m)' = QueryFwType(m) /\ Ask(m, "Cfg") # r /\ Ask(m, "Cfg")' = Ask(m, "Cfg")
        BY <3>2, AskIsRequest DEF QueryFwType, Ask
      <4>2. /\ Pending(QueryFwType(m))' <=> Pending(QueryFwType(m))
            /\ Pending(Ask(m, "Cfg"))' => Pending(Ask(m, "Cfg"))
        BY <2>3, <4>1 DEF Moves
      <4>3. FwInv(m)'
        BY <2>5, <3>2, <4>1, <4>2 DEF LeftInv, FwInv, NoneBefore
      <4>4. WaitsInv(m)' /\ Forward(m)
        BY <2>2, <2>5, <3>2, WaitsKept DEF Forward, driver
      <4>5. QED
        BY <4>3, <4>4
    <3>3. QED
      BY <3>1, <3>2
  <2>8. QED
    BY <2>7 DEF Advances, LeftInv
<1>2. CASE DetectKnown(l)
  <2> DEFINE r == Ask(l, "Cfg")
  <2>1. r \in Requests /\ r.kind = "Cfg" /\ r.lidar = l
    BY AskIsRequest
  <2>2. /\ devices[l].fw = "app" /\ SendFromCmd({}, {r})
        /\ UNCHANGED <<chosen, devices, set_bits, connect_state>>
    BY <1>2 DEF DetectKnown, SetCustomLidar, SendKnown, driver
  <2> HIDE DEF r
  <2>3. Moves({}, {r})
    BY <2>1, <2>2, SendMoves DEF ConfigInv
  <2>4. QED
    BY <2>1, <2>2, <2>3, QuietAdvances
<1>3. CASE DetectLoader(l)
  <2>1. /\ OtherIsFree /\ devices[l].fw = "loader" /\ InfoChange(l) /\ todo' = Called(l)
        /\ UNCHANGED <<commands, adding, air, chosen>>
    BY <1>3 DEF DetectLoader, DetectionIsFree
  <2>2. Called(l) \in Seq(Requests)
    BY ScriptSends DEF Called
  <2>3. Moves({}, ToSet(Called(l)))
    BY <2>1, <2>2, StartsMoves DEF ConfigInv
  <2>4. QED
    BY <2>1, <2>3, InfoChangeGoesOn
<1>4. QED
  BY <1>1, <1>2, <1>3 DEF Detect

(* Steps of the layer, steps of a lidar and steps of neither.              *)
LEMMA StillGoesOn ==
    ASSUME LeftInv, NoneBefore, \A r : Pending(r)' <=> Pending(r),
           UNCHANGED <<chosen, devices, set_bits, connect_state>>
    PROVE  Advances
<1>1. \A l \in Lidars : FwInv(l)'
  BY DEF LeftInv, FwInv, QueryFwType, Ask, NoneBefore
<1>2. \A l \in Lidars : WaitsInv(l)' /\ Forward(l)
  BY WaitsKept DEF Forward
<1>3. QED
  BY <1>1, <1>2 DEF Advances, LeftInv

LEMMA OutsideGoesOn ==
    ASSUME ConfigInv, LeftInv, NoneBefore,
           LayerStep \/ (\E d, ret : LidarReads(d, ret)) \/ UNCHANGED vars
    PROVE  Advances
<1>1. CASE LayerStep
  <2>1. Moves({}, {}) /\ UNCHANGED <<chosen, devices, set_bits, connect_state>>
    BY <1>1, LayerStepMoves DEF ConfigInv, LayerStep, driver
  <2>2. QED
    BY <2>1, QuietAdvances
<1>2. ASSUME NEW d, NEW ret, LidarReads(d, ret) PROVE Advances
  <2>1. UNCHANGED <<commands, adding, todo, chosen, devices, set_bits, connect_state>>
    BY <1>2 DEF LidarReads, LidarAnswers
  <2>2. \A r : Pending(r)' <=> Pending(r)
    BY <2>1 DEF Pending, Waiting
  <2>3. QED
    BY <2>1, <2>2, StillGoesOn
<1>3. CASE UNCHANGED vars
  <2>1. UNCHANGED <<commands, adding, todo, chosen, devices, set_bits, connect_state>>
    BY <1>3 DEF vars, layer, driver
  <2>2. \A r : Pending(r)' <=> Pending(r)
    BY <2>1 DEF Pending, Waiting
  <2>3. QED
    BY <2>1, <2>2, StillGoesOn
<1>4. QED
  BY <1>1, <1>2, <1>3

LEMMA StepGoesOn ==
    ASSUME ConfigInv, SingleInv, LeftInv, [Next]_vars
    PROVE  Advances
<1>0. NoneBefore
  BY ConfigCounts, MaxFailuresAssumption DEF NoneBefore, Counts, ConfigInv, LayerInv
<1>1. ASSUME NEW l \in Lidars, NEW d \in air, Answered(d, l) PROVE Advances
  BY <1>0, <1>1, FwTypeGoesOn, CfgGoesOn, SettingGoesOn, OtherGoesOn DEF Answered
<1>2. ASSUME NEW l \in Lidars, NEW t \in Threads, NEW c \in commands, Expires(t, c, l)
      PROVE  Advances
  BY <1>0, <1>2, FwTypeFailsGoesOn, PlainGoesOn, WorkModeGoesOn DEF Expires
<1>3. ASSUME NEW l \in Lidars, NEW u \in unsent, Refused(u, l) PROVE Advances
  <2>1. u.thread \in Threads
    BY DEF ConfigInv, LayerInv
  <2>2. CASE FwTypeRefused(u, l)
    BY <1>0, <2>1, <2>2, FwTypeFailsGoesOn
  <2>3. CASE WorkModeRefused(u, l)
    BY <1>0, <2>1, <2>3, WorkModeGoesOn
  <2>4. QED
    BY <1>3, <2>2, <2>3 DEF Refused
<1>4. QED
  BY <1>0, <1>1, <1>2, <1>3, DetectGoesOn, WakeUpGoesOn, OutsideGoesOn DEF Next

LEMMA LeftInvHolds == Spec => []LeftInv
<1>1. Init => LeftInv
  <2> SUFFICES ASSUME Init PROVE LeftInv
    OBVIOUS
  <2>1. \A r : ~Pending(r)
    BY ToSetOne DEF Init, InitLayer, Pending, Waiting
  <2>2. \A l \in Lidars : devices[l] = NoDevice
    BY DEF Init
  <2>3. QED
    BY <2>1, <2>2 DEF LeftInv, FwInv, WaitsInv, NoDevice
<1>2. ConfigInv /\ SingleInv /\ LeftInv /\ [Next]_vars => LeftInv'
  BY StepGoesOn DEF Advances
<1>3. QED
  BY <1>1, <1>2, ConfigIsSound, RequestsAreSingle, PTL DEF Spec

(* Whatever datagrams are lost, refused or too early, and whatever sendto  *)
(* fails, a lidar that has settings to take is never left without anything *)
(* that goes on with it: what EventuallySampling says short of fairness,   *)
(* and the program goes on unless it has Crashed.                          *)
THEOREM SomebodyGoesOn == Spec => []NobodyIsLeftOff
<1>1. ConfigInv /\ LeftInv => NobodyIsLeftOff
  <2> SUFFICES ASSUME ConfigInv, LeftInv,
                      NEW l \in Lidars, l \in listed, config[l] # {}, connect_state[l] # "Sampling"
               PROVE  \/ ~devices[l].found
                      \/ devices[l].fw = "unknown" /\ Outstanding(QueryFwType(l)) > 0
                      \/ devices[l].fw = "app" /\ Unconfigured(l)
                      \/ devices[l].fw = "loader" /\ ~devices[l].is_callback
                      \/ \E s \in set_bits[l] : Outstanding(Ask(l, s)) > 0
    BY DEF NobodyIsLeftOff
  <2>1. FwInv(l) /\ WaitsInv(l) /\ Wanted(l) # {}
    BY DEF LeftInv, Wanted
  <2>2. devices[l] \in Devices /\ set_bits[l] \subseteq Settings
    BY DEF ConfigInv, ValuesInv
  <2>3. CASE devices[l].fw = "unknown"
    BY <2>1, <2>3, PendingCounts DEF FwInv
  <2>4. CASE devices[l].is_callback
    <3>1. PICK s \in set_bits[l] : TRUE
      BY <2>1, <2>4 DEF WaitsInv
    <3>2. Outstanding(Ask(l, s)) > 0
      BY <2>2, <3>1, PendingCounts DEF ConfigInv, AskedInv
    <3>3. QED
      BY <3>1, <3>2
  <2>5. QED
    BY <2>1, <2>2, <2>3, <2>4 DEF WaitsInv, Unconfigured, Devices
<1>2. QED
  BY <1>1, ConfigIsSound, LeftInvHolds, PTL

(* No step takes a lidar back on its way from the first detection to its   *)
(* data, whatever sendto fails (QueryFwTypeCallback, LivoxLidarInfoChange, *)
(* Set...Callback).                                                        *)
THEOREM NoStepTakesBack == Spec => NeverBack
<1>1. ConfigInv /\ SingleInv /\ LeftInv /\ [Next]_vars => [\A l \in Lidars : Forward(l)]_vars
  BY StepGoesOn DEF Advances
<1>2. QED
  BY <1>1, ConfigIsSound, RequestsAreSingle, LeftInvHolds, PTL DEF Spec, NeverBack
-----------------------------------------------------------------------------
(* No two keys have the same number.                                       *)
LEMMA KeyNumbers ==
    /\ ParamKeyName \in [Keys -> Nat]
    /\ \A k \in Keys : ParamKeyName[k] <= 65535
    /\ \A j, k \in Keys : ParamKeyName[j] = ParamKeyName[k] => j = k
<1>1. \A k \in Keys : ParamKeyName[k] \in Nat
  BY DEF Keys, ParamKeyName
<1>2. \A k \in Keys : ParamKeyName[k] <= 65535
  BY DEF Keys, ParamKeyName
<1>3. \A j, k \in Keys : ParamKeyName[j] = ParamKeyName[k] => j = k
  BY SMTT(60) DEF Keys, ParamKeyName
<1>4. ParamKeyName = [k \in Keys |-> ParamKeyName[k]]
  BY DEF Keys, ParamKeyName
<1>5. QED
  BY <1>1, <1>2, <1>3, <1>4

(* There are finitely many of them, for numbers of 16 bits.                *)
LEMMA KeysFinite == IsFiniteSet(Keys)
<1> DEFINE numbers == {n \in Nat : n <= 65535}
<1>1. ParamKeyName \in Injection(Keys, numbers)
  BY KeyNumbers DEF Injection, IsInjective
<1>2. IsFiniteSet(numbers)
  BY FS_BoundedSetOfNaturals
<1>3. QED
  BY <1>1, <1>2, FS_Injection

(* Tables of different keys, as one: each entry is that of its table.      *)
LEMMA MergedAt ==
    ASSUME NEW tables, NEW f \in tables, NEW x \in DOMAIN f,
           \A g \in tables : x \in DOMAIN g => g = f
    PROVE  x \in DOMAIN Merged(tables) /\ Merged(tables)[x] = f[x]
<1>1. x \in DOMAIN Merged(tables)
  BY DEF Merged
<1>2. (CHOOSE g \in tables : x \in DOMAIN g) = f
  OBVIOUS
<1>3. QED
  BY <1>1, <1>2 DEF Merged

LEMMA MergedDomain ==
    \A tables : \A x \in DOMAIN Merged(tables) : \E f \in tables : x \in DOMAIN f
  BY DEF Merged

(* The names and layouts of the report, table by table.                    *)
LEMMA JsonAt ==
    /\ \A k \in DOMAIN JsonNetwork : k \in DOMAIN Json /\ Json[k] = JsonNetwork[k]
    /\ \A k \in DOMAIN JsonSettings : k \in DOMAIN Json /\ Json[k] = JsonSettings[k]
    /\ \A k \in DOMAIN JsonStatus : k \in DOMAIN Json /\ Json[k] = JsonStatus[k]
    /\ \A k \in DOMAIN Json : k \in DOMAIN JsonNetwork \cup DOMAIN JsonSettings \cup DOMAIN JsonStatus
<1> DEFINE tables == {JsonNetwork, JsonSettings, JsonStatus}
<1>1. /\ DOMAIN JsonNetwork \cap DOMAIN JsonSettings = {}
      /\ DOMAIN JsonNetwork \cap DOMAIN JsonStatus = {}
      /\ DOMAIN JsonSettings \cap DOMAIN JsonStatus = {}
  BY DEF JsonNetwork, JsonSettings, JsonStatus
<1>2. ASSUME NEW f \in tables, NEW k \in DOMAIN f
      PROVE  k \in DOMAIN Json /\ Json[k] = f[k]
  <2>1. \A g \in tables : k \in DOMAIN g => g = f
    BY <1>1
  <2>2. QED
    BY <2>1, MergedAt DEF Json
<1>3. \A k \in DOMAIN Json : \E f \in tables : k \in DOMAIN f
  BY MergedDomain DEF Json
<1>4. QED
  BY <1>2, <1>3

LEMMA JsonKeys ==
    /\ DOMAIN Json = ParsedSettings \cup ParsedStatus
    /\ DOMAIN Json \subseteq Keys
<1>1. /\ DOMAIN JsonNetwork \cup DOMAIN JsonSettings = ParsedSettings
      /\ DOMAIN JsonStatus = ParsedStatus
  BY DEF JsonNetwork, JsonSettings, JsonStatus, ParsedSettings, ParsedStatus
<1>2. ParsedSettings \cup ParsedStatus \subseteq Keys
  BY DEF ParsedSettings, ParsedStatus, Keys, ParamKeyName
<1>3. DOMAIN Json = DOMAIN JsonNetwork \cup DOMAIN JsonSettings \cup DOMAIN JsonStatus
  BY JsonAt
<1>4. QED
  BY <1>1, <1>2, <1>3

(* No two keys are written under the same name.                            *)
LEMMA JsonNames ==
    \A j, k \in DOMAIN Json : Json[j][1] = Json[k][1] => j = k
<1>1. /\ \A j, k \in DOMAIN JsonNetwork : JsonNetwork[j][1] = JsonNetwork[k][1] => j = k
      /\ \A j, k \in DOMAIN JsonSettings : JsonSettings[j][1] = JsonSettings[k][1] => j = k
  BY SMTT(60) DEF JsonNetwork, JsonSettings
<1>2. \A j, k \in DOMAIN JsonStatus : JsonStatus[j][1] = JsonStatus[k][1] => j = k
  BY SMTT(60) DEF JsonStatus
<1>3. \A j \in DOMAIN JsonNetwork, k \in DOMAIN JsonSettings : JsonNetwork[j][1] # JsonSettings[k][1]
  BY SMTT(60) DEF JsonNetwork, JsonSettings
<1>4. \A j \in DOMAIN JsonNetwork, k \in DOMAIN JsonStatus : JsonNetwork[j][1] # JsonStatus[k][1]
  BY SMTT(60) DEF JsonNetwork, JsonStatus
<1>5. \A j \in DOMAIN JsonSettings, k \in DOMAIN JsonStatus : JsonSettings[j][1] # JsonStatus[k][1]
  BY SMTT(60) DEF JsonSettings, JsonStatus
<1>6. QED
  BY <1>1, <1>2, <1>3, <1>4, <1>5, JsonAt

(* A push has every key once: the number of keys before a key is a         *)
(* bijection between the keys and the places of the push.                  *)
LEMMA OrderIsAll ==
    /\ DOMAIN Order \subseteq Int
    /\ \A i \in DOMAIN Order : Order[i] \in Keys
    /\ \A k \in Keys : \E i \in DOMAIN Order : Order[i] = k
    /\ \A i, j \in DOMAIN Order : Order[i] = Order[j] => i = j
<1> DEFINE Lower(k) == {j \in Keys : ParamKeyName[j] < ParamKeyName[k]}
           size == Cardinality(Keys)
           rank == [k \in Keys |-> Cardinality(Lower(k)) + 1]
<1>1. IsFiniteSet(Keys) /\ size \in Nat
  BY KeysFinite, FS_CardinalityType
<1>2. ASSUME NEW k \in Keys
      PROVE  Cardinality(Lower(k)) \in 0 .. size - 1
  <2>1. Lower(k) \in SUBSET Keys /\ Lower(k) # Keys
    BY KeyNumbers
  <2>2. IsFiniteSet(Lower(k)) /\ Cardinality(Lower(k)) <= size /\ Cardinality(Lower(k)) # size
    BY <2>1, <1>1, FS_Subset
  <2>3. QED
    BY <2>2, <1>1, FS_CardinalityType
<1>3. ASSUME NEW j \in Keys, NEW k \in Keys, ParamKeyName[j] < ParamKeyName[k]
      PROVE  Cardinality(Lower(j)) # Cardinality(Lower(k))
  <2>1. Lower(j) \in SUBSET Lower(k) /\ j \in Lower(k) /\ j \notin Lower(j)
    BY <1>3, KeyNumbers
  <2>2. IsFiniteSet(Lower(k))
    BY <1>1, FS_Subset
  <2>3. QED
    BY <2>1, <2>2, FS_Subset
<1>4. rank \in Injection(Keys, 1 .. size)
  <2>1. rank \in [Keys -> 1 .. size]
    BY <1>1, <1>2
  <2>2. \A j, k \in Keys : j # k => rank[j] # rank[k]
    <3>1. SUFFICES ASSUME NEW j \in Keys, NEW k \in Keys, j # k
                   PROVE  rank[j] # rank[k]
      OBVIOUS
    <3>2. ParamKeyName[j] < ParamKeyName[k] \/ ParamKeyName[k] < ParamKeyName[j]
      BY <3>1, KeyNumbers
    <3>3. Cardinality(Lower(j)) # Cardinality(Lower(k))
      BY <3>2, <1>3
    <3>4. Cardinality(Lower(j)) \in Nat /\ Cardinality(Lower(k)) \in Nat
      BY <1>1, <1>2
    <3>5. QED
      BY <3>3, <3>4
  <2>3. QED
    BY <2>1, <2>2 DEF Injection, IsInjective
<1>5. rank \in Surjection(Keys, 1 .. size)
  <2>1. IsFiniteSet(1 .. size) /\ Cardinality(1 .. size) = size
    BY <1>1, FS_Interval
  <2>2. QED
    BY <2>1, <1>4, FS_Injection
<1>6. \A i \in 1 .. size : Order[i] \in Keys /\ rank[Order[i]] = i
  <2>1. SUFFICES ASSUME NEW i \in 1 .. size
                 PROVE  Order[i] \in Keys /\ rank[Order[i]] = i
    OBVIOUS
  <2>2. PICK k \in Keys : rank[k] = i
    BY <1>5 DEF Surjection
  <2>3. Cardinality(Lower(k)) = i - 1
    BY <2>2, <1>2, <1>1
  <2>4. Order[i] = CHOOSE x \in Keys : Cardinality(Lower(x)) = i - 1
    BY DEF Order
  <2>5. Order[i] \in Keys /\ Cardinality(Lower(Order[i])) = i - 1
    BY <2>3, <2>4
  <2>6. QED
    BY <2>5, <1>1
<1>7. DOMAIN Order = 1 .. size
  BY DEF Order
<1>8. \A j, k \in Keys : rank[j] = rank[k] => j = k
  BY <1>4 DEF Injection, IsInjective
<1>9. \A k \in Keys : rank[k] \in 1 .. size
  BY <1>4 DEF Injection
<1> HIDE DEF size, rank
<1>10. QED
  BY <1>6, <1>7, <1>8, <1>9

(* So the parser finds every value it knows a key of.                      *)
LEMMA ParsedIsHeld ==
    ParseStateInfo(Pairs(Order)) = [k \in DOMAIN Json |-> held[k]]
<1> DEFINE pairs == Pairs(Order)
           last(k) == CHOOSE i \in DOMAIN pairs :
                          /\ pairs[i].key = ParamKeyName[k]
                          /\ \A j \in DOMAIN pairs : pairs[j].key = ParamKeyName[k] => j <= i
           known == {k \in ParsedSettings \cup ParsedStatus :
                        \E i \in DOMAIN pairs : pairs[i].key = ParamKeyName[k]}
<1>1. DOMAIN pairs = DOMAIN Order
  BY DEF Pairs
<1>2. \A i \in DOMAIN Order : pairs[i].key = ParamKeyName[Order[i]] /\ pairs[i].value = held[Order[i]]
  BY DEF Pairs, KeyValue
<1>3. ASSUME NEW k \in Keys
      PROVE  \E i \in DOMAIN pairs : pairs[i].key = ParamKeyName[k] /\ pairs[last(k)].value = held[k]
  <2>1. PICK i \in DOMAIN Order : Order[i] = k
    BY OrderIsAll
  <2>2. \A j \in DOMAIN Order : pairs[j].key = ParamKeyName[k] => j = i
    BY <2>1, <1>2, OrderIsAll, KeyNumbers
  <2>3. pairs[i].key = ParamKeyName[k] /\ i \in Int
    BY <2>1, <1>2, OrderIsAll
  <2>4. last(k) = i
    BY <2>2, <2>3, <1>1
  <2>5. QED
    BY <2>1, <2>3, <2>4, <1>1, <1>2
<1>4. known = DOMAIN Json
  BY <1>3, JsonKeys
<1>5. \A k \in DOMAIN Json : pairs[last(k)].value = held[k]
  BY <1>3, JsonKeys
<1>6. ParseStateInfo(pairs) = [k \in known |-> pairs[last(k)].value]
  BY DEF ParseStateInfo
<1>7. QED
  <2> HIDE DEF pairs, last, known
  <2>1. [k \in known |-> pairs[last(k)].value] = [k \in DOMAIN Json |-> held[k]]
    BY <1>4, <1>5
  <2>2. QED
    BY <2>1, <1>6 DEF pairs

(* What the report says of a key that has the value v on the wire.         *)
Told(k, v) == [i \in DOMAIN Json[k][2] |-> Written(Json[k][2][i], v[i])]

(* A push is reported as what the lidar holds, under the names of the keys.*)
LEMMA ReportIsHeld ==
    LET json == StateInfoToJson(ParseStateInfo(Pairs(Order)))
    IN  /\ DOMAIN json = {Json[k][1] : k \in DOMAIN Json}
        /\ \A k \in DOMAIN Json : json[Json[k][1]] = Told(k, held[k])
<1> DEFINE info == [k \in DOMAIN Json |-> held[k]]
           of(name) == CHOOSE k \in DOMAIN info : Json[k][1] = name
<1>1. ASSUME NEW k \in DOMAIN Json
      PROVE  of(Json[k][1]) = k
  BY JsonNames
<1>2. StateInfoToJson(info) =
          [name \in {Json[k][1] : k \in DOMAIN info} |->
              [i \in DOMAIN Json[of(name)][2] |-> Written(Json[of(name)][2][i], info[of(name)][i])]]
  BY DEF StateInfoToJson
<1>3. DOMAIN info = DOMAIN Json /\ \A k \in DOMAIN Json : info[k] = held[k]
  OBVIOUS
<1> HIDE DEF info, of
<1>4. \A k \in DOMAIN Json : StateInfoToJson(info)[Json[k][1]] = Told(k, held[k])
  BY <1>1, <1>2, <1>3 DEF Told
<1>5. DOMAIN StateInfoToJson(info) = {Json[k][1] : k \in DOMAIN Json}
  BY <1>2, <1>3
<1>6. QED
  BY <1>4, <1>5, ParsedIsHeld DEF info
-----------------------------------------------------------------------------
(* A number that is put on the wire, and read there as it was meant.       *)
LEMMA WordFacts ==
    /\ Word \in Nat /\ Word > 65535 /\ Word \div 2 \in Nat /\ Word = 2 * (Word \div 2)
  BY SettingsConstants

LEMMA UnsignedSurvives ==
    ASSUME NEW a \in Unsigned, NEW how, how # "Int"
    PROVE  Written(how, a % Word) = a
<1>1. a % Word = a
  BY WordFacts DEF Unsigned
<1>2. QED
  BY <1>1 DEF Written

(* A number as wide as its member is stored as it is.                      *)
LEMMA MemberKeeps ==
    ASSUME NEW name, NEW a \in Unsigned,
           name = "SetLivoxLidarDualEmit" => a < 2,
           name \notin WideSetters => a < 256
    PROVE  Member(name, a) = a
<1>1. a \in Nat /\ a < Word
  BY WordFacts DEF Unsigned
<1>2. a % Word = a
  BY <1>1, WordFacts
<1>3. a < 256 => a % 256 = a
  BY <1>1
<1>4. a < 2 => a = 0 \/ a = 1
  BY <1>1
<1>5. QED
  BY <1>2, <1>3, <1>4 DEF Member

LEMMA SignedSurvives ==
    ASSUME NEW a \in Signed
    PROVE  Written("Int", a % Word) = a /\ (a >= 0 => Written("Uint", a % Word) = a)
<1>1. a \in Int /\ a >= -(Word \div 2) /\ a < Word \div 2
  BY WordFacts DEF Signed
<1>2. CASE a >= 0
  <2>1. a % Word = a
    BY <1>1, <1>2, WordFacts
  <2>2. QED
    BY <2>1, <1>1, <1>2, WordFacts DEF Written
<1>3. CASE a < 0
  <2>1. a % Word = a + Word
    BY <1>1, <1>3, WordFacts
  <2>2. QED
    BY <2>1, <1>1, <1>3, WordFacts DEF Written
<1>4. QED
  BY <1>1, <1>2, <1>3

LEMMA AddressSurvives ==
    ASSUME NEW ip \in Seq(Int), IsIp(ip), 256 \notin Range(ip)
    PROVE  IpToU8(ip) = ip
<1>1. \A i \in 1 .. 4 : ip[i] \in Int /\ ip[i] >= 0 /\ ip[i] < 256
  <2>1. SUFFICES ASSUME NEW i \in 1 .. 4
                 PROVE  ip[i] \in Int /\ ip[i] >= 0 /\ ip[i] < 256
    OBVIOUS
  <2>2. i \in DOMAIN ip /\ ip[i] >= 0 /\ ip[i] <= 256
    BY DEF IsIp
  <2>3. ip[i] # 256
    BY <2>2 DEF Range
  <2>4. ip[i] \in Int
    BY <2>2
  <2>5. QED
    BY <2>2, <2>3, <2>4
<1>2. \A i \in 1 .. 4 : ip[i] % 256 = ip[i]
  <2>1. \A x \in Int : x >= 0 /\ x < 256 => x % 256 = x
    OBVIOUS
  <2>2. QED
    BY <1>1, <2>1
<1>3. ip = [i \in 1 .. 4 |-> ip[i]]
  BY DEF IsIp
<1>4. QED
  BY <1>2, <1>3 DEF IpToU8
-----------------------------------------------------------------------------
(* The tables of the setters and of the switches, and whose names differ.  *)
LEMMA SetterTables ==
    \A f \in {ModeSetters, StructSetters, FovSetters, IoSetters, HeatSetters, LogSetters, BootSetters} :
        \A n \in DOMAIN f : n \in DOMAIN Setters /\ Setters[n] = f[n]
<1> DEFINE tables ==
               {ModeSetters, StructSetters, FovSetters, IoSetters, HeatSetters, LogSetters, BootSetters}
<1>1. \A f, g \in tables : f # g => DOMAIN f \cap DOMAIN g = {}
  BY DEF ModeSetters, StructSetters, FovSetters, IoSetters, HeatSetters, LogSetters, BootSetters
<1>2. ASSUME NEW f \in tables, NEW n \in DOMAIN f
      PROVE  n \in DOMAIN Setters /\ Setters[n] = f[n]
  <2>1. Setters = Merged(tables)
    BY DEF Setters
  <2> HIDE DEF tables
  <2>2. \A g \in tables : n \in DOMAIN g => g = f
    BY <1>1
  <2>3. QED
    BY <2>1, <2>2, MergedAt
<1>3. QED
  BY <1>2

LEMMA SwitchTables ==
    /\ \A f \in {PointSwitches, FovSwitches, HeatSwitches, FusaSwitches, ForcedHeating} :
           \A n \in DOMAIN f : n \in DOMAIN Switches /\ Switches[n] = f[n]
    /\ \A n \in DOMAIN Switches :
           \E f \in {PointSwitches, FovSwitches, HeatSwitches, FusaSwitches, ForcedHeating} :
               n \in DOMAIN f
<1> DEFINE tables == {PointSwitches, FovSwitches, HeatSwitches, FusaSwitches, ForcedHeating}
<1>1. \A f, g \in tables : f # g => DOMAIN f \cap DOMAIN g = {}
  BY DEF PointSwitches, FovSwitches, HeatSwitches, FusaSwitches, ForcedHeating
<1>2. ASSUME NEW f \in tables, NEW n \in DOMAIN f
      PROVE  n \in DOMAIN Switches /\ Switches[n] = f[n]
  <2>1. Switches = Merged(tables)
    BY DEF Switches
  <2> HIDE DEF tables
  <2>2. \A g \in tables : n \in DOMAIN g => g = f
    BY <1>1
  <2>3. QED
    BY <2>1, <2>2, MergedAt
<1>3. \A n \in DOMAIN Switches : \E f \in tables : n \in DOMAIN f
  BY MergedDomain DEF Switches
<1>4. QED
  BY <1>2, <1>3

OneMemberSetters ==
    {"SetLivoxLidarPclDataType", "SetLivoxLidarScanPattern", "SetLivoxLidarDualEmit",
     "EnableLivoxLidarFov", "SetLivoxLidarDetectMode", "SetLivoxLidarGlassHeat",
     "SetLivoxLidarLogParam", "SetLivoxLidarWorkModeAfterBoot", "SetLivoxLidarBlindSpot",
     "SetLivoxLidarWorkMode"}

LEMMA OneMemberIs == OneMember = OneMemberSetters
<1> DEFINE tables == {ModeSetters, FovSetters, HeatSetters, LogSetters, BootSetters}
<1>1. DOMAIN Merged(tables) = UNION {DOMAIN f : f \in tables}
  BY DEF Merged
<1>2. UNION {DOMAIN f : f \in tables} =
          {"SetLivoxLidarPclDataType", "SetLivoxLidarScanPattern", "SetLivoxLidarDualEmit",
           "EnableLivoxLidarFov", "SetLivoxLidarDetectMode", "SetLivoxLidarGlassHeat",
           "SetLivoxLidarLogParam", "SetLivoxLidarWorkModeAfterBoot"}
  <2>1. UNION {DOMAIN f : f \in tables} =
            DOMAIN ModeSetters \cup DOMAIN FovSetters \cup DOMAIN HeatSetters
                \cup DOMAIN LogSetters \cup DOMAIN BootSetters
    OBVIOUS
  <2>2. QED
    BY <2>1 DEF ModeSetters, FovSetters, HeatSetters, LogSetters, BootSetters
<1>3. QED
  BY <1>1, <1>2 DEF OneMember, OneMemberSetters

LEMMA NotSwitches ==
    \A n \in OneMemberSetters \cup DOMAIN StructSetters \cup {"SetLivoxLidarFuncIOCfg"}
             \cup DOMAIN IpSetters \cup DOMAIN HostSetters : n \notin DOMAIN Switches
<1>1. SUFFICES ASSUME NEW n \in DOMAIN Switches
               PROVE  n \notin OneMemberSetters \cup DOMAIN StructSetters \cup {"SetLivoxLidarFuncIOCfg"}
                               \cup DOMAIN IpSetters \cup DOMAIN HostSetters
  OBVIOUS
<1>2. n \in DOMAIN PointSwitches \cup DOMAIN FovSwitches \cup DOMAIN HeatSwitches
                \cup DOMAIN FusaSwitches \cup DOMAIN ForcedHeating
  BY SwitchTables
<1>3. QED
  BY <1>2 DEF PointSwitches, FovSwitches, HeatSwitches, FusaSwitches, ForcedHeating,
              OneMemberSetters, StructSetters, IpSetters, HostSetters

(* A call writes a key the lidar does not measure, its subject is the name *)
(* of the key in the report, and the value reads there as the call says.   *)
Writes(c, kv, k) ==
    /\ k \in Keys /\ kv.key = ParamKeyName[k]
    /\ k \in DOMAIN Json => Json[k][1] \notin DOMAIN Measured
    /\ About(c) = {Json[j][1] : j \in {k} \cap DOMAIN Json}
    /\ Survives(c) /\ k \in DOMAIN Json => Told(k, kv.value) = Said(c)

(* What the report calls the keys that are written, and how they read.     *)
LEMMA WrittenKeys ==
    /\ \A k \in {"PclDataType", "PatternMode", "DualEmitEn", "PointSendEn", "LidarIpCfg",
                 "StateInfoHostIpCfg", "LidarPointDataHostIpCfg", "LidarImuHostIpCfg",
                 "InstallAttitude", "FovCfg0", "FovCfg1", "FovCfgEn", "DetectMode", "FuncIoCfg",
                 "BlindSpotSet", "WorkMode", "GlassHeat", "ImuDataEn", "FusaEn"} :
          k \in Keys /\ k \in DOMAIN Json /\ Json[k][1] \notin DOMAIN Measured
    /\ \A k \in {"LogParamSet", "WorkModeAfterBoot", "ForceHeatEn"} : k \in Keys /\ k \notin DOMAIN Json
<1>1. \A k \in DOMAIN JsonNetwork : k \in Keys /\ k \in DOMAIN Json /\ Json[k][1] \notin DOMAIN Measured
  <2>1. \A k \in DOMAIN JsonNetwork : JsonNetwork[k][1] \notin DOMAIN Measured
    BY DEF JsonNetwork, Measured
  <2>2. QED
    BY <2>1, JsonAt, JsonKeys
<1>2. \A k \in {"InstallAttitude", "FovCfg0", "FovCfg1", "FovCfgEn", "DetectMode", "FuncIoCfg",
                "BlindSpotSet", "WorkMode", "GlassHeat", "ImuDataEn", "FusaEn"} :
          k \in Keys /\ k \in DOMAIN Json /\ Json[k][1] \notin DOMAIN Measured
  <2>1. \A k \in {"InstallAttitude", "FovCfg0", "FovCfg1", "FovCfgEn", "DetectMode", "FuncIoCfg",
                "BlindSpotSet", "WorkMode", "GlassHeat", "ImuDataEn", "FusaEn"} :
            k \in DOMAIN JsonSettings /\ JsonSettings[k][1] \notin DOMAIN Measured
    BY DEF JsonSettings, Measured
  <2>2. QED
    BY <2>1, JsonAt, JsonKeys
<1>3. \A k \in {"LogParamSet", "WorkModeAfterBoot", "ForceHeatEn"} : k \in Keys /\ k \notin DOMAIN Json
  <2>1. \A k \in {"LogParamSet", "WorkModeAfterBoot", "ForceHeatEn"} :
            k \in Keys /\ k \notin ParsedSettings \cup ParsedStatus
    BY DEF Keys, ParamKeyName, ParsedSettings, ParsedStatus
  <2>2. QED
    BY <2>1, JsonKeys
<1>4. {"PclDataType", "PatternMode", "DualEmitEn", "PointSendEn", "LidarIpCfg",
                 "StateInfoHostIpCfg", "LidarPointDataHostIpCfg", "LidarImuHostIpCfg"}
         \subseteq DOMAIN JsonNetwork
  BY DEF JsonNetwork
<1>5. QED
  BY <1>1, <1>2, <1>3, <1>4

LEMMA KeyOfKey == \A k \in Keys : KeyOf(ParamKeyName[k]) = k
  BY KeyNumbers DEF KeyOf

(* Values of one member read as they were given.                           *)
LEMMA ToldOne ==
    ASSUME NEW k, Json[k][2] = U(1), NEW v, v \in [1 .. 1 -> Unsigned]
    PROVE  Told(k, v) = v
<1>1. DOMAIN U(1) = 1 .. 1 /\ \A i \in 1 .. 1 : U(1)[i] = "Uint"
  BY DEF U
<1>2. \A i \in 1 .. 1 : Written("Uint", v[i]) = v[i]
  BY DEF Written
<1>3. v = [i \in 1 .. 1 |-> v[i]] /\ DOMAIN v = 1 .. 1
  OBVIOUS
<1>4. QED
  BY <1>1, <1>2, <1>3 DEF Told

LEMMA ToldSwitch ==
    ASSUME NEW k, Json[k][2] = U(1), NEW b \in {0, 1}
    PROVE  Told(k, <<b>>) = <<b>>
<1>1. DOMAIN U(1) = 1 .. 1 /\ \A i \in 1 .. 1 : U(1)[i] = "Uint"
  BY DEF U
<1>2. Written("Uint", b) = b
  BY DEF Written
<1>3. Told(k, <<b>>) = [i \in 1 .. 1 |-> <<b>>[i]]
  BY <1>1, <1>2 DEF Told
<1>4. QED
  BY <1>3

(* The layouts of the values that are written.                             *)
LEMMA Layouts ==
    /\ \A k \in {"PclDataType", "PatternMode", "DualEmitEn", "PointSendEn", "FovCfgEn", "DetectMode",
                 "BlindSpotSet", "WorkMode", "GlassHeat", "ImuDataEn", "FusaEn"} : Json[k][2] = U(1)
    /\ Json["LidarIpCfg"][2] = <<"String", "String", "String">>
    /\ \A k \in {"StateInfoHostIpCfg", "LidarPointDataHostIpCfg", "LidarImuHostIpCfg"} :
           Json[k][2] = Host
    /\ Json["InstallAttitude"][2] = <<"Double", "Double", "Double", "Uint", "Uint", "Uint">>
    /\ \A k \in {"FovCfg0", "FovCfg1"} : Json[k][2] = I(4)
    /\ Json["FuncIoCfg"][2] = U(4)
<1>1. \A k \in {"PclDataType", "PatternMode", "DualEmitEn", "PointSendEn"} :
          k \in DOMAIN JsonNetwork /\ JsonNetwork[k][2] = U(1)
  BY DEF JsonNetwork
<1>2. \A k \in {"FovCfgEn", "DetectMode", "BlindSpotSet", "WorkMode", "GlassHeat", "ImuDataEn", "FusaEn"} :
          k \in DOMAIN JsonSettings /\ JsonSettings[k][2] = U(1)
  BY DEF JsonSettings
<1>3. /\ "LidarIpCfg" \in DOMAIN JsonNetwork
      /\ JsonNetwork["LidarIpCfg"][2] = <<"String", "String", "String">>
      /\ \A k \in {"StateInfoHostIpCfg", "LidarPointDataHostIpCfg", "LidarImuHostIpCfg"} :
             k \in DOMAIN JsonNetwork /\ JsonNetwork[k][2] = Host
  BY DEF JsonNetwork
<1>4. /\ "InstallAttitude" \in DOMAIN JsonSettings /\ "FuncIoCfg" \in DOMAIN JsonSettings
      /\ JsonSettings["InstallAttitude"][2] = <<"Double", "Double", "Double", "Uint", "Uint", "Uint">>
      /\ \A k \in {"FovCfg0", "FovCfg1"} : k \in DOMAIN JsonSettings /\ JsonSettings[k][2] = I(4)
      /\ JsonSettings["FuncIoCfg"][2] = U(4)
  BY DEF JsonSettings
<1>5. QED
  BY <1>1, <1>2, <1>3, <1>4, JsonAt

(* The names of the report in Subject are those of the keys.               *)
SubjectKey ==
    [SetLivoxLidarPclDataType |-> "PclDataType", SetLivoxLidarScanPattern |-> "PatternMode",
     SetLivoxLidarDualEmit |-> "DualEmitEn", SetLivoxLidarInstallAttitude |-> "InstallAttitude",
     SetLivoxLidarFovCfg0 |-> "FovCfg0", SetLivoxLidarFovCfg1 |-> "FovCfg1",
     EnableLivoxLidarFov |-> "FovCfgEn", DisableLivoxLidarFov |-> "FovCfgEn",
     SetLivoxLidarDetectMode |-> "DetectMode", SetLivoxLidarFuncIOCfg |-> "FuncIoCfg",
     SetLivoxLidarBlindSpot |-> "BlindSpotSet", SetLivoxLidarWorkMode |-> "WorkMode",
     SetLivoxLidarGlassHeat |-> "GlassHeat", EnableLivoxLidarGlassHeat |-> "GlassHeat",
     DisableLivoxLidarGlassHeat |-> "GlassHeat", EnableLivoxLidarImuData |-> "ImuDataEn",
     DisableLivoxLidarImuData |-> "ImuDataEn", EnableLivoxLidarFusaFunciont |-> "FusaEn",
     DisableLivoxLidarFusaFunciont |-> "FusaEn", EnableLivoxLidarPointSend |-> "PointSendEn",
     DisableLivoxLidarPointSend |-> "PointSendEn", SetLivoxLidarIp |-> "LidarIpCfg",
     SetLivoxLidarStateInfoHostIPCfg |-> "StateInfoHostIpCfg",
     SetLivoxLidarPointDataHostIPCfg |-> "LidarPointDataHostIpCfg",
     SetLivoxLidarImuDataHostIPCfg |-> "LidarImuHostIpCfg"]

LEMMA SubjectIs ==
    /\ DOMAIN SubjectKey = DOMAIN Subject
    /\ \A n \in DOMAIN Subject : Subject[n] = Json[SubjectKey[n]][1]
<1>1. DOMAIN SubjectKey = DOMAIN Subject
  BY DEF SubjectKey, Subject
<1>2. \A n \in DOMAIN Subject :
          SubjectKey[n] \in DOMAIN JsonNetwork => Subject[n] = JsonNetwork[SubjectKey[n]][1]
  BY SMTT(60) DEF SubjectKey, Subject, JsonNetwork
<1>3. \A n \in DOMAIN Subject :
          SubjectKey[n] \in DOMAIN JsonSettings => Subject[n] = JsonSettings[SubjectKey[n]][1]
  BY SMTT(60) DEF SubjectKey, Subject, JsonSettings
<1>4. \A n \in DOMAIN Subject :
          SubjectKey[n] \in DOMAIN JsonNetwork \cup DOMAIN JsonSettings
  BY SMTT(60) DEF SubjectKey, Subject, JsonSettings, JsonNetwork
<1>5. QED
  BY <1>1, <1>2, <1>3, <1>4, JsonAt

(* A switch writes its byte under the key its subject names, if any.       *)
LEMMA SwitchIs ==
    ASSUME NEW n \in DOMAIN Switches
    PROVE  \E k \in Keys :
               /\ Switches[n] = KeyValue(k, IF n \in SwitchedOn THEN <<1>> ELSE <<0>>)
               /\ \/ n \in DOMAIN Subject /\ k = SubjectKey[n] /\ k \in DOMAIN Json /\ Json[k][2] = U(1)
                  \/ n \notin DOMAIN Subject /\ k \notin DOMAIN Json
               /\ k \in DOMAIN Json => Json[k][1] \notin DOMAIN Measured
<1> DEFINE Value == IF n \in SwitchedOn THEN <<1>> ELSE <<0>>
           key == IF n \in DOMAIN Subject THEN SubjectKey[n] ELSE "ForceHeatEn"
<1>1. n \in DOMAIN PointSwitches \cup DOMAIN FovSwitches
        => /\ Switches[n] = KeyValue(key, Value)
           /\ n \in DOMAIN Subject
           /\ key \in {"PointSendEn", "FovCfgEn"}
  <2>1. \A m \in DOMAIN PointSwitches : Switches[m] = PointSwitches[m]
    BY SwitchTables
  <2>2. \A m \in DOMAIN FovSwitches : Switches[m] = FovSwitches[m]
    BY SwitchTables
  <2>3. QED
    BY <2>1, <2>2 DEF PointSwitches, FovSwitches, SwitchedOn, Subject, SubjectKey
<1>2. n \in DOMAIN HeatSwitches
        => /\ Switches[n] = KeyValue(key, Value)
           /\ n \in DOMAIN Subject
           /\ key \in {"GlassHeat", "ImuDataEn"}
  <2>1. \A m \in DOMAIN HeatSwitches : Switches[m] = HeatSwitches[m]
    BY SwitchTables
  <2>2. QED
    BY <2>1 DEF HeatSwitches, SwitchedOn, Subject, SubjectKey
<1>3. n \in DOMAIN FusaSwitches
        => /\ Switches[n] = KeyValue(key, Value)
           /\ n \in DOMAIN Subject
           /\ key = "FusaEn"
  <2>1. \A m \in DOMAIN FusaSwitches : Switches[m] = FusaSwitches[m]
    BY SwitchTables
  <2>2. QED
    BY <2>1 DEF FusaSwitches, SwitchedOn, Subject, SubjectKey
<1>4. n \in DOMAIN ForcedHeating
        => /\ Switches[n] = KeyValue(key, Value)
           /\ n \notin DOMAIN Subject
           /\ key = "ForceHeatEn"
  <2>1. \A m \in DOMAIN ForcedHeating : Switches[m] = ForcedHeating[m]
    BY SwitchTables
  <2>2. \A m \in DOMAIN ForcedHeating :
            /\ m \notin DOMAIN Subject
            /\ ForcedHeating[m] = KeyValue("ForceHeatEn", IF m \in SwitchedOn THEN <<1>> ELSE <<0>>)
    <3>1. DOMAIN ForcedHeating = {"StartForcedHeating", "StopForcedHeating"}
      BY DEF ForcedHeating
    <3>2. \A m \in DOMAIN ForcedHeating : m \notin DOMAIN Subject
      BY <3>1 DEF Subject
    <3>3. QED
      BY <3>1, <3>2 DEF ForcedHeating, SwitchedOn
  <2>3. QED
    BY <2>1, <2>2
<1>5. n \in DOMAIN PointSwitches \cup DOMAIN FovSwitches \cup DOMAIN HeatSwitches
               \cup DOMAIN FusaSwitches \cup DOMAIN ForcedHeating
  BY SwitchTables
<1>6. Switches[n] = KeyValue(key, Value)
  BY <1>1, <1>2, <1>3, <1>4, <1>5
<1>7. \/ n \in DOMAIN Subject /\ key \in {"PointSendEn", "FovCfgEn", "GlassHeat", "ImuDataEn", "FusaEn"}
      \/ n \notin DOMAIN Subject /\ key = "ForceHeatEn"
  BY <1>1, <1>2, <1>3, <1>4, <1>5
<1>8. n \in DOMAIN Subject => key = SubjectKey[n]
  OBVIOUS
<1> HIDE DEF key
<1>9. QED
  BY <1>6, <1>7, <1>8, WrittenKeys, Layouts

ImuCall == [name |-> "SetLivoxLidarPclDataType", arg |-> <<ImuData>>]

LEMMA AboutIs ==
    ASSUME NEW c, c # ImuCall, NEW k,
           \/ c.name \in DOMAIN Subject /\ k = SubjectKey[c.name] /\ k \in DOMAIN Json
           \/ c.name \notin DOMAIN Subject /\ k \notin DOMAIN Json
    PROVE  About(c) = {Json[j][1] : j \in {k} \cap DOMAIN Json}
<1>1. About(c) = {Subject[n] : n \in {c.name} \cap DOMAIN Subject}
  BY DEF About, ImuCall
<1>2. CASE c.name \in DOMAIN Subject
  BY <1>1, <1>2, SubjectIs
<1>3. CASE c.name \notin DOMAIN Subject
  BY <1>1, <1>3
<1>4. QED
  BY <1>2, <1>3

LEMMA SwitchWrites ==
    ASSUME NEW c, c.name \in DOMAIN Switches, NEW kv \in KeyValues(c)
    PROVE  \E k : Writes(c, kv, k)
<1>1. kv = Switches[c.name]
  BY DEF KeyValues
<1> DEFINE b == IF c.name \in SwitchedOn THEN 1 ELSE 0
<1>2. PICK k \in Keys :
          /\ Switches[c.name] = KeyValue(k, IF c.name \in SwitchedOn THEN <<1>> ELSE <<0>>)
          /\ \/ c.name \in DOMAIN Subject /\ k = SubjectKey[c.name] /\ k \in DOMAIN Json
                    /\ Json[k][2] = U(1)
             \/ c.name \notin DOMAIN Subject /\ k \notin DOMAIN Json
          /\ k \in DOMAIN Json => Json[k][1] \notin DOMAIN Measured
  BY SwitchIs
<1>3. /\ c.name \notin OneMemberSetters \cup DOMAIN StructSetters
      /\ c.name # "SetLivoxLidarPclDataType"
      /\ c.name \notin {"SetLivoxLidarFovCfg0", "SetLivoxLidarFovCfg1"}
  BY NotSwitches DEF OneMemberSetters, StructSetters
<1>4. c # ImuCall
  BY <1>3 DEF ImuCall
<1>5. kv.key = ParamKeyName[k] /\ kv.value = <<b>>
  BY <1>1, <1>2 DEF KeyValue
<1>6. Said(c) = <<b>>
  BY <1>3, <1>4 DEF Said, ImuCall
<1>7. k \in DOMAIN Json => Told(k, kv.value) = Said(c)
  BY <1>2, <1>5, <1>6, ToldSwitch
<1>8. About(c) = {Json[j][1] : j \in {k} \cap DOMAIN Json}
  BY <1>2, <1>4, AboutIs
<1>9. QED
  BY <1>2, <1>5, <1>7, <1>8 DEF Writes

LEMMA ImuCallWrites ==
    ASSUME NEW c, c = ImuCall, NEW kv \in KeyValues(Dispatched(c))
    PROVE  \E k : Writes(c, kv, k)
<1>1. Dispatched(c) = [name |-> "EnableLivoxLidarImuData", arg |-> <<>>]
  BY DEF ImuCall, Dispatched
<1>2. kv = KeyValue("ImuDataEn", <<1>>)
  <2>1. "EnableLivoxLidarImuData" \in DOMAIN HeatSwitches
        /\ HeatSwitches["EnableLivoxLidarImuData"] = KeyValue("ImuDataEn", <<1>>)
    BY DEF HeatSwitches
  <2>2. QED
    BY <1>1, <2>1, SwitchTables DEF KeyValues
<1>3. Json["ImuDataEn"][1] = "imu_data_en"
  <2>1. "ImuDataEn" \in DOMAIN JsonSettings /\ JsonSettings["ImuDataEn"][1] = "imu_data_en"
    BY DEF JsonSettings
  <2>2. QED
    BY <2>1, JsonAt
<1>4. About(c) = {"imu_data_en"} /\ Said(c) = <<1>>
  <2>1. c.name \notin {"SetLivoxLidarFovCfg0", "SetLivoxLidarFovCfg1"}
    BY DEF ImuCall
  <2>2. About(c) = {"imu_data_en"}
    BY DEF About, ImuCall
  <2>3. c = [name |-> "SetLivoxLidarPclDataType", arg |-> <<ImuData>>]
    BY DEF ImuCall
  <2>4. Said(c) = <<1>>
    <3>1. c.name \in OneMemberSetters
      BY <2>3 DEF OneMemberSetters
    <3>2. c.name \notin DOMAIN Switches
      BY <3>1, NotSwitches
    <3>3. QED
      BY <2>1, <2>3, <3>2 DEF Said
  <2>5. QED
    BY <2>2, <2>4
<1>5. Told("ImuDataEn", <<1>>) = <<1>>
  BY Layouts, ToldSwitch
<1>6. Writes(c, kv, "ImuDataEn")
  BY <1>2, <1>3, <1>4, <1>5, WrittenKeys DEF Writes, KeyValue
<1>7. QED
  BY <1>6

(* So does a setter with its argument.                                     *)
LEMMA SetterIs ==
    /\ \A n \in OneMemberSetters :
          /\ \/ n \in DOMAIN Subject /\ Setters[n] = SubjectKey[n]
                    /\ Json[Setters[n]][2] = U(1) /\ Setters[n] \in DOMAIN Json
             \/ n \notin DOMAIN Subject /\ Setters[n] \in {"LogParamSet", "WorkModeAfterBoot"}
          /\ Setters[n] \in Keys
          /\ Setters[n] \in DOMAIN Json => Json[Setters[n]][1] \notin DOMAIN Measured
    /\ \A n \in DOMAIN StructSetters \cup {"SetLivoxLidarFuncIOCfg"} :
          n \in DOMAIN Subject /\ Setters[n] = SubjectKey[n]
<1>1. \A n \in OneMemberSetters :
          \/ n \in DOMAIN Subject /\ Setters[n] = SubjectKey[n]
                /\ SubjectKey[n] \in {"PclDataType", "PatternMode", "DualEmitEn", "FovCfgEn",
                       "DetectMode", "BlindSpotSet", "WorkMode", "GlassHeat"}
          \/ n \notin DOMAIN Subject /\ Setters[n] \in {"LogParamSet", "WorkModeAfterBoot"}
  <2>1. \A n \in DOMAIN ModeSetters \cup DOMAIN FovSetters :
            n \in DOMAIN Subject /\ Setters[n] = SubjectKey[n]
                /\ SubjectKey[n] \in {"PclDataType", "PatternMode", "DualEmitEn", "FovCfgEn", "DetectMode"}
    <3>1. \A n \in DOMAIN ModeSetters \cup DOMAIN FovSetters :
              /\ n \in DOMAIN ModeSetters => Setters[n] = ModeSetters[n]
              /\ n \in DOMAIN FovSetters => Setters[n] = FovSetters[n]
      BY SetterTables
    <3>2. QED
      BY <3>1 DEF ModeSetters, FovSetters, Subject, SubjectKey
  <2>2. \A n \in DOMAIN IoSetters \cup DOMAIN HeatSetters :
            n # "SetLivoxLidarFuncIOCfg" =>
                n \in DOMAIN Subject /\ Setters[n] = SubjectKey[n]
                /\ SubjectKey[n] \in {"BlindSpotSet", "WorkMode", "GlassHeat"}
    <3>1. \A n \in DOMAIN IoSetters \cup DOMAIN HeatSetters :
              /\ n \in DOMAIN IoSetters => Setters[n] = IoSetters[n]
              /\ n \in DOMAIN HeatSetters => Setters[n] = HeatSetters[n]
      BY SetterTables
    <3>2. QED
      BY <3>1 DEF IoSetters, HeatSetters, Subject, SubjectKey
  <2>3. \A n \in DOMAIN LogSetters \cup DOMAIN BootSetters :
            n \notin DOMAIN Subject /\ Setters[n] \in {"LogParamSet", "WorkModeAfterBoot"}
    <3>1. \A n \in DOMAIN LogSetters \cup DOMAIN BootSetters :
              /\ n \in DOMAIN LogSetters => Setters[n] = LogSetters[n]
              /\ n \in DOMAIN BootSetters => Setters[n] = BootSetters[n]
      BY SetterTables
    <3>2. QED
      BY <3>1 DEF LogSetters, BootSetters, Subject
  <2>4. \A n \in OneMemberSetters :
            \/ n \in DOMAIN ModeSetters \cup DOMAIN FovSetters
            \/ n \in DOMAIN IoSetters \cup DOMAIN HeatSetters /\ n # "SetLivoxLidarFuncIOCfg"
            \/ n \in DOMAIN LogSetters \cup DOMAIN BootSetters
    BY DEF OneMemberSetters, ModeSetters, FovSetters, IoSetters, HeatSetters, LogSetters, BootSetters
  <2>5. QED
    BY <2>1, <2>2, <2>3, <2>4
<1>2. \A n \in DOMAIN StructSetters \cup {"SetLivoxLidarFuncIOCfg"} :
          n \in DOMAIN Subject /\ Setters[n] = SubjectKey[n]
  <2>1. /\ \A n \in DOMAIN StructSetters : Setters[n] = StructSetters[n]
        /\ \A n \in DOMAIN IoSetters : Setters[n] = IoSetters[n]
    BY SetterTables
  <2>2. QED
    BY <2>1 DEF StructSetters, IoSetters, Subject, SubjectKey
<1>3. QED
  BY <1>1, <1>2, WrittenKeys, Layouts

LEMMA SetterSends ==
    ASSUME NEW c, c.name \notin DOMAIN Switches,
           c.name \notin DOMAIN IpSetters, c.name \notin DOMAIN HostSetters,
           NEW kv \in KeyValues(c)
    PROVE  /\ kv.key = ParamKeyName[Setters[c.name]]
           /\ kv.value = [i \in DOMAIN c.arg |-> Member(c.name, c.arg[i])]
           /\ c.name \in WideSetters /\ c.name # "SetLivoxLidarDualEmit" =>
                  kv.value = [i \in DOMAIN c.arg |-> c.arg[i] % Word]
<1>1. kv = KeyValue(Setters[c.name], [i \in DOMAIN c.arg |-> Member(c.name, c.arg[i])])
  BY DEF KeyValues
<1>2. c.name \in WideSetters /\ c.name # "SetLivoxLidarDualEmit" =>
          \A x : Member(c.name, x) = x % Word
  BY DEF Member
<1>3. QED
  BY <1>1, <1>2 DEF KeyValue

(* What survives is stored as it is, member by member.                     *)
LEMMA ValueIsArg ==
    ASSUME NEW c, c.name \in OneMemberSetters \cup {"SetLivoxLidarFuncIOCfg"},
           NEW n \in {1, 4}, c.arg \in [1 .. n -> Unsigned],
           c.name = "SetLivoxLidarDualEmit" => n = 1, Survives(c)
    PROVE  [i \in DOMAIN c.arg |-> Member(c.name, c.arg[i])] = c.arg
<1>1. DOMAIN c.arg = 1 .. n /\ c.arg = [i \in 1 .. n |-> c.arg[i]]
  OBVIOUS
<1>2. c.name \in OneMember \cup {"SetLivoxLidarFuncIOCfg"}
  BY OneMemberIs
<1>3. ASSUME NEW i \in 1 .. n
      PROVE  Member(c.name, c.arg[i]) = c.arg[i]
  <2>1. c.arg[i] \in Unsigned
    OBVIOUS
  <2>2. c.name \notin WideSetters => c.arg[i] < 256
    BY <1>1, <1>2 DEF Survives
  <2>3. c.name = "SetLivoxLidarDualEmit" => i = 1
    BY <1>3
  <2>4. c.name = "SetLivoxLidarDualEmit" => c.arg[i] < 2
    BY <2>3 DEF Survives
  <2>5. QED
    BY <2>1, <2>2, <2>4, MemberKeeps
<1>4. QED
  BY <1>1, <1>3

LEMMA SaidIsArg ==
    ASSUME NEW c, c # ImuCall, c.name \notin DOMAIN Switches,
           c.name \notin {"SetLivoxLidarFovCfg0", "SetLivoxLidarFovCfg1"}
    PROVE  Said(c) = c.arg
  BY DEF Said, ImuCall

LEMMA OneMemberWrites ==
    ASSUME NEW c \in [name : OneMember, arg : [1 .. 1 -> Unsigned]], c # ImuCall,
           NEW kv \in KeyValues(c)
    PROVE  \E k : Writes(c, kv, k)
<1> DEFINE k == Setters[c.name]
<1>1. c.name \in OneMemberSetters /\ c.arg \in [1 .. 1 -> Unsigned]
  BY OneMemberIs
<1>2. c.name \notin DOMAIN IpSetters /\ c.name \notin DOMAIN HostSetters
      /\ c.name \notin {"SetLivoxLidarFovCfg0", "SetLivoxLidarFovCfg1"}
  BY <1>1 DEF OneMemberSetters, IpSetters, HostSetters
<1>3. c.name \notin DOMAIN Switches
  BY <1>1, NotSwitches
<1>4. /\ kv.key = ParamKeyName[k]
      /\ kv.value = [i \in DOMAIN c.arg |-> Member(c.name, c.arg[i])]
  BY <1>2, <1>3, SetterSends
<1>5. Said(c) = c.arg
  BY <1>2, <1>3, SaidIsArg
<1>6. /\ \/ c.name \in DOMAIN Subject /\ k = SubjectKey[c.name] /\ Json[k][2] = U(1) /\ k \in DOMAIN Json
         \/ c.name \notin DOMAIN Subject /\ k \notin DOMAIN Json
      /\ k \in Keys /\ (k \in DOMAIN Json => Json[k][1] \notin DOMAIN Measured)
  BY <1>1, SetterIs, WrittenKeys
<1> HIDE DEF k
<1>7. About(c) = {Json[j][1] : j \in {k} \cap DOMAIN Json}
  BY <1>6, AboutIs
<1>8. Survives(c) /\ k \in DOMAIN Json => Told(k, kv.value) = Said(c)
  <2> SUFFICES ASSUME Survives(c), k \in DOMAIN Json PROVE Told(k, kv.value) = Said(c)
    OBVIOUS
  <2>1. kv.value = c.arg
    BY <1>1, <1>4, ValueIsArg
  <2>2. QED
    BY <1>1, <1>5, <1>6, <2>1, ToldOne
<1>9. QED
  BY <1>4, <1>6, <1>7, <1>8 DEF Writes

(* A setter whose value is more than a number: its key is one the report   *)
(* has, and the rest is whether the value reads as it was given.           *)
LEMMA SubjectWrites ==
    ASSUME NEW c, c # ImuCall, c.name \in DOMAIN Subject, NEW k, k = SubjectKey[c.name],
           k \in {"LidarIpCfg", "StateInfoHostIpCfg", "LidarPointDataHostIpCfg", "LidarImuHostIpCfg",
                  "InstallAttitude", "FovCfg0", "FovCfg1", "FuncIoCfg"},
           NEW kv, kv.key = ParamKeyName[k],
           Survives(c) => Told(k, kv.value) = Said(c)
    PROVE  \E j : Writes(c, kv, j)
<1>1. k \in Keys /\ k \in DOMAIN Json /\ Json[k][1] \notin DOMAIN Measured
  BY WrittenKeys
<1>2. About(c) = {Json[j][1] : j \in {k} \cap DOMAIN Json}
  BY <1>1, AboutIs
<1>3. QED
  BY <1>1, <1>2 DEF Writes

LEMMA FuncIoWrites ==
    ASSUME NEW c \in [name : {"SetLivoxLidarFuncIOCfg"}, arg : [1 .. 4 -> Unsigned]],
           NEW kv \in KeyValues(c)
    PROVE  \E k : Writes(c, kv, k)
<1>1. c.name = "SetLivoxLidarFuncIOCfg" /\ c.arg \in [1 .. 4 -> Unsigned]
  OBVIOUS
<1>2. c.name \notin DOMAIN IpSetters /\ c.name \notin DOMAIN HostSetters /\ c # ImuCall
      /\ c.name \notin {"SetLivoxLidarFovCfg0", "SetLivoxLidarFovCfg1"}
  BY <1>1 DEF IpSetters, HostSetters, ImuCall
<1>3. c.name \notin DOMAIN Switches
  BY <1>1, NotSwitches
<1>4. SubjectKey[c.name] = "FuncIoCfg" /\ c.name \in DOMAIN Subject
  BY <1>1 DEF SubjectKey, Subject
<1>5. /\ kv.key = ParamKeyName["FuncIoCfg"]
      /\ kv.value = [i \in DOMAIN c.arg |-> Member(c.name, c.arg[i])]
  <2>1. Setters[c.name] = "FuncIoCfg"
    BY <1>1, <1>4, SetterIs
  <2>2. QED
    BY <2>1, <1>2, <1>3, SetterSends
<1>6. Said(c) = c.arg
  BY <1>2, <1>3, SaidIsArg
<1>7. ASSUME Survives(c)
      PROVE  Told("FuncIoCfg", kv.value) = c.arg
  <2>1. DOMAIN U(4) = 1 .. 4 /\ \A i \in 1 .. 4 : U(4)[i] = "Uint"
    BY DEF U
  <2>2. DOMAIN c.arg = 1 .. 4 /\ c.arg = [i \in 1 .. 4 |-> c.arg[i]]
    BY <1>1
  <2>3. \A i \in 1 .. 4 : Written("Uint", kv.value[i]) = c.arg[i]
    <3>1. kv.value = c.arg
      BY <1>1, <1>5, <1>7, ValueIsArg
    <3>2. QED
      BY <3>1 DEF Written
  <2>4. Told("FuncIoCfg", kv.value) = [i \in 1 .. 4 |-> Written("Uint", kv.value[i])]
    BY <2>1, Layouts DEF Told
  <2>5. [i \in 1 .. 4 |-> Written("Uint", kv.value[i])] = [i \in 1 .. 4 |-> c.arg[i]]
    BY <2>3
  <2>6. QED
    BY <2>2, <2>4, <2>5
<1>8. QED
  BY <1>2, <1>4, <1>5, <1>6, <1>7, SubjectWrites

(* Layouts of several members, and addresses.                              *)
LEMMA MountingWrites ==
    ASSUME NEW c \in [name : {"SetLivoxLidarInstallAttitude"}, arg : MountingArgs],
           NEW kv \in KeyValues(c)
    PROVE  \E k : Writes(c, kv, k)
<1>1. c.name = "SetLivoxLidarInstallAttitude" /\ c.arg \in MountingArgs
  OBVIOUS
<1>2. c.name \notin DOMAIN IpSetters /\ c.name \notin DOMAIN HostSetters /\ c # ImuCall
      /\ c.name \notin {"SetLivoxLidarFovCfg0", "SetLivoxLidarFovCfg1"}
      /\ c.name \in DOMAIN StructSetters
  BY <1>1 DEF IpSetters, HostSetters, ImuCall, StructSetters
<1>3. c.name \notin DOMAIN Switches
  BY <1>2, NotSwitches
<1>4. SubjectKey[c.name] = "InstallAttitude" /\ c.name \in DOMAIN Subject
  BY <1>1 DEF SubjectKey, Subject
<1>5. kv.key = ParamKeyName["InstallAttitude"] /\ kv.value = [i \in DOMAIN c.arg |-> c.arg[i] % Word]
  <2>1. c.name \in WideSetters /\ c.name # "SetLivoxLidarDualEmit"
    BY <1>1, <1>2 DEF WideSetters
  <2>2. Setters[c.name] = "InstallAttitude"
    BY <1>2, <1>4, SetterIs
  <2>3. /\ kv.key = ParamKeyName[Setters[c.name]]
        /\ kv.value = [i \in DOMAIN c.arg |-> c.arg[i] % Word]
    BY <2>1, <1>2, <1>3, SetterSends
  <2>4. QED
    BY <2>2, <2>3
<1>6. Said(c) = c.arg
  BY <1>2, <1>3, SaidIsArg
<1>7. ASSUME Survives(c)
      PROVE  Told("InstallAttitude", kv.value) = c.arg
  <2> DEFINE layout == <<"Double", "Double", "Double", "Uint", "Uint", "Uint">>
  <2>1. DOMAIN layout = 1 .. 6 /\ (\A i \in 1 .. 3 : layout[i] = "Double")
        /\ (\A i \in 4 .. 6 : layout[i] = "Uint")
    OBVIOUS
  <2>2. DOMAIN c.arg = 1 .. 6 /\ c.arg = [i \in 1 .. 6 |-> c.arg[i]]
    BY <1>1 DEF MountingArgs
  <2>3. \A i \in 1 .. 6 : kv.value[i] = c.arg[i] % Word
    BY <1>5, <2>2
  <2>4. \A i \in 1 .. 3 : Written("Double", kv.value[i]) = c.arg[i]
    <3>1. \A i \in 1 .. 3 : c.arg[i] \in Unsigned
      BY <1>1 DEF MountingArgs
    <3>2. QED
      BY <3>1, <2>3, UnsignedSurvives
  <2>5. \A i \in 4 .. 6 : Written("Uint", kv.value[i]) = c.arg[i]
    <3>1. \A i \in 4 .. 6 : c.arg[i] \in Signed /\ c.arg[i] >= 0
      BY <1>1, <1>7 DEF MountingArgs, Survives
    <3>2. QED
      BY <3>1, <2>3, SignedSurvives
  <2>6. Told("InstallAttitude", kv.value) = [i \in DOMAIN layout |-> Written(layout[i], kv.value[i])]
    BY Layouts DEF Told
  <2> HIDE DEF layout
  <2>7. \A i \in 1 .. 6 : Written(layout[i], kv.value[i]) = c.arg[i]
    <3>1. \A i \in 1 .. 6 : i \in 1 .. 3 \/ i \in 4 .. 6
      OBVIOUS
    <3>2. QED
      BY <3>1, <2>1, <2>4, <2>5
  <2>8. [i \in DOMAIN layout |-> Written(layout[i], kv.value[i])] = [i \in 1 .. 6 |-> c.arg[i]]
    BY <2>1, <2>7
  <2>9. QED
    BY <2>2, <2>6, <2>8
<1>8. QED
  BY <1>2, <1>4, <1>5, <1>6, <1>7, SubjectWrites

LEMMA FovWrites ==
    ASSUME NEW c \in [name : {"SetLivoxLidarFovCfg0", "SetLivoxLidarFovCfg1"}, arg : FovArgs],
           NEW kv \in KeyValues(c)
    PROVE  \E k : Writes(c, kv, k)
<1> DEFINE k == SubjectKey[c.name]
<1>1. c.name \in {"SetLivoxLidarFovCfg0", "SetLivoxLidarFovCfg1"} /\ c.arg \in FovArgs
  OBVIOUS
<1>2. c.name \notin DOMAIN IpSetters /\ c.name \notin DOMAIN HostSetters /\ c # ImuCall
      /\ c.name \in DOMAIN StructSetters
  BY <1>1 DEF IpSetters, HostSetters, ImuCall, StructSetters
<1>3. c.name \notin DOMAIN Switches
  BY <1>2, NotSwitches
<1>4. k \in {"FovCfg0", "FovCfg1"} /\ c.name \in DOMAIN Subject
  BY <1>1 DEF SubjectKey, Subject
<1>5. kv.key = ParamKeyName[k] /\ kv.value = [i \in DOMAIN c.arg |-> c.arg[i] % Word]
  <2>1. c.name \in WideSetters /\ c.name # "SetLivoxLidarDualEmit"
    BY <1>1, <1>2 DEF WideSetters
  <2>2. Setters[c.name] = k
    BY <1>2, <1>4, SetterIs
  <2>3. QED
    BY <2>1, <2>2, <1>2, <1>3, SetterSends
<1>6. Said(c) = SubSeq(c.arg, 1, 4)
  BY <1>1, <1>2, <1>3 DEF Said, ImuCall
<1> HIDE DEF k
<1>7. Told(k, kv.value) = SubSeq(c.arg, 1, 4)
  <2>1. DOMAIN I(4) = 1 .. 4 /\ \A i \in 1 .. 4 : I(4)[i] = "Int"
    BY DEF I
  <2>2. DOMAIN c.arg = 1 .. 5 /\ c.arg \in Seq(Signed \cup Unsigned)
    <3> DEFINE R == Signed \cup Unsigned
    <3>1. c.arg \in [1 .. 5 -> R]
      BY <1>1 DEF FovArgs
    <3> HIDE DEF R
    <3>2. \A n \in Nat : \A f \in [1 .. n -> R] : DOMAIN f = 1 .. n /\ f \in Seq(R)
      OBVIOUS
    <3>3. QED
      BY <3>1, <3>2 DEF R
  <2>3. \A i \in 1 .. 4 : kv.value[i] = c.arg[i] % Word /\ c.arg[i] \in Signed
    <3>1. \A i \in 1 .. 5 : kv.value[i] = c.arg[i] % Word
      BY <1>5, <2>2
    <3>2. \A i \in 1 .. 4 : i \in 1 .. 5 /\ c.arg[i] \in Signed
      BY <1>1 DEF FovArgs
    <3>3. QED
      BY <3>1, <3>2
  <2>4. \A i \in 1 .. 4 : Written("Int", kv.value[i]) = c.arg[i]
    BY <2>3, SignedSurvives
  <2>5. Told(k, kv.value) = [i \in 1 .. 4 |-> Written("Int", kv.value[i])]
    BY <1>4, <2>1, Layouts DEF Told
  <2>6. SubSeq(c.arg, 1, 4) = [i \in 1 .. 4 |-> c.arg[i]]
    BY <2>2
  <2>7. QED
    BY <2>4, <2>5, <2>6
<1>8. QED
  BY <1>2, <1>4, <1>5, <1>6, <1>7, SubjectWrites DEF k

LEMMA IpWrites ==
    ASSUME NEW c \in [name : DOMAIN IpSetters, arg : [1 .. 3 -> Seq(Int)]], NEW kv \in KeyValues(c)
    PROVE  \E k : Writes(c, kv, k)
<1>1. c.name = "SetLivoxLidarIp" /\ c.arg \in [1 .. 3 -> Seq(Int)]
  BY DEF IpSetters
<1>2. c.name \in DOMAIN IpSetters /\ c # ImuCall /\ IpSetters[c.name] = "LidarIpCfg"
      /\ c.name \notin {"SetLivoxLidarFovCfg0", "SetLivoxLidarFovCfg1"}
  BY <1>1 DEF IpSetters, ImuCall
<1>3. c.name \notin DOMAIN Switches
  BY <1>2, NotSwitches
<1>4. SubjectKey[c.name] = "LidarIpCfg" /\ c.name \in DOMAIN Subject
  BY <1>1 DEF SubjectKey, Subject
<1>5. kv = KeyValue("LidarIpCfg", InitLidarIpinfoVal(c.arg)) /\ \A i \in 1 .. 3 : IsIp(c.arg[i])
  BY <1>2, <1>3 DEF KeyValues
<1>6. Said(c) = c.arg
  BY <1>2, <1>3, SaidIsArg
<1>7. ASSUME Survives(c)
      PROVE  Told("LidarIpCfg", kv.value) = c.arg
  <2> DEFINE layout == <<"String", "String", "String">>
  <2>1. DOMAIN layout = 1 .. 3 /\ \A i \in 1 .. 3 : layout[i] = "String"
    OBVIOUS
  <2>2. kv.value = [i \in 1 .. 3 |-> IpToU8(c.arg[i])]
    BY <1>5 DEF KeyValue, InitLidarIpinfoVal
  <2>3. \A i \in 1 .. 3 : IpToU8(c.arg[i]) = c.arg[i]
    <3>1. \A i \in 1 .. 3 : c.arg[i] \in Seq(Int) /\ 256 \notin Range(c.arg[i])
      BY <1>1, <1>2, <1>7 DEF Survives
    <3>2. QED
      BY <3>1, <1>5, AddressSurvives
  <2>4. Told("LidarIpCfg", kv.value) = [i \in DOMAIN layout |-> Written(layout[i], kv.value[i])]
    BY Layouts DEF Told
  <2> HIDE DEF layout
  <2>5. \A i \in 1 .. 3 : Written(layout[i], kv.value[i]) = c.arg[i]
    BY <2>1, <2>2, <2>3 DEF Written
  <2>6. [i \in DOMAIN layout |-> Written(layout[i], kv.value[i])] = [i \in 1 .. 3 |-> c.arg[i]]
    BY <2>1, <2>5
  <2>7. c.arg = [i \in 1 .. 3 |-> c.arg[i]]
    BY <1>1
  <2>8. QED
    BY <2>4, <2>6, <2>7
<1>8. kv.key = ParamKeyName["LidarIpCfg"]
  BY <1>5 DEF KeyValue
<1>9. QED
  BY <1>2, <1>4, <1>8, <1>6, <1>7, SubjectWrites

LEMMA HostWrites ==
    ASSUME NEW c \in [name : DOMAIN HostSetters, arg : Seq(Int) \X Ports \X Ports],
           NEW kv \in KeyValues(c)
    PROVE  \E k : Writes(c, kv, k)
<1> DEFINE k == SubjectKey[c.name]
<1>1. c.name \in DOMAIN HostSetters /\ c.arg \in Seq(Int) \X Ports \X Ports
  OBVIOUS
<1>2. c.name \notin DOMAIN IpSetters /\ c # ImuCall
      /\ c.name \notin {"SetLivoxLidarFovCfg0", "SetLivoxLidarFovCfg1"}
  BY <1>1 DEF HostSetters, IpSetters, ImuCall
<1>3. c.name \notin DOMAIN Switches
  BY <1>1, NotSwitches
<1>4. k \in {"StateInfoHostIpCfg", "LidarPointDataHostIpCfg", "LidarImuHostIpCfg"}
      /\ c.name \in DOMAIN Subject /\ HostSetters[c.name] = k
  BY <1>1 DEF SubjectKey, Subject, HostSetters
<1>5. kv = KeyValue(k, HostIpInfo(c.arg)) /\ IsIp(c.arg[1])
  BY <1>1, <1>2, <1>3, <1>4 DEF KeyValues
<1>6. Said(c) = c.arg
  BY <1>2, <1>3, SaidIsArg
<1> HIDE DEF k
<1>7. ASSUME Survives(c)
      PROVE  Told(k, kv.value) = c.arg
  <2>1. DOMAIN Host = 1 .. 3 /\ \A i \in 1 .. 3 : Host[i] # "Int"
    BY DEF Host
  <2>2. kv.value = <<IpToU8(c.arg[1]), c.arg[2] % 65536, c.arg[3] % 65536>>
    BY <1>5 DEF KeyValue, HostIpInfo
  <2>3. IpToU8(c.arg[1]) = c.arg[1]
    <3>1. c.arg[1] \in Seq(Int) /\ 256 \notin Range(c.arg[1])
      BY <1>1, <1>7 DEF Survives
    <3>2. QED
      BY <3>1, <1>5, AddressSurvives
  <2>4. c.arg[2] % 65536 = c.arg[2] /\ c.arg[3] % 65536 = c.arg[3]
    <3>1. \A p \in Ports : p % 65536 = p
      BY DEF Ports
    <3>2. c.arg[2] \in Ports /\ c.arg[3] \in Ports
      BY <1>1
    <3>3. QED
      BY <3>1, <3>2
  <2>5. c.arg = <<c.arg[1], c.arg[2], c.arg[3]>>
    BY <1>1
  <2>6. kv.value = c.arg
    BY <2>2, <2>3, <2>4, <2>5
  <2>7. Told(k, kv.value) = [i \in 1 .. 3 |-> kv.value[i]]
    BY <1>4, <2>1, Layouts DEF Told, Written
  <2>8. QED
    BY <2>5, <2>6, <2>7
<1>8. kv.key = ParamKeyName[k]
  BY <1>5 DEF KeyValue
<1>9. QED
  BY <1>2, <1>4, <1>8, <1>6, <1>7, SubjectWrites DEF k

(* Whatever is called, and with what arguments.                            *)
LEMMA CallWrites ==
    ASSUME NEW c \in Calls, NEW kv \in KeyValues(Dispatched(c))
    PROVE  \E k : Writes(c, kv, k)
<1>1. c \in Callable
  BY SettingsConstants
<1>2. CASE c = ImuCall
  BY <1>2, ImuCallWrites
<1>3. CASE c # ImuCall
  <2>1. Dispatched(c) = c
    <3>1. \/ c.name # "SetLivoxLidarPclDataType"
          \/ c.arg # <<ImuData>>
      <4>1. c = [name |-> c.name, arg |-> c.arg]
        BY <1>1 DEF Callable
      <4>2. QED
        BY <1>3, <4>1 DEF ImuCall
    <3>2. QED
      BY <3>1 DEF Dispatched
  <2>2. kv \in KeyValues(c)
    BY <2>1
  <2>3. CASE c \in [name : DOMAIN Switches, arg : {<<>>}]
    BY <2>2, <2>3, SwitchWrites
  <2>4. CASE c \in [name : OneMember, arg : [1 .. 1 -> Unsigned]]
    BY <1>3, <2>2, <2>4, OneMemberWrites
  <2>5. CASE c \in [name : {"SetLivoxLidarFuncIOCfg"}, arg : [1 .. 4 -> Unsigned]]
    BY <2>2, <2>5, FuncIoWrites
  <2>6. CASE c \in [name : {"SetLivoxLidarInstallAttitude"}, arg : MountingArgs]
    BY <2>2, <2>6, MountingWrites
  <2>7. CASE c \in [name : {"SetLivoxLidarFovCfg0", "SetLivoxLidarFovCfg1"}, arg : FovArgs]
    BY <2>2, <2>7, FovWrites
  <2>8. CASE c \in [name : DOMAIN IpSetters, arg : [1 .. 3 -> Seq(Int)]]
    BY <2>2, <2>8, IpWrites
  <2>9. CASE c \in [name : DOMAIN HostSetters, arg : Seq(Int) \X Ports \X Ports]
    BY <2>2, <2>9, HostWrites
  <2>10. QED
    BY <1>1, <2>3, <2>4, <2>5, <2>6, <2>7, <2>8, <2>9 DEF Callable
<1>4. QED
  BY <1>2, <1>3
-----------------------------------------------------------------------------
(* The layouts of what the lidar measures, and that its members fit them.  *)
MeasuredLayout(n) ==
    IF n \in {"vehicle_speed", "environment_temp", "core_temp", "time_offset"} THEN I(1)
    ELSE IF n \in {"version_app", "version_loader", "version_hardware"} THEN U(4)
    ELSE IF n = "mac" THEN U(6)
    ELSE IF n = "hms_code" THEN U(8) ELSE U(1)

LEMMA MeasuredNames ==
    \A n \in DOMAIN Measured :
        \E k \in DOMAIN Json : Json[k][1] = n /\ Json[k][2] = MeasuredLayout(n)
<1> DEFINE Named(k, n) == k \in DOMAIN Json /\ Json[k][1] = n /\ Json[k][2] = MeasuredLayout(n)
<1>1. Named("VehicleSpeed", "vehicle_speed") /\ Named("EnvironmentTemp", "environment_temp")
  <2>1. /\ {"VehicleSpeed", "EnvironmentTemp"} \subseteq DOMAIN JsonSettings
        /\ JsonSettings["VehicleSpeed"] = <<"vehicle_speed", I(1)>>
        /\ JsonSettings["EnvironmentTemp"] = <<"environment_temp", I(1)>>
    BY DEF JsonSettings
  <2>2. QED
    BY <2>1, JsonAt DEF MeasuredLayout
<1>2. Named("CoreTemp", "core_temp") /\ Named("TimeOffset", "time_offset")
      /\ Named("Mac", "mac") /\ Named("HmsCode", "hms_code")
  <2>1. /\ {"CoreTemp", "TimeOffset", "Mac", "HmsCode"} \subseteq DOMAIN JsonStatus
        /\ JsonStatus["CoreTemp"] = <<"core_temp", I(1)>>
        /\ JsonStatus["TimeOffset"] = <<"time_offset", I(1)>>
        /\ JsonStatus["Mac"] = <<"mac", U(6)>> /\ JsonStatus["HmsCode"] = <<"hms_code", U(8)>>
    BY DEF JsonStatus
  <2>2. QED
    BY <2>1, JsonAt DEF MeasuredLayout
<1>3. Named("VersionApp", "version_app") /\ Named("VersionLoader", "version_loader")
      /\ Named("VersionHardware", "version_hardware")
  <2>1. /\ {"VersionApp", "VersionLoader", "VersionHardware"} \subseteq DOMAIN JsonStatus
        /\ JsonStatus["VersionApp"] = <<"version_app", U(4)>>
        /\ JsonStatus["VersionLoader"] = <<"version_loader", U(4)>>
        /\ JsonStatus["VersionHardware"] = <<"version_hardware", U(4)>>
    BY DEF JsonStatus
  <2>2. QED
    BY <2>1, JsonAt DEF MeasuredLayout
<1>4. /\ Named("PowerUpCnt", "powerup_cnt") /\ Named("CurWorkState", "cur_work_state")
      /\ Named("LocalTimeNow", "local_time_now") /\ Named("LastSyncTime", "last_sync_time")
      /\ Named("TimeSyncType", "time_sync_type") /\ Named("LidarDiagStatus", "lidar_diag_status")
      /\ Named("LidarFlashStatus", "lidar_flash_status") /\ Named("FwType", "FW_TYPE")
      /\ Named("RoiMode", "ROI_Mode")
  <2>1. {"PowerUpCnt", "CurWorkState", "LocalTimeNow", "LastSyncTime", "TimeSyncType",
         "LidarDiagStatus", "LidarFlashStatus", "FwType", "RoiMode"} \subseteq DOMAIN JsonStatus
    BY DEF JsonStatus
  <2>2. /\ JsonStatus["PowerUpCnt"] = <<"powerup_cnt", U(1)>>
        /\ JsonStatus["CurWorkState"] = <<"cur_work_state", U(1)>>
        /\ JsonStatus["LocalTimeNow"] = <<"local_time_now", U(1)>>
        /\ JsonStatus["LastSyncTime"] = <<"last_sync_time", U(1)>>
        /\ JsonStatus["TimeSyncType"] = <<"time_sync_type", U(1)>>
        /\ JsonStatus["LidarDiagStatus"] = <<"lidar_diag_status", U(1)>>
        /\ JsonStatus["LidarFlashStatus"] = <<"lidar_flash_status", U(1)>>
        /\ JsonStatus["FwType"] = <<"FW_TYPE", U(1)>> /\ JsonStatus["RoiMode"] = <<"ROI_Mode", U(1)>>
    BY DEF JsonStatus
  <2>3. QED
    BY <2>1, <2>2, JsonAt DEF MeasuredLayout
<1>5. DOMAIN Measured =
          {"vehicle_speed", "environment_temp", "core_temp", "time_offset", "powerup_cnt",
           "cur_work_state", "version_app", "version_loader", "version_hardware", "mac",
           "local_time_now", "last_sync_time", "time_sync_type", "lidar_diag_status",
           "lidar_flash_status", "FW_TYPE", "hms_code", "ROI_Mode"}
  BY DEF Measured
<1> HIDE DEF Named
<1>6. \A n \in DOMAIN Measured : \E k : Named(k, n)
  BY <1>1, <1>2, <1>3, <1>4, <1>5
<1>7. QED
  BY <1>6 DEF Named

LEMMA MeasuredAtFactory ==
    ASSUME NEW t, NEW k \in DOMAIN Json, Json[k][1] \in DOMAIN Measured
    PROVE  Factory(t)[k] = Wire(Measured[Json[k][1]])
<1>1. k \notin {"Sn", "ProductInfo", "StatusCode", "LidarIpCfg", "StateInfoHostIpCfg",
                "LidarPointDataHostIpCfg", "LidarImuHostIpCfg", "CtlHostIpCfg", "LogHostIpCfg",
                "FovCfg0", "FovCfg1", "InstallAttitude", "FuncIoCfg"}
  <2>1. \A j \in DOMAIN JsonNetwork : Json[j][1] \notin DOMAIN Measured
    <3>1. \A j \in DOMAIN JsonNetwork : JsonNetwork[j][1] \notin DOMAIN Measured
      BY DEF JsonNetwork, Measured
    <3>2. QED
      BY <3>1, JsonAt
  <2>2. \A j \in {"Sn", "ProductInfo", "StatusCode"} : Json[j][1] \notin DOMAIN Measured
    <3>1. \A j \in {"Sn", "ProductInfo", "StatusCode"} :
              j \in DOMAIN JsonStatus /\ JsonStatus[j][1] \notin DOMAIN Measured
      BY DEF JsonStatus, Measured
    <3>2. QED
      BY <3>1, JsonAt
  <2>3. {"LidarIpCfg", "StateInfoHostIpCfg", "LidarPointDataHostIpCfg", "LidarImuHostIpCfg",
         "CtlHostIpCfg", "LogHostIpCfg"} \subseteq DOMAIN JsonNetwork
    BY DEF JsonNetwork
  <2>4. QED
    BY <2>1, <2>2, <2>3, WrittenKeys
<1>2. k \in Keys
  BY JsonKeys
<1> DEFINE m == Wire(Measured[Json[k][1]])
<1>3. QED
  BY <1>1, <1>2 DEF Factory

(* Numbers that are not large, with a sign only where the report has one.  *)
Readable(layout, m) ==
    /\ DOMAIN layout = DOMAIN m /\ m = [i \in DOMAIN m |-> m[i]]
    /\ \A i \in DOMAIN m : m[i] \in Int /\ m[i] >= -100 /\ m[i] <= 100
    /\ \A i \in DOMAIN m : layout[i] = "Int" \/ (layout[i] = "Uint" /\ m[i] >= 0)

LEMMA ReadableReads ==
    ASSUME NEW k, NEW m, Readable(Json[k][2], m)
    PROVE  Told(k, Wire(m)) = m
<1> DEFINE layout == Json[k][2]
<1>1. \A i \in DOMAIN m : Written(layout[i], m[i] % Word) = m[i]
  <2>1. SUFFICES ASSUME NEW i \in DOMAIN m
                 PROVE  Written(layout[i], m[i] % Word) = m[i]
    OBVIOUS
  <2>2. m[i] \in Signed
    BY WordFacts DEF Readable, Signed
  <2>3. layout[i] = "Int" \/ (layout[i] = "Uint" /\ m[i] >= 0)
    BY DEF Readable
  <2>4. QED
    BY <2>2, <2>3, SignedSurvives
<1>2. \A i \in DOMAIN m : Wire(m)[i] = m[i] % Word
  BY DEF Wire
<1>3. Told(k, Wire(m)) = [i \in DOMAIN m |-> Written(layout[i], Wire(m)[i])]
  BY DEF Told, Readable
<1>4. QED
  BY <1>1, <1>2, <1>3 DEF Readable

LEMMA MeasuredReadable ==
    \A n \in DOMAIN Measured : Readable(MeasuredLayout(n), Measured[n])
<1> DEFINE Small == {x \in Nat : x <= 100}
           Signs == {x \in Int : x >= -100 /\ x <= 100}
<1>1. \A n \in Nat : \A m \in [1 .. n -> Small] : Readable(U(n), m)
  BY DEF Readable, U
<1>2. \A m \in [1 .. 1 -> Signs] : Readable(I(1), m)
  <2>1. DOMAIN I(1) = 1 .. 1 /\ \A i \in 1 .. 1 : I(1)[i] = "Int"
    BY DEF I
  <2>2. \A m \in [1 .. 1 -> Signs] : \A i \in 1 .. 1 : m[i] \in Signs
    OBVIOUS
  <2>3. QED
    BY <2>1, <2>2 DEF Readable
<1>3. \A n \in {"vehicle_speed", "environment_temp", "core_temp", "time_offset"} :
          Measured[n] \in [1 .. 1 -> Signs]
  <2>1. /\ Measured["vehicle_speed"] = <<-3>> /\ Measured["environment_temp"] = <<-4>>
        /\ Measured["core_temp"] = <<35>> /\ Measured["time_offset"] = <<-2>>
    BY DEF Measured
  <2>2. \A a \in Signs : <<a>> \in [1 .. 1 -> Signs]
    OBVIOUS
  <2>3. -3 \in Signs /\ -4 \in Signs /\ 35 \in Signs /\ -2 \in Signs
    OBVIOUS
  <2>4. QED
    BY <2>1, <2>2, <2>3
<1>4. \A n \in {"version_app", "version_loader", "version_hardware"} :
          Measured[n] \in [1 .. 4 -> Small]
  <2>1. /\ Measured["version_app"] = <<13, 18, 2, 44>> /\ Measured["version_loader"] = <<3, 1, 0, 0>>
        /\ Measured["version_hardware"] = <<1, 2, 3, 4>>
    BY DEF Measured
  <2>2. /\ <<13, 18, 2, 44>> \in [1 .. 4 -> Small] /\ <<3, 1, 0, 0>> \in [1 .. 4 -> Small]
        /\ <<1, 2, 3, 4>> \in [1 .. 4 -> Small]
    OBVIOUS
  <2>3. QED
    BY <2>1, <2>2
<1>5. Measured["mac"] \in [1 .. 6 -> Small] /\ Measured["hms_code"] \in [1 .. 8 -> Small]
  <2>1. /\ Measured["mac"] = <<6, 5, 4, 3, 2, 1>>
        /\ Measured["hms_code"] = <<8, 7, 6, 5, 4, 3, 2, 1>>
    BY DEF Measured
  <2>2. QED
    BY <2>1
<1>6. \A n \in {"powerup_cnt", "cur_work_state", "local_time_now", "last_sync_time",
                "time_sync_type", "lidar_diag_status", "lidar_flash_status", "FW_TYPE", "ROI_Mode"} :
          Measured[n] \in [1 .. 1 -> Small]
  <2>1. /\ Measured["powerup_cnt"] = <<7>> /\ Measured["cur_work_state"] = <<1>>
        /\ Measured["local_time_now"] = <<90>> /\ Measured["last_sync_time"] = <<80>>
        /\ Measured["time_sync_type"] = <<1>> /\ Measured["lidar_diag_status"] = <<0>>
        /\ Measured["lidar_flash_status"] = <<2>> /\ Measured["FW_TYPE"] = <<1>>
        /\ Measured["ROI_Mode"] = <<0>>
    BY DEF Measured
  <2>2. \A a \in Small : <<a>> \in [1 .. 1 -> Small]
    OBVIOUS
  <2>3. \A a \in {7, 1, 90, 80, 0, 2} : a \in Small
    OBVIOUS
  <2>4. QED
    BY <2>1, <2>2, <2>3
<1>7. DOMAIN Measured =
          {"vehicle_speed", "environment_temp", "core_temp", "time_offset", "powerup_cnt",
           "cur_work_state", "version_app", "version_loader", "version_hardware", "mac",
           "local_time_now", "last_sync_time", "time_sync_type", "lidar_diag_status",
           "lidar_flash_status", "FW_TYPE", "hms_code", "ROI_Mode"}
  BY DEF Measured
<1> HIDE DEF Small, Signs
<1>8. QED
  BY <1>1, <1>2, <1>3, <1>4, <1>5, <1>6, <1>7 DEF MeasuredLayout

LEMMA MeasuredReads ==
    ASSUME NEW k \in DOMAIN Json, Json[k][1] \in DOMAIN Measured
    PROVE  Told(k, Wire(Measured[Json[k][1]])) = Measured[Json[k][1]]
<1>1. Json[k][2] = MeasuredLayout(Json[k][1])
  BY MeasuredNames, JsonNames
<1>2. QED
  BY <1>1, MeasuredReadable, ReadableReads
-----------------------------------------------------------------------------
(* Between any two steps the lidar holds what was asked, at a key of the   *)
(* name it was asked under, and what it measures as it measured it.        *)
AskedIsHeld ==
    \A n \in DOMAIN asked : \E k \in DOMAIN Json : Json[k][1] = n /\ Told(k, held[k]) = asked[n]
MeasuredIsHeld ==
    \A k \in DOMAIN Json : Json[k][1] \in DOMAIN Measured => held[k] = Wire(Measured[Json[k][1]])
SettingsInv == DOMAIN held = Keys /\ AskedIsHeld /\ MeasuredIsHeld /\ ReportedAsAsked

(* What one call does to the inductive invariant.                          *)
LEMMA CallKeeps ==
    ASSUME SettingsInv, NEW c \in Calls, NEW kv \in KeyValues(Dispatched(c)),
           held' = [held EXCEPT ![KeyOf(kv.key)] = kv.value],
           asked' = [n \in (DOMAIN asked \cup About(c)) \ (IF Survives(c) THEN {} ELSE About(c)) |->
                        IF n \in About(c) THEN Said(c) ELSE asked[n]]
    PROVE  DOMAIN held' = Keys /\ AskedIsHeld' /\ MeasuredIsHeld'
<1>1. PICK w : Writes(c, kv, w)
  BY CallWrites
<1>2. KeyOf(kv.key) = w /\ w \in Keys
  BY <1>1, KeyOfKey DEF Writes
<1>3. DOMAIN held' = Keys /\ held'[w] = kv.value /\ \A k \in Keys : k # w => held'[k] = held[k]
  BY <1>2 DEF SettingsInv
<1>4. ASSUME NEW n \in DOMAIN asked'
      PROVE  \E k \in DOMAIN Json : Json[k][1] = n /\ Told(k, held'[k]) = asked'[n]
  <2>1. CASE n \in About(c)
    <3>1. Survives(c) /\ asked'[n] = Said(c)
      BY <1>4, <2>1
    <3>2. w \in DOMAIN Json /\ Json[w][1] = n
      BY <1>1, <2>1 DEF Writes
    <3>3. QED
      BY <1>1, <1>3, <3>1, <3>2 DEF Writes
  <2>2. CASE n \notin About(c)
    <3>1. n \in DOMAIN asked /\ asked'[n] = asked[n]
      BY <1>4, <2>2
    <3>2. PICK k \in DOMAIN Json : Json[k][1] = n /\ Told(k, held[k]) = asked[n]
      BY <3>1 DEF SettingsInv, AskedIsHeld
    <3>3. k # w
      BY <1>1, <2>2, <3>2 DEF Writes
    <3>4. held'[k] = held[k]
      BY <1>3, <3>3, JsonKeys
    <3>5. QED
      BY <3>1, <3>2, <3>4
  <2>3. QED
    BY <2>1, <2>2
<1>5. ASSUME NEW k \in DOMAIN Json, Json[k][1] \in DOMAIN Measured
      PROVE  held'[k] = Wire(Measured[Json[k][1]])
  <2>1. k # w
    BY <1>1, <1>5 DEF Writes
  <2>2. QED
    BY <1>3, <1>5, <2>1, JsonKeys DEF SettingsInv, MeasuredIsHeld
<1>6. QED
  BY <1>3, <1>4, <1>5 DEF AskedIsHeld, MeasuredIsHeld

(* A lidar as it left the factory.                                         *)
LEMMA FactoryKeeps ==
    ASSUME NEW t, NEW h, h = Factory(t)
    PROVE  /\ DOMAIN h = Keys
           /\ \A k \in DOMAIN Json :
                  Json[k][1] \in DOMAIN Measured => h[k] = Wire(Measured[Json[k][1]])
<1>1. DOMAIN h = Keys
  BY DEF Factory
<1>2. QED
  BY <1>1, MeasuredAtFactory

LEMMA SettingsInitInv == SettingsInit => SettingsInv
<1> SUFFICES ASSUME SettingsInit PROVE SettingsInv
  OBVIOUS
<1>1. DOMAIN held = Keys /\ MeasuredIsHeld
  BY FactoryKeeps DEF SettingsInit, MeasuredIsHeld
<1>2. AskedIsHeld
  BY DEF SettingsInit, AskedIsHeld
<1>3. ReportedAsAsked
  BY DEF SettingsInit, ReportedAsAsked, Nothing
<1>4. QED
  BY <1>1, <1>2, <1>3 DEF SettingsInv

LEMMA SettingsNextInv == SettingsInv /\ [SettingsNext]_settings => SettingsInv'
<1> SUFFICES ASSUME SettingsInv, [SettingsNext]_settings PROVE SettingsInv'
  OBVIOUS
<1>1. CASE Detected
  BY <1>1 DEF Detected, SettingsInv, AskedIsHeld, MeasuredIsHeld, ReportedAsAsked
<1>2. CASE Call
  <2>1. PICK c \in IF setter_calls = 0 THEN Calls ELSE Again : \E kv \in KeyValues(Dispatched(c)) :
            /\ held' = [held EXCEPT ![KeyOf(kv.key)] = kv.value]
            /\ asked' = [n \in (DOMAIN asked \cup About(c)) \ (IF Survives(c) THEN {} ELSE About(c)) |->
                            IF n \in About(c) THEN Said(c) ELSE asked[n]]
    BY <1>2 DEF Call
  <2>2. DOMAIN held' = Keys /\ AskedIsHeld' /\ MeasuredIsHeld'
    <3>1. c \in Calls
      BY <2>1, SettingsConstants
    <3>2. QED
      BY <2>1, <3>1, CallKeeps
  <2>3. ReportedAsAsked'
    BY <1>2 DEF Call, SettingsInv, ReportedAsAsked
  <2>4. QED
    BY <2>2, <2>3 DEF SettingsInv
<1>3. CASE RequestReset
  <2>1. DOMAIN held' = Keys /\ MeasuredIsHeld'
    BY <1>3, FactoryKeeps DEF RequestReset, MeasuredIsHeld
  <2>2. AskedIsHeld'
    BY <1>3 DEF RequestReset, AskedIsHeld
  <2>3. ReportedAsAsked'
    BY <1>3 DEF RequestReset, SettingsInv, ReportedAsAsked
  <2>4. QED
    BY <2>1, <2>2, <2>3 DEF SettingsInv
<1>4. CASE Query
  <2>1. report'.of = "query" /\ UNCHANGED <<held, asked>>
    BY <1>4 DEF Query
  <2>2. QED
    BY <2>1 DEF SettingsInv, AskedIsHeld, MeasuredIsHeld, ReportedAsAsked
<1>5. CASE OnPush
  <2> DEFINE json == StateInfoToJson(ParseStateInfo(Pairs(Order)))
  <2>1. report'.asked = asked /\ report'.json = json /\ UNCHANGED <<held, asked>>
    BY <1>5 DEF OnPush
  <2>2. /\ DOMAIN json = {Json[k][1] : k \in DOMAIN Json}
        /\ \A k \in DOMAIN Json : json[Json[k][1]] = Told(k, held[k])
    BY ReportIsHeld
  <2> HIDE DEF json
  <2>3. \A n \in DOMAIN asked : n \in DOMAIN json /\ json[n] = asked[n]
    BY <2>2 DEF SettingsInv, AskedIsHeld
  <2>4. ASSUME NEW n \in DOMAIN Measured
        PROVE  n \in DOMAIN json /\ json[n] = Measured[n]
    <3>1. PICK k \in DOMAIN Json : Json[k][1] = n
      BY MeasuredNames
    <3>2. Told(k, held[k]) = Measured[n]
      BY <3>1, MeasuredReads DEF SettingsInv, MeasuredIsHeld
    <3>3. QED
      BY <2>2, <3>1, <3>2
  <2>5. ReportedAsAsked'
    BY <2>1, <2>3, <2>4 DEF ReportedAsAsked
  <2>6. QED
    BY <2>1, <2>5 DEF SettingsInv, AskedIsHeld, MeasuredIsHeld
<1>6. CASE UNCHANGED settings
  BY <1>6 DEF settings, SettingsInv, AskedIsHeld, MeasuredIsHeld, ReportedAsAsked
<1>7. QED
  BY <1>1, <1>2, <1>3, <1>4, <1>5, <1>6 DEF SettingsNext

LEMMA AboutIsSubject == \A c : About(c) \subseteq Range(Subject)
<1>1. \A n \in DOMAIN Subject : Subject[n] \in Range(Subject)
  BY DEF Range
<1>2. "EnableLivoxLidarImuData" \in DOMAIN Subject /\ Subject["EnableLivoxLidarImuData"] = "imu_data_en"
  BY DEF Subject
<1>3. QED
  BY <1>1, <1>2 DEF About

(* The types of LidarSettings: the lidar holds a value for every key, only *)
(* names of the report are asked for, and a report of a push has a value   *)
(* under every name of a key the parser knows, and no other.               *)
THEOREM SettingsTypes == SettingsSpec => []SettingsTypeOK
<1>1. SettingsInit => SettingsTypeOK
  <2> SUFFICES ASSUME SettingsInit PROVE SettingsTypeOK
    OBVIOUS
  <2>1. DOMAIN held = Keys
    BY FactoryKeeps DEF SettingsInit
  <2>2. 0 \in 0 .. MaxCalls
    BY SettingsConstants
  <2>3. DOMAIN asked = {}
    BY DEF SettingsInit
  <2>4. lidar_type \in Types /\ dev_type = FALSE /\ setter_calls = 0
    BY DEF SettingsInit
  <2>5. ReportOK
    BY DEF SettingsInit, Nothing, ReportOK
  <2>6. QED
    BY <2>1, <2>2, <2>3, <2>4, <2>5 DEF SettingsTypeOK
<1>2. SettingsTypeOK /\ [SettingsNext]_settings => SettingsTypeOK'
  <2> SUFFICES ASSUME SettingsTypeOK, [SettingsNext]_settings PROVE SettingsTypeOK'
    OBVIOUS
  <2>1. CASE Detected \/ UNCHANGED settings
    BY <2>1 DEF Detected, settings, SettingsTypeOK, ReportOK
  <2>2. CASE Query
    <3>1. report'.of = "query" /\ UNCHANGED <<lidar_type, dev_type, setter_calls, held, asked>>
      BY <2>2 DEF Query
    <3>2. QED
      BY <3>1 DEF SettingsTypeOK, ReportOK
  <2>3. CASE OnPush
    <3> DEFINE json == StateInfoToJson(ParseStateInfo(Pairs(Order)))
    <3>1. /\ report'.of = "push" /\ report'.asked = asked /\ report'.json = json
          /\ UNCHANGED <<lidar_type, dev_type, setter_calls, held, asked>>
      BY <2>3 DEF OnPush
    <3>2. DOMAIN json = {Json[k][1] : k \in DOMAIN Json}
      BY ReportIsHeld
    <3> HIDE DEF json
    <3>3. QED
      BY <3>1, <3>2 DEF SettingsTypeOK, ReportOK
  <2>4. CASE Call
    <3>1. lidar_type' \in Types /\ dev_type' \in BOOLEAN /\ setter_calls' \in 0 .. MaxCalls
      BY <2>4, SettingsConstants DEF Call, SettingsTypeOK
    <3>2. DOMAIN held' = DOMAIN held
      BY <2>4 DEF Call
    <3>3. PICK c : DOMAIN asked' = (DOMAIN asked \cup About(c)) \ (IF Survives(c) THEN {} ELSE About(c))
      BY <2>4 DEF Call
    <3>4. ReportOK'
      BY <2>4 DEF Call, SettingsTypeOK, ReportOK
    <3>5. QED
      BY <3>1, <3>2, <3>3, <3>4, AboutIsSubject DEF SettingsTypeOK
  <2>5. CASE RequestReset
    <3>1. lidar_type' \in Types /\ dev_type' \in BOOLEAN /\ setter_calls' \in 0 .. MaxCalls
      BY <2>5, SettingsConstants DEF RequestReset, SettingsTypeOK
    <3>2. DOMAIN held' = Keys /\ DOMAIN asked' = {}
      BY <2>5, FactoryKeeps DEF RequestReset
    <3>3. ReportOK'
      BY <2>5 DEF RequestReset, SettingsTypeOK, ReportOK
    <3>4. QED
      BY <3>1, <3>2, <3>3 DEF SettingsTypeOK
  <2>6. QED
    BY <2>1, <2>2, <2>3, <2>4, <2>5 DEF SettingsNext
<1>3. QED
  BY <1>1, <1>2, PTL DEF SettingsSpec

(* What a user is told about a lidar is what has been asked of it last, if *)
(* the arguments were ones that survive, and what it measures is told with *)
(* its sign.                                                               *)
THEOREM SettingsReported == SettingsSpec => []ReportedAsAsked
<1>1. SettingsInv => ReportedAsAsked
  BY DEF SettingsInv
<1>2. QED
  BY <1>1, SettingsInitInv, SettingsNextInv, PTL DEF SettingsSpec
=============================================================================
