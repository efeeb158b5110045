---------------------------- MODULE LidarCommands ----------------------------
(***************************************************************************)
(* The command layer of the Livox SDK that the lidar driver is linked      *)
(* with: requests numbered, sent by UDP and remembered in commands_ until  *)
(* an answer with the same number comes or the time is up                  *)
(* (general_command_handler.cpp, mid360_command_handler.cpp,               *)
(* generate_seq.cpp).  A component that sends requests EXTENDS this module *)
(* and says what the callbacks do.  The lidars are Mid-360s.               *)
(*                                                                         *)
(* Two threads run callbacks.  "cmd" is the command IO thread: it reads    *)
(* the answers and, like every IO thread, looks for expired commands on    *)
(* its timer.  "other" is an IO thread that only does the latter, and the  *)
(* detection IO thread, which also handles detection replies.              *)
(*                                                                         *)
(* A datagram arrives before its command expires or not at all: a lost one *)
(* is one that is still in the air when its command expires.  An answer    *)
(* that is later finds no command in the code, so for answers this loses   *)
(* nothing.  The sequence number then only tells apart commands that wait  *)
(* at the same time: a new one takes a number no waiting command for the   *)
(* same request has (the code's come back after 65535 commands).           *)
(*                                                                         *)
(* sendto may fail.  SendCommand then calls the callback at once, with no  *)
(* answer (mid360_command_handler.cpp:246), and the command is remembered  *)
(* all the same when the callback is done: it will expire as well.         *)
(***************************************************************************)
EXTENDS Integers, Sequences, FiniteSets, SequencesExt

CONSTANTS MaxSeq,       \* bound: numbers in use for requests of one kind
          MaxFailures   \* bound: calls of sendto that fail

ASSUME MaxSeqAssumption == MaxSeq \in Nat \ {0}
ASSUME MaxFailuresAssumption == MaxFailures \in Nat

VARIABLES
    commands,   \* commands_: [of, seq], of being the request
    adding,     \* the command "other" has sent and not yet put in commands_
    todo,       \* the requests the callback running on "other" has still to send
    air,        \* datagrams: [way: "request" or "answer", cmd, ret]
    unsent,     \* commands that could not be sent and whose callback is still to
                \* be called, with the thread that does so: [thread, cmd]
    failures    \* how many calls of sendto have failed

sending == <<unsent, failures>>
layer == <<commands, adding, todo, air, sending>>

Threads == {"cmd", "other"}

Seqs == 1 .. MaxSeq

Waiting == commands \cup adding

Request(c) == [way |-> "request", cmd |-> c, ret |-> "none"]
Answer(c, ret) == [way |-> "answer", cmd |-> c, ret |-> ret]

Numbers(r, waiting) == {n \in Seqs : [of |-> r, seq |-> n] \notin waiting}
Numbered(r, waiting) ==
    [of |-> r, seq |-> CHOOSE n \in Numbers(r, waiting) :
                           \A m \in Numbers(r, waiting) : n <= m]
CanNumber(rs, waiting) == \A r \in rs : Numbers(r, waiting) # {}

(* For the callbacks of these kinds, which look at nothing but an answer,  *)
(* a request that could not be sent is like one that is lost.              *)
Indifferent == {"Cfg", "Attitude", "Imu"}
Minds(c) == c.of.kind \notin Indifferent

(* Thread t is not inside a call of SendCommand that has failed.           *)
Clear(t) == \A u \in unsent : u.thread # t

(* The commands gone are not waited for any longer, their datagrams are    *)
(* taken out, and the commands sent go on their way.                       *)
InAir(gone, sent) == {d \in air : d.cmd \notin gone} \cup {Request(c) : c \in sent}

InitLayer ==
    /\ commands = {}
    /\ adding = {}
    /\ todo = <<>>
    /\ air = {}
    /\ unsent = {}
    /\ failures = 0

OtherIsFree == todo = <<>> /\ adding = {}

(* A callback on the command thread sends the requests rs after the        *)
(* commands gone have left commands_, having been called for the failures  *)
(* ran.  Only this thread reads answers, so sending a request and adding it*)
(* to commands_ are one step.  No callback sends two requests that it can  *)
(* survive not to have sent.                                               *)
SendAfter(ran, gone, rs) ==
    LET waiting == Waiting \ gone
        sent == {Numbered(r, waiting) : r \in rs}
    IN  /\ CanNumber(rs, waiting)
        /\ commands' = (commands \ gone) \cup sent
        /\ \/ /\ air' = InAir(gone, sent)
              /\ unsent' = unsent \ ran
              /\ UNCHANGED failures
           \/ \E c \in sent :
                 /\ Minds(c)
                 /\ failures < MaxFailures
                 /\ failures' = failures + 1
                 /\ air' = InAir(gone, sent \ {c})
                 /\ unsent' = (unsent \ ran) \cup {[thread |-> "cmd", cmd |-> c]}
        /\ UNCHANGED <<adding, todo>>

SendFromCmd(gone, rs) == SendAfter({}, gone, rs)

(* Mid360CommandHandler::SendCommand with a port puts the request into     *)
(* commands_ before it is sent, on whatever thread: no answer beats it.    *)
SendKnown(r) == SendFromCmd({}, {r})

(* A callback on the other thread sends its requests one after the other.  *)
SendNext ==
    /\ adding = {}
    /\ todo # <<>>
    /\ CanNumber({Head(todo)}, Waiting)
    /\ LET c == Numbered(Head(todo), Waiting)
       IN  /\ adding' = {c}
           /\ air' = InAir({}, {c})
    /\ todo' = Tail(todo)
    /\ UNCHANGED <<commands, sending>>

SendNextFails ==
    /\ adding = {}
    /\ todo # <<>>
    /\ CanNumber({Head(todo)}, Waiting)
    /\ failures < MaxFailures
    /\ failures' = failures + 1
    /\ LET c == Numbered(Head(todo), Waiting)
       IN  /\ Minds(c)
           /\ commands' = commands \cup {c}
           /\ unsent' = unsent \cup {[thread |-> "other", cmd |-> c]}
    /\ todo' = Tail(todo)
    /\ UNCHANGED <<adding, air>>

(* AddCommand comes after SendCommand: an answer that was faster has found *)
(* no command and is gone.                                                 *)
AddCommand ==
    /\ adding # {}
    /\ commands' = commands \cup adding
    /\ adding' = {}
    /\ UNCHANGED <<todo, air, sending>>

(* The answer to a command that is not in commands_ yet.                   *)
IgnoreAnswer(d) ==
    /\ d \in air
    /\ d.way = "answer"
    /\ d.cmd \notin commands
    /\ air' = air \ {d}
    /\ UNCHANGED <<commands, adding, todo, sending>>

(* The answer d reaches a waiting command and its callback sends rs.       *)
TakeAnswer(d, rs) ==
    /\ d \in air
    /\ d.way = "answer"
    /\ d.cmd \in commands
    /\ SendFromCmd({d.cmd}, rs)

(* The command c expires, seen by the timer of thread t, and its callback  *)
(* sends the requests rs.                                                  *)
Expire(t, c, rs) ==
    /\ c \in commands
    /\ \A u \in unsent : u.cmd # c
    /\ IF t = "cmd"
       THEN SendFromCmd({c}, ToSet(rs))
       ELSE /\ OtherIsFree
            /\ commands' = commands \ {c}
            /\ air' = InAir({c}, {})
            /\ todo' = rs
            /\ UNCHANGED <<adding, sending>>

(* The callback of a command that could not be sent sends the requests rs. *)
Recall(u, rs) ==
    /\ u \in unsent
    /\ IF u.thread = "cmd"
       THEN SendAfter({u}, {}, ToSet(rs))
       ELSE /\ OtherIsFree
            /\ unsent' = unsent \ {u}
            /\ todo' = rs
            /\ UNCHANGED <<commands, adding, air, failures>>

(* The lidar reads the request d and answers ret.                          *)
LidarAnswers(d, ret) ==
    /\ d \in air
    /\ d.way = "request"
    /\ air' = (air \ {d}) \cup {Answer(d.cmd, ret)}
    /\ UNCHANGED <<commands, adding, todo, sending>>

LayerTypeOK(Requests) ==
    LET Commands == [of : Requests, seq : Seqs]
    IN  /\ commands \subseteq Commands
        /\ adding \subseteq Commands
        /\ Cardinality(adding) <= 1
        /\ todo \in Seq(Requests)
        /\ \A d \in air : d.way \in {"request", "answer"} /\ d.cmd \in Waiting
        /\ unsent \subseteq [thread : Threads, cmd : commands]
        /\ failures \in 0 .. MaxFailures
=============================================================================
