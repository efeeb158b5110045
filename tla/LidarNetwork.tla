---------------------------- MODULE LidarNetwork ----------------------------
(***************************************************************************)
(* The Livox SDK from LivoxLidarSdkInit to LivoxLidarSdkUninit, any number *)
(* of times: the configuration file (parse_cfg_file.cpp, params_check.cpp),*)
(* the sockets and the IO loops that read them (device_manager.cpp,        *)
(* network_util.cpp, io_loop.cpp), the tables of lidars, what a lidar is   *)
(* told about where to send (build_request.cpp) and which of its datagrams *)
(* reach the user's callbacks.  The requests themselves are the business   *)
(* of LidarConfig: here a lidar answers at once.                           *)
(*                                                                         *)
(* One host address.  A key "ip:port" of channel_info_ is then a port.     *)
(***************************************************************************)
EXTENDS Integers, Sequences, FiniteSets, SequencesExt, FiniteSetsExt

CONSTANTS
    NetLidars,     \* the addresses of the lidars
    TypeOf,        \* [NetLidars -> LidarTypes]: what they are
    Files,         \* the configuration files
    Changes,       \* bound: those a program changes to
    MaxInits,      \* bound: calls of LivoxLidarSdkInit
    MaxRefusals,   \* bound: sockets the operating system refuses
    MaxPoll        \* OPEN_MAX_POLL + 1: descriptors of an IO loop

LidarTypes == {"HAP", "Mid360"}

ASSUME NetworkConstants ==
    /\ IsFiniteSet(NetLidars) /\ TypeOf \in [NetLidars -> LidarTypes]
    /\ \A f \in Files :
          /\ f.entries \in Seq(ToSet(f.entries))
          /\ \A e \in ToSet(f.entries) : e.type \in LidarTypes /\ e.lidars \subseteq NetLidars
    /\ MaxInits \in Nat /\ MaxRefusals \in Nat /\ MaxPoll \in Nat

VARIABLES
    phase,       \* of the process
    inits,       \* calls of LivoxLidarSdkInit so far
    refusals,    \* sockets refused so far
    past,        \* what has happened before: see Heard
    file,        \* the file of the last Init with one
    framework,   \* sdk_framework_cfg_ptr_
    types,       \* type_lidars_cfg_map_
    custom,      \* custom_lidars_cfg_map_ of DeviceManager
    list,        \* custom_lidars_cfg_ptr_
    handler,     \* is_view_ of GeneralCommandHandler, once it has a comm_port_
    known,       \* custom_lidars_cfg_map_ of GeneralCommandHandler
    channel,     \* channel_info_
    open,        \* the open sockets
    polled,      \* those that are descriptors of a loop that runs
    stopped,     \* is_stop_detection_
    detecting,   \* the detection thread runs
    found,       \* devices_ of GeneralCommandHandler
    told         \* where each lidar has been told to send

process == <<phase, inits, file, framework>>
faults == <<refusals, past>>
tables == <<types, custom, list, handler, known>>
sockets == <<channel, open, polled>>
detection == <<stopped, detecting>>
networkVars == <<process, faults, tables, sockets, detection, found, told>>

HostAddress == "host"
DetectionPort == "56000"
NoPort == "0"              \* kLogPort, and an address without a port
DebugPort == "44332"       \* kHostDebugPointCloudPort

(* A lidar nobody has told where to send.                                  *)
Untold ==
    [gen |-> 0, point |-> [at |-> "elsewhere", port |-> "57000"],
     imu |-> [at |-> "elsewhere", port |-> "58000"], state |-> [at |-> "elsewhere", port |-> NoPort]]
NoFile == [sound |-> TRUE, master |-> FALSE, log |-> FALSE, entries |-> <<>>]

NetworkInit ==
    /\ phase = "idle" /\ inits = 0 /\ file = NoFile /\ framework = "none"
    /\ refusals = 0 /\ past = {}
    /\ types = <<>> /\ custom = <<>> /\ list = <<>> /\ handler = "none" /\ known = <<>>
    /\ channel = <<>> /\ open = {} /\ polled = {}
    /\ stopped = FALSE /\ detecting = FALSE
    /\ found = [l \in NetLidars |-> "no"]
    /\ told = [l \in NetLidars |-> Untold]
-----------------------------------------------------------------------------
(* The file.  An entry of host_net_info lists lidars, or stands for all    *)
(* lidars of its type.  sound says that every member is there and of its   *)
(* type: what has been read of a file that is not is thrown away.          *)

(* ParamsCheck::CheckPort: the ports a Mid-360 sends from are not to choose.*)
LidarPorts(e) == IF e.type = "Mid360" THEN "constants" ELSE e.from

Configured(e, l) ==
    [type |-> e.type, lidar |-> l, group |-> e.group, ports |-> e.ports, from |-> LidarPorts(e)]

ByType(f) == {i \in DOMAIN f.entries : f.entries[i].lidars = {}}

Listed(f) ==
    FlattenSeq([i \in DOMAIN f.entries |->
        LET e == f.entries[i] IN SetToSeq({Configured(e, l) : l \in e.lidars})])

(* ParamsCheck::Check: something is configured, no lidar twice, and a      *)
(* multicast_ip is the address of a group.                                 *)
Accepted(f) ==
    /\ f.sound
    /\ ByType(f) # {} \/ Listed(f) # <<>>
    /\ \A i, j \in DOMAIN Listed(f) : Listed(f)[i].lidar = Listed(f)[j].lidar => i = j
    /\ \A i \in DOMAIN f.entries : f.entries[i].group # "192.168.1.9"

(* GetLidarConfigMap: the last entry of a type wins.                       *)
TypeMap(f) ==
    LET of(t) == {i \in ByType(f) : f.entries[i].type = t}
    IN  [t \in {f.entries[i].type : i \in ByType(f)} |->
            Configured(f.entries[Max(of(t))], "any")]

LidarMap(cs) ==
    [l \in {c.lidar : c \in ToSet(cs)} |-> CHOOSE c \in ToSet(cs) : c.lidar = l]

(* What LivoxLidarSdkInit makes of each file.                              *)
Parsed ==
    [f \in Files |-> [accepted |-> Accepted(f), listed |-> Listed(f),
                      types |-> TypeMap(f), lidars |-> LidarMap(Listed(f))]]

(* first @@ second, without TLC.                                           *)
Over(first, second) ==
    [x \in DOMAIN first \cup DOMAIN second |->
        IF x \in DOMAIN first THEN first[x] ELSE second[x]]
-----------------------------------------------------------------------------
(* Sockets.  CreateSocket binds to the multicast group if there is one.  A *)
(* socket is known by the call of Init it belongs to and by its number.    *)
Address(c) == IF c.group = "none" THEN HostAddress ELSE c.group

Data(c, port) == [port |-> port, at |-> Address(c), loop |-> "data", looked |-> TRUE, keyed |-> TRUE]
Cmd(port) == [port |-> port, at |-> HostAddress, loop |-> "cmd", looked |-> TRUE, keyed |-> TRUE]

(* CreateDataChannel and CreateCommandChannel.  The broadcast socket of a  *)
(* Mid-360 has no key: every call creates one more.                        *)
Needs(c, master, log) ==
    <<Data(c, c.ports.point), Data(c, c.ports.imu), Data(c, DebugPort)>>
    \o (IF master THEN <<Cmd(c.ports.cmd)>> ELSE <<>>)
    \o <<Cmd(c.ports.push)>>
    \o (IF c.type = "Mid360"
        THEN <<[Cmd(c.ports.push) EXCEPT !.at = "broadcast", !.looked = FALSE, !.keyed = FALSE]>>
        ELSE <<>>)
    \o (IF log THEN <<Cmd(c.ports.log)>> ELSE <<>>)

Skipped(need) ==
    \/ need.looked /\ (need.port = NoPort \/ need.port \in DOMAIN channel)
    \/ need.loop = "data" /\ need.port = DetectionPort

(* The sockets that are made for needs, one after the other: the first of  *)
(* a key, as long as none is refused.                                      *)
Fresh(needs) ==
    {i \in DOMAIN needs :
        /\ ~Skipped(needs[i])
        /\ needs[i].looked => \A j \in 1 .. i - 1 : ~(needs[j].keyed /\ needs[j].port = needs[i].port)}
Made(needs, bad) ==
    {i \in Fresh(needs) : \A j \in Fresh(needs) : j <= i => needs[j].port \notin bad}

(* PollSetAdd: a loop that is full takes no more and nobody is told.  One  *)
(* descriptor of each is the pipe that wakes it up.                        *)
Taken(needs, made, polling) ==
    {i \in made :
        Cardinality({s \in polling : s.loop = needs[i].loop})
        + Cardinality({j \in made : j <= i /\ needs[j].loop = needs[i].loop}) < MaxPoll}

(* IOLoop::AddDelegate: the loop of each socket is woken up and adds it to *)
(* its descriptors itself.                                                 *)
AddDelegates(added, polling) == polled' = polling \cup added

(* The sockets needs are created on top of those of polling, and those of  *)
(* bad are refused.                                                        *)
Created(needs, bad, gen, polling) ==
    LET made == Made(needs, bad)
        socket(i) == [port |-> needs[i].port, at |-> needs[i].at, loop |-> needs[i].loop,
                      gen |-> gen, n |-> Cardinality(open) + i]
        at(q) == CHOOSE i \in made : needs[i].keyed /\ needs[i].port = q
    IN  /\ bad # {} => made # Fresh(needs)
        /\ open' = open \cup {socket(i) : i \in made}
        /\ AddDelegates({socket(i) : i \in Taken(needs, made, polling)}, polling)
        /\ channel' = Over([q \in {needs[i].port : i \in {j \in made : needs[j].keyed}} |-> socket(at(q))],
                           channel)
        /\ refusals' = refusals + Cardinality(bad)

(* CreateDetectionChannel does not look for a channel that is there.       *)
DetectionNeeds ==
    LET need == [port |-> DetectionPort, at |-> HostAddress, loop |-> "detection", looked |-> FALSE, keyed |-> TRUE]
    IN  <<[need EXCEPT !.at = "broadcast", !.keyed = FALSE], need>>

(* Mutant: the loop over the lidars returns after the first.               *)
AllNeedsFirst(cs, master, log) == IF cs = <<>> THEN <<>> ELSE Needs(cs[1], master, log)

AllNeeds(cs, master, log) == FlattenSeq([i \in DOMAIN cs |-> Needs(cs[i], master, log)])

(* The ports the operating system may refuse, one at a time.               *)
Refusable == {"56201", "57000", DetectionPort}
Refusals == {{}} \cup (IF refusals < MaxRefusals THEN {{p} : p \in Refusable} ELSE {})
-----------------------------------------------------------------------------
(* LivoxLidarSdkInit with a file.                                          *)
MayInit == phase \in {"idle", "refused"} /\ inits < MaxInits

InitRejected(f) ==
    /\ MayInit
    /\ ~Parsed[f].accepted
    /\ inits' = inits + 1
    /\ phase' = "refused"
    /\ UNCHANGED <<file, framework, faults, tables, sockets, detection, found, told>>

(* The two tables of lidars are filled before the sockets are created and  *)
(* stay when one is refused; so do channel_info_ and the sockets, while    *)
(* the IO threads are replaced by the next call.  The table of             *)
(* GeneralCommandHandler keeps what it has of a lidar, and its is_view_    *)
(* what a failed call has made it.                                         *)
InitTables(f) ==
    /\ handler' = IF handler = "none" THEN "file" ELSE handler
    /\ types' = Over(Parsed[f].types, types)
    /\ custom' = Over(Parsed[f].lidars, custom)
    /\ list' = Parsed[f].listed
    /\ known' = Over(known, Parsed[f].lidars)

(* The detection thread is started before is_stop_detection_ is reset.     *)
StartDetection ==
    /\ detecting' \in IF stopped THEN BOOLEAN ELSE {TRUE}
    /\ stopped' = FALSE

(* What comes of LivoxLidarSdkInit: with a socket refused it returns false *)
(* and may be called again.                                                *)
Finish(bad, initialized) ==
    IF bad = {} THEN phase' = initialized /\ StartDetection
                ELSE phase' = "refused" /\ UNCHANGED detection

InitWithFile(f) ==
    /\ MayInit
    /\ Parsed[f].accepted
    /\ file \in {f, NoFile} \/ f \in Changes
    /\ inits' = inits + 1
    /\ file' = f
    /\ framework' = IF f.master THEN "master" ELSE "slave"
    /\ past' = past \cup (IF file \in {f, NoFile} THEN {} ELSE {"other file"})
                    \cup (IF phase = "refused" /\ DOMAIN channel # {} THEN {"refused"} ELSE {})
    /\ InitTables(f)
    /\ \E bad \in Refusals, needs \in {DetectionNeeds \o AllNeeds(list', f.master, f.log)} :
          /\ Created(needs, bad, inits', {})
          /\ Finish(bad, "running")
    /\ UNCHANGED <<found, told>>

(* LivoxLidarSdkInit with a host address only: view mode.  What an earlier *)
(* file has left in sdk_framework_cfg_ptr_ stays.                          *)
InitView ==
    /\ MayInit
    /\ inits' = inits + 1
    /\ past' = past \cup (IF phase = "refused" /\ DOMAIN channel # {} THEN {"refused"} ELSE {})
    /\ \E bad \in Refusals :
          /\ Created(DetectionNeeds, bad, inits', {})
          /\ Finish(bad, "viewing")
    /\ handler' = "view"
    /\ UNCHANGED <<file, framework, types, custom, list, known, found, told>>
-----------------------------------------------------------------------------
(* Mutant: devices_ is not cleared, and a lidar is configured once.        *)
RepliesOnce(l) == detecting /\ told[l].gen = 0

(* A reply of lidar l to the broadcast, which goes out every second, in    *)
(* OnData of the detection thread.                                         *)
Replies(l) == detecting /\ told[l].gen # inits

(* A lidar that no table has is added if its type has a configuration,     *)
(* and the sockets of all lidars are gone through again.  The reply itself *)
(* goes no further.                                                        *)
DetectUnknown(l) ==
    /\ phase = "running"
    /\ Replies(l)
    /\ l \notin DOMAIN custom
    /\ TypeOf[l] \in DOMAIN types
    /\ LET c == [types[TypeOf[l]] EXCEPT !.lidar = l]
       IN  /\ custom' = Over(custom, [x \in {l} |-> c])
           /\ list' = Append(list, c)
           /\ known' = Over(known, LidarMap(Append(list, c)))
    /\ \E bad \in Refusals, needs \in {AllNeeds(list', framework = "master", file.log)} :
          Created(needs, bad, inits, polled)
    /\ UNCHANGED <<process, past, types, handler, detection, found, told>>

(* GeneralCommandHandler::HandleDetectionData, the first reply: a master   *)
(* asks for the firmware type.  In view mode it looks into the framework   *)
(* configuration, which only a file sets.                                  *)
DetectFirst(l) ==
    /\ Replies(l)
    /\ phase = "viewing" \/ (phase = "running" /\ l \in DOMAIN custom)
    /\ found[l] = "no"
    /\ IF framework = "none" THEN phase' = "crashed" ELSE UNCHANGED phase
    /\ found' = [found EXCEPT ![l] = IF framework = "master" THEN "app" ELSE "asked"]
    /\ UNCHANGED <<inits, file, framework, faults, tables, sockets, detection, told>>

(* What the requests of the configuration say: the group for the data if   *)
(* there is one.  That of a Mid-360 is also about the state information.   *)
HapRequest(c, old) ==
    [old EXCEPT !.gen = inits,
                !.point = [at |-> Address(c), port |-> c.ports.point],
                !.imu = [at |-> Address(c), port |-> c.ports.imu]]
Mid360Request(c, old) ==
    [HapRequest(c, old) EXCEPT !.state = [at |-> Address(c), port |-> c.ports.push]]

ConfigRequest(c, old) == IF c.type = "HAP" THEN HapRequest(c, old) ELSE Mid360Request(c, old)

(* CreateCommandHandler: the handler of the type the lidar has told is     *)
(* given the table, of which it keeps the lidars of its type; in view mode *)
(* it is given none.                                                       *)
Handled(l) == handler = "file" /\ known[l].type = TypeOf[l]

(* Each later one sends the configuration.                                 *)
DetectAgain(l) ==
    /\ phase = "running"
    /\ Replies(l)
    /\ l \in DOMAIN custom
    /\ found[l] = "app"
    /\ Handled(l)
    /\ told' = [told EXCEPT ![l] = ConfigRequest(known[l], told[l])]
    /\ UNCHANGED <<process, faults, tables, sockets, detection, found>>

(* In view mode the lidar is asked what it has been told, and told the     *)
(* same ports with this host's address.  A refused socket is only logged.  *)
ViewNeeds(l) ==
    LET need(s) == [port |-> told[l][s].port, at |-> HostAddress, loop |-> "data",
                    looked |-> TRUE, keyed |-> TRUE]
    IN  <<need("point"), need("imu")>>

ViewRequest(old) == [old EXCEPT !.gen = inits, !.point.at = HostAddress, !.imu.at = HostAddress]

ViewAgain(l) ==
    /\ phase = "viewing"
    /\ Replies(l)
    /\ found[l] = "app"
    /\ \E bad \in Refusals :
          Created(ViewNeeds(l), bad, inits, polled)
    /\ told' = [told EXCEPT ![l] = ViewRequest(told[l])]
    /\ UNCHANGED <<process, past, tables, detection, found>>

(* A slave tells nobody: the master, on another machine, has told the      *)
(* lidars the group.                                                       *)
MasterTells(l) ==
    /\ phase = "running" /\ framework = "slave"
    /\ Replies(l)
    /\ l \in DOMAIN custom
    /\ custom[l].group # "none"
    /\ told' = [told EXCEPT ![l] = ConfigRequest(custom[l], told[l])]
    /\ UNCHANGED <<process, faults, tables, sockets, detection, found>>

DetectionReply(l) == DetectUnknown(l) \/ DetectFirst(l) \/ DetectAgain(l) \/ ViewAgain(l)
-----------------------------------------------------------------------------
(* Mutant: the sockets with a key are closed.                              *)
ClosedKeyed(s) == \E p \in DOMAIN channel : channel[p] = s

(* The detection sockets of a call that failed are forgotten.              *)
Closed(s) == s.loop # "detection" \/ s.gen = inits

(* GeneralCommandHandler::Destory: what it knows of the devices and its    *)
(* port are gone, its table of configurations is not.                      *)
Forget ==
    /\ found' = [l \in NetLidars |-> "no"]
    /\ handler' = "none"
    /\ UNCHANGED known

(* LivoxLidarSdkUninit.  The loops go on without descriptors.  A callback  *)
(* of theirs that is under way meets tables and ports that are being       *)
(* destroyed; nothing keeps it from that.                                  *)
Uninit ==
    /\ phase \in {"running", "viewing"}
    /\ phase' \in {"idle"} \cup (IF \E l \in NetLidars : told[l].gen = inits THEN {"crashed"} ELSE {})
    /\ past' = past \ {"refused"}
    /\ types' = <<>> /\ custom' = <<>> /\ list' = <<>>
    /\ Forget
    /\ channel' = <<>>
    /\ open' = {s \in open : ~Closed(s)}
    /\ polled' = {}
    /\ stopped' = TRUE
    /\ detecting' = FALSE
    /\ UNCHANGED <<inits, file, framework, refusals, told>>

NetworkNext ==
    \/ \E f \in Files : InitRejected(f) \/ InitWithFile(f)
    \/ InitView
    \/ \E l \in NetLidars : DetectionReply(l) \/ MasterTells(l)
    \/ Uninit

NetworkSpec == NetworkInit /\ [][NetworkNext]_networkVars
-----------------------------------------------------------------------------
NetworkTypeOK ==
    /\ phase \in {"idle", "running", "viewing", "refused", "crashed"}
    /\ inits \in 0 .. MaxInits /\ refusals \in 0 .. MaxRefusals
    /\ past \subseteq {"other file", "refused"}
    /\ framework \in {"none", "master", "slave"}
    /\ handler \in {"none", "file", "view"}
    /\ DOMAIN types \subseteq LidarTypes
    /\ DOMAIN custom \subseteq NetLidars /\ DOMAIN known \subseteq NetLidars
    /\ polled \subseteq open
    /\ \A p \in DOMAIN channel : channel[p] \in open
    /\ stopped \in BOOLEAN /\ detecting \in BOOLEAN
    /\ found \in [NetLidars -> {"no", "asked", "app"}]
    /\ \A l \in NetLidars : told[l].gen \in 0 .. inits

(* DeviceManager::OnData: what becomes of a datagram of stream s of lidar  *)
(* l.  The port it comes from is compared with the lidar's configuration,  *)
(* while the lidar has been told the constants.                            *)
OnData(l, s) ==
    \/ phase = "viewing" /\ s # "state"
    \/ phase = "running" /\ l \in DOMAIN custom /\ custom[l].from = "constants"

Reaches(l, s) ==
    /\ \E k \in polled : k.at = told[l][s].at /\ k.port = told[l][s].port
    /\ OnData(l, s)

(* What the user has to write: a data port is in one group, and is neither *)
(* another port of this host nor one that the SDK has a use of its own for;*)
(* nor is the port of a Mid-360's state information; and the lidar's side  *)
(* of a HAP is the constants.                                              *)
OwnPorts == {NoPort, DetectionPort, DebugPort}
PortsAgree(f) ==
    \A i, j \in DOMAIN f.entries :
       LET a == f.entries[i]
           b == f.entries[j]
           data(e) == {e.ports.point, e.ports.imu}
           other(e) == {e.ports.cmd, e.ports.push, e.ports.log}
       IN  /\ data(a) \cap data(b) # {} => a.group = b.group
           /\ data(a) \cap (other(b) \cup OwnPorts) = {}
           /\ a.type = "Mid360" => a.ports.push \notin OwnPorts
PlainFile(f) == PortsAgree(f) /\ \A i \in DOMAIN f.entries : LidarPorts(f.entries[i]) = "constants"

(* The state information of a Mid-360 is not sent to where the SDK reads   *)
(* it if there is a group, and that of a HAP is not spoken of.             *)
Promised(l) ==
    {"point", "imu"} \cup
    (IF phase = "running" /\ l \in DOMAIN custom
        /\ custom[l].type = "Mid360" /\ custom[l].group = "none" THEN {"state"} ELSE {})

(* A lidar that has been told where to send is heard: whatever its entry   *)
(* in the file, whenever it was found, after whatever earlier calls of     *)
(* Init and Uninit, master or slave.  It takes that no socket was refused  *)
(* and that no earlier file differed, both of which the SDK does not       *)
(* survive (channel_info_, GeneralCommandHandler::AddDetectedLidar).       *)
Heard ==
    \A l \in NetLidars : \A s \in Promised(l) :
        /\ phase \in {"running", "viewing"} /\ told[l].gen = inits
        /\ refusals = 0 /\ past = {} /\ PlainFile(file)
        => Reaches(l, s)

(* After Uninit no socket is left open, but for the detection sockets of a *)
(* call of Init that failed.                                               *)
SocketsClosed ==
    phase = "idle" => \A s \in open : s.loop = "detection" /\ refusals > 0

(* Every lidar of the user's file, listed or of a listed type, is told     *)
(* where to send before its replies to the broadcasts, which go on for     *)
(* ever, change nothing any more: also after a socket was refused, as long *)
(* as the detection thread has not been stopped by a flag of the run       *)
(* before and no failed call of view mode has left its mark.               *)
Expected(l) ==
    /\ phase = "running" /\ framework = "master" /\ detecting /\ handler = "file"
    /\ IF l \in DOMAIN custom THEN known[l].type = TypeOf[l] ELSE TypeOf[l] \in DOMAIN types
EveryoneIsTold ==
    \A l \in NetLidars : Expected(l) /\ ~ENABLED DetectionReply(l) => told[l].gen = inits
=============================================================================
