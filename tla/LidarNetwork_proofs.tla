------------------------- MODULE LidarNetwork_proofs -------------------------
(***************************************************************************)
(* Theorems about LidarNetwork, for any number of calls of Init and Uninit,*)
(* any configuration files, lidars and loops: first which sockets are open,*)
(* then that they are the ones the lidars have been told to send to.       *)
(***************************************************************************)
EXTENDS LidarNetwork, SequenceLemmas

(* A socket that is not of the last call of Init is left by one that was   *)
(* refused a socket; a call whose file was not accepted leaves none.       *)
LeftByRefusal ==
    /\ refusals \in Nat
    /\ \A s \in open : s.gen = inits \/ refusals > 0
    /\ phase \in {"idle", "refused"} /\ refusals = 0 => open = {}

(* A key of channel_info_ is the port of an open socket, and only open     *)
(* sockets are descriptors of a loop.                                      *)
TablesInv ==
    /\ polled \subseteq open
    /\ \A p \in DOMAIN channel : channel[p] \in open /\ channel[p].port = p

NetworkInv == LeftByRefusal /\ SocketsClosed /\ TablesInv
-----------------------------------------------------------------------------
(* What creating sockets does, whichever are needed and refused: those     *)
(* there were stay, the new ones are of this call, and a refusal counts.   *)
LEMMA CreatedEffect ==
    ASSUME NEW needs, NEW bad \in Refusals, NEW gen, NEW polling, Created(needs, bad, gen, polling),
           refusals \in Nat, polling \subseteq open,
           \A p \in DOMAIN channel : channel[p] \in open /\ channel[p].port = p
    PROVE  /\ open \subseteq open' /\ \A s \in open' \ open : s.gen = gen
           /\ refusals' \in Nat /\ refusals' >= refusals /\ (bad # {} => refusals' > 0)
           /\ TablesInv'
<1> DEFINE made == Made(needs, bad)
           socket(i) == [port |-> needs[i].port, at |-> needs[i].at, loop |-> needs[i].loop,
                         gen |-> gen, n |-> Cardinality(open) + i]
           keyed == {j \in made : needs[j].keyed}
           at(q) == CHOOSE i \in made : needs[i].keyed /\ needs[i].port = q
           new == [q \in {needs[i].port : i \in keyed} |-> socket(at(q))]
<1>1. /\ open' = open \cup {socket(i) : i \in made}
      /\ polled' = polling \cup {socket(i) : i \in Taken(needs, made, polling)}
      /\ channel' = Over(new, channel)
      /\ refusals' = refusals + Cardinality(bad)
  BY DEF Created, AddDelegates
<1>2. Taken(needs, made, polling) \subseteq made
  BY DEF Taken
<1> HIDE DEF made
<1>3. \A i : socket(i).gen = gen /\ socket(i).port = needs[i].port
  OBVIOUS
<1>4. \A q \in DOMAIN new : at(q) \in made /\ needs[at(q)].port = q
  OBVIOUS
<1>5. \A q \in DOMAIN new : new[q] \in {socket(i) : i \in made} /\ new[q].port = q
  BY <1>4
<1>6. Cardinality(bad) \in Nat /\ (bad # {} => Cardinality(bad) = 1)
  <2>1. bad = {} \/ \E p : bad = {p}
    BY DEF Refusals
  <2>2. QED
    BY <2>1, FS_EmptySet, FS_Singleton
<1> HIDE DEF socket, new
<1>7. \A p \in DOMAIN channel' :
          \/ p \in DOMAIN new /\ channel'[p] = new[p]
          \/ p \in DOMAIN channel /\ channel'[p] = channel[p]
  BY <1>1 DEF Over
<1>8. TablesInv'
  BY <1>1, <1>2, <1>5, <1>7 DEF TablesInv
<1>9. QED
  BY <1>1, <1>3, <1>6, <1>8

LEMMA TablesKept == ASSUME TablesInv, UNCHANGED sockets PROVE TablesInv'
  BY DEF TablesInv, sockets

(* A call of Init, with a file or without one.                             *)
LEMMA InitKeeps ==
    ASSUME NetworkInv, MayInit, NEW needs, NEW bad \in Refusals, Created(needs, bad, inits', {}),
           NEW initialized, Finish(bad, initialized), initialized \in {"running", "viewing"}
    PROVE  NetworkInv'
<1>1. /\ phase \in {"idle", "refused"}
      /\ \A p \in DOMAIN channel : channel[p] \in open /\ channel[p].port = p
      /\ refusals \in Nat
      /\ refusals = 0 => open = {}
  BY DEF MayInit, NetworkInv, TablesInv, LeftByRefusal
<1>2. /\ open \subseteq open' /\ \A s \in open' \ open : s.gen = inits'
      /\ refusals' \in Nat /\ refusals' >= refusals /\ (bad # {} => refusals' > 0)
      /\ TablesInv'
  BY <1>1, CreatedEffect
<1>3. phase' = IF bad = {} THEN initialized ELSE "refused"
  BY DEF Finish
<1>4. LeftByRefusal'
  BY <1>1, <1>2, <1>3 DEF LeftByRefusal
<1>5. SocketsClosed'
  BY <1>3 DEF SocketsClosed
<1>6. QED
  BY <1>2, <1>4, <1>5 DEF NetworkInv

(* Sockets created for a lidar that was found.                             *)
LEMMA FoundKeeps ==
    ASSUME NetworkInv, NEW needs, NEW bad \in Refusals, Created(needs, bad, inits, polled),
           phase \in {"running", "viewing"}, UNCHANGED <<phase, inits>>
    PROVE  NetworkInv'
<1>1. /\ open \subseteq open' /\ \A s \in open' \ open : s.gen = inits
      /\ refusals' \in Nat /\ refusals' >= refusals
      /\ TablesInv'
  BY CreatedEffect DEF NetworkInv, TablesInv, LeftByRefusal
<1>2. LeftByRefusal' /\ SocketsClosed'
  BY <1>1 DEF NetworkInv, LeftByRefusal, SocketsClosed
<1>3. QED
  BY <1>1, <1>2 DEF NetworkInv

(* Uninit closes the sockets of the last call, and those of earlier ones   *)
(* but for their detection sockets.                                        *)
LEMMA UninitKeeps == ASSUME NetworkInv, Uninit PROVE NetworkInv'
<1>1. /\ open' = {s \in open : s.loop = "detection" /\ s.gen # inits}
      /\ channel' = <<>> /\ polled' = {} /\ UNCHANGED <<inits, refusals>>
  BY DEF Uninit, Closed
<1>2. \A s \in open' : s.loop = "detection" /\ refusals' > 0
  BY <1>1 DEF NetworkInv, LeftByRefusal
<1>3. refusals' \in Nat
  BY <1>1 DEF NetworkInv, LeftByRefusal
<1>4. LeftByRefusal' /\ SocketsClosed'
  BY <1>2, <1>3 DEF LeftByRefusal, SocketsClosed
<1>5. TablesInv'
  BY <1>1 DEF TablesInv
<1>6. QED
  BY <1>4, <1>5 DEF NetworkInv

(* Other steps leave the sockets alone.                                    *)
LEMMA QuietKeeps ==
    ASSUME NetworkInv, UNCHANGED <<sockets, refusals>>,
           \/ UNCHANGED <<phase, inits>>
           \/ phase \in {"idle", "refused"} /\ phase' = "refused"
           \/ phase \in {"running", "viewing"} /\ phase' = "crashed" /\ inits' = inits
    PROVE  NetworkInv'
<1>1. LeftByRefusal' /\ SocketsClosed'
  BY DEF NetworkInv, LeftByRefusal, SocketsClosed, sockets
<1>2. QED
  BY <1>1, TablesKept DEF NetworkInv
-----------------------------------------------------------------------------
LEMMA NetworkStart == NetworkInit => NetworkInv
  BY DEF NetworkInit, NetworkInv, LeftByRefusal, SocketsClosed, TablesInv

LEMMA NetworkStep ==
    ASSUME NetworkInv, [NetworkNext]_networkVars
    PROVE  NetworkInv'
<1>1. ASSUME NEW f \in Files, InitRejected(f) PROVE NetworkInv'
  BY <1>1, QuietKeeps DEF InitRejected, MayInit, faults
<1>2. ASSUME NEW f \in Files, InitWithFile(f) PROVE NetworkInv'
  BY <1>2, InitKeeps DEF InitWithFile
<1>3. CASE InitView
  BY <1>3, InitKeeps DEF InitView
<1>4. ASSUME NEW l \in NetLidars, DetectUnknown(l) PROVE NetworkInv'
  BY <1>4, FoundKeeps DEF DetectUnknown, process
<1>5. ASSUME NEW l \in NetLidars, DetectFirst(l) PROVE NetworkInv'
  BY <1>5, QuietKeeps DEF DetectFirst, faults
<1>6. ASSUME NEW l \in NetLidars, DetectAgain(l) \/ MasterTells(l) PROVE NetworkInv'
  BY <1>6, QuietKeeps DEF DetectAgain, MasterTells, process, faults
<1>7. ASSUME NEW l \in NetLidars, ViewAgain(l) PROVE NetworkInv'
  BY <1>7, FoundKeeps DEF ViewAgain, process
<1>8. CASE UNCHANGED networkVars
  BY <1>8, QuietKeeps DEF networkVars, process, faults
<1>9. QED
  BY <1>1, <1>2, <1>3, <1>4, <1>5, <1>6, <1>7, <1>8, UninitKeeps DEF NetworkNext, DetectionReply

(* Which sockets are open and which keys and descriptors there are, after  *)
(* any sequence of calls (LivoxLidarSdkInit, LivoxLidarSdkUninit).         *)
THEOREM NetworkIsSound == NetworkSpec => []NetworkInv
  BY NetworkStart, NetworkStep, PTL DEF NetworkSpec

(* After Uninit no socket is left open, but for the detection sockets of a *)
(* call of Init that was refused a socket (LivoxLidarSdkUninit,            *)
(* DeviceManager::Destory).                                                *)
THEOREM SocketsAreClosed == NetworkSpec => []SocketsClosed
<1>1. NetworkInv => SocketsClosed
  BY DEF NetworkInv
<1>2. QED
  BY <1>1, NetworkIsSound, PTL
-----------------------------------------------------------------------------
(* What a file says of a lidar, listed or found; and that it says something*)
(* of it.                                                                  *)
ConfigOf(f, l) ==
    IF l \in DOMAIN Parsed[f].lidars
    THEN Parsed[f].lidars[l]
    ELSE [Parsed[f].types[TypeOf[l]] EXCEPT !.lidar = l]

Has(f, l) ==
    /\ f \in Files /\ Parsed[f].accepted /\ l \in NetLidars
    /\ l \in DOMAIN Parsed[f].lidars \/ TypeOf[l] \in DOMAIN Parsed[f].types

FileWish(f, c) == Has(f, c.lidar) /\ c = ConfigOf(f, c.lidar)

(* No socket was refused and every Init was with the same file.            *)
Undisturbed == refusals = 0 /\ "other file" \notin past

(* The tables say of a lidar what the file says, also after Uninit, which  *)
(* forgets only some of them.                                              *)
FileInv ==
    /\ file = NoFile \/ file \in Files
    /\ \A l \in DOMAIN known : Has(file, l) /\ known[l] = ConfigOf(file, l)
    /\ phase \in {"idle", "refused"} => DOMAIN channel = {}
    /\ phase \in {"idle", "refused", "viewing"} => DOMAIN custom = {} /\ DOMAIN types = {}
    /\ phase = "running" =>
          /\ file \in Files /\ Parsed[file].accepted
          /\ \A t \in DOMAIN types : t \in DOMAIN Parsed[file].types /\ types[t] = Parsed[file].types[t]
          /\ DOMAIN Parsed[file].lidars \subseteq DOMAIN custom /\ DOMAIN custom \subseteq DOMAIN known
          /\ \A l \in DOMAIN custom : Has(file, l) /\ custom[l] = ConfigOf(file, l)
          /\ list \in Seq(ToSet(list)) /\ \A c \in ToSet(list) : FileWish(file, c)

(* The sockets with a key are of this call of Init and at the address that *)
(* the entries of the file give for their port; every lidar of the tables  *)
(* has its sockets.                                                        *)
RightFor(e, port, at) ==
    /\ port \in {e.ports.point, e.ports.imu} => at = Address(e)
    /\ e.type = "Mid360" /\ port = e.ports.push => at = HostAddress

KeysRight ==
    /\ \A p \in DOMAIN channel : channel[p].gen = inits
    /\ phase = "viewing" => \A p \in DOMAIN channel : channel[p].at = HostAddress
    /\ phase = "running" /\ PlainFile(file) =>
          \A p \in DOMAIN channel, e \in ToSet(file.entries) : RightFor(e, p, channel[p].at)

HasSockets(c) ==
    /\ {c.ports.point, c.ports.imu} \subseteq DOMAIN channel
    /\ c.type = "Mid360" => c.ports.push \in DOMAIN channel

PortsInv ==
    /\ phase \in {"running", "viewing"} => KeysRight
    /\ phase = "running" /\ PlainFile(file) => \A l \in DOMAIN custom : HasSockets(custom[l])

(* A lidar that this call has told anything was told what the file says,   *)
(* or in view mode this host; and the ports it ever was told are plain.    *)
ToldAsFile(l) ==
    LET c == custom[l] t == told[l] IN
    /\ l \in DOMAIN custom
    /\ t.point = [at |-> Address(c), port |-> c.ports.point]
    /\ t.imu = [at |-> Address(c), port |-> c.ports.imu]
    /\ c.type # "HAP" => t.state = [at |-> Address(c), port |-> c.ports.push]

ToldToView(l) ==
    LET t == told[l] IN
    /\ t.point.at = HostAddress /\ t.imu.at = HostAddress
    /\ PlainFile(file) => {t.point.port, t.imu.port} \subseteq DOMAIN channel

PlainPorts(t) == {t.point.port, t.imu.port} \cap OwnPorts = {}

ToldInv ==
    \A l \in NetLidars :
        /\ PlainFile(file) => PlainPorts(told[l])
        /\ told[l].gen = inits =>
              /\ phase = "viewing" => ToldToView(l)
              /\ phase = "running" => ToldAsFile(l)

Dest(d) == d = [at |-> d.at, port |-> d.port]
IsTold(t) ==
    /\ t = [gen |-> t.gen, point |-> t.point, imu |-> t.imu, state |-> t.state]
    /\ t.gen \in Nat /\ t.gen <= inits
    /\ Dest(t.point) /\ Dest(t.imu)
ToldTypes ==
    /\ inits \in Nat
    /\ told = [l \in NetLidars |-> told[l]]
    /\ \A l \in NetLidars : IsTold(told[l])

HearingInv ==
    /\ NetworkInv
    /\ ToldTypes
    /\ Undisturbed => FileInv /\ PortsInv /\ ToldInv

(* Every socket that this call of Init has made is a descriptor of its     *)
(* loop: none of the loops was full.                                       *)
Fits == \A s \in open : s.gen = inits => s \in polled
-----------------------------------------------------------------------------
(* What Parsed is made of.                                                 *)
LEMMA ParsedIs ==
    ASSUME NEW f \in Files
    PROVE  /\ Parsed[f].accepted <=> Accepted(f)
           /\ Parsed[f].listed = Listed(f) /\ Parsed[f].types = TypeMap(f)
           /\ Parsed[f].lidars = LidarMap(Listed(f))
  BY DEF Parsed

LEMMA Entries ==
    ASSUME NEW f \in Files
    PROVE  /\ f.entries \in Seq(ToSet(f.entries)) /\ Len(f.entries) \in Nat
           /\ DOMAIN f.entries = 1 .. Len(f.entries)
           /\ \A i \in DOMAIN f.entries : f.entries[i] \in ToSet(f.entries)
           /\ \A e \in ToSet(f.entries) : e.lidars \subseteq NetLidars /\ IsFiniteSet(e.lidars)
<1>1. /\ f.entries \in Seq(ToSet(f.entries))
      /\ \A e \in ToSet(f.entries) : e.lidars \subseteq NetLidars
      /\ IsFiniteSet(NetLidars)
  BY NetworkConstants
<1>2. \A e \in ToSet(f.entries) : IsFiniteSet(e.lidars)
  BY <1>1, FS_Subset
<1>3. \A R : \A z \in Seq(R) : Len(z) \in Nat /\ DOMAIN z = 1 .. Len(z)
  OBVIOUS
<1>4. \A i \in DOMAIN f.entries : f.entries[i] \in ToSet(f.entries)
  BY DEF ToSet
<1>5. QED
  BY <1>1, <1>2, <1>3, <1>4

(* A listed lidar is configured by an entry.                               *)
LEMMA ListedFrom ==
    ASSUME NEW f \in Files
    PROVE  /\ Listed(f) \in Seq(ToSet(Listed(f)))
           /\ \A c \in ToSet(Listed(f)) :
                 c.lidar \in NetLidars /\ \E e \in ToSet(f.entries) : c = Configured(e, c.lidar)
<1> DEFINE R == {Configured(e, l) : e \in ToSet(f.entries), l \in NetLidars}
           C(i) == {Configured(f.entries[i], l) : l \in f.entries[i].lidars}
           s == [i \in DOMAIN f.entries |-> SetToSeq(C(i))]
<1>1. ASSUME NEW i \in DOMAIN f.entries PROVE SetToSeq(C(i)) \in Seq(R)
  <2>1. f.entries[i] \in ToSet(f.entries) /\ IsFiniteSet(f.entries[i].lidars)
    BY Entries
  <2>2. C(i) \subseteq R
    BY <2>1, Entries
  <2>3. IsFiniteSet(C(i))
    <3> DEFINE L == f.entries[i].lidars
               m == [l \in L |-> Configured(f.entries[i], l)]
    <3>1. m \in Surjection(L, C(i))
      BY DEF Surjection
    <3>2. QED
      BY <2>1, <3>1, FS_Surjection
  <2>4. SetToSeq(C(i)) \in Seq(C(i))
    BY <2>3, SeqOfSet
  <2> HIDE DEF C, R
  <2>5. QED
    BY <2>2, <2>4
<1> HIDE DEF C, R
<1>2. s \in Seq(Seq(R))
  <2>1. Len(f.entries) \in Nat /\ DOMAIN f.entries = 1 .. Len(f.entries)
    BY Entries
  <2>2. s \in [1 .. Len(f.entries) -> Seq(R)]
    BY <1>1, <2>1
  <2>3. QED
    BY <2>1, <2>2
<1>3. Listed(f) = FlattenSeq(s)
  BY DEF Listed, C
<1>4. Listed(f) \in Seq(R)
  BY <1>2, <1>3, FlattenElements
<1>5. ToSet(Listed(f)) \subseteq R
  BY <1>4, ToSetType
<1>6. \A c \in R : c.lidar \in NetLidars /\ \E e \in ToSet(f.entries) : c = Configured(e, c.lidar)
  BY DEF R, Configured
<1>7. Listed(f) \in Seq(ToSet(Listed(f)))
  <2>1. \A z \in Seq(R) : z \in Seq({z[i] : i \in DOMAIN z})
    OBVIOUS
  <2>2. QED
    BY <1>4, <2>1 DEF ToSet
<1>8. QED
  BY <1>5, <1>6, <1>7

(* A finite set of numbers that is not empty has a greatest one.           *)
LEMMA GreatestIsIn ==
    ASSUME NEW n \in Nat, NEW S \in SUBSET (1 .. n), S # {}
    PROVE  Max(S) \in S
<1> DEFINE T == {n - x : x \in S}
<1>1. T \subseteq Nat /\ T # {}
  <2>1. \A x \in S : n - x \in Nat
    OBVIOUS
  <2>2. QED
    BY <2>1
<1>2. PICK m \in T : \A k \in T : m <= k
  BY <1>1, LeastNumber
<1>3. PICK x \in S : m = n - x
  BY <1>2
<1>4. \A y \in S : x >= y
  <2>1. SUFFICES ASSUME NEW y \in S PROVE x >= y
    OBVIOUS
  <2>2. m <= n - y
    BY <1>2
  <2>3. QED
    BY <1>3, <2>2
<1>5. QED
  BY <1>3, <1>4 DEF Max

LEMMA TypesFrom ==
    ASSUME NEW f \in Files, NEW t \in DOMAIN TypeMap(f)
    PROVE  \E e \in ToSet(f.entries) : TypeMap(f)[t] = Configured(e, "any")
<1> DEFINE S == {i \in ByType(f) : f.entries[i].type = t}
<1>1. t \in {f.entries[i].type : i \in ByType(f)} /\ TypeMap(f)[t] = Configured(f.entries[Max(S)], "any")
  BY DEF TypeMap
<1>2. S # {} /\ S \in SUBSET (1 .. Len(f.entries)) /\ Len(f.entries) \in Nat
  BY <1>1, Entries DEF ByType
<1>3. Max(S) \in S
  <2> HIDE DEF S
  <2>1. QED
    BY <1>2, GreatestIsIn
<1>4. f.entries[Max(S)] \in ToSet(f.entries)
  BY <1>2, <1>3, Entries
<1>5. QED
  BY <1>1, <1>4

(* What the file says of a lidar is said by one of its entries.            *)
LEMMA ConfigFrom ==
    ASSUME NEW f, NEW l, Has(f, l)
    PROVE  /\ ConfigOf(f, l).lidar = l
           /\ \E e \in ToSet(f.entries) : ConfigOf(f, l) = Configured(e, l)
<1>1. f \in Files /\ Parsed[f].types = TypeMap(f) /\ Parsed[f].lidars = LidarMap(Listed(f))
  BY ParsedIs DEF Has
<1>2. CASE l \in DOMAIN Parsed[f].lidars
  <2>1. \E c \in ToSet(Listed(f)) : c.lidar = l
    BY <1>1, <1>2 DEF LidarMap
  <2>2. /\ LidarMap(Listed(f))[l] \in ToSet(Listed(f))
        /\ LidarMap(Listed(f))[l].lidar = l
    BY <2>1 DEF LidarMap
  <2>3. QED
    BY <1>1, <1>2, <2>2, ListedFrom DEF ConfigOf
<1>3. CASE l \notin DOMAIN Parsed[f].lidars
  <2>1. PICK e \in ToSet(f.entries) : TypeMap(f)[TypeOf[l]] = Configured(e, "any")
    BY <1>1, <1>3, TypesFrom DEF Has
  <2>2. [Configured(e, "any") EXCEPT !.lidar = l] = Configured(e, l)
    BY DEF Configured
  <2>3. Configured(e, l).lidar = l
    BY DEF Configured
  <2>4. QED
    BY <1>1, <1>3, <2>1, <2>2, <2>3 DEF ConfigOf
<1>4. QED
  BY <1>2, <1>3

(* No lidar is listed twice, so that the table of a list is the list.      *)
LEMMA ListedIs ==
    ASSUME NEW f \in Files, Parsed[f].accepted, NEW c \in ToSet(Listed(f))
    PROVE  FileWish(f, c)
<1>1. \A i, j \in DOMAIN Listed(f) : Listed(f)[i].lidar = Listed(f)[j].lidar => i = j
  BY ParsedIs DEF Accepted
<1>2. \A d \in ToSet(Listed(f)) : d.lidar = c.lidar => d = c
  BY <1>1 DEF ToSet
<1>3. c.lidar \in DOMAIN LidarMap(Listed(f)) /\ LidarMap(Listed(f))[c.lidar] = c
  BY <1>2 DEF LidarMap
<1>4. QED
  BY <1>3, ParsedIs, ListedFrom DEF FileWish, Has, ConfigOf

LEMMA TableOf ==
    ASSUME NEW f, NEW cs, \A c \in ToSet(cs) : FileWish(f, c), NEW l \in DOMAIN LidarMap(cs)
    PROVE  Has(f, l) /\ LidarMap(cs)[l] = ConfigOf(f, l) /\ \E c \in ToSet(cs) : c.lidar = l
<1>1. \E c \in ToSet(cs) : c.lidar = l
  BY DEF LidarMap
<1>2. LidarMap(cs)[l] \in ToSet(cs) /\ LidarMap(cs)[l].lidar = l
  BY <1>1 DEF LidarMap
<1>3. QED
  BY <1>1, <1>2 DEF FileWish

LEMMA FileTable ==
    ASSUME NEW f \in Files, Parsed[f].accepted, NEW l \in DOMAIN Parsed[f].lidars
    PROVE  Has(f, l) /\ Parsed[f].lidars[l] = ConfigOf(f, l)
<1>1. Parsed[f].lidars = LidarMap(Listed(f))
  BY ParsedIs
<1>2. QED
  BY <1>1, ListedIs, TableOf
-----------------------------------------------------------------------------
(* The sockets that an entry needs, and those among them that matter here. *)
Broadcast(port) == [Cmd(port) EXCEPT !.at = "broadcast", !.looked = FALSE, !.keyed = FALSE]
NeedSet(c) ==
    {Data(c, c.ports.point), Data(c, c.ports.imu), Data(c, DebugPort),
     Cmd(c.ports.cmd), Cmd(c.ports.push), Cmd(c.ports.log), Broadcast(c.ports.push)}

LEMMA NeedsAre ==
    ASSUME NEW c, NEW master, NEW log
    PROVE  /\ Needs(c, master, log) \in Seq(NeedSet(c))
           /\ {Data(c, c.ports.point), Data(c, c.ports.imu), Cmd(c.ports.push)}
                 \subseteq ToSet(Needs(c, master, log))
<1> DEFINE R == NeedSet(c)
           a == <<Data(c, c.ports.point), Data(c, c.ports.imu), Data(c, DebugPort)>>
           b == IF master THEN <<Cmd(c.ports.cmd)>> ELSE <<>>
           p == <<Cmd(c.ports.push)>>
           d == IF c.type = "Mid360" THEN <<Broadcast(c.ports.push)>> ELSE <<>>
           e == IF log THEN <<Cmd(c.ports.log)>> ELSE <<>>
<1>1. a \in Seq(R) /\ b \in Seq(R) /\ p \in Seq(R) /\ d \in Seq(R) /\ e \in Seq(R)
  <2>1. /\ Data(c, c.ports.point) \in R /\ Data(c, c.ports.imu) \in R /\ Data(c, DebugPort) \in R
        /\ Cmd(c.ports.cmd) \in R /\ Cmd(c.ports.push) \in R /\ Cmd(c.ports.log) \in R
        /\ Broadcast(c.ports.push) \in R
    BY DEF NeedSet
  <2>2. QED
    BY <2>1
<1>2. Needs(c, master, log) = a \o b \o p \o d \o e
  BY DEF Needs, Broadcast
<1>3. Data(c, c.ports.point) \in ToSet(a) /\ Data(c, c.ports.imu) \in ToSet(a)
  BY DEF ToSet
<1>4. Cmd(c.ports.push) \in ToSet(p)
  BY ToSetOne
<1> HIDE DEF R, a, b, p, d, e
<1> DEFINE ab == a \o b
           abp == ab \o p
           abpd == abp \o d
<1>5. ab \in Seq(R) /\ ToSet(ab) = ToSet(a) \cup ToSet(b)
  BY <1>1, ToSetConcat
<1> HIDE DEF ab
<1>6. abp \in Seq(R) /\ ToSet(abp) = ToSet(ab) \cup ToSet(p)
  BY <1>1, <1>5, ToSetConcat
<1> HIDE DEF abp
<1>7. abpd \in Seq(R) /\ ToSet(abpd) = ToSet(abp) \cup ToSet(d)
  BY <1>1, <1>6, ToSetConcat
<1> HIDE DEF abpd
<1>8. abpd \o e \in Seq(R) /\ ToSet(abpd \o e) = ToSet(abpd) \cup ToSet(e)
  BY <1>1, <1>7, ToSetConcat
<1>9. Needs(c, master, log) = abpd \o e
  BY <1>2 DEF ab, abp, abpd
<1>10. QED
  BY <1>3, <1>4, <1>5, <1>6, <1>7, <1>8, <1>9 DEF R

LEMMA AllNeedsAre ==
    ASSUME NEW cs, cs \in Seq(ToSet(cs)), NEW master, NEW log
    PROVE  LET R == UNION {NeedSet(c) : c \in ToSet(cs)} IN
           /\ AllNeeds(cs, master, log) \in Seq(R)
           /\ \A c \in ToSet(cs) :
                 {Data(c, c.ports.point), Data(c, c.ports.imu), Cmd(c.ports.push)}
                     \subseteq ToSet(AllNeeds(cs, master, log))
<1> DEFINE R == UNION {NeedSet(c) : c \in ToSet(cs)}
           s == [i \in DOMAIN cs |-> Needs(cs[i], master, log)]
<1>1. Len(cs) \in Nat /\ DOMAIN cs = 1 .. Len(cs) /\ \A i \in DOMAIN cs : cs[i] \in ToSet(cs)
  <2>1. \A S : \A z \in Seq(S) : Len(z) \in Nat /\ DOMAIN z = 1 .. Len(z) /\ \A i \in DOMAIN z : z[i] \in S
    OBVIOUS
  <2>2. QED
    BY <2>1
<1>2. \A i \in DOMAIN cs : Needs(cs[i], master, log) \in Seq(R)
  <2>1. SUFFICES ASSUME NEW i \in DOMAIN cs PROVE Needs(cs[i], master, log) \in Seq(R)
    OBVIOUS
  <2>2. NeedSet(cs[i]) \subseteq R
    BY <1>1
  <2>3. Needs(cs[i], master, log) \in Seq(NeedSet(cs[i]))
    BY NeedsAre
  <2> HIDE DEF R
  <2>4. QED
    BY <2>2, <2>3
<1> HIDE DEF R
<1>3. s \in Seq(Seq(R)) /\ Len(s) = Len(cs)
  BY <1>1, <1>2
<1>4. FlattenSeq(s) \in Seq(R) /\ ToSet(FlattenSeq(s)) = Elements(s, Len(cs))
  BY <1>3, FlattenElements
<1>5. ASSUME NEW c \in ToSet(cs)
      PROVE  {Data(c, c.ports.point), Data(c, c.ports.imu), Cmd(c.ports.push)} \subseteq Elements(s, Len(cs))
  <2>1. PICK i \in DOMAIN cs : c = cs[i]
    BY DEF ToSet
  <2>2. i \in 1 .. Len(cs) /\ s[i] = Needs(c, master, log)
    BY <1>1, <2>1
  <2> HIDE DEF s
  <2>3. QED
    BY <2>2, NeedsAre DEF Elements
<1>6. QED
  BY <1>4, <1>5 DEF AllNeeds, R

(* The keys that creating sockets adds, when none is refused: each is of a *)
(* socket that was needed, and every need of an ordinary port has one.     *)
KeyedBy(n, port, at) == n.keyed /\ n.port = port /\ n.at = at

LEMMA CreatedKeys ==
    ASSUME NEW R, NEW needs \in Seq(R), NEW gen, NEW polling, Created(needs, {}, gen, polling)
    PROVE  /\ DOMAIN channel \subseteq DOMAIN channel'
           /\ \A q \in DOMAIN channel' :
                 \/ q \in DOMAIN channel /\ channel'[q] = channel[q]
                 \/ /\ channel'[q].gen = gen
                    /\ \E n \in ToSet(needs) : KeyedBy(n, q, channel'[q].at)
           /\ \A n \in ToSet(needs) :
                 n.keyed /\ n.port \notin {NoPort, DetectionPort} => n.port \in DOMAIN channel'
<1> DEFINE made == Made(needs, {})
           socket(i) == [port |-> needs[i].port, at |-> needs[i].at, loop |-> needs[i].loop,
                         gen |-> gen, n |-> Cardinality(open) + i]
           at(q) == CHOOSE i \in made : needs[i].keyed /\ needs[i].port = q
           keyed == {j \in made : needs[j].keyed}
           new == [q \in {needs[i].port : i \in keyed} |-> socket(at(q))]
<1>1. channel' = Over(new, channel)
  BY DEF Created
<1>2. made = Fresh(needs) /\ made \subseteq DOMAIN needs
  BY DEF Made, Fresh
<1>3. \A i : socket(i).gen = gen /\ socket(i).at = needs[i].at
  OBVIOUS
<1>4. \A q \in DOMAIN new : at(q) \in made /\ needs[at(q)].keyed /\ needs[at(q)].port = q
  OBVIOUS
<1>5. \A q \in DOMAIN new : new[q].gen = gen /\ \E n \in ToSet(needs) : KeyedBy(n, q, new[q].at)
  <2>1. SUFFICES ASSUME NEW q \in DOMAIN new
                 PROVE  new[q].gen = gen /\ \E n \in ToSet(needs) : KeyedBy(n, q, new[q].at)
    OBVIOUS
  <2>2. new[q].gen = gen /\ new[q].at = needs[at(q)].at
    OBVIOUS
  <2>3. needs[at(q)] \in ToSet(needs)
    BY <1>2, <1>4 DEF ToSet
  <2>4. QED
    BY <1>4, <2>2, <2>3 DEF KeyedBy
<1>6. \A i \in made : needs[i].keyed => needs[i].port \in DOMAIN new
  OBVIOUS
<1> HIDE DEF made, new, socket
<1>7. DOMAIN channel' = DOMAIN new \cup DOMAIN channel
  BY <1>1 DEF Over
<1>8. \A q \in DOMAIN channel' : channel'[q] = IF q \in DOMAIN new THEN new[q] ELSE channel[q]
  BY <1>1 DEF Over
<1>9. ASSUME NEW n \in ToSet(needs), n.keyed, n.port \notin {NoPort, DetectionPort}
      PROVE  n.port \in DOMAIN channel'
  <2>1. SUFFICES ASSUME n.port \notin DOMAIN channel PROVE n.port \in DOMAIN new
    BY <1>7
  <2> DEFINE J == {j \in DOMAIN needs : needs[j].keyed /\ needs[j].port = n.port}
  <2>2. DOMAIN needs = 1 .. Len(needs) /\ Len(needs) \in Nat
    OBVIOUS
  <2>3. J \subseteq Nat /\ J # {}
    BY <1>9, <2>2 DEF ToSet
  <2>4. PICK j \in J : \A k \in J : j <= k
    BY <2>3, LeastNumber
  <2>5. \A k \in 1 .. j - 1 : k \notin J /\ k \in DOMAIN needs
    BY <2>2, <2>4
  <2>6. ~Skipped(needs[j])
    BY <1>9, <2>1, <2>4 DEF Skipped
  <2>7. j \in Fresh(needs)
    BY <2>4, <2>5, <2>6 DEF Fresh
  <2>8. QED
    BY <1>2, <1>6, <2>4, <2>7
<1>10. QED
  BY <1>5, <1>7, <1>8, <1>9

(* A refused socket is counted, so that an undisturbed step has none.      *)
LEMMA NoneRefused ==
    ASSUME NetworkInv, NEW needs, NEW bad \in Refusals, NEW gen, NEW polling \in SUBSET open,
           Created(needs, bad, gen, polling), refusals' = 0
    PROVE  bad = {} /\ refusals = 0
<1>1. /\ refusals' \in Nat /\ refusals' >= refusals /\ (bad # {} => refusals' > 0)
      /\ refusals \in Nat
  BY CreatedEffect DEF NetworkInv, TablesInv, LeftByRefusal
<1>2. QED
  BY <1>1
-----------------------------------------------------------------------------
(* What a plain file says, of any two of its entries and of a lidar.       *)
LEMMA PlainPair ==
    ASSUME NEW f \in Files, PlainFile(f), NEW a \in ToSet(f.entries), NEW b \in ToSet(f.entries)
    PROVE  /\ {a.ports.point, a.ports.imu} \cap {b.ports.point, b.ports.imu} # {} => a.group = b.group
           /\ {a.ports.point, a.ports.imu} \cap ({b.ports.cmd, b.ports.push, b.ports.log} \cup OwnPorts) = {}
           /\ a.type = "Mid360" => a.ports.push \notin OwnPorts
           /\ LidarPorts(a) = "constants"
<1>1. PICK i \in DOMAIN f.entries : a = f.entries[i]
  BY DEF ToSet
<1>2. PICK j \in DOMAIN f.entries : b = f.entries[j]
  BY DEF ToSet
<1>3. QED
  BY <1>1, <1>2 DEF PlainFile, PortsAgree

LEMMA WishPorts ==
    ASSUME NEW f, NEW c, FileWish(f, c), PlainFile(f)
    PROVE  /\ {c.ports.point, c.ports.imu} \cap OwnPorts = {}
           /\ c.type = "Mid360" => c.ports.push \notin OwnPorts
           /\ c.from = "constants"
<1>1. PICK e \in ToSet(f.entries) : c = Configured(e, c.lidar)
  BY ConfigFrom DEF FileWish
<1>2. c.ports = e.ports /\ c.type = e.type /\ c.from = LidarPorts(e)
  BY <1>1 DEF Configured
<1>3. QED
  BY <1>2, PlainPair DEF FileWish, Has

(* A socket that some lidar needs is right for every entry.                *)
LEMMA NeedRight ==
    ASSUME NEW f, NEW c, FileWish(f, c), PlainFile(f), NEW n \in NeedSet(c), n.keyed,
           NEW b \in ToSet(f.entries)
    PROVE  RightFor(b, n.port, n.at)
<1>1. PICK e \in ToSet(f.entries) : c = Configured(e, c.lidar)
  BY ConfigFrom DEF FileWish
<1>2. c.ports = e.ports /\ c.type = e.type /\ Address(c) = Address(e)
  BY <1>1 DEF Configured, Address
<1>3. f \in Files
  BY DEF FileWish, Has
<1>4. CASE n \in {Data(c, c.ports.point), Data(c, c.ports.imu)}
  <2>1. n.port \in {e.ports.point, e.ports.imu} /\ n.at = Address(e)
    BY <1>2, <1>4 DEF Data
  <2>2. n.port \in {b.ports.point, b.ports.imu} => Address(b) = Address(e)
    BY <1>3, <2>1, PlainPair DEF Address
  <2>3. n.port # b.ports.push
    BY <1>3, <2>1, PlainPair
  <2>4. QED
    BY <2>1, <2>2, <2>3 DEF RightFor
<1>5. CASE n = Data(c, DebugPort)
  <2>1. n.port \in OwnPorts
    BY <1>5 DEF Data, OwnPorts
  <2>2. n.port \notin {b.ports.point, b.ports.imu} /\ (b.type = "Mid360" => n.port # b.ports.push)
    BY <1>3, <2>1, PlainPair
  <2>3. QED
    BY <2>2 DEF RightFor
<1>6. CASE n \in {Cmd(c.ports.cmd), Cmd(c.ports.push), Cmd(c.ports.log)}
  <2>1. n.port \in {e.ports.cmd, e.ports.push, e.ports.log} /\ n.at = HostAddress
    BY <1>2, <1>6 DEF Cmd
  <2>2. n.port \notin {b.ports.point, b.ports.imu}
    BY <1>3, <2>1, PlainPair
  <2>3. QED
    BY <2>1, <2>2 DEF RightFor
<1>7. n # Broadcast(c.ports.push)
  <2>1. Broadcast(c.ports.push).keyed = FALSE
    BY DEF Broadcast, Cmd
  <2>2. QED
    BY <2>1
<1>8. QED
  BY <1>4, <1>5, <1>6, <1>7 DEF NeedSet

LEMMA DetectionAre ==
    /\ DetectionNeeds \in Seq(ToSet(DetectionNeeds))
    /\ \A n \in ToSet(DetectionNeeds) : n.keyed => n.port = DetectionPort /\ n.at = HostAddress
<1> DEFINE need == [port |-> DetectionPort, at |-> HostAddress, loop |-> "detection",
                    looked |-> FALSE, keyed |-> TRUE]
           other == [need EXCEPT !.at = "broadcast", !.keyed = FALSE]
<1>1. DetectionNeeds = <<other, need>>
  BY DEF DetectionNeeds
<1>2. other.keyed = FALSE /\ need.port = DetectionPort /\ need.at = HostAddress
  OBVIOUS
<1> HIDE DEF need, other
<1>3. ToSet(<<other, need>>) = {other, need}
  BY DEF ToSet
<1>4. QED
  BY <1>1, <1>2, <1>3

LEMMA DetectionRight ==
    ASSUME NEW f \in Files, PlainFile(f), NEW b \in ToSet(f.entries)
    PROVE  RightFor(b, DetectionPort, HostAddress)
<1>1. DetectionPort \notin {b.ports.point, b.ports.imu}
  BY PlainPair DEF OwnPorts
<1>2. QED
  BY <1>1 DEF RightFor

(* The sockets of the lidars of a list are created on top of those that    *)
(* are there: the keys stay right and every lidar of the list has its own. *)
LEMMA ListCreated ==
    ASSUME NEW f \in Files, PlainFile(f), NEW cs, cs \in Seq(ToSet(cs)),
           \A c \in ToSet(cs) : FileWish(f, c),
           NEW R, NEW before \in Seq(R),
           \A n \in ToSet(before) : n.keyed => n.port = DetectionPort /\ n.at = HostAddress,
           NEW master, NEW log, NEW gen, NEW polling,
           Created(before \o AllNeeds(cs, master, log), {}, gen, polling),
           \A p \in DOMAIN channel, e \in ToSet(f.entries) : RightFor(e, p, channel[p].at)
    PROVE  /\ \A p \in DOMAIN channel', e \in ToSet(f.entries) : RightFor(e, p, channel'[p].at)
           /\ \A c \in ToSet(cs) : HasSockets(c)'
<1> DEFINE N == UNION {NeedSet(c) : c \in ToSet(cs)}
           all == AllNeeds(cs, master, log)
           needs == before \o all
<1>1. /\ all \in Seq(N)
      /\ \A c \in ToSet(cs) :
            {Data(c, c.ports.point), Data(c, c.ports.imu), Cmd(c.ports.push)} \subseteq ToSet(all)
  BY AllNeedsAre
<1>2. \A n \in N : \E c \in ToSet(cs) : n \in NeedSet(c)
  OBVIOUS
<1> HIDE DEF N, all
<1>3. all \in Seq(R \cup N) /\ before \in Seq(R \cup N) /\ needs \in Seq(R \cup N)
  BY <1>1
<1>4. ToSet(needs) = ToSet(before) \cup ToSet(all)
  BY <1>3, ToSetConcat
<1>5. ToSet(all) \subseteq N
  BY <1>1, ToSetType
<1>6. \A n \in ToSet(needs), e \in ToSet(f.entries) : n.keyed => RightFor(e, n.port, n.at)
  BY <1>2, <1>4, <1>5, NeedRight, DetectionRight
<1>7. Created(needs, {}, gen, polling)
  BY DEF all
<1> HIDE DEF needs
<1>8. /\ \A q \in DOMAIN channel' :
            \/ q \in DOMAIN channel /\ channel'[q] = channel[q]
            \/ \E n \in ToSet(needs) : KeyedBy(n, q, channel'[q].at)
      /\ \A n \in ToSet(needs) :
            n.keyed /\ n.port \notin {NoPort, DetectionPort} => n.port \in DOMAIN channel'
  BY <1>3, <1>7, CreatedKeys
<1>9. \A p \in DOMAIN channel', e \in ToSet(f.entries) : RightFor(e, p, channel'[p].at)
  BY <1>6, <1>8 DEF KeyedBy
<1>10. ASSUME NEW c \in ToSet(cs) PROVE HasSockets(c)'
  <2>1. /\ {c.ports.point, c.ports.imu} \cap OwnPorts = {}
        /\ c.type = "Mid360" => c.ports.push \notin OwnPorts
    BY WishPorts
  <2>2. /\ Data(c, c.ports.point).keyed /\ Data(c, c.ports.point).port = c.ports.point
        /\ Data(c, c.ports.imu).keyed /\ Data(c, c.ports.imu).port = c.ports.imu
        /\ Cmd(c.ports.push).keyed /\ Cmd(c.ports.push).port = c.ports.push
    BY DEF Data, Cmd
  <2>3. {Data(c, c.ports.point), Data(c, c.ports.imu), Cmd(c.ports.push)} \subseteq ToSet(needs)
    BY <1>1, <1>4
  <2>4. {c.ports.point, c.ports.imu} \subseteq DOMAIN channel'
    BY <1>8, <2>1, <2>2, <2>3 DEF OwnPorts
  <2>5. c.type = "Mid360" => c.ports.push \in DOMAIN channel'
    BY <1>8, <2>1, <2>2, <2>3 DEF OwnPorts
  <2>6. QED
    BY <2>4, <2>5 DEF HasSockets
<1>11. QED
  BY <1>9, <1>10
-----------------------------------------------------------------------------
(* Steps: the types of what the lidars have been told.                     *)
LEMMA ToldKept ==
    ASSUME ToldTypes, UNCHANGED told, inits' = inits \/ inits' = inits + 1
    PROVE  ToldTypes' /\ \A l \in NetLidars : inits' # inits => told'[l].gen # inits'
<1>1. \A l \in NetLidars : told[l].gen \in Nat /\ told[l].gen <= inits
  BY DEF ToldTypes, IsTold
<1>2. inits \in Nat /\ inits' \in Nat /\ inits' >= inits
  BY DEF ToldTypes
<1>3. \A l \in NetLidars : IsTold(told[l])'
  BY <1>1, <1>2 DEF ToldTypes, IsTold, Dest
<1>4. ToldTypes'
  BY <1>2, <1>3 DEF ToldTypes
<1>5. QED
  BY <1>1, <1>2, <1>4

LEMMA RequestIs ==
    ASSUME ToldTypes, NEW l \in NetLidars, NEW c, NEW t, t = ConfigRequest(c, told[l])
    PROVE  /\ t.gen = inits /\ IsTold(t)
           /\ t.point = [at |-> Address(c), port |-> c.ports.point]
           /\ t.imu = [at |-> Address(c), port |-> c.ports.imu]
           /\ c.type # "HAP" => t.state = [at |-> Address(c), port |-> c.ports.push]
<1> DEFINE old == told[l]
           point == [at |-> Address(c), port |-> c.ports.point]
           imu == [at |-> Address(c), port |-> c.ports.imu]
           state == [at |-> Address(c), port |-> c.ports.push]
<1>1. old = [gen |-> old.gen, point |-> old.point, imu |-> old.imu, state |-> old.state] /\ inits \in Nat
  BY DEF ToldTypes, IsTold
<1>2. Dest(point) /\ Dest(imu)
  BY DEF Dest
<1>3. HapRequest(c, old) = [gen |-> inits, point |-> point, imu |-> imu, state |-> old.state]
  <2>1. HapRequest(c, old) = [old EXCEPT !.gen = inits, !.point = point, !.imu = imu]
    BY DEF HapRequest
  <2> HIDE DEF point, imu, state, old
  <2>2. QED
    BY <1>1, <2>1
<1>4. Mid360Request(c, old) = [gen |-> inits, point |-> point, imu |-> imu, state |-> state]
  <2>1. Mid360Request(c, old) = [HapRequest(c, old) EXCEPT !.state = state]
    BY DEF Mid360Request
  <2> HIDE DEF point, imu, old, state
  <2>2. QED
    BY <1>3, <2>1
<1> HIDE DEF point, imu, state, old
<1>5. CASE c.type = "HAP"
  <2>1. t = [gen |-> inits, point |-> point, imu |-> imu, state |-> old.state]
    BY <1>3, <1>5 DEF ConfigRequest, old
  <2>2. QED
    BY <1>1, <1>2, <1>5, <2>1 DEF IsTold, point, imu
<1>6. CASE c.type # "HAP"
  <2>1. t = [gen |-> inits, point |-> point, imu |-> imu, state |-> state]
    BY <1>4, <1>6 DEF ConfigRequest, old
  <2>2. QED
    BY <1>1, <1>2, <1>6, <2>1 DEF IsTold, point, imu, state
<1>7. QED
  BY <1>5, <1>6

LEMMA ViewRequestIs ==
    ASSUME ToldTypes, NEW l \in NetLidars, NEW t, t = ViewRequest(told[l])
    PROVE  /\ t.gen = inits /\ IsTold(t)
           /\ t.point = [at |-> HostAddress, port |-> told[l].point.port]
           /\ t.imu = [at |-> HostAddress, port |-> told[l].imu.port]
<1> DEFINE old == told[l]
           point == [at |-> HostAddress, port |-> old.point.port]
           imu == [at |-> HostAddress, port |-> old.imu.port]
<1>1. /\ old = [gen |-> old.gen, point |-> old.point, imu |-> old.imu, state |-> old.state]
      /\ inits \in Nat /\ Dest(old.point) /\ Dest(old.imu)
  BY DEF ToldTypes, IsTold
<1>2. Dest(point) /\ Dest(imu)
  BY DEF Dest
<1>3. t = [gen |-> inits, point |-> point, imu |-> imu, state |-> old.state]
  BY <1>1 DEF ViewRequest, Dest
<1> HIDE DEF point, imu
<1>4. t.gen = inits /\ IsTold(t) /\ t.point = point /\ t.imu = imu
  BY <1>1, <1>2, <1>3 DEF IsTold
<1>5. QED
  BY <1>4 DEF point, imu

(* A lidar is told something new; the others are not.                      *)
LEMMA ToldOne ==
    ASSUME ToldTypes, NEW l \in NetLidars, NEW t, IsTold(t), told' = [told EXCEPT ![l] = t], inits' = inits
    PROVE  ToldTypes' /\ told'[l] = t /\ \A k \in NetLidars : k # l => told'[k] = told[k]
<1>1. told = [k \in NetLidars |-> told[k]] /\ inits \in Nat /\ \A k \in NetLidars : IsTold(told[k])
  BY DEF ToldTypes
<1>2. told' = [k \in NetLidars |-> IF k = l THEN t ELSE told[k]]
  BY <1>1
<1>3. told'[l] = t /\ \A k \in NetLidars : k # l => told'[k] = told[k]
  BY <1>2
<1>4. \A k \in NetLidars : IsTold(told[k])'
  BY <1>1, <1>3 DEF IsTold, Dest
<1>5. told' = [k \in NetLidars |-> told'[k]]
  BY <1>2
<1>6. QED
  BY <1>1, <1>3, <1>4, <1>5 DEF ToldTypes
-----------------------------------------------------------------------------
(* Steps: Init.                                                            *)
LEMMA NoFileRejected == NoFile \in Files => ~Parsed[NoFile].accepted
<1> SUFFICES ASSUME NoFile \in Files PROVE ~Accepted(NoFile)
  BY ParsedIs
<1>1. NoFile.entries = <<>>
  BY DEF NoFile
<1>2. ByType(NoFile) = {}
  BY <1>1 DEF ByType
<1>3. Listed(NoFile) = <<>>
  <2> DEFINE s == [i \in DOMAIN NoFile.entries |->
                      LET e == NoFile.entries[i] IN SetToSeq({Configured(e, l) : l \in e.lidars})]
  <2>1. s = <<>>
    BY <1>1
  <2>2. FlattenSeq(<<>>) = <<>>
    BY DEF FlattenSeq
  <2>3. QED
    BY <2>1, <2>2 DEF Listed
<1>4. QED
  BY <1>2, <1>3 DEF Accepted

LEMMA NoFilePlain == PlainFile(NoFile)
  BY DEF PlainFile, PortsAgree, NoFile

LEMMA RejectedHears ==
    ASSUME HearingInv, NEW f \in Files, InitRejected(f)
    PROVE  ToldTypes' /\ (Undisturbed' => Undisturbed /\ FileInv' /\ PortsInv' /\ ToldInv')
<1>1. /\ phase \in {"idle", "refused"} /\ phase' = "refused" /\ inits' = inits + 1
      /\ UNCHANGED <<file, refusals, past, types, custom, list, known, channel, told>>
  BY DEF InitRejected, MayInit, faults, tables, sockets
<1>2. ToldTypes'
  BY <1>1, ToldKept DEF HearingInv
<1>3. ASSUME Undisturbed' PROVE Undisturbed /\ FileInv' /\ PortsInv' /\ ToldInv'
  <2>1. Undisturbed /\ FileInv /\ ToldInv
    BY <1>1, <1>3 DEF Undisturbed, HearingInv
  <2>2. FileInv' /\ PortsInv'
    BY <1>1, <2>1 DEF FileInv, PortsInv
  <2>3. ToldInv'
    BY <1>1, <2>1 DEF ToldInv, PlainPorts
  <2>4. QED
    BY <2>1, <2>2, <2>3
<1>4. QED
  BY <1>2, <1>3

LEMMA InitFileHears ==
    ASSUME HearingInv, NEW f \in Files, InitWithFile(f)
    PROVE  ToldTypes' /\ (Undisturbed' => Undisturbed /\ FileInv' /\ PortsInv' /\ ToldInv')
<1>1. /\ phase \in {"idle", "refused"} /\ Parsed[f].accepted
      /\ inits' = inits + 1 /\ file' = f /\ UNCHANGED told
      /\ types' = Over(Parsed[f].types, types) /\ custom' = Over(Parsed[f].lidars, custom)
      /\ list' = Parsed[f].listed /\ known' = Over(known, Parsed[f].lidars)
  BY DEF InitWithFile, MayInit, InitTables
<1>2. ToldTypes' /\ \A l \in NetLidars : told'[l].gen # inits'
  <2>1. inits' # inits
    BY <1>1 DEF HearingInv, ToldTypes
  <2>2. QED
    BY <1>1, <2>1, ToldKept DEF HearingInv
<1>3. ASSUME Undisturbed' PROVE Undisturbed /\ FileInv' /\ PortsInv' /\ ToldInv'
  <2>1. PICK bad \in Refusals :
            /\ Created(DetectionNeeds \o AllNeeds(list', f.master, f.log), bad, inits', {})
            /\ Finish(bad, "running")
    BY DEF InitWithFile
  <2>2. bad = {} /\ refusals = 0
    <3>1. refusals' = 0 /\ {} \in SUBSET open
      BY <1>3 DEF Undisturbed
    <3>2. QED
      BY <2>1, <3>1, NoneRefused DEF HearingInv
  <2>3. phase' = "running"
    BY <2>1, <2>2 DEF Finish
  <2>4. "other file" \notin past /\ file \in {f, NoFile}
    BY <1>3 DEF InitWithFile, Undisturbed
  <2>5. Undisturbed /\ FileInv /\ ToldInv
    BY <2>2, <2>4 DEF Undisturbed, HearingInv
  <2>6. DOMAIN channel = {} /\ DOMAIN custom = {} /\ DOMAIN types = {}
    BY <1>1, <2>5 DEF FileInv
  <2>7. /\ DOMAIN types' = DOMAIN Parsed[f].types
        /\ \A t \in DOMAIN types' : types'[t] = Parsed[f].types[t]
    BY <1>1, <2>6 DEF Over
  <2>8. /\ DOMAIN custom' = DOMAIN Parsed[f].lidars
        /\ \A l \in DOMAIN custom' : custom'[l] = Parsed[f].lidars[l]
    BY <1>1, <2>6 DEF Over
  <2>9. \A l \in DOMAIN custom' : Has(f, l) /\ custom'[l] = ConfigOf(f, l)
    BY <1>1, <2>8, FileTable
  <2>10. DOMAIN known' = DOMAIN known \cup DOMAIN Parsed[f].lidars
    BY <1>1 DEF Over
  <2>11. \A l \in DOMAIN known' : Has(f, l) /\ known'[l] = ConfigOf(f, l)
    <3>1. SUFFICES ASSUME NEW l \in DOMAIN known' PROVE Has(f, l) /\ known'[l] = ConfigOf(f, l)
      OBVIOUS
    <3>2. CASE l \in DOMAIN known
      <4>1. Has(file, l) /\ known[l] = ConfigOf(file, l)
        BY <2>5, <3>2 DEF FileInv
      <4>2. file = f
        BY <2>4, <4>1, NoFileRejected DEF Has
      <4>3. known'[l] = known[l]
        BY <1>1, <3>2 DEF Over
      <4>4. QED
        BY <4>1, <4>2, <4>3
    <3>3. CASE l \notin DOMAIN known
      <4>1. l \in DOMAIN Parsed[f].lidars /\ known'[l] = Parsed[f].lidars[l]
        BY <1>1, <2>10, <3>3 DEF Over
      <4>2. QED
        BY <1>1, <4>1, FileTable
    <3>4. QED
      BY <3>2, <3>3
  <2>12. list' \in Seq(ToSet(list')) /\ \A c \in ToSet(list') : FileWish(f, c)
    BY <1>1, ParsedIs, ListedFrom, ListedIs
  <2>13. FileInv'
    <3>1. \A c \in ToSet(list)' : FileWish(f, c)
      BY <2>12 DEF ToSet
    <3>2. list' \in Seq(ToSet(list)')
      BY <2>12 DEF ToSet
    <3>3. \A c : FileWish(f, c)' <=> FileWish(f, c)
      BY DEF FileWish, Has, ConfigOf
    <3>4. QED
      BY <1>1, <2>3, <2>7, <2>8, <2>9, <2>10, <2>11, <3>1, <3>2, <3>3 DEF FileInv, FileWish
  <2> DEFINE A == UNION {NeedSet(c) : c \in ToSet(list')}
             B == ToSet(DetectionNeeds)
             R == A \cup B
             needs == DetectionNeeds \o AllNeeds(list', f.master, f.log)
  <2>14. needs \in Seq(R)
    <3>1. DetectionNeeds \in Seq(B)
      BY DetectionAre
    <3>2. AllNeeds(list', f.master, f.log) \in Seq(A)
      BY <2>12, AllNeedsAre
    <3> HIDE DEF A, B
    <3>3. DetectionNeeds \in Seq(R) /\ AllNeeds(list', f.master, f.log) \in Seq(R)
      BY <3>1, <3>2
    <3> HIDE DEF R
    <3>4. QED
      BY <3>3
  <2>15. Created(needs, {}, inits', {})
    BY <2>1, <2>2
  <2>16. \A p \in DOMAIN channel' : channel'[p].gen = inits'
    <3> HIDE DEF R, needs
    <3>1. QED
      BY <2>6, <2>14, <2>15, CreatedKeys
  <2>17. ASSUME PlainFile(f)
         PROVE  /\ \A p \in DOMAIN channel', e \in ToSet(f.entries) : RightFor(e, p, channel'[p].at)
                /\ \A c \in ToSet(list') : HasSockets(c)'
    BY <2>6, <2>12, <2>15, <2>17, DetectionAre, ListCreated
  <2>18. \A l \in DOMAIN custom' : custom'[l] \in ToSet(list')
    <3>1. SUFFICES ASSUME NEW l \in DOMAIN custom' PROVE custom'[l] \in ToSet(list')
      OBVIOUS
    <3>2. list' = Listed(f) /\ l \in DOMAIN LidarMap(Listed(f))
      BY <1>1, <2>8, ParsedIs
    <3>3. PICK c \in ToSet(Listed(f)) : c.lidar = l
      BY <2>12, <3>2, TableOf
    <3>4. c = ConfigOf(f, l)
      BY <2>12, <3>2, <3>3 DEF FileWish
    <3>5. QED
      BY <2>9, <3>2, <3>3, <3>4
  <2>19. PortsInv'
    <3>1. PlainFile(f) => \A l \in DOMAIN custom' : HasSockets(custom[l])'
      BY <2>17, <2>18 DEF HasSockets
    <3>2. KeysRight'
      BY <1>1, <2>3, <2>16, <2>17 DEF KeysRight, RightFor
    <3>3. QED
      BY <1>1, <2>3, <3>1, <3>2 DEF PortsInv
  <2>20. ToldInv'
    <3>1. PlainFile(f) => \A l \in NetLidars : PlainPorts(told'[l])
      BY <1>1, <2>4, <2>5, NoFilePlain DEF ToldInv
    <3>2. QED
      BY <1>1, <1>2, <3>1 DEF ToldInv, PlainPorts
  <2>21. QED
    BY <2>5, <2>13, <2>19, <2>20
<1>4. QED
  BY <1>2, <1>3

LEMMA InitViewHears ==
    ASSUME HearingInv, InitView
    PROVE  ToldTypes' /\ (Undisturbed' => Undisturbed /\ FileInv' /\ PortsInv' /\ ToldInv')
<1>1. /\ phase \in {"idle", "refused"} /\ inits' = inits + 1
      /\ UNCHANGED <<file, types, custom, list, known, told>>
  BY DEF InitView, MayInit
<1>2. ToldTypes' /\ \A l \in NetLidars : told'[l].gen # inits'
  <2>1. inits' # inits
    BY <1>1 DEF HearingInv, ToldTypes
  <2>2. QED
    BY <1>1, <2>1, ToldKept DEF HearingInv
<1>3. ASSUME Undisturbed' PROVE Undisturbed /\ FileInv' /\ PortsInv' /\ ToldInv'
  <2>1. PICK bad \in Refusals : Created(DetectionNeeds, bad, inits', {}) /\ Finish(bad, "viewing")
    BY DEF InitView
  <2>2. bad = {} /\ refusals = 0
    <3>1. refusals' = 0 /\ {} \in SUBSET open
      BY <1>3 DEF Undisturbed
    <3>2. QED
      BY <2>1, <3>1, NoneRefused DEF HearingInv
  <2>3. phase' = "viewing"
    BY <2>1, <2>2 DEF Finish
  <2>4. Undisturbed /\ FileInv /\ ToldInv
    <3>1. "other file" \notin past
      BY <1>3 DEF InitView, Undisturbed
    <3>2. QED
      BY <2>2, <3>1 DEF Undisturbed, HearingInv
  <2>5. FileInv'
    BY <1>1, <2>3, <2>4 DEF FileInv
  <2>6. \A p \in DOMAIN channel' : channel'[p].gen = inits' /\ channel'[p].at = HostAddress
    <3>1. DOMAIN channel = {}
      BY <1>1, <2>4 DEF FileInv
    <3>2. \A q \in DOMAIN channel' :
              channel'[q].gen = inits' /\ \E n \in ToSet(DetectionNeeds) : KeyedBy(n, q, channel'[q].at)
      BY <2>1, <2>2, <3>1, DetectionAre, CreatedKeys
    <3>3. QED
      BY <3>2, DetectionAre DEF KeyedBy
  <2>7. PortsInv'
    BY <2>3, <2>6 DEF PortsInv, KeysRight
  <2>8. ToldInv'
    BY <1>1, <1>2, <2>4 DEF ToldInv, PlainPorts
  <2>9. QED
    BY <2>4, <2>5, <2>7, <2>8
<1>4. QED
  BY <1>2, <1>3
-----------------------------------------------------------------------------
(* Steps: replies to the broadcasts.                                       *)
LEMMA FirstHears ==
    ASSUME HearingInv, NEW l \in NetLidars, DetectFirst(l)
    PROVE  ToldTypes' /\ (Undisturbed' => Undisturbed /\ FileInv' /\ PortsInv' /\ ToldInv')
<1>1. /\ phase' = phase \/ phase' = "crashed"
      /\ UNCHANGED <<file, inits, refusals, past, types, custom, list, known, channel, told>>
  BY DEF DetectFirst, faults, tables, sockets
<1>2. ToldTypes'
  BY <1>1, ToldKept DEF HearingInv
<1>3. ASSUME Undisturbed' PROVE Undisturbed /\ FileInv' /\ PortsInv' /\ ToldInv'
  <2>1. Undisturbed /\ FileInv /\ PortsInv /\ ToldInv
    BY <1>1, <1>3 DEF Undisturbed, HearingInv
  <2>2. FileInv'
    BY <1>1, <2>1 DEF FileInv
  <2>3. PortsInv'
    BY <1>1, <2>1 DEF PortsInv, KeysRight, HasSockets
  <2>4. ToldInv'
    BY <1>1, <2>1 DEF ToldInv, PlainPorts, ToldToView, ToldAsFile
  <2>5. QED
    BY <2>1, <2>2, <2>3, <2>4
<1>4. QED
  BY <1>2, <1>3

(* The two ways in which a lidar of the tables is told what the file says. *)
LEMMA TellingHears ==
    ASSUME HearingInv, NEW l \in NetLidars, NEW c, l \in DOMAIN custom, phase = "running",
           Undisturbed => c = custom[l], told' = [told EXCEPT ![l] = ConfigRequest(c, told[l])],
           UNCHANGED <<process, faults, tables, sockets>>
    PROVE  ToldTypes' /\ (Undisturbed' => Undisturbed /\ FileInv' /\ PortsInv' /\ ToldInv')
<1>1. UNCHANGED <<phase, file, inits, refusals, past, types, custom, list, known, channel>>
  BY DEF process, faults, tables, sockets
<1> DEFINE t == ConfigRequest(c, told[l])
<1>2. /\ t.gen = inits /\ IsTold(t)
      /\ t.point = [at |-> Address(c), port |-> c.ports.point]
      /\ t.imu = [at |-> Address(c), port |-> c.ports.imu]
      /\ c.type # "HAP" => t.state = [at |-> Address(c), port |-> c.ports.push]
  BY RequestIs DEF HearingInv
<1> HIDE DEF t
<1>3. ToldTypes' /\ told'[l] = t /\ \A k \in NetLidars : k # l => told'[k] = told[k]
  BY <1>1, <1>2, ToldOne DEF HearingInv, t
<1>4. ASSUME Undisturbed' PROVE Undisturbed /\ FileInv' /\ PortsInv' /\ ToldInv'
  <2>1. Undisturbed /\ FileInv /\ PortsInv /\ ToldInv /\ c = custom[l]
    BY <1>1, <1>4 DEF Undisturbed, HearingInv
  <2>2. FileInv'
    BY <1>1, <2>1 DEF FileInv
  <2>3. PortsInv'
    BY <1>1, <2>1 DEF PortsInv, KeysRight, HasSockets
  <2>4. PlainFile(file) => PlainPorts(t)
    <3>1. Has(file, l) /\ c = ConfigOf(file, l)
      BY <2>1 DEF FileInv
    <3>2. FileWish(file, c)
      BY <3>1, ConfigFrom DEF FileWish
    <3>3. t.point.port = c.ports.point /\ t.imu.port = c.ports.imu
      BY <1>2
    <3>4. QED
      BY <3>2, <3>3, WishPorts DEF PlainPorts
  <2>5. \A k \in NetLidars :
            /\ PlainFile(file) => PlainPorts(told'[k])
            /\ told'[k].gen = inits => ToldAsFile(k)'
    BY <1>1, <1>2, <1>3, <2>1, <2>4 DEF ToldInv, ToldAsFile
  <2>6. ToldInv'
    BY <1>1, <2>5 DEF ToldInv, PlainPorts
  <2>7. QED
    BY <2>1, <2>2, <2>3, <2>6
<1>5. QED
  BY <1>3, <1>4

LEMMA AgainHears ==
    ASSUME HearingInv, NEW l \in NetLidars, DetectAgain(l) \/ MasterTells(l)
    PROVE  ToldTypes' /\ (Undisturbed' => Undisturbed /\ FileInv' /\ PortsInv' /\ ToldInv')
<1>1. CASE DetectAgain(l)
  <2>1. Undisturbed => known[l] = custom[l]
    BY <1>1 DEF DetectAgain, HearingInv, FileInv
  <2>2. QED
    BY <1>1, <2>1, TellingHears DEF DetectAgain
<1>2. CASE MasterTells(l)
  BY <1>2, TellingHears DEF MasterTells
<1>3. QED
  BY <1>1, <1>2

LEMMA ListAppended ==
    ASSUME NEW s, s \in Seq(ToSet(s)), NEW c
    PROVE  /\ Append(s, c) \in Seq(ToSet(Append(s, c)))
           /\ ToSet(Append(s, c)) = ToSet(s) \cup {c}
<1> DEFINE S == ToSet(s) \cup {c}
<1>1. ToSet(s) \subseteq S /\ c \in S
  OBVIOUS
<1> HIDE DEF S
<1>2. s \in Seq(S)
  BY <1>1
<1>3. /\ Append(s, c) \in Seq(S) /\ Append(s, c) = s \o <<c>> /\ <<c>> \in Seq(S)
  BY <1>1, <1>2
<1>4. ToSet(Append(s, c)) = ToSet(s) \cup ToSet(<<c>>)
  BY <1>2, <1>3, ToSetConcat
<1>5. ToSet(Append(s, c)) = S
  BY <1>4, ToSetOne DEF S
<1>6. QED
  BY <1>3, <1>5 DEF S

LEMMA UnknownHears ==
    ASSUME HearingInv, NEW l \in NetLidars, DetectUnknown(l)
    PROVE  ToldTypes' /\ (Undisturbed' => Undisturbed /\ FileInv' /\ PortsInv' /\ ToldInv')
<1> DEFINE c == [types[TypeOf[l]] EXCEPT !.lidar = l]
           needs == AllNeeds(list', framework = "master", file.log)
<1>1. /\ phase = "running" /\ l \notin DOMAIN custom /\ TypeOf[l] \in DOMAIN types
      /\ custom' = Over(custom, [x \in {l} |-> c]) /\ list' = Append(list, c)
      /\ known' = Over(known, LidarMap(Append(list, c)))
      /\ UNCHANGED <<phase, inits, file, past, types, told>>
  BY DEF DetectUnknown, process
<1>2. ToldTypes'
  BY <1>1, ToldKept DEF HearingInv
<1> HIDE DEF c, needs
<1>3. ASSUME Undisturbed' PROVE Undisturbed /\ FileInv' /\ PortsInv' /\ ToldInv'
  <2>1. PICK bad \in Refusals : Created(needs, bad, inits, polled)
    BY DEF DetectUnknown, needs
  <2>2. bad = {} /\ refusals = 0
    <3>1. refusals' = 0 /\ polled \in SUBSET open
      BY <1>3 DEF Undisturbed, HearingInv, NetworkInv, TablesInv
    <3>2. QED
      BY <2>1, <3>1, NoneRefused DEF HearingInv
  <2>3. Undisturbed /\ FileInv /\ PortsInv /\ ToldInv
    BY <1>1, <1>3, <2>2 DEF Undisturbed, HearingInv
  <2>4. Has(file, l) /\ c = ConfigOf(file, l)
    BY <1>1, <2>3 DEF FileInv, Has, ConfigOf, c
  <2>5. FileWish(file, c) /\ c.lidar = l
    BY <2>4, ConfigFrom DEF FileWish
  <2>6. list' \in Seq(ToSet(list')) /\ ToSet(list') = ToSet(list) \cup {c}
    BY <1>1, <2>3, ListAppended DEF FileInv
  <2>7. \A d \in ToSet(list') : FileWish(file, d)
    BY <1>1, <2>3, <2>5, <2>6 DEF FileInv
  <2>8. /\ DOMAIN custom' = DOMAIN custom \cup {l} /\ custom'[l] = c
        /\ \A k \in DOMAIN custom : custom'[k] = custom[k]
    BY <1>1 DEF Over
  <2>9. \A k \in DOMAIN custom' : Has(file, k) /\ custom'[k] = ConfigOf(file, k)
    BY <1>1, <2>3, <2>4, <2>8 DEF FileInv
  <2>10. /\ DOMAIN known' = DOMAIN known \cup DOMAIN LidarMap(list')
         /\ \A k \in DOMAIN known : known'[k] = known[k]
         /\ \A k \in DOMAIN known' \ DOMAIN known : known'[k] = LidarMap(list')[k]
    BY <1>1 DEF Over
  <2>11. \A k \in DOMAIN known' : Has(file, k) /\ known'[k] = ConfigOf(file, k)
    <3>1. \A k \in DOMAIN LidarMap(list') : Has(file, k) /\ LidarMap(list')[k] = ConfigOf(file, k)
      BY <2>7, TableOf
    <3>2. QED
      BY <2>3, <2>10, <3>1 DEF FileInv
  <2>12. l \in DOMAIN known'
    BY <2>5, <2>6, <2>10 DEF LidarMap
  <2>13. FileInv'
    <3>1. \A d \in ToSet(list)' : FileWish(file, d)
      BY <2>7 DEF ToSet
    <3>2. list' \in Seq(ToSet(list)')
      BY <2>6 DEF ToSet
    <3>3. /\ file \in Files /\ Parsed[file].accepted
          /\ DOMAIN Parsed[file].lidars \subseteq DOMAIN custom' /\ DOMAIN custom' \subseteq DOMAIN known'
          /\ \A t \in DOMAIN types' :
                t \in DOMAIN Parsed[file].types /\ types'[t] = Parsed[file].types[t]
      BY <1>1, <2>3, <2>8, <2>10, <2>12 DEF FileInv
    <3>4. QED
      BY <1>1, <2>9, <2>11, <3>1, <3>2, <3>3 DEF FileInv, FileWish
  <2> DEFINE R == UNION {NeedSet(d) : d \in ToSet(list')}
  <2>14. needs \in Seq(R) /\ Created(needs, {}, inits, polled)
    BY <2>1, <2>2, <2>6, AllNeedsAre DEF needs
  <2> HIDE DEF R
  <2>15. /\ DOMAIN channel \subseteq DOMAIN channel'
         /\ \A p \in DOMAIN channel' : channel'[p].gen = inits
    BY <1>1, <2>3, <2>14, CreatedKeys DEF PortsInv, KeysRight
  <2>16. ASSUME PlainFile(file)
         PROVE  /\ \A p \in DOMAIN channel', e \in ToSet(file.entries) : RightFor(e, p, channel'[p].at)
                /\ \A d \in ToSet(list') : HasSockets(d)'
    <3>1. file \in Files
      BY <1>1, <2>3 DEF FileInv
    <3>2. \A p \in DOMAIN channel, e \in ToSet(file.entries) : RightFor(e, p, channel[p].at)
      BY <1>1, <2>3, <2>16 DEF PortsInv, KeysRight
    <3>3. <<>> \in Seq({}) /\ ToSet(<<>>) = {}
      BY ToSetOne
    <3>4. <<>> \o needs = needs
      BY <2>14
    <3>5. Created(<<>> \o AllNeeds(list', framework = "master", file.log), {}, inits, polled)
      BY <2>14, <3>4 DEF needs
    <3>6. QED
      BY <2>6, <2>7, <2>16, <3>1, <3>2, <3>3, <3>5, ListCreated
  <2>17. PortsInv'
    <3>1. PlainFile(file) => \A k \in DOMAIN custom' : HasSockets(custom[k])'
      <4>1. SUFFICES ASSUME PlainFile(file), NEW k \in DOMAIN custom' PROVE HasSockets(custom[k])'
        OBVIOUS
      <4>2. CASE k = l
        <5>1. custom'[l] \in ToSet(list')
          BY <2>6, <2>8
        <5>2. \A d \in ToSet(list') : HasSockets(d)'
          BY <2>16, <4>1
        <5>3. QED
          BY <4>2, <5>1, <5>2 DEF HasSockets
      <4>3. CASE k # l
        <5>1. k \in DOMAIN custom /\ HasSockets(custom[k])
          BY <1>1, <2>3, <2>8, <4>1, <4>3 DEF PortsInv
        <5>2. custom'[k] = custom[k]
          BY <2>8, <5>1
        <5>3. QED
          BY <2>15, <5>1, <5>2 DEF HasSockets
      <4>4. QED
        BY <4>2, <4>3
    <3>2. KeysRight'
      BY <1>1, <2>15, <2>16 DEF KeysRight
    <3>3. QED
      BY <1>1, <3>1, <3>2 DEF PortsInv
  <2>18. ToldInv'
    <3>1. \A k \in NetLidars :
              /\ PlainFile(file) => PlainPorts(told[k])
              /\ told[k].gen = inits => ToldAsFile(k)'
      BY <1>1, <2>3, <2>8 DEF ToldInv, ToldAsFile
    <3>2. QED
      BY <1>1, <3>1 DEF ToldInv, PlainPorts
  <2>19. QED
    BY <2>3, <2>13, <2>17, <2>18
<1>4. QED
  BY <1>2, <1>3

LEMMA ViewNeedsAre ==
    ASSUME NEW l
    PROVE  LET R == ToSet(ViewNeeds(l)) IN
           /\ ViewNeeds(l) \in Seq(R)
           /\ \A n \in R : n.keyed /\ n.at = HostAddress
           /\ \E n \in R : n.port = told[l].point.port
           /\ \E n \in R : n.port = told[l].imu.port
<1> DEFINE need(s) == [port |-> told[l][s].port, at |-> HostAddress, loop |-> "data",
                       looked |-> TRUE, keyed |-> TRUE]
<1>1. ViewNeeds(l) = <<need("point"), need("imu")>>
  BY DEF ViewNeeds
<1>2. /\ \A s : need(s).keyed /\ need(s).at = HostAddress
      /\ need("point").port = told[l].point.port /\ need("imu").port = told[l].imu.port
  OBVIOUS
<1> HIDE DEF need
<1>3. ToSet(<<need("point"), need("imu")>>) = {need("point"), need("imu")}
  BY DEF ToSet
<1>4. QED
  BY <1>1, <1>2, <1>3

LEMMA ViewAgainHears ==
    ASSUME HearingInv, NEW l \in NetLidars, ViewAgain(l)
    PROVE  ToldTypes' /\ (Undisturbed' => Undisturbed /\ FileInv' /\ PortsInv' /\ ToldInv')
<1> DEFINE t == ViewRequest(told[l])
<1>1. /\ phase = "viewing" /\ told' = [told EXCEPT ![l] = t]
      /\ UNCHANGED <<phase, inits, file, past, types, custom, list, known>>
  BY DEF ViewAgain, process, tables
<1>2. /\ t.gen = inits /\ IsTold(t)
      /\ t.point = [at |-> HostAddress, port |-> told[l].point.port]
      /\ t.imu = [at |-> HostAddress, port |-> told[l].imu.port]
  BY ViewRequestIs DEF HearingInv
<1> HIDE DEF t
<1>3. ToldTypes' /\ told'[l] = t /\ \A k \in NetLidars : k # l => told'[k] = told[k]
  BY <1>1, <1>2, ToldOne DEF HearingInv
<1>4. ASSUME Undisturbed' PROVE Undisturbed /\ FileInv' /\ PortsInv' /\ ToldInv'
  <2>1. PICK bad \in Refusals : Created(ViewNeeds(l), bad, inits, polled)
    BY DEF ViewAgain
  <2>2. bad = {} /\ refusals = 0
    <3>1. refusals' = 0 /\ polled \in SUBSET open
      BY <1>4 DEF Undisturbed, HearingInv, NetworkInv, TablesInv
    <3>2. QED
      BY <2>1, <3>1, NoneRefused DEF HearingInv
  <2>3. Undisturbed /\ FileInv /\ PortsInv /\ ToldInv
    BY <1>1, <1>4, <2>2 DEF Undisturbed, HearingInv
  <2>4. FileInv'
    BY <1>1, <2>3 DEF FileInv
  <2>5. /\ DOMAIN channel \subseteq DOMAIN channel'
        /\ \A q \in DOMAIN channel' :
              \/ q \in DOMAIN channel /\ channel'[q] = channel[q]
              \/ /\ channel'[q].gen = inits
                 /\ \E n \in ToSet(ViewNeeds(l)) : KeyedBy(n, q, channel'[q].at)
        /\ \A n \in ToSet(ViewNeeds(l)) :
              n.keyed /\ n.port \notin {NoPort, DetectionPort} => n.port \in DOMAIN channel'
    BY <2>1, <2>2, ViewNeedsAre, CreatedKeys
  <2>6. \A q \in DOMAIN channel' : channel'[q].gen = inits /\ channel'[q].at = HostAddress
    BY <1>1, <2>3, <2>5, ViewNeedsAre DEF PortsInv, KeysRight, KeyedBy
  <2>7. PortsInv'
    BY <1>1, <2>6 DEF PortsInv, KeysRight
  <2>8. PlainFile(file) => PlainPorts(t)
    <3>1. t.point.port = told[l].point.port /\ t.imu.port = told[l].imu.port
      BY <1>2
    <3>2. QED
      BY <2>3, <3>1 DEF ToldInv, PlainPorts
  <2>9. PlainFile(file) => {t.point.port, t.imu.port} \subseteq DOMAIN channel'
    <3>1. t.point.port = told[l].point.port /\ t.imu.port = told[l].imu.port
      BY <1>2
    <3>2. SUFFICES ASSUME PlainFile(file) PROVE {t.point.port, t.imu.port} \subseteq DOMAIN channel'
      OBVIOUS
    <3>3. {t.point.port, t.imu.port} \cap {NoPort, DetectionPort} = {}
      BY <2>8, <3>2 DEF PlainPorts, OwnPorts
    <3>4. \A n \in ToSet(ViewNeeds(l)) : n.keyed
      BY ViewNeedsAre
    <3>5. PICK n \in ToSet(ViewNeeds(l)) : n.port = t.point.port
      BY <3>1, ViewNeedsAre
    <3>6. PICK m \in ToSet(ViewNeeds(l)) : m.port = t.imu.port
      BY <3>1, ViewNeedsAre
    <3>7. QED
      BY <2>5, <3>3, <3>4, <3>5, <3>6
  <2>10. \A k \in NetLidars :
            /\ PlainFile(file) => PlainPorts(told'[k])
            /\ told'[k].gen = inits => ToldToView(k)'
    <3>1. SUFFICES ASSUME NEW k \in NetLidars
                   PROVE  /\ PlainFile(file) => PlainPorts(told'[k])
                          /\ told'[k].gen = inits => ToldToView(k)'
      OBVIOUS
    <3>2. CASE k = l
      <4>1. t.point.at = HostAddress /\ t.imu.at = HostAddress
        BY <1>2
      <4>2. QED
        BY <1>1, <1>3, <2>8, <2>9, <3>2, <4>1 DEF ToldToView
    <3>3. CASE k # l
      BY <1>1, <1>3, <2>3, <2>5, <3>3 DEF ToldInv, ToldToView
    <3>4. QED
      BY <3>2, <3>3
  <2>11. ToldInv'
    BY <1>1, <2>10 DEF ToldInv, PlainPorts
  <2>12. QED
    BY <2>3, <2>4, <2>7, <2>11
<1>5. QED
  BY <1>3, <1>4

LEMMA UninitHears ==
    ASSUME HearingInv, Uninit
    PROVE  ToldTypes' /\ (Undisturbed' => Undisturbed /\ FileInv' /\ PortsInv' /\ ToldInv')
<1>1. /\ phase' \in {"idle", "crashed"} /\ past' = past \ {"refused"}
      /\ types' = <<>> /\ custom' = <<>> /\ channel' = <<>>
      /\ UNCHANGED <<inits, file, refusals, known, told>>
  BY DEF Uninit, Forget
<1>2. ToldTypes'
  BY <1>1, ToldKept DEF HearingInv
<1>3. ASSUME Undisturbed' PROVE Undisturbed /\ FileInv' /\ PortsInv' /\ ToldInv'
  <2>1. Undisturbed
    BY <1>1, <1>3 DEF Undisturbed
  <2>2. FileInv /\ PortsInv /\ ToldInv
    BY <2>1 DEF HearingInv
  <2>3. DOMAIN custom' = {} /\ DOMAIN types' = {} /\ DOMAIN channel' = {}
    BY <1>1
  <2>4. FileInv' /\ PortsInv'
    BY <1>1, <2>2, <2>3 DEF FileInv, PortsInv
  <2>5. ToldInv'
    BY <1>1, <2>2 DEF ToldInv, PlainPorts
  <2>6. QED
    BY <2>1, <2>2, <2>4, <2>5
<1>4. QED
  BY <1>2, <1>3

LEMMA StutterHears == ASSUME HearingInv, UNCHANGED networkVars PROVE HearingInv'
<1>1. /\ UNCHANGED <<phase, inits, file, refusals, past, types, custom, list, known>>
      /\ UNCHANGED <<channel, open, polled, told>>
  BY DEF networkVars, process, faults, tables, sockets
<1>2. NetworkInv'
  BY <1>1, QuietKeeps DEF HearingInv, sockets
<1>3. ToldTypes'
  BY <1>1, ToldKept DEF HearingInv
<1>4. ASSUME Undisturbed' PROVE FileInv' /\ PortsInv' /\ ToldInv'
  <2>1. FileInv /\ PortsInv /\ ToldInv
    BY <1>1, <1>4 DEF HearingInv, Undisturbed
  <2>2. FileInv'
    BY <1>1, <2>1 DEF FileInv
  <2>3. PortsInv'
    BY <1>1, <2>1 DEF PortsInv, KeysRight, HasSockets
  <2>4. ToldInv'
    BY <1>1, <2>1 DEF ToldInv, PlainPorts, ToldToView, ToldAsFile
  <2>5. QED
    BY <2>2, <2>3, <2>4
<1>5. QED
  BY <1>2, <1>3, <1>4 DEF HearingInv

LEMMA FirstHearing == NetworkInit => HearingInv
<1> SUFFICES ASSUME NetworkInit PROVE HearingInv
  OBVIOUS
<1>1. NetworkInv
  BY NetworkStart
<1>2. /\ phase = "idle" /\ inits = 0 /\ file = NoFile
      /\ DOMAIN types = {} /\ DOMAIN custom = {} /\ DOMAIN known = {} /\ DOMAIN channel = {}
      /\ told = [l \in NetLidars |-> Untold]
  BY DEF NetworkInit
<1>3. IsTold(Untold)
  BY <1>2 DEF IsTold, Dest, Untold
<1>4. ToldTypes
  BY <1>2, <1>3 DEF ToldTypes
<1>5. PlainPorts(Untold)
  BY DEF PlainPorts, Untold, OwnPorts, NoPort, DetectionPort, DebugPort
<1>6. FileInv /\ PortsInv
  BY <1>2 DEF FileInv, PortsInv
<1>7. ToldInv
  BY <1>2, <1>5 DEF ToldInv
<1>8. QED
  BY <1>1, <1>4, <1>6, <1>7 DEF HearingInv
-----------------------------------------------------------------------------
(* As long as no socket was refused and every call of Init was with the    *)
(* same file: the tables of lidars say what the file says, the keys of     *)
(* channel_info_ are of sockets of this call at the right addresses, and   *)
(* the lidars have been told of those (DeviceManager::CreateDataChannel,   *)
(* GeneralCommandHandler::HandleDetectionData, build_request.cpp).         *)
THEOREM HearingIsSound == NetworkSpec => []HearingInv
<1>1. HearingInv /\ [NetworkNext]_networkVars => HearingInv'
  <2> SUFFICES ASSUME HearingInv, [NetworkNext]_networkVars PROVE HearingInv'
    OBVIOUS
  <2> DEFINE Hears == ToldTypes' /\ (Undisturbed' => Undisturbed /\ FileInv' /\ PortsInv' /\ ToldInv')
  <2>1. ASSUME NEW f \in Files, InitRejected(f) \/ InitWithFile(f) PROVE Hears
    BY <2>1, RejectedHears, InitFileHears
  <2>2. ASSUME InitView PROVE Hears
    BY <2>2, InitViewHears
  <2>3. ASSUME NEW l \in NetLidars, DetectionReply(l) \/ MasterTells(l) PROVE Hears
    BY <2>3, UnknownHears, FirstHears, AgainHears, ViewAgainHears DEF DetectionReply
  <2>4. ASSUME Uninit PROVE Hears
    BY <2>4, UninitHears
  <2>5. CASE UNCHANGED networkVars
    BY <2>5, StutterHears
  <2>6. NetworkInv'
    BY NetworkStep DEF HearingInv
  <2> HIDE DEF Hears
  <2>7. CASE NetworkNext
    <3>1. Hears
      BY <2>1, <2>2, <2>3, <2>4, <2>7 DEF NetworkNext
    <3>2. QED
      BY <2>6, <3>1 DEF HearingInv, Hears
  <2>8. QED
    BY <2>5, <2>7
<1>2. QED
  BY <1>1, FirstHearing, PTL DEF NetworkSpec

(* A socket of this call of Init with the key of a port is read by a loop. *)
LEMMA KeyIsRead ==
    ASSUME HearingInv, Fits, NEW p \in DOMAIN channel, channel[p].gen = inits
    PROVE  \E k \in polled : k.at = channel[p].at /\ k.port = p
<1>1. channel[p] \in open /\ channel[p].port = p
  BY DEF HearingInv, NetworkInv, TablesInv
<1>2. channel[p] \in polled
  BY <1>1 DEF Fits
<1>3. QED
  BY <1>1, <1>2

(* A lidar that has been told where to send is heard, whatever its entry   *)
(* in the file and whenever it was found (DeviceManager::OnData), as long  *)
(* as no loop has more sockets than it has descriptors.                    *)
THEOREM LidarsAreHeard == NetworkSpec => [](Fits => Heard)
<1>1. HearingInv => (Fits => Heard)
  <2> SUFFICES ASSUME HearingInv, Fits, NEW l \in NetLidars, NEW s \in Promised(l),
                      phase \in {"running", "viewing"}, told[l].gen = inits,
                      refusals = 0, past = {}, PlainFile(file)
               PROVE  Reaches(l, s)
    BY DEF Heard
  <2>1. FileInv /\ PortsInv /\ ToldInv
    BY DEF HearingInv, Undisturbed
  <2>2. KeysRight
    BY <2>1 DEF PortsInv
  <2>3. CASE phase = "viewing"
    <3>1. s \in {"point", "imu"}
      BY <2>3 DEF Promised
    <3>2. ToldToView(l)
      BY <2>1, <2>3 DEF ToldInv
    <3>3. told[l][s].at = HostAddress /\ told[l][s].port \in DOMAIN channel
      BY <3>1, <3>2 DEF ToldToView
    <3>4. /\ channel[told[l][s].port].gen = inits
          /\ channel[told[l][s].port].at = HostAddress
      BY <2>2, <2>3, <3>3 DEF KeysRight
    <3>5. \E k \in polled : k.at = told[l][s].at /\ k.port = told[l][s].port
      BY <3>3, <3>4, KeyIsRead
    <3>6. QED
      BY <2>3, <3>1, <3>5 DEF Reaches, OnData
  <2>4. CASE phase = "running"
    <3> DEFINE c == custom[l]
               p == told[l][s].port
    <3>1. ToldAsFile(l)
      BY <2>1, <2>4 DEF ToldInv
    <3>2. l \in DOMAIN custom /\ Has(file, l) /\ c = ConfigOf(file, l)
      BY <2>1, <2>4, <3>1 DEF FileInv, ToldAsFile
    <3>3. PICK e \in ToSet(file.entries) : c = Configured(e, l)
      BY <3>2, ConfigFrom
    <3>4. c.ports = e.ports /\ c.type = e.type /\ c.group = e.group
      BY <3>3 DEF Configured
    <3>5. FileWish(file, c)
      BY <3>2, ConfigFrom DEF FileWish
    <3>6. c.from = "constants"
      BY <3>5, WishPorts
    <3>7. HasSockets(c)
      BY <2>1, <2>4, <3>2 DEF PortsInv
    <3> HIDE DEF c
    <3>8. \/ s \in {"point", "imu"}
          \/ s = "state" /\ c.type = "Mid360" /\ c.group = "none"
      BY <2>4 DEF Promised, c
    <3>9. p \in DOMAIN channel /\ (RightFor(e, p, channel[p].at) => channel[p].at = told[l][s].at)
      <4>1. CASE s \in {"point", "imu"}
        <5>1. told[l][s].at = Address(c) /\ p = c.ports[s]
          BY <3>1, <4>1 DEF ToldAsFile, c
        <5>2. Address(c) = Address(e) /\ p \in {e.ports.point, e.ports.imu}
          BY <3>4, <4>1, <5>1 DEF Address
        <5>3. p \in DOMAIN channel
          BY <3>7, <4>1, <5>1 DEF HasSockets
        <5>4. QED
          BY <5>1, <5>2, <5>3 DEF RightFor
      <4>2. CASE s = "state" /\ c.type = "Mid360" /\ c.group = "none"
        <5>1. told[l][s].at = Address(c) /\ p = c.ports.push
          BY <3>1, <4>2 DEF ToldAsFile, c
        <5>2. Address(c) = HostAddress
          BY <4>2 DEF Address
        <5>3. p \in DOMAIN channel
          BY <3>7, <4>2, <5>1 DEF HasSockets
        <5>4. QED
          BY <3>4, <4>2, <5>1, <5>2, <5>3 DEF RightFor
      <4>3. QED
        BY <3>8, <4>1, <4>2
    <3>10. RightFor(e, p, channel[p].at) /\ channel[p].gen = inits
      BY <2>2, <2>4, <3>9 DEF KeysRight
    <3>11. \E k \in polled : k.at = told[l][s].at /\ k.port = p
      BY <3>9, <3>10, KeyIsRead
    <3>12. QED
      BY <2>4, <3>2, <3>6, <3>11 DEF Reaches, OnData, c
  <2>5. QED
    BY <2>3, <2>4
<1>2. QED
  BY <1>1, HearingIsSound, PTL
-----------------------------------------------------------------------------
(* Types, and how far a lidar has come that a master is to tell something: *)
(* it has been asked for its type, and the answer leads to its handler.    *)
ListTypes ==
    /\ list \in Seq(ToSet(list))
    /\ \A c \in ToSet(list) : c.lidar \in NetLidars

TypesConfigured ==
    \A t \in DOMAIN types : \E f \in Files : \E e \in ToSet(f.entries) : types[t] = Configured(e, "any")

AskingInv ==
    /\ phase \in {"idle", "refused"} => \A l \in NetLidars : found[l] = "no"
    /\ phase = "running" /\ framework = "master" => \A l \in NetLidars : found[l] # "asked"

TablesTyped ==
    /\ DOMAIN types \subseteq LidarTypes
    /\ DOMAIN custom \subseteq NetLidars /\ DOMAIN known \subseteq NetLidars
    /\ ListTypes /\ TypesConfigured
CountsTyped == inits \in 0 .. MaxInits /\ refusals \in 0 .. MaxRefusals
FlagsTyped ==
    /\ phase \in {"idle", "running", "viewing", "refused", "crashed"}
    /\ past \subseteq {"other file", "refused"}
    /\ framework \in {"none", "master", "slave"}
    /\ handler \in {"none", "file", "view"}
    /\ stopped \in BOOLEAN /\ detecting \in BOOLEAN
    /\ found \in [NetLidars -> {"no", "asked", "app"}]

TellingInv == HearingInv /\ TablesTyped /\ CountsTyped /\ FlagsTyped /\ AskingInv

LEMMA TypesAre == TellingInv => NetworkTypeOK
<1> SUFFICES ASSUME TellingInv PROVE NetworkTypeOK
  OBVIOUS
<1>1. polled \subseteq open /\ \A p \in DOMAIN channel : channel[p] \in open
  BY DEF TellingInv, HearingInv, NetworkInv, TablesInv
<1>2. \A l \in NetLidars : told[l].gen \in 0 .. inits
  BY DEF TellingInv, HearingInv, ToldTypes, IsTold
<1>3. QED
  BY <1>1, <1>2 DEF TellingInv, NetworkTypeOK, TablesTyped, CountsTyped, FlagsTyped

LEMMA RefusalsCounted ==
    ASSUME CountsTyped, NEW needs, NEW bad \in Refusals, NEW gen, NEW polling,
           Created(needs, bad, gen, polling)
    PROVE  refusals' \in 0 .. MaxRefusals
<1>1. refusals' = refusals + Cardinality(bad)
  BY DEF Created
<1>2. bad = {} \/ (refusals < MaxRefusals /\ \E p : bad = {p})
  BY DEF Refusals
<1>3. Cardinality(bad) = 0 \/ (refusals < MaxRefusals /\ Cardinality(bad) = 1)
  BY <1>2, FS_EmptySet, FS_Singleton
<1>4. QED
  BY <1>1, <1>3, NetworkConstants DEF CountsTyped

LEMMA FileTyped ==
    ASSUME NEW f \in Files
    PROVE  /\ DOMAIN Parsed[f].types \subseteq LidarTypes /\ DOMAIN Parsed[f].lidars \subseteq NetLidars
           /\ Parsed[f].listed \in Seq(ToSet(Parsed[f].listed))
           /\ \A c \in ToSet(Parsed[f].listed) : c.lidar \in NetLidars
           /\ \A t \in DOMAIN Parsed[f].types :
                 \E e \in ToSet(f.entries) : Parsed[f].types[t] = Configured(e, "any")
<1>1. \A i \in DOMAIN f.entries : f.entries[i].type \in LidarTypes
  BY Entries, NetworkConstants
<1>2. DOMAIN TypeMap(f) \subseteq LidarTypes
  BY <1>1 DEF TypeMap, ByType
<1>3. DOMAIN LidarMap(Listed(f)) \subseteq NetLidars
  BY ListedFrom DEF LidarMap
<1>4. QED
  BY <1>2, <1>3, ParsedIs, ListedFrom, TypesFrom

LEMMA TellingStart == NetworkInit => TellingInv
<1> SUFFICES ASSUME NetworkInit PROVE TellingInv
  OBVIOUS
<1>1. HearingInv
  BY FirstHearing
<1>2. <<>> \in Seq({}) /\ ToSet(<<>>) = {}
  BY ToSetOne
<1>3. TablesTyped
  BY <1>2 DEF NetworkInit, TablesTyped, ListTypes, TypesConfigured
<1>4. CountsTyped
  BY NetworkConstants DEF NetworkInit, CountsTyped
<1>5. FlagsTyped /\ AskingInv
  BY DEF NetworkInit, FlagsTyped, AskingInv
<1>6. QED
  BY <1>1, <1>3, <1>4, <1>5 DEF TellingInv

LEMMA InitFileTells ==
    ASSUME TablesTyped, CountsTyped, FlagsTyped, AskingInv, NEW f \in Files, InitWithFile(f)
    PROVE  TablesTyped' /\ CountsTyped' /\ FlagsTyped' /\ AskingInv'
<1>1. /\ phase \in {"idle", "refused"} /\ inits < MaxInits /\ inits' = inits + 1
      /\ types' = Over(Parsed[f].types, types) /\ custom' = Over(Parsed[f].lidars, custom)
      /\ list' = Parsed[f].listed /\ known' = Over(known, Parsed[f].lidars)
      /\ UNCHANGED found
  BY DEF InitWithFile, MayInit, InitTables
<1>2. PICK bad \in Refusals :
          /\ Created(DetectionNeeds \o AllNeeds(list', f.master, f.log), bad, inits', {})
          /\ Finish(bad, "running")
  BY DEF InitWithFile
<1>3. refusals' \in 0 .. MaxRefusals
  BY <1>2, RefusalsCounted
<1>4. phase' \in {"running", "refused"} /\ stopped' \in BOOLEAN /\ detecting' \in BOOLEAN
  BY <1>2 DEF Finish, StartDetection, FlagsTyped, detection
<1>5. past' \subseteq {"other file", "refused"}
  BY DEF InitWithFile, FlagsTyped
<1>6. framework' \in {"none", "master", "slave"} /\ handler' \in {"none", "file", "view"}
  BY DEF InitWithFile, InitTables, FlagsTyped
<1>7. FlagsTyped'
  BY <1>1, <1>4, <1>5, <1>6 DEF FlagsTyped
<1>8. ListTypes'
  BY <1>1, FileTyped DEF ListTypes, ToSet
<1>9. TablesTyped'
  <2>1. TypesConfigured'
    BY <1>1, FileTyped DEF TablesTyped, TypesConfigured, Over
  <2>2. QED
    BY <1>1, <1>8, <2>1, FileTyped DEF TablesTyped, Over
<1>10. CountsTyped'
  BY <1>1, <1>3, NetworkConstants DEF CountsTyped
<1>11. AskingInv'
  BY <1>1, <1>4 DEF AskingInv
<1>12. QED
  BY <1>7, <1>9, <1>10, <1>11

LEMMA InitViewTells ==
    ASSUME TablesTyped, CountsTyped, FlagsTyped, AskingInv, InitView
    PROVE  TablesTyped' /\ CountsTyped' /\ FlagsTyped' /\ AskingInv'
<1>1. /\ phase \in {"idle", "refused"} /\ inits < MaxInits /\ inits' = inits + 1 /\ handler' = "view"
      /\ UNCHANGED <<framework, types, custom, list, known, found>>
  BY DEF InitView, MayInit
<1>2. PICK bad \in Refusals : Created(DetectionNeeds, bad, inits', {}) /\ Finish(bad, "viewing")
  BY DEF InitView
<1>3. refusals' \in 0 .. MaxRefusals
  BY <1>2, RefusalsCounted
<1>4. phase' \in {"viewing", "refused"} /\ stopped' \in BOOLEAN /\ detecting' \in BOOLEAN
  BY <1>2 DEF Finish, StartDetection, FlagsTyped, detection
<1>5. past' \subseteq {"other file", "refused"}
  BY DEF InitView, FlagsTyped
<1>6. FlagsTyped'
  BY <1>1, <1>4, <1>5 DEF FlagsTyped
<1>7. TablesTyped'
  BY <1>1 DEF TablesTyped, ListTypes, TypesConfigured, ToSet
<1>8. CountsTyped'
  BY <1>1, <1>3, NetworkConstants DEF CountsTyped
<1>9. AskingInv'
  BY <1>1, <1>4 DEF AskingInv
<1>10. QED
  BY <1>6, <1>7, <1>8, <1>9

LEMMA UnknownTells ==
    ASSUME TablesTyped, CountsTyped, FlagsTyped, AskingInv, NEW l \in NetLidars, DetectUnknown(l)
    PROVE  TablesTyped' /\ CountsTyped' /\ FlagsTyped' /\ AskingInv'
<1> DEFINE c == [types[TypeOf[l]] EXCEPT !.lidar = l]
<1>1. /\ list' = Append(list, c) /\ custom' = Over(custom, [x \in {l} |-> c])
      /\ known' = Over(known, LidarMap(Append(list, c)))
      /\ UNCHANGED <<phase, inits, framework, past, types, handler, stopped, detecting, found>>
  BY DEF DetectUnknown, process, detection
<1>2. \E bad \in Refusals :
          Created(AllNeeds(list', framework = "master", file.log), bad, inits, polled)
  BY DEF DetectUnknown
<1>3. CountsTyped'
  BY <1>1, <1>2, RefusalsCounted DEF CountsTyped
<1>4. FlagsTyped' /\ AskingInv'
  BY <1>1 DEF FlagsTyped, AskingInv
<1>5. c.lidar = l
  <2>1. PICK f \in Files : \E e \in ToSet(f.entries) : types[TypeOf[l]] = Configured(e, "any")
    BY DEF DetectUnknown, TablesTyped, TypesConfigured
  <2>2. PICK e \in ToSet(f.entries) : types[TypeOf[l]] = Configured(e, "any")
    BY <2>1
  <2>3. QED
    BY <2>2 DEF Configured
<1> HIDE DEF c
<1>6. list' \in Seq(ToSet(list')) /\ ToSet(list') = ToSet(list) \cup {c}
  BY <1>1, ListAppended DEF TablesTyped, ListTypes
<1>7. \A d \in ToSet(list') : d.lidar \in NetLidars
  BY <1>5, <1>6 DEF TablesTyped, ListTypes
<1>8. DOMAIN LidarMap(list') \subseteq NetLidars
  BY <1>7 DEF LidarMap
<1>9. ListTypes'
  BY <1>6, <1>7 DEF ListTypes, ToSet
<1>10. TypesConfigured'
  BY <1>1 DEF TablesTyped, TypesConfigured
<1>11. TablesTyped'
  BY <1>1, <1>8, <1>9, <1>10 DEF TablesTyped, Over
<1>12. QED
  BY <1>3, <1>4, <1>11

LEMMA FirstTells ==
    ASSUME TablesTyped, CountsTyped, FlagsTyped, AskingInv, NEW l \in NetLidars, DetectFirst(l)
    PROVE  TablesTyped' /\ CountsTyped' /\ FlagsTyped' /\ AskingInv'
<1>1. /\ phase \in {"running", "viewing"} /\ phase' \in {phase, "crashed"}
      /\ found' = [found EXCEPT ![l] = IF framework = "master" THEN "app" ELSE "asked"]
      /\ UNCHANGED <<inits, refusals, past, framework, types, custom, list, handler, known>>
      /\ UNCHANGED <<stopped, detecting>>
  BY DEF DetectFirst, faults, tables, detection
<1>2. TablesTyped' /\ CountsTyped'
  BY <1>1 DEF TablesTyped, CountsTyped, ListTypes, TypesConfigured, ToSet
<1>3. FlagsTyped' /\ AskingInv'
  BY <1>1 DEF FlagsTyped, AskingInv
<1>4. QED
  BY <1>2, <1>3

LEMMA ViewAgainTells ==
    ASSUME TablesTyped, CountsTyped, FlagsTyped, AskingInv, NEW l \in NetLidars, ViewAgain(l)
    PROVE  TablesTyped' /\ CountsTyped' /\ FlagsTyped' /\ AskingInv'
<1>1. /\ UNCHANGED <<phase, inits, past, framework, types, custom, list, handler, known>>
      /\ UNCHANGED <<stopped, detecting, found>>
  BY DEF ViewAgain, process, tables, detection
<1>2. refusals' \in 0 .. MaxRefusals
  BY RefusalsCounted DEF ViewAgain
<1>3. TablesTyped' /\ CountsTyped'
  BY <1>1, <1>2 DEF TablesTyped, CountsTyped, ListTypes, TypesConfigured, ToSet
<1>4. FlagsTyped' /\ AskingInv'
  BY <1>1 DEF FlagsTyped, AskingInv
<1>5. QED
  BY <1>3, <1>4

LEMMA UninitTells ==
    ASSUME TablesTyped, CountsTyped, FlagsTyped, AskingInv, Uninit
    PROVE  TablesTyped' /\ CountsTyped' /\ FlagsTyped' /\ AskingInv'
<1>1. /\ phase' \in {"idle", "crashed"} /\ past' = past \ {"refused"}
      /\ types' = <<>> /\ custom' = <<>> /\ list' = <<>> /\ handler' = "none"
      /\ found' = [l \in NetLidars |-> "no"] /\ stopped' = TRUE /\ detecting' = FALSE
      /\ UNCHANGED <<inits, refusals, framework, known>>
  BY DEF Uninit, Forget
<1>2. <<>> \in Seq({}) /\ ToSet(<<>>) = {}
  BY ToSetOne
<1>3. ListTypes' /\ TypesConfigured'
  BY <1>1, <1>2 DEF ListTypes, TypesConfigured, ToSet
<1>4. TablesTyped' /\ CountsTyped'
  BY <1>1, <1>3 DEF TablesTyped, CountsTyped
<1>5. FlagsTyped' /\ AskingInv'
  BY <1>1 DEF FlagsTyped, AskingInv
<1>6. QED
  BY <1>4, <1>5

(* A step that changes neither tables nor flags but for the phase.         *)
LEMMA QuietTells ==
    ASSUME TablesTyped, CountsTyped, FlagsTyped, AskingInv,
           UNCHANGED <<refusals, past, framework, tables, detection, found>>,
           \/ UNCHANGED <<phase, inits>>
           \/ phase \in {"idle", "refused"} /\ phase' = "refused" /\ inits < MaxInits /\ inits' = inits + 1
    PROVE  TablesTyped' /\ CountsTyped' /\ FlagsTyped' /\ AskingInv'
<1>1. UNCHANGED <<types, custom, list, handler, known, stopped, detecting>>
  BY DEF tables, detection
<1>2. TablesTyped'
  BY <1>1 DEF TablesTyped, ListTypes, TypesConfigured, ToSet
<1>3. CountsTyped'
  BY NetworkConstants DEF CountsTyped
<1>4. FlagsTyped' /\ AskingInv'
  BY <1>1 DEF FlagsTyped, AskingInv
<1>5. QED
  BY <1>2, <1>3, <1>4

(* Every variable keeps its type, and a lidar is asked for the type of its *)
(* firmware without an answer only by a slave                              *)
(* (GeneralCommandHandler::HandleDetectionData, Destory).                  *)
THEOREM TellingIsSound == NetworkSpec => []TellingInv
<1>1. TellingInv /\ HearingInv' /\ [NetworkNext]_networkVars => TellingInv'
  <2> SUFFICES ASSUME TellingInv, HearingInv', [NetworkNext]_networkVars PROVE TellingInv'
    OBVIOUS
  <2> DEFINE Tells == TablesTyped' /\ CountsTyped' /\ FlagsTyped' /\ AskingInv'
  <2>1. TablesTyped /\ CountsTyped /\ FlagsTyped /\ AskingInv
    BY DEF TellingInv
  <2>2. ASSUME NEW f \in Files, InitRejected(f) PROVE Tells
    BY <2>1, <2>2, QuietTells DEF InitRejected, MayInit, faults
  <2>3. ASSUME NEW f \in Files, InitWithFile(f) PROVE Tells
    BY <2>1, <2>3, InitFileTells
  <2>4. ASSUME InitView PROVE Tells
    BY <2>1, <2>4, InitViewTells
  <2>5. ASSUME NEW l \in NetLidars, DetectUnknown(l) \/ DetectFirst(l) \/ ViewAgain(l) PROVE Tells
    BY <2>1, <2>5, UnknownTells, FirstTells, ViewAgainTells
  <2>6. ASSUME NEW l \in NetLidars, DetectAgain(l) \/ MasterTells(l) PROVE Tells
    BY <2>1, <2>6, QuietTells DEF DetectAgain, MasterTells, process, faults
  <2>7. ASSUME Uninit PROVE Tells
    BY <2>1, <2>7, UninitTells
  <2>8. ASSUME UNCHANGED networkVars PROVE Tells
    BY <2>1, <2>8, QuietTells DEF networkVars, process, faults
  <2> HIDE DEF Tells
  <2>9. Tells
    BY <2>2, <2>3, <2>4, <2>5, <2>6, <2>7, <2>8 DEF NetworkNext, DetectionReply
  <2>10. QED
    BY <2>9 DEF TellingInv, Tells
<1>2. QED
  BY <1>1, TellingStart, HearingIsSound, PTL DEF NetworkSpec

(* Every variable keeps its type.                                          *)
THEOREM NetworkTypeCorrect == NetworkSpec => []NetworkTypeOK
  BY TypesAre, TellingIsSound, PTL

(* The guards of DetectionReply: what a reply of lidar l may lead to.      *)
MayReply(l) ==
    /\ Replies(l)
    /\ \/ phase = "running" /\ l \notin DOMAIN custom /\ TypeOf[l] \in DOMAIN types
       \/ found[l] = "no" /\ (phase = "viewing" \/ (phase = "running" /\ l \in DOMAIN custom))
       \/ found[l] = "app" /\ phase = "viewing"
       \/ found[l] = "app" /\ phase = "running" /\ l \in DOMAIN custom /\ Handled(l)

(* EveryoneIsTold with the guards of DetectionReply in place of ENABLED.   *)
NobodyIsStuck == \A l \in NetLidars : Expected(l) /\ ~MayReply(l) => told[l].gen = inits

(* No lidar of the user's file, listed or of a listed type, is left        *)
(* untold with nothing that its replies could still lead to                *)
(* (GeneralCommandHandler::HandleDetectionData), after any earlier calls   *)
(* of Init and Uninit and also after a socket was refused.                 *)
THEOREM NobodyGetsStuck == NetworkSpec => []NobodyIsStuck
<1>1. TellingInv => NobodyIsStuck
  <2> SUFFICES ASSUME TellingInv, NEW l \in NetLidars, Expected(l), told[l].gen # inits
               PROVE  MayReply(l)
    BY DEF NobodyIsStuck
  <2>1. Replies(l)
    BY DEF Expected, Replies
  <2>2. CASE l \notin DOMAIN custom
    BY <2>1, <2>2 DEF Expected, MayReply
  <2>3. CASE l \in DOMAIN custom
    <3>1. found[l] \in {"no", "app"}
      BY DEF TellingInv, FlagsTyped, AskingInv, Expected
    <3>2. Handled(l)
      BY <2>3 DEF Expected, Handled
    <3>3. QED
      BY <2>1, <2>3, <3>1, <3>2 DEF Expected, MayReply
  <2>4. QED
    BY <2>2, <2>3
<1>2. QED
  BY <1>1, TellingIsSound, PTL
=============================================================================
