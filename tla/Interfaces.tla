----------------------------- MODULE Interfaces -----------------------------
(***************************************************************************)
(* What a player is sent when it enters the world and when it changes its  *)
(* screen: StartPlayer and EventPacketScreen of the world manager, the     *)
(* interface and configuration managers they call, and the headers the     *)
(* world encoder puts before the packets.  One step sends one packet.      *)
(***************************************************************************)
EXTENDS Integers, Sequences

CONSTANTS
  UserNames,    \* lengths of the user's name
  kWelcome, kLicence,  \* lengths of the two messages of the log-in
  MapRegions,   \* regions of a map, with four keys each
  MaxScreens    \* bound: screen packets handled

\* Both messages name the server, the second with a longer text around it; no
\* map reaches over more than sixteen regions in each direction.
ASSUME InterfacesAssumption ==
  /\ UserNames \subseteq Nat /\ MapRegions \subseteq 0 .. 256 /\ MaxScreens \in Nat
  /\ kWelcome \in Nat /\ kLicence \in Nat /\ kWelcome <= kLicence

VARIABLES
  display_mode, nameLength,
  todo,      \* packets that the current call has still to send
  screens,   \* screen packets handled
  window,    \* the pane the client was told last, or 0
  tabs,      \* the interfaces opened since, with the pane and slot of each
  touched,   \* interfaces a component of which was changed since
  configs,   \* what the client was sent of each configuration
  sizes      \* kinds of packets sent, with their sizes

wireVars == <<display_mode, nameLength, todo, screens, window, tabs, touched, configs, sizes>>

kResizablePane == 746
kFixedPane == 548
IsResizable == display_mode \in {2, 3}

\* A packet: its type, the bytes of its data, and what it tells.
Packet(type, size, about) == [type |-> type, size |-> size, about |-> about]

SendWindowPane(id) == <<Packet("InterfaceWindowPane", 1 + 2 + 16, <<id>>)>>

\* SendTab, to a slot of a pane; and the tabs of one pane, from pairs of a slot
\* and an interface.
TabPacket(pane, slot, interface) == Packet("InterfaceTab", 2 + 4 + 4 + 4 + 1 + 4 + 4, <<pane, slot, interface>>)
TabIn(pane, slot, interface) == <<TabPacket(pane, slot, interface)>>
TabsOf(pane, pairs) == [i \in DOMAIN pairs |-> TabPacket(pane, pairs[i][1], pairs[i][2])]

\* SendTab, in the layout of the player.
SendTab(resizable, fixed, interface) ==
  IF IsResizable THEN TabIn(kResizablePane, resizable, interface) ELSE TabIn(kFixedPane, fixed, interface)

SendText(interface, length) == <<Packet("InterfaceComponentText", length + 1 + 4, <<interface>>)>>
SendSettings(interface) == <<Packet("InterfaceComponentSetting", 4 + 4 + 2 + 2, <<interface>>)>>
SendHide(interface) == <<Packet("InterfaceHide", 4 + 1, <<interface>>)>>
SendPlayerOption(length) == <<Packet("PlayerOption", 1 + length + 1 + 2 + 1, <<>>)>>

\* Values are four bytes, the highest first; MinusOne fills them.
MinusOne == <<255, 255, 255, 255>>
Value(n) == <<0, 0, n \div 256, n % 256>>
FitsByte(v) == v[1] = 0 /\ v[2] = 0 /\ v[3] = 0
AsByte(v) == <<0, 0, 0, v[4]>>

SendConfig(id, v) ==
  IF FitsByte(v) THEN <<Packet("Config1", 2 + 1, <<id, AsByte(v), v>>)>> ELSE <<Packet("Config2", 2 + 4, <<id, v, v>>)>>
SendGlobalConfig(id, v) ==
  IF FitsByte(v) THEN <<Packet("ConfigGlobal1", 1 + 2, <<id, AsByte(v), v>>)>> ELSE <<Packet("ConfigGlobal2", 2 + 4, <<id, v, v>>)>>

\* The value is cut to a byte before its size is looked at.
SendFileConfig(id, v) == <<Packet("ConfigFile1", 2 + 1, <<id, AsByte(v), v>>)>>

Simple(type, size) == <<Packet(type, size, <<>>)>>
SendMessage(length) == Simple("Message", 1 + 4 + 1 + nameLength + 1 + length + 1)

CombatStyles == SendTab(111, 171, 884) \o SendText(884, 14)
SqueelOfFortune == SendTab(119, 179, 1139) \o SendHide(1139) \o SendHide(1139)
PrayerBook == SendTab(117, 177, 271)

Equipment == SendTab(116, 176, 387)
Inventory == SendTab(115, 175, 679)
Quests == SendTab(114, 174, 3002)
TaskSystem == SendTab(112, 172, 3002)
Skills == SendTab(113, 173, 320)
Settings == SendTab(123, 183, 261)
Emotes == SendTab(124, 184, 590)
Timer == SendTab(26, 11, 3039)

FixedInterfaces ==
  TabsOf(kFixedPane, <<<<161, 752>>, <<37, 751>>, <<23, 745>>, <<25, 754>>, <<155, 747>>, <<151, 748>>, <<152, 749>>, <<153, 750>>>>)
  \o TabIn(752, 9, 137) \o TabIn(kFixedPane, 9, 167)
  \o PrayerBook \o Equipment \o Inventory \o Quests \o SqueelOfFortune
  \o TabsOf(kFixedPane, <<<<181, 1109>>, <<182, 1110>>, <<180, 550>>, <<185, 187>>, <<186, 34>>, <<189, 182>>>>)
  \o Skills \o Emotes \o Settings \o TaskSystem \o CombatStyles

ResizableFrames ==
  TabsOf(kResizablePane, <<<<21, 752>>, <<22, 751>>, <<15, 745>>, <<25, 754>>, <<195, 748>>, <<196, 749>>, <<197, 750>>, <<198, 747>>>>)

\* (Seeded defect.) The chat comes before the interface it is in.
EarlyChat == TabIn(752, 9, 137) \o ResizableFrames

ResizableChat == ResizableFrames \o TabIn(752, 9, 137)

ResizableInterfaces ==
  ResizableChat \o SqueelOfFortune \o SendGlobalConfig(823, Value(1))
  \o CombatStyles \o TaskSystem \o Skills \o Quests \o Inventory \o Equipment \o PrayerBook
  \o TabsOf(kResizablePane, <<<<120, 550>>, <<121, 1109>>, <<122, 1110>>>>)
  \o Settings \o Emotes
  \o TabsOf(kResizablePane, <<<<125, 187>>, <<126, 34>>, <<129, 182>>>>)

UnlockAttackStyleButtons == SendSettings(884) \o SendSettings(884) \o SendSettings(884) \o SendSettings(884)

\* The pane of the player's mode, and everything that is opened in it.
Pane == IF IsResizable THEN kResizablePane ELSE kFixedPane
Opened ==
  (IF IsResizable THEN ResizableInterfaces ELSE FixedInterfaces)
  \o UnlockAttackStyleButtons \o SendSettings(590) \o Timer
  \o SendPlayerOption(6) \o SendPlayerOption(5)

SendInterfaces == SendWindowPane(Pane) \o Opened

\* SendMapRegion: an update for 2046 players, the place, and the keys.
SendMap(regions) == Simple("MapRegion", (30 + 2046 * 18 + 7) \div 8 + 1 + 1 + 2 + 2 + 16 * regions)

GameBarStages ==
  SendConfig(1054, Value(0)) \o SendConfig(1055, Value(0)) \o SendConfig(1056, Value(0)) \o SendConfig(2159, Value(0))
  \o Simple("ConfigGameBarOther", 2) \o Simple("ConfigGameBarPrivate", 1)

SendPlayerSkills == [skill \in 1 .. 25 |-> Packet("PlayerSkill", 1 + 4 + 1, <<>>)]

\* A player has 100 hit points, and no area is one of multiple combat.
SendState ==
  Simple("RunEnergy", 1) \o SendFileConfig(7198, Value(100)) \o Simple("ItemLook", 1) \o Simple("CustomPacket161", 1)
  \o SendMessage(kWelcome) \o SendMessage(kLicence)
  \o SendGlobalConfig(616, Value(0))
  \o SendConfig(281, Value(1000)) \o SendConfig(1159, Value(1)) \o SendConfig(1160, MinusOne)
  \o GameBarStages \o SendPlayerSkills

StartPlayer(regions) == SendMap(regions) \o (SendInterfaces \o SendState)

WireInit ==
  /\ display_mode \in 0 .. 3 /\ nameLength \in UserNames
  /\ \E regions \in MapRegions : todo = StartPlayer(regions)
  /\ screens = 0 /\ window = 0 /\ tabs = {} /\ touched = {} /\ configs = {} /\ sizes = {}

TellsConfig == {"Config1", "Config2", "ConfigGlobal1", "ConfigGlobal2", "ConfigFile1"}
Touches == {"InterfaceComponentText", "InterfaceComponentSetting", "InterfaceHide"}

\* The packet at the head goes out; the client shows what it tells.
Send ==
  /\ todo # <<>>
  /\ LET p == Head(todo)
         newWindow == p.type = "InterfaceWindowPane"
     IN  /\ window' = IF newWindow THEN p.about[1] ELSE window
         /\ tabs' = IF newWindow THEN {} ELSE IF p.type = "InterfaceTab" THEN tabs \cup {p.about} ELSE tabs
         /\ touched' = IF newWindow THEN {} ELSE IF p.type \in Touches THEN touched \cup {p.about[1]} ELSE touched
         /\ configs' = IF p.type \in TellsConfig THEN configs \cup {p.about} ELSE configs
         /\ sizes' = sizes \cup {<<p.type, p.size>>}
  /\ todo' = Tail(todo)
  /\ UNCHANGED <<display_mode, nameLength, screens>>

\* EventPacketScreen, in the mode chosen, which SendInterfaces finds set.
ChangeScreen(chosen) ==
  /\ todo = <<>> /\ screens < MaxScreens
  /\ display_mode' = chosen
  /\ todo' = SendInterfaces'
  /\ screens' = screens + 1
  /\ UNCHANGED <<nameLength, window, tabs, touched, configs, sizes>>

WireNext == Send \/ \E chosen \in 0 .. 3 : ChangeScreen(chosen)

\* WorldEncoder: the packet's code and how its header states the size.
Code ==
  [MapRegion |-> 42, InterfaceWindowPane |-> 39, InterfaceTab |-> 14, InterfaceComponentText |-> 135,
   InterfaceComponentSetting |-> 40, InterfaceHide |-> 112, PlayerOption |-> 118, RunEnergy |-> 25,
   ConfigFile1 |-> 111, ItemLook |-> 159, CustomPacket161 |-> 161, Message |-> 136, ConfigGlobal1 |-> 154,
   ConfigGlobal2 |-> 63, Config1 |-> 110, Config2 |-> 56, ConfigGameBarOther |-> 89,
   ConfigGameBarPrivate |-> 75, PlayerSkill |-> 146]

\* Encode: a code from 128 on takes two bytes.
CodeBytes(type) == IF Code[type] >= 128 THEN <<(Code[type] \div 256) + 128, Code[type]>> ELSE <<Code[type]>>

\* (Seeded defect.) A map is measured in one byte.
MapInOneByte(type) == IF type \in {"PlayerOption", "Message", "MapRegion"} THEN 1 ELSE IF type = "InterfaceComponentText" THEN 2 ELSE 0

LengthBytes(type) ==
  IF type \in {"PlayerOption", "Message"} THEN 1
  ELSE IF type \in {"MapRegion", "InterfaceComponentText"} THEN 2 ELSE 0

-----------------------------------------------------------------------------
(* Properties *)

\* Every tab goes into a pane that is there, the window or an interface opened
\* before, and only interfaces that are open have components changed.
NothingIntoClosed ==
  /\ \A t \in tabs : t[1] = window \/ \E u \in tabs : u[3] = t[1]
  /\ touched \subseteq {t[3] : t \in tabs}

\* No tab replaces another: the two layouts give every slot of a pane once.
OneTabPerSlot == \A t, u \in tabs : t[1] = u[1] /\ t[2] = u[2] => t = u

\* When a call is done the window and the tabs are those of the mode the
\* player is in, also after it went back and forth.
TabsFitMode ==
  todo = <<>> =>
    /\ window = Pane
    /\ \A t \in tabs : t[1] \in {window, 752}

\* The interfaces on the client are what its mode calls for, at every step of
\* building them, and after every change of the mode.
LayoutFitsMode == NothingIntoClosed /\ OneTabPerSlot /\ TabsFitMode

\* A configuration arrives as the value it was set to, in either length.
ConfigsArriveWhole == \A c \in configs : c[2] = c[3]

\* The longest name the second message of a log-in has room for.
kLongestName == 255 - 8 - kLicence

\* The client can take the packets apart again: no two types begin with the
\* same code, one that has no length always has the same size, and the others
\* state theirs, as long as the user's name leaves room in a message.
FramesCanBeSeparated ==
  nameLength <= kLongestName =>
    \A s \in sizes :
      /\ \A t \in sizes : s[1] # t[1] => CodeBytes(s[1]) # CodeBytes(t[1])
      /\ LengthBytes(s[1]) = 0 => \A t \in sizes : s[1] = t[1] => s = t
      /\ LengthBytes(s[1]) > 0 => s[2] < <<256, 65536>>[LengthBytes(s[1])]

\* The client gets packets it can take apart and values that are whole.
PacketsCanBeRead == ConfigsArriveWhole /\ FramesCanBeSeparated
=============================================================================
