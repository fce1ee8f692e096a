----------------------------- MODULE DevicePath -----------------------------
(***************************************************************************)
(* Device paths (device_path.hpp): packed nodes one behind the other, each *)
(* with its type, subtype and length.  A client walks over a path that the *)
(* firmware has built: it goes on by length(), and reads a node through    *)
(* the class it takes the type and the subtype for.                        *)
(***************************************************************************)
EXTENDS Integers, Sequences

CONSTANTS MaxNodes,  \* the nodes of a path before its end
          Extras,    \* lengths of the data behind a node's fixed part
          Shadowed   \* the enumerators a client does not test for

ASSUME PathAssumption == MaxNodes \in Nat /\ Extras \subseteq Nat

VARIABLES
  path,   \* what the firmware has built, an end node last
  at      \* the offset the walk has reached

path_vars == <<path, at>>

-----------------------------------------------------------------------------
\* The subtypes of each DevicePathType that have a class.
SubTypes ==
  [Hardware  |-> [PCI |-> 1, PCCARD |-> 2, MemoryMapped |-> 3, Vendor |-> 4, Contoller |-> 5,
                  BMC |-> 5],
   ACPI      |-> [ACPI |-> 1, ExpandedACPI |-> 2, _ADR |-> 3, NVDIMM |-> 4],
   Messaging |-> [ATAPI |-> 1, SCSI |-> 2, FibreChannel |-> 3, Firewire |-> 4, USB |-> 5,
                  I2O |-> 6, InfiniBand |-> 9, Vendor |-> 10, MacAddress |-> 11, IPV4 |-> 12,
                  IPV6 |-> 13, UART |-> 14, USBClass |-> 15, USB_WWID |-> 16,
                  DeviceLogicalUnit |-> 17, SATA |-> 18, iSCSI |-> 19, VLAN |-> 20,
                  FibreChannelEx |-> 21, SASEx |-> 22, NVMExpress |-> 23, URI |-> 24, UFS |-> 25,
                  SD |-> 26, Bluetooth |-> 27, WiFi |-> 28, eMMC |-> 29, BluetoothLE |-> 30,
                  DNS |-> 31, NVDIMM |-> 32, RESTService |-> 33, NVMEoF |-> 34],
   Media     |-> [HardDrive |-> 1, CdRom |-> 2, Vendor |-> 3, FilePath |-> 4,
                  MediaProtocol |-> 5, PIWGFirmwareFile |-> 6, RAMDisk |-> 9],
   BIOSBootSpecification |-> [V1_01 |-> 1]]

\* The sizes of the members of each class behind those of DevicePathProtocol.
Controllers == [Contoller |-> <<4>>, BMC |-> <<1, 8>>]

Hardware ==
  [PCI |-> <<1, 1>>, PCCARD |-> <<1>>, MemoryMapped |-> <<4, 8, 8>>, Vendor |-> <<16>>,
   Contoller |-> Controllers.Contoller, BMC |-> Controllers.BMC]

ACPI == [ACPI |-> <<4, 4>>, ExpandedACPI |-> <<4, 4, 4>>, _ADR |-> <<4>>, NVDIMM |-> <<4>>]

StorageAndBuses ==
  [ATAPI |-> <<1, 1, 2>>, SCSI |-> <<2, 2>>, FibreChannel |-> <<4, 8, 8>>,
   FibreChannelEx |-> <<4, 8, 8>>, Firewire |-> <<4, 8>>, USB |-> <<1, 1>>, SATA |-> <<2, 2, 2>>,
   USB_WWID |-> <<2, 2, 2>>, DeviceLogicalUnit |-> <<1>>, USBClass |-> <<2, 2, 1, 1, 1>>]

NetworkAndVendor ==
  [I2O |-> <<4>>, MacAddress |-> <<32, 1>>, IPV4 |-> <<4, 4, 2, 2, 2, 1, 4, 4>>,
   IPV6 |-> <<16, 16, 2, 2, 2, 1, 1, 16>>, VLAN |-> <<2>>, InfiniBand |-> <<4, 16, 8, 8, 8>>,
   UART |-> <<4, 8, 1, 1, 1>>, Vendor |-> <<16>>, UartFlowControl |-> <<16, 4>>]

AttachedAndServices ==
  [SAS |-> <<16, 4, 8, 8, 2, 2>>, SASEx |-> <<8, 8, 8, 2, 2>>, iSCSI |-> <<2, 2, 8, 2>>,
   NVMExpress |-> <<4, 8>>, URI |-> <<>>, UFS |-> <<1, 1>>, SD |-> <<1>>, Bluetooth |-> <<6>>,
   WiFi |-> <<32>>, eMMC |-> <<1>>, BluetoothLE |-> <<6, 1>>, DNS |-> <<1>>, NVDIMM |-> <<16>>,
   RESTService |-> <<1, 1>>, NVMEoF |-> <<1, 16>>]

Media ==
  [HardDrive |-> <<4, 8, 8, 16, 1, 1>>, CdRom |-> <<4, 8, 8>>, Vendor |-> <<16>>,
   FilePath |-> <<>>, MediaProtocol |-> <<16>>, PIWGFirmwareFile |-> <<>>,
   RAMDisk |-> <<8, 8, 16, 2>>]

BIOSBootSpecification == [V1_01 |-> <<2, 2>>]

Messaging ==
  [class \in DOMAIN StorageAndBuses \cup DOMAIN NetworkAndVendor \cup DOMAIN AttachedAndServices |->
     CASE class \in DOMAIN StorageAndBuses -> StorageAndBuses[class]
       [] class \in DOMAIN NetworkAndVendor -> NetworkAndVendor[class]
       [] class \in DOMAIN AttachedAndServices -> AttachedAndServices[class]]

Layouts ==
  [Hardware |-> Hardware, ACPI |-> ACPI, Messaging |-> Messaging, Media |-> Media,
   BIOSBootSpecification |-> BIOSBootSpecification]

\* DevicePathProtocol: type_, subtype_ and length_.
Header == <<1, 1, 2>>

\* Where each part ends, of parts of these sizes that lie one behind the other.
Ends(sizes) ==
  LET end[i \in 0 .. Len(sizes)] == IF i = 0 THEN 0 ELSE end[i - 1] + sizes[i] IN end

Extent(sizes) == Ends(sizes)[Len(sizes)]

\* Mutant: without `#pragma pack(push, 1)` members are aligned to their size.
SizeOfAligned(type, class) ==
  LET members == Header \o Layouts[type][class]
      align(n) == CASE n <= 2 -> n [] n \in {4, 6, 16, 32} -> 1 [] OTHER -> 8
      end[i \in 0 .. Len(members)] ==
        IF i = 0 THEN 0
        ELSE ((end[i - 1] + align(members[i]) - 1) \div align(members[i])) * align(members[i])
               + members[i]
  IN end[Len(members)]

\* sizeof a class, packed: that of its base, and its own members.
SizeOf(type, class) == Extent(Header) + Extent(Layouts[type][class])

-----------------------------------------------------------------------------
\* The firmware: the subtype and the least length of each node it builds.
Nodes ==
  [Hardware |-> [PCI |-> <<1, 6>>, PCCARD |-> <<2, 5>>, MemoryMapped |-> <<3, 24>>,
                 Vendor |-> <<4, 20>>, Contoller |-> <<5, 8>>, BMC |-> <<6, 13>>],
   ACPI     |-> [ACPI |-> <<1, 12>>, ExpandedACPI |-> <<2, 19>>, _ADR |-> <<3, 8>>,
                 NVDIMM |-> <<4, 8>>],
   Messaging |->
     [ATAPI |-> <<1, 8>>, SCSI |-> <<2, 8>>, FibreChannel |-> <<3, 24>>,
      FibreChannelEx |-> <<21, 24>>, Firewire |-> <<4, 16>>, USB |-> <<5, 6>>,
      SATA |-> <<18, 10>>, USB_WWID |-> <<16, 10>>, DeviceLogicalUnit |-> <<17, 5>>,
      USBClass |-> <<15, 11>>, I2O |-> <<6, 8>>, MacAddress |-> <<11, 37>>, IPV4 |-> <<12, 27>>,
      IPV6 |-> <<13, 60>>, VLAN |-> <<20, 6>>, InfiniBand |-> <<9, 48>>, UART |-> <<14, 19>>,
      Vendor |-> <<10, 20>>, UartFlowControl |-> <<10, 24>>, SAS |-> <<10, 44>>,
      SASEx |-> <<22, 24>>, iSCSI |-> <<19, 18>>, NVMExpress |-> <<23, 16>>, URI |-> <<24, 4>>,
      UFS |-> <<25, 6>>, SD |-> <<26, 5>>, Bluetooth |-> <<27, 10>>, WiFi |-> <<28, 36>>,
      eMMC |-> <<29, 5>>, BluetoothLE |-> <<30, 11>>, DNS |-> <<31, 5>>, NVDIMM |-> <<32, 20>>,
      RESTService |-> <<33, 6>>, NVMEoF |-> <<34, 21>>],
   Media |-> [HardDrive |-> <<1, 42>>, CdRom |-> <<2, 24>>, Vendor |-> <<3, 20>>,
              FilePath |-> <<4, 4>>, MediaProtocol |-> <<5, 20>>, PIWGFirmwareFile |-> <<6, 20>>,
              RAMDisk |-> <<9, 38>>],
   BIOSBootSpecification |-> [V1_01 |-> <<1, 8>>]]

Node(type, name, extra) ==
  [type |-> type, name |-> name, subtype |-> Nodes[type][name][1],
   length |-> Nodes[type][name][2] + extra]

End == [type |-> "EndOfHardware", name |-> "EndOfHardware", subtype |-> 255, length |-> 4]

Built ==
  UNION {{Node(type, name, extra) : name \in DOMAIN Nodes[type], extra \in Extras} :
           type \in DOMAIN Nodes}

\* The nodes that begin where the walk is.
Lengths == [i \in DOMAIN path |-> path[i].length]
Here == {i \in DOMAIN path : Ends(Lengths)[i - 1] = at}

-----------------------------------------------------------------------------
PathInit ==
  /\ path \in {Append(nodes, End) : nodes \in UNION {[1 .. n -> Built] : n \in 0 .. MaxNodes}}
  /\ at = 0

\* The classes a node is taken for by its type and subtype; nothing in the library
\* tells a VendorRestServiceDevicePath from a RestServiceDevicePath.
Taken(node) ==
  {class \in DOMAIN SubTypes[node.type] \ Shadowed : SubTypes[node.type][class] = node.subtype}

PathNext ==
  \E i \in Here :
    /\ path[i].type # "EndOfHardware"
    /\ at' = at + path[i].length
    /\ UNCHANGED path

PathSpec == PathInit /\ [][PathNext]_path_vars

-----------------------------------------------------------------------------
\* The walk by length() is at the beginning of a node at each step, and the class that
\* type() and subtype() select, whether its getters are called or the object is copied,
\* takes no byte behind that node: the layouts of device_path.hpp are those
\* the firmware writes.  SasExDevicePath, which has a member too many, is left out.
ReadsInNode ==
  \E i \in Here :
    path[i].type # "EndOfHardware" =>
      \A class \in Taken(path[i]) \ {"SASEx"} : SizeOf(path[i].type, class) <= path[i].length

=============================================================================
