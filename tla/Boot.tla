-------------------------------- MODULE Boot --------------------------------
(***************************************************************************)
(* Who gets which physical memory while main() starts the kernel: the      *)
(* memory map of memory_map.c, from which the kernel's image and the       *)
(* initramfs modules are cut out, and from whose AVAILABLE regions          *)
(* bootstrap_allocator.c takes what init_buddy and init_paging ask for and *)
(* init_buddy takes the pages of the page allocator.                       *)
(*                                                                         *)
(* Memory is a set of byte addresses; a region <<l, r>> is l .. r - 1.     *)
(* Everything runs before interrupts are enabled: one step per function    *)
(* called by main().                                                       *)
(***************************************************************************)
EXTENDS Integers, Sequences, SequencesExt, FiniteSets, FiniteSetsExt

CONSTANTS
  PageSize,          \* SMALL_PAGE_SIZE
  Firmware,          \* the memory maps the boot loader may pass; <<>> if none
  Kernel,            \* the places the kernel may be loaded to
  Modules,           \* sequences of modules the boot loader may pass
  HeaderBytes,       \* sizeof(struct cpio_header)
  None,
  HeadBytes,         \* bytes of level_head
  DescriptorBytes,   \* bytes of one buddy_allocator_descriptor
  KernelSize,        \* KERNEL_SIZE
  BigPage            \* BIG_PAGE_SIZE

VARIABLES
  phase,       \* the function main() calls next
  firmware, kernel,
  modules,     \* sequence of [range, magic]: where each is, and whether its
               \* first bytes are MAGIC
  initramfs_module,
  map,         \* memory_map_descriptors, memory_map_size of them
  buddy,       \* the memory of level_head and descriptors
  given,       \* pages given to the page allocator
  tables       \* the memory set aside for page tables

vars == <<phase, firmware, kernel, modules, initramfs_module, map, buddy, given, tables>>

-----------------------------------------------------------------------------
(* memory_map.c *)

Region(base, length, type) == [base_addr |-> base, length |-> length, type |-> type]

End(d) == d.base_addr + d.length

Bytes(d) == d.base_addr .. End(d) - 1

AvailableIn(descriptors) ==
  UNION {Bytes(descriptors[i]) :
           i \in {j \in DOMAIN descriptors : descriptors[j].type = "available"}}

Regions == [base_addr : Nat, length : Nat, type : {"available", "reserved"}]

Apart(descriptors) ==
  \A i, j \in DOMAIN descriptors : i # j => Bytes(descriptors[i]) \cap Bytes(descriptors[j]) = {}

Ranges == {r \in Nat \X Nat : r[1] <= r[2]}

ASSUME SizeAssumption ==
  /\ PageSize \in Nat \ {0} /\ BigPage \in Nat \ {0} /\ KernelSize \in Nat \ {0}
  /\ HeaderBytes \in Nat /\ HeadBytes \in Nat \ {0} /\ DescriptorBytes \in Nat

ASSUME FirmwareAssumption == \A f \in Firmware : f \in Seq(Regions) /\ Apart(f)

ASSUME KernelAssumption == \A k \in Kernel : k \in Ranges

ASSUME ModulesAssumption == \A m \in Modules : m \in Seq([range : Ranges, magic : BOOLEAN])

ASSUME NoneAssumption == None \notin Int /\ None \notin Int \X Int

Between(range) == IF range = None THEN {} ELSE range[1] .. range[2] - 1

\* add_descriptor drops what is empty.
add_descriptor(descriptors, d) == IF d.length = 0 THEN descriptors ELSE Append(descriptors, d)

\* The parts of a region that mark_as_reserved keeps.
Below(d, left) == Region(d.base_addr, left - d.base_addr, d.type)
Above(d, right) == Region(right, End(d) - right, d.type)

\* Mutation: a region that is cut in two is replaced by its upper part.
OutsideOneSide(d, left, right) ==
  IF d.base_addr >= right \/ left >= End(d) THEN <<d>>
  ELSE IF End(d) > right THEN <<Above(d, right)>>
  ELSE IF d.base_addr < left THEN <<Below(d, left)>> ELSE <<>>

\* What mark_as_reserved leaves of d.
Outside(d, left, right) ==
  IF d.base_addr >= right \/ left >= End(d) THEN <<d>>
  ELSE (IF d.base_addr < left THEN <<Below(d, left)>> ELSE <<>>)
       \o (IF End(d) > right THEN <<Above(d, right)>> ELSE <<>>)

\* Mutation: what is cut out is listed as reserved.
mark_as_reserved_listed(descriptors, range) ==
  Append(FlattenSeq([i \in DOMAIN descriptors |-> Outside(descriptors[i], range[1], range[2])]),
         Region(range[1], range[2] - range[1], "reserved"))

mark_as_reserved(descriptors, range) ==
  FlattenSeq([i \in DOMAIN descriptors |-> Outside(descriptors[i], range[1], range[2])])

\* The index of the region memory_map_allocate takes memory from, or 0.
FirstFit(descriptors, size) ==
  SelectInSeq(descriptors, LAMBDA d : d.type = "available" /\ d.length >= size)

\* Mutation: the region keeps what is taken from it.
Kept(descriptors, i, size) == descriptors

Shortened(descriptors, i, size) == [descriptors EXCEPT ![i].length = @ - size]

\* memory_map_allocate: the map afterwards, and the address it returns
AfterAllocate(descriptors, size) ==
  LET i == FirstFit(descriptors, size)
  IN IF i = 0 THEN descriptors
     ELSE add_descriptor(Shortened(descriptors, i, size),
                         Region(End(descriptors[i]) - size, size, "reserved"))

memory_map_allocate(descriptors, size) ==
  LET i == FirstFit(descriptors, size)
  IN IF i = 0 THEN 0 ELSE End(descriptors[i]) - size

get_memory_size(descriptors) ==
  Max({0} \cup {End(descriptors[i]) : i \in DOMAIN descriptors})

-----------------------------------------------------------------------------
(* The part of main() that hands out memory *)

\* The bytes of the modules init_initramfs takes for archives.
Archive(m) == m.magic /\ m.range[2] - m.range[1] >= HeaderBytes

Archives == {i \in DOMAIN modules : Archive(modules[i])}

ArchiveBytes == UNION {Between(modules[i].range) : i \in Archives}

\* Where the boot loader puts things: available memory, if it knows of any.
Loadable == IF firmware = <<>> THEN Nat ELSE AvailableIn(firmware)

Init ==
  /\ phase = "get_memory_map"
  /\ firmware \in Firmware
  /\ kernel \in Kernel
  /\ modules \in Modules
  /\ \A i \in DOMAIN modules :
       /\ Between(modules[i].range) \subseteq Loadable \ Between(kernel)
       /\ \A j \in DOMAIN modules :
            i # j => Between(modules[i].range) \cap Between(modules[j].range) = {}
  /\ Between(kernel) \subseteq Loadable
  /\ initramfs_module = None
  /\ map = <<>>
  /\ buddy = None
  /\ given = {}
  /\ tables = None

\* Without a memory map it returns before the kernel is cut out.
get_memory_map ==
  /\ phase = "get_memory_map"
  /\ map' = IF firmware = <<>> THEN map
            ELSE mark_as_reserved(FlattenSeq([i \in DOMAIN firmware |-> add_descriptor(<<>>, firmware[i])]),
                                  kernel)
  /\ phase' = "init_initramfs"
  /\ UNCHANGED <<firmware, kernel, modules, initramfs_module, buddy, given, tables>>

\* Every archive is cut out of the map; the last one will be loaded.
init_initramfs ==
  LET cut[n \in 0 .. Len(modules)] ==
        IF n = 0 THEN map
        ELSE IF Archive(modules[n]) THEN mark_as_reserved(cut[n - 1], modules[n].range)
        ELSE cut[n - 1]
  IN /\ phase = "init_initramfs"
     /\ map' = cut[Len(modules)]
     /\ initramfs_module' = IF Archives = {} THEN None ELSE modules[Max(Archives)].range
     /\ phase' = "init_buddy"
     /\ UNCHANGED <<firmware, kernel, modules, buddy, given, tables>>

\* Mutation: the start of a region is rounded down.
PagesInDown(d) ==
  {p \in 0 .. End(d) : p * PageSize + PageSize > d.base_addr /\ (p + 1) * PageSize <= End(d)}

\* The pages the loop of init_buddy adds for the region d.
PagesIn(d) ==
  LET bound == IF d.base_addr % PageSize = 0 THEN d.base_addr \div PageSize
               ELSE d.base_addr \div PageSize + 1
  IN {p \in bound .. End(d) : (p + 1) * PageSize <= End(d)}

init_buddy ==
  LET size == HeadBytes + DescriptorBytes * (get_memory_size(map) \div PageSize)
      start == memory_map_allocate(map, size)
  IN /\ phase = "init_buddy"
     /\ map' = AfterAllocate(map, size)
     /\ buddy' = <<start, start + size>>
     /\ given' = UNION {PagesIn(map'[i]) :
                          i \in {j \in DOMAIN map' : map'[j].type = "available"}}
     /\ phase' = "init_paging"
     /\ UNCHANGED <<firmware, kernel, modules, initramfs_module, tables>>

div_up(a, b) == IF a % b = 0 THEN a \div b ELSE a \div b + 1

\* bootstrap_init for the page tables, which Paging fills
init_paging ==
  LET size == (div_up(KernelSize, BigPage) + div_up(get_memory_size(map), BigPage))
                * PageSize * 2
      start == memory_map_allocate(map, size)
  IN /\ phase = "init_paging"
     /\ map' = AfterAllocate(map, size)
     /\ tables' = <<start, start + size>>
     /\ phase' = "init_after_canonical_hole_mapping"
     /\ UNCHANGED <<firmware, kernel, modules, initramfs_module, buddy, given>>

Next == get_memory_map \/ init_initramfs \/ init_buddy \/ init_paging

Spec == Init /\ [][Next]_vars

-----------------------------------------------------------------------------
(* Properties *)

PageBytes(p) == p * PageSize .. (p + 1) * PageSize - 1

\* The regions of the map stay apart while parts are cut out of them and
\* taken from them, and are available exactly where the firmware says so and
\* neither the kernel nor an archive is: no byte is lost or claimed twice.
MapExact ==
  /\ Apart(map)
  /\ phase = "init_initramfs" => AvailableIn(map) = AvailableIn(firmware) \ Between(kernel)
  /\ phase = "init_buddy" =>
       AvailableIn(map) = AvailableIn(firmware) \ (Between(kernel) \cup ArchiveBytes)

\* Cutting something out adds at most one region to the map, and so does
\* taking memory from it: firmware that reports at most MEMORY_MAP_SIZE - 3
\* regions, less one for each archive, does not make add_descriptor write
\* behind the map.
MapBounded ==
  Len(map) <= Len(firmware) + 1 + (IF initramfs_module = None THEN 0 ELSE Cardinality(Archives))
    + (IF buddy = None THEN 0 ELSE 1) + (IF tables = None THEN 0 ELSE 1)

\* The page allocator gets every page that is available as a whole, and none
\* that holds a byte of the kernel, an archive or its own descriptors (if a
\* region was large enough for those).
PagesExact ==
  phase = "init_paging" =>
    /\ \A p \in given :
         /\ PageBytes(p) \subseteq AvailableIn(firmware)
         /\ PageBytes(p) \cap (Between(kernel) \cup ArchiveBytes) = {}
         /\ buddy[1] > 0 => PageBytes(p) \cap Between(buddy) = {}
    /\ \A i \in DOMAIN map : \A p \in 0 .. get_memory_size(map) :
         map[i].type = "available" /\ PageBytes(p) \subseteq Bytes(map[i]) => p \in given

\* Memory handed out at start-up is handed out once: the descriptors of the
\* page allocator and the page tables lie apart from each other, the kernel
\* and the archives, in memory the firmware calls available (if a region was
\* large enough).
BootstrapApart ==
  LET found == {m \in {buddy, tables} : m # None /\ m[1] > 0}
  IN /\ \A m \in found :
          Between(m) \subseteq AvailableIn(firmware) \ (Between(kernel) \cup ArchiveBytes)
     /\ buddy \in found /\ tables \in found => Between(buddy) \cap Between(tables) = {}
=============================================================================
