------------------------------- MODULE Paging -------------------------------
(***************************************************************************)
(* The page tables: those bootstrap.S makes, which map the first four      *)
(* directories' worth of memory at 0, at HIGH_BASE and, in part, at        *)
(* KERNEL_BASE through shared tables; and init_paging of paging.c, which   *)
(* maps all memory at HIGH_BASE and the kernel at KERNEL_BASE one big page *)
(* after the other, with tables from the memory Boot has set aside.        *)
(*                                                                         *)
(* make_paging counts an unsigned size down to 0: BigPage is taken to      *)
(* divide it.  The PDPT is shared, so memory ends below the kernel's two   *)
(* directories in it.                                                      *)
(***************************************************************************)
EXTENDS Boot

CONSTANTS
  TableEntries,   \* entries of a PML4 and of a PDPT
  PdEntries,      \* entries of a page directory
  Uncleared       \* an entry of a new table: whatever was in memory there

VARIABLES
  entry,     \* entry[t][i]: a table, the address of a big page, None
               \* or Uncleared
  address,   \* address of bootstrap_allocator.c
  taken,     \* addresses of the tables taken from it
  mapped     \* the local variable physical_address of make_paging

paging == <<entry, address, taken, mapped>>

PdSpan == PdEntries * BigPage
PdptSpan == TableEntries * PdSpan

HIGH_BASE == (TableEntries \div 2) * PdptSpan
KERNEL_BASE == TableEntries * PdptSpan - 2 * PdSpan

\* The kernel fits in the two directories at KERNEL_BASE, as far as bootstrap.S
\* maps it, and all memory in the rest of the PDPT at HIGH_BASE.
ASSUME TablesAssumption ==
  /\ TableEntries \in Nat /\ TableEntries >= 6
  /\ PdEntries \in Nat \ {0} /\ PdEntries <= TableEntries
  /\ KernelSize <= 2 * PdSpan

ASSUME MemoryAssumption ==
  \A f \in Firmware : \A i \in DOMAIN f : End(f[i]) <= (TableEntries - 2) * PdSpan

ASSUME UnclearedAssumption == Uncleared \notin Int \cup {None}

pml4_i(v) == (v \div PdptSpan) % TableEntries
pml3_i(v) == (v \div PdSpan) % TableEntries
pml2_i(v) == (v \div BigPage) % PdEntries

-----------------------------------------------------------------------------

\* setup_identity_mapping.  The tables are in the kernel's image; negative
\* numbers stand for their addresses.
pml4 == -6
pdpt == -5
PageDirectory(n) == n - 4       \* four of them, 0 .. 3
BootMapped == 4 * PdSpan

Index == 0 .. TableEntries - 1

BootEntry(t, i) ==
  CASE t = pml4 ->
         IF i \in {0, TableEntries \div 2, TableEntries - 1} THEN pdpt ELSE None
    [] t = pdpt ->
         IF i < 4 THEN PageDirectory(i)
         ELSE IF i >= TableEntries - 2 THEN PageDirectory(i - (TableEntries - 2)) ELSE None
    [] OTHER ->
         IF i < PdEntries THEN (t + 4) * PdSpan + i * BigPage ELSE None

PagingInit ==
  /\ Init
  /\ entry = [t \in pml4 .. -1 |-> [i \in Index |-> BootEntry(t, i)]]
  /\ address = 0 /\ taken = {} /\ mapped = 0

Starting ==
  /\ get_memory_map \/ init_initramfs \/ init_buddy
  /\ UNCHANGED paging

\* bootstrap_init
SetAside ==
  /\ init_paging
  /\ address' = tables'[1]
  /\ UNCHANGED <<entry, taken, mapped>>

\* Mutation: a table is taken without a look at the entry.
AbsentAlways(e) == TRUE

Absent(e) == e = None

align(a, n) == div_up(a, n) * n

\* init_entry: entry i of table t leads to a table, a new one, which is not
\* cleared, if it was not present.  The state of the page tables is a record of entry, address and taken.
init_entry(s, t, i) ==
  LET new == align(s.address, PageSize)
  IN IF ~Absent(s.entry[t][i]) THEN s
     ELSE [entry |-> [u \in DOMAIN s.entry \cup {new} |->
                        IF u = new THEN [k \in Index |-> Uncleared]
                        ELSE IF u = t THEN [s.entry[t] EXCEPT ![i] = new] ELSE s.entry[u]],
           address |-> new + PageSize,
           taken |-> s.taken \cup {new}]

\* What the processor finds for a virtual address.
Translated(v) ==
  LET t == entry[pml4][pml4_i(v)]
      pd == IF t = None THEN None ELSE entry[t][pml3_i(v)]
  IN IF pd \in {None, Uncleared} THEN pd ELSE entry[pd][pml2_i(v)]

\* Whether a table is at its va(): those of bootstrap.S are, in the kernel's
\* image; for another its big page has to be mapped at HIGH_BASE.
Reached(t) ==
  LET page == (t \div BigPage) * BigPage IN t < 0 \/ Translated(HIGH_BASE + page) = page

\* An iteration of the loop of make_paging: size bytes are mapped from base on.
\* A table that is not reached when it is written is a page fault.
MakePaging(base, size) ==
  LET v == base + mapped
      s1 == init_entry([entry |-> entry, address |-> address, taken |-> taken], pml4, pml4_i(v))
      pdpte == s1.entry[pml4][pml4_i(v)]
      s2 == init_entry(s1, pdpte, pml3_i(v))
      pde == s2.entry[pdpte][pml3_i(v)]
  IN /\ mapped < size
     /\ IF Reached(pdpte) /\ Reached(pde)
        THEN /\ entry' = [s2.entry EXCEPT ![pde][pml2_i(v)] = mapped]
             /\ address' = s2.address
             /\ taken' = s2.taken
             /\ mapped' = mapped + BigPage
             /\ UNCHANGED vars
        ELSE /\ phase' = "fault"
             /\ UNCHANGED <<firmware, kernel, modules, initramfs_module, map, buddy, given, tables>>
             /\ UNCHANGED paging

Mapping(base, size, next) ==
  \/ MakePaging(base, size)
  \/ /\ mapped = size
     /\ phase' = next
     /\ mapped' = 0
     /\ UNCHANGED <<firmware, kernel, modules, initramfs_module, map, buddy, given, tables>>
     /\ UNCHANGED <<entry, address, taken>>

init_after_canonical_hole_mapping ==
  /\ phase = "init_after_canonical_hole_mapping"
  /\ Mapping(HIGH_BASE, get_memory_size(map), "init_kernel_mapping")

init_kernel_mapping ==
  /\ phase = "init_kernel_mapping"
  /\ Mapping(KERNEL_BASE, KernelSize, "init_pit")

PagingNext ==
  Starting \/ SetAside \/ init_after_canonical_hole_mapping \/ init_kernel_mapping

PagingSpec == PagingInit /\ [][PagingNext]_<<vars, paging>>

-----------------------------------------------------------------------------
(* Properties *)

\* The address of each big page below end is mapped at base.
MappedAt(base, end) ==
  \A n \in 0 .. div_up(end, BigPage) - 1 : Translated(base + n * BigPage) = n * BigPage

\* The kernel, which runs at KERNEL_BASE, and the memory it reaches at
\* HIGH_BASE stay mapped while the tables are rewritten one entry at a time;
\* in the end all memory is mapped.
WindowsMapped ==
  /\ MappedAt(KERNEL_BASE, KernelSize)
  /\ MappedAt(HIGH_BASE, BootMapped)
  /\ phase \in {"init_kernel_mapping", "init_pit", "sti", "running"} => MappedAt(HIGH_BASE, get_memory_size(map))

\* Page tables come out of the memory set aside for them, and each is mapped
\* before it is written if that memory is below where bootstrap.S stops.  It
\* may have been given to the page allocator before, but without memory
\* beyond that point no table is taken.
TablesApart ==
  /\ tables # None =>
       /\ \A t \in taken : tables[1] <= t /\ t + PageSize <= tables[2]
       /\ tables[2] <= BootMapped => phase # "fault"
  /\ get_memory_size(map) <= BootMapped =>
       \A t \in taken, p \in given : PageBytes(p) \cap (t .. t + PageSize - 1) = {}
=============================================================================
