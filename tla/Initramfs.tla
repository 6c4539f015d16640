----------------------------- MODULE Initramfs ------------------------------
(***************************************************************************)
(* load_initramfs_module of initramfs.c fills the tree of Directories from *)
(* a cpio archive before threads start: a walk over addresses from header  *)
(* to header, with a call of mkdir or of open, write and close for each    *)
(* directory and regular file.  The archive is one that cpio makes, or     *)
(* none; addresses count from its first byte, where the boot loader has put*)
(* it.  write is taken to find the pages it needs.                         *)
(***************************************************************************)
EXTENDS Directories

CONSTANTS
  Boot,            \* the thread that loads the archive
  END_OF_ARCHIVE,  \* the name in the trailer, TRAILER!!!
  Archives         \* sequences of entries [path, kind, namesize, filesize]

ASSUME BootAssumption == Boot \in Thread

MB == 1048576
MaxSize == 2047 * MB   \* bound: the sizes in an archive, nearly 2 GB

ASSUME ArchiveAssumption ==
  Archives \subseteq Seq([path : Paths, kind : {"directory", "regular", "link"},
                          namesize : 0 .. MaxSize, filesize : 0 .. MaxSize])

HeaderSize == 110        \* sizeof(struct cpio_header)
CPIO_ALIGNMENT == 4
BlockSize == 512         \* cpio fills the archive up to whole blocks
TrailerName == 11        \* "TRAILER!!!" and its 0
CPIO_ARRAY_LENGTH == 8   \* hexadecimal digits of a number in a header

VARIABLES
  archive,    \* the module, <<>> when there is none
  mod_start,  \* its address, modulo CPIO_ALIGNMENT
  address,    \* the local variables of load_initramfs_module: where it is
  header,     \* and the number of the entry it works on
  loading,    \* "walk", "call", "done", or "undefined" behaviour
  contents    \* contents[f]: which bytes of the archive f holds

load == <<archive, mod_start, address, header, loading, contents>>

align(a, n) == ((a + n - 1) \div n) * n

\* convert_from_hex, on the codes of its digits
convert_from_hex(str) ==
  LET result[k \in 0 .. Len(str)] ==
        IF k = 0 THEN 0
        ELSE 16 * result[k - 1] + (IF str[k] \in 65 .. 70 THEN 10 + str[k] - 65 ELSE str[k] - 48)
  IN result[Len(str)]

-----------------------------------------------------------------------------
(* The archive: the digits of a number, which are 0 .. 9 and A .. F, where  *)
(* cpio puts an entry's data, the header after it, and the end of the file. *)

hex(n) ==
  LET rest[i \in 1 .. CPIO_ARRAY_LENGTH] ==
        IF i = CPIO_ARRAY_LENGTH THEN n ELSE rest[i + 1] \div 16
  IN [i \in 1 .. CPIO_ARRAY_LENGTH |->
        (rest[i] % 16) + (IF rest[i] % 16 < 10 THEN 48 ELSE 55)]

After(a, namesize) == align(a + HeaderSize + namesize, CPIO_ALIGNMENT)

Headers(a) ==
  LET at[i \in 1 .. Len(a) + 1] ==
        IF i = 1 THEN 0
        ELSE align(After(at[i - 1], a[i - 1].namesize) + a[i - 1].filesize, CPIO_ALIGNMENT)
  IN at

HeaderAt(i) == Headers(archive)[i]

DataAt(i) == After(HeaderAt(i), archive[i].namesize)

Trailer == HeaderAt(Len(archive) + 1)

\* relative to mod_start
mod_end ==
  IF archive = <<>> THEN 0 ELSE align(After(Trailer, TrailerName), BlockSize)

-----------------------------------------------------------------------------

LoadInit ==
  /\ Init
  /\ archive \in Archives
  /\ mod_start \in 0 .. CPIO_ALIGNMENT - 1 /\ (archive = <<>> => mod_start = 0)
  /\ address = 0 /\ header = 0 /\ loading = "walk"
  /\ contents = [f \in File |-> [from |-> 0, size |-> 0]]

\* align, for the address of a byte of the archive
aligned(a) == align(mod_start + a, CPIO_ALIGNMENT) - mod_start

\* strncmp(address, END_OF_ARCHIVE, strlen(END_OF_ARCHIVE)) == 0, for the
\* name behind the header: the trailer, or an entry whose name starts like it.
Ends(e) == Matches(e.path[1], END_OF_ARCHIVE)

EndsAt(at) == at = Trailer \/ \E i \in DOMAIN archive : HeaderAt(i) = at /\ Ends(archive[i])

\* The loop ends there, or where no header fits any more.
WalkEnd ==
  /\ loading = "walk"
  /\ address + HeaderSize > mod_end \/ EndsAt(aligned(address))
  /\ loading' = "done"
  /\ UNCHANGED <<vars, archive, mod_start, address, header, contents>>

\* Mutations: the padding behind the name is forgotten; directories are
\* passed over.
DataUnaligned(a, e) == a + HeaderSize + convert_from_hex(hex(e.namesize))
CalledForFiles(kind) == IF kind = "regular" THEN "creat" ELSE "none"

DataAddress(a, e) == aligned(a + HeaderSize + convert_from_hex(hex(e.namesize)))

\* mkdir(file_name), open(file_name, O_CREAT | O_WRITE), or neither
Called(kind) ==
  CASE kind = "directory" -> "mkdir" [] kind = "regular" -> "creat" [] OTHER -> "none"

\* The header is read up to the call it asks for.  Bytes that are no header
\* are read as one all the same.
Walk ==
  LET at == aligned(address)
      here == {i \in DOMAIN archive : HeaderAt(i) = at}
  IN /\ loading = "walk"
     /\ address + HeaderSize <= mod_end /\ ~ EndsAt(at)
     /\ IF here = {}
        THEN loading' = "undefined" /\ UNCHANGED <<vars, address, header>>
        ELSE \E i \in here :
               /\ header' = i
               /\ address' = DataAddress(at, archive[i])
               /\ loading' = "call"
               /\ IF Called(archive[i].kind) = "none"
                  THEN UNCHANGED vars
                  ELSE Call(Boot, [op |-> Called(archive[i].kind), path |-> archive[i].path])
     /\ UNCHANGED <<archive, mod_start, contents>>

\* A step of the mkdir or open that was called
LoadStep == loading = "call" /\ Step(Boot) /\ UNCHANGED load

\* The call has returned; write replaces what the file holds, and fails on
\* the NULL that open may have returned.
Loaded ==
  LET e == archive[header]
      file_size == convert_from_hex(hex(e.filesize))
      f == IF e.kind = "regular" THEN Last(opened[Boot])[2] ELSE None
  IN /\ loading = "call" /\ pc[Boot] = "idle"
     /\ IF e.kind = "regular" /\ f = None
        THEN loading' = "undefined" /\ UNCHANGED <<address, contents>>
        ELSE /\ loading' = "walk"
             /\ contents' = [g \in File |->
                  IF g = f THEN [from |-> address, size |-> file_size] ELSE contents[g]]
             /\ address' = address + file_size
     /\ UNCHANGED <<vars, archive, mod_start, header>>

\* main calls sti when the archive is loaded.
Threads ==
  /\ loading = "done"
  /\ \E t \in Thread \ {Boot} : Step(t) \/ \E request \in Requests : Call(t, request)
  /\ UNCHANGED load

LoadNext == WalkEnd \/ Walk \/ LoadStep \/ Loaded \/ Threads

LoadSpec == LoadInit /\ [][LoadNext]_<<vars, load>>

-----------------------------------------------------------------------------
(* Properties *)

\* find lists a directory before what is in it, but not the directories that
\* lead to the one it was called for.
Listed ==
  \A i \in DOMAIN archive : \A k \in 1 .. Len(archive[i].path) - 1 :
    \E j \in 1 .. i - 1 :
      archive[j].kind = "directory" /\ archive[j].path = SubSeq(archive[i].path, 1, k)

\* What the loader relies on
Proper == Listed /\ mod_start = 0

\* The walk reads headers where the archive has them, and the directory of
\* each file is there when the file is opened.
NeverUndefined == Proper => loading # "undefined"

\* The regular files before the end that the walk finds
Regular == {i \in DOMAIN archive : archive[i].kind = "regular" /\ \A j \in 1 .. i : ~ Ends(archive[j])}

Target(i) == get_file(Leads(archive[i].path), Last(archive[i].path), "REGULAR")

\* In the end, and from then on, the path of every regular file of the
\* archive leads to a file that holds the data of the last entry whose path
\* leads there: its own, unless names that start with each other are mixed up.
ArchiveLoaded ==
  loading = "done" =>
    \A i \in Regular :
      \E j \in Regular :
        /\ j >= i /\ Target(j) = Target(i)
        /\ \A k \in Regular : Target(k) = Target(i) => k <= j
        /\ contents[Target(i)] = [from |-> DataAt(j), size |-> archive[j].filesize]
=============================================================================
