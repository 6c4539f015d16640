------------------------- MODULE DirectoriesProofs --------------------------
(***************************************************************************)
(* Proofs about Directories, Initramfs and Listing, for every set of       *)
(* threads, files and names, every relation `is a prefix of' and every     *)
(* archive.                                                                *)
(*                                                                         *)
(* IInv is the invariant of the tree, for Tree and StableNames.  StaysFound*)
(* needs VisibleInv beside it.  AnyInv and LoadInv add to these two where  *)
(* the walk over any archive, or over a proper one, is and what it has     *)
(* loaded; ListingInv says what the links and a listing make of the tree.  *)
(***************************************************************************)
EXTENDS Listing, Induction, FiniteSetTheorems, SequenceTheorems, TLAPS

-----------------------------------------------------------------------------
(* The inductive invariant *)

DirTypeOK ==
  /\ type \in [File -> {"UNUSED", "REGULAR", "DIRECTORY"}]
  /\ name = [f \in File |-> name[f]]
  /\ children \in [File -> Seq(File)]
  /\ pc \in [Thread -> {"idle", "lookup", "create", "add"}]
  /\ directory \in [Thread -> File \cup {None}]
  /\ file \in [Thread -> File \cup {None}]

\* A thread in a call is at a directory.
Walking ==
  /\ type[Root] = "DIRECTORY"
  /\ \A t \in Thread :
       pc[t] # "idle" => directory[t] \in File /\ type[directory[t]] = "DIRECTORY"

\* A thread that is about to call add_to_directory, and no other, has a file
\* of its own, which is in use.
Holding ==
  \A t \in Thread :
    /\ file[t] # None <=> pc[t] = "add"
    /\ file[t] # None =>
         /\ file[t] # Root /\ type[file[t]] # "UNUSED"
         /\ \A u \in Thread : u # t => file[u] # file[t]

\* Only directories have children, each once.
Once ==
  \A d \in File :
    /\ Linked(d) # {} => type[d] = "DIRECTORY"
    /\ IsFiniteSet(Linked(d)) /\ Cardinality(Linked(d)) = Len(children[d])

\* Directories have no children in common.
Apart == \A d, e \in File : d # e => Linked(d) \cap Linked(e) = {}

\* The files with a parent are those in use that no thread holds.
Placed ==
  \A f \in File :
    (\E d \in File : f \in Linked(d)) <=>
      type[f] # "UNUSED" /\ f # Root /\ \A t \in Thread : file[t] # f

IInv == DirTypeOK /\ Walking /\ Holding /\ Once /\ Apart /\ Placed

-----------------------------------------------------------------------------
(* Sequences of children and the first that matches *)

\* What list_add_tail does to the set of children.
LEMMA Appended ==
  ASSUME NEW s \in Seq(File), NEW f \in File
  PROVE  /\ Append(s, f) \in Seq(File)
         /\ Len(Append(s, f)) = Len(s) + 1
         /\ \A i \in 1 .. Len(s) : Append(s, f)[i] = s[i]
         /\ Append(s, f)[Len(s) + 1] = f
         /\ DOMAIN s = 1 .. Len(s) /\ Len(s) \in Nat
         /\ DOMAIN Append(s, f) = 1 .. Len(s) + 1
OBVIOUS

LEMMA AppendedSet ==
  ASSUME NEW s \in Seq(File), NEW f \in File
  PROVE  {Append(s, f)[i] : i \in DOMAIN Append(s, f)} = {s[i] : i \in DOMAIN s} \cup {f}
<1> DEFINE t == Append(s, f)
           n == Len(s)
<1>1. /\ t[n + 1] = f /\ \A i \in 1 .. n : t[i] = s[i]
      /\ DOMAIN s = 1 .. n /\ n \in Nat /\ DOMAIN t = 1 .. n + 1
  BY Appended
<1> HIDE DEF t, n
<1>2. DOMAIN t = (1 .. n) \cup {n + 1}
  BY <1>1
<1>3. {t[i] : i \in (1 .. n) \cup {n + 1}} = {t[i] : i \in 1 .. n} \cup {t[n + 1]}
  OBVIOUS
<1>4. {t[i] : i \in 1 .. n} = {s[i] : i \in 1 .. n}
  BY <1>1
<1>5. {t[i] : i \in DOMAIN t} = {s[i] : i \in DOMAIN s} \cup {f}
  BY <1>1, <1>2, <1>3, <1>4
<1> QED BY <1>5 DEF t

\* The places of the children get_file may find.
Hits(d, wanted, t) ==
  {i \in 1 .. Len(children[d]) : type[children[d][i]] = t /\ Matches(name[children[d][i]], wanted)}

LEMMA FirstHit ==
  ASSUME NEW d, NEW wanted, NEW t
  PROVE  get_file(d, wanted, t) =
           IF Hits(d, wanted, t) = {} THEN None ELSE
           IF Min(Hits(d, wanted, t)) = 0 THEN None ELSE children[d][Min(Hits(d, wanted, t))]
BY DEF get_file, SelectInSeq, Hits

\* The first hit is one, and the least.
LEMMA LeastHit ==
  ASSUME NEW d, NEW wanted, NEW t, Hits(d, wanted, t) # {}
  PROVE  /\ Min(Hits(d, wanted, t)) \in Hits(d, wanted, t)
         /\ \A i \in Hits(d, wanted, t) : Min(Hits(d, wanted, t)) <= i
         /\ Min(Hits(d, wanted, t)) # 0
<1> DEFINE H == Hits(d, wanted, t)
<1>1. H \in SUBSET Nat /\ 0 \notin H /\ H # {}
  BY DEF Hits
<1>2. \E n \in H : \A m \in H : n <= m
  <2> HIDE DEF H
  <2> QED BY <1>1, Least
<1> HIDE DEF H
<1>3. Min(H) \in H /\ \A i \in H : Min(H) <= i
  BY <1>2 DEF Min
<1>4. Min(H) # 0
  BY <1>1, <1>3
<1> QED BY <1>3, <1>4 DEF H

\* What get_file finds is a child of the directory, of the type asked for.
LEMMA FoundChild ==
  ASSUME DirTypeOK, NEW d \in File, NEW wanted, NEW t, get_file(d, wanted, t) # None
  PROVE  /\ get_file(d, wanted, t) \in Linked(d)
         /\ get_file(d, wanted, t) \in File
         /\ type[get_file(d, wanted, t)] = t
         /\ Matches(name[get_file(d, wanted, t)], wanted)
<1> DEFINE i == Min(Hits(d, wanted, t))
<1>1. Hits(d, wanted, t) # {}
  BY FirstHit
<1>2. i \in Hits(d, wanted, t) /\ i # 0
  BY <1>1, LeastHit
<1>3. get_file(d, wanted, t) = children[d][i]
  BY <1>1, <1>2, FirstHit
<1> HIDE DEF i
<1>4. children[d] \in Seq(File)
  BY DEF DirTypeOK
<1>5. /\ i \in DOMAIN children[d] /\ type[children[d][i]] = t
      /\ Matches(name[children[d][i]], wanted)
  BY <1>2, <1>4 DEF Hits
<1> QED BY <1>3, <1>4, <1>5 DEF Linked

\* If a directory keeps its children, and those keep their types and names,
\* and only gets another one at the end, what get_file finds stays.
LEMMA FoundStays ==
  ASSUME NEW d \in File, NEW wanted, NEW t, get_file(d, wanted, t) # None,
         Len(children[d]) \in Nat, Len(children'[d]) \in Nat,
         Len(children[d]) <= Len(children'[d]),
         \A i \in 1 .. Len(children[d]) :
           /\ children'[d][i] = children[d][i]
           /\ type'[children[d][i]] = type[children[d][i]]
           /\ name'[children[d][i]] = name[children[d][i]]
  PROVE  get_file(d, wanted, t)' = get_file(d, wanted, t)
<1> DEFINE H == Hits(d, wanted, t)
           G == Hits(d, wanted, t)'
<1>1. H # {}
  BY FirstHit
<1>2. Min(H) \in H /\ (\A i \in H : Min(H) <= i) /\ Min(H) # 0
  BY <1>1, LeastHit
<1>3. H \subseteq G
  BY DEF Hits
<1>4. \A i \in G : i \in H \/ (i \in Nat /\ i > Len(children[d]))
  BY DEF Hits
<1>5. \A i \in H : i \in Nat /\ i <= Len(children[d])
  BY DEF Hits
<1>6. get_file(d, wanted, t)' =
        IF G = {} THEN None ELSE IF Min(G) = 0 THEN None ELSE children'[d][Min(G)]
  BY DEF get_file, SelectInSeq, Hits
<1>7. get_file(d, wanted, t) = children[d][Min(H)]
  BY <1>1, <1>2, FirstHit
<1> HIDE DEF H, G
<1>8. \A i \in G : Min(H) <= i
  BY <1>2, <1>4, <1>5
<1>9. Min(H) \in G
  BY <1>2, <1>3
<1>10. Min(G) \in G /\ \A i \in G : Min(G) <= i
  BY <1>8, <1>9 DEF Min
<1>11. Min(G) = Min(H)
  BY <1>8, <1>9, <1>10, <1>2, <1>4, <1>5
<1>12. children'[d][Min(H)] = children[d][Min(H)]
  BY <1>2, <1>5
<1> QED BY <1>2, <1>6, <1>7, <1>9, <1>11, <1>12

-----------------------------------------------------------------------------
(* The steps *)

\* A step that leaves the tree and the files held as they are.
LEMMA Quiet ==
  ASSUME IInv, UNCHANGED <<tree, file>>,
         pc' \in [Thread -> {"idle", "lookup", "create", "add"}],
         directory' \in [Thread -> File \cup {None}],
         \A u \in Thread : pc'[u] = "add" <=> pc[u] = "add",
         \A u \in Thread :
           pc'[u] # "idle" => directory'[u] \in File /\ type[directory'[u]] = "DIRECTORY"
  PROVE  IInv'
<1>1. type' = type /\ name' = name /\ children' = children /\ file' = file
  BY DEF tree
<1>2. DirTypeOK' /\ Walking' /\ Holding'
  BY <1>1 DEF IInv, DirTypeOK, Walking, Holding
<1>3. \A d \in File : Linked(d)' = Linked(d)
  BY <1>1 DEF Linked
<1>4. Once'
  BY <1>1, <1>3 DEF IInv, Once
<1>5. Apart'
  BY <1>3 DEF IInv, Apart
<1>6. Placed'
  BY <1>1, <1>3 DEF IInv, Placed
<1> QED BY <1>2, <1>4, <1>5, <1>6 DEF IInv

\* A call is made.
LEMMA CallStep ==
  ASSUME IInv, NEW t \in Thread, NEW request, Call(t, request)
  PROVE  IInv'
<1>1. UNCHANGED <<tree, file>>
  BY DEF Call
<1>2. /\ pc' \in [Thread -> {"idle", "lookup", "create", "add"}]
      /\ directory' \in [Thread -> File \cup {None}]
  BY RootAssumption DEF Call, IInv, DirTypeOK
<1>3. \A u \in Thread : pc'[u] = "add" <=> pc[u] = "add"
  BY DEF Call, IInv, DirTypeOK
<1>4. \A u \in Thread :
        pc'[u] # "idle" => directory'[u] \in File /\ type[directory'[u]] = "DIRECTORY"
  BY RootAssumption DEF Call, IInv, DirTypeOK, Walking
<1> QED BY <1>1, <1>2, <1>3, <1>4, Quiet

\* A call returns that has not made a file.
LEMMA ReturnStep ==
  ASSUME IInv, NEW t \in Thread, NEW f, pc[t] = "lookup", Return(t, f), UNCHANGED tree
  PROVE  IInv'
<1>1. file[t] = None
  BY DEF IInv, Holding
<1>2. UNCHANGED <<tree, file>>
  BY <1>1 DEF Return, IInv, DirTypeOK
<1>3. /\ pc' \in [Thread -> {"idle", "lookup", "create", "add"}]
      /\ directory' \in [Thread -> File \cup {None}]
  BY DEF Return, IInv, DirTypeOK
<1>4. \A u \in Thread : pc'[u] = "add" <=> pc[u] = "add"
  BY DEF Return, IInv, DirTypeOK
<1>5. \A u \in Thread :
        pc'[u] # "idle" => directory'[u] \in File /\ type[directory'[u]] = "DIRECTORY"
  BY DEF Return, IInv, DirTypeOK, Walking
<1> QED BY <1>2, <1>3, <1>4, <1>5, Quiet

LEMMA DescendStep ==
  ASSUME IInv, NEW t \in Thread, Descend(t)
  PROVE  IInv'
<1> DEFINE d == get_file(directory[t], Head(path[t]), "DIRECTORY")
<1>1. CASE d = None
  BY <1>1, ReturnStep DEF Descend
<1>2. CASE d # None
  <2>1. directory[t] \in File
    BY DEF Descend, IInv, Walking
  <2>2. d \in File /\ type[d] = "DIRECTORY"
    BY <1>2, <2>1, FoundChild DEF IInv
  <2> HIDE DEF d
  <2>3. directory' = [directory EXCEPT ![t] = d] /\ pc' = pc /\ UNCHANGED <<tree, file>>
    BY <1>2 DEF Descend, d
  <2>4. /\ pc' \in [Thread -> {"idle", "lookup", "create", "add"}]
        /\ directory' \in [Thread -> File \cup {None}]
    BY <2>2, <2>3 DEF IInv, DirTypeOK
  <2>5. \A u \in Thread :
          pc'[u] # "idle" => directory'[u] \in File /\ type[directory'[u]] = "DIRECTORY"
    BY <2>2, <2>3 DEF IInv, DirTypeOK, Walking
  <2> QED BY <2>3, <2>4, <2>5, Quiet
<1> QED BY <1>1, <1>2

LEMMA LookupStep ==
  ASSUME IInv, NEW t \in Thread, Lookup(t)
  PROVE  IInv'
<1> DEFINE f == get_file(directory[t], path[t][1], Wanted(t))
<1>1. CASE f = None /\ call[t].op # "open"
  <2>1. pc' = [pc EXCEPT ![t] = "create"] /\ UNCHANGED <<tree, directory, file>> /\ pc[t] = "lookup"
    BY <1>1 DEF Lookup, locals
  <2>2. /\ pc' \in [Thread -> {"idle", "lookup", "create", "add"}]
        /\ directory' \in [Thread -> File \cup {None}]
        /\ \A u \in Thread : pc'[u] = "add" <=> pc[u] = "add"
    BY <2>1 DEF IInv, DirTypeOK
  <2>3. \A u \in Thread :
          pc'[u] # "idle" => directory'[u] \in File /\ type[directory'[u]] = "DIRECTORY"
    BY <2>1 DEF IInv, DirTypeOK, Walking
  <2> QED BY <2>1, <2>2, <2>3, Quiet
<1>2. CASE ~ (f = None /\ call[t].op # "open")
  <2>1. Return(t, IF call[t].op = "mkdir" THEN None ELSE f) /\ pc[t] = "lookup" /\ UNCHANGED tree
    BY <1>2 DEF Lookup
  <2> QED BY <2>1, ReturnStep
<1> QED BY <1>1, <1>2

LEMMA ReadDirStep ==
  ASSUME IInv, NEW t \in Thread, ReadDir(t)
  PROVE  IInv'
BY ReturnStep DEF ReadDir

\* A new object is taken for a file: it was not in the tree.
LEMMA CreateStep ==
  ASSUME IInv, NEW t \in Thread, Create(t)
  PROVE  IInv'
<1>1. PICK f \in File :
        /\ type[f] = "UNUSED"
        /\ type' = [type EXCEPT ![f] = Wanted(t)]
        /\ name' = [name EXCEPT ![f] = path[t][1]]
        /\ file' = [file EXCEPT ![t] = f]
  BY DEF Create
<1>2. /\ pc[t] = "create" /\ pc' = [pc EXCEPT ![t] = "add"]
      /\ children' = children /\ directory' = directory
  BY DEF Create
<1>3. Wanted(t) \in {"REGULAR", "DIRECTORY"}
  BY DEF Wanted
<1>4. f # Root /\ f # None
  BY <1>1, RootAssumption DEF IInv, Walking
<1>5. DirTypeOK'
  BY <1>1, <1>2, <1>3 DEF IInv, DirTypeOK
<1>6. Walking'
  BY <1>1, <1>2, <1>4, RootAssumption DEF IInv, DirTypeOK, Walking
<1>7. file[t] = None /\ \A u \in Thread : file[u] # f
  BY <1>1, <1>2, <1>4 DEF IInv, Holding
<1>8. Holding'
  BY <1>1, <1>2, <1>3, <1>4, <1>7 DEF IInv, DirTypeOK, Holding
<1>9. \A d \in File : Linked(d)' = Linked(d)
  BY <1>2 DEF Linked
<1>10. \A d \in File : f \notin Linked(d)
  BY <1>1 DEF IInv, Placed
<1>11. Once'
  BY <1>1, <1>2, <1>9 DEF IInv, DirTypeOK, Once
<1>12. Apart'
  BY <1>9 DEF IInv, Apart
<1>13. Placed'
  <2> SUFFICES ASSUME NEW g \in File
               PROVE  (\E d \in File : g \in Linked(d)') <=>
                        type'[g] # "UNUSED" /\ g # Root /\ \A u \in Thread : file'[u] # g
    BY DEF Placed
  <2>1. (\E d \in File : g \in Linked(d)') <=> (\E d \in File : g \in Linked(d))
    BY <1>9
  <2>2. CASE g = f
    <3>1. file'[t] = g
      BY <1>1, <2>2 DEF IInv, DirTypeOK
    <3> QED BY <1>10, <2>1, <2>2, <3>1
  <2>3. CASE g # f
    <3>1. type'[g] = type[g]
      BY <1>1, <2>3 DEF IInv, DirTypeOK
    <3>2. (\A u \in Thread : file'[u] # g) <=> (\A u \in Thread : file[u] # g)
      BY <1>1, <1>7, <2>3, RootAssumption DEF IInv, DirTypeOK
    <3> QED BY <2>1, <3>1, <3>2 DEF IInv, Placed
  <2> QED BY <2>2, <2>3
<1> QED BY <1>5, <1>6, <1>8, <1>11, <1>12, <1>13 DEF IInv

\* The file a thread holds becomes a child of the directory it is at.
LEMMA AddStep ==
  ASSUME IInv, NEW t \in Thread, Add(t)
  PROVE  IInv'
<1>1. PICK d \in File, f \in File : d = directory[t] /\ f = file[t]
  BY DEF Add, IInv, DirTypeOK, Walking, Holding
<1>2. /\ type[d] = "DIRECTORY"
      /\ f # Root /\ type[f] # "UNUSED" /\ f # None
      /\ \A e \in File : f \notin Linked(e)
      /\ \A u \in Thread : u # t => file[u] # f
  BY <1>1, RootAssumption DEF Add, IInv, DirTypeOK, Walking, Holding, Placed
<1>3. /\ children' = [children EXCEPT ![d] = Append(@, f)]
      /\ pc[t] = "add" /\ pc' = [pc EXCEPT ![t] = "idle"]
      /\ directory' = [directory EXCEPT ![t] = None]
      /\ file' = [file EXCEPT ![t] = None]
      /\ type' = type /\ name' = name
  BY <1>1 DEF Add, Return, Link
<1>4. \A e \in File : children[e] \in Seq(File)
  BY DEF IInv, DirTypeOK
<1>5. /\ children'[d] = Append(children[d], f)
      /\ \A e \in File : e # d => children'[e] = children[e]
  BY <1>1, <1>2, <1>3 DEF IInv, DirTypeOK
<1>6. DirTypeOK'
  BY <1>1, <1>2, <1>3, <1>4, Appended DEF IInv, DirTypeOK
<1>7. Walking' /\ Holding'
  BY <1>1, <1>2, <1>3 DEF IInv, DirTypeOK, Walking, Holding
<1>8. Linked(d)' = Linked(d) \cup {f}
  <2>1. children[d] \in Seq(File)
    BY <1>1, <1>2, <1>4
  <2>2. {Append(children[d], f)[i] : i \in DOMAIN Append(children[d], f)} =
          {children[d][i] : i \in DOMAIN children[d]} \cup {f}
    BY <2>1, AppendedSet
  <2> QED BY <1>5, <2>2 DEF Linked
<1>9. \A e \in File : e # d => Linked(e)' = Linked(e)
  BY <1>5 DEF Linked
<1>10. Once'
  <2> SUFFICES ASSUME NEW e \in File
               PROVE  /\ Linked(e)' # {} => type'[e] = "DIRECTORY"
                      /\ IsFiniteSet(Linked(e)') /\ Cardinality(Linked(e)') = Len(children'[e])
    BY DEF Once
  <2>1. CASE e = d
    <3>1. IsFiniteSet(Linked(d)) /\ Cardinality(Linked(d)) = Len(children[d])
      BY <1>1, <1>2 DEF IInv, Once
    <3>2. f \notin Linked(d)
      BY <1>1, <1>2
    <3>3. /\ IsFiniteSet(Linked(d) \cup {f})
          /\ Cardinality(Linked(d) \cup {f}) = Cardinality(Linked(d)) + 1
      BY <3>1, <3>2, FS_AddElement
    <3>4. Len(children'[d]) = Len(children[d]) + 1
      BY <1>1, <1>2, <1>4, <1>5, Appended
    <3> QED BY <1>1, <1>2, <1>3, <1>8, <2>1, <3>1, <3>3, <3>4
  <2>2. CASE e # d
    BY <1>3, <1>5, <1>9, <2>2 DEF IInv, Once
  <2> QED BY <2>1, <2>2
<1>11. Apart'
  BY <1>1, <1>2, <1>8, <1>9 DEF IInv, Apart
<1>12. Placed'
  <2> SUFFICES ASSUME NEW g \in File
               PROVE  (\E e \in File : g \in Linked(e)') <=>
                        type'[g] # "UNUSED" /\ g # Root /\ \A u \in Thread : file'[u] # g
    BY DEF Placed
  <2>1. CASE g = f
    <3>1. g \in Linked(d)'
      BY <1>8, <2>1
    <3>2. \A u \in Thread : file'[u] # g
      BY <1>1, <1>2, <1>3, <2>1 DEF IInv, DirTypeOK
    <3> QED BY <1>1, <1>2, <1>3, <2>1, <3>1, <3>2
  <2>2. CASE g # f
    <3>1. (\E e \in File : g \in Linked(e)') <=> (\E e \in File : g \in Linked(e))
      BY <1>1, <1>2, <1>8, <1>9, <2>2
    <3>2. (\A u \in Thread : file'[u] # g) <=> (\A u \in Thread : file[u] # g)
      BY <1>1, <1>3, <2>2, RootAssumption DEF IInv, DirTypeOK
    <3> QED BY <1>3, <3>1, <3>2 DEF IInv, Placed
  <2> QED BY <2>1, <2>2
<1> QED BY <1>6, <1>7, <1>10, <1>11, <1>12 DEF IInv

LEMMA ThreadStep ==
  ASSUME IInv, NEW t \in Thread, Step(t)
  PROVE  IInv'
BY DescendStep, LookupStep, ReadDirStep, CreateStep, AddStep DEF Step

LEMMA Stutter ==
  ASSUME IInv, UNCHANGED vars
  PROVE  IInv'
<1>1. UNCHANGED <<tree, file, pc, directory>>
  BY DEF vars, locals
<1>2. \A u \in Thread :
        pc'[u] # "idle" => directory'[u] \in File /\ type[directory'[u]] = "DIRECTORY"
  BY <1>1 DEF IInv, Walking
<1> QED BY <1>1, <1>2, Quiet DEF IInv, DirTypeOK

-----------------------------------------------------------------------------
(* The tree *)

LEMMA Start ==
  ASSUME Init
  PROVE  IInv
<1>1. \A d \in File : children[d] = <<>> /\ Len(children[d]) = 0 /\ Linked(d) = {}
  BY DEF Init, Linked
<1>2. DirTypeOK /\ Walking /\ Holding
  BY RootAssumption DEF Init, DirTypeOK, Walking, Holding
<1>3. Once
  BY <1>1, FS_EmptySet DEF Once
<1>4. Apart /\ Placed
  BY <1>1 DEF Init, Apart, Placed
<1> QED BY <1>2, <1>3, <1>4 DEF IInv

LEMMA CallsStep ==
  ASSUME IInv, Next
  PROVE  IInv'
BY ThreadStep, CallStep DEF Next

LEMMA LoadingStep ==
  ASSUME IInv, LoadNext
  PROVE  IInv'
<1>1. CASE WalkEnd
  BY <1>1, Stutter DEF WalkEnd
<1>2. CASE Walk
  <2>1. CASE UNCHANGED vars
    BY <2>1, Stutter
  <2>2. ASSUME NEW request, Call(Boot, request)
        PROVE  IInv'
    BY <2>2, BootAssumption, CallStep
  <2> QED BY <1>2, <2>1, <2>2 DEF Walk
<1>3. CASE LoadStep
  BY <1>3, BootAssumption, ThreadStep DEF LoadStep
<1>4. CASE Loaded
  BY <1>4, Stutter DEF Loaded
<1>5. CASE Threads
  BY <1>5, ThreadStep, CallStep DEF Threads
<1> QED BY <1>1, <1>2, <1>3, <1>4, <1>5 DEF LoadNext

LEMMA InvariantTree ==
  ASSUME IInv
  PROVE  Tree
<1>1. UNION {Linked(d) : d \in File} = {f \in File : \E d \in File : f \in Linked(d)}
  BY DEF Linked, IInv, DirTypeOK
<1>2. {f \in File : \E d \in File : f \in Linked(d)} =
        {f \in File : type[f] # "UNUSED"} \ ({Root} \cup {file[t] : t \in Thread})
  BY DEF IInv, Placed
<1> QED BY <1>1, <1>2 DEF Tree, IInv, Once, Apart

\* Of the calls of any threads, on any paths: none is lost, every file has
\* one place in the tree.
THEOREM TreeAlways == Spec => []Tree
<1>1. Init => IInv
  BY Start
<1>2. IInv /\ [Next]_vars => IInv'
  BY CallsStep, Stutter
<1>3. IInv => Tree
  BY InvariantTree
<1> QED BY <1>1, <1>2, <1>3, PTL DEF Spec

\* The same when the tree is filled from an archive before the threads start.
THEOREM TreeLoaded == LoadSpec => []Tree
<1>1. LoadInit => IInv
  BY Start DEF LoadInit
<1>2. IInv /\ [LoadNext]_<<vars, load>> => IInv'
  BY LoadingStep, Stutter
<1>3. IInv => Tree
  BY InvariantTree
<1> QED BY <1>1, <1>2, <1>3, PTL DEF LoadSpec

-----------------------------------------------------------------------------
(* The names *)

\* The children of the directories stay, with their types and names.
Kept ==
  \A d \in File :
    /\ Len(children[d]) \in Nat /\ Len(children'[d]) \in Nat
    /\ Len(children[d]) <= Len(children'[d])
    /\ \A i \in 1 .. Len(children[d]) :
         /\ children'[d][i] = children[d][i]
         /\ type'[children[d][i]] = type[children[d][i]]
         /\ name'[children[d][i]] = name[children[d][i]]

StableName ==
  \A d \in File, n \in Name, t \in {"REGULAR", "DIRECTORY"} :
    get_file(d, n, t) # None => get_file(d, n, t)' = get_file(d, n, t)

LEMMA KeptStable ==
  ASSUME Kept
  PROVE  StableName
BY FoundStays DEF Kept, StableName

LEMMA UnchangedKept ==
  ASSUME IInv, UNCHANGED tree
  PROVE  Kept
<1>1. \A d \in File : children[d] \in Seq(File)
  BY DEF IInv, DirTypeOK
<1>2. \A d \in File : Len(children[d]) \in Nat
  BY <1>1, Appended
<1> QED BY <1>2 DEF Kept, tree

LEMMA CreateKept ==
  ASSUME IInv, NEW t \in Thread, Create(t)
  PROVE  Kept
<1>1. PICK f \in File :
        /\ type[f] = "UNUSED"
        /\ type' = [type EXCEPT ![f] = Wanted(t)]
        /\ name' = [name EXCEPT ![f] = path[t][1]]
        /\ children' = children
  BY DEF Create
<1>2. SUFFICES ASSUME NEW d \in File
               PROVE  /\ Len(children[d]) \in Nat
                      /\ \A i \in 1 .. Len(children[d]) :
                           /\ type'[children[d][i]] = type[children[d][i]]
                           /\ name'[children[d][i]] = name[children[d][i]]
  BY <1>1 DEF Kept
<1>3. children[d] \in Seq(File)
  BY DEF IInv, DirTypeOK
<1>4. Len(children[d]) \in Nat /\ DOMAIN children[d] = 1 .. Len(children[d])
  BY <1>3
<1>5. ASSUME NEW i \in 1 .. Len(children[d])
      PROVE  children[d][i] \in File /\ children[d][i] # f
  <2>1. children[d][i] \in File /\ children[d][i] \in Linked(d)
    BY <1>3, <1>4 DEF Linked
  <2> QED BY <1>1, <2>1 DEF IInv, Placed
<1> QED BY <1>1, <1>4, <1>5 DEF IInv, DirTypeOK

LEMMA AddKept ==
  ASSUME IInv, NEW t \in Thread, Add(t)
  PROVE  Kept
<1>1. PICK d \in File, f \in File : d = directory[t] /\ f = file[t]
  BY DEF Add, IInv, DirTypeOK, Walking, Holding
<1>2. children' = [children EXCEPT ![d] = Append(@, f)] /\ type' = type /\ name' = name
  BY <1>1 DEF Add, Link
<1>3. \A e \in File : children[e] \in Seq(File)
  BY DEF IInv, DirTypeOK
<1>4. \A e \in File : Len(children[e]) \in Nat
  BY <1>3, Appended
<1>5. /\ children'[d] = Append(children[d], f)
      /\ \A e \in File : e # d => children'[e] = children[e]
  BY <1>2 DEF IInv, DirTypeOK
<1>6. /\ Len(children'[d]) = Len(children[d]) + 1
      /\ \A i \in 1 .. Len(children[d]) : children'[d][i] = children[d][i]
  BY <1>3, <1>5, Appended
<1> QED BY <1>2, <1>4, <1>5, <1>6 DEF Kept

LEMMA StepStable ==
  ASSUME IInv, NEW t \in Thread, Step(t)
  PROVE  StableName
<1>1. UNCHANGED tree \/ Create(t) \/ Add(t)
  BY DEF Step, Descend, Lookup, ReadDir
<1> QED BY <1>1, UnchangedKept, CreateKept, AddKept, KeptStable

LEMMA StayStable ==
  ASSUME IInv, UNCHANGED tree
  PROVE  StableName
BY UnchangedKept, KeptStable

LEMMA CallsStable ==
  ASSUME IInv, [Next]_vars
  PROVE  StableName
<1>1. CASE UNCHANGED vars
  BY <1>1, StayStable DEF vars
<1>2. ASSUME NEW t \in Thread, Step(t)
      PROVE  StableName
  BY <1>2, StepStable
<1>3. ASSUME NEW t \in Thread, NEW request, Call(t, request)
      PROVE  StableName
  BY <1>3, StayStable DEF Call
<1> QED BY <1>1, <1>2, <1>3 DEF Next

LEMMA LoadingStable ==
  ASSUME IInv, [LoadNext]_<<vars, load>>
  PROVE  StableName
<1>1. CASE UNCHANGED vars
  BY <1>1, StayStable DEF vars
<1>2. ASSUME NEW t \in Thread, Step(t)
      PROVE  StableName
  BY <1>2, StepStable
<1>3. ASSUME NEW t \in Thread, NEW request, Call(t, request)
      PROVE  StableName
  BY <1>3, StayStable DEF Call
<1> QED
  BY <1>1, <1>2, <1>3, BootAssumption
  DEF LoadNext, WalkEnd, Walk, LoadStep, Loaded, Threads

\* What a name leads to in a directory never changes.
THEOREM NamesStable == Spec => StableNames
<1>1. Init => IInv
  BY Start
<1>2. IInv /\ [Next]_vars => IInv'
  BY CallsStep, Stutter
<1>3. IInv /\ [Next]_vars => StableName
  BY CallsStable
<1>4. StableName =>
        \A d \in File, n \in Name, t \in {"REGULAR", "DIRECTORY"} :
          get_file(d, n, t) # None => get_file(d, n, t)' = get_file(d, n, t)
  BY DEF StableName
<1> QED BY <1>1, <1>2, <1>3, <1>4, PTL DEF Spec, StableNames

\* Nor does it while the archive is loaded or after.
THEOREM NamesLoaded == LoadSpec => StableNames
<1>1. LoadInit => IInv
  BY Start DEF LoadInit
<1>2. IInv /\ [LoadNext]_<<vars, load>> => IInv'
  BY LoadingStep, Stutter
<1>3. IInv /\ [LoadNext]_<<vars, load>> => StableName
  BY LoadingStable
<1>4. StableName =>
        \A d \in File, n \in Name, t \in {"REGULAR", "DIRECTORY"} :
          get_file(d, n, t) # None => get_file(d, n, t)' = get_file(d, n, t)
  BY DEF StableName
<1> QED BY <1>1, <1>2, <1>3, <1>4, PTL DEF LoadSpec, StableNames
-----------------------------------------------------------------------------
(* The way of a path *)

Ops == {"open", "creat", "mkdir", "readdir"}
Asked == [op : Ops, path : Paths]

\* A way from the root.
Leading(G, at, p) ==
  /\ at[0] = Root
  /\ \A k \in 1 .. Len(p) - 1 :
       /\ at[k - 1] = None => at[k] = None
       /\ at[k - 1] \in File => at[k] = G[<<at[k - 1], p[k]>>]
  /\ \A k \in 0 .. Len(p) - 1 : at[k] \in File \cup {None}

LEMMA PathsAre ==
  ASSUME NEW p \in Paths
  PROVE  /\ Len(p) \in Nat /\ Len(p) >= 1 /\ \A i \in 1 .. Len(p) : p[i] \in Name
         /\ DOMAIN p = 1 .. Len(p)
BY DEF Paths

\* There is a function with the equation of Way.
WayExists(p, G) ==
  \E at : /\ at = [k \in 0 .. Len(p) - 1 |->
                     IF k = 0 THEN Root ELSE
                     IF at[k - 1] = None THEN None ELSE G[<<at[k - 1], p[k]>>]]
          /\ \A k \in 0 .. Len(p) - 1 : at[k] \in File \cup {None}

LEMMA WayBuilt ==
  ASSUME NEW p \in Paths, NEW G \in [File \X Name -> File \cup {None}]
  PROVE  WayExists(p, G)
<1> DEFINE T == File \cup {None}
           N == Len(p) - 1
           F == [z \in (1 .. N) \X T |-> IF z[2] = None THEN None ELSE G[<<z[2], p[z[1]]>>]]
<1>1. N \in Nat /\ \A k \in 1 .. N : p[k] \in Name
  BY PathsAre
<1> HIDE DEF N
<1>2. F \in [(1 .. N) \X T -> T]
  <2> SUFFICES ASSUME NEW z \in (1 .. N) \X T, z[2] # None
               PROVE  G[<<z[2], p[z[1]]>>] \in T
    OBVIOUS
  <2>1. z[1] \in 1 .. N /\ z[2] \in File
    OBVIOUS
  <2> QED BY <2>1, <1>1
<1>3. \A k \in 1 .. N, d \in T : F[<<k, d>>] = IF d = None THEN None ELSE G[<<d, p[k]>>]
  OBVIOUS
<1>4. Root \in T
  BY RootAssumption
<1> HIDE DEF F, T
<1>5. PICK w \in [0 .. N -> T] : w[0] = Root /\ \A k \in 1 .. N : w[k] = F[<<k, w[k - 1]>>]
  <2>1. Recursive(T)
    BY Recursion
  <2> QED BY <2>1, <1>1, <1>2, <1>4, ZenonT(30) DEF Recursive
<1>6. \A k \in 0 .. N :
        w[k] = IF k = 0 THEN Root ELSE
               IF w[k - 1] = None THEN None ELSE G[<<w[k - 1], p[k]>>]
  <2> SUFFICES ASSUME NEW k \in 0 .. N, k # 0
               PROVE  w[k] = IF w[k - 1] = None THEN None ELSE G[<<w[k - 1], p[k]>>]
    BY <1>5
  <2>1. k \in 1 .. N /\ k - 1 \in 0 .. N
    BY <1>1
  <2>2. w[k - 1] \in T
    BY <2>1
  <2> QED BY <2>1, <2>2, <1>3, <1>5
<1>7. w = [k \in 0 .. N |-> IF k = 0 THEN Root ELSE
                            IF w[k - 1] = None THEN None ELSE G[<<w[k - 1], p[k]>>]]
  BY <1>6
<1> QED BY <1>5, <1>7 DEF WayExists, N, T

\* Every place of the way is a directory or missing.
LEMMA WayFrom ==
  ASSUME NEW p \in Paths, NEW G \in [File \X Name -> File \cup {None}], NEW at,
         \A k \in 0 .. Len(p) - 1 :
           /\ k = 0 => at[k] = Root
           /\ k # 0 /\ at[k - 1] = None => at[k] = None
           /\ k # 0 /\ at[k - 1] \in File => at[k] = G[<<at[k - 1], p[k]>>]
  PROVE  \A k \in 0 .. Len(p) - 1 : at[k] \in File \cup {None}
<1> DEFINE S == {k \in Nat : k <= Len(p) - 1 => at[k] \in File \cup {None}}
<1>1. Len(p) \in Nat /\ Len(p) >= 1 /\ \A k \in 1 .. Len(p) : p[k] \in Name
  BY PathsAre
<1>2. 0 \in S
  <2>1. 0 \in 0 .. Len(p) - 1
    BY <1>1
  <2>2. at[0] = Root
    BY <2>1
  <2> QED BY <2>2, RootAssumption
<1>3. ASSUME NEW k \in S PROVE k + 1 \in S
  <2> SUFFICES ASSUME k + 1 <= Len(p) - 1 PROVE at[k + 1] \in File \cup {None}
    OBVIOUS
  <2>1. k \in Nat /\ k <= Len(p) - 1 /\ k + 1 \in 0 .. Len(p) - 1 /\ k + 1 # 0 /\ (k + 1) - 1 = k
    BY <1>1
  <2>2. p[k + 1] \in Name
    BY <1>1, <2>1
  <2>3. CASE at[k] = None
    BY <2>1, <2>3
  <2>4. CASE at[k] \in File
    <3>1. at[k + 1] = G[<<at[k], p[k + 1]>>]
      BY <2>1, <2>4
    <3> QED BY <3>1, <2>2, <2>4
  <2> QED BY <2>1, <2>3, <2>4
<1>4. S = Nat
  <2> HIDE DEF S
  <2>1. S \in SUBSET Nat
    BY DEF S
  <2> QED BY <1>2, <1>3, <2>1, SetInduction
<1> QED BY <1>1, <1>4

\* Way leads from the root from directory to directory.
LEMMA WayIs ==
  ASSUME NEW p \in Paths, NEW G \in [File \X Name -> File \cup {None}]
  PROVE  Leading(G, Way(G, p), p)
<1> DEFINE Eq(at) == at = [k \in 0 .. Len(p) - 1 |->
                             IF k = 0 THEN Root ELSE
                             IF at[k - 1] = None THEN None ELSE G[<<at[k - 1], p[k]>>]]
<1>1. \E at : Eq(at)
  <2>1. WayExists(p, G)
    BY WayBuilt
  <2> QED BY <2>1 DEF WayExists
<1>2. Way(G, p) = CHOOSE at : Eq(at)
  BY DEF Way
<1>3. PICK at : at = Way(G, p) /\ Eq(at)
  BY <1>1, <1>2
<1>4. \A k \in 0 .. Len(p) - 1 :
        at[k] = IF k = 0 THEN Root ELSE
                IF at[k - 1] = None THEN None ELSE G[<<at[k - 1], p[k]>>]
  BY <1>3
<1> HIDE DEF Eq
<1>5. Len(p) \in Nat /\ Len(p) >= 1
  BY PathsAre
<1>6. \A k \in 0 .. Len(p) - 1 :
        /\ k = 0 => at[k] = Root
        /\ k # 0 /\ at[k - 1] = None => at[k] = None
        /\ k # 0 /\ at[k - 1] \in File => at[k] = G[<<at[k - 1], p[k]>>]
  BY <1>4, RootAssumption
<1>7. \A k \in 0 .. Len(p) - 1 : at[k] \in File \cup {None}
  BY <1>6, WayFrom
<1>8. 0 \in 0 .. Len(p) - 1 /\ \A k \in 1 .. Len(p) - 1 : k \in 0 .. Len(p) - 1 /\ k # 0
  BY <1>5
<1> QED BY <1>3, <1>6, <1>7, <1>8 DEF Leading

LEMMA UnderIs ==
  ASSUME DirTypeOK
  PROVE  /\ Under \in [File \X Name -> File \cup {None}]
         /\ \A d \in File, n \in Name : Under[<<d, n>>] = get_file(d, n, "DIRECTORY")
<1>1. \A d \in File, n \in Name : get_file(d, n, "DIRECTORY") \in File \cup {None}
  BY FoundChild
<1> QED BY <1>1 DEF Under

\* The same of the state after a step.
LEMMA UnderNext ==
  ASSUME DirTypeOK'
  PROVE  /\ Under' \in [File \X Name -> File \cup {None}]
         /\ \A d \in File, n \in Name : Under'[<<d, n>>] = get_file(d, n, "DIRECTORY")'
<1>1. ASSUME NEW d \in File, NEW n \in Name
      PROVE  get_file(d, n, "DIRECTORY")' \in File \cup {None}
  <2> DEFINE H == Hits(d, n, "DIRECTORY")'
  <2>1. get_file(d, n, "DIRECTORY")' =
          IF H = {} THEN None ELSE IF Min(H) = 0 THEN None ELSE children'[d][Min(H)]
    BY DEF get_file, SelectInSeq, Hits
  <2>2. children'[d] \in Seq(File)
    BY DEF DirTypeOK
  <2>3. H \in SUBSET (1 .. Len(children'[d])) /\ Len(children'[d]) \in Nat
    BY <2>2 DEF Hits
  <2> HIDE DEF H
  <2>4. CASE H # {}
    <3>1. H \in SUBSET Nat
      BY <2>3
    <3>2. \E m \in H : \A i \in H : m <= i
      BY <2>4, <3>1, Least
    <3>3. Min(H) \in H
      BY <3>2 DEF Min
    <3>4. PICK s \in Seq(File) : s = children'[d]
      BY <2>2
    <3>5. PICK i \in 1 .. Len(s) : i = Min(H)
      BY <2>3, <3>3, <3>4
    <3>6. s[i] \in File
      OBVIOUS
    <3>7. children'[d][Min(H)] \in File
      BY <3>4, <3>5, <3>6
    <3> QED BY <2>1, <3>7
  <2> QED BY <2>1, <2>4
<1> QED BY <1>1 DEF Under

\* What a path leads through stays, if the children of directories stay.
LEMMA WayStays ==
  ASSUME DirTypeOK, DirTypeOK', Kept, NEW p \in Paths
  PROVE  \A k \in 0 .. Len(p) - 1 :
           Way(Under, p)[k] \in File => Way(Under, p)'[k] = Way(Under, p)[k]
<1> DEFINE G == Under
           H == Under'
           at == Way(G, p)
           to == Way(H, p)
           S == {k \in Nat : k <= Len(p) - 1 /\ at[k] \in File => to[k] = at[k]}
<1>1. G \in [File \X Name -> File \cup {None}] /\ H \in [File \X Name -> File \cup {None}]
  BY UnderIs, UnderNext
<1>2. \A d \in File, n \in Name : G[<<d, n>>] \in File => H[<<d, n>>] = G[<<d, n>>]
  <2> SUFFICES ASSUME NEW d \in File, NEW n \in Name, get_file(d, n, "DIRECTORY") # None
               PROVE  get_file(d, n, "DIRECTORY")' = get_file(d, n, "DIRECTORY")
    BY UnderIs, UnderNext, RootAssumption
  <2> QED BY FoundStays DEF Kept
<1>3. Leading(G, at, p) /\ Leading(H, to, p)
  <2> HIDE DEF G, H
  <2> QED BY <1>1, WayIs
<1>4. Way(Under, p)' = to
  OBVIOUS
<1> HIDE DEF G, H, at, to
<1>5. Len(p) \in Nat /\ Len(p) >= 1 /\ \A k \in 1 .. Len(p) : p[k] \in Name
  BY PathsAre
<1>6. 0 \in S
  BY <1>3 DEF Leading
<1>7. ASSUME NEW k \in S PROVE k + 1 \in S
  <2> SUFFICES ASSUME k + 1 <= Len(p) - 1, at[k + 1] \in File PROVE to[k + 1] = at[k + 1]
    OBVIOUS
  <2>1. /\ k \in Nat /\ k <= Len(p) - 1 /\ k + 1 \in 1 .. Len(p) - 1 /\ (k + 1) - 1 = k
        /\ k \in 0 .. Len(p) - 1 /\ p[k + 1] \in Name
    BY <1>5
  <2>2. at[k] \in File \cup {None} /\ (at[k] = None => at[k + 1] = None)
    BY <2>1, <1>3 DEF Leading
  <2>3. at[k] \in File
    BY <2>2, RootAssumption
  <2>4. to[k] = at[k]
    BY <2>1, <2>3
  <2>5. at[k + 1] = G[<<at[k], p[k + 1]>>] /\ to[k + 1] = H[<<to[k], p[k + 1]>>]
    BY <2>1, <2>3, <2>4, <1>3 DEF Leading
  <2> QED BY <2>1, <2>3, <2>4, <2>5, <1>2
<1>8. S = Nat
  <2> HIDE DEF S
  <2>1. S \in SUBSET Nat
    BY DEF S
  <2> QED BY <1>6, <1>7, <2>1, SetInduction
<1>9. \A k \in 0 .. Len(p) - 1 : at[k] \in File => to[k] = at[k]
  BY <1>8
<1> QED BY <1>4, <1>9 DEF at, G

-----------------------------------------------------------------------------
(* Where the threads are, and what their calls have returned *)

\* A thread is where the names it has gone through lead.
OnWay(t) ==
  pc[t] # "idle" =>
    /\ call[t] \in Asked
    /\ path[t] \in Seq(Name)
    /\ \E k \in 0 .. Len(call[t].path) - 1 :
         /\ Len(path[t]) = Len(call[t].path) - k
         /\ \A i \in 1 .. Len(path[t]) : path[t][i] = call[t].path[k + i]
         /\ directory[t] = Way(Under, call[t].path)[k]
    /\ pc[t] # "lookup" => Len(path[t]) = 1 /\ call[t].op \in {"creat", "mkdir"}

\* The file a thread has made is as it was asked for.
Made(t) == pc[t] = "add" => type[file[t]] = Wanted(t) /\ name[file[t]] = path[t][1]

\* The file a call has returned.
Returned(request, f) ==
  f # None =>
    /\ f \in File /\ Leads(request.path) \in File
    /\ f \in Linked(Leads(request.path))
    /\ request.op = "readdir" => f = Head(children[Leads(request.path)])
    /\ request.op # "readdir" =>
         /\ type[f] = IF request.op = "mkdir" THEN "DIRECTORY" ELSE "REGULAR"
         /\ Matches(name[f], Last(request.path))

Answered(t) ==
  /\ opened[t] \in Seq(Asked \X (File \cup {None}))
  /\ \A i \in DOMAIN opened[t] : Returned(opened[t][i][1], opened[t][i][2])

Visible(t) == OnWay(t) /\ Made(t) /\ Answered(t)

VisibleInv ==
  /\ call = [t \in Thread |-> call[t]] /\ path = [t \in Thread |-> path[t]]
  /\ opened = [t \in Thread |-> opened[t]]
  /\ \A t \in Thread : Visible(t)

\* The children a directory has keep their names, types and parent.
LEMMA ChildStays ==
  ASSUME DirTypeOK, DirTypeOK', Kept, NEW d \in File, NEW f \in Linked(d)
  PROVE  /\ f \in Linked(d)' /\ type'[f] = type[f] /\ name'[f] = name[f]
         /\ Head(children[d]) = Head(children[d])'
<1>1. children[d] \in Seq(File) /\ children'[d] \in Seq(File)
  BY DEF DirTypeOK
<1>2. PICK s \in Seq(File), r \in Seq(File) : s = children[d] /\ r = children'[d]
  BY <1>1
<1>3. /\ DOMAIN s = 1 .. Len(s) /\ DOMAIN r = 1 .. Len(r) /\ Len(s) \in Nat /\ Len(r) \in Nat
      /\ Head(s) = s[1] /\ Head(r) = r[1]
  BY <1>1, <1>2
<1>4. PICK i \in 1 .. Len(s) : f = s[i]
  BY <1>2, <1>3 DEF Linked
<1>5. /\ Len(s) <= Len(r)
      /\ \A j \in 1 .. Len(s) : r[j] = s[j] /\ type'[s[j]] = type[s[j]] /\ name'[s[j]] = name[s[j]]
  BY <1>2 DEF Kept
<1>6. i \in 1 .. Len(r) /\ r[i] = f /\ 1 \in 1 .. Len(s)
  BY <1>3, <1>4, <1>5
<1>7. f \in Linked(d)'
  BY <1>2, <1>3, <1>6 DEF Linked
<1>8. type'[f] = type[f] /\ name'[f] = name[f]
  BY <1>4, <1>5
<1>9. Head(s) = Head(r)
  BY <1>3, <1>5, <1>6
<1> QED BY <1>2, <1>7, <1>8, <1>9

LEMMA LeadsStays ==
  ASSUME DirTypeOK, DirTypeOK', Kept, NEW p \in Paths, Leads(p) \in File
  PROVE  Leads(p)' = Leads(p)
<1>1. Len(p) - 1 \in 0 .. Len(p) - 1
  BY PathsAre
<1> QED BY <1>1, WayStays DEF Leads

\* What a call has returned stays.
LEMMA ReturnedStays ==
  ASSUME DirTypeOK, DirTypeOK', Kept, NEW request \in Asked, NEW f, Returned(request, f)
  PROVE  Returned(request, f)'
<1> SUFFICES ASSUME f # None PROVE Returned(request, f)'
  BY DEF Returned
<1>1. request.path \in Paths
  BY DEF Asked
<1>2. PICK d \in File : d = Leads(request.path)
  BY DEF Returned
<1>3. Leads(request.path)' = d
  BY <1>1, <1>2, LeadsStays
<1>4. f \in Linked(d) /\ f \in File
  BY <1>2 DEF Returned
<1>5. /\ f \in Linked(d)' /\ type'[f] = type[f] /\ name'[f] = name[f]
      /\ Head(children[d]) = Head(children[d])'
  BY <1>4, ChildStays
<1> QED BY <1>2, <1>3, <1>4, <1>5 DEF Returned

\* What the calls of a thread have returned stays.
LEMMA AnsweredStays ==
  ASSUME DirTypeOK, DirTypeOK', Kept, NEW u \in Thread, Answered(u), opened'[u] = opened[u]
  PROVE  Answered(u)'
<1>1. \A i \in DOMAIN opened[u] : opened[u][i] \in Asked \X (File \cup {None})
  BY DEF Answered
<1>2. ASSUME NEW i \in DOMAIN opened[u]
      PROVE  Returned(opened[u][i][1], opened[u][i][2])'
  <2>1. PICK r \in Asked, f \in File \cup {None} :
          r = opened[u][i][1] /\ f = opened[u][i][2]
    BY <1>1
  <2>2. Returned(r, f)
    BY <2>1 DEF Answered
  <2>3. Returned(r, f)'
    BY <2>2, ReturnedStays
  <2> QED BY <2>1, <2>3
<1> QED BY <1>2 DEF Answered

\* A thread whose call does not go on.
LEMMA OtherStays ==
  ASSUME IInv, IInv', Kept, NEW u \in Thread, Visible(u), UNCHANGED <<pc[u], call[u], path[u]>>,
         UNCHANGED <<directory[u], file[u], opened[u]>>,
         \A f \in File : type[f] # "UNUSED" => type'[f] = type[f] /\ name'[f] = name[f]
  PROVE  Visible(u)'
<1>1. DirTypeOK /\ DirTypeOK'
  BY DEF IInv
<1>2. OnWay(u)'
  <2> SUFFICES ASSUME pc[u] # "idle" PROVE OnWay(u)'
    BY DEF OnWay
  <2>1. PICK p \in Paths : p = call[u].path
    BY DEF Visible, OnWay, Asked
  <2>2. PICK k \in 0 .. Len(p) - 1 :
          /\ Len(path[u]) = Len(p) - k
          /\ \A i \in 1 .. Len(path[u]) : path[u][i] = p[k + i]
          /\ directory[u] = Way(Under, p)[k]
    BY <2>1 DEF Visible, OnWay
  <2>3. Way(Under, p)'[k] = Way(Under, p)[k]
    BY <1>1, <2>2, WayStays DEF IInv, Walking
  <2>4. directory'[u] = Way(Under, p)'[k]
    BY <2>2, <2>3
  <2>5. Way(Under, call[u].path)' = Way(Under, p)'
    BY <2>1
  <2> QED BY <2>1, <2>2, <2>4, <2>5 DEF Visible, OnWay
<1>3. Made(u)'
  <2> SUFFICES ASSUME pc[u] = "add" PROVE Made(u)'
    BY DEF Made
  <2>1. file[u] \in File /\ type[file[u]] # "UNUSED"
    BY RootAssumption DEF IInv, DirTypeOK, Holding
  <2>2. type'[file[u]] = type[file[u]] /\ name'[file[u]] = name[file[u]]
    BY <2>1
  <2> QED BY <2>2 DEF Visible, Made, Wanted
<1>4. Answered(u)'
  BY <1>1, AnsweredStays DEF Visible
<1> QED BY <1>2, <1>3, <1>4 DEF Visible

\* The steps a thread may take change no file in use.
UsedStay == \A f \in File : type[f] # "UNUSED" => type'[f] = type[f] /\ name'[f] = name[f]

\* The other threads go on where they were.
OthersWait(t) ==
  \A u \in Thread : u # t =>
    /\ UNCHANGED <<pc[u], call[u], path[u]>>
    /\ UNCHANGED <<directory[u], file[u], opened[u]>>

Locals ==
  /\ call = [t \in Thread |-> call[t]] /\ path = [t \in Thread |-> path[t]]
  /\ opened = [t \in Thread |-> opened[t]]

LEMMA VisibleNext ==
  ASSUME IInv, IInv', VisibleInv, Kept, UsedStay, NEW t \in Thread, OthersWait(t), Locals',
         Visible(t)'
  PROVE  VisibleInv'
<1>1. ASSUME NEW u \in Thread, u # t PROVE Visible(u)'
  BY <1>1, OtherStays DEF OthersWait, VisibleInv, UsedStay
<1> QED BY <1>1 DEF VisibleInv, Locals

\* At its last name, a thread is where its path leads to.
LEMMA AtEnd ==
  ASSUME IInv, NEW t \in Thread, Visible(t), pc[t] # "idle", Len(path[t]) = 1
  PROVE  /\ call[t] \in Asked /\ call[t].path \in Paths /\ call[t].op \in Ops
         /\ directory[t] \in File /\ Leads(call[t].path) = directory[t]
         /\ path[t][1] = Last(call[t].path) /\ path[t][1] \in Name
<1>1. call[t] \in Asked /\ path[t] \in Seq(Name)
  BY DEF Visible, OnWay
<1>2. PICK p \in Paths : p = call[t].path
  BY <1>1 DEF Asked
<1>3. PICK k \in 0 .. Len(p) - 1 :
        /\ 1 = Len(p) - k
        /\ \A i \in 1 .. 1 : path[t][i] = p[k + i]
        /\ directory[t] = Way(Under, p)[k]
  BY <1>2 DEF Visible, OnWay
<1>4. k = Len(p) - 1 /\ k + 1 = Len(p) /\ 1 \in 1 .. 1
  BY <1>3, PathsAre
<1>5. path[t][1] = p[Len(p)] /\ directory[t] = Leads(p)
  BY <1>3, <1>4 DEF Leads
<1>6. p[Len(p)] \in Name
  BY PathsAre
<1> QED BY <1>1, <1>2, <1>5, <1>6 DEF Asked, IInv, Walking, Last

\* A call returns something that lies where the path leads to.
LEMMA ReturnVisible ==
  ASSUME IInv, IInv', VisibleInv, Kept, UsedStay, NEW t \in Thread, pc[t] # "idle",
         NEW f \in File \cup {None}, Return(t, f), \A r \in Asked : r = call[t] => Returned(r, f)'
  PROVE  VisibleInv'
<1>1. Locals' /\ OthersWait(t)
  BY DEF Return, VisibleInv, Locals, OthersWait, IInv, DirTypeOK
<1>2. pc'[t] = "idle" /\ opened'[t] = Append(opened[t], <<call[t], f>>)
  BY DEF Return, VisibleInv, IInv, DirTypeOK
<1>3. PICK r \in Asked : r = call[t]
  BY DEF VisibleInv, Visible, OnWay
<1>4. Returned(r, f)'
  BY <1>3
<1>5. PICK s \in Seq(Asked \X (File \cup {None})) : s = opened[t]
  BY DEF VisibleInv, Visible, Answered
<1>6. <<r, f>> \in Asked \X (File \cup {None})
  BY <1>3
<1>7. /\ Append(s, <<r, f>>) \in Seq(Asked \X (File \cup {None}))
      /\ DOMAIN Append(s, <<r, f>>) = 1 .. Len(s) + 1 /\ DOMAIN s = 1 .. Len(s)
      /\ \A i \in 1 .. Len(s) : Append(s, <<r, f>>)[i] = s[i]
      /\ Append(s, <<r, f>>)[Len(s) + 1] = <<r, f>> /\ Len(s) \in Nat
  BY <1>6
<1>8. ASSUME NEW i \in DOMAIN s PROVE Returned(s[i][1], s[i][2])'
  <2>1. PICK q \in Asked, g \in File \cup {None} : q = s[i][1] /\ g = s[i][2]
    OBVIOUS
  <2>2. Returned(q, g)
    BY <1>5, <2>1 DEF VisibleInv, Visible, Answered
  <2>3. Returned(q, g)'
    BY <2>2, ReturnedStays DEF IInv
  <2> QED BY <2>1, <2>3
<1>9. opened'[t] = Append(s, <<r, f>>)
  BY <1>2, <1>3, <1>5
<1>10. ASSUME NEW i \in DOMAIN opened'[t] PROVE Returned(opened[t][i][1], opened[t][i][2])'
  <2>1. CASE i \in 1 .. Len(s)
    <3>1. opened'[t][i] = s[i]
      BY <2>1, <1>7, <1>9
    <3>2. Returned(s[i][1], s[i][2])'
      BY <2>1, <1>7, <1>8
    <3> QED BY <3>1, <3>2
  <2>2. CASE i = Len(s) + 1
    <3>1. opened'[t][i] = <<r, f>>
      BY <2>2, <1>7, <1>9
    <3> QED BY <3>1, <1>4
  <2> QED BY <2>1, <2>2, <1>7, <1>9
<1>11. Answered(t)'
  BY <1>7, <1>9, <1>10 DEF Answered
<1>12. Visible(t)'
  BY <1>2, <1>11 DEF Visible, OnWay, Made
<1> QED BY <1>1, <1>12, VisibleNext

LEMMA QuietKept ==
  ASSUME IInv, UNCHANGED tree
  PROVE  Kept /\ UsedStay
<1>1. Kept
  BY UnchangedKept
<1> QED BY <1>1 DEF UsedStay, tree

LEMMA CallVisible ==
  ASSUME IInv, IInv', VisibleInv, NEW t \in Thread, NEW request \in Asked, Call(t, request)
  PROVE  VisibleInv'
<1>1. Kept /\ UsedStay
  <2>1. UNCHANGED tree
    BY DEF Call
  <2> QED BY <2>1, QuietKept
<1>2. Locals' /\ OthersWait(t)
  <2>1. /\ UNCHANGED <<file, opened>>
        /\ call' = [call EXCEPT ![t] = request] /\ path' = [path EXCEPT ![t] = request.path]
        /\ directory' = [directory EXCEPT ![t] = Root] /\ pc' = [pc EXCEPT ![t] = "lookup"]
    BY DEF Call
  <2>2. Locals'
    BY <2>1 DEF VisibleInv, Locals
  <2>3. ASSUME NEW u \in Thread, u # t
        PROVE  /\ UNCHANGED <<pc[u], call[u], path[u]>>
               /\ UNCHANGED <<directory[u], file[u], opened[u]>>
    <3>1. pc'[u] = pc[u] /\ directory'[u] = directory[u]
      BY <2>1, <2>3 DEF IInv, DirTypeOK
    <3>2. call'[u] = call[u] /\ path'[u] = path[u]
      BY <2>1, <2>3 DEF VisibleInv
    <3> QED BY <2>1, <3>1, <3>2
  <2> QED BY <2>2, <2>3 DEF OthersWait
<1>3. /\ pc'[t] = "lookup" /\ call'[t] = request /\ path'[t] = request.path
      /\ directory'[t] = Root /\ opened' = opened
  BY DEF Call, VisibleInv, IInv, DirTypeOK
<1>4. PICK p \in Paths : p = request.path
  BY DEF Asked
<1>5. Way(Under, p)'[0] = Root
  <2> DEFINE H == Under'
  <2>1. H \in [File \X Name -> File \cup {None}]
    BY UnderNext DEF IInv
  <2>2. Way(Under, p)' = Way(H, p)
    OBVIOUS
  <2> HIDE DEF H
  <2>3. Leading(H, Way(H, p), p)
    BY <2>1, WayIs
  <2> QED BY <2>2, <2>3 DEF Leading
<1>6. OnWay(t)'
  <2>1. p \in Seq(Name) /\ Len(p) = Len(p) - 0 /\ 0 \in 0 .. Len(p) - 1
        /\ \A i \in 1 .. Len(p) : p[i] = p[0 + i]
    BY PathsAre DEF Paths
  <2>2. Way(Under, call[t].path)' = Way(Under, p)'
    BY <1>3, <1>4
  <2> QED BY <1>3, <1>4, <1>5, <2>1, <2>2 DEF OnWay
<1>7. Made(t)'
  BY <1>3 DEF Made
<1>8. Answered(t)'
  BY <1>1, <1>3, AnsweredStays DEF VisibleInv, Visible, IInv
<1>9. Visible(t)'
  BY <1>6, <1>7, <1>8 DEF Visible
<1> QED BY <1>1, <1>2, <1>9, VisibleNext

LEMMA DescendVisible ==
  ASSUME IInv, IInv', VisibleInv, NEW t \in Thread, Descend(t)
  PROVE  VisibleInv'
<1> DEFINE d == get_file(directory[t], Head(path[t]), "DIRECTORY")
<1>1. Kept /\ UsedStay
  <2>1. UNCHANGED tree
    BY DEF Descend
  <2> QED BY <2>1, QuietKept
<1>2. pc[t] = "lookup" /\ Len(path[t]) > 1
  BY DEF Descend
<1>3. CASE d = None
  <2>1. Return(t, None)
    BY <1>3 DEF Descend
  <2>2. \A r \in Asked : r = call[t] => Returned(r, None)'
    BY DEF Returned
  <2> QED BY <1>1, <1>2, <2>1, <2>2, ReturnVisible
<1>4. CASE d # None
  <2>1. directory[t] \in File
    BY <1>2 DEF IInv, Walking
  <2>2. d \in File
    BY <1>4, <2>1, FoundChild DEF IInv
  <2>3. /\ directory' = [directory EXCEPT ![t] = d] /\ path' = [path EXCEPT ![t] = Tail(@)]
        /\ UNCHANGED <<pc, call, file, opened>>
    BY <1>4 DEF Descend
  <2>4. PICK p \in Paths : p = call[t].path
    BY <1>2 DEF VisibleInv, Visible, OnWay, Asked
  <2>5. PICK k \in 0 .. Len(p) - 1 :
          /\ Len(path[t]) = Len(p) - k
          /\ \A i \in 1 .. Len(path[t]) : path[t][i] = p[k + i]
          /\ directory[t] = Way(Under, p)[k]
    BY <1>2, <2>4 DEF VisibleInv, Visible, OnWay
  <2>6. path[t] \in Seq(Name) /\ call[t] \in Asked
    BY <1>2 DEF VisibleInv, Visible, OnWay
  <2>7. PICK q \in Seq(Name) : q = path[t]
    BY <2>6
  <2>8. /\ Tail(q) \in Seq(Name) /\ Len(Tail(q)) = Len(q) - 1 /\ Head(q) = q[1]
        /\ \A i \in 1 .. Len(q) - 1 : Tail(q)[i] = q[i + 1]
        /\ Len(q) \in Nat /\ Len(q) > 1
    BY <1>2, <2>7
  <2>9. /\ k \in Nat /\ Len(p) \in Nat /\ k + 1 \in 0 .. Len(p) - 1 /\ k + 1 \in 1 .. Len(p) - 1
        /\ (k + 1) - 1 = k /\ Len(q) = Len(p) - k /\ p[k + 1] \in Name /\ q[1] = p[k + 1]
    BY <2>5, <2>7, <2>8, PathsAre
  <2>10. Way(Under, p)[k + 1] = d
    <3> DEFINE G == Under
    <3>1. G \in [File \X Name -> File \cup {None}]
      BY UnderIs DEF IInv
    <3>2. G[<<directory[t], p[k + 1]>>] = d
      <4>1. Head(path[t]) = p[k + 1] /\ p[k + 1] \in Name
        BY <2>7, <2>8, <2>9
      <4>2. G[<<directory[t], p[k + 1]>>] = get_file(directory[t], p[k + 1], "DIRECTORY")
        BY <2>1, <4>1, UnderIs DEF IInv
      <4> QED BY <4>1, <4>2
    <3> HIDE DEF G, d
    <3>3. Leading(G, Way(G, p), p)
      BY <3>1, WayIs
    <3>4. Way(G, p)[k] = directory[t]
      BY <2>5 DEF G
    <3>5. Way(G, p)[k + 1] = G[<<Way(G, p)[k], p[k + 1]>>]
      BY <2>1, <2>9, <3>3, <3>4 DEF Leading
    <3> QED BY <3>2, <3>4, <3>5 DEF G
  <2> HIDE DEF d
  <2>11. Way(Under, p)'[k + 1] = d
    BY <1>1, <2>2, <2>9, <2>10, WayStays DEF IInv
  <2>12. directory'[t] = d /\ path'[t] = Tail(q) /\ pc'[t] = "lookup" /\ call'[t] = call[t]
    BY <1>2, <2>3, <2>7 DEF VisibleInv, IInv, DirTypeOK
  <2>13. OnWay(t)'
    <3>1. Len(Tail(q)) = Len(p) - (k + 1)
      BY <2>8, <2>9
    <3>2. ASSUME NEW i \in 1 .. Len(Tail(q)) PROVE Tail(q)[i] = p[(k + 1) + i]
      <4>1. i \in 1 .. Len(q) - 1 /\ i + 1 \in 1 .. Len(q) /\ k + (i + 1) = (k + 1) + i
        BY <2>8, <2>9
      <4> QED BY <4>1, <2>5, <2>7, <2>8
    <3>3. Way(Under, call[t].path)' = Way(Under, p)'
      BY <2>4, <2>12
    <3> QED BY <2>4, <2>6, <2>8, <2>9, <2>11, <2>12, <3>1, <3>2, <3>3 DEF OnWay
  <2>14. Made(t)'
    BY <2>12 DEF Made
  <2>15. Answered(t)'
    BY <1>1, <2>3, AnsweredStays DEF VisibleInv, Visible, IInv
  <2>16. Locals' /\ OthersWait(t)
    BY <2>3 DEF VisibleInv, Locals, OthersWait, IInv, DirTypeOK
  <2>17. Visible(t)'
    BY <2>13, <2>14, <2>15 DEF Visible
  <2> QED BY <1>1, <2>16, <2>17, VisibleNext
<1> QED BY <1>3, <1>4

\* The call goes on to make the file, or returns what get_file has found.
LEMMA LookupVisible ==
  ASSUME IInv, IInv', VisibleInv, NEW t \in Thread, Lookup(t)
  PROVE  VisibleInv'
<1> DEFINE f == get_file(directory[t], path[t][1], Wanted(t))
<1>1. UNCHANGED tree /\ pc[t] = "lookup" /\ Len(path[t]) = 1 /\ call[t].op # "readdir"
  BY DEF Lookup
<1>2. Kept /\ UsedStay
  BY <1>1, QuietKept
<1>3. Visible(t)
  BY DEF VisibleInv
<1>4. /\ call[t] \in Asked /\ call[t].path \in Paths /\ call[t].op \in Ops
      /\ directory[t] \in File /\ Leads(call[t].path) = directory[t]
      /\ path[t][1] = Last(call[t].path)
  BY <1>1, <1>3, AtEnd
<1>5. CASE f = None /\ call[t].op # "open"
  <2>1. pc' = [pc EXCEPT ![t] = "create"] /\ UNCHANGED <<call, path, directory, file, opened>>
    BY <1>5 DEF Lookup, locals
  <2>2. PICK p \in Paths : p = call[t].path
    BY <1>4
  <2>3. PICK k \in 0 .. Len(p) - 1 :
          /\ Len(path[t]) = Len(p) - k
          /\ \A i \in 1 .. Len(path[t]) : path[t][i] = p[k + i]
          /\ directory[t] = Way(Under, p)[k]
    BY <1>1, <1>3, <2>2 DEF Visible, OnWay
  <2>4. Way(Under, p)'[k] = directory[t]
    BY <1>2, <1>4, <2>3, WayStays DEF IInv
  <2>5. Way(Under, call[t].path)' = Way(Under, p)'
    BY <2>1, <2>2
  <2>6. call[t].op \in {"creat", "mkdir"}
    BY <1>1, <1>4, <1>5 DEF Ops
  <2>7. OnWay(t)'
    BY <1>1, <1>3, <2>1, <2>2, <2>3, <2>4, <2>5, <2>6 DEF Visible, OnWay
  <2>8. Made(t)'
    BY <2>1 DEF Made, IInv, DirTypeOK
  <2>9. Answered(t)'
    BY <1>2, <1>3, <2>1, AnsweredStays DEF Visible, IInv
  <2>10. Locals' /\ OthersWait(t)
    BY <2>1 DEF VisibleInv, Locals, OthersWait, IInv, DirTypeOK
  <2>11. Visible(t)'
    BY <2>7, <2>8, <2>9 DEF Visible
  <2> QED BY <1>2, <2>10, <2>11, VisibleNext
<1>6. CASE ~ (f = None /\ call[t].op # "open")
  <2> DEFINE g == IF call[t].op = "mkdir" THEN None ELSE f
  <2>1. Return(t, g)
    BY <1>6 DEF Lookup
  <2>2. ASSUME g # None
        PROVE  /\ g \in Linked(directory[t]) /\ g \in File /\ type[g] = "REGULAR"
               /\ Matches(name[g], path[t][1]) /\ call[t].op # "mkdir"
    <3>1. call[t].op # "mkdir" /\ g = f /\ Wanted(t) = "REGULAR"
      BY <2>2 DEF Wanted
    <3> QED BY <2>2, <3>1, <1>4, FoundChild DEF IInv
  <2>3. PICK x \in File \cup {None} : x = g
    BY <2>2
  <2> HIDE DEF g
  <2>4. \A r \in Asked : r = call[t] => Returned(r, x)
    BY <1>1, <1>4, <2>2, <2>3 DEF Returned
  <2>5. \A r \in Asked : r = call[t] => Returned(r, x)'
    BY <1>2, <2>4, ReturnedStays DEF IInv
  <2>6. Return(t, x)
    BY <2>1, <2>3
  <2> QED BY <1>1, <1>2, <2>5, <2>6, ReturnVisible
<1> QED BY <1>5, <1>6

\* readdir returns the first child.
LEMMA ReadDirVisible ==
  ASSUME IInv, IInv', VisibleInv, NEW t \in Thread, ReadDir(t)
  PROVE  VisibleInv'
<1> DEFINE d == directory[t]
           f == IF children[d] = <<>> THEN None ELSE Head(children[d])
<1>1. /\ UNCHANGED tree /\ pc[t] = "lookup" /\ Len(path[t]) = 1 /\ call[t].op = "readdir"
      /\ Return(t, f)
  BY DEF ReadDir
<1>2. Kept /\ UsedStay
  BY <1>1, QuietKept
<1>3. Visible(t)
  BY DEF VisibleInv
<1>4. d \in File /\ Leads(call[t].path) = d
  BY <1>1, <1>3, AtEnd
<1>5. children[d] \in Seq(File)
  BY <1>4 DEF IInv, DirTypeOK
<1>6. f # None => f = Head(children[d]) /\ f \in File /\ f \in Linked(d)
  <2> SUFFICES ASSUME children[d] # <<>>
               PROVE  Head(children[d]) \in File /\ Head(children[d]) \in Linked(d)
    OBVIOUS
  <2>1. PICK s \in Seq(File) : s = children[d] /\ s # <<>>
    BY <1>5
  <2>2. Head(s) = s[1] /\ 1 \in DOMAIN s /\ s[1] \in File
    BY <2>1
  <2> QED BY <2>1, <2>2 DEF Linked
<1>7. PICK x \in File \cup {None} : x = f
  BY <1>6
<1> HIDE DEF f
<1>8. \A r \in Asked : r = call[t] => Returned(r, x)
  BY <1>1, <1>4, <1>6, <1>7 DEF Returned
<1>9. \A r \in Asked : r = call[t] => Returned(r, x)'
  BY <1>2, <1>8, ReturnedStays DEF IInv
<1>10. Return(t, x)
  BY <1>1, <1>7
<1> QED BY <1>1, <1>2, <1>9, <1>10, ReturnVisible

\* The new file is as it was asked for.
LEMMA CreateVisible ==
  ASSUME IInv, IInv', VisibleInv, NEW t \in Thread, Create(t)
  PROVE  VisibleInv'
<1>1. PICK f \in File :
        /\ type[f] = "UNUSED"
        /\ type' = [type EXCEPT ![f] = Wanted(t)]
        /\ name' = [name EXCEPT ![f] = path[t][1]]
        /\ file' = [file EXCEPT ![t] = f]
  BY DEF Create
<1>2. /\ pc[t] = "create" /\ pc' = [pc EXCEPT ![t] = "add"]
      /\ UNCHANGED <<children, call, path, directory, opened>>
  BY DEF Create
<1>3. Kept
  BY CreateKept
<1>4. UsedStay
  BY <1>1 DEF UsedStay, IInv, DirTypeOK
<1>5. Visible(t)
  BY DEF VisibleInv
<1>6. Made(t)'
  <2>1. file'[t] = f /\ type'[f] = Wanted(t) /\ name'[f] = path[t][1]
    BY <1>1 DEF IInv, DirTypeOK
  <2> QED BY <1>2, <2>1 DEF Made, Wanted
<1>7. OnWay(t)'
  <2>1. /\ call[t] \in Asked /\ path[t] \in Seq(Name) /\ Len(path[t]) = 1
        /\ call[t].op \in {"creat", "mkdir"}
    BY <1>2, <1>5 DEF Visible, OnWay
  <2>2. PICK p \in Paths : p = call[t].path
    BY <2>1 DEF Asked
  <2>3. PICK k \in 0 .. Len(p) - 1 :
          /\ Len(path[t]) = Len(p) - k
          /\ \A i \in 1 .. Len(path[t]) : path[t][i] = p[k + i]
          /\ directory[t] = Way(Under, p)[k]
    BY <1>2, <1>5, <2>2 DEF Visible, OnWay
  <2>4. Way(Under, p)'[k] = directory[t]
    BY <1>2, <1>3, <2>3, WayStays DEF IInv, Walking
  <2>5. Way(Under, call[t].path)' = Way(Under, p)'
    BY <1>2, <2>2
  <2> QED BY <1>2, <2>1, <2>2, <2>3, <2>4, <2>5 DEF OnWay
<1>8. Answered(t)'
  BY <1>2, <1>3, <1>5, AnsweredStays DEF Visible, IInv
<1>9. Locals' /\ OthersWait(t)
  BY <1>1, <1>2 DEF VisibleInv, Locals, OthersWait, IInv, DirTypeOK
<1>10. Visible(t)'
  BY <1>6, <1>7, <1>8 DEF Visible
<1> QED BY <1>3, <1>4, <1>9, <1>10, VisibleNext

\* It is found where the path leads to, now that the call returns it.
LEMMA AddVisible ==
  ASSUME IInv, IInv', VisibleInv, NEW t \in Thread, Add(t)
  PROVE  VisibleInv'
<1>1. PICK d \in File, f \in File : d = directory[t] /\ f = file[t]
  BY DEF Add, IInv, DirTypeOK, Walking, Holding
<1>2. /\ children' = [children EXCEPT ![d] = Append(@, f)] /\ type' = type /\ name' = name
      /\ pc[t] = "add" /\ Return(t, f)
  BY <1>1 DEF Add, Link
<1>3. Kept /\ UsedStay
  BY <1>2, AddKept DEF UsedStay
<1>4. Visible(t)
  BY DEF VisibleInv
<1>5. Len(path[t]) = 1 /\ call[t].op \in {"creat", "mkdir"}
  BY <1>2, <1>4 DEF Visible, OnWay
<1>6. /\ call[t] \in Asked /\ call[t].path \in Paths
      /\ Leads(call[t].path) = d /\ path[t][1] = Last(call[t].path)
  BY <1>1, <1>2, <1>4, <1>5, AtEnd
<1>7. type[f] = Wanted(t) /\ name[f] = path[t][1]
  BY <1>1, <1>2, <1>4 DEF Visible, Made
<1>8. f \in Linked(d)'
  <2>1. children[d] \in Seq(File) /\ children'[d] = Append(children[d], f)
    BY <1>2 DEF IInv, DirTypeOK
  <2>2. {Append(children[d], f)[i] : i \in DOMAIN Append(children[d], f)} =
          {children[d][i] : i \in DOMAIN children[d]} \cup {f}
    BY <2>1, AppendedSet
  <2> QED BY <2>1, <2>2 DEF Linked
<1>9. ASSUME NEW r \in Asked, r = call[t] PROVE Returned(r, f)'
  <2>1. PICK p \in Paths : p = r.path
    BY <1>6, <1>9
  <2>2. Leads(p) = d
    BY <1>6, <1>9, <2>1
  <2>3. Leads(p)' = d
    BY <1>3, <2>2, LeadsStays DEF IInv
  <2>4. Leads(r.path)' = d
    BY <2>1, <2>3
  <2>5. type'[f] = IF r.op = "mkdir" THEN "DIRECTORY" ELSE "REGULAR"
    BY <1>2, <1>7, <1>9 DEF Wanted
  <2>6. Matches(name'[f], Last(r.path))
    BY <1>2, <1>6, <1>7, <1>9 DEF Matches
  <2>7. r.op # "readdir"
    BY <1>5, <1>9
  <2> QED BY <1>8, <2>4, <2>5, <2>6, <2>7 DEF Returned
<1> QED BY <1>2, <1>3, <1>9, ReturnVisible

LEMMA StepVisible ==
  ASSUME IInv, IInv', VisibleInv, NEW t \in Thread, Step(t)
  PROVE  VisibleInv'
BY DescendVisible, LookupVisible, ReadDirVisible, CreateVisible, AddVisible DEF Step

LEMMA StutterVisible ==
  ASSUME IInv, IInv', VisibleInv, UNCHANGED vars
  PROVE  VisibleInv'
<1>1. UNCHANGED <<tree, pc, call, path, directory, file, opened>>
  BY DEF vars, locals
<1>2. Kept /\ UsedStay
  BY <1>1, QuietKept
<1>3. \A u \in Thread : Visible(u)'
  BY <1>1, <1>2, OtherStays DEF VisibleInv, UsedStay
<1> QED BY <1>1, <1>3 DEF VisibleInv

LEMMA StartVisible ==
  ASSUME Init
  PROVE  VisibleInv
<1>1. ASSUME NEW t \in Thread PROVE Visible(t)
  <2>1. pc[t] = "idle" /\ opened[t] = <<>>
    BY DEF Init
  <2>2. <<>> \in Seq(Asked \X (File \cup {None})) /\ DOMAIN <<>> = {}
    OBVIOUS
  <2> QED BY <2>1, <2>2 DEF Visible, OnWay, Made, Answered
<1> QED BY <1>1 DEF VisibleInv, Init

LEMMA VisibleFound ==
  ASSUME VisibleInv
  PROVE  StaysFound
<1> SUFFICES ASSUME NEW t \in Thread, NEW i \in DOMAIN opened[t], opened[t][i][2] # None
             PROVE  LET request == opened[t][i][1] f == opened[t][i][2]
                    IN /\ f \in Linked(Leads(request.path))
                       /\ request.op = "readdir" => f = Head(children[Leads(request.path)])
                       /\ request.op # "readdir" =>
                            /\ type[f] = IF request.op = "mkdir" THEN "DIRECTORY" ELSE "REGULAR"
                            /\ Matches(name[f], Last(request.path))
  BY DEF StaysFound
<1>1. Returned(opened[t][i][1], opened[t][i][2])
  BY DEF VisibleInv, Visible, Answered
<1> QED BY <1>1 DEF Returned

\* What a call has returned stays where its path leads to, whatever the other
\* threads make and open.
THEOREM FoundAlways == Spec => []StaysFound
<1> DEFINE Inv == IInv /\ VisibleInv
<1>1. Init => Inv
  BY Start, StartVisible
<1>2. Inv /\ [Next]_vars => Inv'
  <2> SUFFICES ASSUME IInv, VisibleInv, [Next]_vars PROVE IInv' /\ VisibleInv'
    OBVIOUS
  <2>1. IInv'
    BY CallsStep, Stutter
  <2>2. CASE UNCHANGED vars
    BY <2>1, <2>2, StutterVisible
  <2>3. ASSUME NEW t \in Thread, Step(t) PROVE VisibleInv'
    BY <2>1, <2>3, StepVisible
  <2>4. ASSUME NEW t \in Thread, NEW request \in Requests, Call(t, request) PROVE VisibleInv'
    <3>1. request \in Asked
      BY PathAssumption DEF Requests, Asked, Ops
    <3> QED BY <2>1, <2>4, <3>1, CallVisible
  <2> QED BY <2>1, <2>2, <2>3, <2>4 DEF Next
<1>3. Inv => StaysFound
  BY VisibleFound
<1> QED BY <1>1, <1>2, <1>3, PTL DEF Spec

-----------------------------------------------------------------------------
(* The numbers and addresses of an archive *)

Sixteenth(a) == a \div 16

\* A number, and what is left of it when its last digits are taken away.
Division(r, n) ==
  /\ r[8] = n /\ r[7] = Sixteenth(r[8]) /\ r[6] = Sixteenth(r[7]) /\ r[5] = Sixteenth(r[6])
  /\ r[4] = Sixteenth(r[5]) /\ r[3] = Sixteenth(r[4]) /\ r[2] = Sixteenth(r[3])
  /\ r[1] = Sixteenth(r[2])

LEMMA SixteenthIs ==
  ASSUME NEW a \in Nat, NEW b \in Nat, a < 16 * b
  PROVE  Sixteenth(a) \in Nat /\ Sixteenth(a) < b /\ a % 16 \in 0 .. 15
BY DEF Sixteenth

\* Another digit is read.
LEMMA DigitRead ==
  ASSUME NEW a \in Nat, NEW v, v = Sixteenth(a)
  PROVE  16 * v + (a % 16) = a
<1>1. a = 16 * (a \div 16) + (a % 16)
  OBVIOUS
<1> QED BY <1>1 DEF Sixteenth

Values(a8, a7, a6, a5, a4, a3, a2, a1) ==
  \E w : /\ w = [i \in 1 .. 8 |-> w[i]]
        /\ w[8] = a8 /\ w[7] = a7 /\ w[6] = a6 /\ w[5] = a5
        /\ w[4] = a4 /\ w[3] = a3 /\ w[2] = a2 /\ w[1] = a1

LEMMA Eight ==
  ASSUME NEW a1, NEW a2, NEW a3, NEW a4, NEW a5, NEW a6, NEW a7, NEW a8
  PROVE  Values(a8, a7, a6, a5, a4, a3, a2, a1)
<1> DEFINE w == [i \in 1 .. 8 |-> IF i = 8 THEN a8 ELSE IF i = 7 THEN a7 ELSE
                                  IF i = 6 THEN a6 ELSE IF i = 5 THEN a5 ELSE
                                  IF i = 4 THEN a4 ELSE IF i = 3 THEN a3 ELSE
                                  IF i = 2 THEN a2 ELSE a1]
<1>1. w[8] = a8 /\ w[7] = a7 /\ w[6] = a6 /\ w[5] = a5
  OBVIOUS
<1>2. w[4] = a4 /\ w[3] = a3 /\ w[2] = a2 /\ w[1] = a1
  OBVIOUS
<1>3. w = [i \in 1 .. 8 |-> w[i]]
  OBVIOUS
<1> HIDE DEF w
<1> QED BY <1>1, <1>2, <1>3 DEF Values

LEMMA OneOfEight ==
  ASSUME NEW i \in 1 .. 8
  PROVE  i = 1 \/ i = 2 \/ i = 3 \/ i = 4 \/ i = 5 \/ i = 6 \/ i = 7 \/ i = 8
OBVIOUS

\* The digits hex writes.
LEMMA HexIs ==
  ASSUME NEW n \in Nat
  PROVE  \E r : /\ Division(r, n)
                /\ hex(n) = [i \in 1 .. 8 |-> (r[i] % 16) + (IF r[i] % 16 < 10 THEN 48 ELSE 55)]
<1> DEFINE Eq(r) == r = [i \in 1 .. 8 |-> IF i = 8 THEN n ELSE Sixteenth(r[i + 1])]
<1>1. \E r : Eq(r)
  <2>1. PICK w : /\ w = [i \in 1 .. 8 |-> w[i]]
                 /\ w[8] = n /\ w[7] = Sixteenth(w[8]) /\ w[6] = Sixteenth(w[7])
                 /\ w[5] = Sixteenth(w[6]) /\ w[4] = Sixteenth(w[5]) /\ w[3] = Sixteenth(w[4])
                 /\ w[2] = Sixteenth(w[3]) /\ w[1] = Sixteenth(w[2])
    <3> DEFINE q7 == Sixteenth(n)
               q6 == Sixteenth(q7)
               q5 == Sixteenth(q6)
               q4 == Sixteenth(q5)
               q3 == Sixteenth(q4)
               q2 == Sixteenth(q3)
               q1 == Sixteenth(q2)
    <3>1. Values(n, q7, q6, q5, q4, q3, q2, q1)
      <4> HIDE DEF q7, q6, q5, q4, q3, q2, q1
      <4> QED BY Eight
    <3> QED BY <3>1 DEF Values
  <2>2. ASSUME NEW i \in 1 .. 8, i # 8 PROVE w[i] = Sixteenth(w[i + 1])
    <3>1. 1 + 1 = 2 /\ 2 + 1 = 3 /\ 3 + 1 = 4 /\ 4 + 1 = 5 /\ 5 + 1 = 6 /\ 6 + 1 = 7 /\ 7 + 1 = 8
      OBVIOUS
    <3> QED BY <2>1, <2>2, <3>1, OneOfEight
  <2>3. w = [i \in 1 .. 8 |-> IF i = 8 THEN n ELSE Sixteenth(w[i + 1])]
    BY <2>1, <2>2
  <2> QED BY <2>3
<1>2. PICK r : /\ Eq(r)
               /\ hex(n) = [i \in 1 .. 8 |-> (r[i] % 16) + (IF r[i] % 16 < 10 THEN 48 ELSE 55)]
  BY <1>1 DEF hex, CPIO_ARRAY_LENGTH, Sixteenth
<1>3. \A i \in 1 .. 8 : r[i] = IF i = 8 THEN n ELSE Sixteenth(r[i + 1])
  BY <1>2
<1> HIDE DEF Eq
<1>4. Division(r, n)
  BY <1>3 DEF Division
<1> QED BY <1>2, <1>4

\* What convert_from_hex makes of eight digits.
LEMMA ConvertIs ==
  ASSUME NEW s \in [1 .. 8 -> Int], Len(s) = 8
  PROVE  \E v : /\ convert_from_hex(s) = v[8] /\ v[0] = 0
                /\ \A k \in 1 .. 8 :
                     v[k] = 16 * v[k - 1] + (IF s[k] \in 65 .. 70 THEN 10 + s[k] - 65 ELSE s[k] - 48)
<1> DEFINE D(k) == IF s[k] \in 65 .. 70 THEN 10 + s[k] - 65 ELSE s[k] - 48
           Eq(v) == v = [k \in 0 .. 8 |-> IF k = 0 THEN 0 ELSE 16 * v[k - 1] + D(k)]
           F == [z \in (1 .. 8) \X Int |-> 16 * z[2] + D(z[1])]
<1>1. \A k \in 1 .. 8 : D(k) \in Int
  <2> SUFFICES ASSUME NEW k \in 1 .. 8 PROVE D(k) \in Int
    OBVIOUS
  <2>1. PICK c \in Int : c = s[k]
    OBVIOUS
  <2>2. 10 + c - 65 \in Int /\ c - 48 \in Int
    OBVIOUS
  <2> QED BY <2>1, <2>2
<1>2. convert_from_hex(s) = (CHOOSE v : Eq(v))[8]
  BY DEF convert_from_hex
<1> HIDE DEF D
<1>3. F \in [(1 .. 8) \X Int -> Int]
  <2> SUFFICES ASSUME NEW z \in (1 .. 8) \X Int PROVE 16 * z[2] + D(z[1]) \in Int
    OBVIOUS
  <2>1. z[1] \in 1 .. 8 /\ z[2] \in Int
    OBVIOUS
  <2>2. D(z[1]) \in Int
    BY <1>1, <2>1
  <2> QED BY <2>1, <2>2
<1>4. \A k \in 1 .. 8, x \in Int : F[<<k, x>>] = 16 * x + D(k)
  OBVIOUS
<1> HIDE DEF F
<1>5. PICK w \in [0 .. 8 -> Int] : w[0] = 0 /\ \A k \in 1 .. 8 : w[k] = F[<<k, w[k - 1]>>]
  <2>1. Recursive(Int)
    BY Recursion
  <2>2. PICK K \in Nat, h \in Int : K = 8 /\ h = 0
    OBVIOUS
  <2>3. \A G \in [(1 .. K) \X Int -> Int] :
          \E w \in [0 .. K -> Int] : w[0] = h /\ \A k \in 1 .. K : w[k] = G[<<k, w[k - 1]>>]
    BY <2>1, ZenonT(30) DEF Recursive
  <2>4. F \in [(1 .. K) \X Int -> Int]
    BY <2>2, <1>3, Zenon
  <2>5. PICK w \in [0 .. K -> Int] : w[0] = h /\ \A k \in 1 .. K : w[k] = F[<<k, w[k - 1]>>]
    BY <2>3, <2>4, Zenon
  <2> QED BY <2>2, <2>5, Zenon
<1>6. \A k \in 1 .. 8 : w[k] = 16 * w[k - 1] + D(k)
  <2> SUFFICES ASSUME NEW k \in 1 .. 8 PROVE w[k] = 16 * w[k - 1] + D(k)
    OBVIOUS
  <2>1. k - 1 \in 0 .. 8 /\ w[k - 1] \in Int
    OBVIOUS
  <2> QED BY <2>1, <1>4, <1>5
<1>7. Eq(w)
  <2>1. \A k \in 0 .. 8 : k # 0 => k \in 1 .. 8
    OBVIOUS
  <2>2. \A k \in 0 .. 8 : w[k] = IF k = 0 THEN 0 ELSE 16 * w[k - 1] + D(k)
    BY <2>1, <1>5, <1>6
  <2>3. w = [k \in 0 .. 8 |-> w[k]]
    OBVIOUS
  <2> QED BY <2>2, <2>3
<1>8. PICK v : Eq(v) /\ convert_from_hex(s) = v[8]
  BY <1>2, <1>7
<1>9. \A k \in 0 .. 8 : v[k] = IF k = 0 THEN 0 ELSE 16 * v[k - 1] + D(k)
  BY <1>8
<1>10. v[0] = 0 /\ \A k \in 1 .. 8 : v[k] = 16 * v[k - 1] + D(k)
  BY <1>9
<1> HIDE DEF Eq
<1> QED BY <1>8, <1>10 DEF D

\* The number that is read is the number that was written.
LEMMA HexBack ==
  ASSUME NEW n \in 0 .. MaxSize
  PROVE  convert_from_hex(hex(n)) = n
<1>0. MB \in Nat /\ MB > 0
  BY DEF MB
<1>1. n \in Nat /\ n < 16 * (128 * MB)
  <2>1. MaxSize \in Nat /\ MaxSize < 16 * (128 * MB)
    BY <1>0 DEF MaxSize
  <2>2. PICK a \in Nat, b \in Nat : a = MaxSize /\ b = 16 * (128 * MB) /\ a < b
    BY <2>1, <1>0
  <2> QED BY <2>2
<1>2. PICK r : /\ Division(r, n)
               /\ hex(n) = [i \in 1 .. 8 |-> (r[i] % 16) + (IF r[i] % 16 < 10 THEN 48 ELSE 55)]
  BY <1>1, HexIs
<1>3. r[8] = n /\ r[8] \in Nat /\ r[8] < 16 * (128 * MB)
  BY <1>1, <1>2 DEF Division
<1>4. r[7] = Sixteenth(r[8]) /\ r[7] \in Nat /\ r[7] < 128 * MB /\ r[8] % 16 \in 0 .. 15
  <2>1. r[7] = Sixteenth(r[8])
    BY <1>2 DEF Division
  <2>2. PICK a \in Nat, b \in Nat : a = r[8] /\ b = 128 * MB /\ a < 16 * b
    BY <1>0, <1>3
  <2>3. Sixteenth(a) \in Nat /\ Sixteenth(a) < b /\ a % 16 \in 0 .. 15
    BY <2>2, SixteenthIs
  <2> QED BY <2>1, <2>2, <2>3
<1>5. r[6] = Sixteenth(r[7]) /\ r[6] \in Nat /\ r[6] < 8 * MB /\ r[7] % 16 \in 0 .. 15
  <2>1. r[6] = Sixteenth(r[7])
    BY <1>2 DEF Division
  <2>2. PICK a \in Nat, b \in Nat : a = r[7] /\ b = 8 * MB /\ a < 16 * b
    BY <1>0, <1>4
  <2>3. Sixteenth(a) \in Nat /\ Sixteenth(a) < b /\ a % 16 \in 0 .. 15
    BY <2>2, SixteenthIs
  <2> QED BY <2>1, <2>2, <2>3
<1>6. r[5] = Sixteenth(r[6]) /\ r[5] \in Nat /\ r[5] < 524288 /\ r[6] % 16 \in 0 .. 15
  <2>1. r[5] = Sixteenth(r[6])
    BY <1>2 DEF Division
  <2>2. PICK a \in Nat, b \in Nat : a = r[6] /\ b = 524288 /\ a < 16 * b
    BY <1>5 DEF MB
  <2>3. Sixteenth(a) \in Nat /\ Sixteenth(a) < b /\ a % 16 \in 0 .. 15
    BY <2>2, SixteenthIs
  <2> QED BY <2>1, <2>2, <2>3
<1>7. r[4] = Sixteenth(r[5]) /\ r[4] \in Nat /\ r[4] < 32768 /\ r[5] % 16 \in 0 .. 15
  <2>1. r[4] = Sixteenth(r[5])
    BY <1>2 DEF Division
  <2>2. PICK a \in Nat, b \in Nat : a = r[5] /\ b = 32768 /\ a < 16 * b
    BY <1>6
  <2>3. Sixteenth(a) \in Nat /\ Sixteenth(a) < b /\ a % 16 \in 0 .. 15
    BY <2>2, SixteenthIs
  <2> QED BY <2>1, <2>2, <2>3
<1>8. r[3] = Sixteenth(r[4]) /\ r[3] \in Nat /\ r[3] < 2048 /\ r[4] % 16 \in 0 .. 15
  <2>1. r[3] = Sixteenth(r[4])
    BY <1>2 DEF Division
  <2>2. PICK a \in Nat, b \in Nat : a = r[4] /\ b = 2048 /\ a < 16 * b
    BY <1>7
  <2>3. Sixteenth(a) \in Nat /\ Sixteenth(a) < b /\ a % 16 \in 0 .. 15
    BY <2>2, SixteenthIs
  <2> QED BY <2>1, <2>2, <2>3
<1>9. r[2] = Sixteenth(r[3]) /\ r[2] \in Nat /\ r[2] < 128 /\ r[3] % 16 \in 0 .. 15
  <2>1. r[2] = Sixteenth(r[3])
    BY <1>2 DEF Division
  <2>2. PICK a \in Nat, b \in Nat : a = r[3] /\ b = 128 /\ a < 16 * b
    BY <1>8
  <2>3. Sixteenth(a) \in Nat /\ Sixteenth(a) < b /\ a % 16 \in 0 .. 15
    BY <2>2, SixteenthIs
  <2> QED BY <2>1, <2>2, <2>3
<1>10. r[1] = Sixteenth(r[2]) /\ r[1] \in Nat /\ r[1] < 8 /\ r[2] % 16 \in 0 .. 15
  <2>1. r[1] = Sixteenth(r[2])
    BY <1>2 DEF Division
  <2>2. PICK a \in Nat, b \in Nat : a = r[2] /\ b = 8 /\ a < 16 * b
    BY <1>9
  <2>3. Sixteenth(a) \in Nat /\ Sixteenth(a) < b /\ a % 16 \in 0 .. 15
    BY <2>2, SixteenthIs
  <2> QED BY <2>1, <2>2, <2>3
<1>11. r[1] % 16 = r[1]
  BY <1>10
<1>12. \A k \in 1 .. 8 : r[k] % 16 \in 0 .. 15
  <2>1. r[1] % 16 \in 0 .. 15
    BY <1>10, <1>11
  <2> QED BY <2>1, OneOfEight, <1>4, <1>5, <1>6, <1>7, <1>8, <1>9, <1>10
<1> DEFINE s == hex(n)
           d == [k \in 1 .. 8 |-> r[k] % 16]
<1>13. d \in [1 .. 8 -> 0 .. 15] /\ \A k \in 1 .. 8 : d[k] = r[k] % 16
  BY <1>12
<1>14. s = [k \in 1 .. 8 |-> d[k] + (IF d[k] < 10 THEN 48 ELSE 55)]
  BY <1>2
<1> HIDE DEF d, s
<1>15. s \in [1 .. 8 -> Int] /\ Len(s) = 8 /\ \A k \in 1 .. 8 : s[k] = d[k] + (IF d[k] < 10 THEN 48 ELSE 55)
  BY <1>13, <1>14
<1>16. \A k \in 1 .. 8 : (IF s[k] \in 65 .. 70 THEN 10 + s[k] - 65 ELSE s[k] - 48) = d[k]
  BY <1>13, <1>15
<1>17. PICK v : /\ convert_from_hex(s) = v[8] /\ v[0] = 0
                /\ \A k \in 1 .. 8 :
                     v[k] = 16 * v[k - 1] + (IF s[k] \in 65 .. 70 THEN 10 + s[k] - 65 ELSE s[k] - 48)
  BY <1>15, ConvertIs
<1>18. \A k \in 1 .. 8 : v[k] = 16 * v[k - 1] + d[k]
  BY <1>16, <1>17
<1>19. v[1] = r[1]
  <2>1. v[1] = 16 * v[0] + d[1] /\ v[0] = 0
    <3>1. 1 \in 1 .. 8 /\ 1 - 1 = 0
      OBVIOUS
    <3> QED BY <3>1, <1>17, <1>18, Zenon
  <2>2. d[1] = r[1] /\ r[1] \in Nat
    BY <1>10, <1>11, <1>13
  <2> QED BY <2>1, <2>2
<1>20. v[2] = r[2]
  <2>1. v[2] = 16 * v[1] + d[2]
    BY <1>18
  <2>2. d[2] = r[2] % 16 /\ r[2] \in Nat /\ v[1] = Sixteenth(r[2])
    BY <1>9, <1>10, <1>19, <1>13
  <2> QED BY <2>1, <2>2, DigitRead
<1>21. v[3] = r[3]
  <2>1. v[3] = 16 * v[2] + d[3]
    BY <1>18
  <2>2. d[3] = r[3] % 16 /\ r[3] \in Nat /\ v[2] = Sixteenth(r[3])
    BY <1>8, <1>9, <1>20, <1>13
  <2> QED BY <2>1, <2>2, DigitRead
<1>22. v[4] = r[4]
  <2>1. v[4] = 16 * v[3] + d[4]
    BY <1>18
  <2>2. d[4] = r[4] % 16 /\ r[4] \in Nat /\ v[3] = Sixteenth(r[4])
    BY <1>7, <1>8, <1>21, <1>13
  <2> QED BY <2>1, <2>2, DigitRead
<1>23. v[5] = r[5]
  <2>1. v[5] = 16 * v[4] + d[5]
    BY <1>18
  <2>2. d[5] = r[5] % 16 /\ r[5] \in Nat /\ v[4] = Sixteenth(r[5])
    BY <1>6, <1>7, <1>22, <1>13
  <2> QED BY <2>1, <2>2, DigitRead
<1>24. v[6] = r[6]
  <2>1. v[6] = 16 * v[5] + d[6]
    BY <1>18
  <2>2. d[6] = r[6] % 16 /\ r[6] \in Nat /\ v[5] = Sixteenth(r[6])
    BY <1>5, <1>6, <1>23, <1>13
  <2> QED BY <2>1, <2>2, DigitRead
<1>25. v[7] = r[7]
  <2>1. v[7] = 16 * v[6] + d[7]
    BY <1>18
  <2>2. d[7] = r[7] % 16 /\ r[7] \in Nat /\ v[6] = Sixteenth(r[7])
    BY <1>4, <1>5, <1>24, <1>13
  <2> QED BY <2>1, <2>2, DigitRead
<1>26. v[8] = r[8]
  <2>1. v[8] = 16 * v[7] + d[8]
    BY <1>18
  <2>2. d[8] = r[8] % 16 /\ r[8] \in Nat /\ v[7] = Sixteenth(r[8])
    BY <1>3, <1>4, <1>25, <1>13
  <2> QED BY <2>1, <2>2, DigitRead
<1>27. r[8] = n
  BY <1>2 DEF Division
<1>28. convert_from_hex(s) = n
  BY <1>17, <1>26, <1>27, Zenon
<1> QED BY <1>28 DEF s

-----------------------------------------------------------------------------
(* Where the archive has its entries *)

\* An entry of the archive.
LEMMA EntryIs ==
  ASSUME archive \in Archives
  PROVE  /\ Len(archive) \in Nat /\ DOMAIN archive = 1 .. Len(archive)
         /\ archive = <<>> => Len(archive) = 0
         /\ archive # <<>> => Len(archive) > 0
         /\ \A i \in 1 .. Len(archive) :
              /\ archive[i].path \in Paths
              /\ archive[i].kind \in {"directory", "regular", "link"}
              /\ archive[i].namesize \in 0 .. MaxSize /\ archive[i].filesize \in 0 .. MaxSize
<1> DEFINE E == [path : Paths, kind : {"directory", "regular", "link"},
                 namesize : 0 .. MaxSize, filesize : 0 .. MaxSize]
<1>1. PICK s \in Seq(E) : s = archive
  BY ArchiveAssumption
<1>2. /\ Len(s) \in Nat /\ DOMAIN s = 1 .. Len(s) /\ \A i \in 1 .. Len(s) : s[i] \in E
      /\ s = <<>> => Len(s) = 0
      /\ s # <<>> => Len(s) > 0
  <2> HIDE DEF E
  <2> QED OBVIOUS
<1>3. ASSUME NEW e \in E
      PROVE  /\ e.path \in Paths /\ e.kind \in {"directory", "regular", "link"}
             /\ e.namesize \in 0 .. MaxSize /\ e.filesize \in 0 .. MaxSize
  OBVIOUS
<1> HIDE DEF E
<1> QED BY <1>1, <1>2, <1>3

LEMMA LengthIs ==
  ASSUME archive \in Archives
  PROVE  \E n \in Nat : n = Len(archive) /\ DOMAIN archive = 1 .. n
<1>1. Len(archive) \in Nat /\ DOMAIN archive = 1 .. Len(archive)
  BY EntryIs
<1> QED BY <1>1, Zenon

LEMMA SizesAre ==
  ASSUME NEW n \in 0 .. MaxSize
  PROVE  n \in Nat
<1>1. MB \in Nat
  BY DEF MB
<1>2. PICK m \in Int : m = MaxSize
  BY <1>1 DEF MaxSize
<1> QED BY <1>2

Padded(a) ==
  /\ align(a, 4) \in Nat /\ a <= align(a, 4) /\ align(align(a, 4), 4) = align(a, 4)
  /\ align(a, 512) \in Nat /\ a <= align(a, 512)

LEMMA Aligned ==
  ASSUME NEW a \in Nat
  PROVE  Padded(a)
<1>1. PICK q \in Nat : q = (a + 3) \div 4 /\ a <= 4 * q
  OBVIOUS
<1>2. align(a, 4) = q * 4
  BY <1>1 DEF align
<1>3. ((q * 4) + 3) \div 4 = q
  BY <1>1
<1>4. align(q * 4, 4) = q * 4
  BY <1>1, <1>3 DEF align
<1>5. PICK r \in Nat : r = (a + 511) \div 512 /\ a <= 512 * r
  OBVIOUS
<1>6. align(a, 512) = r * 512
  BY <1>5 DEF align
<1> QED BY <1>1, <1>2, <1>3, <1>4, <1>5, <1>6 DEF Padded

\* The end of an entry, where its header is at a.
Ending(i, a) == align(After(a, archive[i].namesize) + archive[i].filesize, 4)

LEMMA EndingIs ==
  ASSUME archive \in Archives, NEW i \in 1 .. Len(archive), NEW a \in Nat
  PROVE  /\ After(a, archive[i].namesize) \in Nat /\ Ending(i, a) \in Nat
         /\ a + 110 <= After(a, archive[i].namesize) /\ a < Ending(i, a)
         /\ align(Ending(i, a), 4) = Ending(i, a)
<1>1. PICK n \in Nat, m \in Nat : n = archive[i].namesize /\ m = archive[i].filesize
  BY EntryIs, SizesAre
<1>2. PICK b \in Nat : b = align(a + 110 + n, 4) /\ a + 110 <= b
  <2>1. a + 110 + n \in Nat /\ a + 110 <= a + 110 + n
    OBVIOUS
  <2>2. PICK c \in Nat : c = a + 110 + n /\ a + 110 <= c
    BY <2>1
  <2>3. align(c, 4) \in Nat /\ c <= align(c, 4)
    BY Aligned, ZenonT(30) DEF Padded
  <2> QED BY <2>2, <2>3
<1>3. After(a, archive[i].namesize) = b
  BY <1>1, <1>2 DEF After, HeaderSize, CPIO_ALIGNMENT
<1>4. PICK c \in Nat : c = b + m /\ a < c
  BY <1>2
<1>5. PICK d \in Nat : d = align(c, 4) /\ c <= d /\ align(d, 4) = d
  <2>1. /\ align(c, 4) \in Nat /\ c <= align(c, 4)
        /\ align(align(c, 4), 4) = align(c, 4)
    <3>1. Padded(c)
      BY Aligned
    <3> QED BY <3>1 DEF Padded
  <2> QED BY <2>1
<1>6. Ending(i, a) = d
  BY <1>1, <1>3, <1>4, <1>5 DEF Ending
<1> QED BY <1>2, <1>3, <1>4, <1>5, <1>6

\* There is a function with the equation of Headers.
HeadersEq(at) ==
  at = [i \in 1 .. Len(archive) + 1 |-> IF i = 1 THEN 0 ELSE Ending(i - 1, at[i - 1])]

LEMMA HeadersBuilt ==
  ASSUME archive \in Archives
  PROVE  \E at : HeadersEq(at)
<1> DEFINE N == Len(archive)
           F == [z \in (1 .. N) \X Nat |-> Ending(z[1], z[2])]
<1>1. N \in Nat
  BY EntryIs
<1>2. F \in [(1 .. N) \X Nat -> Nat]
  <2> SUFFICES ASSUME NEW z \in (1 .. N) \X Nat PROVE Ending(z[1], z[2]) \in Nat
    OBVIOUS
  <2>1. PICK i \in 1 .. N, a \in Nat : i = z[1] /\ a = z[2]
    OBVIOUS
  <2>2. Ending(i, a) \in Nat
    BY EndingIs
  <2> QED BY <2>1, <2>2
<1>3. \A k \in 1 .. N, a \in Nat : F[<<k, a>>] = Ending(k, a)
  OBVIOUS
<1> HIDE DEF F, N
<1>4. PICK w \in [0 .. N -> Nat] : w[0] = 0 /\ \A k \in 1 .. N : w[k] = F[<<k, w[k - 1]>>]
  <2>1. Recursive(Nat) /\ 0 \in Nat
    BY Recursion
  <2> QED BY <2>1, <1>1, <1>2, ZenonT(30) DEF Recursive
<1>5. \A k \in 1 .. N : w[k] = Ending(k, w[k - 1])
  <2> SUFFICES ASSUME NEW k \in 1 .. N PROVE w[k] = Ending(k, w[k - 1])
    OBVIOUS
  <2>1. w[k - 1] \in Nat
    BY <1>1
  <2> QED BY <2>1, <1>3, <1>4
<1> DEFINE at == [i \in 1 .. N + 1 |-> w[i - 1]]
<1>6. \A i \in 1 .. N + 1 : at[i] = w[i - 1]
  OBVIOUS
<1>7. at = [i \in 1 .. N + 1 |-> at[i]]
  OBVIOUS
<1> HIDE DEF at
<1>8. ASSUME NEW i \in 1 .. N + 1
      PROVE  at[i] = IF i = 1 THEN 0 ELSE Ending(i - 1, at[i - 1])
  <2>1. CASE i = 1
    <3>1. 1 \in 1 .. N + 1 /\ 1 - 1 = 0
      BY <1>1
    <3>2. at[1] = w[0]
      BY <3>1, <1>6
    <3> QED BY <2>1, <3>2, <1>4
  <2>2. CASE i # 1
    <3>1. PICK k \in 1 .. N : k = i - 1
      BY <2>2, <1>1
    <3>2. k \in 1 .. N + 1 /\ k - 1 = (i - 1) - 1
      BY <3>1, <1>1
    <3>3. at[k] = w[k - 1] /\ at[i] = w[k]
      BY <3>1, <3>2, <1>6
    <3> QED BY <2>2, <3>1, <3>3, <1>5
  <2> QED BY <2>1, <2>2
<1>9. at = [i \in 1 .. N + 1 |-> IF i = 1 THEN 0 ELSE Ending(i - 1, at[i - 1])]
  BY <1>7, <1>8
<1>10. HeadersEq(at)
  BY <1>9 DEF HeadersEq, N
<1> QED BY <1>10

\* The addresses of the headers, and of the trailer.
LEMMA HeadersAre ==
  ASSUME archive \in Archives
  PROVE  /\ HeaderAt(1) = 0
         /\ \A i \in 1 .. Len(archive) :
              /\ HeaderAt(i + 1) = align(DataAt(i) + archive[i].filesize, 4)
              /\ HeaderAt(i + 1) = Ending(i, HeaderAt(i))
<1>1. Headers(archive) = CHOOSE at : HeadersEq(at)
  BY DEF Headers, HeadersEq, Ending, CPIO_ALIGNMENT
<1>2. PICK at : at = Headers(archive) /\ HeadersEq(at)
  BY <1>1, HeadersBuilt
<1>3. Len(archive) \in Nat
  BY EntryIs
<1>4. \A i \in 1 .. Len(archive) + 1 :
        at[i] = IF i = 1 THEN 0 ELSE Ending(i - 1, at[i - 1])
  BY <1>2 DEF HeadersEq
<1>5. at[1] = 0
  BY <1>3, <1>4
<1>6. ASSUME NEW i \in 1 .. Len(archive) PROVE at[i + 1] = Ending(i, at[i])
  <2>1. i + 1 \in 1 .. Len(archive) + 1 /\ i + 1 # 1 /\ (i + 1) - 1 = i
    BY <1>3
  <2> QED BY <2>1, <1>4
<1> QED BY <1>2, <1>5, <1>6 DEF HeaderAt, DataAt, Ending

\* They grow, and are multiples of the alignment.
LEMMA HeadersGrow ==
  ASSUME archive \in Archives
  PROVE  /\ \A i \in 1 .. Len(archive) + 1 :
              /\ HeaderAt(i) \in Nat /\ align(HeaderAt(i), 4) = HeaderAt(i)
              /\ \A j \in 1 .. i - 1 : HeaderAt(j) < HeaderAt(i)
         /\ \A i \in 1 .. Len(archive) : DataAt(i) \in Nat
<1> DEFINE N == Len(archive)
           Ok(i) == /\ HeaderAt(i) \in Nat /\ align(HeaderAt(i), 4) = HeaderAt(i)
                    /\ \A j \in 1 .. i - 1 : HeaderAt(j) < HeaderAt(i)
           S == {k \in Nat : k <= N => \A i \in 1 .. k + 1 : Ok(i)}
<1>1. N \in Nat
  BY EntryIs
<1>2. 0 \in S
  <2>1. Ok(1)
    <3>1. HeaderAt(1) = 0 /\ (0 + 3) \div 4 = 0
      BY HeadersAre
    <3>2. align(0, 4) = 0
      BY <3>1 DEF align
    <3> QED BY <3>1, <3>2
  <2> HIDE DEF Ok
  <2> QED BY <2>1
<1>3. ASSUME NEW k \in S PROVE k + 1 \in S
  <2> SUFFICES ASSUME k + 1 <= N, NEW i \in 1 .. (k + 1) + 1 PROVE Ok(i)
    OBVIOUS
  <2>1. k \in Nat /\ \A h \in 1 .. k + 1 : Ok(h)
    BY <1>1
  <2>2. CASE i \in 1 .. k + 1
    <3> HIDE DEF Ok
    <3> QED BY <2>1, <2>2
  <2>3. CASE i \notin 1 .. k + 1
    <3>1. i = (k + 1) + 1 /\ k + 1 \in 1 .. N /\ k + 1 \in Nat
      BY <2>1, <2>3, <1>1
    <3>2. PICK h \in Nat : h = k + 1 /\ h \in 1 .. N /\ i = h + 1
      BY <3>1
    <3>3. PICK a \in Nat : a = HeaderAt(h) /\ \A j \in 1 .. h - 1 : HeaderAt(j) < a
      <4>1. Ok(h)
        <5> HIDE DEF Ok
        <5> QED BY <2>1, <3>2
      <4> QED BY <4>1
    <3>4. PICK b \in Nat : b = HeaderAt(i) /\ a < b /\ align(b, 4) = b
      <4>1. HeaderAt(i) = Ending(h, a)
        BY <3>2, <3>3, HeadersAre
      <4>2. Ending(h, a) \in Nat /\ a < Ending(h, a)
            /\ align(Ending(h, a), 4) = Ending(h, a)
        BY <3>2, EndingIs
      <4> QED BY <4>1, <4>2
    <3>5. ASSUME NEW j \in 1 .. i - 1 PROVE HeaderAt(j) < b
      <4>1. CASE j = h
        BY <4>1, <3>3, <3>4
      <4>2. CASE j # h
        <5>1. j \in 1 .. h - 1
          BY <4>2, <3>2
        <5>2. PICK c \in Nat : c = HeaderAt(j)
          <6>1. Ok(j)
            <7> HIDE DEF Ok
            <7> QED BY <2>1, <3>2, <5>1
          <6> QED BY <6>1
        <5>3. c < a
          BY <5>1, <5>2, <3>3
        <5> QED BY <5>2, <5>3, <3>4
      <4> QED BY <4>1, <4>2
    <3> QED BY <3>4, <3>5
  <2> QED BY <2>2, <2>3
<1>4. S = Nat
  <2> HIDE DEF S
  <2>1. S \in SUBSET Nat
    BY DEF S
  <2> QED BY <1>2, <1>3, <2>1, SetInduction
<1>5. \A i \in 1 .. N + 1 : Ok(i)
  <2>1. N \in S
    BY <1>1, <1>4
  <2> HIDE DEF Ok
  <2> QED BY <1>1, <2>1
<1>6. ASSUME NEW i \in 1 .. N + 1 PROVE align(HeaderAt(i), 4) = HeaderAt(i)
  BY <1>5
<1>7. ASSUME NEW i \in 1 .. N PROVE DataAt(i) \in Nat
  <2>1. i \in 1 .. N + 1
    BY <1>1
  <2>2. PICK a \in Nat : a = HeaderAt(i)
    BY <2>1, <1>5
  <2> QED BY <2>2, EndingIs DEF DataAt
<1> QED BY <1>5, <1>6, <1>7

-----------------------------------------------------------------------------
(* Paths that lead to something *)

\* What the last name of a path leads to.
Found(p, t) == get_file(Leads(p), Last(p), t)

There(p, t) == Leads(p) \in File /\ Found(p, t) # None

LEMMA ThereStays ==
  ASSUME DirTypeOK, DirTypeOK', Kept, NEW p \in Paths, NEW t, There(p, t)
  PROVE  There(p, t)' /\ Found(p, t)' = Found(p, t)
<1>1. PICK d \in File : d = Leads(p)
  BY DEF There
<1>2. Leads(p)' = d
  BY <1>1, LeadsStays
<1>3. PICK n : n = Last(p)
  OBVIOUS
<1>4. get_file(d, n, t) # None
  BY <1>1, <1>3 DEF There, Found
<1>5. get_file(d, n, t)' = get_file(d, n, t)
  BY <1>4, FoundStays DEF Kept
<1>6. Found(p, t)' = get_file(d, n, t)' /\ Found(p, t) = get_file(d, n, t)
  BY <1>1, <1>2, <1>3 DEF Found
<1> QED BY <1>1, <1>2, <1>4, <1>5, <1>6 DEF There

\* A path that goes on leads through the same directories.
LEMMA WayPrefix ==
  ASSUME NEW G \in [File \X Name -> File \cup {None}], NEW p \in Paths, NEW q \in Paths,
         Len(q) <= Len(p), \A i \in 1 .. Len(q) : q[i] = p[i],
         NEW m \in 0 .. Len(q) - 1
  PROVE  Way(G, q)[m] = Way(G, p)[m]
<1> DEFINE at == Way(G, q)
           to == Way(G, p)
           S == {k \in Nat : k <= Len(q) - 1 => at[k] = to[k]}
<1>1. Leading(G, at, q) /\ Leading(G, to, p)
  BY WayIs
<1> HIDE DEF at, to
<1>2. /\ Len(p) \in Nat /\ Len(p) >= 1
      /\ Len(q) \in Nat /\ Len(q) >= 1 /\ \A i \in 1 .. Len(q) : q[i] \in Name
  BY PathsAre
<1>3. 0 \in S
  BY <1>1 DEF Leading
<1>4. ASSUME NEW k \in S PROVE k + 1 \in S
  <2> SUFFICES ASSUME k + 1 <= Len(q) - 1 PROVE at[k + 1] = to[k + 1]
    OBVIOUS
  <2>1. /\ k \in Nat /\ k + 1 \in 1 .. Len(q) - 1 /\ k + 1 \in 1 .. Len(p) - 1
        /\ (k + 1) - 1 = k /\ k \in 0 .. Len(q) - 1 /\ k + 1 \in 1 .. Len(q)
    BY <1>2
  <2>2. at[k] = to[k] /\ q[k + 1] = p[k + 1] /\ at[k] \in File \cup {None}
    BY <2>1, <1>1 DEF Leading
  <2>3. CASE at[k] = None
    BY <2>1, <2>2, <2>3, <1>1 DEF Leading
  <2>4. CASE at[k] \in File
    <3>1. at[k + 1] = G[<<at[k], q[k + 1]>>] /\ to[k + 1] = G[<<to[k], p[k + 1]>>]
      BY <2>1, <2>2, <2>4, <1>1 DEF Leading
    <3> QED BY <2>2, <3>1
  <2> QED BY <2>2, <2>3, <2>4
<1>5. S = Nat
  <2> HIDE DEF S
  <2>1. S \in SUBSET Nat
    BY DEF S
  <2> QED BY <1>3, <1>4, <2>1, SetInduction
<1>6. at[m] = to[m]
  BY <1>2, <1>5
<1> QED BY <1>6 DEF at, to

\* If the beginning of a path leads to a directory, so does the way.
LEMMA PrefixThere ==
  ASSUME DirTypeOK, NEW p \in Paths, NEW k \in 1 .. Len(p) - 1,
         There(SubSeq(p, 1, k), "DIRECTORY")
  PROVE  /\ Way(Under, p)[k - 1] \in File
         /\ get_file(Way(Under, p)[k - 1], p[k], "DIRECTORY") # None
<1> DEFINE G == Under
           q == SubSeq(p, 1, k)
<1>1. G \in [File \X Name -> File \cup {None}]
  BY UnderIs
<1>2. /\ q \in Seq(Name) /\ Len(q) = k /\ (\A i \in 1 .. k : q[i] = p[i])
      /\ Len(p) \in Nat /\ k <= Len(p) /\ k \in Nat /\ k >= 1
  BY DEF Paths
<1> HIDE DEF q
<1>3. q \in Paths /\ k - 1 \in 0 .. Len(q) - 1 /\ Last(q) = p[k] /\ Len(q) <= Len(p)
      /\ \A i \in 1 .. Len(q) : q[i] = p[i]
  BY <1>2 DEF Paths, Last
<1> HIDE DEF G
<1>4. Way(G, q)[k - 1] = Way(G, p)[k - 1]
  BY <1>1, <1>3, WayPrefix
<1>5. Leads(q) = Way(Under, p)[k - 1]
  BY <1>2, <1>4 DEF Leads, G
<1>6. There(q, "DIRECTORY")
  BY DEF q
<1> QED BY <1>3, <1>5, <1>6 DEF There, Found

\* A thread finds the next directory of its path, if the path before its
\* last name leads to directories.
LEMMA DescendFinds ==
  ASSUME IInv, NEW t \in Thread, Visible(t), pc[t] = "lookup", Len(path[t]) > 1,
         \A k \in 1 .. Len(call[t].path) - 1 : There(SubSeq(call[t].path, 1, k), "DIRECTORY")
  PROVE  get_file(directory[t], Head(path[t]), "DIRECTORY") # None
<1>1. PICK p \in Paths : p = call[t].path
  BY DEF Visible, OnWay, Asked
<1>2. PICK k \in 0 .. Len(p) - 1 :
        /\ Len(path[t]) = Len(p) - k
        /\ \A i \in 1 .. Len(path[t]) : path[t][i] = p[k + i]
        /\ directory[t] = Way(Under, p)[k]
  BY <1>1 DEF Visible, OnWay
<1>3. PICK q \in Seq(Name) : q = path[t] /\ Len(q) > 1
  BY DEF Visible, OnWay
<1>4. Head(q) = q[1] /\ Len(q) \in Nat /\ Len(p) \in Nat /\ 1 \in 1 .. Len(q)
  BY <1>3, PathsAre
<1>5. k + 1 \in 1 .. Len(p) - 1 /\ (k + 1) - 1 = k /\ q[1] = p[k + 1]
  BY <1>2, <1>3, <1>4
<1>6. There(SubSeq(p, 1, k + 1), "DIRECTORY")
  BY <1>1, <1>5
<1>7. get_file(Way(Under, p)[(k + 1) - 1], p[k + 1], "DIRECTORY") # None
  BY <1>5, <1>6, PrefixThere DEF IInv
<1> QED BY <1>2, <1>3, <1>4, <1>5, <1>7

LEMMA NoHit ==
  ASSUME DirTypeOK, NEW d \in File, NEW wanted, NEW t, get_file(d, wanted, t) = None
  PROVE  Hits(d, wanted, t) = {}
<1> SUFFICES ASSUME Hits(d, wanted, t) # {} PROVE FALSE
  OBVIOUS
<1>1. Min(Hits(d, wanted, t)) \in Hits(d, wanted, t) /\ Min(Hits(d, wanted, t)) # 0
  BY LeastHit
<1>2. get_file(d, wanted, t) = children[d][Min(Hits(d, wanted, t))]
  BY <1>1, FirstHit
<1>3. PICK s \in Seq(File) : s = children[d]
  BY DEF DirTypeOK
<1>4. PICK i \in 1 .. Len(s) : i = Min(Hits(d, wanted, t))
  BY <1>1, <1>3 DEF Hits
<1>5. s[i] \in File
  OBVIOUS
<1> QED BY <1>2, <1>3, <1>4, <1>5, RootAssumption

\* What get_file finds, where no child has changed.
LEMMA SameFound ==
  ASSUME NEW d \in File, NEW wanted, NEW t, children'[d] = children[d],
         \A i \in 1 .. Len(children[d]) :
           /\ type'[children[d][i]] = type[children[d][i]]
           /\ name'[children[d][i]] = name[children[d][i]]
  PROVE  get_file(d, wanted, t)' = get_file(d, wanted, t)
<1> DEFINE H == Hits(d, wanted, t)
           G == Hits(d, wanted, t)'
<1>1. G = H
  BY DEF Hits
<1>2. get_file(d, wanted, t)' =
        IF G = {} THEN None ELSE IF Min(G) = 0 THEN None ELSE children'[d][Min(G)]
  BY DEF get_file, SelectInSeq, Hits
<1>3. get_file(d, wanted, t) =
        IF H = {} THEN None ELSE IF Min(H) = 0 THEN None ELSE children[d][Min(H)]
  BY FirstHit
<1> HIDE DEF G, H
<1> QED BY <1>1, <1>2, <1>3

\* A file that is found where nothing was found before it was added.
LEMMA FoundNew ==
  ASSUME DirTypeOK, NEW d \in File, NEW wanted, NEW t, get_file(d, wanted, t) = None,
         NEW f \in File, children'[d] = Append(children[d], f), UNCHANGED <<type, name>>,
         type[f] = t, Matches(name[f], wanted)
  PROVE  get_file(d, wanted, t)' = f
<1> DEFINE H == Hits(d, wanted, t)
           G == Hits(d, wanted, t)'
<1>1. H = {}
  BY NoHit
<1>2. PICK s \in Seq(File) : s = children[d]
  BY DEF DirTypeOK
<1>3. PICK r \in Seq(File) : /\ r = children'[d] /\ Len(r) = Len(s) + 1 /\ Len(s) \in Nat
                             /\ \A i \in 1 .. Len(s) : r[i] = s[i]
                             /\ r[Len(s) + 1] = f
  <2>1. /\ Append(s, f) \in Seq(File) /\ Len(Append(s, f)) = Len(s) + 1 /\ Len(s) \in Nat
        /\ \A i \in 1 .. Len(s) : Append(s, f)[i] = s[i]
        /\ Append(s, f)[Len(s) + 1] = f
    BY Appended
  <2> QED BY <1>2, <2>1
<1>4. \A i \in 1 .. Len(s) : ~ (type[s[i]] = t /\ Matches(name[s[i]], wanted))
  BY <1>1, <1>2 DEF Hits
<1>5. G = {i \in 1 .. Len(r) : type[r[i]] = t /\ Matches(name[r[i]], wanted)}
  BY <1>3 DEF Hits, Matches
<1>6. G = {Len(s) + 1}
  <2>1. \A i \in 1 .. Len(r) : i \in 1 .. Len(s) \/ i = Len(s) + 1
    BY <1>3
  <2>2. Len(s) + 1 \in 1 .. Len(r)
    BY <1>3
  <2> HIDE DEF G
  <2> QED BY <1>3, <1>4, <1>5, <2>1, <2>2
<1>7. get_file(d, wanted, t)' =
        IF G = {} THEN None ELSE IF Min(G) = 0 THEN None ELSE children'[d][Min(G)]
  BY DEF get_file, SelectInSeq, Hits
<1> HIDE DEF G
<1>8. Min(G) = Len(s) + 1
  <2>1. \E i \in G : \A j \in G : i <= j
    BY <1>3, <1>6
  <2>2. Min(G) \in G
    BY <2>1 DEF Min
  <2> QED BY <1>6, <2>2
<1>9. Len(s) + 1 # 0
  BY <1>3
<1> QED BY <1>3, <1>6, <1>7, <1>8, <1>9

-----------------------------------------------------------------------------
(* The calls that load an entry *)

Sought(op) == IF op = "mkdir" THEN "DIRECTORY" ELSE "REGULAR"

\* A call of Boot for a path, or what it has left.
Asking(p, op) ==
  /\ pc[Boot] # "idle" =>
       /\ call[Boot].path = p /\ call[Boot].op = op
       /\ pc[Boot] # "lookup" => get_file(directory[Boot], path[Boot][1], Sought(op)) = None
  /\ pc[Boot] = "idle" =>
       /\ There(p, Sought(op))
       /\ op = "creat" => Len(opened[Boot]) > 0 /\ opened[Boot][Len(opened[Boot])][2] = Found(p, "REGULAR")

\* What a call leaves when it returns.
LEMMA ReturnAsking ==
  ASSUME IInv, IInv', VisibleInv, NEW p \in Paths, NEW op \in {"mkdir", "creat"},
         NEW f \in File \cup {None}, Return(Boot, f), There(p, Sought(op))',
         op = "creat" => f = Found(p, "REGULAR")'
  PROVE  Asking(p, op)'
<1>1. pc'[Boot] = "idle" /\ opened'[Boot] = Append(opened[Boot], <<call[Boot], f>>)
  BY BootAssumption DEF Return, VisibleInv, IInv, DirTypeOK
<1>2. PICK s \in Seq(Asked \X (File \cup {None})) : s = opened[Boot]
  BY BootAssumption DEF VisibleInv, Visible, Answered
<1>3. PICK c : c = call[Boot]
  OBVIOUS
<1>4. PICK r : r = Append(s, <<c, f>>)
  OBVIOUS
<1>5. Len(r) = Len(s) + 1 /\ r[Len(s) + 1] = <<c, f>> /\ Len(s) \in Nat
  BY <1>4
<1>6. opened'[Boot] = r /\ Len(r) > 0 /\ r[Len(r)][2] = f
  BY <1>1, <1>2, <1>3, <1>4, <1>5
<1>7. op = "creat" => r[Len(r)][2] = Found(p, "REGULAR")'
  BY <1>6
<1> QED BY <1>1, <1>6, <1>7 DEF Asking

LEMMA LookupAsking ==
  ASSUME IInv, IInv', VisibleInv, NEW p \in Paths, NEW op \in {"mkdir", "creat"},
         Asking(p, op), Lookup(Boot)
  PROVE  Asking(p, op)'
<1> DEFINE f == get_file(directory[Boot], path[Boot][1], Wanted(Boot))
<1>1. UNCHANGED tree /\ pc[Boot] = "lookup" /\ Len(path[Boot]) = 1
  BY DEF Lookup
<1>2. call[Boot].path = p /\ call[Boot].op = op /\ Wanted(Boot) = Sought(op)
  BY <1>1 DEF Asking, Wanted, Sought
<1>3. Visible(Boot)
  BY BootAssumption DEF VisibleInv
<1>4. directory[Boot] \in File /\ Leads(p) = directory[Boot] /\ path[Boot][1] = Last(p)
  BY <1>1, <1>2, <1>3, AtEnd, BootAssumption
<1>5. Kept
  BY <1>1, QuietKept
<1>6. f = Found(p, Sought(op))
  BY <1>2, <1>4 DEF Found
<1>7. CASE f = None
  <2>1. pc' = [pc EXCEPT ![Boot] = "create"] /\ UNCHANGED <<call, path, directory>>
    BY <1>2, <1>7 DEF Lookup, locals
  <2>2. pc'[Boot] = "create"
    BY <2>1, BootAssumption DEF IInv, DirTypeOK
  <2>3. PICK d \in File : d = directory[Boot]
    BY <1>4
  <2> PICK w : w = path[Boot][1]
    OBVIOUS
  <2>4. get_file(d, w, Sought(op)) = None
    BY <1>2, <1>7, <2>3
  <2>5. get_file(d, w, Sought(op))' = None
    BY <1>1, <2>4, SameFound DEF tree
  <2>6. get_file(directory[Boot], path[Boot][1], Sought(op))' = None
    BY <2>1, <2>3, <2>5
  <2> QED BY <1>2, <2>1, <2>2, <2>6 DEF Asking
<1>8. CASE f # None
  <2> DEFINE g == IF op = "mkdir" THEN None ELSE f
  <2>1. Return(Boot, g)
    BY <1>2, <1>8 DEF Lookup
  <2>2. There(p, Sought(op))
    BY <1>4, <1>6, <1>8 DEF There
  <2>3. There(p, Sought(op))' /\ Found(p, Sought(op))' = Found(p, Sought(op))
    BY <1>5, <2>2, ThereStays DEF IInv
  <2>4. op = "creat" => g = f /\ Sought(op) = "REGULAR"
    BY DEF Sought
  <2>5. f \in File
    BY <1>4, <1>8, FoundChild DEF IInv
  <2>6. PICK x \in File \cup {None} : x = g
    BY <2>5
  <2> HIDE DEF f
  <2>7. op = "creat" => x = Found(p, "REGULAR")'
    BY <1>6, <2>3, <2>4, <2>6
  <2> HIDE DEF g
  <2>8. Return(Boot, x)
    BY <2>1, <2>6
  <2> QED BY <2>3, <2>7, <2>8, ReturnAsking
<1> QED BY <1>7, <1>8

LEMMA AddAsking ==
  ASSUME IInv, IInv', VisibleInv, NEW p \in Paths, NEW op \in {"mkdir", "creat"},
         Asking(p, op), Add(Boot)
  PROVE  Asking(p, op)'
<1>1. PICK d \in File, f \in File : d = directory[Boot] /\ f = file[Boot]
  BY BootAssumption DEF Add, IInv, DirTypeOK, Walking, Holding
<1>2. /\ children' = [children EXCEPT ![d] = Append(@, f)] /\ type' = type /\ name' = name
      /\ pc[Boot] = "add" /\ Return(Boot, f)
  BY <1>1 DEF Add, Link
<1>3. Kept
  BY AddKept, BootAssumption
<1>4. Visible(Boot)
  BY BootAssumption DEF VisibleInv
<1>5. Len(path[Boot]) = 1
  BY <1>2, <1>4 DEF Visible, OnWay
<1>6. call[Boot].path = p /\ call[Boot].op = op /\ Wanted(Boot) = Sought(op)
  BY <1>2 DEF Asking, Wanted, Sought
<1>7. Leads(p) = d /\ path[Boot][1] = Last(p)
  BY <1>1, <1>2, <1>4, <1>5, <1>6, AtEnd, BootAssumption
<1>8. type[f] = Sought(op) /\ name[f] = Last(p)
  BY <1>1, <1>2, <1>4, <1>6, <1>7 DEF Visible, Made
<1>9. PICK w : w = Last(p)
  OBVIOUS
<1>10. get_file(d, w, Sought(op)) = None
  BY <1>1, <1>2, <1>7, <1>9 DEF Asking
<1>11. children'[d] = Append(children[d], f)
  BY <1>2 DEF IInv, DirTypeOK
<1>12. Matches(name[f], w)
  BY <1>8, <1>9 DEF Matches
<1>13. get_file(d, w, Sought(op))' = f
  BY <1>2, <1>8, <1>10, <1>11, <1>12, FoundNew DEF IInv
<1>14. Leads(p)' = d
  BY <1>3, <1>7, LeadsStays DEF IInv
<1>15. Found(p, Sought(op))' = f
  BY <1>9, <1>13, <1>14 DEF Found
<1>16. There(p, Sought(op))'
  BY <1>14, <1>15, RootAssumption DEF There
<1>17. op = "creat" => f = Found(p, "REGULAR")'
  BY <1>15 DEF Sought
<1> QED BY <1>2, <1>16, <1>17, ReturnAsking

LEMMA CreateAsking ==
  ASSUME IInv, IInv', VisibleInv, NEW p \in Paths, NEW op \in {"mkdir", "creat"},
         Asking(p, op), Create(Boot)
  PROVE  Asking(p, op)'
<1>1. PICK f \in File :
        /\ type[f] = "UNUSED"
        /\ type' = [type EXCEPT ![f] = Wanted(Boot)]
        /\ name' = [name EXCEPT ![f] = path[Boot][1]]
  BY DEF Create
<1>2. /\ pc[Boot] = "create" /\ pc' = [pc EXCEPT ![Boot] = "add"]
      /\ UNCHANGED <<children, call, path, directory, opened>>
  BY DEF Create
<1>3. PICK d \in File : d = directory[Boot]
  BY <1>2, BootAssumption DEF IInv, Walking
<1> PICK w : w = path[Boot][1]
  OBVIOUS
<1>4. get_file(d, w, Sought(op)) = None
  BY <1>2, <1>3 DEF Asking
<1>5. children[d] \in Seq(File)
  BY DEF IInv, DirTypeOK
<1>6. ASSUME NEW i \in 1 .. Len(children[d])
      PROVE  /\ type'[children[d][i]] = type[children[d][i]]
             /\ name'[children[d][i]] = name[children[d][i]]
  <2>1. children[d][i] \in File /\ children[d][i] \in Linked(d)
    BY <1>5 DEF Linked
  <2>2. children[d][i] # f
    BY <1>1, <2>1 DEF IInv, Placed
  <2> QED BY <1>1, <2>1, <2>2 DEF IInv, DirTypeOK
<1>7. get_file(d, w, Sought(op))' = None
  BY <1>2, <1>4, <1>6, SameFound
<1>8. get_file(directory[Boot], path[Boot][1], Sought(op))' = None
  BY <1>2, <1>3, <1>7
<1>9. pc'[Boot] = "add"
  BY <1>2, BootAssumption DEF IInv, DirTypeOK
<1> QED BY <1>2, <1>8, <1>9 DEF Asking

LEMMA StepAsking ==
  ASSUME IInv, IInv', VisibleInv, NEW p \in Paths, NEW op \in {"mkdir", "creat"},
         \A k \in 1 .. Len(p) - 1 : There(SubSeq(p, 1, k), "DIRECTORY"),
         Asking(p, op), Step(Boot)
  PROVE  Asking(p, op)'
<1>1. ASSUME Descend(Boot) PROVE Asking(p, op)'
  <2>1. pc[Boot] = "lookup" /\ Len(path[Boot]) > 1
    BY <1>1 DEF Descend
  <2>2. Visible(Boot) /\ call[Boot].path = p /\ call[Boot].op = op
    BY <2>1, BootAssumption DEF VisibleInv, Asking
  <2>3. get_file(directory[Boot], Head(path[Boot]), "DIRECTORY") # None
    BY <2>1, <2>2, DescendFinds, BootAssumption
  <2>4. UNCHANGED <<pc, call>>
    BY <1>1, <2>3 DEF Descend
  <2> QED BY <2>1, <2>2, <2>4 DEF Asking
<1>2. ~ ReadDir(Boot)
  BY DEF ReadDir, Asking
<1> QED BY <1>1, <1>2, LookupAsking, CreateAsking, AddAsking DEF Step

-----------------------------------------------------------------------------
(* Loading the archive *)

\* What an entry asked for is there.
Settled(i) ==
  /\ archive[i].kind = "directory" => There(archive[i].path, "DIRECTORY")
  /\ archive[i].kind = "regular" => There(archive[i].path, "REGULAR")

\* The entries that are loaded.
Count == IF loading = "call" THEN header - 1 ELSE header

\* The entry that is being loaded.
Busy ==
  /\ header # 0 /\ address = DataAt(header)
  /\ Called(archive[header].kind) = "none" => pc[Boot] = "idle"
  /\ Called(archive[header].kind) # "none" =>
       Asking(archive[header].path, Called(archive[header].kind))

Loading ==
  /\ archive \in Archives /\ header \in 0 .. Len(archive) /\ address \in Nat
  /\ loading \in {"walk", "call", "done"}
  /\ loading = "walk" => pc[Boot] = "idle" /\ align(address, 4) = HeaderAt(header + 1)
  /\ loading = "call" => Busy
  /\ loading = "done" => header = Len(archive) \/ Ends(archive[header + 1])
  /\ \A i \in 1 .. header : ~ Ends(archive[i])
  /\ \A i \in 1 .. Count : Settled(i)

\* The last of the loaded entries that lead to the same file.
IsLatest(i, j) ==
  /\ archive[j].kind = "regular" /\ j >= i /\ Target(j) = Target(i)
  /\ \A k \in 1 .. Count : archive[k].kind = "regular" /\ Target(k) = Target(i) => k <= j
  /\ contents[Target(i)] = [from |-> DataAt(j), size |-> archive[j].filesize]

Latest ==
  /\ contents = [f \in File |-> contents[f]]
  /\ \A i \in 1 .. Count : archive[i].kind = "regular" => \E j \in 1 .. Count : IsLatest(i, j)

LoadInv == IInv /\ VisibleInv /\ Proper /\ Loading /\ Latest

LEMMA AlignedIs ==
  ASSUME Proper, NEW a \in Nat
  PROVE  aligned(a) = align(a, 4)
<1>1. PICK b \in Nat : b = align(a, 4)
  <2>1. Padded(a)
    BY Aligned
  <2> QED BY <2>1 DEF Padded
<1>2. mod_start + a = a /\ b - mod_start = b
  BY DEF Proper
<1> QED BY <1>1, <1>2 DEF aligned, CPIO_ALIGNMENT

LEMMA EndsStay ==
  ASSUME UNCHANGED archive
  PROVE  \A i : Ends(archive[i])' <=> Ends(archive[i])
BY DEF Ends, Matches

LEMMA ProperStays ==
  ASSUME UNCHANGED <<archive, mod_start>>
  PROVE  Proper' <=> Proper
BY DEF Proper, Listed

\* A header is that of one entry.
LEMMA HeaderOnce ==
  ASSUME archive \in Archives, NEW h \in 1 .. Len(archive), NEW i \in 1 .. Len(archive),
         HeaderAt(i) = HeaderAt(h)
  PROVE  i = h
<1>1. PICK n \in Nat : n = Len(archive)
  BY LengthIs
<1>2. \A j \in 1 .. n + 1 : /\ HeaderAt(j) \in Nat
                            /\ \A k \in 1 .. j - 1 : HeaderAt(k) < HeaderAt(j)
  BY <1>1, HeadersGrow
<1>3. /\ i \in 1 .. n + 1 /\ h \in 1 .. n + 1
      /\ (i < h => i \in 1 .. h - 1) /\ (h < i => h \in 1 .. i - 1)
  BY <1>1
<1>4. ~ (i < h) /\ ~ (h < i)
  BY <1>2, <1>3
<1> QED BY <1>3, <1>4

LEMMA AddressesStay ==
  ASSUME UNCHANGED archive, NEW i
  PROVE  HeaderAt(i)' = HeaderAt(i) /\ DataAt(i)' = DataAt(i)
BY DEF HeaderAt, DataAt, After, align

LEMMA CalledIs ==
  ASSUME archive \in Archives, NEW i \in 1 .. Len(archive)
  PROVE  /\ archive[i].kind = "directory" => Called(archive[i].kind) = "mkdir"
         /\ archive[i].kind = "regular" => Called(archive[i].kind) = "creat"
         /\ archive[i].kind = "link" => Called(archive[i].kind) = "none"
         /\ Called(archive[i].kind) # "none" => Called(archive[i].kind) \in {"mkdir", "creat"}
BY EntryIs DEF Called

\* What is there stays, whatever is done with the tree.
LEMMA EntryStays ==
  ASSUME DirTypeOK, DirTypeOK', Kept, UNCHANGED archive, archive \in Archives,
         NEW i \in 1 .. Len(archive), Settled(i)
  PROVE  /\ Settled(i)'
         /\ archive[i].kind = "regular" => Target(i)' = Target(i) /\ Target(i) \in File
<1>1. PICK p \in Paths : p = archive[i].path
  BY EntryIs
<1>2. archive'[i] = archive[i]
  OBVIOUS
<1>3. archive[i].kind = "directory" => There(p, "DIRECTORY")'
  BY <1>1, ThereStays DEF Settled
<1>4. ASSUME archive[i].kind = "regular"
      PROVE  /\ There(p, "REGULAR")' /\ Found(p, "REGULAR")' = Found(p, "REGULAR")
             /\ Found(p, "REGULAR") \in File
  <2>1. There(p, "REGULAR")
    BY <1>1, <1>4 DEF Settled
  <2>2. There(p, "REGULAR")' /\ Found(p, "REGULAR")' = Found(p, "REGULAR")
    BY <2>1, ThereStays
  <2>3. Leads(p) \in File /\ get_file(Leads(p), Last(p), "REGULAR") # None
    BY <2>1 DEF There, Found
  <2>4. PICK d \in File : d = Leads(p)
    BY <2>3
  <2>5. PICK n : n = Last(p)
    OBVIOUS
  <2>6. get_file(d, n, "REGULAR") \in File
    BY <2>3, <2>4, <2>5, FoundChild
  <2> QED BY <2>2, <2>4, <2>5, <2>6 DEF Found
<1>5. Settled(i)'
  BY <1>1, <1>2, <1>3, <1>4 DEF Settled
<1>6. archive[i].kind = "regular" => Target(i)' = Target(i) /\ Target(i) \in File
  <2>1. Target(i) = Found(p, "REGULAR")
    BY <1>1 DEF Target, Found
  <2>2. Target(i)' = Found(p, "REGULAR")'
    BY <1>1, <1>2 DEF Target, Found
  <2> QED BY <1>4, <2>1, <2>2
<1> QED BY <1>5, <1>6

LEMMA CountIs ==
  ASSUME Loading
  PROVE  /\ Count \in Nat /\ Count <= Len(archive) /\ Len(archive) \in Nat
         /\ \A i \in 1 .. Count : i \in 1 .. Len(archive)
         /\ loading = "call" => header \in 1 .. Len(archive) /\ Count = header - 1
         /\ loading # "call" => Count = header
<1>1. PICK n \in Nat : n = Len(archive)
  <2>1. archive \in Archives
    BY DEF Loading
  <2> QED BY <2>1, LengthIs
<1>2. PICK h \in 0 .. n : h = header /\ (loading = "call" => h # 0)
  <2>1. header \in 0 .. n
    BY <1>1 DEF Loading
  <2>2. loading = "call" => header # 0
    BY DEF Loading, Busy
  <2> QED BY <2>1, <2>2
<1>3. PICK c : c = Count /\ c = IF loading = "call" THEN h - 1 ELSE h
  BY <1>2 DEF Count
<1>4. c \in Nat /\ c <= n
  BY <1>2, <1>3
<1>5. /\ \A i \in 1 .. c : i \in 1 .. n
      /\ loading = "call" => h \in 1 .. n /\ c = h - 1
      /\ loading # "call" => c = h
  BY <1>2, <1>3, <1>4
<1> QED BY <1>1, <1>2, <1>3, <1>4, <1>5

\* The entries loaded so far stay, when nothing else is loaded.
LEMMA LoadedStay ==
  ASSUME LoadInv, IInv', Kept, UNCHANGED <<archive, contents>>, Count' = Count
  PROVE  (\A i \in 1 .. Count' : Settled(i)') /\ Latest'
<1>1. PICK n \in Nat : n = Count /\ n = Count' /\ \A i \in 1 .. n : i \in 1 .. Len(archive)
  BY CountIs DEF LoadInv
<1>2. \A i \in 1 .. n : /\ Settled(i)'
                        /\ archive[i].kind = "regular" => Target(i)' = Target(i)
  BY <1>1, EntryStays DEF LoadInv, Loading, IInv
<1>3. ASSUME NEW i \in 1 .. n, archive[i].kind = "regular"
      PROVE  \E j \in 1 .. n : IsLatest(i, j)'
  <2>1. PICK j \in 1 .. n : IsLatest(i, j)
    BY <1>1, <1>3 DEF LoadInv, Latest
  <2>2. PICK f : f = Target(i)
    OBVIOUS
  <2>3. /\ archive[j].kind = "regular" /\ j >= i /\ Target(j) = f
        /\ \A k \in 1 .. n : archive[k].kind = "regular" /\ Target(k) = f => k <= j
        /\ contents[f] = [from |-> DataAt(j), size |-> archive[j].filesize]
    BY <1>1, <2>1, <2>2 DEF IsLatest
  <2>4. Target(i)' = f /\ Target(j)' = f
    BY <1>2, <1>3, <2>2, <2>3
  <2>5. DataAt(j)' = DataAt(j)
    BY AddressesStay
  <2>6. \A k \in 1 .. n : archive'[k].kind = "regular" /\ Target(k)' = f => k <= j
    BY <1>2, <2>3
  <2> QED BY <1>1, <2>3, <2>4, <2>5, <2>6 DEF IsLatest
<1>4. \A i \in 1 .. Count' : archive'[i].kind = "regular" => \E j \in 1 .. Count' : IsLatest(i, j)'
  BY <1>1, <1>3
<1> QED BY <1>1, <1>2, <1>4 DEF LoadInv, Latest

LEMMA StepKept ==
  ASSUME IInv, NEW t \in Thread, Step(t)
  PROVE  Kept
<1>1. UNCHANGED tree \/ Create(t) \/ Add(t)
  BY DEF Step, Descend, Lookup, ReadDir
<1> QED BY <1>1, UnchangedKept, CreateKept, AddKept

LEMMA CallKept ==
  ASSUME IInv, NEW t \in Thread, NEW request, Call(t, request)
  PROVE  Kept
<1>1. UNCHANGED tree
  BY DEF Call
<1> QED BY <1>1, UnchangedKept

\* What the calls have returned stays while the archive is loaded.
LEMMA LoadingVisible ==
  ASSUME IInv, IInv', VisibleInv, archive \in Archives, LoadNext
  PROVE  VisibleInv'
<1>1. CASE UNCHANGED vars
  BY <1>1, StutterVisible
<1>2. ASSUME NEW t \in Thread, Step(t) PROVE VisibleInv'
  BY <1>2, StepVisible
<1>3. ASSUME NEW t \in Thread, NEW request \in Requests, Call(t, request) PROVE VisibleInv'
  <2>1. request \in Asked
    BY PathAssumption DEF Requests, Asked, Ops
  <2> QED BY <1>3, <2>1, CallVisible
<1>4. ASSUME NEW i \in DOMAIN archive, Called(archive[i].kind) # "none",
             Call(Boot, [op |-> Called(archive[i].kind), path |-> archive[i].path])
      PROVE  VisibleInv'
  <2>1. Called(archive[i].kind) \in Ops /\ archive[i].path \in Paths
    BY <1>4, EntryIs, CalledIs DEF Ops
  <2>2. PICK r \in Asked : r = [op |-> Called(archive[i].kind), path |-> archive[i].path]
    BY <2>1 DEF Asked
  <2>3. Call(Boot, r)
    BY <1>4, <2>2
  <2> QED BY <2>3, CallVisible, BootAssumption
<1>5. CASE WalkEnd
  BY <1>1, <1>5 DEF WalkEnd
<1>6. CASE Walk
  BY <1>1, <1>4, <1>6 DEF Walk
<1>7. CASE LoadStep
  BY <1>2, <1>7, BootAssumption DEF LoadStep
<1>8. CASE Loaded
  BY <1>1, <1>8 DEF Loaded
<1>9. CASE Threads
  BY <1>2, <1>3, <1>9 DEF Threads
<1> QED BY <1>5, <1>6, <1>7, <1>8, <1>9 DEF LoadNext

\* The walk ends behind the last entry or where one looks like the trailer,
\* and not before.
LEMMA WalkEndIs ==
  ASSUME Proper, Loading, loading = "walk", address + HeaderSize > mod_end \/ EndsAt(aligned(address))
  PROVE  header = Len(archive) \/ Ends(archive[header + 1])
<1>1. PICK n \in Nat : n = Len(archive) /\ (archive = <<>> => n = 0)
  <2>1. archive \in Archives
    BY DEF Loading
  <2>2. Len(archive) \in Nat /\ (archive = <<>> => Len(archive) = 0)
    BY <2>1, EntryIs
  <2> QED BY <2>2
<1>2. PICK h \in 0 .. n : h = header
  BY <1>1 DEF Loading
<1>3. SUFFICES ASSUME h # n, ~ Ends(archive[h + 1]) PROVE FALSE
  BY <1>1, <1>2
<1>4. h + 1 \in 1 .. (n + 1) - 1 /\ h + 1 \in 1 .. n + 1 /\ n + 1 \in 1 .. n + 1
  BY <1>1, <1>2, <1>3
<1>5. PICK a \in Nat, b \in Nat : a = HeaderAt(h + 1) /\ b = HeaderAt(n + 1) /\ a < b
  BY <1>1, <1>4, HeadersGrow DEF Loading
<1>6. PICK c \in Nat : c = address /\ c <= a /\ align(c, 4) = a
  <2>1. PICK c \in Nat : c = address
    BY DEF Loading
  <2>2. Padded(c)
    BY Aligned
  <2>3. align(c, 4) = a
    BY <1>2, <1>5, <2>1 DEF Loading
  <2> QED BY <2>1, <2>2, <2>3 DEF Padded
<1>7. Trailer = b
  BY <1>1, <1>5 DEF Trailer
<1>8. ~ EndsAt(aligned(address))
  <2>1. aligned(address) = a
    BY <1>6, AlignedIs
  <2>2. a # Trailer
    BY <1>5, <1>7
  <2>3. ASSUME NEW i \in DOMAIN archive, HeaderAt(i) = a PROVE ~ Ends(archive[i])
    <3>1. archive \in Archives
      BY DEF Loading
    <3>2. i \in 1 .. Len(archive) /\ h + 1 \in 1 .. Len(archive)
      BY <1>1, <1>4, <3>1, EntryIs
    <3>3. PICK k \in 1 .. Len(archive) : k = h + 1
      BY <3>2
    <3>4. i = k
      BY <1>5, <2>3, <3>1, <3>2, <3>3, HeaderOnce
    <3> QED BY <1>3, <3>3, <3>4
  <2> QED BY <2>1, <2>2, <2>3 DEF EndsAt
<1>9. archive # <<>>
  BY <1>1, <1>2, <1>3
<1>10. PICK d \in Nat : d = align(b + 121, 4) /\ b + 121 <= d
  <2>1. PICK e \in Nat : e = b + 121
    OBVIOUS
  <2>2. Padded(e)
    BY Aligned
  <2> QED BY <2>1, <2>2 DEF Padded
<1>11. After(Trailer, TrailerName) = d
  <2>1. b + 110 + 11 = b + 121
    OBVIOUS
  <2>2. align(b + 110 + 11, 4) = d
    BY <2>1, <1>10
  <2> QED BY <1>7, <2>2 DEF After, HeaderSize, TrailerName, CPIO_ALIGNMENT
<1>12. mod_end \in Nat /\ d <= mod_end
  <2>1. Padded(d)
    BY Aligned
  <2>2. mod_end = align(d, 512)
    BY <1>9, <1>11 DEF mod_end, BlockSize
  <2> QED BY <2>1, <2>2 DEF Padded
<1>13. ~ (address + HeaderSize > mod_end)
  BY <1>5, <1>6, <1>10, <1>12 DEF HeaderSize
<1> QED BY <1>8, <1>13

LEMMA WalkEndLoads ==
  ASSUME LoadInv, IInv', WalkEnd
  PROVE  Loading' /\ Latest'
<1>1. loading = "walk" /\ loading' = "done"
      /\ UNCHANGED <<vars, archive, mod_start, address, header, contents>>
  BY DEF WalkEnd
<1>2. Count' = Count
  BY <1>1 DEF Count
<1>3. Kept
  BY <1>1, UnchangedKept DEF LoadInv, vars
<1>4. (\A i \in 1 .. Count' : Settled(i)') /\ Latest'
  BY <1>1, <1>2, <1>3, LoadedStay
<1>5. header = Len(archive) \/ Ends(archive[header + 1])
  BY WalkEndIs DEF WalkEnd, LoadInv
<1>6. PICK h : h = header /\ h = header'
  BY <1>1
<1>7. header' = Len(archive') \/ Ends(archive[header + 1])'
  <2>1. Ends(archive[h + 1])' <=> Ends(archive[h + 1])
    BY <1>1, EndsStay
  <2> QED BY <1>1, <1>5, <1>6, <2>1
<1>8. \A i \in 1 .. header' : ~ Ends(archive[i])'
  BY <1>1, EndsStay DEF LoadInv, Loading
<1> QED BY <1>1, <1>4, <1>7, <1>8 DEF LoadInv, Loading

\* The address behind a header: that of the entry's data.
LEMMA DataAddressIs ==
  ASSUME Proper, archive \in Archives, NEW i \in 1 .. Len(archive)
  PROVE  DataAddress(HeaderAt(i), archive[i]) = DataAt(i)
<1>1. PICK n \in 0 .. MaxSize : n = archive[i].namesize
  BY EntryIs
<1>2. convert_from_hex(hex(n)) = n
  BY HexBack
<1>3. PICK a \in Nat : a = HeaderAt(i) + HeaderSize + n
  <2>1. HeaderAt(i) \in Nat
    <3>1. PICK m \in Nat : m = Len(archive)
      BY LengthIs
    <3>2. i \in 1 .. m + 1
      BY <3>1
    <3> QED BY <3>1, <3>2, HeadersGrow
  <2> QED BY <2>1, SizesAre DEF HeaderSize
<1>4. aligned(a) = align(a, CPIO_ALIGNMENT)
  BY AlignedIs DEF CPIO_ALIGNMENT
<1> QED BY <1>1, <1>2, <1>3, <1>4 DEF DataAddress, DataAt, After

\* The header that is read next is that of the next entry.
LEMMA WalkReads ==
  ASSUME LoadInv, Walk
  PROVE  /\ header + 1 \in 1 .. Len(archive) /\ ~ Ends(archive[header + 1])
         /\ header' = header + 1 /\ address' = DataAt(header + 1) /\ loading' = "call"
         /\ UNCHANGED <<archive, contents, tree>>
         /\ IF Called(archive[header + 1].kind) = "none"
            THEN UNCHANGED vars
            ELSE Call(Boot, [op |-> Called(archive[header + 1].kind),
                             path |-> archive[header + 1].path])
<1> DEFINE at == aligned(address)
           here == {i \in DOMAIN archive : HeaderAt(i) = at}
<1>1. PICK n \in Nat : n = Len(archive) /\ DOMAIN archive = 1 .. n
  <2>1. archive \in Archives
    BY DEF LoadInv, Loading
  <2>2. Len(archive) \in Nat /\ DOMAIN archive = 1 .. Len(archive)
    BY <2>1, EntryIs
  <2> QED BY <2>2, Zenon
<1>2. PICK h \in Nat : h = header + 1 /\ h \in 1 .. n + 1
  BY <1>1 DEF LoadInv, Loading
<1>3. at = HeaderAt(h) /\ ~ EndsAt(at) /\ at # Trailer
  <2>1. at = HeaderAt(h)
    <3>1. loading = "walk" /\ address \in Nat /\ align(address, 4) = HeaderAt(h)
      BY <1>2 DEF Walk, LoadInv, Loading
    <3> QED BY <3>1, AlignedIs DEF LoadInv
  <2>2. ~ EndsAt(at)
    BY DEF Walk
  <2> HIDE DEF at
  <2> QED BY <2>1, <2>2 DEF EndsAt
<1>4. h \in 1 .. n
  BY <1>1, <1>2, <1>3 DEF Trailer
<1>5. ASSUME NEW i \in 1 .. n, HeaderAt(i) = HeaderAt(h) PROVE i = h
  BY <1>1, <1>4, <1>5, HeaderOnce DEF LoadInv, Loading
<1>6. here = {h}
  BY <1>1, <1>3, <1>4, <1>5
<1>7. /\ header' = h /\ address' = DataAddress(at, archive[h]) /\ loading' = "call"
      /\ UNCHANGED <<archive, contents>>
      /\ IF Called(archive[h].kind) = "none"
         THEN UNCHANGED vars
         ELSE Call(Boot, [op |-> Called(archive[h].kind), path |-> archive[h].path])
  <2> HIDE DEF at
  <2> QED BY <1>6 DEF Walk, at
<1> HIDE DEF at, here
<1>8. UNCHANGED tree
  BY <1>7 DEF Call, vars
<1>9. address' = DataAt(h)
  BY <1>1, <1>3, <1>4, <1>7, DataAddressIs DEF LoadInv, Loading
<1>10. ~ Ends(archive[h])
  BY <1>1, <1>3, <1>4 DEF EndsAt
<1> QED BY <1>1, <1>2, <1>4, <1>7, <1>8, <1>9, <1>10

LEMMA WalkLoads ==
  ASSUME LoadInv, IInv', Walk
  PROVE  Loading' /\ Latest'
<1>1. PICK h : h = header + 1
  OBVIOUS
<1>2. /\ h \in 1 .. Len(archive) /\ ~ Ends(archive[h])
      /\ header' = h /\ address' = DataAt(h) /\ loading' = "call"
      /\ UNCHANGED <<archive, contents, tree>>
      /\ IF Called(archive[h].kind) = "none"
         THEN UNCHANGED vars
         ELSE Call(Boot, [op |-> Called(archive[h].kind), path |-> archive[h].path])
  BY <1>1, WalkReads
<1>3. loading = "walk" /\ header \in Nat /\ Len(archive) \in Nat
  BY EntryIs DEF Walk, LoadInv, Loading
<1>4. Count' = Count
  BY <1>1, <1>2, <1>3 DEF Count
<1>5. Kept
  BY <1>2, UnchangedKept DEF LoadInv
<1>6. (\A i \in 1 .. Count' : Settled(i)') /\ Latest'
  BY <1>2, <1>4, <1>5, LoadedStay
<1>7. DataAt(h)' = DataAt(h) /\ DataAt(h) \in Nat
  BY <1>2, AddressesStay, HeadersGrow DEF LoadInv, Loading
<1>8. Called(archive[h].kind) = "none" => pc'[Boot] = "idle"
  <2> SUFFICES ASSUME Called(archive[h].kind) = "none" PROVE pc'[Boot] = "idle"
    OBVIOUS
  <2>1. UNCHANGED pc
    BY <1>2 DEF vars
  <2> QED BY <1>3, <2>1 DEF LoadInv, Loading
<1>9. ASSUME Called(archive[h].kind) # "none"
      PROVE  Asking(archive[h].path, Called(archive[h].kind))'
  <2>1. PICK r : r = [op |-> Called(archive[h].kind), path |-> archive[h].path]
    OBVIOUS
  <2>2. r.op = Called(archive[h].kind) /\ r.path = archive[h].path
    BY <2>1
  <2>3. Call(Boot, r)
    BY <1>2, <1>9, <2>1
  <2>4. pc'[Boot] = "lookup" /\ call'[Boot] = r
    BY <2>3, BootAssumption DEF Call, LoadInv, IInv, DirTypeOK, VisibleInv
  <2> QED BY <1>2, <2>2, <2>4 DEF Asking
<1>10. Busy'
  <2>1. header' # 0
    BY <1>2, <1>3
  <2>2. DataAt(header)' = DataAt(h)
    BY <1>2, <1>7
  <2>3. Called(archive[header].kind)' = Called(archive[h].kind)
    BY <1>2
  <2>4. Asking(archive[header].path, Called(archive[header].kind))' <=>
          Asking(archive[h].path, Called(archive[h].kind))'
    BY <1>2
  <2> QED BY <1>2, <1>8, <1>9, <2>1, <2>2, <2>3, <2>4 DEF Busy
<1>11. \A i \in 1 .. header' : ~ Ends(archive[i])'
  <2>1. \A i \in 1 .. h : i = h \/ i \in 1 .. header
    BY <1>1, <1>3
  <2>2. \A i \in 1 .. h : ~ Ends(archive[i])
    BY <1>2, <2>1 DEF LoadInv, Loading
  <2> QED BY <1>2, <2>2, EndsStay
<1> QED BY <1>2, <1>3, <1>6, <1>7, <1>10, <1>11 DEF Loading, LoadInv

\* A step of the call that loads an entry.
LEMMA CallLoads ==
  ASSUME LoadInv, IInv', LoadStep
  PROVE  Loading' /\ Latest'
<1>1. loading = "call" /\ Step(Boot) /\ UNCHANGED <<archive, address, header, loading, contents>>
  BY DEF LoadStep, load
<1>2. /\ archive \in Archives /\ header \in 1 .. Len(archive) /\ Count = header - 1 /\ Busy
      /\ \A i \in 1 .. Count : Settled(i)
  BY <1>1, CountIs DEF LoadInv, Loading
<1>3. PICK h \in 1 .. Len(archive) : h = header
  BY <1>2
<1>4. Kept
  BY <1>1, StepKept, BootAssumption DEF LoadInv
<1>5. Count' = Count
  BY <1>1 DEF Count
<1>6. (\A i \in 1 .. Count' : Settled(i)') /\ Latest'
  BY <1>1, <1>4, <1>5, LoadedStay
<1>7. pc[Boot] # "idle"
  BY <1>1 DEF Step, Descend, Lookup, ReadDir, Create, Add
<1>8. Called(archive[h].kind) # "none"
  BY <1>2, <1>3, <1>7 DEF Busy
<1>9. PICK op \in {"mkdir", "creat"} : op = Called(archive[h].kind)
  BY <1>2, <1>8, CalledIs
<1>10. PICK p \in Paths : p = archive[h].path
  BY <1>2, EntryIs
<1>11. \A k \in 1 .. Len(p) - 1 : There(SubSeq(p, 1, k), "DIRECTORY")
  <2> SUFFICES ASSUME NEW k \in 1 .. Len(p) - 1 PROVE There(SubSeq(p, 1, k), "DIRECTORY")
    OBVIOUS
  <2>1. PICK j \in 1 .. h - 1 : archive[j].kind = "directory" /\ archive[j].path = SubSeq(p, 1, k)
    <3>1. DOMAIN archive = 1 .. Len(archive)
      BY <1>2, EntryIs
    <3> QED BY <1>2, <1>3, <1>10, <3>1 DEF LoadInv, Proper, Listed
  <2>2. Settled(j)
    BY <1>2, <1>3
  <2> QED BY <2>1, <2>2 DEF Settled
<1>12. Asking(p, op)
  BY <1>2, <1>3, <1>8, <1>9, <1>10 DEF Busy
<1>13. Asking(p, op)'
  BY <1>1, <1>11, <1>12, StepAsking DEF LoadInv
<1>14. DataAt(h)' = DataAt(h)
  BY <1>1, AddressesStay
<1>15. Asking(archive[header].path, Called(archive[header].kind))'
  <2>1. archive'[header'].path = p /\ Called(archive[header].kind)' = op
    BY <1>1, <1>3, <1>9, <1>10
  <2> QED BY <1>13, <2>1
<1>16. Busy'
  <2>1. header' # 0 /\ address' = DataAt(header)'
    BY <1>1, <1>2, <1>3, <1>14 DEF Busy
  <2>2. Called(archive[header].kind)' # "none"
    BY <1>1, <1>3, <1>8
  <2> QED BY <2>1, <2>2, <1>15 DEF Busy
<1>17. \A i \in 1 .. header' : ~ Ends(archive[i])'
  BY <1>1, EndsStay DEF LoadInv, Loading
<1> QED BY <1>1, <1>6, <1>16, <1>17 DEF LoadInv, Loading

\* The call has returned: what the entry asked for is there.
LEMMA EntrySettled ==
  ASSUME LoadInv, loading = "call", pc[Boot] = "idle"
  PROVE  /\ Settled(header)
         /\ archive[header].kind = "regular" => Last(opened[Boot])[2] = Target(header)
<1>1. archive \in Archives /\ header \in 1 .. Len(archive) /\ Busy
  BY CountIs DEF LoadInv, Loading
<1>2. PICK h \in 1 .. Len(archive) : h = header
  BY <1>1
<1>3. PICK p \in Paths : p = archive[h].path
  BY <1>1, EntryIs
<1>4. CASE archive[h].kind = "directory"
  <2>1. Asking(p, "mkdir")
    BY <1>1, <1>2, <1>3, <1>4, CalledIs DEF Busy
  <2>2. There(p, "DIRECTORY")
    BY <2>1 DEF Asking, Sought
  <2> QED BY <1>2, <1>3, <1>4, <2>2 DEF Settled
<1>5. CASE archive[h].kind = "regular"
  <2>1. Asking(p, "creat")
    BY <1>1, <1>2, <1>3, <1>5, CalledIs DEF Busy
  <2>2. There(p, "REGULAR") /\ opened[Boot][Len(opened[Boot])][2] = Found(p, "REGULAR")
    BY <2>1 DEF Asking, Sought
  <2>3. Target(h) = Found(p, "REGULAR")
    BY <1>3 DEF Target, Found
  <2> QED BY <1>2, <1>3, <1>5, <2>2, <2>3 DEF Settled, Last
<1>6. CASE archive[h].kind \notin {"directory", "regular"}
  BY <1>2, <1>6 DEF Settled
<1> QED BY <1>4, <1>5, <1>6

LEMMA LoadedReads ==
  ASSUME LoadInv, Loaded
  PROVE  /\ loading = "call" /\ loading' = "walk" /\ UNCHANGED <<vars, archive, header>>
         /\ address' = DataAt(header) + archive[header].filesize
         /\ archive[header].kind = "regular" =>
              contents' = [contents EXCEPT ![Target(header)] =
                             [from |-> DataAt(header), size |-> archive[header].filesize]]
         /\ archive[header].kind # "regular" => contents' = contents
<1>1. loading = "call" /\ pc[Boot] = "idle" /\ UNCHANGED <<vars, archive, header>>
  BY DEF Loaded
<1>2. archive \in Archives /\ header \in 1 .. Len(archive) /\ address = DataAt(header)
  BY <1>1, CountIs DEF LoadInv, Loading, Busy
<1>3. PICK h \in 1 .. Len(archive) : h = header
  BY <1>2
<1>4. PICK n \in 0 .. MaxSize : n = archive[h].filesize
  BY <1>2, EntryIs
<1>5. convert_from_hex(hex(n)) = n
  BY HexBack
<1>6. contents = [f \in File |-> contents[f]]
  BY DEF LoadInv, Latest
<1>7. /\ Settled(h)
      /\ archive[h].kind = "regular" => Last(opened[Boot])[2] = Target(h)
  BY <1>1, <1>3, EntrySettled
<1>8. CASE archive[h].kind = "regular"
  <2>1. PICK f \in File : f = Target(h)
    <3>2. PICK p \in Paths : p = archive[h].path
      BY <1>2, EntryIs
    <3>3. Leads(p) \in File /\ get_file(Leads(p), Last(p), "REGULAR") # None
      BY <1>7, <1>8, <3>2 DEF Settled, There, Found
    <3>4. PICK d \in File : d = Leads(p)
      BY <3>3
    <3>5. PICK w : w = Last(p)
      OBVIOUS
    <3>6. get_file(d, w, "REGULAR") \in File
      BY <3>3, <3>4, <3>5, FoundChild DEF LoadInv, IInv
    <3> QED BY <3>2, <3>4, <3>5, <3>6 DEF Target
  <2>2. Last(opened[Boot])[2] = f /\ f # None
    BY <1>7, <1>8, <2>1, RootAssumption
  <2>3. /\ loading' = "walk"
        /\ contents' = [g \in File |->
             IF g = f THEN [from |-> address, size |-> n] ELSE contents[g]]
        /\ address' = address + n
    BY <1>3, <1>4, <1>5, <1>8, <2>2 DEF Loaded
  <2>4. contents' = [contents EXCEPT ![f] = [from |-> address, size |-> n]]
    BY <1>6, <2>3
  <2> QED BY <1>1, <1>2, <1>3, <1>4, <1>8, <2>1, <2>3, <2>4
<1>9. CASE archive[h].kind # "regular"
  <2>1. /\ loading' = "walk"
        /\ contents' = [g \in File |->
             IF g = None THEN [from |-> address, size |-> n] ELSE contents[g]]
        /\ address' = address + n
    BY <1>3, <1>4, <1>5, <1>9 DEF Loaded
  <2>2. contents' = contents
    BY <1>6, <2>1, RootAssumption
  <2> QED BY <1>1, <1>2, <1>3, <1>4, <1>9, <2>1, <2>2
<1> QED BY <1>8, <1>9

LEMMA LoadedLoads ==
  ASSUME LoadInv, IInv', Loaded
  PROVE  Loading' /\ Latest'
<1>1. /\ loading = "call" /\ loading' = "walk" /\ UNCHANGED <<vars, archive, header>>
      /\ address' = DataAt(header) + archive[header].filesize
      /\ archive[header].kind = "regular" =>
           contents' = [contents EXCEPT ![Target(header)] =
                          [from |-> DataAt(header), size |-> archive[header].filesize]]
      /\ archive[header].kind # "regular" => contents' = contents
  BY LoadedReads
<1>2. archive \in Archives /\ header \in 1 .. Len(archive) /\ Count = header - 1
  BY <1>1, CountIs DEF LoadInv, Loading
<1>3. pc[Boot] = "idle" /\ pc' = pc
  BY <1>1 DEF Loaded, vars
<1>4. PICK h \in Nat : h = header /\ h \in 1 .. Len(archive) /\ Len(archive) \in Nat
  BY <1>2, EntryIs
<1>5. Count' = h
  BY <1>1, <1>4 DEF Count
<1>6. Kept
  BY <1>1, UnchangedKept DEF LoadInv, vars
<1>7. ASSUME NEW i \in 1 .. h PROVE Settled(i)
  <2>1. CASE i = h
    BY <1>1, <1>3, <1>4, <2>1, EntrySettled
  <2>2. CASE i # h
    <3>1. i \in 1 .. Count
      BY <1>2, <1>4, <2>2
    <3> QED BY <3>1 DEF LoadInv, Loading
  <2> QED BY <2>1, <2>2
<1>8. ASSUME NEW i \in 1 .. h
      PROVE  /\ Settled(i)'
             /\ archive[i].kind = "regular" => Target(i)' = Target(i) /\ Target(i) \in File
  <2>1. i \in 1 .. Len(archive)
    BY <1>4
  <2> QED BY <1>1, <1>2, <1>6, <1>7, <2>1, EntryStays DEF LoadInv, IInv
<1>9. address' \in Nat /\ align(address', 4) = HeaderAt(h + 1)
  <2>1. PICK n \in Nat, a \in Nat : n = archive[h].filesize /\ a = DataAt(h)
    <3>1. archive[h].filesize \in Nat
      BY <1>2, <1>4, EntryIs, SizesAre
    <3>2. DataAt(h) \in Nat
      BY <1>2, <1>4, HeadersGrow
    <3> QED BY <3>1, <3>2
  <2>2. HeaderAt(h + 1) = align(a + n, 4)
    BY <1>2, <1>4, <2>1, HeadersAre
  <2>3. address' = a + n
    BY <1>1, <1>4, <2>1
  <2> QED BY <2>1, <2>2, <2>3
<1>10. Loading'
  <2>1. HeaderAt(header + 1)' = HeaderAt(h + 1)
    <3>1. PICK k : k = h + 1
      OBVIOUS
    <3>2. HeaderAt(k)' = HeaderAt(k)
      BY <1>1, AddressesStay
    <3> QED BY <1>1, <1>4, <3>1, <3>2
  <2>2. align(address, 4)' = align(address', 4)
    BY DEF align
  <2>3. \A i \in 1 .. Count' : Settled(i)'
    BY <1>5, <1>8
  <2>4. /\ archive' \in Archives /\ header' \in 0 .. Len(archive') /\ address' \in Nat
        /\ loading' = "walk" /\ pc'[Boot] = "idle"
    BY <1>1, <1>2, <1>3, <1>4, <1>9
  <2>5. \A i \in 1 .. header' : ~ Ends(archive[i])'
    BY <1>1, EndsStay DEF LoadInv, Loading
  <2> QED BY <1>9, <2>1, <2>2, <2>3, <2>4, <2>5 DEF Loading
<1>11. ASSUME NEW i \in 1 .. h, archive[i].kind = "regular"
       PROVE  \E j \in 1 .. h : IsLatest(i, j)'
  <2>1. PICK f \in File : f = Target(i) /\ f = Target(i)'
    BY <1>8, <1>11
  <2>2. \A k \in 1 .. h : archive[k].kind = "regular" => Target(k)' = Target(k)
    BY <1>8
  <2>3. CASE archive[h].kind = "regular" /\ Target(h) = f
    <3>1. contents' = [contents EXCEPT ![f] =
                         [from |-> DataAt(h), size |-> archive[h].filesize]]
      BY <1>1, <1>4, <2>3
    <3>2. contents'[f] = [from |-> DataAt(h), size |-> archive[h].filesize]
      BY <3>1 DEF LoadInv, Latest
    <3>3. DataAt(h)' = DataAt(h)
      BY <1>1, AddressesStay
    <3>4. h \in 1 .. h /\ h >= i /\ Target(h)' = f /\ \A k \in 1 .. h : k <= h
      BY <1>4, <2>2, <2>3
    <3>5. IsLatest(i, h)'
      BY <1>1, <1>5, <2>1, <2>3, <3>2, <3>3, <3>4 DEF IsLatest
    <3> QED BY <3>4, <3>5
  <2>4. CASE ~ (archive[h].kind = "regular" /\ Target(h) = f)
    <3>1. i \in 1 .. Count /\ \A k \in 1 .. h : k # h => k \in 1 .. Count
      <4>1. i # h
        BY <1>11, <2>1, <2>4
      <4>2. Count = h - 1
        BY <1>2, <1>4
      <4> QED BY <4>1, <4>2, <1>4
    <3>2. PICK j \in 1 .. Count : IsLatest(i, j)
      BY <1>11, <3>1 DEF LoadInv, Latest
    <3>3. /\ archive[j].kind = "regular" /\ j >= i /\ Target(j) = f
          /\ \A k \in 1 .. Count : archive[k].kind = "regular" /\ Target(k) = f => k <= j
          /\ contents[f] = [from |-> DataAt(j), size |-> archive[j].filesize]
      BY <2>1, <3>2 DEF IsLatest
    <3>4. j \in 1 .. h
      BY <1>2, <1>4
    <3>5. contents'[f] = contents[f]
      BY <1>1, <1>4, <2>4 DEF LoadInv, Latest
    <3>6. DataAt(j)' = DataAt(j)
      BY <1>1, AddressesStay
    <3>7. \A k \in 1 .. h : archive[k].kind = "regular" /\ Target(k)' = f => k <= j
      BY <2>2, <2>4, <3>1, <3>3
    <3>8. Target(j)' = f
      BY <2>2, <3>3, <3>4
    <3>9. IsLatest(i, j)'
      BY <1>1, <1>5, <2>1, <3>3, <3>5, <3>6, <3>7, <3>8 DEF IsLatest
    <3> QED BY <3>4, <3>9
  <2> QED BY <2>3, <2>4
<1>12. Latest'
  <2>1. contents' = [f \in File |-> contents'[f]]
    BY <1>1 DEF LoadInv, Latest
  <2>2. \A i \in 1 .. Count' : archive'[i].kind = "regular" => \E j \in 1 .. Count' : IsLatest(i, j)'
    BY <1>1, <1>5, <1>11
  <2> QED BY <2>1, <2>2 DEF Latest
<1> QED BY <1>10, <1>12

LEMMA ThreadsLoad ==
  ASSUME LoadInv, IInv', Threads
  PROVE  Loading' /\ Latest'
<1>1. loading = "done" /\ UNCHANGED <<archive, address, header, loading, contents>>
  BY DEF Threads, load
<1>2. Kept
  BY StepKept, CallKept DEF Threads, LoadInv
<1>3. Count' = Count
  BY <1>1 DEF Count
<1>4. (\A i \in 1 .. Count' : Settled(i)') /\ Latest'
  BY <1>1, <1>2, <1>3, LoadedStay
<1>5. (\A i \in 1 .. header' : ~ Ends(archive[i])') /\ (Ends(archive[header + 1])' <=> Ends(archive[header + 1]))
  <2>1. PICK h : h = header + 1 /\ h = header' + 1
    BY <1>1
  <2>2. Ends(archive[h])' <=> Ends(archive[h])
    BY <1>1, EndsStay
  <2> QED BY <1>1, <2>1, <2>2, EndsStay DEF LoadInv, Loading
<1> QED BY <1>1, <1>4, <1>5 DEF LoadInv, Loading

LEMMA AskingStays ==
  ASSUME IInv, IInv', UNCHANGED vars, NEW p \in Paths, NEW op, Asking(p, op)
  PROVE  Asking(p, op)'
<1>1. UNCHANGED <<tree, pc, call, path, directory, opened>>
  BY DEF vars, locals
<1>2. Kept
  BY <1>1, UnchangedKept
<1>3. CASE pc[Boot] = "idle"
  <2>1. There(p, Sought(op))
    BY <1>3 DEF Asking
  <2>2. There(p, Sought(op))' /\ Found(p, Sought(op))' = Found(p, Sought(op))
    BY <1>2, <2>1, ThereStays DEF IInv
  <2>3. op = "creat" => Sought(op) = "REGULAR"
    BY DEF Sought
  <2>4. op = "creat" => Found(p, "REGULAR")' = Found(p, "REGULAR")
    BY <2>2, <2>3
  <2> QED BY <1>1, <1>3, <2>2, <2>4 DEF Asking
<1>4. CASE pc[Boot] # "idle"
  <2>1. PICK d \in File : d = directory[Boot]
    BY <1>4, BootAssumption DEF IInv, Walking
  <2> PICK w : w = path[Boot][1]
    OBVIOUS
  <2>2. get_file(d, w, Sought(op))' = get_file(d, w, Sought(op))
    BY <1>1, SameFound DEF tree
  <2>3. get_file(directory[Boot], path[Boot][1], Sought(op))' = get_file(d, w, Sought(op))'
    BY <1>1, <2>1
  <2>4. get_file(directory[Boot], path[Boot][1], Sought(op)) = get_file(d, w, Sought(op))
    BY <2>1
  <2> QED BY <1>1, <1>4, <2>2, <2>3, <2>4 DEF Asking
<1> QED BY <1>3, <1>4

LEMMA StutterLoads ==
  ASSUME LoadInv, IInv', UNCHANGED <<vars, load>>
  PROVE  Loading' /\ Latest'
<1>1. UNCHANGED <<archive, address, header, loading, contents>> /\ UNCHANGED vars /\ UNCHANGED pc
  BY DEF load, vars
<1>2. Kept
  BY <1>1, UnchangedKept DEF LoadInv, vars
<1>3. Count' = Count
  BY <1>1 DEF Count
<1>4. (\A i \in 1 .. Count' : Settled(i)') /\ Latest'
  BY <1>1, <1>2, <1>3, LoadedStay
<1>5. ASSUME loading = "call" PROVE Busy'
  <2>1. archive \in Archives /\ header \in 1 .. Len(archive) /\ Busy
    BY <1>5, CountIs DEF LoadInv, Loading
  <2>2. PICK h \in 1 .. Len(archive) : h = header
    BY <2>1
  <2>3. PICK p \in Paths : p = archive[h].path
    BY <2>1, EntryIs
  <2>4. PICK op : op = Called(archive[h].kind)
    OBVIOUS
  <2>5. op # "none" => Asking(p, op)
    BY <2>1, <2>2, <2>3, <2>4 DEF Busy
  <2>6. op # "none" => Asking(p, op)'
    BY <1>1, <2>5, AskingStays DEF LoadInv
  <2>7. archive'[header'].path = p /\ Called(archive[header].kind)' = op
    BY <1>1, <2>2, <2>3, <2>4
  <2>8. op # "none" => Asking(archive[header].path, Called(archive[header].kind))'
    BY <2>6, <2>7
  <2>9. DataAt(header)' = DataAt(h) /\ DataAt(header) = DataAt(h)
    <3>1. DataAt(h)' = DataAt(h)
      BY <1>1, AddressesStay
    <3> QED BY <1>1, <2>2, <3>1
  <2>10. header' # 0 /\ address' = DataAt(header)' /\ (op = "none" => pc'[Boot] = "idle")
    BY <1>1, <2>1, <2>2, <2>4, <2>9 DEF Busy
  <2> QED BY <2>7, <2>8, <2>10 DEF Busy
<1>6. ASSUME loading = "walk" PROVE HeaderAt(header + 1)' = HeaderAt(header + 1)
  <2>1. PICK k : k = header + 1
    OBVIOUS
  <2>2. HeaderAt(k)' = HeaderAt(k)
    BY <1>1, AddressesStay
  <2> QED BY <1>1, <2>1, <2>2
<1>7. (\A i \in 1 .. header' : ~ Ends(archive[i])') /\ (Ends(archive[header + 1])' <=> Ends(archive[header + 1]))
  <2>1. PICK h : h = header + 1 /\ h = header' + 1
    BY <1>1
  <2>2. Ends(archive[h])' <=> Ends(archive[h])
    BY <1>1, EndsStay
  <2> QED BY <1>1, <2>1, <2>2, EndsStay DEF LoadInv, Loading
<1> QED BY <1>1, <1>4, <1>5, <1>6, <1>7 DEF LoadInv, Loading, align

LEMMA StartLoads ==
  ASSUME LoadInit, Proper
  PROVE  LoadInv
<1>1. IInv /\ VisibleInv
  BY Start, StartVisible DEF LoadInit
<1>2. /\ archive \in Archives /\ address = 0 /\ header = 0 /\ loading = "walk"
      /\ pc[Boot] = "idle" /\ contents = [f \in File |-> contents[f]]
  BY BootAssumption DEF LoadInit, Init
<1>3. Count = 0 /\ \A i : ~ (i \in 1 .. Count)
  BY <1>2 DEF Count
<1>4. align(address, 4) = HeaderAt(header + 1)
  <2>1. HeaderAt(1) = 0 /\ 0 + 1 = 1 /\ (0 + 3) \div 4 = 0
    BY <1>2, HeadersAre
  <2>2. align(0, 4) = 0
    BY <2>1 DEF align
  <2> QED BY <1>2, <2>1, <2>2
<1>5. header \in 0 .. Len(archive)
  <2>1. PICK n \in Nat : n = Len(archive)
    BY <1>2, EntryIs
  <2> QED BY <1>2, <2>1
<1>6. Loading
  <2>1. \A i : ~ (i \in 1 .. header)
    BY <1>2
  <2> QED BY <1>2, <1>3, <1>4, <1>5, <2>1 DEF Loading
<1>7. Latest
  BY <1>2, <1>3 DEF Latest
<1> QED BY <1>1, <1>6, <1>7 DEF LoadInv

LEMMA NextLoads ==
  ASSUME LoadInv, [LoadNext]_<<vars, load>>, Proper'
  PROVE  LoadInv'
<1>1. IInv'
  BY LoadingStep, Stutter DEF LoadInv
<1>2. VisibleInv'
  BY <1>1, LoadingVisible, StutterVisible DEF LoadInv, Loading
<1>3. Loading' /\ Latest'
  BY <1>1, WalkEndLoads, WalkLoads, CallLoads, LoadedLoads, ThreadsLoad, StutterLoads DEF LoadNext
<1> QED BY <1>1, <1>2, <1>3 DEF LoadInv

\* Of any archive; what holds of a proper one needs LoadInv.
AnyInv == IInv /\ VisibleInv /\ archive \in Archives /\ (Proper => LoadInv)

LEMMA StartAny ==
  ASSUME LoadInit
  PROVE  AnyInv
BY Start, StartVisible, StartLoads DEF LoadInit, AnyInv

LEMMA NextAny ==
  ASSUME AnyInv, [LoadNext]_<<vars, load>>
  PROVE  AnyInv'
<1>1. IInv'
  BY LoadingStep, Stutter DEF AnyInv
<1>2. VisibleInv'
  BY <1>1, LoadingVisible, StutterVisible DEF AnyInv
<1>3. UNCHANGED archive /\ UNCHANGED mod_start
  BY DEF LoadNext, WalkEnd, Walk, LoadStep, Loaded, Threads, load
<1>4. Proper' => LoadInv'
  BY <1>3, ProperStays, NextLoads DEF AnyInv
<1> QED BY <1>1, <1>2, <1>3, <1>4 DEF AnyInv

LEMMA LatestLoaded ==
  ASSUME LoadInv
  PROVE  ArchiveLoaded
<1> SUFFICES ASSUME loading = "done", NEW i \in Regular
             PROVE  \E j \in Regular :
                      /\ j >= i /\ Target(j) = Target(i)
                      /\ \A k \in Regular : Target(k) = Target(i) => k <= j
                      /\ contents[Target(i)] = [from |-> DataAt(j), size |-> archive[j].filesize]
  BY DEF ArchiveLoaded
<1>1. /\ archive \in Archives /\ Count = header /\ header \in 0 .. Len(archive)
      /\ header = Len(archive) \/ Ends(archive[header + 1])
      /\ \A k \in 1 .. header : ~ Ends(archive[k])
  BY CountIs DEF LoadInv, Loading
<1>2. Regular = {k \in 1 .. Count : archive[k].kind = "regular"}
  <2>1. PICK n \in Nat, h \in Nat : /\ n = Len(archive) /\ h = header /\ h <= n
                                    /\ DOMAIN archive = 1 .. n
    <3>1. PICK n \in Nat : n = Len(archive) /\ DOMAIN archive = 1 .. n
      BY <1>1, LengthIs
    <3>2. PICK h \in Nat : h = header /\ h <= n
      BY <1>1, <3>1
    <3> QED BY <3>1, <3>2
  <2>2. ASSUME NEW k \in 1 .. n, \A j \in 1 .. k : ~ Ends(archive[j]) PROVE k \in 1 .. h
    <3>1. CASE k > h
      <4>1. h + 1 \in 1 .. k /\ h # n
        BY <2>1, <3>1
      <4> QED BY <1>1, <2>1, <2>2, <4>1
    <3> QED BY <2>1, <3>1
  <2>3. \A k \in 1 .. h : k \in 1 .. n /\ \A j \in 1 .. k : ~ Ends(archive[j])
    <3>1. \A k \in 1 .. h : k \in 1 .. n /\ \A j \in 1 .. k : j \in 1 .. h
      BY <2>1
    <3> QED BY <1>1, <2>1, <3>1
  <2> QED BY <1>1, <2>1, <2>2, <2>3 DEF Regular
<1>3. PICK j \in 1 .. Count : IsLatest(i, j)
  BY <1>2 DEF LoadInv, Latest
<1> QED BY <1>2, <1>3 DEF IsLatest

\* What a call has returned stays where its path leads to, from the first
\* call that loads the archive on.
THEOREM FoundLoaded == LoadSpec => []StaysFound
<1>1. LoadInit => AnyInv
  BY StartAny
<1>2. AnyInv /\ [LoadNext]_<<vars, load>> => AnyInv'
  BY NextAny
<1>3. AnyInv => StaysFound
  BY VisibleFound DEF AnyInv
<1> QED BY <1>1, <1>2, <1>3, PTL DEF LoadSpec

\* The walk over an archive meets every header where it is, and open finds or
\* makes every regular file: its data is never written to NULL.
THEOREM LoadingDefined == LoadSpec => []NeverUndefined
<1>1. LoadInit => AnyInv
  BY StartAny
<1>2. AnyInv /\ [LoadNext]_<<vars, load>> => AnyInv'
  BY NextAny
<1>3. AnyInv => NeverUndefined
  BY DEF AnyInv, LoadInv, Loading, NeverUndefined
<1> QED BY <1>1, <1>2, <1>3, PTL DEF LoadSpec

\* The files hold what the archive says, and still do when the threads run.
THEOREM LoadingDone == LoadSpec => [](Proper => ArchiveLoaded)
<1>1. LoadInit => AnyInv
  BY StartAny
<1>2. AnyInv /\ [LoadNext]_<<vars, load>> => AnyInv'
  BY NextAny
<1>3. AnyInv => (Proper => ArchiveLoaded)
  BY LatestLoaded DEF AnyInv
<1> QED BY <1>1, <1>2, <1>3, PTL DEF LoadSpec

-----------------------------------------------------------------------------
(* The tree has a root *)

\* Each file is further away from the root than the directory it is in.
Ranked ==
  \E rank \in [File -> Nat] : \A d \in File : \A f \in Linked(d) : rank[d] < rank[f]

\* Directories that threads are about to add to are in the tree already, and
\* nothing else has children, each in one place.
Growing ==
  /\ \A t \in Thread : pc[t] # "idle" => directory[t] \in InTree
  /\ \A f \in File \ InTree : Linked(f) = {}
  /\ \A d \in File : \A i, j \in DOMAIN children[d] : children[d][i] = children[d][j] => i = j
  /\ Ranked

\* What is in the tree is the root or a child.
LEMMA InTreeIs ==
  ASSUME IInv
  PROVE  /\ InTree \subseteq File /\ Root \in InTree
         /\ \A f \in File : f \in InTree <=> f = Root \/ \E d \in File : f \in Linked(d)
         /\ \A d \in File : Linked(d) \subseteq File /\ Linked(d) \subseteq InTree /\ Root \notin Linked(d)
<1>1. ASSUME NEW d \in File PROVE Linked(d) \subseteq File
  <2>1. PICK s \in Seq(File) : s = children[d]
    BY DEF IInv, DirTypeOK
  <2>2. \A i \in DOMAIN s : s[i] \in File
    OBVIOUS
  <2> QED BY <2>1, <2>2 DEF Linked
<1>2. \A d \in File : Root \notin Linked(d)
  BY RootAssumption DEF IInv, Placed
<1> QED BY <1>1, <1>2, RootAssumption DEF InTree

LEMMA GrowQuiet ==
  ASSUME Growing, UNCHANGED children,
         \A u \in Thread : pc'[u] # "idle" => directory'[u] \in InTree
  PROVE  Growing'
<1>1. (\A d \in File : Linked(d)' = Linked(d)) /\ InTree' = InTree
  BY DEF Linked, InTree
<1> QED BY <1>1 DEF Growing, Ranked

LEMMA GrowReturn ==
  ASSUME IInv, Growing, NEW t \in Thread, NEW f, Return(t, f), UNCHANGED tree
  PROVE  Growing'
<1>1. \A u \in Thread : pc'[u] # "idle" => pc[u] # "idle" /\ directory'[u] = directory[u]
  BY DEF Return, IInv, DirTypeOK
<1>2. \A u \in Thread : pc'[u] # "idle" => directory'[u] \in InTree
  BY <1>1 DEF Growing
<1> QED BY <1>2, GrowQuiet DEF tree

LEMMA GrowCall ==
  ASSUME IInv, Growing, NEW t \in Thread, NEW request, Call(t, request)
  PROVE  Growing'
<1>1. Root \in InTree
  BY RootAssumption DEF InTree
<1>2. UNCHANGED children /\ directory'[t] = Root
      /\ \A u \in Thread : u # t => pc'[u] = pc[u] /\ directory'[u] = directory[u]
  BY DEF Call, IInv, DirTypeOK, tree
<1>3. \A u \in Thread : pc'[u] # "idle" => directory'[u] \in InTree
  BY <1>1, <1>2 DEF Growing
<1> QED BY <1>2, <1>3, GrowQuiet

LEMMA GrowDescend ==
  ASSUME IInv, Growing, NEW t \in Thread, Descend(t)
  PROVE  Growing'
<1> DEFINE d == get_file(directory[t], Head(path[t]), "DIRECTORY")
<1>1. CASE d = None
  BY <1>1, GrowReturn DEF Descend
<1>2. CASE d # None
  <2>1. directory[t] \in File
    BY DEF Descend, IInv, Walking
  <2>2. d \in Linked(directory[t]) /\ d \in File
    BY <1>2, <2>1, FoundChild DEF IInv
  <2>3. d \in InTree
    BY <2>1, <2>2 DEF InTree
  <2> HIDE DEF d
  <2>4. directory' = [directory EXCEPT ![t] = d] /\ pc' = pc /\ UNCHANGED children
    BY <1>2 DEF Descend, d, tree
  <2>5. \A u \in Thread : pc'[u] # "idle" => directory'[u] \in InTree
    BY <2>3, <2>4 DEF Growing, IInv, DirTypeOK
  <2> QED BY <2>4, <2>5, GrowQuiet
<1> QED BY <1>1, <1>2

LEMMA GrowLookup ==
  ASSUME IInv, Growing, NEW t \in Thread, Lookup(t)
  PROVE  Growing'
<1> DEFINE f == get_file(directory[t], path[t][1], Wanted(t))
<1>1. CASE f = None /\ call[t].op # "open"
  <2>1. pc' = [pc EXCEPT ![t] = "create"] /\ UNCHANGED <<children, directory>> /\ pc[t] = "lookup"
    BY <1>1 DEF Lookup, locals, tree
  <2>2. \A u \in Thread : pc'[u] # "idle" => pc[u] # "idle"
    BY <2>1 DEF IInv, DirTypeOK
  <2>3. \A u \in Thread : pc'[u] # "idle" => directory'[u] \in InTree
    BY <2>1, <2>2 DEF Growing
  <2> QED BY <2>1, <2>3, GrowQuiet
<1>2. CASE ~ (f = None /\ call[t].op # "open")
  BY <1>2, GrowReturn DEF Lookup
<1> QED BY <1>1, <1>2

LEMMA GrowCreate ==
  ASSUME IInv, Growing, NEW t \in Thread, Create(t)
  PROVE  Growing'
<1>1. pc[t] = "create" /\ pc' = [pc EXCEPT ![t] = "add"] /\ UNCHANGED <<children, directory>>
  BY DEF Create
<1>2. \A u \in Thread : pc'[u] # "idle" => pc[u] # "idle"
  BY <1>1 DEF IInv, DirTypeOK
<1>3. \A u \in Thread : pc'[u] # "idle" => directory'[u] \in InTree
  BY <1>1, <1>2 DEF Growing
<1> QED BY <1>1, <1>3, GrowQuiet

\* What Add does to the tree: a file that was not in it becomes the last child.
LEMMA Added ==
  ASSUME IInv, Growing, NEW t \in Thread, Add(t)
  PROVE  \E d \in InTree, f \in File \ InTree :
           /\ d = directory[t] /\ f = file[t]
           /\ children[d] \in Seq(File) /\ children'[d] = Append(children[d], f)
           /\ \A e \in File : e # d => children'[e] = children[e] /\ Linked(e)' = Linked(e)
           /\ Linked(d)' = Linked(d) \cup {f}
           /\ InTree' = InTree \cup {f}
<1>1. PICK d \in File, f \in File : d = directory[t] /\ f = file[t]
  BY DEF Add, IInv, DirTypeOK, Walking, Holding
<1>2. children' = [children EXCEPT ![d] = Append(@, f)] /\ pc[t] = "add"
  BY <1>1 DEF Add, Link
<1>3. d \in InTree
  BY <1>1, <1>2 DEF Growing
<1>4. f \notin InTree
  <2>1. f # Root /\ f # None
    BY <1>1, <1>2, RootAssumption DEF IInv, DirTypeOK, Holding
  <2>2. \A e \in File : f \notin Linked(e)
    BY <1>1 DEF IInv, Placed
  <2> QED BY <2>1, <2>2, InTreeIs
<1>5. /\ children[d] \in Seq(File) /\ children'[d] = Append(children[d], f)
      /\ \A e \in File : e # d => children'[e] = children[e]
  BY <1>2 DEF IInv, DirTypeOK
<1>6. Linked(d)' = Linked(d) \cup {f}
  <2>1. {Append(children[d], f)[i] : i \in DOMAIN Append(children[d], f)} =
          {children[d][i] : i \in DOMAIN children[d]} \cup {f}
    BY <1>5, AppendedSet
  <2> QED BY <1>5, <2>1 DEF Linked
<1>7. \A e \in File : e # d => Linked(e)' = Linked(e)
  BY <1>5 DEF Linked
<1>8. InTree' = InTree \cup {f}
  BY <1>6, <1>7 DEF InTree
<1> QED BY <1>1, <1>3, <1>4, <1>5, <1>6, <1>7, <1>8

LEMMA GrowAdd ==
  ASSUME IInv, IInv', Growing, NEW t \in Thread, Add(t)
  PROVE  Growing'
<1>1. PICK d \in InTree, f \in File \ InTree :
        /\ children[d] \in Seq(File) /\ children'[d] = Append(children[d], f)
        /\ \A e \in File : e # d => children'[e] = children[e] /\ Linked(e)' = Linked(e)
        /\ Linked(d)' = Linked(d) \cup {f}
        /\ InTree' = InTree \cup {f}
  BY Added
<1>2. d \in File /\ f # d /\ Linked(f) = {} /\ \A e \in File : f \notin Linked(e)
  BY <1>1, InTreeIs DEF Growing
<1>3. Ranked'
  <2>1. PICK rank \in [File -> Nat] : \A e \in File : \A g \in Linked(e) : rank[e] < rank[g]
    BY DEF Growing, Ranked
  <2>2. PICK k \in Nat : k = rank[d] + 1
    BY <1>2
  <2>3. PICK r \in [File -> Nat] : r[f] = k /\ \A e \in File : e # f => r[e] = rank[e]
    <3>1. [rank EXCEPT ![f] = k] \in [File -> Nat]
      OBVIOUS
    <3> QED BY <3>1
  <2>4. ASSUME NEW e \in File, NEW g \in Linked(e)' PROVE r[e] < r[g]
    <3>1. e # f
      BY <1>1, <1>2, <2>4
    <3>2. g \in Linked(e) \/ (e = d /\ g = f)
      BY <1>1, <2>4
    <3>3. CASE g \in Linked(e)
      <4>1. g \in File /\ g # f
        BY <3>3, <1>2, InTreeIs
      <4> QED BY <4>1, <3>1, <3>3, <2>1, <2>3
    <3>4. CASE e = d /\ g = f
      <4>1. r[g] = k /\ r[e] = rank[d] /\ rank[d] \in Nat
        BY <3>1, <3>4, <2>3, <1>2
      <4> QED BY <4>1, <2>2
    <3> QED BY <3>2, <3>3, <3>4
  <2> QED BY <2>4 DEF Ranked
<1>4. \A e \in File \ InTree' : Linked(e)' = {}
  BY <1>1 DEF Growing
<1>5. ASSUME NEW e \in File, NEW i \in DOMAIN children'[e], NEW j \in DOMAIN children'[e],
             children'[e][i] = children'[e][j]
      PROVE  i = j
  <2>1. CASE e # d
    BY <1>1, <1>5, <2>1 DEF Growing
  <2>2. CASE e = d
    <3>1. PICK s \in Seq(File) : s = children[d]
      BY <1>1
    <3>2. /\ DOMAIN Append(s, f) = 1 .. Len(s) + 1 /\ DOMAIN s = 1 .. Len(s) /\ Len(s) \in Nat
          /\ \A k \in 1 .. Len(s) : Append(s, f)[k] = s[k]
          /\ Append(s, f)[Len(s) + 1] = f
      BY Appended
    <3>3. \A k \in 1 .. Len(s) : s[k] # f
      BY <1>2, <3>1, <3>2 DEF Linked
    <3>4. \A k, l \in 1 .. Len(s) : s[k] = s[l] => k = l
      BY <1>2, <3>1, <3>2 DEF Growing
    <3>5. PICK r : r = Append(s, f)
      OBVIOUS
    <3>6. /\ i \in 1 .. Len(s) + 1 /\ j \in 1 .. Len(s) + 1 /\ r[i] = r[j]
          /\ \A k \in 1 .. Len(s) : r[k] = s[k] /\ s[k] # f
          /\ r[Len(s) + 1] = f
      BY <1>1, <1>5, <2>2, <3>1, <3>2, <3>3, <3>5
    <3> QED BY <3>2, <3>4, <3>6
  <2> QED BY <2>1, <2>2
<1>6. \A u \in Thread : pc'[u] # "idle" => directory'[u] \in InTree'
  <2>1. Return(t, file[t])
    BY DEF Add
  <2>2. \A u \in Thread : pc'[u] # "idle" => pc[u] # "idle" /\ directory'[u] = directory[u]
    BY <2>1 DEF Return, IInv, DirTypeOK
  <2> QED BY <1>1, <2>2 DEF Growing
<1> QED BY <1>3, <1>4, <1>5, <1>6 DEF Growing

LEMMA GrowStep ==
  ASSUME IInv, IInv', Growing, NEW t \in Thread, Step(t)
  PROVE  Growing'
BY GrowDescend, GrowLookup, GrowReturn, GrowCreate, GrowAdd DEF Step, ReadDir

LEMMA GrowStutter ==
  ASSUME Growing, UNCHANGED vars
  PROVE  Growing'
<1>1. UNCHANGED <<children, pc, directory>>
  BY DEF vars, tree, locals
<1>2. \A u \in Thread : pc'[u] # "idle" => directory'[u] \in InTree
  BY <1>1 DEF Growing
<1> QED BY <1>1, <1>2, GrowQuiet

LEMMA GrowStart ==
  ASSUME Init
  PROVE  Growing
<1>1. \A d \in File : children[d] = <<>> /\ Linked(d) = {}
  BY DEF Init, Linked
<1>2. Ranked
  <2>1. [f \in File |-> 0] \in [File -> Nat]
    OBVIOUS
  <2> QED BY <1>1, <2>1 DEF Ranked
<1> QED BY <1>1, <1>2 DEF Growing, Init

LEMMA GrowLoading ==
  ASSUME IInv, Growing, LoadNext
  PROVE  Growing'
<1>1. IInv'
  BY LoadingStep
<1>2. CASE WalkEnd
  BY <1>2, GrowStutter DEF WalkEnd
<1>3. CASE Walk
  <2>1. CASE UNCHANGED vars
    BY <2>1, GrowStutter
  <2>2. ASSUME NEW request, Call(Boot, request)
        PROVE  Growing'
    BY <2>2, BootAssumption, GrowCall
  <2> QED BY <1>3, <2>1, <2>2 DEF Walk
<1>4. CASE LoadStep
  BY <1>1, <1>4, BootAssumption, GrowStep DEF LoadStep
<1>5. CASE Loaded
  BY <1>5, GrowStutter DEF Loaded
<1>6. CASE Threads
  BY <1>1, <1>6, GrowStep, GrowCall DEF Threads
<1> QED BY <1>2, <1>3, <1>4, <1>5, <1>6 DEF LoadNext

-----------------------------------------------------------------------------
(* The links of the children of a directory *)

\* Only add_to_directory changes what is in the tree.
LEMMA OnlyAdd ==
  ASSUME IInv, LoadNext
  PROVE  \/ UNCHANGED children /\ Adding = {}
         \/ \E t \in Thread : Add(t) /\ Adding = {t}
<1>1. ASSUME NEW t \in Thread, Step(t)
      PROVE  \/ UNCHANGED children /\ Adding = {}
             \/ Add(t) /\ Adding = {t}
  <2>1. \A u \in Thread : u # t => pc'[u] = pc[u]
    BY <1>1 DEF Step, Descend, Lookup, ReadDir, Create, Add, Return, IInv, DirTypeOK
  <2>2. CASE Add(t)
    <3>1. pc[t] = "add" /\ pc'[t] = "idle"
      BY <2>2 DEF Add, Return, IInv, DirTypeOK
    <3> QED BY <2>1, <2>2, <3>1 DEF Adding
  <2>3. CASE ~ Add(t)
    <3>1. UNCHANGED children /\ pc[t] # "add"
      BY <1>1, <2>3 DEF Step, Descend, Lookup, ReadDir, Create, tree
    <3> QED BY <2>1, <3>1 DEF Adding
  <2> QED BY <2>2, <2>3
<1>2. ASSUME NEW t \in Thread, NEW request, Call(t, request)
      PROVE  UNCHANGED children /\ Adding = {}
  BY <1>2 DEF Call, tree, Adding, IInv, DirTypeOK
<1>3. ASSUME UNCHANGED vars
      PROVE  UNCHANGED children /\ Adding = {}
  BY <1>3 DEF vars, tree, Adding
<1>4. CASE WalkEnd \/ Loaded
  BY <1>3, <1>4 DEF WalkEnd, Loaded
<1>5. CASE Walk
  <2>1. ASSUME NEW request, Call(Boot, request)
        PROVE  UNCHANGED children /\ Adding = {}
    BY <2>1, <1>2, BootAssumption
  <2> QED BY <1>3, <1>5, <2>1 DEF Walk
<1>6. CASE LoadStep
  BY <1>1, <1>6, BootAssumption DEF LoadStep
<1>7. CASE Threads
  BY <1>1, <1>2, <1>7 DEF Threads
<1> QED BY <1>4, <1>5, <1>6, <1>7 DEF LoadNext

\* The files of s form a ring, in the order of s.
Chain(s, nx, pv) ==
  s # <<>> =>
    /\ \A i \in DOMAIN s : nx[s[i]] = IF i = Len(s) THEN s[1] ELSE s[i + 1]
    /\ pv[s[1]] = s[Len(s)]

LEMMA ChainSame ==
  ASSUME NEW nx, NEW pv, NEW nx2, NEW pv2, NEW s, Chain(s, nx, pv),
         \A i \in DOMAIN s : nx2[s[i]] = nx[s[i]],
         s # <<>> => pv2[s[1]] = pv[s[1]]
  PROVE  Chain(s, nx2, pv2)
BY DEF Chain

Changed(p, q, a, x, b, y) ==
  /\ q \in [File -> File] /\ q[a] = x /\ q[b] = y
  /\ \A g \in File : g # a /\ g # b => q[g] = p[g]

LEMMA TwoChanges ==
  ASSUME NEW p \in [File -> File], NEW a \in File, NEW b \in File, a # b,
         NEW x \in File, NEW y \in File
  PROVE  Changed(p, [p EXCEPT ![a] = x, ![b] = y], a, x, b, y)
<1> DEFINE m == [p EXCEPT ![a] = x]
           q == [m EXCEPT ![b] = y]
<1>1. m \in [File -> File] /\ m[a] = x /\ \A g \in File : g # a => m[g] = p[g]
  OBVIOUS
<1> HIDE DEF m
<1>2. q \in [File -> File] /\ q[b] = y /\ \A g \in File : g # b => q[g] = m[g]
  BY <1>1
<1>3. Changed(p, q, a, x, b, y)
  <2> HIDE DEF q
  <2> QED BY <1>1, <1>2 DEF Changed
<1> QED BY <1>3 DEF m

LEMMA ChainGrows ==
  ASSUME NEW nx \in [File -> File], NEW pv \in [File -> File],
         NEW s \in Seq(File), s # <<>>, Chain(s, nx, pv), NEW f \in File,
         \A i \in DOMAIN s : s[i] # f,
         \A i, j \in DOMAIN s : s[i] = s[j] => i = j,
         NEW l, l = list_add_tail([next |-> nx, prev |-> pv], f, s[1])
  PROVE  /\ Chain(Append(s, f), l.next, l.prev)
         /\ l.next \in [File -> File] /\ l.prev \in [File -> File]
         /\ \A g \in File : g # f /\ g # s[Len(s)] => l.next[g] = nx[g]
         /\ \A g \in File : g # f /\ g # s[1] => l.prev[g] = pv[g]
<1>1. PICK n \in Nat : n = Len(s) /\ n > 0 /\ DOMAIN s = 1 .. n
  OBVIOUS
<1>2. PICK h \in File, z \in File : h = s[1] /\ z = s[n] /\ pv[h] = z /\ h # f /\ z # f
  BY <1>1 DEF Chain
<1>3. /\ l.next = [nx EXCEPT ![f] = h, ![z] = f]
      /\ l.prev = [pv EXCEPT ![f] = z, ![h] = f]
  BY <1>2 DEF list_add_tail, list_insert
<1>4. /\ l.next \in [File -> File] /\ l.next[f] = h /\ l.next[z] = f
      /\ \A g \in File : g # f /\ g # z => l.next[g] = nx[g]
  <2>1. Changed(nx, [nx EXCEPT ![f] = h, ![z] = f], f, h, z, f)
    BY <1>2, TwoChanges
  <2> QED BY <1>3, <2>1 DEF Changed
<1>5. /\ l.prev \in [File -> File] /\ l.prev[h] = f
      /\ \A g \in File : g # f /\ g # h => l.prev[g] = pv[g]
  <2>1. Changed(pv, [pv EXCEPT ![f] = z, ![h] = f], f, z, h, f)
    BY <1>2, TwoChanges
  <2> QED BY <1>3, <2>1 DEF Changed
<1>6. PICK r : r = Append(s, f)
  OBVIOUS
<1>7. /\ r # <<>> /\ Len(r) = n + 1 /\ DOMAIN r = 1 .. n + 1
      /\ \A i \in 1 .. n : r[i] = s[i]
      /\ r[n + 1] = f
  <2>1. /\ Len(r) = n + 1 /\ DOMAIN r = 1 .. n + 1 /\ r[n + 1] = f
        /\ \A i \in 1 .. n : r[i] = s[i]
    BY <1>1, <1>6, Appended
  <2>2. Len(r) # Len(<<>>)
    BY <1>1, <2>1
  <2> QED BY <2>1, <2>2
<1>8. ASSUME NEW i \in 1 .. n + 1
      PROVE  l.next[r[i]] = IF i = n + 1 THEN h ELSE r[i + 1]
  <2>1. CASE i = n + 1
    BY <2>1, <1>4, <1>7
  <2>2. CASE i = n
    <3>1. r[i] = z /\ r[i + 1] = f /\ i # n + 1
      BY <2>2, <1>1, <1>2, <1>7
    <3> QED BY <3>1, <1>4
  <2>3. CASE i < n
    <3>1. i \in 1 .. n /\ i + 1 \in 1 .. n /\ i # n /\ i # n + 1
      BY <2>3
    <3>2. r[i] = s[i] /\ r[i + 1] = s[i + 1] /\ s[i] \in File /\ s[i] # z /\ s[i] # f
      BY <3>1, <1>1, <1>2, <1>7
    <3>3. nx[s[i]] = s[i + 1]
      BY <3>1, <1>1 DEF Chain
    <3> QED BY <3>1, <3>2, <3>3, <1>4
  <2> QED BY <2>1, <2>2, <2>3
<1>9. Chain(r, l.next, l.prev)
  <2>1. r[1] = h
    BY <1>1, <1>2, <1>7
  <2> QED BY <2>1, <1>5, <1>7, <1>8 DEF Chain
<1> QED BY <1>1, <1>2, <1>4, <1>5, <1>6, <1>9

\* The pointers are what the sequences of children say.
LinksInv ==
  /\ next \in [File -> File] /\ prev \in [File -> File]
  /\ \A d \in File : Chain(children[d], next, prev)
  /\ \A f \in File \ InTree : next[f] = f /\ prev[f] = f

LEMMA LinksStart == ListingInit => LinksInv
<1> SUFFICES ASSUME ListingInit PROVE LinksInv
  OBVIOUS
<1>1. next = [f \in File |-> f] /\ prev = [f \in File |-> f] /\ children = [f \in File |-> <<>>]
  BY DEF ListingInit, LoadInit, Init
<1> QED BY <1>1 DEF LinksInv, Chain

LEMMA LinksAdd ==
  ASSUME IInv, Growing, LinksInv, NEW t \in Thread, Add(t), AddLinks(t)
  PROVE  LinksInv'
<1>1. PICK d \in InTree, f \in File \ InTree :
        /\ d = directory[t] /\ f = file[t]
        /\ children[d] \in Seq(File) /\ children'[d] = Append(children[d], f)
        /\ \A e \in File : e # d => children'[e] = children[e] /\ Linked(e)' = Linked(e)
        /\ InTree' = InTree \cup {f}
  BY Added
<1>2. PICK s \in Seq(File) : s = children[d]
  BY <1>1
<1>3. /\ d \in File /\ f \notin Linked(d) /\ \A i \in DOMAIN s : s[i] # f
      /\ \A i, j \in DOMAIN s : s[i] = s[j] => i = j
      /\ \A i \in DOMAIN s : s[i] \in File
  BY <1>1, <1>2, InTreeIs DEF Linked, Growing
<1>4. CASE s = <<>>
  <2>1. next' = next /\ prev' = prev
    BY <1>1, <1>2, <1>4 DEF AddLinks, first
  <2>2. next[f] = f /\ prev[f] = f
    BY <1>1 DEF LinksInv
  <2>3. Chain(Append(s, f), next, prev)
    <3>1. PICK r : r = Append(s, f)
      OBVIOUS
    <3>2. Len(s) = 0
      BY <1>4
    <3>3. DOMAIN r = 1 .. 0 + 1 /\ Len(r) = 0 + 1 /\ r[0 + 1] = f
      BY <3>1, <3>2, Appended
    <3>4. DOMAIN r = {1} /\ Len(r) = 1 /\ r[1] = f
      BY <3>3
    <3> QED BY <2>2, <3>1, <3>4 DEF Chain
  <2>4. \A e \in File : Chain(children'[e], next', prev')
    BY <1>1, <1>2, <2>1, <2>3 DEF LinksInv
  <2> QED BY <1>1, <2>1, <2>4 DEF LinksInv
<1>5. CASE s # <<>>
  <2>1. PICK l : /\ l = list_add_tail([next |-> next, prev |-> prev], f, s[1])
                 /\ next' = l.next /\ prev' = l.prev
    <3>1. first(directory[t]) = s[1] /\ s[1] # None
      <4>1. s[1] \in File
        BY <1>3, <1>5
      <4> QED BY <1>1, <1>2, <1>5, <4>1, RootAssumption DEF first
    <3> QED BY <1>1, <3>1 DEF AddLinks
  <2>2. next \in [File -> File] /\ prev \in [File -> File] /\ Chain(s, next, prev)
    BY <1>2, <1>3 DEF LinksInv
  <2>3. /\ Chain(Append(s, f), next', prev')
        /\ next' \in [File -> File] /\ prev' \in [File -> File]
        /\ \A g \in File : g # f /\ g # s[Len(s)] => next'[g] = next[g]
        /\ \A g \in File : g # f /\ g # s[1] => prev'[g] = prev[g]
    BY <1>3, <1>5, <2>1, <2>2, ChainGrows
  <2>4. s[1] \in Linked(d) /\ s[Len(s)] \in Linked(d)
    <3>1. 1 \in DOMAIN s /\ Len(s) \in DOMAIN s
      BY <1>5
    <3> QED BY <1>2, <3>1 DEF Linked
  <2>5. ASSUME NEW e \in File PROVE Chain(children'[e], next', prev')
    <3>1. CASE e = d
      BY <1>1, <1>2, <2>3, <3>1
    <3>2. CASE e # d
      <4>1. PICK r \in Seq(File) : r = children[e] /\ children'[e] = r /\ Chain(r, next, prev)
        BY <1>1, <3>2 DEF LinksInv, IInv, DirTypeOK
      <4>2. \A i \in DOMAIN r : r[i] \in File /\ r[i] # f /\ r[i] # s[1] /\ r[i] # s[Len(s)]
        <5>1. \A i \in DOMAIN r : r[i] \in Linked(e)
          BY <4>1 DEF Linked
        <5>2. f \notin Linked(e) /\ s[1] \notin Linked(e) /\ s[Len(s)] \notin Linked(e)
          BY <1>1, <1>3, <2>4, <3>2, InTreeIs DEF IInv, Apart
        <5> QED BY <5>1, <5>2, InTreeIs
      <4>3. r # <<>> => 1 \in DOMAIN r
        OBVIOUS
      <4>4. \A i \in DOMAIN r : next'[r[i]] = next[r[i]] /\ prev'[r[i]] = prev[r[i]]
        BY <2>3, <4>2
      <4> QED BY <4>1, <4>3, <4>4, ChainSame
    <3> QED BY <3>1, <3>2
  <2>6. ASSUME NEW g \in File \ InTree' PROVE next'[g] = g /\ prev'[g] = g
    <3>1. g \notin InTree /\ g # f /\ g # s[1] /\ g # s[Len(s)]
      BY <1>1, <1>3, <2>4, <2>6, InTreeIs
    <3> QED BY <2>3, <3>1 DEF LinksInv
  <2> QED BY <2>3, <2>5, <2>6 DEF LinksInv
<1> QED BY <1>4, <1>5

LEMMA LinksStay ==
  ASSUME LinksInv, UNCHANGED <<children, links>>
  PROVE  LinksInv'
<1>1. InTree' = InTree
  BY DEF InTree, Linked
<1> QED BY <1>1 DEF LinksInv, links

-----------------------------------------------------------------------------
(* What has been printed *)

Shown == ToSet(printed)

\* print_directory(d) has been called and has not returned.
Open(d) == \E i \in DOMAIN stack : stack[i].directory = d

Frames == [directory : File, first : File \cup {None}, current : File \cup {None}]

\* Of the children of its directory, a call has printed those up to current.
UpTo(frame, c) ==
  LET s == children[frame.directory]
  IN /\ c \in DOMAIN s /\ frame.first = s[1] /\ frame.current = s[c]
     /\ \A k \in DOMAIN s : s[k] \in Shown <=> k <= c

Going(frame) ==
  /\ frame.directory \in Shown
  /\ frame.first = None => Linked(frame.directory) \cap Shown = {}
  /\ frame.first # None => \E c \in Nat : UpTo(frame, c)

PrintTypeOK == printed \in Seq(File) /\ stack \in Seq(Frames)

\* Nothing is printed twice or before its directory.
Ordered ==
  /\ IsInjective(printed)
  /\ \A i \in DOMAIN printed : i > 1 => \E j \in 1 .. i - 1 : printed[i] \in Linked(printed[j])

\* The open calls are of different directories, each at a child.
Calls ==
  /\ \A i \in DOMAIN stack : Going(stack[i])
  /\ \A i, j \in DOMAIN stack : stack[i].directory = stack[j].directory => i = j

\* Children of a directory that has not been printed have not been either;
\* when the call for a directory has returned, the children it had before have.
Covered ==
  /\ \A d \in File : d \notin Shown => Linked(d) \cap Shown = {}
  /\ \A d \in Shown : ~ Open(d) => Linked(d) \cap before \subseteq Shown

Inside ==
  /\ Shown \subseteq InTree /\ before \subseteq InTree
  /\ \A f \in before : f # Root => \E d \in before : f \in Linked(d)
  /\ printed # <<>> => Root \in Shown
  /\ stack # <<>> => printed # <<>>

PrintInv == PrintTypeOK /\ Ordered /\ Calls /\ Covered /\ Inside

LEMMA PrintStart == ListingInit => PrintInv
<1> SUFFICES ASSUME ListingInit PROVE PrintInv
  OBVIOUS
<1>1. stack = <<>> /\ printed = <<>> /\ before = {}
  BY DEF ListingInit
<1>2. Shown = {}
  BY <1>1 DEF Shown, ToSet
<1> QED BY <1>1, <1>2 DEF PrintInv, PrintTypeOK, Ordered, IsInjective, Calls, Covered, Inside

\* Where the tree does not change, only the state of the printing matters.
LEMMA PrintStay ==
  ASSUME PrintInv, UNCHANGED <<children, listing>>
  PROVE  PrintInv'
<1>1. /\ stack' = stack /\ printed' = printed /\ before' = before /\ Shown' = Shown
      /\ InTree' = InTree /\ \A d \in File : Linked(d)' = Linked(d)
  BY DEF listing, Shown, InTree, Linked
<1>2. \A d : Linked(d)' = Linked(d)
  BY DEF Linked
<1>3. \A d : Open(d)' <=> Open(d)
  BY <1>1 DEF Open
<1>4. \A i \in DOMAIN stack : Going(stack[i])' <=> Going(stack[i])
  BY <1>1, <1>2 DEF Going, UpTo
<1>5. PrintTypeOK' /\ Ordered' /\ Calls'
  BY <1>1, <1>2, <1>4 DEF PrintInv, PrintTypeOK, Ordered, Calls
<1>6. Covered'
  BY <1>1, <1>2, <1>3 DEF PrintInv, Covered
<1>7. Inside'
  BY <1>1, <1>2 DEF PrintInv, Inside
<1> QED BY <1>5, <1>6, <1>7 DEF PrintInv

\* A file is added while others are printed: it is not among them.
LEMMA PrintAdd ==
  ASSUME IInv, Growing, PrintInv, NEW t \in Thread, Add(t), UNCHANGED listing
  PROVE  PrintInv'
<1>1. PICK d \in InTree, f \in File \ InTree :
        /\ children[d] \in Seq(File) /\ children'[d] = Append(children[d], f)
        /\ \A e \in File : e # d => children'[e] = children[e] /\ Linked(e)' = Linked(e)
        /\ Linked(d)' = Linked(d) \cup {f}
        /\ InTree' = InTree \cup {f}
  BY Added
<1>2. stack' = stack /\ printed' = printed /\ before' = before /\ Shown' = Shown
  BY DEF listing, Shown
<1>3. /\ d \in File /\ f \notin Shown /\ f \notin before
      /\ Shown \subseteq File /\ \A e \in File : Linked(e) \subseteq Linked(e)'
      /\ \A e \in File : \A g \in Linked(e)' : g \in Linked(e) \/ g = f
  BY <1>1, InTreeIs DEF PrintInv, Inside
<1>4. \A e \in File : Linked(e)' \cap Shown = Linked(e) \cap Shown
                      /\ Linked(e)' \cap before = Linked(e) \cap before
  BY <1>3
<1>5. Ordered'
  <2>1. \A i \in DOMAIN printed : printed[i] \in File
    BY DEF PrintInv, PrintTypeOK
  <2>2. ASSUME NEW i \in DOMAIN printed, i > 1
        PROVE  \E j \in 1 .. i - 1 : printed[i] \in Linked(printed[j])'
    <3>1. PICK j \in 1 .. i - 1 : printed[i] \in Linked(printed[j])
      BY <2>2 DEF PrintInv, Ordered
    <3>2. j \in DOMAIN printed
      <4>1. PICK s \in Seq(File) : s = printed
        BY DEF PrintInv, PrintTypeOK
      <4>2. DOMAIN s = 1 .. Len(s) /\ Len(s) \in Nat /\ i \in 1 .. Len(s)
        BY <2>2, <4>1
      <4> QED BY <4>1, <4>2
    <3> QED BY <1>2, <1>3, <2>1, <3>1, <3>2
  <2> QED BY <1>2, <2>2 DEF PrintInv, Ordered
<1>6. ASSUME NEW i \in DOMAIN stack PROVE Going(stack[i])'
  <2>1. PICK F \in Frames, e \in File : F = stack[i] /\ e = F.directory
    <3>1. stack[i] \in Frames
      BY DEF PrintInv, PrintTypeOK
    <3>2. stack[i].directory \in File
      BY <3>1 DEF Frames
    <3> QED BY <3>1, <3>2
  <2>2. Going(F)
    BY <2>1 DEF PrintInv, Calls
  <2>3. ASSUME F.first # None PROVE \E c \in Nat : UpTo(F, c)'
    <3>1. PICK c \in Nat : UpTo(F, c)
      BY <2>2, <2>3 DEF Going
    <3>2. CASE e # d
      BY <1>1, <1>2, <2>1, <3>1, <3>2 DEF UpTo
    <3>3. CASE e = d
      <4> DEFINE s == children[d]
                 r == Append(s, f)
      <4>1. s \in Seq(File)
        BY <1>1
      <4>2. /\ DOMAIN s = 1 .. Len(s) /\ DOMAIN r = 1 .. Len(s) + 1 /\ Len(s) \in Nat
            /\ \A k \in 1 .. Len(s) : r[k] = s[k]
            /\ r[Len(s) + 1] = f
        BY <4>1, Appended
      <4>3. /\ c \in 1 .. Len(s) /\ F.first = s[1] /\ F.current = s[c]
            /\ \A k \in 1 .. Len(s) : s[k] \in Shown <=> k <= c
        BY <2>1, <3>1, <3>3, <4>1, <4>2 DEF UpTo
      <4>4. /\ c \in DOMAIN r /\ F.first = r[1] /\ F.current = r[c]
            /\ \A k \in DOMAIN r : r[k] \in Shown <=> k <= c
        BY <1>3, <4>2, <4>3
      <4>5. children'[F.directory] = r
        BY <1>1, <2>1, <3>3
      <4> HIDE DEF r
      <4> QED BY <1>2, <4>4, <4>5 DEF UpTo
    <3> QED BY <3>2, <3>3
  <2>4. F.directory \in Shown /\ (F.first = None => Linked(e)' \cap Shown = {})
    BY <1>4, <2>1, <2>2 DEF Going
  <2> QED BY <1>2, <2>1, <2>3, <2>4 DEF Going
<1>7. Calls'
  BY <1>2, <1>6 DEF PrintInv, Calls
<1>8. Covered'
  <2>1. \A e : Open(e)' <=> Open(e)
    BY <1>2 DEF Open
  <2> QED BY <1>2, <1>3, <1>4, <2>1 DEF PrintInv, Covered
<1>9. Inside'
  <2>1. ASSUME NEW g \in before, g # Root PROVE \E e \in before : g \in Linked(e)'
    <3>1. PICK e \in before : g \in Linked(e)
      BY <2>1 DEF PrintInv, Inside
    <3>2. e \in File
      BY InTreeIs DEF PrintInv, Inside
    <3> QED BY <1>3, <3>1, <3>2
  <2> QED BY <1>1, <1>2, <2>1 DEF PrintInv, Inside
<1> QED BY <1>2, <1>5, <1>7, <1>8, <1>9 DEF PrintInv, PrintTypeOK

\* The calls that are left when the last one returns.
LEMMA Callers ==
  ASSUME NEW T, NEW st \in Seq(T), st # <<>>
  PROVE  /\ SubSeq(st, 1, Len(st) - 1) \in Seq(T)
         /\ Len(SubSeq(st, 1, Len(st) - 1)) = Len(st) - 1
         /\ DOMAIN SubSeq(st, 1, Len(st) - 1) = 1 .. Len(st) - 1
         /\ \A i \in 1 .. Len(st) - 1 : SubSeq(st, 1, Len(st) - 1)[i] = st[i]
         /\ Len(st) \in Nat /\ Len(st) > 0 /\ DOMAIN st = 1 .. Len(st)
<1>1. PICK n \in Nat : n = Len(st) /\ n > 0 /\ DOMAIN st = 1 .. n /\ \A i \in 1 .. n : st[i] \in T
  OBVIOUS
<1>2. PICK r : r = SubSeq(st, 1, n - 1)
  OBVIOUS
<1>3. 1 \in Int /\ n - 1 \in Int /\ \A i \in 1 .. n - 1 : st[i] \in T
  BY <1>1
<1>4. /\ r \in Seq(T)
      /\ Len(r) = (IF 1 <= n - 1 THEN n - 1 - 1 + 1 ELSE 0)
      /\ \A i \in 1 .. n - 1 - 1 + 1 : r[i] = st[1 + i - 1]
  BY <1>2, <1>3, SubSeqProperties
<1>5. Len(r) = n - 1 /\ DOMAIN r = 1 .. n - 1
  BY <1>1, <1>4
<1>6. ASSUME NEW i \in 1 .. n - 1 PROVE r[i] = st[i]
  <2>1. n - 1 - 1 + 1 = n - 1 /\ 1 + i - 1 = i
    BY <1>1
  <2> QED BY <1>4, <2>1
<1> QED BY <1>1, <1>2, <1>4, <1>5, <1>6

\* The last call has come to a child and makes another one.
LEMMA Called2 ==
  ASSUME NEW T, NEW st \in Seq(T), st # <<>>, NEW G \in T, NEW H \in T,
         NEW k, k = Len(st), NEW r, r = Append(Append(SubSeq(st, 1, Len(st) - 1), G), H)
  PROVE  /\ r \in Seq(T) /\ DOMAIN r = 1 .. k + 1 /\ r[k] = G /\ r[k + 1] = H
         /\ \A i \in 1 .. k - 1 : r[i] = st[i]
         /\ k \in Nat /\ k > 0 /\ DOMAIN st = 1 .. k
<1> DEFINE c == SubSeq(st, 1, Len(st) - 1)
           q == Append(c, G)
<1>1. /\ c \in Seq(T) /\ Len(c) = k - 1 /\ \A i \in 1 .. k - 1 : c[i] = st[i]
      /\ k \in Nat /\ k > 0 /\ DOMAIN st = 1 .. k
  BY Callers
<1> HIDE DEF c
<1>2. q \in Seq(T) /\ Len(q) = k /\ q[k] = G /\ \A i \in 1 .. k - 1 : q[i] = st[i]
  BY <1>1
<1> HIDE DEF q
<1>3. r = Append(q, H)
  BY DEF q, c
<1>4. /\ r \in Seq(T) /\ Len(r) = k + 1 /\ DOMAIN r = 1 .. k + 1 /\ r[k + 1] = H
      /\ \A i \in 1 .. k : r[i] = q[i]
  BY <1>1, <1>2, <1>3
<1> QED BY <1>1, <1>2, <1>4

LEMMA ShownAppended ==
  ASSUME NEW s \in Seq(File), NEW f \in File
  PROVE  ToSet(Append(s, f)) = ToSet(s) \cup {f}
<1>1. {Append(s, f)[i] : i \in DOMAIN Append(s, f)} = {s[i] : i \in DOMAIN s} \cup {f}
  BY AppendedSet
<1> QED BY <1>1 DEF ToSet

\* The name of a child, number c, of the directory of the last call is printed.
LEMMA PrintChild ==
  ASSUME IInv, Growing, PrintInv, stack # <<>>, NEW d \in File, d = Last(stack).directory,
         NEW s, s = children[d], NEW c \in DOMAIN s, \A k \in DOMAIN s : s[k] \in Shown <=> k < c,
         PrintName(Append(Caller, [directory |-> d, first |-> s[1], current |-> s[c]]), s[c]),
         UNCHANGED children
  PROVE  PrintInv'
<1> DEFINE n == s[c]
           G == [directory |-> d, first |-> s[1], current |-> n]
<1>1. /\ s \in Seq(File) /\ DOMAIN s = 1 .. Len(s) /\ Len(s) \in Nat /\ c \in Nat
      /\ \A k \in DOMAIN s : s[k] \in File /\ s[k] \in Linked(d)
      /\ n \in File /\ n \in Linked(d) /\ s[1] \in File
      /\ \A i, j \in DOMAIN s : s[i] = s[j] => i = j
  <2>1. PICK q \in Seq(File) : q = s
    BY DEF IInv, DirTypeOK
  <2>2. DOMAIN q = 1 .. Len(q) /\ Len(q) \in Nat /\ 1 \in DOMAIN q /\ c \in Nat
        /\ \A k \in DOMAIN q : q[k] \in File
    BY <2>1
  <2>3. \A k \in DOMAIN s : s[k] \in Linked(d)
    BY DEF Linked
  <2> QED BY <2>1, <2>2, <2>3 DEF Growing
<1>2. PICK k \in Nat : k = Len(stack)
  BY DEF PrintInv, PrintTypeOK
<1>3. d \in Shown /\ n \notin Shown /\ d # n /\ n \in InTree /\ n # None /\ s[1] # None
  <2>1. k \in DOMAIN stack /\ Last(stack) = stack[k]
    BY <1>2 DEF PrintInv, PrintTypeOK, Last
  <2>2. d \in Shown
    BY <2>1 DEF PrintInv, Calls, Going
  <2> QED BY <1>1, <2>2, InTreeIs, RootAssumption
<1>4. G \in Frames /\ Frame(n) \in Frames
  BY <1>1 DEF Frame, Frames
<1>5. /\ stack' = Append(Append(SubSeq(stack, 1, Len(stack) - 1), G), Frame(n))
      /\ printed' = Append(printed, n) /\ before' = before /\ children' = children
  BY DEF PrintName, Caller
<1> HIDE DEF G, n
<1>6. /\ stack' \in Seq(Frames) /\ DOMAIN stack' = 1 .. k + 1 /\ stack'[k] = G /\ stack'[k + 1] = Frame(n)
      /\ \A i \in 1 .. k - 1 : stack'[i] = stack[i]
      /\ k > 0 /\ DOMAIN stack = 1 .. k
  <2>1. stack \in Seq(Frames)
    BY DEF PrintInv, PrintTypeOK
  <2> QED BY <1>2, <1>4, <1>5, <2>1, Called2
<1>7. /\ stack[k].directory = d /\ G.directory = d /\ Frame(n).directory = n
      /\ G.first = s[1] /\ G.current = n /\ Frame(n).first = None
  <2>1. stack[k].directory = d
    BY <1>2 DEF Last
  <2> QED BY <2>1 DEF G, Frame
<1>8. Shown' = Shown \cup {n} /\ InTree' = InTree /\ \A e : Linked(e)' = Linked(e)
  <2>1. printed \in Seq(File)
    BY DEF PrintInv, PrintTypeOK
  <2>2. Shown' = Shown \cup {n}
    BY <1>1, <1>5, <2>1, ShownAppended DEF Shown, n
  <2> QED BY <1>5, <2>2 DEF InTree, Linked
<1>9. /\ \A e \in File : e # d => n \notin Linked(e)
      /\ \A e \in Shown : e \in File /\ e # n
  BY <1>1, <1>3, InTreeIs DEF IInv, Apart, PrintInv, Inside
<1>10. Ordered'
  <2>1. PICK p \in Seq(File) : p = printed
    BY DEF PrintInv, PrintTypeOK
  <2>2. PICK r : r = Append(p, n)
    OBVIOUS
  <2>3. /\ DOMAIN p = 1 .. Len(p) /\ Len(p) \in Nat /\ DOMAIN r = 1 .. Len(p) + 1
        /\ \A i \in 1 .. Len(p) : r[i] = p[i]
        /\ r[Len(p) + 1] = n
    BY <1>1, <2>2, Appended DEF n
  <2>4. \A i \in 1 .. Len(p) : p[i] # n
    BY <1>3, <2>1, <2>3 DEF Shown, ToSet
  <2>5. \A i, j \in 1 .. Len(p) : p[i] = p[j] => i = j
    BY <2>1, <2>3 DEF PrintInv, Ordered, IsInjective
  <2>6. \A i, j \in DOMAIN r : r[i] = r[j] => i = j
    BY <2>3, <2>4, <2>5
  <2>7. PICK m \in 1 .. Len(p) : p[m] = d
    BY <1>3, <2>1, <2>3 DEF Shown, ToSet
  <2>8. ASSUME NEW i \in DOMAIN r, i > 1
        PROVE  \E j \in 1 .. i - 1 : r[i] \in Linked(r[j])
    <3>1. CASE i = Len(p) + 1
      <4>1. m \in 1 .. i - 1 /\ r[m] = d /\ r[i] = n
        BY <3>1, <2>3, <2>7
      <4> QED BY <4>1, <1>1 DEF n
    <3>2. CASE i # Len(p) + 1
      <4>1. i \in 1 .. Len(p) /\ r[i] = p[i]
        BY <3>2, <2>3
      <4>2. PICK j \in 1 .. i - 1 : p[i] \in Linked(p[j])
        BY <4>1, <2>1, <2>3, <2>8 DEF PrintInv, Ordered
      <4>3. r[j] = p[j]
        BY <4>1, <2>3
      <4> QED BY <4>1, <4>2, <4>3
    <3> QED BY <3>1, <3>2
  <2>9. printed' = r
    BY <1>5, <2>1, <2>2
  <2> HIDE DEF Linked
  <2> QED BY <1>8, <2>6, <2>8, <2>9 DEF Ordered, IsInjective
<1>11. ASSUME NEW i \in DOMAIN stack', NEW F, F = stack'[i] PROVE Going(F)'
  <2>1. CASE i = k
    <3>1. \A j \in DOMAIN s : s[j] \in Shown' <=> j <= c
      <4>1. \A j \in DOMAIN s : s[j] = n <=> j = c
        BY <1>1 DEF n
      <4> QED BY <4>1, <1>1, <1>8
    <3>2. F.directory = d /\ F.first = s[1] /\ F.current = s[c]
      BY <1>6, <1>7, <1>11, <2>1 DEF n
    <3>3. UpTo(F, c)'
      BY <1>5, <3>1, <3>2 DEF UpTo
    <3>4. F.first # None /\ d \in Shown'
      BY <1>3, <1>8, <3>2
    <3> QED BY <1>1, <3>2, <3>3, <3>4 DEF Going
  <2>2. CASE i = k + 1
    <3>1. Linked(n) \cap Shown = {} /\ n \notin Linked(n)
      BY <1>1, <1>3, <1>9 DEF PrintInv, Covered, n
    <3>2. F.directory = n /\ F.first = None
      BY <1>6, <1>7, <1>11, <2>2
    <3>3. Linked(n)' \cap Shown' = {} /\ n \in Shown'
      BY <1>8, <3>1
    <3> QED BY <3>2, <3>3 DEF Going
  <2>3. CASE i \in 1 .. k - 1
    <3>1. stack'[i] = stack[i] /\ i \in DOMAIN stack /\ k \in DOMAIN stack /\ i # k
      BY <1>6, <2>3
    <3>2. PICK e : e = F.directory
      OBVIOUS
    <3>3. F = stack[i] /\ Going(F) /\ e # d
      BY <1>7, <1>11, <3>1, <3>2 DEF PrintInv, Calls
    <3>4. e \in Shown /\ e \in File /\ n \notin Linked(e)
      BY <1>9, <3>2, <3>3 DEF Going
    <3>5. F.first = None => Linked(e)' \cap Shown' = {}
      BY <1>8, <3>2, <3>3, <3>4 DEF Going
    <3>6. ASSUME NEW j \in Nat, UpTo(F, j) PROVE UpTo(F, j)'
      <4>1. \A m \in DOMAIN children[e] : children[e][m] # n
        BY <3>4 DEF Linked
      <4>2. \A m \in DOMAIN children[e] : children[e][m] \in Shown' <=> children[e][m] \in Shown
        BY <4>1, <1>8
      <4> QED BY <1>5, <3>2, <3>6, <4>2 DEF UpTo
    <3>7. F.directory \in Shown' /\ (F.first # None => \E j \in Nat : UpTo(F, j)')
      BY <1>8, <3>2, <3>3, <3>4, <3>6 DEF Going
    <3> QED BY <3>2, <3>5, <3>7 DEF Going
  <2>4. i = k \/ i = k + 1 \/ i \in 1 .. k - 1
    BY <1>6
  <2> QED BY <2>1, <2>2, <2>3, <2>4
<1>12. Calls'
  <2>1. /\ \A i \in 1 .. k : stack'[i].directory = stack[i].directory
        /\ \A i \in 1 .. k : stack[i].directory \in Shown
        /\ \A i, j \in 1 .. k : stack[i].directory = stack[j].directory => i = j
    <3>1. \A i \in 1 .. k : i = k \/ i \in 1 .. k - 1
      BY <1>6
    <3> QED BY <1>6, <1>7, <3>1 DEF PrintInv, Calls, Going
  <2>2. \A i \in 1 .. k : stack'[i].directory # n
    BY <1>3, <2>1
  <2>3. stack'[k + 1].directory = n
    BY <1>6, <1>7
  <2>4. \A i \in 1 .. k + 1 : i \in 1 .. k \/ i = k + 1
    BY <1>6
  <2>5. \A i, j \in DOMAIN stack' : stack'[i].directory = stack'[j].directory => i = j
    BY <1>6, <2>1, <2>2, <2>3, <2>4
  <2>6. ASSUME NEW i \in DOMAIN stack' PROVE Going(stack[i])'
    <3>1. PICK F : F = stack'[i]
      OBVIOUS
    <3>2. Going(F)'
      BY <1>11, <3>1
    <3> QED BY <3>1, <3>2 DEF Going, UpTo
  <2> QED BY <2>5, <2>6 DEF Calls
<1>13. Covered'
  <2>1. \A e : Open(e) => Open(e)'
    <3>1. \A i \in 1 .. k : i \in 1 .. k + 1 /\ stack'[i].directory = stack[i].directory
      <4>1. \A i \in 1 .. k : i \in 1 .. k + 1 /\ (i = k \/ i \in 1 .. k - 1)
        BY <1>6
      <4> QED BY <1>6, <1>7, <4>1
    <3> QED BY <1>6, <3>1 DEF Open
  <2>2. Open(n)'
    <3>1. k + 1 \in 1 .. k + 1
      OBVIOUS
    <3> QED BY <1>6, <1>7, <3>1 DEF Open
  <2>3. \A e \in File : e \notin Shown' => Linked(e)' \cap Shown' = {}
    BY <1>3, <1>8, <1>9 DEF PrintInv, Covered
  <2>4. \A e \in Shown' : ~ Open(e)' => Linked(e)' \cap before' \subseteq Shown'
    BY <1>5, <1>8, <2>1, <2>2 DEF PrintInv, Covered
  <2> QED BY <2>3, <2>4 DEF Covered
<1>14. Inside'
  <2>1. printed # <<>> /\ printed' # <<>>
    BY <1>1, <1>5 DEF PrintInv, Inside, PrintTypeOK, n
  <2> QED BY <1>3, <1>5, <1>8, <2>1 DEF PrintInv, Inside
<1>15. PrintTypeOK'
  BY <1>1, <1>5, <1>6 DEF PrintInv, PrintTypeOK, n
<1> QED BY <1>10, <1>12, <1>13, <1>14, <1>15 DEF PrintInv

\* The last call returns when all children of its directory have been printed.
LEMMA PrintReturn ==
  ASSUME IInv, PrintInv, stack # <<>>, Linked(Last(stack).directory) \subseteq Shown,
         stack' = Caller, UNCHANGED <<children, printed, before>>
  PROVE  PrintInv'
<1>1. Shown' = Shown /\ InTree' = InTree /\ \A e : Linked(e)' = Linked(e)
  BY DEF Shown, InTree, Linked
<1>2. PICK k \in Nat : k = Len(stack)
  BY DEF PrintInv, PrintTypeOK
<1>3. /\ stack' \in Seq(Frames) /\ DOMAIN stack' = 1 .. k - 1 /\ DOMAIN stack = 1 .. k /\ k > 0
      /\ \A i \in 1 .. k - 1 : stack'[i] = stack[i]
  <2>1. stack \in Seq(Frames)
    BY DEF PrintInv, PrintTypeOK
  <2>2. PICK st \in Seq(Frames) : st = stack
    BY <2>1
  <2> QED BY <1>2, <2>2, Callers DEF Caller
<1>4. \A i \in 1 .. k - 1 : i \in DOMAIN stack
  BY <1>3
<1>5. \A F : Going(F)' <=> Going(F)
  BY <1>1 DEF Going, UpTo
<1>6. Calls'
  <2>1. ASSUME NEW i \in DOMAIN stack' PROVE Going(stack[i])'
    <3>1. PICK F : F = stack'[i] /\ F = stack[i] /\ i \in DOMAIN stack
      BY <1>3, <1>4
    <3>2. Going(F)'
      BY <1>5, <3>1 DEF PrintInv, Calls
    <3> QED BY <3>1, <3>2 DEF Going, UpTo
  <2> QED BY <1>3, <1>4, <2>1 DEF PrintInv, Calls
<1>7. Covered'
  <2>1. ASSUME NEW e, Open(e), e # Last(stack).directory PROVE Open(e)'
    <3>1. PICK i \in 1 .. k : stack[i].directory = e
      BY <1>3, <2>1 DEF Open
    <3>2. i # k
      BY <1>2, <2>1, <3>1 DEF Last
    <3>3. i \in 1 .. k - 1
      BY <3>2
    <3> QED BY <1>3, <3>1, <3>3 DEF Open
  <2> QED BY <1>1, <2>1 DEF PrintInv, Covered
<1>8. PrintTypeOK' /\ Ordered' /\ Inside'
  BY <1>1, <1>3 DEF PrintInv, PrintTypeOK, Ordered, Inside
<1> QED BY <1>6, <1>7, <1>8 DEF PrintInv
LEMMA PrintBegins ==
  ASSUME IInv, Growing, PrintInv, print_file_system, UNCHANGED children
  PROVE  PrintInv'
<1>1. /\ stack' = <<Frame(Root)>> /\ printed' = <<Root>> /\ before' = InTree
      /\ InTree' = InTree /\ \A e : Linked(e)' = Linked(e)
  BY DEF print_file_system, InTree, Linked
<1>2. /\ DOMAIN stack' = {1} /\ stack'[1] = Frame(Root)
      /\ DOMAIN printed' = {1} /\ printed'[1] = Root
      /\ Frame(Root).directory = Root /\ Frame(Root).first = None
      /\ Frame(Root) \in Frames /\ Root \in File
  BY <1>1, RootAssumption DEF Frame, Frames
<1>3. Shown' = {Root}
  BY <1>2 DEF Shown, ToSet
<1>4. PrintTypeOK'
  <2>1. stack' \in Seq(Frames)
    BY <1>1, <1>2
  <2>2. printed' \in Seq(File)
    BY <1>1, <1>2
  <2> QED BY <2>1, <2>2 DEF PrintTypeOK
<1>5. Ordered'
  BY <1>2 DEF Ordered, IsInjective
<1>6. Calls'
  <2>1. PICK F : F = Frame(Root)
    OBVIOUS
  <2>2. Linked(Root)' \cap Shown' = {}
    BY <1>1, <1>2, <1>3, InTreeIs
  <2>3. Going(F)'
    BY <1>2, <1>3, <2>1, <2>2 DEF Going
  <2>4. ASSUME NEW i \in DOMAIN stack' PROVE Going(stack[i])'
    <3>1. stack'[i] = F
      BY <1>2, <2>1, <2>4
    <3> QED BY <2>3, <3>1 DEF Going, UpTo
  <2> QED BY <1>2, <2>4 DEF Calls
<1>7. Covered'
  <2>1. Open(Root)'
    BY <1>2 DEF Open
  <2>2. \A d \in File : Root \notin Linked(d)
    BY InTreeIs
  <2> QED BY <1>1, <1>3, <2>1, <2>2 DEF Covered
<1>8. Inside'
  <2>1. ASSUME NEW f \in InTree, f # Root PROVE \E d \in InTree : f \in Linked(d)
    <3>1. PICK d \in File : f \in Linked(d)
      BY <2>1, InTreeIs
    <3>2. d \in InTree
      BY <3>1 DEF Growing
    <3> QED BY <3>1, <3>2
  <2> QED BY <1>1, <1>3, <2>1, InTreeIs DEF Inside
<1> QED BY <1>4, <1>5, <1>6, <1>7, <1>8 DEF PrintInv

\* The last call, which is going on.
LEMMA LastCall ==
  ASSUME IInv, PrintInv, stack # <<>>
  PROVE  \E F \in Frames, d \in File : F = Last(stack) /\ d = F.directory /\ Going(F)
<1>1. PICK st \in Seq(Frames) : st = stack
  BY DEF PrintInv, PrintTypeOK
<1>2. Len(st) \in DOMAIN st /\ st[Len(st)] \in Frames
  BY <1>1
<1>3. PICK F \in Frames : F = st[Len(st)]
  BY <1>2
<1>4. F.directory \in File
  BY DEF Frames
<1>5. Going(F) /\ F = Last(stack)
  BY <1>1, <1>2, <1>3 DEF PrintInv, Calls, Last
<1> QED BY <1>4, <1>5

LEMMA PrintFirst ==
  ASSUME IInv, Growing, PrintInv, ReadChildren, UNCHANGED children
  PROVE  PrintInv'
<1>1. stack # <<>> /\ Last(stack).first = None
  BY DEF ReadChildren
<1>2. PICK F \in Frames, d \in File : F = Last(stack) /\ d = F.directory /\ Going(F)
  BY <1>1, LastCall
<1>3. PICK s \in Seq(File) : s = children[d]
  BY DEF IInv, DirTypeOK
<1>4. /\ Linked(d) \cap Shown = {} /\ \A k \in DOMAIN s : s[k] \notin Shown
      /\ Last(stack).directory = d
  <2>1. Linked(d) \cap Shown = {}
    BY <1>1, <1>2 DEF Going
  <2> QED BY <1>2, <1>3, <2>1 DEF Linked
<1>5. CASE s = <<>>
  <2>1. Linked(d) = {} /\ first(d) = None
    BY <1>3, <1>5 DEF Linked, first
  <2>2. stack' = Caller /\ UNCHANGED <<printed, before>>
    BY <1>4, <2>1 DEF ReadChildren
  <2>3. Linked(Last(stack).directory) \subseteq Shown
    BY <1>4, <2>1
  <2> QED BY <1>1, <2>2, <2>3, PrintReturn
<1>6. CASE s # <<>>
  <2>1. PICK c \in DOMAIN s : c = 1 /\ s[c] = s[1]
    BY <1>6
  <2>2. first(d) = s[1] /\ s[1] # None
    <3>1. s[1] \in File
      BY <2>1, <1>6
    <3> QED BY <1>3, <1>6, <3>1, RootAssumption DEF first
  <2>3. PrintName(Append(Caller, [directory |-> d, first |-> s[1], current |-> s[c]]), s[c])
    BY <1>4, <2>1, <2>2 DEF ReadChildren
  <2>4. \A k \in DOMAIN s : s[k] \in Shown <=> k < c
    <3>1. \A k \in DOMAIN s : k \in Nat /\ k >= 1
      OBVIOUS
    <3> QED BY <1>4, <2>1, <3>1
  <2> QED BY <1>1, <1>3, <1>4, <2>3, <2>4, PrintChild
<1> QED BY <1>5, <1>6

LEMMA PrintNext ==
  ASSUME IInv, Growing, LinksInv, PrintInv, ReadNext, UNCHANGED children
  PROVE  PrintInv'
<1>1. stack # <<>> /\ Last(stack).first # None
  BY DEF ReadNext
<1>2. PICK F \in Frames, d \in File : F = Last(stack) /\ d = F.directory /\ Going(F)
  BY <1>1, LastCall
<1>3. PICK s \in Seq(File) : s = children[d]
  BY DEF IInv, DirTypeOK
<1>4. PICK c \in Nat : UpTo(F, c)
  BY <1>1, <1>2 DEF Going
<1>5. /\ c \in DOMAIN s /\ F.first = s[1] /\ F.current = s[c]
      /\ \A k \in DOMAIN s : s[k] \in Shown <=> k <= c
  BY <1>2, <1>3, <1>4 DEF UpTo
<1>6. PICK n : n = next[s[c]]
  OBVIOUS
<1>7. n = (IF c = Len(s) THEN s[1] ELSE s[c + 1])
  <2>1. s # <<>>
    BY <1>5
  <2>2. Chain(s, next, prev)
    BY <1>3 DEF LinksInv
  <2> QED BY <1>5, <1>6, <2>1, <2>2 DEF Chain
<1>8. DOMAIN s = 1 .. Len(s) /\ Len(s) \in Nat /\ \A i, j \in DOMAIN s : s[i] = s[j] => i = j
  <2>1. \A i, j \in DOMAIN children[d] : children[d][i] = children[d][j] => i = j
    BY DEF Growing
  <2>2. \A i, j \in DOMAIN s : s[i] = s[j] => i = j
    BY <1>3, <2>1
  <2> QED BY <2>2
<1>9. CASE n = s[1]
  <2>1. c = Len(s)
    <3>1. CASE c # Len(s)
      <4>1. 1 \in DOMAIN s /\ c + 1 \in DOMAIN s /\ c + 1 # 1
        BY <1>5, <1>8, <3>1
      <4> QED BY <1>7, <1>8, <1>9, <3>1, <4>1
    <3> QED BY <3>1
  <2>2. \A k \in DOMAIN s : s[k] \in Shown
    BY <1>5, <1>8, <2>1
  <2>3. Linked(Last(stack).directory) \subseteq Shown
    BY <1>2, <1>3, <2>2 DEF Linked
  <2>4. stack' = Caller /\ UNCHANGED <<printed, before>>
    BY <1>2, <1>5, <1>6, <1>9 DEF ReadNext
  <2> QED BY <1>1, <2>3, <2>4, PrintReturn
<1>10. CASE n # s[1]
  <2>1. PICK m \in DOMAIN s : m = c + 1 /\ n = s[m]
    <3>1. c # Len(s)
      BY <1>7, <1>10
    <3>2. c + 1 \in DOMAIN s
      <4>1. PICK l \in Nat : l = Len(s) /\ DOMAIN s = 1 .. l
        BY <1>8
      <4>2. c \in DOMAIN s
        BY <1>5
      <4>3. c \in 1 .. l
        BY <4>1, <4>2, Zenon
      <4>4. c + 1 \in 1 .. l
        BY <3>1, <4>1, <4>3
      <4> QED BY <4>1, <4>4, Zenon
    <3>3. n = s[c + 1]
      BY <1>7, <3>1
    <3>4. PICK m : m = c + 1
      OBVIOUS
    <3> QED BY <3>2, <3>3, <3>4
  <2>2. [F EXCEPT !.current = n] = [directory |-> d, first |-> s[1], current |-> s[m]]
    BY <1>2, <1>5, <2>1 DEF Frames
  <2>3. PrintName(Append(Caller, [directory |-> d, first |-> s[1], current |-> s[m]]), s[m])
    <3>1. PrintName(Append(Caller, [F EXCEPT !.current = n]), n)
      BY <1>2, <1>5, <1>6, <1>10 DEF ReadNext
    <3> QED BY <2>1, <2>2, <3>1
  <2>4. \A k \in DOMAIN s : s[k] \in Shown <=> k < m
    <3>1. \A k \in DOMAIN s : k \in Nat /\ (k < c + 1 <=> k <= c)
      BY <1>8
    <3> QED BY <1>5, <2>1, <3>1
  <2>5. Last(stack).directory = d
    BY <1>2
  <2> QED BY <1>1, <1>3, <2>3, <2>4, <2>5, PrintChild
<1> QED BY <1>9, <1>10

LEMMA PrintEnds ==
  ASSUME PrintInv, Printed
  PROVE  PrintInv'
<1>1. stack' = <<>> /\ printed' = <<>> /\ before' = {}
  BY DEF Printed
<1>2. Shown' = {}
  BY <1>1 DEF Shown, ToSet
<1> QED BY <1>1, <1>2 DEF PrintInv, PrintTypeOK, Ordered, IsInjective, Calls, Covered, Inside

ListingInv == IInv /\ Growing /\ LinksInv /\ PrintInv

\* Each step of Listing is one of Initramfs, or leaves its variables alone.
LEMMA ListingLoading ==
  ASSUME [ListingNext]_<<vars, load, links, listing>>
  PROVE  [LoadNext]_<<vars, load>>
BY DEF ListingNext, Others, Printing

LEMMA PrintingStep ==
  ASSUME ListingInv, Printing
  PROVE  ListingInv'
<1>1. UNCHANGED vars /\ UNCHANGED links /\ UNCHANGED children
  BY DEF Printing, vars, tree
<1>2. IInv' /\ Growing' /\ LinksInv'
  BY <1>1, Stutter, GrowStutter, LinksStay DEF ListingInv
<1>3. PrintInv'
  BY <1>1, PrintBegins, PrintFirst, PrintNext, PrintEnds DEF ListingInv, Printing
<1> QED BY <1>2, <1>3 DEF ListingInv

LEMMA OthersStep ==
  ASSUME ListingInv, Others
  PROVE  ListingInv'
<1>1. IInv' /\ Growing'
  BY LoadingStep, GrowLoading DEF ListingInv, Others
<1>2. CASE UNCHANGED children /\ Adding = {}
  <2>1. UNCHANGED links /\ UNCHANGED listing
    BY <1>2 DEF Others
  <2> QED BY <1>1, <1>2, <2>1, LinksStay, PrintStay DEF ListingInv
<1>3. ASSUME NEW t \in Thread, Add(t), Adding = {t}
      PROVE  ListingInv'
  <2>1. AddLinks(t) /\ UNCHANGED listing
    BY <1>3 DEF Others
  <2> QED BY <1>1, <1>3, <2>1, LinksAdd, PrintAdd DEF ListingInv
<1> QED BY <1>2, <1>3, OnlyAdd DEF ListingInv, Others

LEMMA ListingStep == ListingInv /\ [ListingNext]_<<vars, load, links, listing>> => ListingInv'
<1> SUFFICES ASSUME ListingInv, [ListingNext]_<<vars, load, links, listing>> PROVE ListingInv'
  OBVIOUS
<1>1. CASE UNCHANGED <<vars, load, links, listing>>
  <2>1. UNCHANGED vars /\ UNCHANGED links /\ UNCHANGED listing /\ UNCHANGED children
    BY <1>1 DEF vars, tree
  <2> QED BY <2>1, Stutter, GrowStutter, LinksStay, PrintStay DEF ListingInv
<1> QED BY <1>1, PrintingStep, OthersStep DEF ListingNext

\* Of the files that were there and have not been printed, take one closest
\* to the root: the call for its directory has returned.
LEMMA AllPrinted ==
  ASSUME ListingInv, stack = <<>>, printed # <<>>
  PROVE  before \subseteq Shown
<1>1. PICK rank \in [File -> Nat] : \A d \in File : \A f \in Linked(d) : rank[d] < rank[f]
  BY DEF ListingInv, Growing, Ranked
<1>2. before \subseteq File
  BY InTreeIs DEF ListingInv, PrintInv, Inside
<1> SUFFICES ASSUME NEW g \in before, g \notin Shown PROVE FALSE
  OBVIOUS
<1> DEFINE Ranks == {rank[f] : f \in before \ Shown}
<1>3. Ranks \subseteq Nat /\ rank[g] \in Ranks
  BY <1>2
<1>4. PICK m \in Ranks : \A k \in Ranks : m <= k
  <2> HIDE DEF Ranks
  <2> QED BY <1>3, Least
<1>5. PICK f \in before \ Shown : rank[f] = m
  BY <1>4
<1>6. PICK d \in before : f \in Linked(d)
  BY <1>5 DEF ListingInv, PrintInv, Inside
<1>7. d \in Shown
  <2>1. rank[d] < rank[f] /\ rank[d] \in Nat /\ rank[f] \in Nat
    BY <1>1, <1>2, <1>5, <1>6
  <2>2. rank[d] \notin Ranks
    <3> HIDE DEF Ranks
    <3>1. rank[d] \in Ranks => rank[f] <= rank[d]
      BY <1>4, <1>5
    <3> QED BY <2>1, <3>1
  <2> QED BY <1>6, <2>2
<1>8. ~ Open(d)
  BY DEF Open
<1> QED BY <1>5, <1>6, <1>7, <1>8 DEF ListingInv, PrintInv, Covered

\* Whatever the other threads add meanwhile, print_file_system prints each
\* file that was in the tree once, after its directory.
THEOREM TreePrinted == ListingSpec => []PrintsTree
<1>1. ListingInit => ListingInv
  BY Start, GrowStart, LinksStart, PrintStart DEF ListingInit, LoadInit, ListingInv
<1>2. ListingInv /\ [ListingNext]_<<vars, load, links, listing>> => ListingInv'
  BY ListingStep
<1>3. ListingInv => PrintsTree
  BY AllPrinted DEF ListingInv, PrintInv, Ordered, Inside, Shown, ToSet, PrintsTree
<1> QED BY <1>1, <1>2, <1>3, PTL DEF ListingSpec

\* The printing disturbs nobody: what holds of Initramfs holds beside it.
THEOREM ListingLoads == ListingSpec => LoadSpec
<1>1. ListingInit => LoadInit
  BY DEF ListingInit
<1>2. [ListingNext]_<<vars, load, links, listing>> => [LoadNext]_<<vars, load>>
  BY ListingLoading
<1> QED BY <1>1, <1>2, PTL DEF ListingSpec, LoadSpec
=============================================================================
