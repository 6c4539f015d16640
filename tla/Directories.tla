---------------------------- MODULE Directories -----------------------------
(***************************************************************************)
(* The names of file_system.c: open and mkdir called by several threads.   *)
(* A path is a sequence of names, and the tree grows only.  get_file and   *)
(* add_to_directory hold the lock of the directory, so each call of them   *)
(* is one step; between the steps of a thread any other thread may run.    *)
(*                                                                         *)
(* get_file compares as many characters as the name looked for has, so     *)
(* that it also finds files whose names only start with it: Matches.  The  *)
(* contents of files are in Files.                                         *)
(***************************************************************************)
EXTENDS Integers, Sequences, SequencesExt, FiniteSets

CONSTANTS
  Thread,
  File,       \* struct file objects; the supply is a bound
  Root,       \* root_directory
  None,       \* NULL
  Name,
  Prefix,     \* pairs of names the first of which is a prefix of the second
  Path,       \* bound: the paths the threads use
  MaxCalls    \* bound: MaxCalls[t], calls of thread t

ASSUME RootAssumption == Root \in File /\ None \notin File

\* The last name of a path is there, if empty.
Paths == Seq(Name) \ {<<>>}

ASSUME PathAssumption == Path \subseteq Paths

VARIABLES
  type, name, children,      \* fields of struct file; a sequence of files
  pc, call,                  \* where each thread is, and what it was asked for
  path, directory, file,     \* the local variables of open and mkdir
  opened                     \* what each thread's calls of open have returned

tree == <<type, name, children>>
locals == <<path, directory, file>>
vars == <<tree, pc, call, locals, opened>>

\* strncmp(n, wanted, strlen(wanted)) == 0
Matches(n, wanted) == n = wanted \/ <<wanted, n>> \in Prefix

\* The first child of the type whose name matches.
get_file(d, wanted, t) ==
  LET i == SelectInSeq(children[d], LAMBDA f : type[f] = t /\ Matches(name[f], wanted))
  IN IF i = 0 THEN None ELSE children[d][i]

Init ==
  /\ type = [f \in File |-> IF f = Root THEN "DIRECTORY" ELSE "UNUSED"]
  /\ name = [f \in File |-> None]
  /\ children = [f \in File |-> <<>>]
  /\ pc = [t \in Thread |-> "idle"]
  /\ call = [t \in Thread |-> None]
  /\ path = [t \in Thread |-> <<>>]
  /\ directory = [t \in Thread |-> None]
  /\ file = [t \in Thread |-> None]
  /\ opened = [t \in Thread |-> <<>>]

Wanted(t) == IF call[t].op = "mkdir" THEN "DIRECTORY" ELSE "REGULAR"

Call(t, request) ==
  /\ pc[t] = "idle"
  /\ Len(opened[t]) < MaxCalls[t]
  /\ call' = [call EXCEPT ![t] = request]
  /\ path' = [path EXCEPT ![t] = request.path]
  /\ directory' = [directory EXCEPT ![t] = Root]
  /\ pc' = [pc EXCEPT ![t] = "lookup"]
  /\ UNCHANGED <<tree, file, opened>>

\* What the caller gets: a descriptor of the file, or NULL; mkdir says
\* whether it made a directory.
Return(t, f) ==
  /\ opened' = [opened EXCEPT ![t] = Append(@, <<call[t], f>>)]
  /\ call' = [call EXCEPT ![t] = None]
  /\ path' = [path EXCEPT ![t] = <<>>]
  /\ directory' = [directory EXCEPT ![t] = None]
  /\ file' = [file EXCEPT ![t] = None]
  /\ pc' = [pc EXCEPT ![t] = "idle"]

\* get_terminal_directory: one directory of the path
Descend(t) ==
  /\ pc[t] = "lookup" /\ Len(path[t]) > 1
  /\ LET d == get_file(directory[t], Head(path[t]), "DIRECTORY")
     IN IF d = None
        THEN Return(t, None)
        ELSE /\ directory' = [directory EXCEPT ![t] = d]
             /\ path' = [path EXCEPT ![t] = Tail(@)]
             /\ UNCHANGED <<pc, call, file, opened>>
  /\ UNCHANGED tree

\* The call of get_file for the last name of the path
Lookup(t) ==
  /\ pc[t] = "lookup" /\ Len(path[t]) = 1 /\ call[t].op # "readdir"
  /\ LET f == get_file(directory[t], path[t][1], Wanted(t))
     IN IF f = None /\ call[t].op # "open"
        THEN /\ pc' = [pc EXCEPT ![t] = "create"]
             /\ UNCHANGED <<call, locals, opened>>
        ELSE Return(t, IF call[t].op = "mkdir" THEN None ELSE f)
  /\ UNCHANGED tree

\* init_regular or init_directory of a new object, which no one else sees
Create(t) ==
  /\ pc[t] = "create"
  /\ \E f \in File :
       /\ type[f] = "UNUSED"
       /\ type' = [type EXCEPT ![f] = Wanted(t)]
       /\ name' = [name EXCEPT ![f] = path[t][1]]
       /\ file' = [file EXCEPT ![t] = f]
  /\ pc' = [pc EXCEPT ![t] = "add"]
  /\ UNCHANGED <<children, call, path, directory, opened>>

\* readdir: the head of the children of the directory the last name is in,
\* read without the lock.
ReadDir(t) ==
  /\ pc[t] = "lookup" /\ Len(path[t]) = 1 /\ call[t].op = "readdir"
  /\ Return(t, IF children[directory[t]] = <<>> THEN None ELSE Head(children[directory[t]]))
  /\ UNCHANGED tree

\* Mutations: a directory that has children already forgets them; list_add
\* where the code has list_add_tail.
LinkOnly(list, f) == <<f>>
LinkFirst(list, f) == <<f>> \o list

Link(list, f) == Append(list, f)

\* add_to_directory
Add(t) ==
  /\ pc[t] = "add"
  /\ children' = [children EXCEPT ![directory[t]] = Link(@, file[t])]
  /\ Return(t, file[t])
  /\ UNCHANGED <<type, name>>

Step(t) == Descend(t) \/ Lookup(t) \/ ReadDir(t) \/ Create(t) \/ Add(t)

Requests == [op : {"open", "creat", "mkdir", "readdir"}, path : Path]

Next == \E t \in Thread : Step(t) \/ \E request \in Requests : Call(t, request)

Spec == Init /\ [][Next]_vars

-----------------------------------------------------------------------------
(* Properties *)

Linked(d) == {children[d][i] : i \in DOMAIN children[d]}

\* Every file is a child of exactly one directory, once, as soon as the call
\* that makes it returns: the calls of several threads lose none, and only
\* directories have children.
Tree ==
  /\ \A d \in File : Linked(d) # {} => type[d] = "DIRECTORY"
  /\ \A d \in File : Cardinality(Linked(d)) = Len(children[d])
  /\ \A d, e \in File : d # e => Linked(d) \cap Linked(e) = {}
  /\ UNION {Linked(d) : d \in File} =
       {f \in File : type[f] # "UNUSED"} \ ({Root} \cup {file[t] : t \in Thread})

\* What a path leads to never changes, although names may match in several
\* ways and two threads may make a file of the same name.
StableNames ==
  [][\A d \in File, n \in Name, t \in {"REGULAR", "DIRECTORY"} :
       get_file(d, n, t) # None => get_file(d, n, t)' = get_file(d, n, t)]_vars

\* The directory of a name in another.
Under == [z \in File \X Name |-> get_file(z[1], z[2], "DIRECTORY")]

\* The directories a path leads through, its last name left aside.
Way(under, p) ==
  LET at[k \in 0 .. Len(p) - 1] ==
        IF k = 0 THEN Root ELSE
        IF at[k - 1] = None THEN None ELSE under[<<at[k - 1], p[k]>>]
  IN at

Leads(p) == Way(Under, p)[Len(p) - 1]

\* Whatever a call has returned stays where its path leads to: no other
\* thread's call takes it away or puts another directory in front of the one
\* it lies in.
StaysFound ==
  \A t \in Thread : \A i \in DOMAIN opened[t] :
    LET request == opened[t][i][1] f == opened[t][i][2]
    IN f # None =>
         /\ f \in Linked(Leads(request.path))
         /\ request.op = "readdir" => f = Head(children[Leads(request.path)])
         /\ request.op # "readdir" =>
              /\ type[f] = IF request.op = "mkdir" THEN "DIRECTORY" ELSE "REGULAR"
              /\ Matches(name[f], Last(request.path))
=============================================================================
