--------------------------- MODULE MCDirectories ----------------------------
(* Two threads and a few paths: a directory, a name in it, a name that is a *)
(* prefix of another one; no archive, or two whose sizes need padding.  In  *)
(* the second archive `xy' comes before `x', which is a prefix of it, and   *)
(* `last' starts like the name of the trailer; the third lacks a directory. *)
EXTENDS Listing

CONSTANTS x, xy, last, boot, t1, t2, root

MCPrefix == {<<x, xy>>, <<END_OF_ARCHIVE, last>>}
MCPath == {<<x>>, <<xy>>, <<x, x>>}
MCMaxCalls == boot :> 4 @@ t1 :> 2 @@ t2 :> 2

\* The objects of files, but the first, are interchangeable, and two threads.
MCSymmetry == Permutations(File \ {root}) \cup Permutations({t1, t2})

\* Bound: files are printed when there is no archive, which would leave none
\* for the threads to make, and no call has been made that makes none.
Makes(request) == request = None \/ request.op \in {"creat", "mkdir"}

MCPrinting ==
  printed # <<>> =>
    /\ archive = <<>>
    /\ \A t \in Thread :
         Makes(call[t]) /\ \A i \in DOMAIN opened[t] : Makes(opened[t][i][1])

Entry(p, k, s) == [path |-> p, kind |-> k, namesize |-> 2 * Len(p), filesize |-> s]

MCArchives ==
  {<<>>,
   <<Entry(<<x>>, "directory", 0), Entry(<<x, x>>, "regular", 29), Entry(<<xy>>, "regular", 171)>>,
   <<Entry(<<xy>>, "directory", 0), Entry(<<xy, x>>, "regular", 3),
     Entry(<<x>>, "directory", 0), Entry(<<x>>, "link", 1), Entry(<<x, x>>, "regular", 175),
     Entry(<<last>>, "regular", 2), Entry(<<xy>>, "regular", 1)>>,
   <<Entry(<<x, xy>>, "directory", 0), Entry(<<x, x>>, "regular", 1)>>}
=============================================================================
