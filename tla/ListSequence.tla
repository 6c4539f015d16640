---------------------------- MODULE ListSequence ----------------------------
(***************************************************************************)
(* What list.c promises its callers: each list head has a sequence of      *)
(* nodes, and an operation changes the sequences it names and no others.   *)
(***************************************************************************)
EXTENDS Sequences, SequencesExt

CONSTANTS ListHead,    \* list heads
          Node     \* nodes embedded in the objects the lists hold

VARIABLE content   \* content[h]: the nodes after head h

Listed == UNION {ToSet(content[h]) : h \in ListHead}

Init == content = [h \in ListHead |-> <<>>]

AddFirst(n, h) ==
  /\ n \notin Listed
  /\ content' = [content EXCEPT ![h] = <<n>> \o @]

AddLast(n, h) ==
  /\ n \notin Listed
  /\ content' = [content EXCEPT ![h] = Append(@, n)]

\* The head is the position of an entry: the new node goes before it.
AddBefore(n, e) ==
  /\ n \notin Listed
  /\ \E h \in ListHead : \E i \in DOMAIN content[h] :
       /\ content[h][i] = e
       /\ content' = [content EXCEPT ![h] = InsertAt(@, i, n)]

Delete(n) ==
  \E h \in ListHead : \E i \in DOMAIN content[h] :
    /\ content[h][i] = n
    /\ content' = [content EXCEPT ![h] = RemoveAt(@, i)]

\* The whole of list g moves to the front of list h.
Splice(g, h) ==
  /\ g # h
  /\ content' = [content EXCEPT ![g] = <<>>, ![h] = content[g] \o @]

Next ==
  \/ \E n \in Node, h \in ListHead : AddFirst(n, h) \/ AddLast(n, h)
  \/ \E n, e \in Node : AddBefore(n, e)
  \/ \E n \in Node : Delete(n)
  \/ \E g, h \in ListHead : Splice(g, h)

Spec == Init /\ [][Next]_content
=============================================================================
