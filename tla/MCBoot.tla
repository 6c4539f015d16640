------------------------------- MODULE MCBoot -------------------------------
(* Pages of three bytes and big pages of 24.  Memory is a region whose      *)
(* bounds are inside pages, another one next to it or behind a gap, and a   *)
(* reserved one that fills it up to a multiple of the big page: four of     *)
(* them, which bootstrap.S maps, or five.  In the last two memory goes on   *)
(* so far behind those four that the page tables are set aside across their *)
(* end, or behind it; or there is no memory map.  The kernel and one or two *)
(* modules lie at the edges of regions and inside them.                     *)
EXTENDS Interrupts

MCFirmware ==
  {<<Region(a, n, "available"), Region(a + n + gap, 20, t), Region(a + n + gap + 20, m, "available"),
     Region(a + n + gap + 20 + m, end - (a + n + gap + 20 + m), "reserved")>> :
     a \in {0, 1}, n \in {31, 32}, gap \in {0, 1}, m \in {0, 40}, t \in {"available", "reserved"},
     end \in {96, 120}}
    \cup {<<Region(0, 64, "available"), Region(64, n, "available")>> : n \in {56, 80}}
    \cup {<<>>}

MCKernel == {<<l, l + n>> : l \in {0, 1, 4, 27, 30, 53}, n \in {2, 4, 22}}

Place(l, n, magic) == [range |-> <<l, l + n>>, magic |-> magic]

MCModules ==
  {<<>>} \cup {<<Place(l, n, TRUE)>> : l \in {0, 1, 5, 28, 31, 49, 60}, n \in {1, 4}}
    \cup {<<Place(9, n, k), Place(l, 4, TRUE)>> : n \in {1, 4}, k \in BOOLEAN, l \in {5, 13, 28}}

\* Bound: interrupts are looked at after one way of starting only.
MCOneStart ==
  phase \in {"sti", "running"} =>
    modules = <<>> /\ kernel = <<4, 6>> /\ Len(firmware) = 4 /\ firmware[1].base_addr = 1
      /\ firmware[1].length = 31 /\ firmware[2].base_addr = 32 /\ firmware[2].type = "available"
      /\ firmware[3].length = 40 /\ get_memory_size(firmware) = 96

MCFault == 0 .. 31 \ {15, 21, 29}
MCRaised == {<<"master", 0>>, <<"master", 1>>, <<"slave", 0>>}
=============================================================================
